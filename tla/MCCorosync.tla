----------------------------- MODULE MCCorosync -----------------------------
(* Values for the constants of Corosync.                                   *)
EXTENDS Corosync, TLC

CONSTANTS Edits, Removes, Deletes, Errors, Failures, Outages

MCBudget == [edit |-> Edits, remove |-> Removes, delete |-> Deletes,
             error |-> Errors, failure |-> Failures, outage |-> Outages]

\* Bounds: rollouts run side by side only while nothing but edits has happened,
\* and the first of the workers, which are alike, takes a job when all are idle.
FirstWorker == CHOOSE w \in Workers : TRUE
EditsAlone == \A b \in BudgetNames \ {"edit"} : spent'[b] = 0
Bounded == /\ overlapped' => EditsAlone
           /\ ~Busy /\ Busy' => proc'[FirstWorker].pc # "idle"

MCSpec ==
  /\ Init /\ [][Next /\ Bounded]_vars
  /\ \A p \in Workers : WF_vars(JobStep(p) /\ Bounded)
  /\ \A n \in Nodes : WF_vars((\E p \in Workers : StartPersist(p, n)) /\ Bounded)

=============================================================================

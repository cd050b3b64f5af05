--------------------------- MODULE MCDefinitions ---------------------------
(***************************************************************************)
(* Two situations of Virtualmachine in one run: jobs side by side while a  *)
(* node drops out, and a scan beside a job while a node changes its        *)
(* cluster or a command fails.                                             *)
(***************************************************************************)
EXTENDS MCVirtualmachine

VARIABLE part

\* Bounds of a step in each of them.  The workers are alike: the first one takes a
\* job when all are idle.
Bounded ==
  /\ (\A w \in Workers : proc[w] = Idle) => \A w \in Workers \ {w1} : proc'[w] = Idle
  /\ part = "jobs" => /\ spent'["move"] = 0 /\ spent'["ask"] = 0
                      /\ \A s \in Scanners : proc'[s] = Idle
  /\ part = "scan" => /\ spent'["outage"] = 0 /\ spent'["edit"] + spent'["remove"] <= 1
                      /\ spent'["move"] + spent'["ask"] <= 1
                      /\ \A w \in Workers \ {w1} : proc'[w] = Idle

MCInit == Init /\ part \in {"jobs", "scan"}

MCSpec == MCInit /\ [][Next /\ Bounded /\ UNCHANGED part]_<<vars, part>>

=============================================================================

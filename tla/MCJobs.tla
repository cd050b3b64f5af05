------------------------------- MODULE MCJobs -------------------------------
(***************************************************************************)
(* The jobs of the three server modules come to an end.  The modules share *)
(* no state, so an execution picks one and runs it; the processes and the  *)
(* job queue of that module are fair, as its FairSpec says.                *)
(***************************************************************************)
EXTENDS MCVirtualmachine

CONSTANTS
  DrbdDisks, Webs, Pair, MaxPolls, NoDisk, Swallows, Kills,                  \* Drbd
  Hosts, NodeEdits, NodeRemoves, NodeDeletes, NodeErrors, NodeFailures,
  NodeOutages, MaxFaults                                                     \* Corosync

VARIABLES
  part,
  live, removed, counter, place, linked, child, diskJobs, reached, config, link, msRole,
  volume, web, diskProc, diskSpent, raced, sharedDisks, expired, stranded,
  members, gone, address, nodeJobs, online, text, corosync, pacemaker, maintenance, nodeProc,
  nodeSpent, sharedCluster

DrbdBudget == [remove |-> Removes, outage |-> Outages, swallow |-> Swallows, kill |-> Kills]
DrbdPlaces == [{"A", "B"} -> Nodes]
NodeBudget == [edit |-> NodeEdits, remove |-> NodeRemoves, delete |-> NodeDeletes,
               error |-> NodeErrors, failure |-> NodeFailures, outage |-> NodeOutages]

D == INSTANCE Drbd WITH
  Disks <- DrbdDisks, Places <- DrbdPlaces, Workers <- Pair, Budget <- DrbdBudget,
  queue <- diskJobs, up <- reached, role <- msRole, proc <- diskProc, spent <- diskSpent,
  overlapped <- sharedDisks
C == INSTANCE MCCorosync WITH
  Nodes <- Hosts, Workers <- Pair, Budget <- NodeBudget,
  Edits <- NodeEdits, Removes <- NodeRemoves, Deletes <- NodeDeletes, Errors <- NodeErrors,
  Failures <- NodeFailures, Outages <- NodeOutages,
  queue <- nodeJobs, up <- online, proc <- nodeProc, spent <- nodeSpent,
  overlapped <- sharedCluster

diskVars == <<live, removed, counter, place, linked, child, diskJobs, reached, config, link,
              msRole, volume, web, diskProc, diskSpent, raced, sharedDisks, expired, stranded>>
clusterVars == <<members, gone, address, nodeJobs, online, text, corosync, pacemaker,
                 maintenance, nodeProc, nodeSpent, sharedCluster>>

-----------------------------------------------------------------------------

MCNext ==
  /\ UNCHANGED part
  /\ \/ part = "machines" /\ Next /\ UNCHANGED <<diskVars, clusterVars>>
     \/ part = "disks" /\ D!Next /\ UNCHANGED <<vars, clusterVars>>
     \/ part = "nodes" /\ C!Next /\ C!Bounded /\ UNCHANGED <<vars, diskVars>>

MachineFairness ==
  /\ \A p \in Procs : WF_vars(part = "machines" /\ ProcessStep(p))
  /\ \A k \in JobKinds, v \in Vms :
       WF_vars(part = "machines" /\ \E w \in Workers : StartJob(w, k, v))
DiskFairness ==
  /\ \A p \in Pair : WF_diskVars(part = "disks" /\ D!JobStep(p))
  /\ \A k \in D!Kinds, d \in DrbdDisks :
       WF_diskVars(part = "disks" /\ \E p \in Pair : D!StartJob(p, k, d))
NodeFairness ==
  /\ \A p \in Pair : WF_clusterVars(part = "nodes" /\ C!JobStep(p) /\ C!Bounded)
  /\ \A n \in Hosts :
       WF_clusterVars(part = "nodes" /\ (\E p \in Pair : C!StartPersist(p, n)) /\ C!Bounded)

\* The cluster begins with pacemaker on its members (the other states in which it
\* may begin are those of the run of MCCorosync).
MCInit == /\ part \in {"machines", "disks", "nodes"}
          /\ Init /\ D!Init /\ C!Init
          /\ pacemaker = members /\ (part # "nodes" => members = Hosts)

MCSpec ==
  /\ MCInit /\ [][MCNext]_<<part, vars, diskVars, clusterVars>>
  /\ MachineFairness /\ DiskFairness /\ NodeFairness

-----------------------------------------------------------------------------

\* Drbd: a set-up or a removal of a disk ends, connected or not.
DiskJobsEnd == D!JobsEnd
\* Corosync: a rollout and a removal of a node end, whatever fails.
NodeJobsEnd == C!JobsEnd

=============================================================================

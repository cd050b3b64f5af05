-------------------------- MODULE MCVirtualmachine --------------------------
(* Values for the constants of Virtualmachine.                             *)
EXTENDS Virtualmachine, TLC

CONSTANTS n1, n2, v1, v2, w1, w2, s1, c1, c2,
          Edits, Removes, Disks, Outages, Moves, Writes, Asks

MCBudget == [edit |-> Edits, remove |-> Removes, disk |-> Disks,
             outage |-> Outages, move |-> Moves, write |-> Writes,
             ask |-> Asks]

\* All nodes in one cluster, or one node each.
OneCluster == [n \in Nodes |-> c1]
TwoClusters == [n \in Nodes |-> IF n = n1 THEN c1 ELSE c2]

=============================================================================

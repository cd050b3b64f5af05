----------------------------- MODULE MCWebapp ------------------------------
(***************************************************************************)
(* Values for the constants of Webapp.  The parts that are not followed    *)
(* begin with one state, and the first row of a list is there.             *)
(***************************************************************************)
EXTENDS Webapp, TLC

CONSTANTS Flushes, DeletedRows, Reads

MCBudget == [flush |-> Flushes, delete |-> DeletedRows, load |-> Reads]
MCNames == {"Virtualmachine", "Node", "Storage", "Cluster", "Network", "User"}
MCItems == [s \in {"Disk", "Interface"} |-> IF s = "Disk" THEN {1} ELSE {2}]
MCStorageOf == [i \in {1} |-> 1]

MCInit ==
  /\ WebappInit
  /\ server.rows[1] = 0 /\ server.rows[2] # 1
  /\ part # "list" => name = "Network" /\ server.rows[2] = 0
  /\ part # "disks" => \A i \in DOMAIN owner : owner[i] = 0

MCSpec ==
  /\ MCInit /\ [][WebappNext]_<<part, vars, listVars, diskVars, jobVars>>
  /\ FeedFairness /\ JobFairness

=============================================================================

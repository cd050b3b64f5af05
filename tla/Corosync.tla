------------------------------ MODULE Corosync ------------------------------
(***************************************************************************)
(* How openPCM rolls a new corosync configuration out to the nodes of one  *)
(* cluster, and takes a node out of it (NodeService.persistTasks and       *)
(* removeTasks, ClusterService.setMaintenanceMode).                        *)
(*                                                                         *)
(* A persist job of any node rewrites the configuration of every node of   *)
(* the cluster and restarts corosync and pacemaker there, one node after   *)
(* the other, with the cluster in maintenance so that pacemaker leaves     *)
(* the guests alone.  Jobs of several nodes run at the same time.          *)
(* Sessions are not cached here: a node is reached when it is up.  What a  *)
(* remembered failure of ConnectionService adds is a job that ends early,  *)
(* which JobFails covers.                                                  *)
(***************************************************************************)
EXTENDS Integers, Sequences, FiniteSets, Functions

CONSTANTS
  Nodes,     \* ids of nodes
  Workers,   \* console processes: jobs, or commands run by hand
  NoNode,
  Budget,    \* bounds of what users and failures may do
  MaxFaults  \* bound of what happens in spite of the jobs, altogether

Faults == {"delete", "error", "failure", "outage"}
BudgetNames == {"edit", "remove"} \cup Faults

ASSUME CorosyncAssumption ==
  /\ IsFiniteSet(Nodes) /\ Nodes \subseteq Nat /\ NoNode \notin Nodes
  /\ Budget \in [BudgetNames -> Nat] /\ MaxFaults \in Nat

VARIABLES
  \* the database
  members,    \* the nodes that have a row
  gone,       \* the nodes whose row was deleted (a new row gets another id)
  address,    \* address[n]: how often the addresses of n were saved, 0 for never
  queue,      \* queue[n]: pending persist jobs
  \* the nodes
  up,         \* the nodes SSH reaches
  text,       \* text[n]: /etc/corosync/corosync.conf, the addresses it lists, or Missing
  corosync, pacemaker,   \* the nodes on which the daemon runs
  maintenance,           \* the attribute maintenance-mode of the cluster
  \* the processes
  proc,
  \* bounds and history
  spent,
  overlapped  \* two processes have worked on the cluster at once

dbVars   == <<members, gone, address, queue>>
nodeVars == <<up, text, corosync, pacemaker, maintenance>>
histVars == <<spent, overlapped>>
vars     == <<dbVars, nodeVars, proc, histVars>>

-----------------------------------------------------------------------------

Missing == [n \in Nodes |-> -1]   \* the file was moved away or removed
Default == [n \in Nodes |-> 0]    \* the file the distribution installed

\* What getCorosyncConfig writes when the rows are as the function a says.
Listing(a) == [n \in Nodes |-> IF n \in members THEN a[n] ELSE 0]
Current == Listing(address)

\* Steps of persistTasks (move to stonith) and of removeTasks (leave to rejoin).
PCs == {"idle", "compare", "move", "write", "ensure", "stopPacemaker",
        "stopCorosync", "startCorosync", "startPacemaker", "normal", "stonith",
        "leave", "leavePacemaker", "leaveCorosync", "unlink", "delete", "rejoin"}
Process == [pc : PCs, node : Nodes \cup {NoNode}, seen : [Nodes -> Nat],
            loaded : BOOLEAN, list : Seq(Nodes), rest : Seq(Nodes), ran : SUBSET Nodes]
Idle == [pc |-> "idle", node |-> NoNode, seen |-> [n \in Nodes |-> 0], loaded |-> FALSE,
         list |-> <<>>, rest |-> <<>>, ran |-> {}]

\* The rows that the process r has after it queries the cluster's nodes: a row
\* it has loaded before stays as it was then.
Loads(r) == [n \in Nodes |-> IF r.seen[n] # 0 THEN r.seen[n] ELSE Current[n]]

\* Cluster::$nodes as a process loads it, in the order of the ids.
Listed == CHOOSE list \in [1 .. Cardinality(members) -> members] :
            \A i, j \in DOMAIN list : i < j => list[i] < list[j]

Becomes(p, rec) == proc' = [proc EXCEPT ![p] = rec]

Spend(b) == /\ spent[b] < Budget[b]
            /\ b \in Faults => SumFunctionOnSet(spent, Faults) < MaxFaults
            /\ spent' = [spent EXCEPT ![b] = @ + 1]

Busy == \E p \in Workers : proc[p].pc # "idle"

ElementsOf(s) == {s[i] : i \in DOMAIN s}

-----------------------------------------------------------------------------
(* The web process.                                                        *)

\* POST or PUT of a node: its addresses change what every node's file says.
EditNode(n) ==
  /\ n \in members \/ n \notin gone
  /\ Spend("edit")
  /\ members' = members \cup {n}
  /\ address' = [address EXCEPT ![n] = @ + 1]
  /\ queue' = [queue EXCEPT ![n] = @ + 1]
  /\ UNCHANGED <<gone, nodeVars, proc, overlapped>>

\* deleteNodesAction deletes the row; nothing happens on the nodes.
DeleteNode(n) ==
  /\ n \in members
  /\ Spend("delete")
  /\ members' = members \ {n}
  /\ gone' = gone \cup {n}
  /\ UNCHANGED <<address, queue, nodeVars, proc, overlapped>>

-----------------------------------------------------------------------------
(* Jobs.                                                                   *)

\* The command loads the row of its node.
Begin(p, pc, n) ==
  /\ proc[p].pc = "idle"
  /\ Becomes(p, [Idle EXCEPT !.pc = pc, !.node = n, !.seen[n] = address[n]])
  /\ overlapped' = (overlapped \/ Busy)

Pending(n) == queue[n] > 0

\* A persist job; the command throws when the row is gone.
StartPersist(p, n) ==
  /\ proc[p].pc = "idle" /\ Pending(n)
  /\ queue' = [queue EXCEPT ![n] = @ - 1]
  /\ IF n \in members THEN Begin(p, "compare", n)
                      ELSE UNCHANGED <<proc, overlapped>>
  /\ UNCHANGED <<members, gone, address, nodeVars, spent>>

\* "zevirt:node remove", run by hand.
StartRemove(p, n) ==
  /\ n \in members
  /\ Spend("remove")
  /\ Begin(p, "leave", n)
  /\ UNCHANGED <<dbVars, nodeVars>>

\* The node a step works on: the head of the list, or the job's own node.
Target(p) == IF proc[p].rest # <<>> THEN Head(proc[p].rest) ELSE proc[p].node

Goto(p, pc) == Becomes(p, [proc[p] EXCEPT !.pc = pc])

\* An exec throws: the node is not reached, the file to move is missing,
\* corosync has no configuration, or a command wrote to stderr.
Throws(p) ==
  \/ Target(p) \notin up
  \/ proc[p].pc = "move" /\ text[Target(p)] = Missing
  \/ proc[p].pc = "startCorosync" /\ text[Target(p)] = Missing

JobFails(p) ==
  /\ proc[p].pc \in PCs \ {"idle", "normal", "unlink", "delete", "rejoin"}
  /\ \/ Throws(p) /\ UNCHANGED spent
     \/ Spend("failure")
  /\ Becomes(p, Idle)
  /\ UNCHANGED <<dbVars, nodeVars, overlapped>>

\* setMaintenanceMode: crm_attribute on the first node of the list that
\* answers and runs pacemaker; if there is none, or the command fails
\* everywhere, nothing happens and nobody is told.
SetMaintenance(list, value) ==
  \/ /\ maintenance' = IF ElementsOf(list) \cap up \cap pacemaker # {}
                       THEN value ELSE maintenance
     /\ UNCHANGED spent
  \/ /\ Spend("error")
     /\ UNCHANGED maintenance

\* The file on the node is compared with the configuration of the rows.  The
\* collection of nodes that a rollout goes through is loaded once.
Compare(p) ==
  LET new == text[proc[p].node] # Listing(Loads(proc[p]))
  IN  /\ proc[p].pc = "compare"
      /\ proc[p].node \in up
      /\ Becomes(p, [proc[p] EXCEPT
                       !.pc = IF new /\ Listed # <<>> THEN "move" ELSE "stonith",
                       !.seen = Loads(proc[p]), !.loaded = TRUE, !.list = Listed,
                       !.rest = IF new THEN Listed ELSE <<>>, !.ran = pacemaker])
      /\ UNCHANGED <<dbVars, nodeVars, histVars>>

\* mv corosync.conf corosync.conf.bak
MoveConfig(p) ==
  /\ proc[p].pc = "move"
  /\ ~Throws(p)
  /\ text' = [text EXCEPT ![Target(p)] = Missing]
  /\ Goto(p, "write")
  /\ UNCHANGED <<dbVars, up, corosync, pacemaker, maintenance, histVars>>

\* getCorosyncConfig queries the nodes again; filePutContents swallows a failed
\* write.
WriteConfig(p) ==
  /\ proc[p].pc = "write"
  /\ \/ /\ Target(p) \in up
        /\ text' = [text EXCEPT ![Target(p)] = Listing(Loads(proc[p]))]
        /\ UNCHANGED spent
     \/ /\ Target(p) \notin up
        /\ UNCHANGED <<text, spent>>
     \/ /\ Spend("error")
        /\ UNCHANGED text
  /\ Becomes(p, [proc[p] EXCEPT !.pc = "ensure", !.seen = Loads(proc[p])])
  /\ UNCHANGED <<dbVars, up, corosync, pacemaker, maintenance, overlapped>>

\* 'Ensure cluster is in maintenance', if pacemaker runs on the node.
EnsureForgotten(p) ==   \* mutant: pacemaker is stopped without it
  /\ proc[p].pc = "ensure" /\ Target(p) \in up
  /\ UNCHANGED <<maintenance, spent>>
  /\ Goto(p, IF Target(p) \in pacemaker THEN "stopPacemaker" ELSE "stopCorosync")
  /\ UNCHANGED <<dbVars, up, text, corosync, pacemaker, overlapped>>
Ensure(p) ==
  /\ proc[p].pc = "ensure"
  /\ Target(p) \in up
  /\ \/ /\ Target(p) \in pacemaker
        /\ SetMaintenance(proc[p].list, TRUE)
        /\ Goto(p, "stopPacemaker")
     \/ /\ Target(p) \notin pacemaker
        /\ UNCHANGED <<maintenance, spent>>
        /\ Goto(p, "stopCorosync")
  /\ UNCHANGED <<dbVars, up, text, corosync, pacemaker, overlapped>>

\* /etc/init.d/pacemaker stop
StopPacemaker(p, from, to) ==
  /\ proc[p].pc = from
  /\ Target(p) \in up
  /\ pacemaker' = pacemaker \ {Target(p)}
  /\ Goto(p, to)
  /\ UNCHANGED <<dbVars, up, text, corosync, maintenance, histVars>>

\* /etc/init.d/corosync stop, if it runs
StopCorosync(p, from, to) ==
  /\ proc[p].pc = from
  /\ Target(p) \in up
  /\ corosync' = corosync \ {Target(p)}
  /\ Goto(p, to)
  /\ UNCHANGED <<dbVars, up, text, pacemaker, maintenance, histVars>>

StartCorosync(p) ==
  /\ proc[p].pc = "startCorosync"
  /\ ~Throws(p)
  /\ corosync' = corosync \cup {Target(p)}
  /\ Goto(p, "startPacemaker")
  /\ UNCHANGED <<dbVars, up, text, pacemaker, maintenance, histVars>>

NodeAgain(p) == UNCHANGED proc          \* mutant: the loop does not advance
\* The last command for a node; then the next node, or the end of the loop.
NextNode(p) ==
  LET rest == Tail(proc[p].rest)
  IN  Becomes(p, [proc[p] EXCEPT !.rest = rest,
                                 !.pc = IF rest # <<>> THEN "move" ELSE "normal"])

StartPacemakerLater(p) ==   \* mutant: pacemaker is not started again
  /\ proc[p].pc = "startPacemaker" /\ Target(p) \in up
  /\ NextNode(p)
  /\ UNCHANGED <<dbVars, nodeVars, histVars>>
StartPacemaker(p) ==
  /\ proc[p].pc = "startPacemaker"
  /\ Target(p) \in up
  /\ pacemaker' = pacemaker \cup {Target(p)}
  /\ NextNode(p)
  /\ UNCHANGED <<dbVars, up, text, corosync, maintenance, histVars>>

NormalForgotten(p) ==   \* mutant: the cluster stays in maintenance
  /\ proc[p].pc = "normal" /\ Goto(p, "stonith")
  /\ UNCHANGED <<dbVars, nodeVars, histVars>>
\* 'Bringing cluster back to normal mode'.
Normal(p) ==
  /\ proc[p].pc = "normal"
  /\ SetMaintenance(proc[p].list, FALSE)
  /\ Goto(p, "stonith")
  /\ UNCHANGED <<dbVars, up, text, corosync, pacemaker, overlapped>>

\* The stonith resource and the storages; the job ends.
Stonith(p) ==
  /\ proc[p].pc = "stonith"
  /\ proc[p].node \in up
  /\ Becomes(p, Idle)
  /\ UNCHANGED <<dbVars, nodeVars, histVars>>

\* removeTasks.  Only setMaintenanceMode loads the collection of nodes.
Leave(p) ==
  /\ proc[p].pc = "leave"
  /\ proc[p].node \in up
  /\ \/ /\ proc[p].node \in pacemaker
        /\ SetMaintenance(Listed, TRUE)
        /\ Becomes(p, [proc[p] EXCEPT !.pc = "leavePacemaker", !.loaded = TRUE,
                                      !.list = Listed])
     \/ /\ proc[p].node \notin pacemaker
        /\ UNCHANGED <<maintenance, spent>>
        /\ Goto(p, "leaveCorosync")
  /\ UNCHANGED <<dbVars, up, text, corosync, pacemaker, overlapped>>

\* rm corosync.conf; errors are swallowed.
Unlink(p) ==
  /\ proc[p].pc = "unlink"
  /\ text' = IF proc[p].node \in up THEN [text EXCEPT ![proc[p].node] = Missing] ELSE text
  /\ Goto(p, "delete")
  /\ UNCHANGED <<dbVars, up, corosync, pacemaker, maintenance, histVars>>

DeleteRow(p) ==
  /\ proc[p].pc = "delete"
  /\ members' = members \ {proc[p].node}
  /\ gone' = gone \cup {proc[p].node}
  /\ Goto(p, "rejoin")
  /\ UNCHANGED <<address, queue, nodeVars, histVars>>

\* The cluster's collection, as far as it was loaded: it still has the node.
Collection(p) == IF proc[p].loaded THEN proc[p].list ELSE Listed

\* If pacemaker runs on $nodes[0], the cluster leaves maintenance.  $nodes[0]
\* may be the node just removed.  When it is not reached the process ends; the
\* attempt marks it dirty, and persist inserts a removed node again.
Rejoin(p) ==
  LET nodes == Collection(p)
      first == Head(nodes)
      cut   == nodes # <<>> /\ first \notin up
  IN  /\ proc[p].pc = "rejoin"
      /\ members' = IF cut THEN members \cup {first} ELSE members
      /\ IF nodes # <<>> /\ first \in up \cap pacemaker
         THEN SetMaintenance(nodes, FALSE)
         ELSE UNCHANGED <<maintenance, spent>>
      /\ Becomes(p, Idle)
      /\ UNCHANGED <<gone, address, queue, up, text, corosync, pacemaker, overlapped>>

-----------------------------------------------------------------------------
(* The environment.                                                        *)

NodeDown(n) == /\ n \in up
               /\ Spend("outage")
               /\ up' = up \ {n}
               /\ UNCHANGED <<dbVars, text, corosync, pacemaker, maintenance, proc, overlapped>>

NodeUp(n) == /\ n \notin up
             /\ up' = up \cup {n}
             /\ UNCHANGED <<dbVars, text, corosync, pacemaker, maintenance, proc, histVars>>

-----------------------------------------------------------------------------

\* The first nodes have rows that were rolled out, with whatever daemons run.
Init ==
  /\ members \in (SUBSET Nodes) \ {{}}
  /\ gone = {} /\ address = [n \in Nodes |-> IF n \in members THEN 1 ELSE 0]
  /\ queue = [n \in Nodes |-> 0]
  /\ up = Nodes
  /\ text = [n \in Nodes |-> IF n \in members THEN Current ELSE Default]
  /\ corosync = Nodes
  /\ pacemaker \in SUBSET Nodes
  /\ maintenance = FALSE
  /\ proc = [p \in Workers |-> Idle]
  /\ spent = [b \in BudgetNames |-> 0]
  /\ overlapped = FALSE

JobStep(p) ==
  \/ Compare(p) \/ MoveConfig(p) \/ WriteConfig(p) \/ Ensure(p)
  \/ StopPacemaker(p, "stopPacemaker", "stopCorosync")
  \/ StopCorosync(p, "stopCorosync", "startCorosync")
  \/ StartCorosync(p) \/ StartPacemaker(p) \/ Normal(p) \/ Stonith(p)
  \/ Leave(p)
  \/ StopPacemaker(p, "leavePacemaker", "leaveCorosync")
  \/ StopCorosync(p, "leaveCorosync", "unlink")
  \/ Unlink(p) \/ DeleteRow(p) \/ Rejoin(p)
  \/ JobFails(p)

Next ==
  \/ \E n \in Nodes : EditNode(n) \/ DeleteNode(n) \/ NodeDown(n) \/ NodeUp(n)
  \/ \E p \in Workers : \/ \E n \in Nodes : StartPersist(p, n) \/ StartRemove(p, n)
                        \/ JobStep(p)

Spec == Init /\ [][Next]_vars

\* A console process that was started keeps running, and the queue dispatches.
FairSpec == /\ Spec
            /\ \A p \in Workers : WF_vars(JobStep(p))
            /\ \A n \in Nodes : WF_vars(\E p \in Workers : StartPersist(p, n))

-----------------------------------------------------------------------------
(* Properties.                                                             *)

\* Nothing was swallowed, nothing failed, and one process worked at a time.
Undisturbed == /\ spent["error"] = 0 /\ spent["failure"] = 0 /\ spent["outage"] = 0
               /\ ~overlapped

\* Pacemaker is stopped on a node only while the cluster is in maintenance
\* ('Ensure cluster is in maintenance'): else it would take the guests of the
\* node down.  crm_attribute may have failed unseen, a second process may have
\* brought the cluster back to normal mode, and a node whose row is gone may be
\* the only one that runs pacemaker.
GuardedRestart ==
  [][pacemaker \ pacemaker' # {} =>
       \/ maintenance
       \/ spent["error"] > 0 \/ overlapped \/ (pacemaker \ pacemaker') \subseteq gone]_vars

\* The steps for the node at the head of the list, the nodes before it, and where
\* a rollout has pacemaker down.
Rolling == {"move", "write", "ensure", "stopPacemaker", "stopCorosync",
            "startCorosync", "startPacemaker"}
Done(r) == ElementsOf(r.list) \ ElementsOf(r.rest)
Down(r) == (r.ran \cup Done(r)) \ pacemaker

\* The rollout goes node by node ("foreach ($node->getCluster()->getNodes()").
\* At any step of a job pacemaker is down on one node at most, the one the job
\* works on, among those that ran it when the job began and those the job has
\* finished: whatever fails, whatever died before, and whichever rows change, as
\* long as no second process works on the cluster.
RollingRestart ==
  \A p \in Workers : ~overlapped =>
    /\ proc[p].pc \in Rolling => Down(proc[p]) \subseteq {Target(p)}
    /\ proc[p].pc \in {"move", "write", "ensure", "normal"} => Down(proc[p]) = {}

\* Pacemaker is stopped in maintenance ('Ensure cluster is in maintenance'), when
\* no command fails and no node drops out.
MaintenanceEnsured ==
  [][\A p \in Workers :
        /\ proc[p].pc = "stopPacemaker" /\ proc'[p].pc = "stopCorosync"
        /\ \A b \in Faults : spent[b] = 0
        => maintenance]_vars

\* When nothing is pending or running, every node has the configuration of the
\* present rows: rollouts of several edits, in any order, leave no node behind.
ConfigsAgree ==
  Undisturbed /\ ~Busy /\ (\A n \in Nodes : queue[n] = 0)
  /\ spent["remove"] = 0 /\ spent["delete"] = 0
    => \A n \in members : text[n] = Current

\* An undisturbed cluster is in maintenance only while a process works on it,
\* if no node was removed.
MaintenanceEnds ==
  Undisturbed /\ spent["remove"] = 0 /\ maintenance => Busy

\* What the rollouts leave behind: one configuration, and no maintenance.
RolloutsEnd == ConfigsAgree /\ MaintenanceEnds

\* The removal of a node leaves the cluster in normal mode if pacemaker runs on
\* a node that stays ('Bringing cluster back to normal mode').
NormalAfterRemoval ==
  [][\A p \in Workers :
        proc[p].pc = "rejoin" /\ Undisturbed /\ members \cap pacemaker # {}
          => ~maintenance']_vars

\* Every job is taken and every process ends, whatever fails: when users ask for
\* nothing more, a time comes at which nothing is left to do.
JobsEnd == (Busy \/ \E n \in Nodes : queue[n] > 0) ~> (~Busy /\ \A n \in Nodes : queue[n] = 0)

=============================================================================

--------------------------- MODULE Virtualmachine ---------------------------
(***************************************************************************)
(* How openPCM keeps the libvirt definitions of its virtual machines on    *)
(* the nodes of their cluster (VirtualmachineService, the parts of         *)
(* NodeService, DiskService, ClusterService and ConnectionService it       *)
(* calls, and the controllers and console commands that start them).       *)
(*                                                                         *)
(* The web process writes rows and enqueues jobs.  Every job is a console  *)
(* process of its own that loads the rows it needs once, keeps that copy   *)
(* (Doctrine's identity map) and one SSH session per node, and talks to    *)
(* the nodes one after the other; jobs and scans run at the same time and  *)
(* nothing locks a virtual machine.                                        *)
(***************************************************************************)
EXTENDS Naturals, FiniteSets

CONSTANTS
  Nodes, Vms, Clusters,   \* rows of the three tables
  HaClusters,             \* the clusters with the flag ha
  InitialCluster,         \* the cluster of each node at the start
  Workers,                \* processes of the job queue
  Scanners,               \* consoles from which "zevirt:node scan" is run
  ScanNodes,              \* the nodes they scan
  NoNode, NoVm,           \* null references
  Budget,                 \* bounds of what users and failures may do
  MaxChanges              \* bound of the edits and removals together

BudgetNames == {"edit", "remove", "disk", "outage", "move", "write", "ask"}

ASSUME ConstantsAssumption ==
  /\ HaClusters \subseteq Clusters
  /\ InitialCluster \in [Nodes -> Clusters]
  /\ Workers \cap Scanners = {}
  /\ ScanNodes \subseteq Nodes
  /\ NoNode \notin Nodes
  /\ NoVm \notin Vms
  /\ Budget \in [BudgetNames -> Nat] /\ MaxChanges \in Nat

VARIABLES
  \* the database
  rows,       \* rows[v]: the virtual machine's row, version 0 when there is none
  deleted,    \* ids whose row was deleted (never used again: AUTO increment)
  clusterOf,  \* clusterOf[n]: the node's cluster
  dirty,      \* the nodes whose flag dirty is set
  queue,      \* queue[k][v]: pending jobs of kind k for v
  \* the nodes
  up,         \* the nodes SSH reaches
  files,      \* files[n][v]: /var/lib/libvirt/definitions/vm_<v>.xml
  defs,       \* defs[n][v]: libvirt's definition, version 0 when there is none
  running,    \* running[v]: the node the guest runs on
  volumes,    \* the machines whose disk volume exists on its storage
  role,       \* role[v]: target-role of the pacemaker resource
  nextUuid,   \* uuids libvirt has generated
  \* the processes
  proc,
  \* bounds and history
  spent,      \* how much of each Budget is used
  promised,   \* promised[n][v]: newest version a successful job saved to n
  undone,     \* <<n, v>> that a remove or a scan undefined
  overlapped  \* machines that two processes held in memory at once

Procs == Workers \cup Scanners

dbVars   == <<rows, deleted, clusterOf, dirty, queue>>
nodeVars == <<up, files, defs, running, volumes, role, nextUuid>>
histVars == <<spent, promised, undone, overlapped>>
vars     == <<dbVars, nodeVars, proc, histVars>>

-----------------------------------------------------------------------------
(* The values.                                                             *)

NodeRef == Nodes \cup {NoNode}
States  == {"", "running", "shut off"}
JobKinds == {"persist", "disk", "remove"}

\* Entity/VirtualMachine.  version stands for what a user edits (the fields and
\* the list of disks), uuid 0 for the empty uuid, disk for the node of its
\* logical disk.
Row == [home : NodeRef, default : NodeRef, disk : NodeRef,
        version : Nat, uuid : Nat, state : States]
NullRow == [home |-> NoNode, default |-> NoNode, disk |-> NoNode,
            version |-> 0, uuid |-> 0, state |-> ""]

Def == [version : Nat, uuid : Nat]
NoDef == [version |-> 0, uuid |-> 0]

\* What a console process holds: the rows it loaded, the SSH sessions
\* ConnectionService caches, and where it is.
Session == {"none", "open", "dead"}
PCs == {"idle", "create", "disk", "define", "load", "uuid", "pacemaker",
        "check", "undefine", "delete", "query", "classify", "exit"}
Process == [pc : PCs, kind : JobKinds \cup {"none", "scan"},
            vm : Vms \cup {NoVm}, node : NodeRef,
            snap : [Vms -> Row], ha : BOOLEAN, targets : SUBSET Nodes,
            todo : SUBSET (Nodes \X Vms), at : (Nodes \X Vms) \cup {<<>>},
            conn : [Nodes -> Session],
            shown : SUBSET Vms, live : SUBSET Vms, handled : SUBSET Vms]
Idle == [pc |-> "idle", kind |-> "none", vm |-> NoVm, node |-> NoNode,
         snap |-> [v \in Vms |-> NullRow], ha |-> FALSE, targets |-> {},
         todo |-> {}, at |-> <<>>, conn |-> [n \in Nodes |-> "none"],
         shown |-> {}, live |-> {}, handled |-> {}]

-----------------------------------------------------------------------------
(* Rows and the nodes of a machine.                                        *)

Live(v) == rows[v].version > 0

IsHa(v) == clusterOf[rows[v].home] \in HaClusters

Members(c) == {n \in Nodes : clusterOf[n] = c}

\* The nodes persistTasks and removeTasks loop over.
Targets(v) == IF IsHa(v) THEN Members(clusterOf[rows[v].home])
                         ELSE {rows[v].home}

NodeVms(n) == {v \in Vms : Live(v) /\ rows[v].home = n}  \* mutant: WHERE b.id instead of b.cluster
ClusterVms(n) == {v \in Vms : Live(v) /\ clusterOf[rows[v].home] = clusterOf[n]}

\* v is in the identity map of p.
Holds(p, v) == proc[p].snap[v].version > 0

\* The machines of S that some process other than p holds.
HeldByOthers(p, S) == {v \in S : \E q \in Procs \ {p} : Holds(q, v)}

\* The state of process p after the step.
Becomes(p, rec) == proc' = [proc EXCEPT ![p] = rec]

Spend(b) == /\ spent[b] < Budget[b]
            /\ b \in {"edit", "remove"} => spent["edit"] + spent["remove"] < MaxChanges
            /\ spent' = [spent EXCEPT ![b] = @ + 1]

Enqueue(k, v) == queue' = [queue EXCEPT ![k][v] = @ + 1]

-----------------------------------------------------------------------------
(* SSH sessions.  A process connects to a node once; a session that could  *)
(* not be opened stays in the cache and every later command on it throws.  *)

ConnTo(p, n) == IF proc[p].conn[n] # "none" THEN proc[p].conn[n]
                ELSE IF n \in up THEN "open" ELSE "dead"

Conns(p, S) == [n \in Nodes |-> IF n \in S THEN ConnTo(p, n) ELSE proc[p].conn[n]]

DeadAmong(p, S) == {n \in S : ConnTo(p, n) = "dead"}

\* getConnection for every node of S, and the flag it sets on failure.
MarkDirtyForgotten(p, S) == UNCHANGED dirty   \* mutant: setDirty is not called
MarkDirty(p, S) == dirty' = dirty \cup DeadAmong(p, S)

\* A command on n gets through.
Reaches(p, n) == ConnTo(p, n) = "open" /\ n \in up

\* What "virsh dominfo" says when it answers: the guest runs on the node asked.
SeesRunningOnDefault(p, v) ==   \* mutant: asks nodeDefault instead of node
  LET d == proc[p].snap[v].default
  IN  Reaches(p, d) /\ running[v] = d
SeesRunning(p, v) == LET h == proc[p].snap[v].home
                     IN  Reaches(p, h) /\ running[v] = h

\* VirtualmachineService.isRunning.  Whatever dominfo throws is caught and
\* taken for "not running": a node that is not reached, and a command that
\* fails on a node that is (a libvirtd that is restarted, say).
IsRunning(p, v, answer) ==
  \/ /\ answer = SeesRunning(p, v)
     /\ UNCHANGED spent
  \/ /\ SeesRunning(p, v)
     /\ answer = FALSE
     /\ Spend("ask")

-----------------------------------------------------------------------------
(* The web process.                                                        *)

\* POST of a virtual machine: the row and its persist job.
CreateVm(v, n) ==
  /\ ~Live(v) /\ v \notin deleted
  /\ rows' = [rows EXCEPT ![v] = [NullRow EXCEPT !.home = n, !.default = n,
                                                 !.version = 1]]
  /\ Enqueue("persist", v)
  /\ UNCHANGED <<deleted, clusterOf, dirty, nodeVars, proc, histVars>>

\* PUT of a virtual machine: other settings, and nodeDefault becomes node.
EditVm(v) ==
  /\ Live(v)
  /\ Spend("edit")
  /\ rows' = [rows EXCEPT ![v].version = @ + 1, ![v].default = rows[v].home]
  /\ Enqueue("persist", v)
  /\ UNCHANGED <<deleted, clusterOf, dirty, nodeVars, proc, promised, undone, overlapped>>

\* DELETE of a virtual machine: only a job; the row stays.
RequestRemove(v) ==
  /\ Live(v)
  /\ Spend("remove")
  /\ Enqueue("remove", v)
  /\ UNCHANGED <<rows, deleted, clusterOf, dirty, nodeVars, proc, promised, undone, overlapped>>

\* POST of a disk with action 'create': its row and the job that allocates it.
AddDisk(v) ==
  /\ Live(v) /\ rows[v].disk = NoNode /\ v \notin volumes
  /\ Spend("disk")
  /\ rows' = [rows EXCEPT ![v].disk = rows[v].home, ![v].version = @ + 1]
  /\ Enqueue("disk", v)
  /\ UNCHANGED <<deleted, clusterOf, dirty, nodeVars, proc, promised, undone, overlapped>>

\* PUT of a node with another cluster; the request connects to the node.
MoveNode(n, c) ==
  /\ clusterOf[n] # c
  /\ Spend("move")
  /\ clusterOf' = [clusterOf EXCEPT ![n] = c]
  /\ dirty' = IF n \in up THEN dirty ELSE dirty \cup {n}
  /\ UNCHANGED <<rows, deleted, queue, nodeVars, proc, promised, undone, overlapped>>

-----------------------------------------------------------------------------
(* The beginning and the end of a job.                                     *)

FirstPc(k, v) == CASE k = "persist" -> "define"
                   [] k = "disk"    -> "create"
                   [] k = "remove"  -> IF rows[v].disk # NoNode THEN "disk" ELSE "check"

PendingUnchecked(k, v) == TRUE   \* mutant: takes a job that is not there
Pending(k, v) == queue[k][v] > 0

\* The process that runs a job.
NewJob(k, v) ==
  [Idle EXCEPT !.pc = FirstPc(k, v), !.kind = k, !.vm = v,
               !.snap = [w \in Vms |-> IF w = v THEN rows[v] ELSE NullRow],
               !.ha = IsHa(v), !.targets = Targets(v), !.todo = Targets(v) \X {v}]

\* A worker starts the console command of a pending job: the entity is loaded,
\* and an exception ends the process when it is gone.
StartJob(w, k, v) ==
  /\ proc[w].pc = "idle"
  /\ Pending(k, v)
  /\ queue' = [queue EXCEPT ![k][v] = @ - 1]
  /\ IF Live(v) /\ (k = "disk" => rows[v].disk # NoNode)
     THEN /\ Becomes(w, NewJob(k, v))
          /\ overlapped' = overlapped \cup HeldByOthers(w, {v})
     ELSE UNCHANGED <<proc, overlapped>>
  /\ UNCHANGED <<rows, deleted, clusterOf, dirty, nodeVars, spent, promised, undone>>

\* Where a process goes once its list of definitions is worked off.
AfterDefine(p) == CASE proc[p].kind = "scan" -> "exit"
                    [] proc[p].kind # "scan" /\ proc[p].ha -> "pacemaker"
                    [] proc[p].kind = "remove" /\ ~proc[p].ha -> "check"
                    [] OTHER -> "exit"

\* The process returns 0.  A job that saved the machine thereby claims that
\* every target has the version it loaded.
Exit(p) ==
  /\ proc[p].pc = "exit"
  /\ Becomes(p, Idle)
  /\ promised' =
       [n \in Nodes |-> [v \in Vms |->
          IF /\ proc[p].kind \in {"persist", "disk"}
             /\ v = proc[p].vm /\ n \in proc[p].targets
             /\ proc[p].snap[v].version > promised[n][v]
          THEN proc[p].snap[v].version ELSE promised[n][v]]]
  /\ UNCHANGED <<dbVars, nodeVars, spent, undone, overlapped>>

\* The nodes the next command of p goes to.
ExecNodes(p) ==
  CASE proc[p].pc \in {"define", "undefine"} -> {t[1] : t \in proc[p].todo}
    [] proc[p].pc \in {"load", "uuid"} -> {proc[p].at[1]}
    [] proc[p].pc = "pacemaker" -> {proc[p].snap[proc[p].vm].default}
    [] proc[p].pc = "classify" /\ proc[p].handled # proc[p].shown -> {proc[p].node}
    [] OTHER -> {}

\* A command on an open session wrote to stderr, or the session broke: exec
\* throws a plain \Exception that no caller catches, and the process ends.
JobFails(p) ==
  /\ \E n \in ExecNodes(p) : ConnTo(p, n) = "open"
  /\ Becomes(p, Idle)
  /\ UNCHANGED <<dbVars, nodeVars, histVars>>

-----------------------------------------------------------------------------
(* Disks.                                                                  *)

\* DiskService.persistTasks: allocate the volume; an error of vol-create is
\* swallowed.  Then the machine is saved again.
CreateVolume(p) ==
  LET v == proc[p].vm
      n == proc[p].snap[v].disk
  IN  /\ proc[p].pc = "create"
      /\ \E made \in BOOLEAN :
           /\ made => Reaches(p, n)
           /\ volumes' = IF made THEN volumes \cup {v} ELSE volumes
      /\ MarkDirty(p, {n})
      /\ Becomes(p, [proc[p] EXCEPT !.pc = "define", !.conn = Conns(p, {n})])
      /\ UNCHANGED <<rows, deleted, clusterOf, queue, up, files, defs, running,
                     role, nextUuid, histVars>>

\* DiskService.removeTasks in the removal of a machine: vol-delete (its errors
\* are swallowed), the check that the file is gone (passed as well without a
\* session), the disk's row, and the machine is saved once more.
RemoveDisk(p) ==
  LET v == proc[p].vm
      n == proc[p].snap[v].disk
  IN  /\ proc[p].pc = "disk"
      /\ volumes' = IF Reaches(p, n) THEN volumes \ {v} ELSE volumes
      /\ rows' = IF Live(v) THEN [rows EXCEPT ![v].disk = NoNode] ELSE rows
      /\ MarkDirty(p, {n})
      /\ Becomes(p, [proc[p] EXCEPT !.pc = "define", !.conn = Conns(p, {n})])
      /\ UNCHANGED <<deleted, clusterOf, queue, up, files, defs, running, role,
                     nextUuid, histVars>>

\* 'File ... still exists', or the check itself throws without a session.
RemoveDiskFails(p) ==
  /\ proc[p].pc = "disk"
  /\ MarkDirty(p, {proc[p].snap[proc[p].vm].disk})
  /\ Becomes(p, Idle)
  /\ UNCHANGED <<rows, deleted, clusterOf, queue, nodeVars, histVars>>

-----------------------------------------------------------------------------
(* NodeService.defineVirtualmachine, one node and machine of todo at a     *)
(* time.  The file is written first and read by "virsh define" afterwards. *)

\* The loop goes on without the pair t.
RestForgotten(p, t) == {}          \* mutant: the loop ends after one node
RestRepeated(p, t) == proc[p].todo \* mutant: the loop does not advance
Rest(p, t) == proc[p].todo \ {t}

\* p is finished with the pair t.
PairDone(p, t, rec) ==
  LET rest == Rest(p, t)
  IN  [rec EXCEPT !.todo = rest, !.at = <<>>,
                  !.pc = IF rest # {} THEN "define" ELSE AfterDefine(p)]

\* toXml of the row p holds.
XmlAsCreated(p, v) == [version |-> 1, uuid |-> proc[p].snap[v].uuid]  \* mutant: edits are lost
Xml(p, v) == [version |-> proc[p].snap[v].version, uuid |-> proc[p].snap[v].uuid]

\* filePutContents swallows a failed write; the file is then what it was.
WriteFile(p) ==
  /\ proc[p].pc = "define"
  /\ \E t \in proc[p].todo :
       LET n == t[1]
           v == t[2]
       IN  /\ Reaches(p, n)
           /\ \/ /\ files' = [files EXCEPT ![n][v] = Xml(p, v)]
                 /\ UNCHANGED spent
              \/ /\ Spend("write")
                 /\ UNCHANGED files
           /\ Becomes(p, [proc[p] EXCEPT !.pc = "load", !.at = t,
                                         !.conn = Conns(p, {n})])
  /\ UNCHANGED <<dbVars, up, defs, running, volumes, role, nextUuid,
                 promised, undone, overlapped>>

\* ConnectionException: the node is marked dirty and the loop goes on.
DefineOffline(p) ==
  /\ proc[p].pc = "define"
  /\ \E t \in proc[p].todo :
       /\ ConnTo(p, t[1]) = "dead"
       /\ MarkDirty(p, {t[1]})
       /\ Becomes(p, PairDone(p, t, [proc[p] EXCEPT !.conn = Conns(p, {t[1]})]))
  /\ UNCHANGED <<rows, deleted, clusterOf, queue, nodeVars, histVars>>

\* "virsh define": libvirt draws a uuid when the file has none; it refuses a
\* missing file and a name it knows under another uuid (JobFails).
DefineVm(p) ==
  LET n == proc[p].at[1]
      v == proc[p].at[2]
      file == files[n][v]
  IN  /\ proc[p].pc = "load"
      /\ n \in up /\ file.version > 0
      /\ \/ defs[n][v].version = 0
         \/ file.uuid # 0 /\ file.uuid = defs[n][v].uuid
      /\ nextUuid' = IF file.uuid = 0 THEN nextUuid + 1 ELSE nextUuid
      /\ defs' = [defs EXCEPT ![n][v] =
                    [version |-> file.version,
                     uuid |-> IF file.uuid = 0 THEN nextUuid + 1 ELSE file.uuid]]
      /\ Becomes(p, IF proc[p].snap[v].uuid = 0
                    THEN [proc[p] EXCEPT !.pc = "uuid"]
                    ELSE PairDone(p, <<n, v>>, proc[p]))
      /\ UNCHANGED <<dbVars, up, files, running, volumes, role, histVars>>

UuidNotKept(p, v, u) == proc[p]   \* mutant: the entity keeps its empty uuid
WithUuid(p, v, u) == [proc[p] EXCEPT !.snap[v].uuid = u]

\* "virsh domuuid", and the uuid is flushed to the row.
ReadUuid(p) ==
  LET n == proc[p].at[1]
      v == proc[p].at[2]
      u == defs[n][v].uuid
  IN  /\ proc[p].pc = "uuid"
      /\ n \in up /\ defs[n][v].version > 0
      /\ rows' = IF Live(v) THEN [rows EXCEPT ![v].uuid = u] ELSE rows
      /\ Becomes(p, PairDone(p, <<n, v>>, WithUuid(p, v, u)))
      /\ UNCHANGED <<deleted, clusterOf, dirty, queue, nodeVars, histVars>>

-----------------------------------------------------------------------------
(* VirtualmachineService.pacemakerAdd, after the definitions of a machine  *)
(* of an HA cluster.                                                       *)

AfterPacemaker(p) == IF proc[p].kind = "remove" THEN "check" ELSE "exit"

\* The resource is created or modified through the first node of the cluster;
\* an error there is swallowed and no other node is tried.
PacemakerAdd(p) ==
  LET v == proc[p].vm
      r == proc[p].snap[v]
  IN  /\ proc[p].pc = "pacemaker"
      /\ Reaches(p, r.default)
      /\ \E first \in proc[p].targets, accepted, answer \in BOOLEAN :
           LET asked == {r.default, r.home, first}
           IN  /\ IsRunning(p, v, answer)
               /\ accepted => Reaches(p, first)
               /\ role' = IF ~accepted THEN role ELSE
                    [role EXCEPT ![v] = IF answer THEN "Started" ELSE "Stopped"]
               /\ MarkDirty(p, asked)
               /\ Becomes(p, [proc[p] EXCEPT !.pc = AfterPacemaker(p),
                                             !.conn = Conns(p, asked)])
      /\ UNCHANGED <<rows, deleted, clusterOf, queue, up, files, defs, running,
                     volumes, nextUuid, promised, undone, overlapped>>

\* getShortHostname(nodeDefault) is outside of every try.
PacemakerOffline(p) ==
  LET d == proc[p].snap[proc[p].vm].default
  IN  /\ proc[p].pc = "pacemaker"
      /\ ConnTo(p, d) = "dead"
      /\ MarkDirty(p, {d})
      /\ Becomes(p, Idle)
      /\ UNCHANGED <<rows, deleted, clusterOf, queue, nodeVars, histVars>>

-----------------------------------------------------------------------------
(* VirtualmachineService.removeTasks after the disks.                      *)

\* 'is running. Stop it first', or on to the definitions.
CheckStopped(p) ==
  LET v == proc[p].vm
      h == proc[p].snap[v].home
  IN  /\ proc[p].pc = "check"
      /\ MarkDirty(p, {h})
      /\ \E answer \in BOOLEAN :
           /\ IsRunning(p, v, answer)
           /\ Becomes(p, IF answer THEN Idle
                         ELSE [proc[p] EXCEPT !.pc = "undefine", !.conn = Conns(p, {h}),
                                              !.todo = proc[p].targets \X {v}])
      /\ UNCHANGED <<rows, deleted, clusterOf, queue, nodeVars, promised, undone,
                     overlapped>>

UndefineOnce(p, t) ==   \* mutant: the loop ends after one node
  [proc[p] EXCEPT !.todo = {}, !.conn = Conns(p, {t[1]}), !.pc = "delete"]
UndefineDone(p, t) ==
  [proc[p] EXCEPT !.todo = Rest(p, t), !.conn = Conns(p, {t[1]}),
                  !.pc = IF Rest(p, t) = {} THEN "delete" ELSE "undefine"]

\* "virsh undefine"; it fails on a node that has no definition (JobFails).
Undefine(p) ==
  /\ proc[p].pc = "undefine"
  /\ \E t \in proc[p].todo :
       /\ Reaches(p, t[1]) /\ defs[t[1]][t[2]].version > 0
       /\ defs' = [defs EXCEPT ![t[1]][t[2]] = NoDef]
       /\ undone' = undone \cup {t}
       /\ Becomes(p, UndefineDone(p, t))
  /\ UNCHANGED <<dbVars, up, files, running, volumes, role, nextUuid, spent,
                 promised, overlapped>>

UndefineOffline(p) ==
  /\ proc[p].pc = "undefine"
  /\ \E t \in proc[p].todo :
       /\ ConnTo(p, t[1]) = "dead"
       /\ MarkDirty(p, {t[1]})
       /\ Becomes(p, UndefineDone(p, t))
  /\ UNCHANGED <<rows, deleted, clusterOf, queue, nodeVars, histVars>>

DeleteRow(p) ==
  LET v == proc[p].vm
  IN  /\ proc[p].pc = "delete"
      /\ rows' = [rows EXCEPT ![v] = NullRow]
      /\ deleted' = deleted \cup {v}
      /\ Becomes(p, [proc[p] EXCEPT !.pc = "exit"])
      /\ UNCHANGED <<clusterOf, dirty, queue, nodeVars, histVars>>

-----------------------------------------------------------------------------
(* NodeService.scanVirtualmachines.                                        *)

\* A scan that has the listing of n in hand.
NewScan(n) ==
  [Idle EXCEPT !.pc = "query", !.kind = "scan", !.node = n,
               !.conn = [m \in Nodes |-> IF m = n THEN "open" ELSE "none"],
               !.shown = {v \in Vms : defs[n][v].version > 0 \/ running[v] = n},
               !.live = {v \in Vms : running[v] = n}]

\* "virsh list --all": what is defined or running on n.  Without a session the
\* command throws and the process ends.
ScanList(s, n) ==
  /\ proc[s].pc = "idle"
  /\ Becomes(s, IF n \in up THEN NewScan(n) ELSE Idle)
  /\ dirty' = IF n \in up THEN dirty ELSE dirty \cup {n}
  /\ UNCHANGED <<rows, deleted, clusterOf, queue, nodeVars, histVars>>

\* The machines of the node's cluster are loaded.
ScanQuery(p) ==
  LET known == ClusterVms(proc[p].node)
  IN  /\ proc[p].pc = "query"
      /\ Becomes(p, [proc[p] EXCEPT !.pc = "classify",
                       !.snap = [v \in Vms |-> IF v \in known THEN rows[v] ELSE NullRow]])
      /\ overlapped' = overlapped \cup HeldByOthers(p, known)
      /\ UNCHANGED <<dbVars, nodeVars, spent, promised, undone>>

\* What the listing says of v, as the row the process holds.
Seen(p, v) ==
  LET r == proc[p].snap[v]
  IN  IF v \in proc[p].live THEN [r EXCEPT !.state = "running", !.home = proc[p].node]
                            ELSE [r EXCEPT !.state = "shut off"]

\* A flush writes the columns that differ from the loaded row.
Changed(old, new, cell) == IF old # new THEN new ELSE cell

Written(p) ==
  [v \in Vms |->
     IF v \in proc[p].handled /\ Holds(p, v) /\ Live(v)
     THEN [rows[v] EXCEPT
             !.state = Changed(proc[p].snap[v].state, Seen(p, v).state, @),
             !.home = Changed(proc[p].snap[v].home, Seen(p, v).home, @)]
     ELSE rows[v]]

HeldAfterWrite(p) ==
  [v \in Vms |-> IF v \in proc[p].handled /\ Holds(p, v) THEN Seen(p, v)
                 ELSE proc[p].snap[v]]

Unhandled(p) == proc[p].shown \ proc[p].handled

\* A machine of this cluster: state and node are set in memory.
ScanKnown(p) ==
  /\ proc[p].pc = "classify"
  /\ \E v \in Unhandled(p) :
       /\ Holds(p, v)
       /\ Becomes(p, [proc[p] EXCEPT !.handled = @ \cup {v}])
  /\ UNCHANGED <<dbVars, nodeVars, histVars>>

\* A machine of another cluster is undefined here, and undefineVirtualmachine
\* flushes what the scan has set so far.
ScanForeign(p) ==
  LET n == proc[p].node
  IN  /\ proc[p].pc = "classify"
      /\ n \in up
      /\ \E v \in Unhandled(p) :
           /\ ~Holds(p, v) /\ Live(v)
           /\ defs[n][v].version > 0
           /\ defs' = [defs EXCEPT ![n][v] = NoDef]
           /\ undone' = undone \cup {<<n, v>>}
           /\ Becomes(p, [proc[p] EXCEPT !.handled = @ \cup {v},
                                         !.snap = HeldAfterWrite(p)])
      /\ rows' = Written(p)
      /\ UNCHANGED <<deleted, clusterOf, dirty, queue, up, files, running,
                     volumes, role, nextUuid, spent, promised, overlapped>>

\* "orphaned vm, remove it".
ScanOrphan(p) ==
  LET n == proc[p].node
  IN  /\ proc[p].pc = "classify"
      /\ n \in up
      /\ \E v \in Unhandled(p) :
           /\ ~Holds(p, v) /\ ~Live(v)
           /\ defs[n][v].version > 0
           /\ defs' = [defs EXCEPT ![n][v] = NoDef]
           /\ undone' = undone \cup {<<n, v>>}
           /\ Becomes(p, [proc[p] EXCEPT !.handled = @ \cup {v}])
      /\ UNCHANGED <<dbVars, up, files, running, volumes, role, nextUuid, spent,
                     promised, overlapped>>

\* The flush after the loop; on an HA node the machines of the cluster that
\* the listing did not show are defined, from rows loaded now or before.
ScanFlush(p) ==
  LET n == proc[p].node
      missing == {v \in Vms : /\ rows'[v].version > 0
                              /\ clusterOf[rows'[v].home] = clusterOf[n]
                              /\ v \notin proc[p].shown}
      todo == IF clusterOf[n] \in HaClusters THEN {n} \X missing ELSE {}
      fresh == {v \in missing : <<n, v>> \in todo /\ ~Holds(p, v)}
  IN  /\ proc[p].pc = "classify"
      /\ Unhandled(p) = {}
      /\ rows' = Written(p)
      /\ Becomes(p, [proc[p] EXCEPT !.todo = todo,
                       !.pc = IF todo = {} THEN "exit" ELSE "define",
                       !.snap = [v \in Vms |-> IF v \in fresh THEN rows[v]
                                              ELSE HeldAfterWrite(p)[v]]])
      /\ overlapped' = overlapped \cup HeldByOthers(p, fresh)
      /\ UNCHANGED <<deleted, clusterOf, dirty, queue, nodeVars, spent, promised, undone>>

-----------------------------------------------------------------------------
(* The environment: the network, guests, libvirt and pacemaker.            *)

NodeDown(n) == /\ n \in up
               /\ Spend("outage")
               /\ up' = up \ {n}
               /\ UNCHANGED <<dbVars, files, defs, running, volumes, role,
                              nextUuid, proc, promised, undone, overlapped>>

NodeUp(n) == /\ n \notin up
             /\ up' = up \cup {n}
             /\ UNCHANGED <<dbVars, files, defs, running, volumes, role,
                            nextUuid, proc, histVars>>

\* The command of actionStart takes effect: the target-role of an HA machine,
\* or the guest on its node.
ActionStart(v) ==
  /\ Live(v) /\ rows[v].home \in up
  /\ \/ /\ IsHa(v) /\ role[v] # "none"
        /\ role' = [role EXCEPT ![v] = "Started"]
        /\ UNCHANGED running
     \/ /\ ~IsHa(v) /\ running[v] = NoNode /\ defs[rows[v].home][v].version > 0
        /\ running' = [running EXCEPT ![v] = rows[v].home]
        /\ UNCHANGED role
  /\ UNCHANGED <<dbVars, up, files, defs, volumes, nextUuid, proc, histVars>>

\* Pacemaker starts a resource, on a node that defines it.
ResourceStarts(v, n) ==
  /\ role[v] = "Started" /\ running[v] = NoNode
  /\ n \in up /\ defs[n][v].version > 0
  /\ running' = [running EXCEPT ![v] = n]
  /\ UNCHANGED <<dbVars, up, files, defs, volumes, role, nextUuid, proc, histVars>>

\* The guest shuts down, is stopped, or dies with its node.
GuestStops(v) ==
  /\ running[v] # NoNode
  /\ running' = [running EXCEPT ![v] = NoNode]
  /\ UNCHANGED <<dbVars, up, files, defs, volumes, role, nextUuid, proc, histVars>>

-----------------------------------------------------------------------------

Init ==
  /\ rows = [v \in Vms |-> NullRow]
  /\ deleted = {}
  /\ clusterOf = InitialCluster
  /\ dirty = {}
  /\ queue = [k \in JobKinds |-> [v \in Vms |-> 0]]
  /\ up = Nodes
  /\ files = [n \in Nodes |-> [v \in Vms |-> NoDef]]
  /\ defs = [n \in Nodes |-> [v \in Vms |-> NoDef]]
  /\ running = [v \in Vms |-> NoNode]
  /\ volumes = {}
  /\ role = [v \in Vms |-> "none"]
  /\ nextUuid = 0
  /\ proc = [p \in Procs |-> Idle]
  /\ spent = [b \in BudgetNames |-> 0]
  /\ promised = [n \in Nodes |-> [v \in Vms |-> 0]]
  /\ undone = {}
  /\ overlapped = {}

\* One step of a process that is not idle.
ProcessStep(p) ==
  \/ CreateVolume(p) \/ RemoveDisk(p) \/ RemoveDiskFails(p)
  \/ WriteFile(p) \/ DefineOffline(p) \/ DefineVm(p) \/ ReadUuid(p)
  \/ PacemakerAdd(p) \/ PacemakerOffline(p)
  \/ CheckStopped(p) \/ Undefine(p) \/ UndefineOffline(p) \/ DeleteRow(p)
  \/ ScanQuery(p) \/ ScanKnown(p) \/ ScanForeign(p) \/ ScanOrphan(p) \/ ScanFlush(p)
  \/ Exit(p) \/ JobFails(p)

WebStep ==
  \E v \in Vms : \/ \E n \in Nodes : CreateVm(v, n)
                 \/ EditVm(v) \/ RequestRemove(v) \/ AddDisk(v)

EnvironmentStep ==
  \/ \E n \in Nodes : NodeDown(n) \/ NodeUp(n)
  \/ \E v \in Vms : ActionStart(v) \/ GuestStops(v)
  \/ \E v \in Vms, n \in Nodes : ResourceStarts(v, n)

Next ==
  \/ WebStep
  \/ \E n \in Nodes, c \in Clusters : MoveNode(n, c)
  \/ \E w \in Workers, k \in JobKinds, v \in Vms : StartJob(w, k, v)
  \/ \E s \in Scanners, n \in ScanNodes : ScanList(s, n)
  \/ \E p \in Procs : ProcessStep(p)
  \/ EnvironmentStep

Spec == Init /\ [][Next]_vars

\* The job queue keeps dispatching, and a console process that was started
\* keeps running until it returns.
Fairness ==
  /\ \A p \in Procs : WF_vars(ProcessStep(p))
  /\ \A k \in JobKinds, v \in Vms : WF_vars(\E w \in Workers : StartJob(w, k, v))

FairSpec == Spec /\ Fairness

-----------------------------------------------------------------------------
(* Properties.                                                             *)

DatabaseOK ==
  /\ rows \in [Vms -> Row]
  /\ deleted \subseteq Vms
  /\ clusterOf \in [Nodes -> Clusters]
  /\ dirty \subseteq Nodes
  /\ queue \in [JobKinds -> [Vms -> Nat]]

NodesOK ==
  /\ up \subseteq Nodes
  /\ files \in [Nodes -> [Vms -> Def]]
  /\ defs \in [Nodes -> [Vms -> Def]]
  /\ running \in [Vms -> NodeRef]
  /\ volumes \subseteq Vms
  /\ role \in [Vms -> {"none", "Started", "Stopped"}]
  /\ nextUuid \in Nat

HistoryOK ==
  /\ spent \in [BudgetNames -> Nat]
  /\ promised \in [Nodes -> [Vms -> Nat]]
  /\ undone \subseteq Nodes \X Vms
  /\ overlapped \subseteq Vms

TypeOK == DatabaseOK /\ NodesOK /\ proc \in [Procs -> Process] /\ HistoryOK

\* A job that reported success saved the machine to every node it was for:
\* the node defines it, or is marked dirty, or a remove or scan undefined it
\* on purpose (defineVirtualmachine, persistTasks, the comment on Node.dirty).
SavedOrDirty ==
  \A n \in Nodes, v \in Vms :
    promised[n][v] > 0 =>
      n \in dirty \/ <<n, v>> \in undone \/ defs[n][v].version > 0

\* As long as no two processes held the machine at once, what a node defines
\* is never older than what a successful job claims to have saved there:
\* without a swallowed write error, definitions only go back in time through
\* concurrent jobs.
NewestSaved ==
  \A n \in Nodes, v \in Vms :
    promised[n][v] > 0 =>
      \/ n \in dirty \/ <<n, v>> \in undone \/ v \in overlapped
      \/ spent["write"] > 0
      \/ defs[n][v].version >= promised[n][v]

\* After a machine is deleted no node still defines it, unless that node was
\* marked dirty, another process held the machine meanwhile, or nodes changed
\* cluster (removeTasks visits the members of the cluster at that time).
RemovedEverywhere ==
  \A v \in deleted, n \in Nodes :
    defs[n][v].version > 0 => n \in dirty \/ v \in overlapped \/ spent["move"] > 0

\* Once a machine has a uuid its row keeps it, unless two processes held it:
\* the second one, loaded with the empty uuid, would overwrite it.
UuidIsStable ==
  [][\A v \in Vms : rows[v].uuid > 0 =>
        \/ rows'[v].uuid = rows[v].uuid
        \/ v \in deleted' \/ v \in overlapped]_vars

\* While every node was reachable, saving a machine takes a running guest's
\* resource from Started to Stopped only if the row names another node than
\* the one the guest runs on, the machine was held by two processes, or the
\* dominfo of this very step failed and isRunning swallowed it.
SaveKeepsRunning ==
  [][\A v \in Vms :
        /\ running[v] # NoNode /\ role[v] = "Started" /\ role'[v] = "Stopped"
        /\ spent["outage"] = 0
        => \/ rows[v].home # running[v]
           \/ v \in overlapped
           \/ spent'["ask"] > spent["ask"]]_vars

\* There is one console that scans.
OneScanner == \A s, t \in Scanners : s = t

\* While nodes keep their cluster, and while at most one of them changed it and
\* one console scans, a scan never undefines a machine that exists and whose
\* cluster the scanned node belongs to.  (With two, one scan can move a machine
\* into the cluster of the node whose listing the other one works off.)
ScanKeepsMembers ==
  [][\A n \in Nodes, v \in Vms :
        /\ defs[n][v].version > 0 /\ defs'[n][v].version = 0
        /\ Live(v) /\ clusterOf[rows[v].home] = clusterOf[n]
        /\ spent["move"] = 0 \/ (spent["move"] = 1 /\ OneScanner)
        => \E p \in Procs : proc[p].kind = "remove" /\ proc[p].vm = v
                           /\ proc[p].pc = "undefine"]_vars

\* A disk's volume is never deleted under a running guest ("Stop
\* Virtualmachine before removing disks", "is running. Stop it first").
DisksOutliveGuest ==
  [][\A v \in Vms : running[v] # NoNode /\ v \in volumes => v \in volumes']_vars

\* A job is pending or a process works.
Working == \/ \E k \in JobKinds, v \in Vms : queue[k][v] > 0
           \/ \E p \in Procs : proc[p].pc # "idle"

\* Every job is taken and every process ends: when users ask for nothing more,
\* a time comes at which nothing is left to do, whatever failed.
JobsFinish == Working ~> ~Working

-----------------------------------------------------------------------------
(* The strengthening that makes SavedOrDirty inductive.                    *)

\* The pairs <<n, v>> of which a promise to save v to n is kept.
KeptPairs == {t \in Nodes \X Vms : \/ t[1] \in dirty \/ t \in undone
                                   \/ defs[t[1]][t[2]].version > 0}

\* A row that exists has a node.
RowOK(r) == r.version > 0 => r.home \in Nodes /\ r.default \in Nodes

SavePcs == {"create", "define", "load", "uuid", "pacemaker", "exit"}
RemovePcs == {"disk", "define", "load", "uuid", "pacemaker", "check",
              "undefine", "delete", "exit"}
ScanPcs == {"query", "classify", "define", "load", "uuid", "exit"}

\* Where a process can be, and what it has loaded when it is there.
ProcessOK(r) ==
  /\ \A v \in Vms : RowOK(r.snap[v])
  /\ \/ r.pc = "idle"
     \/ r.kind = "scan" /\ r.node \in Nodes /\ r.pc \in ScanPcs
     \/ /\ r.vm \in Vms /\ r.snap[r.vm].version > 0
        /\ \/ r.kind \in {"persist", "disk"} /\ r.pc \in SavePcs
           \/ r.kind = "remove" /\ r.pc \in RemovePcs
  /\ r.pc \in {"create", "disk"} => r.snap[r.vm].disk \in Nodes
  /\ r.pc \in {"load", "uuid"} => r.at \in r.todo
  /\ r.pc \in {"create", "disk", "define", "load", "uuid"} =>
       \A t \in r.todo : r.snap[t[2]].version > 0

Shape == /\ \A v \in Vms : RowOK(rows[v])
         /\ \A p \in Procs : ProcessOK(proc[p])

\* A saving process has kept every target that is no longer on its list.
CoveredBy(r, kept) ==
  /\ r.pc = "uuid" => r.at \in kept
  /\ r.kind \in {"persist", "disk"} /\ r.pc # "idle" =>
       \A n \in r.targets :
         \/ <<n, r.vm>> \in kept
         \/ /\ r.pc \in {"create", "define", "load", "uuid"}
            /\ <<n, r.vm>> \in r.todo

Covered == \A p \in Procs : CoveredBy(proc[p], KeptPairs)

\* The inductive invariant: every promise is kept, and every saving process is
\* on its way to keep the one it will make when it exits.
SavingInv == TypeOK /\ Shape /\ Covered /\ SavedOrDirty

-----------------------------------------------------------------------------
(* The strengthening that makes the other safety properties inductive.     *)

\* A machine that no two processes held at once is held by at most one.
Alone == \A v \in Vms \ overlapped :
           \A p, q \in Procs : Holds(p, v) /\ Holds(q, v) => p = q

\* Rows are deleted for good, and before a row exists nothing is known of it.
VmOK(v) ==
  /\ v \in deleted => ~Live(v)
  /\ ~Live(v) => rows[v] = NullRow
  /\ ~Live(v) /\ v \notin deleted =>
       /\ running[v] = NoNode
       /\ \A n \in Nodes : defs[n][v].version = 0 /\ promised[n][v] = 0
  /\ Live(v) => \A n \in Nodes : promised[n][v] <= rows[v].version

\* A copy is of a row that exists or existed, and not newer.  The only copy
\* agrees with the row, and nothing newer was promised while it is held.
CopyOK(r, v) ==
  /\ Live(v) \/ v \in deleted
  /\ Live(v) => r.snap[v].version <= rows[v].version
  /\ v \notin overlapped =>
       /\ r.pc # "exit" => Live(v)
       /\ Live(v) => r.snap[v].uuid = rows[v].uuid /\ r.snap[v].home = rows[v].home
       /\ \A n \in Nodes : promised[n][v] <= r.snap[v].version

\* A uuid is read only for a copy that has none, a removal undefines its own
\* machine, and a scan works off machines that exist or existed.
StepOK(r) ==
  /\ r.pc = "uuid" => r.snap[r.at[2]].uuid = 0
  /\ r.pc = "undefine" => r.todo \subseteq Nodes \X {r.vm}
  /\ r.handled \subseteq r.shown
  /\ \A v \in r.shown : Live(v) \/ v \in deleted

\* Without outages no session dies.
Connected(r) == spent["outage"] = 0 => \A n \in Nodes : r.conn[n] # "dead"

\* The node n has at least the version of v that r holds, or needs no save.
SavedBy(r, n, v) == \/ <<n, v>> \in undone
                    \/ n \in dirty
                    \/ defs[n][v].version >= r.snap[v].version

\* The file to be defined is the one r wrote, and what left the list is saved.
NewestBy(r) ==
  /\ r.pc = "load" /\ r.at[2] \notin overlapped =>
       files[r.at[1]][r.at[2]].version = r.snap[r.at[2]].version
  /\ r.pc = "uuid" /\ r.at[2] \notin overlapped => SavedBy(r, r.at[1], r.at[2])
  /\ r.kind \in {"persist", "disk"} /\ r.pc # "idle" /\ r.vm \notin overlapped =>
       \A n \in r.targets :
         \/ SavedBy(r, n, r.vm)
         \/ r.pc \in {"create", "define", "load", "uuid"} /\ <<n, r.vm>> \in r.todo

\* Only the nodes of a machine define and run it.
PlacedVm(v) ==
  /\ \A n \in Nodes : defs[n][v].version > 0 => n \in Targets(v)
  /\ running[v] # NoNode => running[v] \in Targets(v)

\* A process works on the nodes of a machine.
PlacedBy(r, v) ==
  /\ r.pc \in {"create", "disk", "define", "load", "uuid"} =>
       \A t \in r.todo : t[2] = v => t[1] \in Targets(v)
  /\ r.kind # "scan" /\ r.pc # "idle" /\ r.vm = v => r.targets = Targets(v)
  /\ v \in r.shown => r.node \in Targets(v)

\* What a removal leaves defined is still on its list.
LeftBy(r) ==
  r.kind = "remove" /\ r.pc \in {"undefine", "delete"} /\ r.vm \notin overlapped =>
    \A n \in Nodes : defs[n][r.vm].version > 0 =>
      n \in dirty \/ (r.pc = "undefine" /\ <<n, r.vm>> \in r.todo)

\* A machine that a scan takes for foreign is foreign.
Foreign(r, v) ==
  r.pc = "classify" /\ v \in r.shown /\ Live(v) /\ r.snap[v].version = 0 =>
    /\ spent["move"] > 0
    /\ OneScanner /\ spent["move"] = 1 => clusterOf[rows[v].home] # clusterOf[r.node]

\* What is true of a process, as far as the bounds were not touched.
OwnOK(r) ==
  /\ StepOK(r) /\ Connected(r)
  /\ spent["write"] = 0 => NewestBy(r)
  /\ spent["move"] = 0 => LeftBy(r) /\ \A v \in Vms : Live(v) => PlacedBy(r, v)
  /\ \A v \in Vms : Foreign(r, v)

\* The inductive invariant of copies and nodes, next to SavingInv.
CopiesInv ==
  /\ Alone
  /\ \A v \in Vms : VmOK(v)
  /\ \A p \in Procs :
       /\ OwnOK(proc[p])
       /\ proc[p].kind = "scan" => p \in Scanners
       /\ \A v \in Vms : Holds(p, v) => CopyOK(proc[p], v)
  /\ spent["outage"] = 0 => up = Nodes
  /\ spent["move"] = 0 => \A v \in Vms : Live(v) => PlacedVm(v)
  /\ NewestSaved
  /\ RemovedEverywhere

=============================================================================

------------------------------- MODULE Drbd -------------------------------
(***************************************************************************)
(* The DRBD disks of one cluster (DrbdService, the parts of DiskService it *)
(* is called from, DiskController's action 'drbd').                        *)
(*                                                                         *)
(* A DRBD disk replicates two hidden logical disks on two nodes.  Its      *)
(* counter value names everything it owns on the nodes: the resource r<c>, *)
(* the port, the device and the pacemaker resource.  Web requests take the *)
(* counter, jobs of the queue do the rest; nothing locks the counters.     *)
(***************************************************************************)
EXTENDS Integers, FiniteSets

CONSTANTS
  Disks,     \* ids of DRBD disks
  Nodes,     \* the nodes of the cluster
  Places,    \* the pairs of nodes requests ask for
  Webs,      \* web requests that run at the same time
  Workers,   \* processes of the job queue
  MaxPolls,  \* polls of isConnected before a job gives up (61 in the code)
  NoDisk, NoNode,
  Budget     \* bounds of what users and failures may do

BudgetNames == {"remove", "outage", "swallow", "kill"}

ASSUME DrbdAssumption ==
  /\ IsFiniteSet(Disks)
  /\ NoDisk \notin Disks /\ NoNode \notin Nodes
  /\ Places \subseteq [{"A", "B"} -> Nodes]
  /\ MaxPolls \in Nat \ {0}
  /\ Budget \in [BudgetNames -> Nat]

VARIABLES
  \* the database
  live,      \* the disks that have a row
  removed,   \* the disks whose row was deleted
  counter,   \* counter[d]: value of the disk's CounterDrbd row
  place,     \* place[d][s]: the node of each side
  linked,    \* linked[d]: the sides whose child disk the row names
  child,     \* child[d][s]: the child's row, hidden (child = 1) or shown
  queue,     \* queue[k][d]: pending jobs
  \* the nodes
  up,        \* the nodes SSH reaches
  config,    \* config[n][c]: the disk that /etc/drbd.d/r<c>.res describes
  link,      \* link[c]: connection state of resource r<c> on its first node
  role,      \* role[c]: target-role of ms_drbd_<c> in pacemaker
  volume,    \* volume[d][s]: the logical volume exists
  \* processes
  web, proc,
  \* bounds and history
  spent,
  raced,      \* two requests held a counter value at once
  overlapped, \* disks that two jobs held at once
  expired,    \* disks whose removal gave up waiting
  stranded    \* <<d, s>> whose set-up was killed between the child and its link

dbVars   == <<live, removed, counter, place, linked, child, queue>>
nodeVars == <<up, config, link, role, volume>>
histVars == <<spent, raced, overlapped, expired, stranded>>
vars     == <<dbVars, nodeVars, web, proc, histVars>>

-----------------------------------------------------------------------------

Sides     == {"A", "B"}
Counters  == 0 .. Cardinality(Disks)
NoCounter == -1
Kinds     == {"persist", "remove"}
Links     == {"down", "waiting", "syncing", "connected"}
PCs       == {"idle", "allocateA", "linkA", "allocateB", "linkB", "configA",
              "configB", "start", "wait", "stop", "drain", "unconfigure", "delete", "drop",
              "save", "removeA", "removeB"}
Session   == {"none", "open", "dead"}

\* The steps that are taken once for each side.
AllocatePc == [A |-> "allocateA", B |-> "allocateB"]
LinkPc     == [A |-> "linkA", B |-> "linkB"]
ConfigPc   == [A |-> "configA", B |-> "configB"]
RemovePc   == [A |-> "removeA", B |-> "removeB"]

Process == [pc : PCs, kind : Kinds \cup {"none"}, d : Disks \cup {NoDisk},
            num : Counters \cup {NoCounter}, has : SUBSET Sides, polls : 0 .. MaxPolls,
            conn : [Sides -> Session]]
Idle == [pc |-> "idle", kind |-> "none", d |-> NoDisk, num |-> NoCounter,
         has |-> {}, polls |-> 0, conn |-> [s \in Sides |-> "none"]]

Request == [d : Disks \cup {NoDisk}, at : [Sides -> Nodes \cup {NoNode}],
            num : Counters \cup {NoCounter}]
NoRequest == [d |-> NoDisk, at |-> [s \in Sides |-> NoNode], num |-> NoCounter]

Becomes(p, rec) == proc' = [proc EXCEPT ![p] = rec]

Spend(b) == /\ spent[b] < Budget[b]
            /\ spent' = [spent EXCEPT ![b] = @ + 1]

Enqueue(k, d) == queue' = [queue EXCEPT ![k][d] = @ + 1]

\* The resource is up on its first node.
Up(c) == link[c] # "down"

-----------------------------------------------------------------------------
(* Counters.                                                               *)

RowsUpTo(i) == {d \in Disks : counter[d] \in 0 .. i}

\* In the listing ordered by value, row number i has the value i.
InPlace(i) == /\ Cardinality(RowsUpTo(i - 1)) <= i
              /\ i < Cardinality(RowsUpTo(i))

\* getNextFreeDrbdCountByCluster: the loop counts the rows that are in their
\* place and leaves at the first one that is not, or after the last one.
FirstCounter == 0                                         \* mutant: $i++ is missing
NextFree == Cardinality({i \in Counters : \A j \in 0 .. i : InPlace(j)})

\* POST of a DRBD disk: postPersist reads the counters inside the transaction
\* of the flush.  The form does not check the nodes.
ReadCounters(w, d) ==
  /\ web[w] = NoRequest
  /\ d \notin live \cup removed
  /\ \A x \in Webs : web[x].d # d
  /\ \E at \in Places :
       web' = [web EXCEPT ![w] = [d |-> d, at |-> at, num |-> NextFree]]
  /\ raced' = (raced \/ \E x \in Webs : web[x] # NoRequest)
  /\ UNCHANGED <<dbVars, nodeVars, proc, spent, overlapped, expired, stranded>>

\* The transaction commits; a second flush inserts the job.
CommitDisk(w) ==
  LET d == web[w].d
  IN  /\ web[w] # NoRequest
      /\ live' = live \cup {d}
      /\ counter' = [counter EXCEPT ![d] = web[w].num]
      /\ place' = [place EXCEPT ![d] = web[w].at]
      /\ Enqueue("persist", d)
      /\ web' = [web EXCEPT ![w] = NoRequest]
      /\ UNCHANGED <<removed, linked, child, nodeVars, proc, histVars>>

\* DELETE of the disk: only a job.
RequestRemove(d) ==
  /\ d \in live
  /\ Spend("remove")
  /\ Enqueue("remove", d)
  /\ UNCHANGED <<live, removed, counter, place, linked, child, nodeVars, web,
                 proc, raced, overlapped, expired, stranded>>

-----------------------------------------------------------------------------
(* Jobs.                                                                   *)

\* A worker loads the disk; the command throws when it is gone.
StartJob(p, k, d) ==
  /\ proc[p].pc = "idle"
  /\ queue[k][d] > 0
  /\ queue' = [queue EXCEPT ![k][d] = @ - 1]
  /\ IF d \in live
     THEN /\ Becomes(p, [Idle EXCEPT !.pc = IF k = "persist" THEN "allocateA" ELSE "stop",
                           !.kind = k, !.d = d, !.num = counter[d], !.has = linked[d]])
          /\ overlapped' = IF \E q \in Workers : proc[q].d = d
                           THEN overlapped \cup {d} ELSE overlapped
     ELSE UNCHANGED <<proc, overlapped>>
  /\ UNCHANGED <<live, removed, counter, place, linked, child, nodeVars, web,
                 spent, raced, expired, stranded>>

NodeOf(p, s) == place[proc[p].d][s]

\* The cached session of p to one of the disk's nodes.
ConnTo(p, s) == IF proc[p].conn[s] # "none" THEN proc[p].conn[s]
                ELSE IF NodeOf(p, s) \in up THEN "open" ELSE "dead"
Conns(p, S) == [s \in Sides |-> IF s \in S THEN ConnTo(p, s) ELSE proc[p].conn[s]]

Reaches(p, s) == ConnTo(p, s) = "open" /\ NodeOf(p, s) \in up

\* After(pc): the order of a job's steps.
AfterDeleteFirst(pc) ==   \* mutant: the row goes before the configuration
  CASE pc = "drain"  -> "delete"
    [] pc = "delete" -> "unconfigure"
    [] pc = "unconfigure" -> "save"
    [] OTHER -> "idle"
After(pc) == CASE pc = "drain" -> "unconfigure"
               [] pc = "unconfigure" -> "delete"
               [] pc = "delete" -> "save"

\* The nodes a step's uncaught commands go to: getShortHostname of both
\* sides, or the cstate of the first one.
Needs(pc) == CASE pc \in {"configA", "configB", "start", "stop"} -> Sides
               [] pc \in {"wait", "drain"} -> {"A"}
               [] OTHER -> {}

\* A command throws and the process ends: the node is not reached, or
\* getDiskA() is null ("stop" without children is a fatal error).  The removal
\* also saves the virtual machine, which may throw.
JobFails(p) ==
  /\ \/ \E s \in Needs(proc[p].pc) : ~Reaches(p, s)
     \/ proc[p].pc = "stop" /\ proc[p].has # Sides
     \/ proc[p].pc = "save"
  /\ Becomes(p, Idle)
  /\ UNCHANGED <<dbVars, nodeVars, web, histVars>>

\* The process is killed, or the database refuses a flush.  Nothing goes on
\* where it was; a child it had inserted and not linked yet stays as it is.
Kill(p) ==
  /\ proc[p].pc # "idle"
  /\ Spend("kill")
  /\ stranded' = stranded \cup {<<proc[p].d, s>> : s \in {t \in Sides : proc[p].pc = LinkPc[t]}}
  /\ Becomes(p, Idle)
  /\ UNCHANGED <<dbVars, nodeVars, web, raced, overlapped, expired>>

\* allocateDisks for one side: the child row is inserted by a flush of its own.
\* (A disk is set up by one persist job; running "zevirt:disk persist" by hand
\* again is not modelled.)
Allocate(p, s) ==
  /\ proc[p].pc = AllocatePc[s]
  /\ NodeOf(p, "A") # NodeOf(p, "B")
  /\ child' = [child EXCEPT ![proc[p].d][s] = "hidden"]
  /\ Becomes(p, [proc[p] EXCEPT !.pc = LinkPc[s]])
  /\ UNCHANGED <<live, removed, counter, place, linked, queue, nodeVars, web, histVars>>

\* DiskService.persist of the child: its flush writes the link too, and then the
\* volume is made; an error of vol-create is swallowed.
LinkChild(p, s) ==
  LET d == proc[p].d
  IN  /\ proc[p].pc = LinkPc[s]
      /\ linked' = [linked EXCEPT ![d] = @ \cup {s}]
      /\ \E made \in BOOLEAN :
           /\ made => Reaches(p, s)
           /\ volume' = [volume EXCEPT ![d][s] = made]
      /\ Becomes(p, [proc[p] EXCEPT !.pc = IF s = "A" THEN "allocateB" ELSE "configA",
                                    !.has = @ \cup {s}, !.conn = Conns(p, {s})])
      /\ UNCHANGED <<live, removed, counter, place, child, queue, up, config, link,
                     role, web, histVars>>

\* 'Disk A and B must be on different nodes'.
AllocateFails(p) ==
  /\ proc[p].pc = "allocateA"
  /\ NodeOf(p, "A") = NodeOf(p, "B")
  /\ Becomes(p, Idle)
  /\ UNCHANGED <<dbVars, nodeVars, web, histVars>>

\* saveToNode: the text needs the hostnames of both nodes; filePutContents
\* swallows a failed write.
SaveConfig(p, s) ==
  /\ proc[p].pc = ConfigPc[s]
  /\ \A t \in Sides : Reaches(p, t)
  /\ \/ /\ config' = [config EXCEPT ![NodeOf(p, s)][proc[p].num] = proc[p].d]
        /\ UNCHANGED spent
     \/ /\ Spend("swallow")
        /\ UNCHANGED config
  /\ Becomes(p, [proc[p] EXCEPT !.pc = IF s = "A" THEN "configB" ELSE "start",
                                !.conn = Conns(p, Sides)])
  /\ UNCHANGED <<dbVars, up, link, role, volume, web, raced, overlapped, expired, stranded>>

\* pacemakerAdd: cibadminAdd swallows the errors of cibadmin.
PacemakerAdd(p, from, state, to) ==
  /\ proc[p].pc = from
  /\ proc[p].has = Sides
  /\ \A t \in Sides : Reaches(p, t)
  /\ \/ /\ role' = [role EXCEPT ![proc[p].num] = state]
        /\ UNCHANGED spent
     \/ /\ Spend("swallow")
        /\ UNCHANGED role
  /\ Becomes(p, [proc[p] EXCEPT !.pc = to, !.conn = Conns(p, Sides)])
  /\ UNCHANGED <<dbVars, up, config, link, volume, web, raced, overlapped, expired, stranded>>

\* isConnected: cstate on the first node says 'Connected'.
IsConnected(p) == link[proc[p].num] = "connected"

\* One more poll without the awaited answer; the job goes on after the last.
PollUncounted(p, next) == UNCHANGED proc   \* mutant: $i is not counted
PollAgain(p, next) ==
  IF proc[p].polls + 1 < MaxPolls
  THEN Becomes(p, [proc[p] EXCEPT !.polls = @ + 1])
  ELSE Becomes(p, IF next = "idle" THEN Idle ELSE [proc[p] EXCEPT !.pc = next, !.polls = 0])

\* persistTasks: 'Waiting up to 1 minute for drbd to connect'.  Giving up is
\* no error; the job succeeds either way.
WaitConnected(p) ==
  /\ proc[p].pc = "wait"
  /\ Reaches(p, "A")
  /\ IF IsConnected(p) THEN Becomes(p, Idle) ELSE PollAgain(p, "idle")
  /\ UNCHANGED <<dbVars, nodeVars, web, histVars>>

\* removeTasks: 'Waiting up to 1 minute for drbd to disconnect'.  When the
\* time is up it returns, and DiskService removes the row all the same.
WaitDisconnected(p) ==
  /\ proc[p].pc = "drain"
  /\ Reaches(p, "A")
  /\ IF IsConnected(p) THEN PollAgain(p, "drop")
     ELSE Becomes(p, [proc[p] EXCEPT !.pc = After("drain"), !.polls = 0])
  /\ UNCHANGED <<dbVars, nodeVars, web, histVars>>

\* pacemakerDelete and deleteConfig; every error is swallowed.
Unconfigure(p) ==
  LET c == proc[p].num
      reached == {s \in Sides : Reaches(p, s)}
      emptied == {NodeOf(p, s) : s \in reached}
  IN  /\ proc[p].pc = "unconfigure"
      /\ config' = [n \in Nodes |-> IF n \in emptied THEN [config[n] EXCEPT ![c] = NoDisk]
                                    ELSE config[n]]
      /\ \/ "A" \in reached /\ role' = [role EXCEPT ![c] = "none"]
         \/ UNCHANGED role
      /\ Becomes(p, [proc[p] EXCEPT !.pc = After("unconfigure"), !.conn = Conns(p, Sides)])
      /\ UNCHANGED <<dbVars, up, link, volume, web, histVars>>

\* setChild(0), set by deleteConfig and written by the flush of the removal.
ShowNothing(d) == child[d]   \* mutant: the flag child is left alone
Shown(d) == [s \in Sides |-> IF child[d][s] = "hidden" THEN "shown" ELSE child[d][s]]

\* em->remove cascades to the counter.
DropRow(d) == /\ live' = live \ {d}
              /\ removed' = removed \cup {d}
              /\ counter' = [counter EXCEPT ![d] = NoCounter]
              /\ linked' = [linked EXCEPT ![d] = {}]

DeleteRow(p) ==
  LET d == proc[p].d
  IN  /\ proc[p].pc = "delete"
      /\ DropRow(d)
      /\ child' = [child EXCEPT ![d] = Shown(d)]
      /\ Becomes(p, [proc[p] EXCEPT !.pc = After("delete")])
      /\ UNCHANGED <<place, queue, nodeVars, web, histVars>>

\* DiskService.removeTasks after a removal that gave up.
DropExpired(p) ==
  /\ proc[p].pc = "drop"
  /\ DropRow(proc[p].d)
  /\ expired' = expired \cup {proc[p].d}
  /\ Becomes(p, Idle)
  /\ UNCHANGED <<place, child, queue, nodeVars, web, spent, raced, overlapped, stranded>>

\* The virtual machine is saved without the disk.
SaveVm(p) ==
  /\ proc[p].pc = "save"
  /\ Becomes(p, [proc[p] EXCEPT !.pc = "removeA"])
  /\ UNCHANGED <<dbVars, nodeVars, web, histVars>>

\* DiskService.removeTasks of a child: vol-delete (errors swallowed), the file
\* check (passed as well without a session), the child's row.
RemoveChild(p, s) ==
  LET d == proc[p].d
  IN  /\ proc[p].pc = RemovePc[s]
      /\ volume' = [volume EXCEPT ![d][s] = @ /\ ~Reaches(p, s)]
      /\ child' = [child EXCEPT ![d][s] = "none"]
      /\ Becomes(p, IF s = "A" THEN [proc[p] EXCEPT !.pc = "removeB", !.conn = Conns(p, {s})]
                    ELSE Idle)
      /\ UNCHANGED <<live, removed, counter, place, linked, queue, up, config,
                     link, role, web, histVars>>

\* 'Remove of Disk failed', or the check itself throws.
RemoveChildFails(p, s) ==
  /\ proc[p].pc = RemovePc[s]
  /\ Becomes(p, Idle)
  /\ UNCHANGED <<dbVars, nodeVars, web, histVars>>

-----------------------------------------------------------------------------
(* The environment: nodes, pacemaker and DRBD.                             *)

NodeDown(n) == /\ n \in up
               /\ Spend("outage")
               /\ up' = up \ {n}
               /\ UNCHANGED <<dbVars, config, link, role, volume, web, proc,
                              raced, overlapped, expired, stranded>>

NodeUp(n) == /\ n \notin up
             /\ up' = up \cup {n}
             /\ UNCHANGED <<dbVars, config, link, role, volume, web, proc, histVars>>

\* Pacemaker brings r<c> up where both nodes describe the same disk.
ResourceUp(c) ==
  /\ link[c] = "down" /\ role[c] = "Started"
  /\ \E d \in Disks : \E n, m \in Nodes :
       /\ config[n][c] = d /\ config[m][c] = d
       /\ n = place[d]["A"] /\ m = place[d]["B"]
  /\ link' = [link EXCEPT ![c] = "waiting"]
  /\ UNCHANGED <<dbVars, up, config, role, volume, web, proc, histVars>>

\* The peers find each other, synchronise, finish, or lose each other.
LinkStep(c) ==
  /\ Up(c)
  /\ \E new \in (CASE link[c] = "waiting"   -> {"syncing", "connected"}
                   [] link[c] = "syncing"   -> {"connected", "waiting"}
                   [] link[c] = "connected" -> {"waiting"}) :
       link' = [link EXCEPT ![c] = new]
  /\ UNCHANGED <<dbVars, up, config, role, volume, web, proc, histVars>>

\* Pacemaker stops r<c>.
ResourceDown(c) ==
  /\ Up(c) /\ role[c] = "Stopped"
  /\ link' = [link EXCEPT ![c] = "down"]
  /\ UNCHANGED <<dbVars, up, config, role, volume, web, proc, histVars>>

-----------------------------------------------------------------------------

Init ==
  /\ live = {} /\ removed = {}
  /\ counter = [d \in Disks |-> NoCounter]
  /\ place = [d \in Disks |-> [s \in Sides |-> NoNode]]
  /\ linked = [d \in Disks |-> {}]
  /\ child = [d \in Disks |-> [s \in Sides |-> "none"]]
  /\ queue = [k \in Kinds |-> [d \in Disks |-> 0]]
  /\ up = Nodes
  /\ config = [n \in Nodes |-> [c \in Counters |-> NoDisk]]
  /\ link = [c \in Counters |-> "down"]
  /\ role = [c \in Counters |-> "none"]
  /\ volume = [d \in Disks |-> [s \in Sides |-> FALSE]]
  /\ web = [w \in Webs |-> NoRequest]
  /\ proc = [p \in Workers |-> Idle]
  /\ spent = [b \in BudgetNames |-> 0]
  /\ raced = FALSE /\ overlapped = {} /\ expired = {} /\ stranded = {}

WebStep ==
  \/ \E w \in Webs : CommitDisk(w) \/ \E d \in Disks : ReadCounters(w, d)
  \/ \E d \in Disks : RequestRemove(d)

JobStep(p) ==
  \/ \E s \in Sides : Allocate(p, s) \/ LinkChild(p, s) \/ SaveConfig(p, s)
                      \/ RemoveChild(p, s) \/ RemoveChildFails(p, s)
  \/ AllocateFails(p)
  \/ PacemakerAdd(p, "start", "Started", "wait")
  \/ PacemakerAdd(p, "stop", "Stopped", "drain")
  \/ WaitConnected(p) \/ WaitDisconnected(p)
  \/ Unconfigure(p) \/ DeleteRow(p) \/ DropExpired(p) \/ SaveVm(p)
  \/ JobFails(p)

EnvironmentStep ==
  \/ \E n \in Nodes : NodeDown(n) \/ NodeUp(n)
  \/ \E c \in Counters : ResourceUp(c) \/ LinkStep(c) \/ ResourceDown(c)

Next ==
  \/ WebStep
  \/ \E p \in Workers : JobStep(p) \/ Kill(p) \/ \E k \in Kinds, d \in Disks : StartJob(p, k, d)
  \/ EnvironmentStep

Spec == Init /\ [][Next]_vars

\* A console process that was started keeps running, and the queue dispatches.
FairSpec ==
  /\ Spec
  /\ \A p \in Workers : WF_vars(JobStep(p))
  /\ \A k \in Kinds, d \in Disks : WF_vars(\E p \in Workers : StartJob(p, k, d))

-----------------------------------------------------------------------------
(* Properties.                                                             *)

TypeOK ==
  /\ live \subseteq Disks /\ removed \subseteq Disks
  /\ counter \in [Disks -> Counters \cup {NoCounter}]
  /\ place \in [Disks -> [Sides -> Nodes \cup {NoNode}]]
  /\ linked \in [Disks -> SUBSET Sides]
  /\ child \in [Disks -> [Sides -> {"none", "hidden", "shown"}]]
  /\ queue \in [Kinds -> [Disks -> Nat]]
  /\ up \subseteq Nodes
  /\ config \in [Nodes -> [Counters -> Disks \cup {NoDisk}]]
  /\ link \in [Counters -> Links]
  /\ role \in [Counters -> {"none", "Started", "Stopped"}]
  /\ volume \in [Disks -> [Sides -> BOOLEAN]]
  /\ web \in [Webs -> Request]
  /\ proc \in [Workers -> Process]
  /\ spent \in [BudgetNames -> Nat]
  /\ raced \in BOOLEAN /\ overlapped \subseteq Disks /\ expired \subseteq Disks
  /\ stranded \subseteq Disks \X Sides

\* No two disks of the cluster share a counter value, and with it a resource
\* name, a port and a device, unless two requests once read the counters at
\* the same time (getNextFreeDrbdCountByCluster).
CountersDistinct ==
  raced \/ \A d, e \in live : counter[d] = counter[e] => d = e

\* Why: the disks with a row are those with a value; while no two requests
\* have raced, the values are distinct and the only one on its way is unused.
CounterInv ==
  /\ \A d \in Disks : counter[d] # NoCounter <=> d \in live
  /\ \A w \in Webs : web[w] # NoRequest =>
       web[w].d \in Disks \ (live \cup removed) /\ web[w].num \in Counters
  /\ \A w, x \in Webs : web[w] # NoRequest /\ web[x].d = web[w].d => w = x
  /\ ~raced =>
       /\ \A d, e \in live : counter[d] = counter[e] => d = e
       /\ \A w \in Webs, d \in live : web[w] # NoRequest => counter[d] # web[w].num
       /\ \A w, x \in Webs : web[w] # NoRequest /\ web[x] # NoRequest => w = x

\* A busy process holds a disk that has or had a row.
Busy == \A p \in Workers : proc[p].pc # "idle" => proc[p].d \in live \cup removed

\* Until two requests read the counters at once, they are a pool in which every
\* value has one user (CounterPool).
Pool == INSTANCE CounterPool WITH Users <- Disks, Values <- Counters,
                                  Nothing <- NoCounter, holds <- counter
CountersPool == Pool!Init /\ [][raced \/ Pool!Next]_counter

\* A hidden child disk is named by a DRBD disk's row, or the job that inserted
\* it is about to link it: no volume is lost that the interface does not show
\* (setChild in allocateDisks, deleteConfig).  Excepted are a set-up that was
\* killed between the two flushes, and a removal that gave up waiting.
HiddenHaveOwner ==
  \A d \in Disks, s \in Sides :
    child[d][s] = "hidden" =>
      \/ s \in linked[d]
      \/ \E p \in Workers : proc[p].d = d /\ proc[p].pc = LinkPc[s]
      \/ <<d, s>> \in stranded
      \/ d \in expired

\* Once the configuration of a disk is on a node, only the removal of that disk
\* takes it away: counters are given back after the files are gone, so a
\* removal never hits the successor's file.  Racing requests and a disk that is
\* set up and removed at the same time are excepted.
ConfigKept ==
  [][\A n \in Nodes, d \in live :
        LET c == counter[d]
        IN  config[n][c] = d /\ config'[n][c] # d =>
              \/ \E p \in Workers : proc[p].d = d /\ proc[p].pc = "unconfigure"
              \/ raced \/ overlapped # {}]_vars

\* A job is pending or a process works.
Working == \/ \E k \in Kinds, d \in Disks : queue[k][d] > 0
           \/ \E p \in Workers : proc[p].pc # "idle"

\* Every job is taken and every job ends, connected or not: when users ask for
\* nothing more, a time comes at which nothing is left to do.
JobsEnd == Working ~> ~Working

=============================================================================

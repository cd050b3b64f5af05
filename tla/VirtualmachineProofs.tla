------------------------ MODULE VirtualmachineProofs ------------------------
(***************************************************************************)
(* The safety properties of Virtualmachine are proved of Spec, for all     *)
(* nodes, machines, clusters, workers, scanners and budgets.               *)
(*                                                                         *)
(* The first part proves TypeOK and SavedOrDirty.  SavingInv is inductive: *)
(* a promise is made when a saving process exits, and Covered says that by *)
(* then every target is marked dirty, undefined on purpose, or defined.    *)
(* There is one lemma per action; StepKeeps and OtherKeeps hold what they  *)
(* have in common.                                                         *)
(*                                                                         *)
(* The second part, from RowEffect on, proves what relates the copies that *)
(* processes hold to the rows and the nodes.  CopiesInv is inductive       *)
(* relative to SavingInv.  Effect bounds what the step of one process does *)
(* to rows, copies and nodes; EffectKeeps shows that it takes nothing from *)
(* the others, so the lemma of an action only looks at its own process.    *)
(***************************************************************************)
EXTENDS Virtualmachine, TLAPS

USE ConstantsAssumption

-----------------------------------------------------------------------------
(* The values.                                                            *)

\* The null row is a row, and no machine has it.
LEMMA NullRowFacts == NullRow \in Row /\ NullRow.version = 0 /\ RowOK(NullRow)
<1>1. NullRow \in Row BY DEF NullRow, Row, NodeRef, States
<1>2. NullRow.version = 0 BY DEF NullRow
<1> QED BY <1>1, <1>2 DEF RowOK

\* A process that ended has no place, no rows and nothing left to cover.
LEMMA IdleFacts ==
  /\ Idle \in Process
  /\ ProcessOK(Idle)
  /\ Idle.pc = "idle"
  /\ \A kept : CoveredBy(Idle, kept)
<1>1. NullRow \in Row BY NullRowFacts
<1>2. Idle.snap = [v \in Vms |-> NullRow] /\ Idle.pc = "idle" BY DEF Idle
<1>3. Idle \in Process
  BY <1>1 DEF Idle, Process, PCs, NodeRef, Session
<1>4. ProcessOK(Idle)
  <2>1. \A v \in Vms : RowOK(Idle.snap[v]) BY <1>2, NullRowFacts
  <2> QED BY <2>1, <1>2 DEF ProcessOK
<1>5. \A kept : CoveredBy(Idle, kept) BY <1>2 DEF CoveredBy
<1> QED BY <1>2, <1>3, <1>4, <1>5

-----------------------------------------------------------------------------
(* What the actions have in common.                                       *)

\* A step of one process keeps the invariant when its new record is in order,
\* nothing that was promised is lost, and no promise is made.
LEMMA StepKeeps ==
  ASSUME SavingInv, NEW p \in Procs, NEW r \in Process, Becomes(p, r), ProcessOK(r),
         DatabaseOK', NodesOK', HistoryOK', \A v \in Vms : RowOK(rows'[v]),
         KeptPairs \subseteq KeptPairs', CoveredBy(r, KeptPairs'),
         promised' = promised
  PROVE  SavingInv'
<1>1. proc' \in [Procs -> Process] /\ \A q \in Procs : proc'[q] = IF q = p THEN r ELSE proc[q]
  BY DEF SavingInv, TypeOK, Becomes
<1>2. TypeOK' /\ Shape'
  BY <1>1 DEF SavingInv, TypeOK, Shape
<1>3. Covered'
  <2> SUFFICES ASSUME NEW q \in Procs PROVE CoveredBy(proc'[q], KeptPairs')
    BY DEF Covered
  <2>1. CASE q = p BY <2>1, <1>1
  <2>2. CASE q # p
    <3>1. CoveredBy(proc[q], KeptPairs) BY DEF SavingInv, Covered
    <3> QED BY <3>1, <2>2, <1>1 DEF CoveredBy
  <2> QED BY <2>1, <2>2
<1>4. SavedOrDirty'
  BY DEF SavingInv, SavedOrDirty, KeptPairs
<1> QED BY <1>2, <1>3, <1>4 DEF SavingInv

\* So does a step of no process.
LEMMA OtherKeeps ==
  ASSUME SavingInv, UNCHANGED proc,
         DatabaseOK', NodesOK', HistoryOK', \A v \in Vms : RowOK(rows'[v]),
         KeptPairs \subseteq KeptPairs', promised' = promised
  PROVE  SavingInv'
<1>1. TypeOK' /\ Shape'
  BY DEF SavingInv, TypeOK, Shape
<1>2. Covered'
  <2> SUFFICES ASSUME NEW q \in Procs PROVE CoveredBy(proc[q], KeptPairs')
    BY DEF Covered
  <2> QED BY DEF SavingInv, Covered, CoveredBy
<1>3. SavedOrDirty'
  BY DEF SavingInv, SavedOrDirty, KeptPairs
<1> QED BY <1>1, <1>2, <1>3 DEF SavingInv

\* No promise is lost while marks and undefinitions only accumulate and
\* definitions only disappear by being undefined on purpose.
LEMMA KeptGrows ==
  ASSUME dirty \subseteq dirty', undone \subseteq undone',
         \A n \in Nodes, v \in Vms :
           defs[n][v].version > 0 => defs'[n][v].version > 0 \/ <<n, v>> \in undone'
  PROVE  KeptPairs \subseteq KeptPairs'
BY DEF KeptPairs

\* What covers a process still does when more is kept.
LEMMA CoveredStays ==
  ASSUME NEW r, NEW K, NEW L, K \subseteq L, CoveredBy(r, K)
  PROVE  CoveredBy(r, L)
BY DEF CoveredBy

\* getConnection leaves one session per node.
LEMMA ConnFacts ==
  ASSUME TypeOK, NEW p \in Procs, NEW S \in SUBSET Nodes
  PROVE  /\ Conns(p, S) \in [Nodes -> Session]
         /\ DeadAmong(p, S) \in SUBSET Nodes
BY DEF Conns, DeadAmong, ConnTo, TypeOK, Process, Session

\* getConnection only ever sets the flag dirty of nodes (nothing clears it).
LEMMA MarkDirtyFacts ==
  ASSUME TypeOK, NEW p \in Procs, NEW S \in SUBSET Nodes, MarkDirty(p, S)
  PROVE  dirty' \subseteq Nodes /\ dirty \subseteq dirty'
BY ConnFacts DEF MarkDirty, TypeOK, DatabaseOK

\* What the invariant says of one process.
LEMMA ProcFacts ==
  ASSUME SavingInv, NEW p \in Procs
  PROVE  proc[p] \in Process /\ ProcessOK(proc[p]) /\ CoveredBy(proc[p], KeptPairs)
BY DEF SavingInv, TypeOK, Shape, Covered

\* The loops of persistTasks and removeTasks run over nodes.
LEMMA TargetsType == ASSUME TypeOK, Shape, NEW v \in Vms, Live(v) PROVE Targets(v) \subseteq Nodes
BY DEF Targets, Members, Shape, RowOK, Live, IsHa, TypeOK, DatabaseOK

-----------------------------------------------------------------------------
(* The web process and the environment.                                   *)

\* POST of a virtual machine keeps the invariant.
LEMMA CreateVmKeeps ==
  ASSUME SavingInv, NEW v \in Vms, NEW n \in Nodes, CreateVm(v, n)
  PROVE  SavingInv'
<1> DEFINE r == [NullRow EXCEPT !.home = n, !.default = n, !.version = 1]
<1>1. r \in Row /\ RowOK(r)
  BY NullRowFacts DEF Row, NodeRef, RowOK
<1>2. rows' = [rows EXCEPT ![v] = r] BY DEF CreateVm
<1> HIDE DEF r
<1>3. rows' \in [Vms -> Row] /\ \A x \in Vms : RowOK(rows'[x])
  BY <1>1, <1>2 DEF SavingInv, TypeOK, DatabaseOK, Shape
<1>4. queue' \in [JobKinds -> [Vms -> Nat]]
  BY DEF CreateVm, Enqueue, SavingInv, TypeOK, DatabaseOK, JobKinds
<1>5. DatabaseOK' /\ NodesOK' /\ HistoryOK'
  BY <1>3, <1>4 DEF CreateVm, SavingInv, TypeOK, DatabaseOK, NodesOK, HistoryOK, nodeVars, histVars
<1>6. KeptPairs \subseteq KeptPairs'
  BY KeptGrows DEF CreateVm, nodeVars, histVars
<1> QED BY <1>3, <1>5, <1>6, OtherKeeps DEF CreateVm, nodeVars, histVars

\* A budget is spent by naturals.
LEMMA SpendType ==
  ASSUME TypeOK, NEW b \in BudgetNames, Spend(b)
  PROVE  spent' \in [BudgetNames -> Nat]
BY DEF TypeOK, HistoryOK, Spend

\* The question whether the guest runs spends no budget but its own.
LEMMA AskFacts ==
  ASSUME TypeOK, NEW p, NEW v, NEW answer, IsRunning(p, v, answer)
  PROVE  /\ spent' \in [BudgetNames -> Nat]
         /\ spent'["move"] = spent["move"] /\ spent'["outage"] = spent["outage"]
         /\ spent'["write"] = spent["write"]
         /\ answer # SeesRunning(p, v) => spent'["ask"] > spent["ask"]
<1>1. spent \in [BudgetNames -> Nat] BY DEF TypeOK, HistoryOK
<1>2. CASE answer = SeesRunning(p, v) /\ UNCHANGED spent BY <1>1, <1>2
<1>3. CASE SeesRunning(p, v) /\ answer = FALSE /\ Spend("ask")
  <2>1. spent' = [spent EXCEPT !["ask"] = @ + 1] BY <1>3 DEF Spend
  <2>2. spent["ask"] \in Nat /\ "ask" \in BudgetNames BY <1>1 DEF BudgetNames
  <2>3. spent'["ask"] = spent["ask"] + 1 BY <1>1, <2>1, <2>2
  <2>4. \A b \in BudgetNames : b # "ask" => spent'[b] = spent[b] BY <1>1, <2>1
  <2>5. spent' \in [BudgetNames -> Nat] BY <1>1, <2>1, <2>2
  <2>6. spent'["ask"] > spent["ask"] BY <2>2, <2>3
  <2>7. {"move", "outage", "write"} \subseteq BudgetNames \ {"ask"} BY DEF BudgetNames
  <2> QED BY <2>4, <2>5, <2>6, <2>7
<1> QED BY <1>2, <1>3 DEF IsRunning

\* A job is pending once more.
LEMMA EnqueueType ==
  ASSUME TypeOK, NEW k \in JobKinds, NEW v \in Vms, Enqueue(k, v)
  PROVE  queue' \in [JobKinds -> [Vms -> Nat]]
BY DEF TypeOK, DatabaseOK, Enqueue

\* PUT and DELETE of a virtual machine and POST of a disk keep the invariant.
LEMMA EditKeeps ==
  ASSUME SavingInv, NEW v \in Vms, EditVm(v) \/ RequestRemove(v) \/ AddDisk(v)
  PROVE  SavingInv'
<1>1. rows' \in [Vms -> Row] /\ \A x \in Vms : RowOK(rows'[x])
  <2>1. rows[v] \in Row /\ RowOK(rows[v]) /\ rows \in [Vms -> Row] /\ \A x \in Vms : RowOK(rows[x])
    BY DEF SavingInv, TypeOK, DatabaseOK, Shape
  <2>2. rows[v].version > 0 /\ rows[v].version + 1 \in Nat /\ rows[v].home \in Nodes
    BY <2>1 DEF EditVm, RequestRemove, AddDisk, Live, Row, RowOK
  <2>3. CASE EditVm(v)
    BY <2>1, <2>2, <2>3 DEF EditVm, RowOK, Row, NodeRef
  <2>4. CASE RequestRemove(v)
    BY <2>1, <2>4 DEF RequestRemove
  <2>5. CASE AddDisk(v)
    BY <2>1, <2>2, <2>5 DEF AddDisk, RowOK, Row, NodeRef
  <2> QED BY <2>3, <2>4, <2>5
<1>2. queue' \in [JobKinds -> [Vms -> Nat]] /\ spent' \in [BudgetNames -> Nat]
  BY EnqueueType, SpendType DEF EditVm, RequestRemove, AddDisk, SavingInv, JobKinds, BudgetNames
<1>3. UNCHANGED <<deleted, clusterOf, dirty, nodeVars, proc, promised, undone, overlapped>>
  BY DEF EditVm, RequestRemove, AddDisk
<1>5. DatabaseOK' /\ NodesOK' /\ HistoryOK'
  BY <1>1, <1>2, <1>3 DEF SavingInv, TypeOK, DatabaseOK, NodesOK, HistoryOK, nodeVars
<1>6. KeptPairs \subseteq KeptPairs'
  BY <1>3, KeptGrows DEF nodeVars
<1> QED BY <1>1, <1>3, <1>5, <1>6, OtherKeeps

\* PUT of a node with another cluster keeps the invariant.
LEMMA MoveNodeKeeps ==
  ASSUME SavingInv, NEW n \in Nodes, NEW c \in Clusters, MoveNode(n, c)
  PROVE  SavingInv'
<1>1. spent' \in [BudgetNames -> Nat] /\ clusterOf' \in [Nodes -> Clusters]
      /\ dirty \subseteq dirty' /\ dirty' \subseteq Nodes
  BY SpendType DEF MoveNode, SavingInv, TypeOK, DatabaseOK, BudgetNames
<1>2. UNCHANGED <<rows, deleted, queue, nodeVars, proc, promised, undone, overlapped>>
  BY DEF MoveNode
<1>5. DatabaseOK' /\ NodesOK' /\ HistoryOK' /\ \A v \in Vms : RowOK(rows'[v])
  BY <1>1, <1>2 DEF SavingInv, TypeOK, DatabaseOK, NodesOK, HistoryOK, nodeVars, Shape
<1>6. KeptPairs \subseteq KeptPairs'
  BY <1>1, <1>2, KeptGrows DEF nodeVars
<1> QED BY <1>2, <1>5, <1>6, OtherKeeps

\* The network, guests and pacemaker keep the invariant.
LEMMA EnvironmentKeeps ==
  ASSUME SavingInv, EnvironmentStep
  PROVE  SavingInv'
<1> USE DEF NodeDown, NodeUp, ActionStart, ResourceStarts, GuestStops
<1>1. UNCHANGED <<dbVars, files, defs, volumes, nextUuid, proc, promised, undone, overlapped>>
  BY DEF EnvironmentStep, histVars
<1>2. spent' \in [BudgetNames -> Nat]
  BY SpendType DEF EnvironmentStep, SavingInv, TypeOK, HistoryOK, BudgetNames, histVars
<1>3. up' \subseteq Nodes /\ running' \in [Vms -> NodeRef]
      /\ role' \in [Vms -> {"none", "Started", "Stopped"}]
  <2> USE DEF SavingInv, TypeOK, NodesOK, NodeRef
  <2>1. CASE \E n \in Nodes : NodeDown(n) \/ NodeUp(n) BY <2>1
  <2>2. CASE \E v \in Vms : ActionStart(v)
    BY <2>2 DEF DatabaseOK, Row, Shape, RowOK, Live
  <2>3. CASE \E v \in Vms : GuestStops(v) BY <2>3
  <2>4. CASE \E v \in Vms, n \in Nodes : ResourceStarts(v, n) BY <2>4
  <2> QED BY <2>1, <2>2, <2>3, <2>4 DEF EnvironmentStep
<1>5. DatabaseOK' /\ NodesOK' /\ HistoryOK' /\ \A v \in Vms : RowOK(rows'[v])
  BY <1>1, <1>2, <1>3 DEF SavingInv, TypeOK, DatabaseOK, NodesOK, HistoryOK, dbVars, Shape
<1>6. KeptPairs \subseteq KeptPairs'
  BY <1>1, KeptGrows DEF dbVars
<1> QED BY <1>1, <1>5, <1>6, OtherKeeps DEF dbVars

-----------------------------------------------------------------------------
(* The beginning and the end of a job.                                    *)

\* A job starts with the row it loaded and all its targets on its list.
LEMMA NewJobFacts ==
  ASSUME SavingInv, NEW k \in JobKinds, NEW v \in Vms,
         Live(v), k = "disk" => rows[v].disk # NoNode
  PROVE  /\ NewJob(k, v) \in Process
         /\ ProcessOK(NewJob(k, v))
         /\ \A kept : CoveredBy(NewJob(k, v), kept)
<1> DEFINE r == NewJob(k, v)
           loaded == [w \in Vms |-> IF w = v THEN rows[v] ELSE NullRow]
<1>1. Targets(v) \subseteq Nodes /\ FirstPc(k, v) \in PCs /\ IsHa(v) \in BOOLEAN
  BY TargetsType DEF SavingInv, FirstPc, PCs, JobKinds, IsHa
<1>2. loaded \in [Vms -> Row] /\ \A x \in Vms : RowOK(loaded[x])
  BY NullRowFacts DEF SavingInv, TypeOK, DatabaseOK, Shape
<1>3. r \in Process
  BY <1>1, <1>2, IdleFacts DEF NewJob, Process, JobKinds
<1>4. /\ r.pc = FirstPc(k, v) /\ r.kind = k /\ r.vm = v /\ r.snap = loaded
      /\ r.targets = Targets(v) /\ r.todo = Targets(v) \X {v}
  BY IdleFacts DEF NewJob, Process
<1>5. r.snap[v] = rows[v] /\ rows[v].version > 0 /\ rows[v].disk \in NodeRef
  BY <1>4 DEF SavingInv, TypeOK, DatabaseOK, Row, Live
<1>6. /\ \A t \in r.todo : t[2] = v
      /\ k \in {"persist", "disk"} => r.pc \in {"create", "define"}
      /\ k = "remove" => r.pc \in {"disk", "check"}
      /\ r.pc \in {"create", "disk"} => rows[v].disk \in Nodes
      /\ \A n \in r.targets : <<n, v>> \in r.todo
  BY <1>4, <1>5 DEF FirstPc, JobKinds, NodeRef
<1> HIDE DEF r, loaded
<1>7. ProcessOK(r)
  BY <1>2, <1>4, <1>5, <1>6 DEF ProcessOK, SavePcs, RemovePcs, JobKinds
<1>8. \A kept : CoveredBy(r, kept)
  BY <1>4, <1>6 DEF CoveredBy, JobKinds
<1> QED BY <1>3, <1>7, <1>8 DEF r

\* Taking a job from the queue keeps the invariant.
LEMMA StartJobKeeps ==
  ASSUME SavingInv, NEW w \in Workers, NEW k \in JobKinds, NEW v \in Vms, StartJob(w, k, v)
  PROVE  SavingInv'
<1>1. w \in Procs BY DEF Procs
<1>2. queue' \in [JobKinds -> [Vms -> Nat]]
  BY DEF StartJob, Pending, SavingInv, TypeOK, DatabaseOK
<1>3. overlapped' \subseteq Vms
  BY DEF StartJob, SavingInv, TypeOK, HistoryOK, HeldByOthers
<1>4. UNCHANGED <<rows, deleted, clusterOf, dirty, nodeVars, spent, promised, undone>>
  BY DEF StartJob
<1>5. DatabaseOK' /\ NodesOK' /\ HistoryOK' /\ \A x \in Vms : RowOK(rows'[x])
  BY <1>2, <1>3, <1>4 DEF SavingInv, TypeOK, DatabaseOK, NodesOK, HistoryOK, nodeVars, Shape
<1>6. KeptPairs \subseteq KeptPairs'
  BY <1>4, KeptGrows DEF nodeVars
<1>7. CASE Live(v) /\ (k = "disk" => rows[v].disk # NoNode)
  BY <1>1, <1>4, <1>5, <1>6, <1>7, NewJobFacts, StepKeeps DEF StartJob
<1>8. CASE ~(Live(v) /\ (k = "disk" => rows[v].disk # NoNode))
  BY <1>4, <1>5, <1>6, <1>8, OtherKeeps DEF StartJob
<1> QED BY <1>7, <1>8

\* A successful exit keeps the invariant: what it promises is covered.
LEMMA ExitKeeps ==
  ASSUME SavingInv, NEW p \in Procs, Exit(p)
  PROVE  SavingInv'
<1>1. proc[p] \in Process /\ ProcessOK(proc[p]) /\ CoveredBy(proc[p], KeptPairs)
  BY ProcFacts
<1>2. promised' \in [Nodes -> [Vms -> Nat]]
  BY <1>1 DEF Exit, SavingInv, TypeOK, HistoryOK, Process, Row
<1>3. UNCHANGED <<dbVars, nodeVars, spent, undone, overlapped>>
  BY DEF Exit
<1>4. KeptPairs' = KeptPairs
  BY <1>3 DEF KeptPairs, dbVars, nodeVars
<1>5. proc' = [proc EXCEPT ![p] = Idle] BY DEF Exit, Becomes
<1>6. TypeOK' /\ Shape'
  BY <1>2, <1>3, <1>5, IdleFacts
  DEF SavingInv, TypeOK, Shape, DatabaseOK, NodesOK, HistoryOK, dbVars, nodeVars
<1>7. Covered'
  BY <1>4, <1>5, IdleFacts DEF SavingInv, TypeOK, Covered
<1>8. SavedOrDirty'
  <2> SUFFICES ASSUME NEW n \in Nodes, NEW v \in Vms, promised'[n][v] > 0
               PROVE  <<n, v>> \in KeptPairs
    BY <1>4 DEF SavedOrDirty, KeptPairs
  <2>1. CASE promised'[n][v] = promised[n][v]
    BY <2>1 DEF SavingInv, SavedOrDirty, KeptPairs
  <2>2. CASE promised'[n][v] # promised[n][v]
    <3>1. proc[p].kind \in {"persist", "disk"} /\ v = proc[p].vm /\ n \in proc[p].targets
      BY <2>2 DEF Exit
    <3> QED BY <3>1, <1>1 DEF CoveredBy, Exit
  <2> QED BY <2>1, <2>2
<1> QED BY <1>6, <1>7, <1>8 DEF SavingInv

\* An uncaught exception keeps the invariant: nothing is promised.
LEMMA JobFailsKeeps ==
  ASSUME SavingInv, NEW p \in Procs, JobFails(p)
  PROVE  SavingInv'
<1>1. UNCHANGED <<dbVars, nodeVars, histVars>> BY DEF JobFails
<1>5. DatabaseOK' /\ NodesOK' /\ HistoryOK' /\ \A x \in Vms : RowOK(rows'[x])
  BY <1>1 DEF SavingInv, TypeOK, DatabaseOK, NodesOK, HistoryOK, dbVars, nodeVars, histVars, Shape
<1>6. KeptPairs \subseteq KeptPairs'
  BY <1>1, KeptGrows DEF dbVars, nodeVars, histVars
<1> QED BY <1>1, <1>5, <1>6, IdleFacts, StepKeeps DEF JobFails, histVars

-----------------------------------------------------------------------------
(* Disks and definitions.                                                 *)

\* The record of a process that crossed a pair off its list is well formed.
LEMMA WorkedOff ==
  ASSUME NEW rec \in Process, NEW rest \in SUBSET (Nodes \X Vms), NEW pc \in PCs
  PROVE  [rec EXCEPT !.todo = rest, !.at = <<>>, !.pc = pc] \in Process
BY DEF Process

\* The loop over the definitions goes on in order once the pair t is kept.
LEMMA PairDoneFacts ==
  ASSUME SavingInv, NEW p \in Procs, NEW t, NEW rec \in Process, ProcessOK(rec),
         rec.pc \in {"define", "load", "uuid"},
         rec.pc = proc[p].pc, rec.kind = proc[p].kind, rec.todo = proc[p].todo,
         rec.vm = proc[p].vm, rec.targets = proc[p].targets
  PROVE  /\ PairDone(p, t, rec) \in Process
         /\ ProcessOK(PairDone(p, t, rec))
         /\ \A kept : CoveredBy(proc[p], kept) /\ t \in kept => CoveredBy(PairDone(p, t, rec), kept)
<1> DEFINE r == PairDone(p, t, rec)
<1>1. proc[p] \in Process /\ AfterDefine(p) \in {"pacemaker", "check", "exit"}
      /\ (proc[p].kind = "scan" => AfterDefine(p) = "exit")
      /\ (proc[p].kind \in {"persist", "disk"} => AfterDefine(p) \in {"pacemaker", "exit"})
  BY ProcFacts DEF AfterDefine
<1>2. r \in Process
  <2>1. Rest(p, t) \in SUBSET (Nodes \X Vms)
    BY <1>1 DEF Rest, Process
  <2>2. (IF Rest(p, t) # {} THEN "define" ELSE AfterDefine(p)) \in PCs
    BY <1>1 DEF PCs
  <2> QED BY <2>1, <2>2, WorkedOff DEF PairDone
<1>3. /\ r.pc = (IF Rest(p, t) # {} THEN "define" ELSE AfterDefine(p))
      /\ r.kind = rec.kind /\ r.vm = rec.vm /\ r.node = rec.node /\ r.snap = rec.snap
      /\ r.targets = rec.targets /\ r.todo = proc[p].todo \ {t}
  BY DEF PairDone, Process, Rest
<1> HIDE DEF r
<1>4. ProcessOK(r)
  <2>1. \A x \in Vms : RowOK(r.snap[x]) BY <1>3 DEF ProcessOK
  <2>2. \A q \in r.todo : r.snap[q[2]].version > 0 BY <1>3 DEF ProcessOK
  <2>3. r.pc \in {"define", "pacemaker", "check", "exit"}
        /\ (r.kind = "scan" => r.pc \in ScanPcs)
        /\ (r.kind \in {"persist", "disk"} => r.pc \in SavePcs)
        /\ (r.kind = "remove" => r.pc \in RemovePcs)
    BY <1>1, <1>3 DEF SavePcs, RemovePcs, ScanPcs
  <2> QED BY <1>3, <2>1, <2>2, <2>3 DEF ProcessOK
<1>5. ASSUME NEW kept, CoveredBy(proc[p], kept), t \in kept
      PROVE  CoveredBy(r, kept)
  BY <1>1, <1>3, <1>5 DEF CoveredBy, Rest, ProcessOK, SavePcs
<1> QED BY <1>2, <1>4, <1>5 DEF r

\* DiskService.persistTasks keeps the invariant.
LEMMA CreateVolumeKeeps ==
  ASSUME SavingInv, NEW p \in Procs, CreateVolume(p)
  PROVE  SavingInv'
<1> DEFINE v == proc[p].vm
           n == proc[p].snap[v].disk
           r == [proc[p] EXCEPT !.pc = "define", !.conn = Conns(p, {n})]
<1>1. proc[p] \in Process /\ ProcessOK(proc[p]) /\ CoveredBy(proc[p], KeptPairs)
  BY ProcFacts
<1>2. proc[p].pc = "create" /\ n \in Nodes /\ v \in Vms
  BY <1>1 DEF CreateVolume, ProcessOK, RemovePcs, ScanPcs
<1>3. r \in Process /\ ProcessOK(r) /\ CoveredBy(r, KeptPairs)
  <2>1. Conns(p, {n}) \in [Nodes -> Session]
    BY <1>2, ConnFacts DEF SavingInv
  <2> QED BY <1>1, <1>2, <2>1 DEF Process, PCs, ProcessOK, SavePcs, RemovePcs, ScanPcs, CoveredBy
<1>4. dirty' \subseteq Nodes /\ dirty \subseteq dirty' /\ volumes' \subseteq Vms
  BY <1>2, MarkDirtyFacts DEF CreateVolume, SavingInv, TypeOK, NodesOK
<1>5. UNCHANGED <<rows, deleted, clusterOf, queue, up, files, defs, running, role, nextUuid, histVars>>
      /\ Becomes(p, r)
  BY DEF CreateVolume
<1>6. DatabaseOK' /\ NodesOK' /\ HistoryOK' /\ \A x \in Vms : RowOK(rows'[x])
  BY <1>4, <1>5 DEF SavingInv, TypeOK, DatabaseOK, NodesOK, HistoryOK, histVars, Shape
<1>7. KeptPairs \subseteq KeptPairs' BY <1>4, <1>5, KeptGrows DEF histVars
<1> HIDE DEF r
<1>8. CoveredBy(r, KeptPairs') BY <1>3, <1>7, CoveredStays
<1> QED BY <1>3, <1>5, <1>6, <1>7, <1>8, StepKeeps DEF histVars

\* DiskService.removeTasks keeps the invariant.
LEMMA RemoveDiskKeeps ==
  ASSUME SavingInv, NEW p \in Procs, RemoveDisk(p)
  PROVE  SavingInv'
<1> DEFINE v == proc[p].vm
           n == proc[p].snap[v].disk
           r == [proc[p] EXCEPT !.pc = "define", !.conn = Conns(p, {n})]
<1>1. proc[p] \in Process /\ ProcessOK(proc[p]) /\ CoveredBy(proc[p], KeptPairs)
  BY ProcFacts
<1>2. proc[p].pc = "disk" /\ n \in Nodes /\ v \in Vms /\ proc[p].kind = "remove"
  BY <1>1 DEF RemoveDisk, ProcessOK, SavePcs, ScanPcs
<1>3. r \in Process /\ ProcessOK(r) /\ CoveredBy(r, KeptPairs)
  <2>1. Conns(p, {n}) \in [Nodes -> Session]
    BY <1>2, ConnFacts DEF SavingInv
  <2> QED BY <1>1, <1>2, <2>1 DEF Process, PCs, ProcessOK, RemovePcs, CoveredBy
<1>4. dirty' \subseteq Nodes /\ dirty \subseteq dirty' /\ volumes' \subseteq Vms
  BY <1>2, MarkDirtyFacts DEF RemoveDisk, SavingInv, TypeOK, NodesOK
<1>5. UNCHANGED <<deleted, clusterOf, queue, up, files, defs, running, role, nextUuid, histVars>>
      /\ Becomes(p, r)
  BY DEF RemoveDisk
<1>6. rows' \in [Vms -> Row] /\ \A x \in Vms : RowOK(rows'[x])
  <2>1. rows \in [Vms -> Row] /\ \A x \in Vms : RowOK(rows[x])
    BY DEF SavingInv, TypeOK, DatabaseOK, Shape
  <2>2. \A x \in Vms : [rows[x] EXCEPT !.disk = NoNode] \in Row
                     /\ RowOK([rows[x] EXCEPT !.disk = NoNode])
    BY <2>1 DEF Row, RowOK, NodeRef
  <2> QED BY <1>2, <2>1, <2>2 DEF RemoveDisk
<1>7. DatabaseOK' /\ NodesOK' /\ HistoryOK'
  BY <1>4, <1>5, <1>6 DEF SavingInv, TypeOK, DatabaseOK, NodesOK, HistoryOK, histVars
<1>8. KeptPairs \subseteq KeptPairs' BY <1>4, <1>5, KeptGrows DEF histVars
<1> HIDE DEF r
<1>9. CoveredBy(r, KeptPairs') BY <1>3, <1>8, CoveredStays
<1> QED BY <1>3, <1>5, <1>6, <1>7, <1>8, <1>9, StepKeeps DEF histVars

\* A process that ends after its connections failed keeps the invariant.
LEMMA GivesUpKeeps ==
  ASSUME SavingInv, NEW p \in Procs, NEW S \in SUBSET Nodes, MarkDirty(p, S),
         Becomes(p, Idle), UNCHANGED <<rows, deleted, clusterOf, queue, nodeVars, histVars>>
  PROVE  SavingInv'
<1>1. dirty' \subseteq Nodes /\ dirty \subseteq dirty'
  BY MarkDirtyFacts DEF SavingInv
<1>2. DatabaseOK' /\ NodesOK' /\ HistoryOK' /\ \A x \in Vms : RowOK(rows'[x])
  BY <1>1 DEF SavingInv, TypeOK, DatabaseOK, NodesOK, HistoryOK, nodeVars, histVars, Shape
<1>3. KeptPairs \subseteq KeptPairs' BY <1>1, KeptGrows DEF nodeVars, histVars
<1> QED BY <1>2, <1>3, IdleFacts, StepKeeps DEF histVars

\* A disk that could not be removed keeps the invariant.
LEMMA RemoveDiskFailsKeeps ==
  ASSUME SavingInv, NEW p \in Procs, RemoveDiskFails(p)
  PROVE  SavingInv'
<1>1. proc[p].snap[proc[p].vm].disk \in Nodes
  BY ProcFacts DEF RemoveDiskFails, ProcessOK
<1> QED BY <1>1, GivesUpKeeps DEF RemoveDiskFails

\* getShortHostname on a node without a session keeps the invariant.
LEMMA PacemakerOfflineKeeps ==
  ASSUME SavingInv, NEW p \in Procs, PacemakerOffline(p)
  PROVE  SavingInv'
<1>1. proc[p].snap[proc[p].vm].default \in Nodes
  BY ProcFacts DEF PacemakerOffline, ProcessOK, ScanPcs, RowOK
<1> QED BY <1>1, GivesUpKeeps DEF PacemakerOffline

\* Storing a definition keeps the table of definitions well formed.
LEMMA DefinitionType ==
  ASSUME NEW f \in [Nodes -> [Vms -> Def]], NEW n \in Nodes, NEW v \in Vms, NEW d \in Def
  PROVE  [f EXCEPT ![n][v] = d] \in [Nodes -> [Vms -> Def]]
OBVIOUS

\* Writing the definition file, or failing to, keeps the invariant.
LEMMA WriteFileKeeps ==
  ASSUME SavingInv, NEW p \in Procs, WriteFile(p)
  PROVE  SavingInv'
<1>1. proc[p] \in Process /\ ProcessOK(proc[p]) /\ CoveredBy(proc[p], KeptPairs)
  BY ProcFacts
<1>2. PICK t \in proc[p].todo :
        /\ \/ files' = [files EXCEPT ![t[1]][t[2]] = Xml(p, t[2])] /\ UNCHANGED spent
           \/ Spend("write") /\ UNCHANGED files
        /\ Becomes(p, [proc[p] EXCEPT !.pc = "load", !.at = t, !.conn = Conns(p, {t[1]})])
  BY DEF WriteFile
<1> DEFINE r == [proc[p] EXCEPT !.pc = "load", !.at = t, !.conn = Conns(p, {t[1]})]
<1>3. t \in Nodes \X Vms BY <1>1, <1>2 DEF Process
<1>4. r \in Process /\ ProcessOK(r) /\ CoveredBy(r, KeptPairs)
  <2>1. Conns(p, {t[1]}) \in [Nodes -> Session]
    BY <1>3, ConnFacts DEF SavingInv
  <2> QED BY <1>1, <1>2, <1>3, <2>1
          DEF WriteFile, Process, PCs, ProcessOK, SavePcs, RemovePcs, ScanPcs, CoveredBy
<1>5. UNCHANGED <<dbVars, up, defs, running, volumes, role, nextUuid, promised, undone, overlapped>>
  BY DEF WriteFile
<1>6. spent' \in [BudgetNames -> Nat]
  BY <1>2, SpendType DEF SavingInv, TypeOK, HistoryOK, BudgetNames
<1>7. files' \in [Nodes -> [Vms -> Def]]
  <2>1. Xml(p, t[2]) \in Def
    <3>1. proc[p].snap[t[2]] \in Row BY <1>1, <1>3 DEF Process
    <3> QED BY <3>1 DEF Xml, Def, Row
  <2>2. files \in [Nodes -> [Vms -> Def]] /\ t[1] \in Nodes /\ t[2] \in Vms
    BY <1>3 DEF SavingInv, TypeOK, NodesOK
  <2>3. [files EXCEPT ![t[1]][t[2]] = Xml(p, t[2])] \in [Nodes -> [Vms -> Def]]
    BY <2>1, <2>2, DefinitionType
  <2> QED BY <1>2, <2>2, <2>3
<1>8. DatabaseOK' /\ NodesOK' /\ HistoryOK' /\ \A x \in Vms : RowOK(rows'[x])
  BY <1>5, <1>6, <1>7 DEF SavingInv, TypeOK, DatabaseOK, NodesOK, HistoryOK, dbVars, Shape
<1>9. KeptPairs \subseteq KeptPairs' BY <1>5, KeptGrows DEF dbVars
<1> HIDE DEF r
<1>10. CoveredBy(r, KeptPairs') BY <1>4, <1>9, CoveredStays
<1> QED BY <1>2, <1>4, <1>5, <1>8, <1>9, <1>10, StepKeeps DEF r

\* A node that is not reached is crossed off only once it is marked dirty.
LEMMA DefineOfflineKeeps ==
  ASSUME SavingInv, NEW p \in Procs, DefineOffline(p)
  PROVE  SavingInv'
<1>1. proc[p] \in Process /\ ProcessOK(proc[p]) /\ CoveredBy(proc[p], KeptPairs)
  BY ProcFacts
<1>2. PICK t \in proc[p].todo :
        /\ ConnTo(p, t[1]) = "dead"
        /\ MarkDirty(p, {t[1]})
        /\ Becomes(p, PairDone(p, t, [proc[p] EXCEPT !.conn = Conns(p, {t[1]})]))
  BY DEF DefineOffline
<1> DEFINE rec == [proc[p] EXCEPT !.conn = Conns(p, {t[1]})]
           r == PairDone(p, t, rec)
<1>3. t \in Nodes \X Vms BY <1>1, <1>2 DEF Process
<1>4. rec \in Process /\ ProcessOK(rec) /\ rec.pc = "define"
      /\ rec.pc = proc[p].pc /\ rec.kind = proc[p].kind /\ rec.todo = proc[p].todo
      /\ rec.vm = proc[p].vm /\ rec.targets = proc[p].targets
  <2>1. Conns(p, {t[1]}) \in [Nodes -> Session]
    BY <1>3, ConnFacts DEF SavingInv
  <2> QED BY <1>1, <2>1 DEF DefineOffline, Process, ProcessOK
<1>5. UNCHANGED <<rows, deleted, clusterOf, queue, nodeVars, histVars>>
  BY DEF DefineOffline
<1>6. dirty' \subseteq Nodes /\ dirty \subseteq dirty' /\ t[1] \in dirty'
  <2>1. DeadAmong(p, {t[1]}) = {t[1]} BY <1>2 DEF DeadAmong
  <2> QED BY <1>2, <1>3, <2>1, MarkDirtyFacts DEF MarkDirty, SavingInv
<1>7. DatabaseOK' /\ NodesOK' /\ HistoryOK' /\ \A x \in Vms : RowOK(rows'[x])
  BY <1>5, <1>6 DEF SavingInv, TypeOK, DatabaseOK, NodesOK, HistoryOK, nodeVars, histVars, Shape
<1>8. KeptPairs \subseteq KeptPairs' /\ t \in KeptPairs'
  BY <1>3, <1>5, <1>6, KeptGrows DEF nodeVars, histVars, KeptPairs
<1>9. CoveredBy(proc[p], KeptPairs') BY <1>1, <1>8, CoveredStays
<1> HIDE DEF rec
<1>10. r \in Process /\ ProcessOK(r) /\ CoveredBy(r, KeptPairs')
  BY <1>4, <1>8, <1>9, PairDoneFacts
<1> QED BY <1>2, <1>5, <1>7, <1>8, <1>10, StepKeeps DEF rec, histVars

\* A node is crossed off once "virsh define" has defined the machine there.
LEMMA DefineVmKeeps ==
  ASSUME SavingInv, NEW p \in Procs, DefineVm(p)
  PROVE  SavingInv'
<1> DEFINE n == proc[p].at[1]
           v == proc[p].at[2]
           d == [version |-> files[n][v].version,
                 uuid |-> IF files[n][v].uuid = 0 THEN nextUuid + 1 ELSE files[n][v].uuid]
<1>1. proc[p] \in Process /\ ProcessOK(proc[p]) /\ CoveredBy(proc[p], KeptPairs)
  BY ProcFacts
<1>2. proc[p].pc = "load" /\ proc[p].at \in proc[p].todo BY <1>1 DEF DefineVm, ProcessOK
<1>3. proc[p].at \in Nodes \X Vms /\ n \in Nodes /\ v \in Vms /\ proc[p].at = <<n, v>>
  BY <1>1, <1>2 DEF Process
<1>4. d \in Def /\ d.version > 0 /\ nextUuid' \in Nat
  <2>1. files[n][v] \in Def /\ nextUuid \in Nat BY <1>3 DEF SavingInv, TypeOK, NodesOK
  <2>2. files[n][v].version > 0
        /\ nextUuid' = IF files[n][v].uuid = 0 THEN nextUuid + 1 ELSE nextUuid
    BY Zenon DEF DefineVm
  <2> QED BY <2>1, <2>2 DEF Def
<1>5. defs' = [defs EXCEPT ![n][v] = d]
      /\ UNCHANGED <<dbVars, up, files, running, volumes, role, histVars>>
      /\ Becomes(p, IF proc[p].snap[v].uuid = 0 THEN [proc[p] EXCEPT !.pc = "uuid"]
                    ELSE PairDone(p, <<n, v>>, proc[p]))
  BY DEF DefineVm
<1> HIDE DEF d
<1>6. defs \in [Nodes -> [Vms -> Def]] BY DEF SavingInv, TypeOK, NodesOK
<1>7. defs' \in [Nodes -> [Vms -> Def]] BY <1>3, <1>4, <1>5, <1>6, DefinitionType
<1>8. DatabaseOK' /\ NodesOK' /\ HistoryOK' /\ \A x \in Vms : RowOK(rows'[x])
  BY <1>4, <1>5, <1>7 DEF SavingInv, TypeOK, DatabaseOK, NodesOK, HistoryOK, dbVars, histVars, Shape
<1>9. KeptPairs \subseteq KeptPairs' /\ proc[p].at \in KeptPairs'
  BY <1>3, <1>4, <1>5, <1>6, KeptGrows DEF KeptPairs, dbVars, histVars
<1>10. CoveredBy(proc[p], KeptPairs') BY <1>1, <1>9, CoveredStays
<1>11. CASE proc[p].snap[v].uuid = 0
  <2> DEFINE r == [proc[p] EXCEPT !.pc = "uuid"]
  <2>1. r \in Process /\ ProcessOK(r)
    BY <1>1, <1>2 DEF Process, PCs, ProcessOK, SavePcs, RemovePcs, ScanPcs
  <2>2. CoveredBy(r, KeptPairs')
    BY <1>1, <1>2, <1>9, <1>10 DEF CoveredBy, Process
  <2> HIDE DEF r
  <2> QED BY <1>5, <1>8, <1>9, <1>11, <2>1, <2>2, StepKeeps DEF r, histVars
<1>12. CASE proc[p].snap[v].uuid # 0
  <2> DEFINE r == PairDone(p, <<n, v>>, proc[p])
  <2>1. r \in Process /\ ProcessOK(r) /\ CoveredBy(r, KeptPairs')
    BY <1>1, <1>2, <1>3, <1>9, <1>10, PairDoneFacts
  <2> HIDE DEF r
  <2> QED BY <1>5, <1>8, <1>9, <1>12, <2>1, StepKeeps DEF r, histVars
<1> QED BY <1>11, <1>12

\* Reading the uuid back and flushing it keeps the invariant.
LEMMA ReadUuidKeeps ==
  ASSUME SavingInv, NEW p \in Procs, ReadUuid(p)
  PROVE  SavingInv'
<1> DEFINE n == proc[p].at[1]
           v == proc[p].at[2]
           u == defs[n][v].uuid
           rec == WithUuid(p, v, u)
           r == PairDone(p, <<n, v>>, rec)
<1>1. proc[p] \in Process /\ ProcessOK(proc[p]) /\ CoveredBy(proc[p], KeptPairs)
  BY ProcFacts
<1>2. proc[p].pc = "uuid" /\ proc[p].at \in proc[p].todo BY <1>1 DEF ReadUuid, ProcessOK
<1>3. proc[p].at \in Nodes \X Vms /\ n \in Nodes /\ v \in Vms /\ proc[p].at = <<n, v>>
      /\ proc[p].at \in KeptPairs
  BY <1>1, <1>2 DEF Process, CoveredBy
<1>4. u \in Nat BY <1>3 DEF SavingInv, TypeOK, NodesOK, Def
<1>5. rows' = (IF Live(v) THEN [rows EXCEPT ![v].uuid = u] ELSE rows)
      /\ UNCHANGED <<deleted, clusterOf, dirty, queue, nodeVars, histVars>>
      /\ Becomes(p, r)
  BY DEF ReadUuid
<1> HIDE DEF u
<1>6. rows' \in [Vms -> Row] /\ \A x \in Vms : RowOK(rows'[x])
  <2>1. rows \in [Vms -> Row] /\ \A x \in Vms : RowOK(rows[x])
    BY DEF SavingInv, TypeOK, DatabaseOK, Shape
  <2>2. \A x \in Vms : [rows[x] EXCEPT !.uuid = u] \in Row
                     /\ RowOK([rows[x] EXCEPT !.uuid = u])
    BY <1>4, <2>1 DEF Row, RowOK
  <2> QED BY <1>3, <1>5, <2>1, <2>2
<1>7. DatabaseOK' /\ NodesOK' /\ HistoryOK'
  BY <1>5, <1>6 DEF SavingInv, TypeOK, DatabaseOK, NodesOK, HistoryOK, nodeVars, histVars
<1>8. KeptPairs \subseteq KeptPairs' BY <1>5, KeptGrows DEF nodeVars, histVars
<1>9. rec \in Process /\ ProcessOK(rec)
      /\ rec.pc = proc[p].pc /\ rec.kind = proc[p].kind /\ rec.todo = proc[p].todo
      /\ rec.vm = proc[p].vm /\ rec.targets = proc[p].targets
  <2> DEFINE row == [proc[p].snap[v] EXCEPT !.uuid = u]
             snap == [proc[p].snap EXCEPT ![v] = row]
  <2>1. proc[p].snap \in [Vms -> Row] /\ \A x \in Vms : RowOK(proc[p].snap[x])
    BY <1>1 DEF Process, ProcessOK
  <2>2. row \in Row /\ RowOK(row) /\ row.version = proc[p].snap[v].version
        /\ row.disk = proc[p].snap[v].disk
    BY <1>3, <1>4, <2>1 DEF Row, RowOK
  <2>3. rec = [proc[p] EXCEPT !.snap = snap] BY DEF WithUuid
  <2> HIDE DEF row
  <2>4. snap \in [Vms -> Row] /\ \A x \in Vms : RowOK(snap[x])
        /\ \A y \in Vms : snap[y].version = proc[p].snap[y].version
    BY <1>3, <2>1, <2>2
  <2> HIDE DEF snap, rec
  <2>5. rec \in Process BY <1>1, <2>3, <2>4 DEF Process
  <2>6. rec.snap = snap /\ rec.pc = "uuid" /\ rec.kind = proc[p].kind /\ rec.vm = proc[p].vm
        /\ rec.node = proc[p].node /\ rec.at = proc[p].at /\ rec.todo = proc[p].todo
        /\ rec.targets = proc[p].targets
    BY <1>1, <1>2, <2>3 DEF Process
  <2>7. \A t \in rec.todo : t[2] \in Vms BY <2>5 DEF Process
  <2>8. ProcessOK(rec)
    BY <1>1, <1>2, <2>4, <2>6, <2>7 DEF ProcessOK
  <2> QED BY <1>2, <2>5, <2>6, <2>8
<1> HIDE DEF rec
<1>10. r \in Process /\ ProcessOK(r) /\ CoveredBy(r, KeptPairs')
  <2>1. CoveredBy(proc[p], KeptPairs') BY <1>1, <1>8, CoveredStays
  <2> QED BY <1>2, <1>3, <1>8, <1>9, <2>1, PairDoneFacts
<1> HIDE DEF r
<1> QED BY <1>5, <1>6, <1>7, <1>8, <1>10, StepKeeps DEF histVars

-----------------------------------------------------------------------------
(* Pacemaker and the removal.                                             *)

\* pacemakerAdd keeps the invariant.
LEMMA PacemakerAddKeeps ==
  ASSUME SavingInv, NEW p \in Procs, PacemakerAdd(p)
  PROVE  SavingInv'
<1> DEFINE v == proc[p].vm
           row == proc[p].snap[v]
<1>1. proc[p] \in Process /\ ProcessOK(proc[p]) /\ CoveredBy(proc[p], KeptPairs)
  BY ProcFacts
<1>2. PICK first \in proc[p].targets, answer \in BOOLEAN :
        /\ IsRunning(p, v, answer)
        /\ role' = role \/ \E x \in {"Started", "Stopped"} : role' = [role EXCEPT ![v] = x]
        /\ MarkDirty(p, {row.default, row.home, first})
        /\ Becomes(p, [proc[p] EXCEPT !.pc = AfterPacemaker(p),
                                      !.conn = Conns(p, {row.default, row.home, first})])
  BY DEF PacemakerAdd
<1> DEFINE asked == {row.default, row.home, first}
           r == [proc[p] EXCEPT !.pc = AfterPacemaker(p), !.conn = Conns(p, asked)]
<1>3. proc[p].pc = "pacemaker" /\ v \in Vms /\ row.version > 0
  BY <1>1 DEF PacemakerAdd, ProcessOK, ScanPcs
<1>4. asked \in SUBSET Nodes
  BY <1>1, <1>2, <1>3 DEF Process, ProcessOK, RowOK
<1>5. /\ UNCHANGED <<rows, deleted, clusterOf, queue, up, files, defs, running, volumes, nextUuid,
                       promised, undone, overlapped>>
      /\ spent' \in [BudgetNames -> Nat]
  BY <1>2, AskFacts DEF PacemakerAdd, SavingInv
<1>6. dirty' \subseteq Nodes /\ dirty \subseteq dirty'
  BY <1>2, <1>4, MarkDirtyFacts DEF SavingInv
<1>7. role' \in [Vms -> {"none", "Started", "Stopped"}]
  BY <1>2, <1>3 DEF SavingInv, TypeOK, NodesOK
<1>8. DatabaseOK' /\ NodesOK' /\ HistoryOK' /\ \A x \in Vms : RowOK(rows'[x])
  BY <1>5, <1>6, <1>7 DEF SavingInv, TypeOK, DatabaseOK, NodesOK, HistoryOK, Shape
<1>9. KeptPairs \subseteq KeptPairs' BY <1>5, <1>6, KeptGrows
<1>10. Conns(p, asked) \in [Nodes -> Session] BY <1>4, ConnFacts DEF SavingInv
<1> HIDE DEF asked
<1>11. r \in Process /\ ProcessOK(r) /\ CoveredBy(r, KeptPairs)
  BY <1>1, <1>3, <1>10
  DEF AfterPacemaker, Process, PCs, ProcessOK, SavePcs, RemovePcs, ScanPcs, CoveredBy
<1> HIDE DEF r
<1>12. CoveredBy(r, KeptPairs') BY <1>9, <1>11, CoveredStays
<1> QED BY <1>2, <1>5, <1>8, <1>9, <1>11, <1>12, StepKeeps DEF r, asked, histVars

\* The check of removeTasks that the guest is stopped keeps the invariant.
LEMMA CheckStoppedKeeps ==
  ASSUME SavingInv, NEW p \in Procs, CheckStopped(p)
  PROVE  SavingInv'
<1> DEFINE v == proc[p].vm
           h == proc[p].snap[v].home
           r == [proc[p] EXCEPT !.pc = "undefine", !.conn = Conns(p, {h}),
                                !.todo = proc[p].targets \X {v}]
<1>1. proc[p] \in Process /\ ProcessOK(proc[p])
  BY ProcFacts
<1>2. proc[p].pc = "check" /\ proc[p].kind = "remove" /\ v \in Vms /\ h \in Nodes
      /\ proc[p].snap[v].version > 0
  BY <1>1 DEF CheckStopped, ProcessOK, ScanPcs, SavePcs, RowOK
<1>3. PICK answer \in BOOLEAN :
        /\ IsRunning(p, v, answer)
        /\ MarkDirty(p, {h})
        /\ Becomes(p, IF answer THEN Idle ELSE r)
        /\ UNCHANGED <<rows, deleted, clusterOf, queue, nodeVars, promised, undone, overlapped>>
  BY DEF CheckStopped
<1>4. CASE answer
  <2>1. UNCHANGED spent BY <1>3, <1>4 DEF IsRunning
  <2> QED BY <1>2, <1>3, <1>4, <2>1, GivesUpKeeps DEF histVars
<1>5. CASE ~answer
  <2>0. spent' \in [BudgetNames -> Nat] BY <1>3, AskFacts DEF SavingInv
  <2>1. Conns(p, {h}) \in [Nodes -> Session] BY <1>2, ConnFacts DEF SavingInv
  <2>2. proc[p].targets \X {v} \in SUBSET (Nodes \X Vms) BY <1>1, <1>2 DEF Process
  <2>3. r \in Process /\ ProcessOK(r) /\ CoveredBy(r, KeptPairs')
    BY <1>1, <1>2, <2>1, <2>2 DEF Process, PCs, ProcessOK, RemovePcs, CoveredBy
  <2>4. dirty' \subseteq Nodes /\ dirty \subseteq dirty'
    BY <1>2, <1>3, MarkDirtyFacts DEF SavingInv
  <2>5. DatabaseOK' /\ NodesOK' /\ HistoryOK' /\ \A x \in Vms : RowOK(rows'[x])
    BY <1>3, <2>0, <2>4 DEF SavingInv, TypeOK, DatabaseOK, NodesOK, HistoryOK, nodeVars, Shape
  <2>6. KeptPairs \subseteq KeptPairs' BY <1>3, <2>4, KeptGrows DEF nodeVars
  <2> HIDE DEF r
  <2> QED BY <1>3, <1>5, <2>3, <2>5, <2>6, StepKeeps DEF histVars
<1> QED BY <1>4, <1>5

\* The loop over the undefinitions goes on in order.
LEMMA UndefineDoneFacts ==
  ASSUME SavingInv, NEW p \in Procs, proc[p].pc = "undefine", NEW t \in proc[p].todo
  PROVE  /\ UndefineDone(p, t) \in Process
         /\ ProcessOK(UndefineDone(p, t))
         /\ \A kept : CoveredBy(UndefineDone(p, t), kept)
         /\ t \in Nodes \X Vms
<1>1. proc[p] \in Process /\ ProcessOK(proc[p]) BY ProcFacts
<1>2. t \in Nodes \X Vms BY <1>1 DEF Process
<1>3. Conns(p, {t[1]}) \in [Nodes -> Session] BY <1>2, ConnFacts DEF SavingInv
<1>4. Rest(p, t) \in SUBSET (Nodes \X Vms) BY <1>1 DEF Rest, Process
<1>5. proc[p].kind = "remove" BY <1>1 DEF ProcessOK, SavePcs, ScanPcs
<1> QED BY <1>1, <1>2, <1>3, <1>4, <1>5
        DEF UndefineDone, Process, PCs, ProcessOK, RemovePcs, CoveredBy

\* "virsh undefine" keeps the invariant: it is recorded as done on purpose.
LEMMA UndefineKeeps ==
  ASSUME SavingInv, NEW p \in Procs, Undefine(p)
  PROVE  SavingInv'
<1>1. PICK t \in proc[p].todo :
        /\ defs' = [defs EXCEPT ![t[1]][t[2]] = NoDef]
        /\ undone' = undone \cup {t}
        /\ Becomes(p, UndefineDone(p, t))
  BY DEF Undefine
<1>2. UNCHANGED <<dbVars, up, files, running, volumes, role, nextUuid, spent, promised, overlapped>>
  BY DEF Undefine
<1>3. /\ UndefineDone(p, t) \in Process /\ ProcessOK(UndefineDone(p, t))
      /\ CoveredBy(UndefineDone(p, t), KeptPairs')
      /\ t[1] \in Nodes /\ t[2] \in Vms /\ t = <<t[1], t[2]>>
  BY UndefineDoneFacts DEF Undefine
<1>4. defs' \in [Nodes -> [Vms -> Def]]
  <2>1. NoDef \in Def BY DEF NoDef, Def
  <2>2. defs \in [Nodes -> [Vms -> Def]] BY DEF SavingInv, TypeOK, NodesOK
  <2> QED BY <1>1, <1>3, <2>1, <2>2, DefinitionType
<1>5. DatabaseOK' /\ NodesOK' /\ HistoryOK' /\ \A x \in Vms : RowOK(rows'[x])
  BY <1>1, <1>2, <1>3, <1>4 DEF SavingInv, TypeOK, DatabaseOK, NodesOK, HistoryOK, dbVars, Shape
<1>6. KeptPairs \subseteq KeptPairs'
  <2>1. \A n \in Nodes, v \in Vms : defs'[n][v] = defs[n][v] \/ <<n, v>> = t
    BY <1>1, <1>3 DEF SavingInv, TypeOK, NodesOK
  <2> QED BY <1>1, <1>2, <2>1, KeptGrows DEF dbVars
<1> QED BY <1>1, <1>2, <1>3, <1>5, <1>6, StepKeeps

\* A node that is not reached keeps its definition and is marked dirty.
LEMMA UndefineOfflineKeeps ==
  ASSUME SavingInv, NEW p \in Procs, UndefineOffline(p)
  PROVE  SavingInv'
<1>1. PICK t \in proc[p].todo : MarkDirty(p, {t[1]}) /\ Becomes(p, UndefineDone(p, t))
  BY DEF UndefineOffline
<1>2. UNCHANGED <<rows, deleted, clusterOf, queue, nodeVars, histVars>>
  BY DEF UndefineOffline
<1>3. /\ UndefineDone(p, t) \in Process /\ ProcessOK(UndefineDone(p, t))
      /\ CoveredBy(UndefineDone(p, t), KeptPairs')
      /\ t[1] \in Nodes
  BY UndefineDoneFacts DEF UndefineOffline
<1>4. dirty' \subseteq Nodes /\ dirty \subseteq dirty'
  BY <1>1, <1>3, MarkDirtyFacts DEF SavingInv
<1>5. DatabaseOK' /\ NodesOK' /\ HistoryOK' /\ \A x \in Vms : RowOK(rows'[x])
  BY <1>2, <1>4 DEF SavingInv, TypeOK, DatabaseOK, NodesOK, HistoryOK, nodeVars, histVars, Shape
<1>6. KeptPairs \subseteq KeptPairs' BY <1>2, <1>4, KeptGrows DEF nodeVars, histVars
<1> QED BY <1>1, <1>2, <1>3, <1>5, <1>6, StepKeeps DEF histVars

\* Deleting the row keeps the invariant.
LEMMA DeleteRowKeeps ==
  ASSUME SavingInv, NEW p \in Procs, DeleteRow(p)
  PROVE  SavingInv'
<1> DEFINE v == proc[p].vm
           r == [proc[p] EXCEPT !.pc = "exit"]
<1>1. proc[p] \in Process /\ ProcessOK(proc[p])
  BY ProcFacts
<1>2. proc[p].pc = "delete" /\ proc[p].kind = "remove" /\ v \in Vms
  BY <1>1 DEF DeleteRow, ProcessOK, ScanPcs, SavePcs
<1>3. r \in Process /\ ProcessOK(r) /\ CoveredBy(r, KeptPairs')
  BY <1>1, <1>2 DEF Process, PCs, ProcessOK, RemovePcs, CoveredBy
<1>4. rows' = [rows EXCEPT ![v] = NullRow] /\ deleted' = deleted \cup {v} /\ Becomes(p, r)
      /\ UNCHANGED <<clusterOf, dirty, queue, nodeVars, histVars>>
  BY DEF DeleteRow
<1>5. DatabaseOK' /\ NodesOK' /\ HistoryOK' /\ \A x \in Vms : RowOK(rows'[x])
  BY <1>2, <1>4, NullRowFacts
  DEF SavingInv, TypeOK, DatabaseOK, NodesOK, HistoryOK, nodeVars, histVars, Shape
<1>6. KeptPairs \subseteq KeptPairs' BY <1>4, KeptGrows DEF nodeVars, histVars
<1> HIDE DEF r
<1> QED BY <1>3, <1>4, <1>5, <1>6, StepKeeps DEF histVars

-----------------------------------------------------------------------------
(* Scans.                                                                 *)

\* The beginning of a scan keeps the invariant.
LEMMA ScanListKeeps ==
  ASSUME SavingInv, NEW s \in Scanners, NEW n \in Nodes, ScanList(s, n)
  PROVE  SavingInv'
<1>1. s \in Procs BY DEF Procs
<1>2. NewScan(n) \in Process /\ ProcessOK(NewScan(n)) /\ CoveredBy(NewScan(n), KeptPairs')
  <2> DEFINE conn == [m \in Nodes |-> IF m = n THEN "open" ELSE "none"]
             shown == {v \in Vms : defs[n][v].version > 0 \/ running[v] = n}
             live == {v \in Vms : running[v] = n}
  <2>1. conn \in [Nodes -> Session] BY DEF Session
  <2>2. shown \in SUBSET Vms /\ live \in SUBSET Vms OBVIOUS
  <2>3. NewScan(n) = [Idle EXCEPT !.pc = "query", !.kind = "scan", !.node = n,
                                  !.conn = conn, !.shown = shown, !.live = live]
    BY DEF NewScan
  <2> HIDE DEF conn, shown, live
  <2>4. NewScan(n) \in Process
    <3>1. Idle \in Process BY IdleFacts
    <3>2. "query" \in PCs /\ n \in NodeRef BY DEF PCs, NodeRef
    <3> QED BY ZenonT(40), <2>1, <2>2, <2>3, <3>1, <3>2 DEF Process
  <2>5. /\ NewScan(n).pc = "query" /\ NewScan(n).kind = "scan" /\ NewScan(n).node = n
        /\ NewScan(n).snap = Idle.snap
    BY <2>3, IdleFacts DEF Process
  <2>6. \A v \in Vms : RowOK(NewScan(n).snap[v])
    BY <2>5, IdleFacts DEF ProcessOK
  <2> QED BY <2>4, <2>5, <2>6 DEF ProcessOK, ScanPcs, CoveredBy
<1>3. Becomes(s, IF n \in up THEN NewScan(n) ELSE Idle) /\ dirty' \subseteq Nodes
      /\ dirty \subseteq dirty' /\ UNCHANGED <<rows, deleted, clusterOf, queue, nodeVars, histVars>>
  BY DEF ScanList, SavingInv, TypeOK, DatabaseOK
<1>4. DatabaseOK' /\ NodesOK' /\ HistoryOK' /\ \A x \in Vms : RowOK(rows'[x])
  BY <1>3 DEF SavingInv, TypeOK, DatabaseOK, NodesOK, HistoryOK, nodeVars, histVars, Shape
<1>5. KeptPairs \subseteq KeptPairs' BY <1>3, KeptGrows DEF nodeVars, histVars
<1>6. CASE n \in up BY <1>1, <1>2, <1>3, <1>4, <1>5, <1>6, StepKeeps DEF histVars
<1>7. CASE n \notin up BY <1>1, <1>3, <1>4, <1>5, <1>7, IdleFacts, StepKeeps DEF histVars
<1> QED BY <1>6, <1>7

\* Only a scan is at "query" or "classify", and it has a node.
LEMMA ScanProcess ==
  ASSUME SavingInv, NEW p \in Procs, proc[p].pc \in {"query", "classify"}
  PROVE  /\ proc[p] \in Process /\ ProcessOK(proc[p])
         /\ proc[p].kind = "scan" /\ proc[p].node \in Nodes
BY ProcFacts DEF ProcessOK, SavePcs, RemovePcs

\* Loading the machines of the cluster keeps the invariant.
LEMMA ScanQueryKeeps ==
  ASSUME SavingInv, NEW p \in Procs, ScanQuery(p)
  PROVE  SavingInv'
<1> DEFINE known == ClusterVms(proc[p].node)
           snap == [v \in Vms |-> IF v \in known THEN rows[v] ELSE NullRow]
           r == [proc[p] EXCEPT !.pc = "classify", !.snap = snap]
<1>1. proc[p] \in Process /\ proc[p].kind = "scan" /\ proc[p].node \in Nodes
  BY ScanProcess DEF ScanQuery
<1>2. snap \in [Vms -> Row] /\ \A v \in Vms : RowOK(snap[v])
  BY NullRowFacts DEF SavingInv, TypeOK, DatabaseOK, Shape
<1>3. Becomes(p, r) /\ overlapped' \subseteq Vms
      /\ UNCHANGED <<dbVars, nodeVars, spent, promised, undone>>
  BY DEF ScanQuery, SavingInv, TypeOK, HistoryOK, HeldByOthers, ClusterVms
<1> HIDE DEF snap
<1>4. r \in Process /\ ProcessOK(r) /\ CoveredBy(r, KeptPairs')
  BY <1>1, <1>2 DEF Process, PCs, ProcessOK, ScanPcs, CoveredBy
<1>5. DatabaseOK' /\ NodesOK' /\ HistoryOK' /\ \A x \in Vms : RowOK(rows'[x])
  BY <1>3 DEF SavingInv, TypeOK, DatabaseOK, NodesOK, HistoryOK, dbVars, nodeVars, Shape
<1>6. KeptPairs \subseteq KeptPairs' BY <1>3, KeptGrows DEF dbVars, nodeVars
<1> HIDE DEF r
<1> QED BY <1>3, <1>4, <1>5, <1>6, StepKeeps

\* Setting the state of a known machine in memory keeps the invariant.
LEMMA ScanKnownKeeps ==
  ASSUME SavingInv, NEW p \in Procs, ScanKnown(p)
  PROVE  SavingInv'
<1>1. PICK v \in Unhandled(p) : Becomes(p, [proc[p] EXCEPT !.handled = @ \cup {v}])
  BY DEF ScanKnown
<1> DEFINE r == [proc[p] EXCEPT !.handled = @ \cup {v}]
<1>2. proc[p] \in Process /\ ProcessOK(proc[p]) /\ proc[p].kind = "scan" /\ proc[p].pc = "classify"
  BY ScanProcess DEF ScanKnown
<1>3. v \in Vms BY <1>2 DEF Unhandled, Process
<1>4. r \in Process /\ ProcessOK(r) /\ CoveredBy(r, KeptPairs')
  BY <1>2, <1>3 DEF Process, ProcessOK, CoveredBy
<1>5. UNCHANGED <<dbVars, nodeVars, histVars>> BY DEF ScanKnown
<1>6. DatabaseOK' /\ NodesOK' /\ HistoryOK' /\ \A x \in Vms : RowOK(rows'[x])
  BY <1>5 DEF SavingInv, TypeOK, DatabaseOK, NodesOK, HistoryOK, dbVars, nodeVars, histVars, Shape
<1>7. KeptPairs \subseteq KeptPairs' BY <1>5, KeptGrows DEF dbVars, nodeVars, histVars
<1> HIDE DEF r
<1> QED BY <1>1, <1>4, <1>5, <1>6, <1>7, StepKeeps DEF r, histVars

\* A flush of a scan leaves rows in order and their versions alone.
LEMMA WrittenFacts ==
  ASSUME SavingInv, NEW p \in Procs, proc[p].pc = "classify"
  PROVE  /\ HeldAfterWrite(p) \in [Vms -> Row]
         /\ \A v \in Vms : /\ RowOK(HeldAfterWrite(p)[v])
                           /\ HeldAfterWrite(p)[v].version = proc[p].snap[v].version
         /\ Written(p) \in [Vms -> Row]
         /\ \A v \in Vms : RowOK(Written(p)[v]) /\ Written(p)[v].version = rows[v].version
<1>1. proc[p] \in Process /\ ProcessOK(proc[p]) /\ proc[p].node \in Nodes BY ScanProcess
<1>2. rows \in [Vms -> Row] /\ \A v \in Vms : RowOK(rows[v])
  BY DEF SavingInv, TypeOK, DatabaseOK, Shape
<1>3. \A v \in Vms : /\ Seen(p, v) \in Row /\ RowOK(Seen(p, v))
                     /\ Seen(p, v).version = proc[p].snap[v].version
                     /\ proc[p].snap[v] \in Row /\ RowOK(proc[p].snap[v])
                     /\ Seen(p, v).home = proc[p].snap[v].home \/ Seen(p, v).home = proc[p].node
  <2> SUFFICES ASSUME NEW v \in Vms
               PROVE  /\ Seen(p, v) \in Row /\ RowOK(Seen(p, v))
                      /\ Seen(p, v).version = proc[p].snap[v].version
                      /\ proc[p].snap[v] \in Row /\ RowOK(proc[p].snap[v])
                      /\ Seen(p, v).home = proc[p].snap[v].home \/ Seen(p, v).home = proc[p].node
    OBVIOUS
  <2>1. proc[p].snap[v] \in Row /\ RowOK(proc[p].snap[v])
    BY <1>1 DEF Process, ProcessOK
  <2> QED BY <1>1, <2>1 DEF Seen, Row, RowOK, NodeRef, States
<1>4. /\ HeldAfterWrite(p) \in [Vms -> Row]
      /\ \A v \in Vms : /\ RowOK(HeldAfterWrite(p)[v])
                        /\ HeldAfterWrite(p)[v].version = proc[p].snap[v].version
  BY <1>1, <1>3 DEF HeldAfterWrite
<1>5. ASSUME NEW v \in Vms
      PROVE  Written(p)[v] \in Row /\ RowOK(Written(p)[v]) /\ Written(p)[v].version = rows[v].version
  <2>1. CASE v \in proc[p].handled /\ Holds(p, v) /\ Live(v)
    <3> DEFINE st == Changed(proc[p].snap[v].state, Seen(p, v).state, rows[v].state)
               ho == Changed(proc[p].snap[v].home, Seen(p, v).home, rows[v].home)
    <3>1. Written(p)[v] = [rows[v] EXCEPT !.state = st, !.home = ho]
      BY <2>1 DEF Written
    <3>2. st \in States BY <1>2, <1>3 DEF Changed, Row
    <3>3. ho = rows[v].home \/ ho = proc[p].node
      BY <1>3 DEF Changed
    <3>4. rows[v] \in Row /\ RowOK(rows[v]) BY <1>2
    <3>5. ho \in NodeRef BY <1>1, <3>3, <3>4 DEF Row, NodeRef
    <3> HIDE DEF st, ho
    <3>6. Written(p)[v] \in Row BY <3>1, <3>2, <3>4, <3>5 DEF Row
    <3>7. /\ Written(p)[v].version = rows[v].version /\ Written(p)[v].home = ho
          /\ Written(p)[v].default = rows[v].default
      BY <3>1, <3>4 DEF Row
    <3> QED BY <1>1, <3>3, <3>4, <3>6, <3>7 DEF RowOK
  <2>2. CASE ~(v \in proc[p].handled /\ Holds(p, v) /\ Live(v))
    BY <1>2, <2>2 DEF Written
  <2> QED BY <2>1, <2>2
<1>6. Written(p) \in [Vms -> Row]
  <2>1. Written(p) = [v \in Vms |-> Written(p)[v]] BY DEF Written
  <2> HIDE DEF Written
  <2> QED BY <1>5, <2>1
<1> QED BY <1>4, <1>5, <1>6

\* A scan undefined v on n.
LEMMA ScanUndefines ==
  ASSUME SavingInv, NEW n \in Nodes, NEW v \in Vms,
         defs' = [defs EXCEPT ![n][v] = NoDef], undone' = undone \cup {<<n, v>>},
         dirty' = dirty
  PROVE  /\ defs' \in [Nodes -> [Vms -> Def]]
         /\ undone' \subseteq Nodes \X Vms
         /\ KeptPairs \subseteq KeptPairs'
<1>1. defs \in [Nodes -> [Vms -> Def]] /\ undone \subseteq Nodes \X Vms /\ NoDef \in Def
  BY DEF SavingInv, TypeOK, NodesOK, HistoryOK, NoDef, Def
<1>2. defs' \in [Nodes -> [Vms -> Def]] BY <1>1, DefinitionType
<1>3. \A m \in Nodes, w \in Vms : defs'[m][w] = defs[m][w] \/ <<m, w>> = <<n, v>>
  BY <1>1
<1> QED BY <1>1, <1>2, <1>3, KeptGrows

\* Undefining a machine of another cluster keeps the invariant.
LEMMA ScanForeignKeeps ==
  ASSUME SavingInv, NEW p \in Procs, ScanForeign(p)
  PROVE  SavingInv'
<1> DEFINE n == proc[p].node
<1>1. PICK v \in Unhandled(p) :
        /\ defs' = [defs EXCEPT ![n][v] = NoDef]
        /\ undone' = undone \cup {<<n, v>>}
        /\ Becomes(p, [proc[p] EXCEPT !.handled = @ \cup {v}, !.snap = HeldAfterWrite(p)])
  BY DEF ScanForeign
<1> DEFINE r == [proc[p] EXCEPT !.handled = @ \cup {v}, !.snap = HeldAfterWrite(p)]
<1>2. proc[p] \in Process /\ ProcessOK(proc[p]) /\ proc[p].kind = "scan" /\ n \in Nodes
      /\ proc[p].pc = "classify"
  BY ScanProcess DEF ScanForeign
<1>3. v \in Vms BY <1>2 DEF Unhandled, Process
<1>4. r \in Process /\ ProcessOK(r) /\ CoveredBy(r, KeptPairs')
  BY <1>2, <1>3, WrittenFacts DEF Process, ProcessOK, ScanPcs, CoveredBy
<1>5. rows' \in [Vms -> Row] /\ \A x \in Vms : RowOK(rows'[x])
  BY <1>2, WrittenFacts DEF ScanForeign
<1>6. UNCHANGED <<deleted, clusterOf, dirty, queue, up, files, running, volumes, role,
                  nextUuid, spent, promised, overlapped>>
  BY DEF ScanForeign
<1>7. /\ defs' \in [Nodes -> [Vms -> Def]] /\ undone' \subseteq Nodes \X Vms
      /\ KeptPairs \subseteq KeptPairs'
  BY <1>1, <1>2, <1>3, <1>6, ScanUndefines
<1>8. DatabaseOK' /\ NodesOK' /\ HistoryOK'
  BY <1>5, <1>6, <1>7 DEF SavingInv, TypeOK, DatabaseOK, NodesOK, HistoryOK
<1> HIDE DEF r
<1> QED BY <1>1, <1>4, <1>5, <1>6, <1>7, <1>8, StepKeeps DEF r

\* Undefining an orphan keeps the invariant.
LEMMA ScanOrphanKeeps ==
  ASSUME SavingInv, NEW p \in Procs, ScanOrphan(p)
  PROVE  SavingInv'
<1> DEFINE n == proc[p].node
<1>1. PICK v \in Unhandled(p) :
        /\ defs' = [defs EXCEPT ![n][v] = NoDef]
        /\ undone' = undone \cup {<<n, v>>}
        /\ Becomes(p, [proc[p] EXCEPT !.handled = @ \cup {v}])
  BY DEF ScanOrphan
<1> DEFINE r == [proc[p] EXCEPT !.handled = @ \cup {v}]
<1>2. proc[p] \in Process /\ ProcessOK(proc[p]) /\ proc[p].kind = "scan" /\ n \in Nodes
      /\ proc[p].pc = "classify"
  BY ScanProcess DEF ScanOrphan
<1>3. v \in Vms BY <1>2 DEF Unhandled, Process
<1>4. r \in Process /\ ProcessOK(r) /\ CoveredBy(r, KeptPairs')
  BY <1>2, <1>3 DEF Process, ProcessOK, CoveredBy
<1>5. UNCHANGED <<dbVars, up, files, running, volumes, role, nextUuid, spent, promised, overlapped>>
  BY DEF ScanOrphan
<1>6. /\ defs' \in [Nodes -> [Vms -> Def]] /\ undone' \subseteq Nodes \X Vms
      /\ KeptPairs \subseteq KeptPairs'
  BY <1>1, <1>2, <1>3, <1>5, ScanUndefines DEF dbVars
<1>7. DatabaseOK' /\ NodesOK' /\ HistoryOK' /\ \A x \in Vms : RowOK(rows'[x])
  BY <1>5, <1>6 DEF SavingInv, TypeOK, DatabaseOK, NodesOK, HistoryOK, dbVars, Shape
<1> HIDE DEF r
<1> QED BY <1>1, <1>4, <1>5, <1>6, <1>7, StepKeeps DEF r

\* The flush after the loop, and the list of missing machines, keep it.
LEMMA ScanFlushKeeps ==
  ASSUME SavingInv, NEW p \in Procs, ScanFlush(p)
  PROVE  SavingInv'
<1>1. PICK todo \in SUBSET (Nodes \X Vms), fresh \in SUBSET Vms :
        /\ \A t \in todo : /\ rows'[t[2]].version > 0
                           /\ t[2] \in fresh \/ Holds(p, t[2])
        /\ \A v \in fresh : rows'[v].version > 0
        /\ Becomes(p, [proc[p] EXCEPT !.todo = todo,
                         !.pc = IF todo = {} THEN "exit" ELSE "define",
                         !.snap = [v \in Vms |-> IF v \in fresh THEN rows[v]
                                                ELSE HeldAfterWrite(p)[v]]])
        /\ overlapped' = overlapped \cup HeldByOthers(p, fresh)
  <2> DEFINE n == proc[p].node
             missing == {v \in Vms : /\ rows'[v].version > 0
                                     /\ clusterOf[rows'[v].home] = clusterOf[n]
                                     /\ v \notin proc[p].shown}
             todo == IF clusterOf[n] \in HaClusters THEN {n} \X missing ELSE {}
             fresh == {v \in missing : <<n, v>> \in todo /\ ~Holds(p, v)}
  <2>1. n \in Nodes BY ScanProcess DEF ScanFlush
  <2>2. todo \in SUBSET (Nodes \X Vms) /\ fresh \in SUBSET Vms BY <2>1
  <2>3. \A t \in todo : t[2] \in missing /\ t = <<n, t[2]>> OBVIOUS
  <2>4. /\ \A t \in todo : rows'[t[2]].version > 0 /\ (t[2] \in fresh \/ Holds(p, t[2]))
        /\ \A v \in fresh : rows'[v].version > 0
    BY <2>3
  <2>5. /\ Becomes(p, [proc[p] EXCEPT !.todo = todo,
                         !.pc = IF todo = {} THEN "exit" ELSE "define",
                         !.snap = [v \in Vms |-> IF v \in fresh THEN rows[v]
                                                ELSE HeldAfterWrite(p)[v]]])
        /\ overlapped' = overlapped \cup HeldByOthers(p, fresh)
    BY DEF ScanFlush
  <2> HIDE DEF todo, fresh
  <2> QED BY <2>2, <2>4, <2>5
<1> DEFINE snap == [v \in Vms |-> IF v \in fresh THEN rows[v] ELSE HeldAfterWrite(p)[v]]
           pc == IF todo = {} THEN "exit" ELSE "define"
           r == [proc[p] EXCEPT !.todo = todo, !.pc = pc, !.snap = snap]
<1>2. proc[p] \in Process /\ ProcessOK(proc[p]) /\ proc[p].kind = "scan"
      /\ proc[p].node \in Nodes /\ proc[p].pc = "classify"
  BY ScanProcess DEF ScanFlush
<1>3. rows' = Written(p)
      /\ UNCHANGED <<deleted, clusterOf, dirty, queue, nodeVars, spent, promised, undone>>
  BY DEF ScanFlush
<1>4. rows' \in [Vms -> Row] /\ \A v \in Vms : RowOK(rows'[v]) /\ rows'[v].version = rows[v].version
  BY <1>2, <1>3, WrittenFacts
<1>5. rows \in [Vms -> Row] /\ \A v \in Vms : RowOK(rows[v])
  BY DEF SavingInv, TypeOK, DatabaseOK, Shape
<1>6. snap \in [Vms -> Row] /\ \A v \in Vms : RowOK(snap[v])
  BY <1>2, <1>5, WrittenFacts
<1>7. \A t \in todo : snap[t[2]].version > 0
  <2> SUFFICES ASSUME NEW t \in todo PROVE snap[t[2]].version > 0 OBVIOUS
  <2>1. t[2] \in Vms /\ rows'[t[2]].version > 0 /\ (t[2] \in fresh \/ Holds(p, t[2]))
    BY <1>1
  <2> QED BY <1>2, <1>4, <2>1, WrittenFacts DEF Holds
<1>8. pc \in {"exit", "define"} /\ pc \in PCs BY DEF PCs
<1> HIDE DEF snap, pc
<1>9. r \in Process BY <1>2, <1>6, <1>8 DEF Process
<1>10. r.snap = snap /\ r.pc = pc /\ r.todo = todo /\ r.kind = "scan" /\ r.node = proc[p].node
  BY <1>2 DEF Process
<1> HIDE DEF r
<1>11. ProcessOK(r) /\ CoveredBy(r, KeptPairs')
  BY <1>2, <1>6, <1>7, <1>8, <1>10 DEF ProcessOK, ScanPcs, CoveredBy
<1>12. overlapped' \subseteq Vms
  BY <1>1 DEF SavingInv, TypeOK, HistoryOK, HeldByOthers
<1>13. DatabaseOK' /\ NodesOK' /\ HistoryOK'
  BY <1>3, <1>4, <1>12 DEF SavingInv, TypeOK, DatabaseOK, NodesOK, HistoryOK, nodeVars
<1>14. KeptPairs \subseteq KeptPairs' BY <1>3, KeptGrows DEF nodeVars
<1> QED BY <1>1, <1>3, <1>4, <1>9, <1>11, <1>13, <1>14, StepKeeps DEF r, snap, pc

-----------------------------------------------------------------------------
(* The theorems.                                                          *)

\* The invariant holds of an empty database.
LEMMA InitSaving == Init => SavingInv
<1> SUFFICES ASSUME Init PROVE SavingInv OBVIOUS
<1>1. TypeOK
  BY NullRowFacts, IdleFacts
  DEF Init, TypeOK, DatabaseOK, NodesOK, HistoryOK, NodeRef, NoDef, Def, JobKinds
<1>2. Shape BY NullRowFacts, IdleFacts DEF Init, Shape
<1>3. Covered BY IdleFacts DEF Init, Covered
<1>4. SavedOrDirty BY DEF Init, SavedOrDirty
<1> QED BY <1>1, <1>2, <1>3, <1>4 DEF SavingInv

\* Every step keeps the invariant.
LEMMA NextSaving == SavingInv /\ [Next]_vars => SavingInv'
<1> SUFFICES ASSUME SavingInv, [Next]_vars PROVE SavingInv' OBVIOUS
<1>1. CASE WebStep BY <1>1, CreateVmKeeps, EditKeeps DEF WebStep
<1>2. CASE \E n \in Nodes, c \in Clusters : MoveNode(n, c) BY <1>2, MoveNodeKeeps
<1>3. CASE \E w \in Workers, k \in JobKinds, v \in Vms : StartJob(w, k, v)
  BY <1>3, StartJobKeeps
<1>4. CASE \E s \in Scanners, n \in ScanNodes : ScanList(s, n) BY <1>4, ScanListKeeps
<1>5. CASE \E p \in Procs : ProcessStep(p)
  BY <1>5, CreateVolumeKeeps, RemoveDiskKeeps, RemoveDiskFailsKeeps, WriteFileKeeps,
     DefineOfflineKeeps, DefineVmKeeps, ReadUuidKeeps, PacemakerAddKeeps,
     PacemakerOfflineKeeps, CheckStoppedKeeps, UndefineKeeps, UndefineOfflineKeeps,
     DeleteRowKeeps, ScanQueryKeeps, ScanKnownKeeps, ScanForeignKeeps, ScanOrphanKeeps,
     ScanFlushKeeps, ExitKeeps, JobFailsKeeps
  DEF ProcessStep
<1>6. CASE EnvironmentStep BY <1>6, EnvironmentKeeps
<1>7. CASE UNCHANGED vars
  <2>1. UNCHANGED <<dbVars, nodeVars, proc, histVars>> BY <1>7 DEF vars
  <2>2. DatabaseOK' /\ NodesOK' /\ HistoryOK' /\ \A x \in Vms : RowOK(rows'[x])
    BY <2>1 DEF SavingInv, TypeOK, DatabaseOK, NodesOK, HistoryOK, dbVars, nodeVars, histVars, Shape
  <2>3. KeptPairs \subseteq KeptPairs' BY <2>1, KeptGrows DEF dbVars, nodeVars, histVars
  <2> QED BY <2>1, <2>2, <2>3, OtherKeeps DEF histVars
<1> QED BY <1>1, <1>2, <1>3, <1>4, <1>5, <1>6, <1>7 DEF Next

\* SavingInv is an invariant: saves are covered from the moment a job starts
\* its loop over the nodes until it exits.
THEOREM Saving == Spec => []SavingInv
BY InitSaving, NextSaving, PTL DEF Spec

\* Every variable keeps its type, whatever jobs, scans and failures do.
THEOREM TypeCorrect == Spec => []TypeOK
<1>1. SavingInv => TypeOK BY DEF SavingInv
<1> QED BY <1>1, Saving, PTL

\* A job that reported success has saved the machine to every node it was
\* for, marked the node dirty, or the machine was undefined there on purpose
\* (defineVirtualmachine, persistTasks, getConnection).
THEOREM PromisesKept == Spec => []SavedOrDirty
<1>1. SavingInv => SavedOrDirty BY DEF SavingInv
<1> QED BY <1>1, Saving, PTL


-----------------------------------------------------------------------------
(* What a step of one process does to rows, copies and nodes.              *)

\* Rows keep their version.  The uuid and the node of a row change only in the
\* hands of a process that holds it, the node only to the one a scan is at.
RowEffect(p, v) ==
  /\ rows'[v].version = rows[v].version
  /\ ~Live(v) => rows'[v] = rows[v]
  /\ ~Holds(p, v) => rows'[v].uuid = rows[v].uuid /\ rows'[v].home = rows[v].home
  /\ \/ rows'[v].home = rows[v].home
     \/ proc[p].kind = "scan" /\ v \in proc[p].shown /\ rows'[v].home = proc[p].node

\* A copy that p holds afterwards was loaded, or p held it before and it still
\* agrees with the row if it did.
CopyEffect(p, r, S, v) ==
  r.snap[v].version > 0 =>
    \/ v \in S /\ Live(v) /\ r.snap[v] = rows[v] /\ rows'[v] = rows[v]
    \/ /\ Holds(p, v) /\ proc[p].pc # "exit"
       /\ r.snap[v].version = proc[p].snap[v].version
       /\ Live(v) /\ proc[p].snap[v].uuid = rows[v].uuid /\ proc[p].snap[v].home = rows[v].home
            => r.snap[v].uuid = rows'[v].uuid /\ r.snap[v].home = rows'[v].home

\* Files are written by a process that holds the machine.  A definition changes
\* when it is undefined on purpose, or when p defines a pair of its list.
NodeEffect(p, n, v) ==
  /\ Holds(p, v) \/ files'[n][v] = files[n][v]
  /\ \/ defs'[n][v].version = defs[n][v].version
     \/ defs'[n][v].version = 0 /\ <<n, v>> \in undone'
     \/ /\ proc[p].pc = "load" /\ <<n, v>> \in proc[p].todo /\ Holds(p, v)
        /\ v \notin overlapped /\ spent["write"] = 0 =>
             defs'[n][v].version >= proc[p].snap[v].version

\* The step by which p becomes r, having loaded the machines of S.
Effect(p, r, S) ==
  /\ Becomes(p, r)
  /\ UNCHANGED <<deleted, promised, running, clusterOf, up>>
  /\ overlapped' = overlapped \cup HeldByOthers(p, S)
  /\ dirty \subseteq dirty' /\ undone \subseteq undone'
  /\ spent'["move"] = spent["move"] /\ spent'["outage"] = spent["outage"]
  /\ spent'["write"] = 0 => spent["write"] = 0
  /\ \A v \in Vms : /\ RowEffect(p, v) /\ CopyEffect(p, r, S, v)
                    /\ \A n \in Nodes : NodeEffect(p, n, v)

\* What the invariant says of one process.
LEMMA OwnFacts ==
  ASSUME CopiesInv, NEW p \in Procs
  PROVE  /\ OwnOK(proc[p])
         /\ proc[p].kind = "scan" => p \in Scanners
         /\ \A v \in Vms : Holds(p, v) => CopyOK(proc[p], v)
BY DEF CopiesInv

\* The nodes of a machine stay the same while nodes keep their cluster: a scan
\* finds it on one of them.
LEMMA TargetsStay ==
  ASSUME SavingInv, CopiesInv, NEW p \in Procs, NEW v \in Vms, Live(v),
         RowEffect(p, v), clusterOf' = clusterOf, spent["move"] = 0
  PROVE  Targets(v)' = Targets(v)
<1>1. CASE rows'[v].home = rows[v].home
  BY <1>1 DEF Targets, IsHa, Members
<1>2. CASE v \in proc[p].shown /\ rows'[v].home = proc[p].node
  <2>1. proc[p].node \in Targets(v)
    BY <1>2, OwnFacts DEF OwnOK, PlacedBy
  <2>2. CASE IsHa(v)
    <3>1. clusterOf[proc[p].node] = clusterOf[rows[v].home]
      BY <2>1, <2>2 DEF Targets, Members
    <3> QED BY <1>2, <2>2, <3>1 DEF Targets, IsHa, Members
  <2>3. CASE ~IsHa(v)
    <3>1. proc[p].node = rows[v].home BY <2>1, <2>3 DEF Targets
    <3> QED BY <1>2, <3>1 DEF Targets, IsHa, Members
  <2> QED BY <2>2, <2>3
<1> QED BY <1>1, <1>2 DEF RowEffect

\* The machine of a process that saves or removes, and those on a list.
LEMMA HeldFacts ==
  ASSUME SavingInv, NEW p \in Procs
  PROVE  /\ proc[p].pc # "idle" /\ proc[p].kind # "scan" => proc[p].vm \in Vms /\ Holds(p, proc[p].vm)
         /\ proc[p].pc \in {"create", "disk", "define", "load", "uuid"} =>
              \A t \in proc[p].todo : t[1] \in Nodes /\ t[2] \in Vms /\ Holds(p, t[2]) /\ t = <<t[1], t[2]>>
         /\ proc[p].pc \in {"load", "uuid"} =>
              /\ proc[p].at \in proc[p].todo
              /\ proc[p].at[1] \in Nodes /\ proc[p].at[2] \in Vms /\ Holds(p, proc[p].at[2])
<1>1. proc[p] \in Process /\ ProcessOK(proc[p]) BY ProcFacts
<1>2. proc[p].todo \subseteq Nodes \X Vms BY <1>1 DEF Process
<1>3. \A t \in proc[p].todo : t[1] \in Nodes /\ t[2] \in Vms /\ t = <<t[1], t[2]>> BY <1>2
<1> QED BY <1>1, <1>3 DEF ProcessOK, Holds, SavePcs, RemovePcs, ScanPcs

\* What a step of p leaves true of another process.
LEMMA OthersKeep ==
  ASSUME SavingInv, CopiesInv, NEW p \in Procs, NEW r \in Process, NEW S \in SUBSET Vms,
         Effect(p, r, S), NEW q \in Procs, q # p,
         NEW s, proc[q] = s
  PROVE  /\ proc'[q] = s
         /\ OwnOK(s)'
         /\ \A v \in Vms : Holds(q, v) => CopyOK(s, v)'
<1>1. proc'[q] = s BY DEF SavingInv, TypeOK, Effect, Becomes
<1>2. OwnOK(s) /\ \A v \in Vms : Holds(q, v) => CopyOK(s, v) BY OwnFacts
<1>3. \A v \in Vms : Live(v)' = Live(v) BY DEF Effect, RowEffect, Live
<1>4. overlapped \subseteq overlapped' BY DEF Effect
<1>5. \A v \in Vms \ overlapped : Holds(q, v) => ~Holds(p, v)
  BY DEF CopiesInv, Alone
<1>6. s \in Process /\ ProcessOK(s) BY ProcFacts
<1>7. spent'["move"] = spent["move"] /\ spent'["outage"] = spent["outage"]
      /\ (spent'["write"] = 0 => spent["write"] = 0)
  BY DEF Effect
<1>8. s.shown \subseteq Vms BY <1>6 DEF Process
<1>10. \A v \in Vms : Holds(q, v) => CopyOK(s, v)'
  BY <1>1, <1>2, <1>3, <1>4, <1>5 DEF CopyOK, Effect, RowEffect
<1>11. StepOK(s)'
  BY <1>1, <1>2, <1>3, <1>8 DEF OwnOK, StepOK, Effect
<1>12. Connected(s)'
  BY <1>1, <1>2, <1>7 DEF OwnOK, Connected
<1>13. ASSUME spent'["write"] = 0 PROVE NewestBy(s)'
  <2>1. NewestBy(s) BY <1>2, <1>7, <1>13 DEF OwnOK
  <2>2. ASSUME NEW n \in Nodes, NEW v \in Vms, v \notin overlapped', Holds(q, v), SavedBy(s, n, v)
        PROVE  SavedBy(s, n, v)'
    <3>1. ~Holds(p, v) BY <1>4, <1>5, <2>2
    <3>2. NodeEffect(p, n, v) BY DEF Effect
    <3>3. defs'[n][v].version = defs[n][v].version \/ <<n, v>> \in undone'
      BY <3>1, <3>2 DEF NodeEffect
    <3>4. dirty \subseteq dirty' /\ undone \subseteq undone' BY DEF Effect
    <3> QED BY <1>1, <2>2, <3>3, <3>4 DEF SavedBy
  <2>3. s.pc = "load" /\ s.at[2] \notin overlapped' =>
          files'[s.at[1]][s.at[2]].version = s.snap[s.at[2]].version
    <3> SUFFICES ASSUME s.pc = "load", s.at[2] \notin overlapped'
                 PROVE  files'[s.at[1]][s.at[2]].version = s.snap[s.at[2]].version
      OBVIOUS
    <3>1. s.at[1] \in Nodes /\ s.at[2] \in Vms /\ Holds(q, s.at[2]) BY HeldFacts
    <3>2. ~Holds(p, s.at[2]) /\ s.at[2] \notin overlapped BY <1>4, <1>5, <3>1
    <3>3. NodeEffect(p, s.at[1], s.at[2]) BY <3>1 DEF Effect
    <3>4. files'[s.at[1]][s.at[2]] = files[s.at[1]][s.at[2]]
      BY <3>2, <3>3 DEF NodeEffect
    <3> QED BY <2>1, <3>2, <3>4 DEF NewestBy
  <2>4. s.pc = "uuid" /\ s.at[2] \notin overlapped' => SavedBy(s, s.at[1], s.at[2])'
    BY <1>4, <2>1, <2>2, HeldFacts DEF NewestBy
  <2>5. s.kind \in {"persist", "disk"} /\ s.pc # "idle" /\ s.vm \notin overlapped' =>
          \A n \in s.targets :
            \/ SavedBy(s, n, s.vm)'
            \/ s.pc \in {"create", "define", "load", "uuid"} /\ <<n, s.vm>> \in s.todo
    <3> SUFFICES ASSUME s.kind \in {"persist", "disk"}, s.pc # "idle",
                        s.vm \notin overlapped', NEW n \in s.targets
                 PROVE  \/ SavedBy(s, n, s.vm)'
                        \/ /\ s.pc \in {"create", "define", "load", "uuid"}
                           /\ <<n, s.vm>> \in s.todo
      OBVIOUS
    <3>1. s.vm \in Vms /\ Holds(q, s.vm) /\ s.vm \notin overlapped BY <1>4, HeldFacts
    <3>2. n \in Nodes BY <1>6 DEF Process
    <3>3. \/ SavedBy(s, n, s.vm)
          \/ /\ s.pc \in {"create", "define", "load", "uuid"}
             /\ <<n, s.vm>> \in s.todo
      BY <2>1, <3>1 DEF NewestBy
    <3> QED BY <2>2, <3>1, <3>2, <3>3
  <2> QED BY <1>1, <2>3, <2>4, <2>5 DEF NewestBy
<1>14. ASSUME spent'["move"] = 0 PROVE LeftBy(s)' /\ \A v \in Vms : Live(v)' => PlacedBy(s, v)'
  <2>1. spent["move"] = 0 BY <1>7, <1>14
  <2>2. LeftBy(s)'
    <3>1. LeftBy(s) BY <1>2, <2>1 DEF OwnOK
    <3> SUFFICES ASSUME s.kind = "remove", s.pc \in {"undefine", "delete"},
                        s.vm \notin overlapped',
                        NEW n \in Nodes, defs'[n][s.vm].version > 0
                 PROVE  n \in dirty' \/ (s.pc = "undefine" /\ <<n, s.vm>> \in s.todo)
      BY DEF LeftBy
    <3>2. s.vm \in Vms /\ Holds(q, s.vm) /\ s.vm \notin overlapped BY <1>4, HeldFacts
    <3>3. ~Holds(p, s.vm) BY <1>5, <3>2
    <3>4. NodeEffect(p, n, s.vm) BY <3>2 DEF Effect
    <3>5. defs[n][s.vm].version > 0 BY <3>3, <3>4 DEF NodeEffect
    <3>6. dirty \subseteq dirty' BY DEF Effect
    <3> QED BY <3>1, <3>2, <3>5, <3>6 DEF LeftBy
  <2>3. ASSUME NEW v \in Vms, Live(v)' PROVE PlacedBy(s, v)'
    <3>1. Live(v) /\ PlacedBy(s, v) BY <1>2, <1>3, <2>1, <2>3 DEF OwnOK
    <3>2. Targets(v)' = Targets(v) BY <2>1, <3>1, TargetsStay DEF Effect
    <3> QED BY <1>1, <3>1, <3>2 DEF PlacedBy
  <2> QED BY <2>2, <2>3
<1>15. ASSUME NEW v \in Vms PROVE Foreign(s, v)'
  <2> SUFFICES ASSUME s.pc = "classify", v \in s.shown, Live(v), s.snap[v].version = 0
               PROVE  /\ spent'["move"] > 0
                      /\ OneScanner /\ spent'["move"] = 1 => clusterOf'[rows'[v].home] # clusterOf'[s.node]
    BY <1>1, <1>3 DEF Foreign
  <2>1. /\ spent["move"] > 0
        /\ OneScanner /\ spent["move"] = 1 => clusterOf[rows[v].home] # clusterOf[s.node]
    BY <1>2 DEF OwnOK, Foreign
  <2>2. rows'[v].home = rows[v].home \/ ~OneScanner
    <3>1. CASE rows'[v].home # rows[v].home
      <4>1. proc[p].kind = "scan" /\ s.kind = "scan"
        BY <1>6, <3>1 DEF Effect, RowEffect, ProcessOK, SavePcs, RemovePcs
      <4>2. p \in Scanners /\ q \in Scanners BY <4>1, OwnFacts
      <4> QED BY <4>2 DEF OneScanner
    <3> QED BY <3>1
  <2> QED BY <1>7, <2>1, <2>2 DEF Effect
<1>16. OwnOK(s)'
  <2> SUFFICES /\ StepOK(s)' /\ Connected(s)'
               /\ spent'["write"] = 0 => NewestBy(s)'
               /\ spent'["move"] = 0 => LeftBy(s)' /\ \A v \in Vms : Live(v)' => PlacedBy(s, v)'
               /\ \A v \in Vms : Foreign(s, v)'
    BY DEF OwnOK
  <2> QED BY <1>11, <1>12, <1>13, <1>14, <1>15
<1> QED BY <1>1, <1>10, <1>16

\* A step of one process keeps the invariant when what it becomes is in order.
LEMMA EffectKeeps ==
  ASSUME SavingInv, SavingInv', CopiesInv, NEW p \in Procs, NEW r \in Process,
         NEW S \in SUBSET Vms, Effect(p, r, S), OwnOK(r)',
         r.kind = "scan" => p \in Scanners
  PROVE  CopiesInv'
<1>1. proc'[p] = r /\ \A q \in Procs : q # p => proc'[q] = proc[q]
  BY DEF SavingInv, TypeOK, Effect, Becomes
<1>2. \A v \in Vms : Live(v)' = Live(v) BY DEF Effect, RowEffect, Live
<1>3. overlapped \subseteq overlapped' /\ deleted' = deleted /\ promised' = promised
      /\ running' = running /\ up' = up /\ clusterOf' = clusterOf
      /\ dirty \subseteq dirty' /\ undone \subseteq undone'
  BY DEF Effect
<1>4. spent'["move"] = spent["move"] /\ spent'["outage"] = spent["outage"]
      /\ (spent'["write"] = 0 => spent["write"] = 0)
      /\ spent' \in [BudgetNames -> Nat]
  BY DEF Effect, SavingInv, TypeOK, HistoryOK
<1>5. \A v \in Vms : r.snap[v].version > 0 => v \in S \/ Holds(p, v)
  BY DEF Effect, CopyEffect
<1>6. Alone'
  <2> SUFFICES ASSUME NEW v \in Vms, v \notin overlapped', NEW q \in Procs, q # p,
                      proc[q].snap[v].version > 0, r.snap[v].version > 0
               PROVE  FALSE
    <3>1. ASSUME NEW v \in Vms, v \notin overlapped', NEW q \in Procs, NEW s \in Procs,
                 q # p, s # p, proc'[q].snap[v].version > 0, proc'[s].snap[v].version > 0
          PROVE  q = s
      BY <1>1, <1>3, <3>1 DEF CopiesInv, Alone, Holds
    <3> QED BY <1>1, <3>1 DEF Alone, Holds
  <2>1. Holds(q, v) BY DEF Holds
  <2>2. ~Holds(p, v) BY <1>3, <2>1 DEF CopiesInv, Alone
  <2>3. v \in S BY <1>5, <2>2
  <2>4. v \in HeldByOthers(p, S) BY <2>1, <2>3 DEF HeldByOthers
  <2> QED BY <2>4 DEF Effect
<1>7. \A v \in Vms : VmOK(v)'
  <2> SUFFICES ASSUME NEW v \in Vms PROVE VmOK(v)' OBVIOUS
  <2>1. VmOK(v) /\ RowEffect(p, v) BY DEF CopiesInv, Effect
  <2>2. ASSUME ~Live(v), v \notin deleted, NEW n \in Nodes PROVE defs'[n][v].version = 0
    <3>1. ~Holds(p, v) BY <2>2, OwnFacts DEF CopyOK
    <3>2. NodeEffect(p, n, v) BY DEF Effect
    <3> QED BY <2>1, <2>2, <3>1, <3>2 DEF NodeEffect, VmOK
  <2>3. rows'[v].version = rows[v].version BY <2>1 DEF RowEffect
  <2>4. ~Live(v) => rows'[v] = NullRow BY <2>1 DEF RowEffect, VmOK
  <2> QED BY <1>2, <1>3, <2>1, <2>2, <2>3, <2>4 DEF VmOK
<1>8. \A q \in Procs : /\ OwnOK(proc[q])'
                       /\ proc'[q].kind = "scan" => q \in Scanners
                       /\ \A v \in Vms : Holds(q, v)' => CopyOK(proc[q], v)'
  <2> SUFFICES ASSUME NEW q \in Procs
               PROVE  /\ OwnOK(proc[q])'
                      /\ proc'[q].kind = "scan" => q \in Scanners
                      /\ \A v \in Vms : Holds(q, v)' => CopyOK(proc[q], v)'
    OBVIOUS
  <2>1. CASE q # p
    <3>1. PICK s : s = proc[q] OBVIOUS
    <3>2. /\ proc'[q] = s /\ OwnOK(s)'
          /\ \A v \in Vms : Holds(q, v) => CopyOK(s, v)'
      BY <2>1, <3>1, OthersKeep
    <3>3. OwnOK(proc[q])' BY <3>2 DEF OwnOK, StepOK, Connected, NewestBy, SavedBy, LeftBy, PlacedBy, Foreign
    <3>4. \A v \in Vms : Holds(q, v)' => CopyOK(proc[q], v)'
      BY <3>1, <3>2 DEF Holds, CopyOK
    <3>5. s.kind = "scan" => q \in Scanners BY <3>1, OwnFacts
    <3> QED BY <3>2, <3>3, <3>4, <3>5
  <2>2. CASE q = p
    <3>1. OwnOK(proc[q])' BY <1>1, <2>2
    <3>2. ASSUME NEW v \in Vms, r.snap[v].version > 0 PROVE CopyOK(r, v)'
      <4>1. CopyEffect(p, r, S, v) /\ RowEffect(p, v) /\ VmOK(v) BY DEF Effect, CopiesInv
      <4>2. CASE v \in S /\ Live(v) /\ r.snap[v] = rows[v] /\ rows'[v] = rows[v]
        BY <1>2, <1>3, <4>1, <4>2 DEF CopyOK, VmOK, SavingInv, TypeOK, DatabaseOK, Row
      <4>3. CASE /\ Holds(p, v) /\ proc[p].pc # "exit"
                 /\ r.snap[v].version = proc[p].snap[v].version
                 /\ Live(v) /\ proc[p].snap[v].uuid = rows[v].uuid
                      /\ proc[p].snap[v].home = rows[v].home
                    => r.snap[v].uuid = rows'[v].uuid /\ r.snap[v].home = rows'[v].home
        <5>1. CopyOK(proc[p], v) BY <4>3, OwnFacts
        <5>2. rows'[v].version = rows[v].version BY <4>1 DEF RowEffect
        <5> QED BY <1>2, <1>3, <4>3, <5>1, <5>2 DEF CopyOK
      <4> QED BY <3>2, <4>1, <4>2, <4>3 DEF CopyEffect
    <3>3. ASSUME NEW v \in Vms, Holds(q, v)' PROVE CopyOK(proc[q], v)'
      <4>1. r.snap[v].version > 0 BY <1>1, <2>2, <3>3 DEF Holds
      <4>2. CopyOK(r, v)' BY <3>2, <4>1
      <4> QED BY <1>1, <2>2, <4>2 DEF CopyOK
    <3> QED BY <1>1, <2>2, <3>1, <3>3
  <2> QED BY <2>1, <2>2
<1>9. spent'["outage"] = 0 => up' = Nodes BY <1>3, <1>4 DEF CopiesInv
<1>10. ASSUME spent'["move"] = 0, NEW v \in Vms, Live(v)' PROVE PlacedVm(v)'
  <2>1. Live(v) /\ PlacedVm(v) BY <1>2, <1>4, <1>10 DEF CopiesInv
  <2>2. Targets(v)' = Targets(v) BY <1>4, <1>10, <2>1, TargetsStay DEF Effect
  <2>3. ASSUME NEW n \in Nodes, defs'[n][v].version > 0 PROVE n \in Targets(v)
    <3>1. NodeEffect(p, n, v) BY DEF Effect
    <3>2. CASE defs'[n][v].version = defs[n][v].version BY <2>1, <2>3, <3>2 DEF PlacedVm
    <3>3. CASE proc[p].pc = "load" /\ <<n, v>> \in proc[p].todo
      <4>1. PlacedBy(proc[p], v) BY <1>4, <1>10, <2>1, OwnFacts DEF OwnOK
      <4> QED BY <3>3, <4>1 DEF PlacedBy
    <3> QED BY <2>3, <3>1, <3>2, <3>3 DEF NodeEffect
  <2> QED BY <1>3, <2>1, <2>2, <2>3 DEF PlacedVm
<1>11. NewestSaved'
  <2> SUFFICES ASSUME NEW n \in Nodes, NEW v \in Vms, promised'[n][v] > 0,
                      n \notin dirty', <<n, v>> \notin undone', v \notin overlapped',
                      spent'["write"] = 0
               PROVE  defs'[n][v].version >= promised'[n][v]
    <3>1. ~(spent'["write"] > 0) => spent'["write"] = 0
      BY <1>4 DEF BudgetNames
    <3> QED BY <3>1 DEF NewestSaved
  <2>1. promised[n][v] = promised'[n][v] /\ promised[n][v] \in Nat
    BY <1>3 DEF SavingInv, TypeOK, HistoryOK
  <2>2. defs[n][v].version >= promised[n][v]
    BY <1>3, <1>4, <2>1 DEF CopiesInv, NewestSaved
  <2>3. NodeEffect(p, n, v) BY DEF Effect
  <2>4. CASE proc[p].pc = "load" /\ Holds(p, v) /\ defs'[n][v].version >= proc[p].snap[v].version
    <3>1. CopyOK(proc[p], v) BY <2>4, OwnFacts
    <3>2. promised[n][v] <= proc[p].snap[v].version BY <1>3, <3>1 DEF CopyOK
    <3>3. proc[p].snap[v].version \in Nat /\ defs'[n][v].version \in Nat
      <4>1. proc[p] \in Process BY ProcFacts
      <4>2. defs' \in [Nodes -> [Vms -> Def]] BY DEF SavingInv, TypeOK, NodesOK
      <4>3. proc[p].snap[v] \in Row BY <4>1 DEF Process
      <4>4. defs'[n][v] \in Def BY <4>2
      <4> QED BY <4>3, <4>4 DEF Row, Def
    <3> QED BY <2>1, <2>4, <3>2, <3>3
  <2> QED BY <1>3, <1>4, <2>1, <2>2, <2>3, <2>4 DEF NodeEffect
<1>12. RemovedEverywhere'
  <2> SUFFICES ASSUME NEW v \in deleted', NEW n \in Nodes, defs'[n][v].version > 0,
                      n \notin dirty', v \notin overlapped', ~(spent'["move"] > 0)
               PROVE  FALSE
    BY DEF RemovedEverywhere
  <2>1. v \in deleted /\ v \in Vms BY <1>3 DEF SavingInv, TypeOK, DatabaseOK
  <2>2. ~(defs[n][v].version > 0) BY <1>3, <1>4, <2>1 DEF CopiesInv, RemovedEverywhere
  <2>3. NodeEffect(p, n, v) /\ VmOK(v) BY <2>1 DEF Effect, CopiesInv
  <2>4. proc[p].pc = "load" /\ Holds(p, v) BY <2>2, <2>3 DEF NodeEffect
  <2>5. CopyOK(proc[p], v) BY <2>1, <2>4, OwnFacts
  <2> QED BY <1>3, <2>1, <2>3, <2>4, <2>5 DEF CopyOK, VmOK
<1> QED BY <1>6, <1>7, <1>8, <1>9, <1>10, <1>11, <1>12 DEF CopiesInv

\* What is saved stays saved.
LEMMA SavedStays ==
  ASSUME SavingInv, NEW p \in Procs, NEW r, NEW S, Effect(p, r, S),
         NEW n \in Nodes, NEW v \in Vms, v \notin overlapped', spent'["write"] = 0,
         r.snap[v].version = proc[p].snap[v].version, SavedBy(proc[p], n, v)
  PROVE  SavedBy(r, n, v)'
<1>1. /\ dirty \subseteq dirty' /\ undone \subseteq undone'
      /\ v \notin overlapped /\ spent["write"] = 0 /\ NodeEffect(p, n, v)
  BY DEF Effect
<1> QED BY <1>1 DEF SavedBy, NodeEffect

\* The places at which a list of definitions is worked off.
LoopPcs == {"create", "disk", "define", "load", "uuid"}

\* What is true of a process stays true while it goes on with its machine.
LEMMA OwnContinues ==
  ASSUME SavingInv, CopiesInv, NEW p \in Procs, NEW r \in Process, NEW S \in SUBSET Vms,
         Effect(p, r, S), NEW q \in Process, q = proc[p], q.pc # "idle",
         r.kind = q.kind, r.vm = q.vm, r.targets = q.targets, r.node = q.node,
         r.shown = q.shown, r.handled \subseteq r.shown,
         r.pc = "uuid" => r.snap[r.at[2]].uuid = 0,
         r.pc = "undefine" => r.todo \subseteq Nodes \X {r.vm},
         Connected(r)',
         spent'["write"] = 0 =>
           /\ r.pc = "load" /\ r.at[2] \notin overlapped' =>
                files'[r.at[1]][r.at[2]].version = r.snap[r.at[2]].version
           /\ r.pc = "uuid" /\ r.at[2] \notin overlapped' => SavedBy(r, r.at[1], r.at[2])'
           /\ r.kind \in {"persist", "disk"} /\ r.vm \notin overlapped' =>
                /\ r.snap[r.vm].version = q.snap[r.vm].version
                /\ \A n \in r.targets :
                     <<n, r.vm>> \in q.todo /\ q.pc \in {"create", "define", "load", "uuid"} =>
                       \/ r.pc \in {"create", "define", "load", "uuid"} /\ <<n, r.vm>> \in r.todo
                       \/ SavedBy(r, n, r.vm)',
         spent'["move"] = 0 =>
           /\ LeftBy(r)'
           /\ r.pc \in LoopPcs => \/ q.pc \in LoopPcs /\ r.todo \subseteq q.todo
                                  \/ \A t \in r.todo : t[1] \in Targets(t[2])',
         r.pc = "classify" =>
           q.pc = "classify" /\ \A v \in Vms : r.snap[v].version = q.snap[v].version
  PROVE  OwnOK(r)'
<1>1. OwnOK(q) BY OwnFacts
<1>2. \A v \in Vms : Live(v)' = Live(v) BY DEF Effect, RowEffect, Live
<1>3. overlapped \subseteq overlapped' /\ deleted' = deleted /\ clusterOf' = clusterOf
      /\ dirty \subseteq dirty' /\ undone \subseteq undone'
  BY DEF Effect
<1>4. spent'["move"] = spent["move"] /\ (spent'["write"] = 0 => spent["write"] = 0)
  BY DEF Effect
<1>5. q.shown \subseteq Vms /\ q.targets \subseteq Nodes BY DEF Process
<1>6. StepOK(r)' BY <1>1, <1>2, <1>3, <1>5 DEF OwnOK, StepOK
<1>7. ASSUME spent'["write"] = 0 PROVE NewestBy(r)'
  <2>1. ASSUME r.kind \in {"persist", "disk"}, r.pc # "idle", r.vm \notin overlapped',
               NEW n \in r.targets
        PROVE  \/ SavedBy(r, n, r.vm)'
               \/ r.pc \in {"create", "define", "load", "uuid"} /\ <<n, r.vm>> \in r.todo
    <3>1. r.vm \in Vms /\ n \in Nodes BY <1>5, <2>1, HeldFacts
    <3>2. \/ SavedBy(q, n, r.vm)
          \/ q.pc \in {"create", "define", "load", "uuid"} /\ <<n, r.vm>> \in q.todo
      BY <1>1, <1>3, <1>4, <1>7, <2>1 DEF OwnOK, NewestBy
    <3>3. CASE SavedBy(q, n, r.vm)
      BY <1>7, <2>1, <3>1, <3>3, SavedStays
    <3> QED BY <1>7, <2>1, <3>2, <3>3
  <2> SUFFICES /\ r.pc = "load" /\ r.at[2] \notin overlapped' =>
                    files'[r.at[1]][r.at[2]].version = r.snap[r.at[2]].version
               /\ r.pc = "uuid" /\ r.at[2] \notin overlapped' => SavedBy(r, r.at[1], r.at[2])'
               /\ r.kind \in {"persist", "disk"} /\ r.pc # "idle" /\ r.vm \notin overlapped' =>
                    \A n \in r.targets :
                      \/ SavedBy(r, n, r.vm)'
                      \/ r.pc \in {"create", "define", "load", "uuid"} /\ <<n, r.vm>> \in r.todo
    BY DEF NewestBy
  <2> QED BY <1>7, <2>1
<1>8. ASSUME spent'["move"] = 0, NEW v \in Vms, Live(v)' PROVE PlacedBy(r, v)'
  <2>1. Live(v) /\ PlacedBy(q, v) BY <1>1, <1>2, <1>4, <1>8 DEF OwnOK
  <2>2. Targets(v)' = Targets(v) BY <1>4, <1>8, <2>1, TargetsStay DEF Effect
  <2>3. r.pc \in LoopPcs => \A t \in r.todo : t[2] = v => t[1] \in Targets(v)'
    <3>1. CASE q.pc \in LoopPcs /\ r.todo \subseteq q.todo
      BY <2>1, <2>2, <3>1 DEF PlacedBy, LoopPcs
    <3>2. CASE \A t \in r.todo : t[1] \in Targets(t[2])'
      <4> SUFFICES ASSUME NEW t \in r.todo, t[2] = v PROVE t[1] \in Targets(v)' OBVIOUS
      <4>1. t[1] \in Targets(t[2])' BY <3>2
      <4> QED BY <4>1 DEF Targets, IsHa, Members
    <3> QED BY <1>8, <3>1, <3>2
  <2>4. r.kind # "scan" /\ r.pc # "idle" /\ r.vm = v => r.targets = Targets(v)'
    BY <2>1, <2>2 DEF PlacedBy
  <2>5. v \in r.shown => r.node \in Targets(v)'
    BY <2>1, <2>2 DEF PlacedBy
  <2> QED BY <2>3, <2>4, <2>5 DEF PlacedBy, LoopPcs
<1>9. ASSUME NEW v \in Vms PROVE Foreign(r, v)'
  <2> SUFFICES ASSUME r.pc = "classify", v \in r.shown, Live(v), r.snap[v].version = 0
               PROVE  /\ spent'["move"] > 0
                      /\ OneScanner /\ spent'["move"] = 1 => clusterOf'[rows'[v].home] # clusterOf'[r.node]
    BY <1>2 DEF Foreign
  <2>1. /\ spent["move"] > 0
        /\ OneScanner /\ spent["move"] = 1 => clusterOf[rows[v].home] # clusterOf[q.node]
    BY <1>1 DEF OwnOK, Foreign
  <2>2. ~Holds(p, v) BY DEF Holds
  <2>3. rows'[v].home = rows[v].home BY <2>2 DEF Effect, RowEffect
  <2> QED BY <1>3, <1>4, <2>1, <2>3
<1> SUFFICES /\ StepOK(r)' /\ Connected(r)'
             /\ spent'["write"] = 0 => NewestBy(r)'
             /\ spent'["move"] = 0 => LeftBy(r)' /\ \A v \in Vms : Live(v)' => PlacedBy(r, v)'
             /\ \A v \in Vms : Foreign(r, v)'
  BY DEF OwnOK
<1> QED BY <1>6, <1>7, <1>8, <1>9

\* Nothing is expected of a process that ended.
LEMMA IdleOwn == OwnOK(Idle) /\ OwnOK(Idle)'
<1>1. /\ Idle.pc = "idle" /\ Idle.kind = "none" /\ Idle.shown = {} /\ Idle.handled = {}
      /\ Idle.conn = [n \in Nodes |-> "none"] /\ Idle.snap = [v \in Vms |-> NullRow]
  BY DEF Idle
<1> HIDE DEF Idle
<1>2. StepOK(Idle) /\ Connected(Idle) /\ NewestBy(Idle) /\ LeftBy(Idle)
      /\ \A v \in Vms : PlacedBy(Idle, v) /\ Foreign(Idle, v)
  BY <1>1 DEF StepOK, Connected, NewestBy, LeftBy, PlacedBy, Foreign
<1>3. StepOK(Idle)' /\ Connected(Idle)' /\ NewestBy(Idle)' /\ LeftBy(Idle)'
      /\ \A v \in Vms : PlacedBy(Idle, v)' /\ Foreign(Idle, v)'
  BY <1>1 DEF StepOK, Connected, NewestBy, LeftBy, PlacedBy, Foreign
<1> QED BY <1>2, <1>3 DEF OwnOK

\* Sessions do not die without outages.
LEMMA ConnectedStays ==
  ASSUME SavingInv, CopiesInv, NEW p \in Procs, NEW r, NEW S, spent'["outage"] = spent["outage"],
         r.conn = proc[p].conn \/ r.conn = Conns(p, S)
  PROVE  Connected(r)'
<1> SUFFICES ASSUME spent["outage"] = 0, NEW n \in Nodes PROVE r.conn[n] # "dead"
  BY DEF Connected
<1>1. up = Nodes /\ proc[p].conn[n] # "dead"
  BY OwnFacts DEF OwnOK, Connected, CopiesInv
<1> QED BY <1>1 DEF Conns, ConnTo

\* A step that leaves definitions, files and history alone and loads nothing.
LEMMA QuietEffect ==
  ASSUME NEW p \in Procs, NEW r, Becomes(p, r),
         UNCHANGED <<deleted, clusterOf, up, files, defs, running, promised, undone, overlapped>>,
         spent'["move"] = spent["move"], spent'["outage"] = spent["outage"],
         spent'["write"] = spent["write"],
         dirty \subseteq dirty',
         \A v \in Vms : \/ rows'[v] = rows[v]
                        \/ /\ Live(v) /\ rows'[v].version = rows[v].version
                           /\ rows'[v].uuid = rows[v].uuid /\ rows'[v].home = rows[v].home,
         \A v \in Vms : r.snap[v].version > 0 =>
                          r.snap[v] = proc[p].snap[v] /\ proc[p].pc # "exit"
  PROVE  Effect(p, r, {})
<1>1. HeldByOthers(p, {}) = {} BY DEF HeldByOthers
<1>2. \A v \in Vms : RowEffect(p, v) BY DEF RowEffect
<1>3. \A v \in Vms : CopyEffect(p, r, {}, v) BY DEF CopyEffect, Holds
<1>4. \A v \in Vms, n \in Nodes : NodeEffect(p, n, v) BY DEF NodeEffect
<1> QED BY <1>1, <1>2, <1>3, <1>4 DEF Effect

\* A process ends early, and at most finds that nodes are not reached.
LEMMA EndsEarly ==
  ASSUME SavingInv, SavingInv', CopiesInv, NEW p \in Procs, Becomes(p, Idle),
         UNCHANGED <<rows, deleted, clusterOf, up, files, defs, running, promised, undone, overlapped>>,
         spent'["move"] = spent["move"], spent'["outage"] = spent["outage"],
         spent'["write"] = spent["write"],
         dirty \subseteq dirty'
  PROVE  CopiesInv'
<1>1. Idle.snap = [v \in Vms |-> NullRow] /\ Idle.kind = "none" BY DEF Idle
<1>2. \A v \in Vms : ~(Idle.snap[v].version > 0) BY <1>1, NullRowFacts
<1>3. Effect(p, Idle, {}) BY <1>2, QuietEffect
<1> QED BY <1>1, <1>3, IdleOwn, IdleFacts, EffectKeeps

\* What a process becomes is a process.
LEMMA NewProcess ==
  ASSUME SavingInv, SavingInv', NEW p \in Procs, NEW r, Becomes(p, r)
  PROVE  r \in Process
<1>1. proc'[p] = r BY DEF SavingInv, TypeOK, Becomes
<1> QED BY <1>1 DEF SavingInv, TypeOK

\* A process goes on with its machine without touching it.
LEMMA QuietStep ==
  ASSUME SavingInv, SavingInv', CopiesInv, NEW p \in Procs, NEW r, Becomes(p, r),
         UNCHANGED <<deleted, clusterOf, up, files, defs, running, promised, undone, overlapped>>,
         spent'["move"] = spent["move"], spent'["outage"] = spent["outage"],
         spent'["write"] = spent["write"],
         dirty \subseteq dirty',
         \A v \in Vms : \/ rows'[v] = rows[v]
                        \/ /\ Live(v) /\ rows'[v].version = rows[v].version
                           /\ rows'[v].uuid = rows[v].uuid /\ rows'[v].home = rows[v].home,
         NEW q \in Process, q = proc[p], q.pc \notin {"idle", "exit"},
         r.kind = q.kind, r.vm = q.vm, r.targets = q.targets, r.node = q.node,
         r.shown = q.shown, r.snap = q.snap, r.handled \subseteq r.shown,
         r.pc \notin {"load", "uuid"},
         r.conn = q.conn \/ \E C : r.conn = Conns(p, C),
         r.pc = "undefine" => r.todo \subseteq Nodes \X {r.vm},
         r.kind \in {"persist", "disk"} =>
           \A n \in r.targets :
             <<n, r.vm>> \in q.todo /\ q.pc \in {"create", "define", "load", "uuid"} =>
               \/ r.pc \in {"create", "define", "load", "uuid"} /\ <<n, r.vm>> \in r.todo
               \/ n \in dirty',
         spent["move"] = 0 => LeftBy(r)',
         r.pc \in LoopPcs => q.pc \in LoopPcs /\ r.todo \subseteq q.todo,
         r.pc = "classify" => q.pc = "classify"
  PROVE  CopiesInv'
<1>1. r \in Process BY NewProcess
<1>2. Effect(p, r, {}) BY QuietEffect
<1>3. Connected(r)' BY ConnectedStays
<1>4. \A n : n \in dirty' => SavedBy(r, n, r.vm)' BY DEF SavedBy
<1>5. OwnOK(r)' BY <1>1, <1>2, <1>3, <1>4, OwnContinues
<1>6. r.kind = "scan" => p \in Scanners BY OwnFacts
<1> QED BY <1>1, <1>2, <1>5, <1>6, EffectKeeps

\* Dirty marks accumulate.
LEMMA DirtyGrows ==
  ASSUME NEW p, NEW S, MarkDirty(p, S) PROVE dirty \subseteq dirty'
BY DEF MarkDirty

\* Allocating a disk's volume.
LEMMA CreateVolumeCopies ==
  ASSUME SavingInv, SavingInv', CopiesInv, NEW p \in Procs, CreateVolume(p)
  PROVE  CopiesInv'
<1> DEFINE C == {proc[p].snap[proc[p].vm].disk}
<1>0. PICK r : r = [proc[p] EXCEPT !.pc = "define", !.conn = Conns(p, C)] OBVIOUS
<1>1. PICK q \in Process : q = proc[p] BY ProcFacts
<1>2. Becomes(p, r) /\ q.pc = "create" BY <1>0, <1>1 DEF CreateVolume
<1>3. UNCHANGED <<rows, deleted, clusterOf, up, files, defs, running, spent, promised, undone, overlapped>>
      /\ dirty \subseteq dirty'
  BY DirtyGrows DEF CreateVolume, histVars
<1>4. /\ r.kind = q.kind /\ r.vm = q.vm /\ r.targets = q.targets /\ r.node = q.node
      /\ r.shown = q.shown /\ r.snap = q.snap /\ r.handled = q.handled /\ r.todo = q.todo
      /\ r.pc = "define" /\ r.conn = Conns(p, C)
  BY <1>0, <1>1 DEF Process
<1>5. q.handled \subseteq q.shown BY <1>1, OwnFacts DEF OwnOK, StepOK
<1>6. LeftBy(r)' BY <1>4 DEF LeftBy
<1> QED BY <1>1, <1>2, <1>3, <1>4, <1>5, <1>6, QuietStep DEF LoopPcs

\* Deleting a disk's volume and its row.
LEMMA RemoveDiskCopies ==
  ASSUME SavingInv, SavingInv', CopiesInv, NEW p \in Procs, RemoveDisk(p)
  PROVE  CopiesInv'
<1> DEFINE C == {proc[p].snap[proc[p].vm].disk}
<1>0. PICK r : r = [proc[p] EXCEPT !.pc = "define", !.conn = Conns(p, C)] OBVIOUS
<1>1. PICK q \in Process : q = proc[p] BY ProcFacts
<1>2. Becomes(p, r) /\ q.pc = "disk" BY <1>0, <1>1 DEF RemoveDisk
<1>3. UNCHANGED <<deleted, clusterOf, up, files, defs, running, spent, promised, undone, overlapped>>
      /\ dirty \subseteq dirty'
  BY DirtyGrows DEF RemoveDisk, histVars
<1>4. /\ r.kind = q.kind /\ r.vm = q.vm /\ r.targets = q.targets /\ r.node = q.node
      /\ r.shown = q.shown /\ r.snap = q.snap /\ r.handled = q.handled /\ r.todo = q.todo
      /\ r.pc = "define" /\ r.conn = Conns(p, C)
  BY <1>0, <1>1 DEF Process
<1>5. q.handled \subseteq q.shown BY <1>1, OwnFacts DEF OwnOK, StepOK
<1>6. q.kind = "remove" BY <1>1, <1>2, ProcFacts DEF ProcessOK, ScanPcs, SavePcs
<1>7. \A v \in Vms : \/ rows'[v] = rows[v]
                     \/ /\ Live(v) /\ rows'[v].version = rows[v].version
                        /\ rows'[v].uuid = rows[v].uuid /\ rows'[v].home = rows[v].home
  <2>1. rows \in [Vms -> Row] BY DEF SavingInv, TypeOK, DatabaseOK
  <2>2. rows' = rows \/ (Live(q.vm) /\ rows' = [rows EXCEPT ![q.vm].disk = NoNode])
    BY <1>1 DEF RemoveDisk
  <2> QED BY <2>1, <2>2 DEF Row
<1>8. LeftBy(r)' BY <1>4 DEF LeftBy
<1> QED BY <1>1, <1>2, <1>3, <1>4, <1>5, <1>6, <1>7, <1>8, QuietStep DEF LoopPcs

\* The pair t of the list was crossed off because its node was not reached.
LEMMA DefineOfflineCopies ==
  ASSUME SavingInv, SavingInv', CopiesInv, NEW p \in Procs, DefineOffline(p)
  PROVE  CopiesInv'
<1>1. PICK q \in Process : q = proc[p] BY ProcFacts
<1>2. PICK t \in q.todo : /\ ConnTo(p, t[1]) = "dead" /\ MarkDirty(p, {t[1]})
                          /\ Becomes(p, PairDone(p, t, [proc[p] EXCEPT !.conn = Conns(p, {t[1]})]))
  BY <1>1 DEF DefineOffline
<1> DEFINE C == Conns(p, {t[1]})
<1>0. PICK r : r = PairDone(p, t, [proc[p] EXCEPT !.conn = C]) OBVIOUS
<1>3. UNCHANGED <<rows, deleted, clusterOf, up, files, defs, running, spent, promised, undone, overlapped>>
      /\ dirty \subseteq dirty' /\ t[1] \in dirty' /\ q.pc = "define"
  BY <1>1, <1>2, DirtyGrows DEF DefineOffline, histVars, nodeVars, MarkDirty, DeadAmong
<1>4. /\ r.kind = q.kind /\ r.vm = q.vm /\ r.targets = q.targets /\ r.node = q.node
      /\ r.shown = q.shown /\ r.snap = q.snap /\ r.handled = q.handled
      /\ r.todo = q.todo \ {t} /\ r.conn = C
      /\ r.pc = IF q.todo \ {t} # {} THEN "define" ELSE AfterDefine(p)
  BY <1>0, <1>1 DEF Process, PairDone, Rest
<1>5. q.handled \subseteq q.shown BY <1>1, OwnFacts DEF OwnOK, StepOK
<1>6. AfterDefine(p) \in {"exit", "pacemaker", "check"} BY DEF AfterDefine
<1>7. Becomes(p, r) BY <1>0, <1>2
<1>8. LeftBy(r)' BY <1>4, <1>6 DEF LeftBy
<1>9. \A n \in r.targets : <<n, r.vm>> \in q.todo =>
         \/ r.pc \in {"create", "define", "load", "uuid"} /\ <<n, r.vm>> \in r.todo
         \/ n \in dirty'
  <2> SUFFICES ASSUME NEW n \in r.targets, <<n, r.vm>> \in q.todo, n \notin dirty'
               PROVE  r.pc = "define" /\ <<n, r.vm>> \in r.todo
    OBVIOUS
  <2>1. <<n, r.vm>> # t BY <1>3
  <2> QED BY <1>4, <2>1
<1>10. r.pc \notin {"load", "uuid", "undefine", "classify", "create", "disk"} BY <1>4, <1>6
<1>11. r.conn = q.conn \/ \E D : r.conn = Conns(p, D) BY <1>4 DEF C
<1>12. r.pc \in LoopPcs => q.pc \in LoopPcs /\ r.todo \subseteq q.todo BY <1>3, <1>4, <1>6 DEF LoopPcs
<1> QED BY <1>1, <1>3, <1>4, <1>5, <1>7, <1>8, <1>9, <1>10, <1>11, <1>12, QuietStep

\* Adding the pacemaker resource.
LEMMA PacemakerAddCopies ==
  ASSUME SavingInv, SavingInv', CopiesInv, NEW p \in Procs, PacemakerAdd(p)
  PROVE  CopiesInv'
<1>1. PICK q \in Process : q = proc[p] BY ProcFacts
<1>2. PICK C, answer :
        /\ MarkDirty(p, C)
        /\ Becomes(p, [proc[p] EXCEPT !.pc = AfterPacemaker(p), !.conn = Conns(p, C)])
        /\ IsRunning(p, proc[p].vm, answer)
  BY DEF PacemakerAdd
<1> DEFINE D == Conns(p, C)
<1>0. PICK r : r = [proc[p] EXCEPT !.pc = AfterPacemaker(p), !.conn = D] OBVIOUS
<1>3. /\ UNCHANGED <<rows, deleted, clusterOf, up, files, defs, running, promised, undone, overlapped>>
      /\ dirty \subseteq dirty' /\ q.pc = "pacemaker"
      /\ spent'["move"] = spent["move"] /\ spent'["outage"] = spent["outage"]
      /\ spent'["write"] = spent["write"]
  BY <1>1, <1>2, DirtyGrows, AskFacts DEF PacemakerAdd, SavingInv
<1>4. /\ r.kind = q.kind /\ r.vm = q.vm /\ r.targets = q.targets /\ r.node = q.node
      /\ r.shown = q.shown /\ r.snap = q.snap /\ r.handled = q.handled
      /\ r.conn = D /\ r.pc \in {"check", "exit"}
  BY <1>0, <1>1 DEF Process, AfterPacemaker
<1>5. q.handled \subseteq q.shown BY <1>1, OwnFacts DEF OwnOK, StepOK
<1>6. Becomes(p, r) BY <1>0, <1>2
<1>7. \E E : r.conn = Conns(p, E) BY <1>4
<1>8. LeftBy(r)' BY <1>4 DEF LeftBy
<1>9. r.pc \notin {"load", "uuid", "undefine", "classify"} /\ r.pc \notin LoopPcs
  BY <1>4 DEF LoopPcs
<1> QED BY <1>1, <1>3, <1>4, <1>5, <1>6, <1>7, <1>8, <1>9, QuietStep

\* The check that the guest is stopped, before the definitions are removed:
\* all that defines the machine is on the list of the removal.
LEMMA CheckStoppedCopies ==
  ASSUME SavingInv, SavingInv', CopiesInv, NEW p \in Procs, CheckStopped(p)
  PROVE  CopiesInv'
<1>1. PICK q \in Process : q = proc[p] BY ProcFacts
<1>2. /\ UNCHANGED <<rows, deleted, clusterOf, up, files, defs, running, promised, undone, overlapped>>
      /\ dirty \subseteq dirty' /\ q.pc = "check"
      /\ spent'["move"] = spent["move"] /\ spent'["outage"] = spent["outage"]
      /\ spent'["write"] = spent["write"]
  BY <1>1, DirtyGrows, AskFacts DEF CheckStopped, nodeVars, SavingInv
<1>3. CASE Becomes(p, Idle) BY <1>2, <1>3, EndsEarly
<1>4. CASE ~Becomes(p, Idle)
  <2> DEFINE C == {q.snap[q.vm].home}
  <2>1. PICK r : r = [proc[p] EXCEPT !.pc = "undefine", !.conn = Conns(p, C),
                                     !.todo = proc[p].targets \X {proc[p].vm}]
    OBVIOUS
  <2>2. Becomes(p, r) BY <1>1, <1>4, <2>1 DEF CheckStopped
  <2>3. /\ r.kind = q.kind /\ r.vm = q.vm /\ r.targets = q.targets /\ r.node = q.node
        /\ r.shown = q.shown /\ r.snap = q.snap /\ r.handled = q.handled
        /\ r.pc = "undefine" /\ r.conn = Conns(p, C) /\ r.todo = q.targets \X {q.vm}
    BY <1>1, <2>1 DEF Process
  <2>4. q.handled \subseteq q.shown BY <1>1, OwnFacts DEF OwnOK, StepOK
  <2>5. q.kind = "remove" /\ q.targets \subseteq Nodes
    BY <1>1, <1>2, ProcFacts DEF ProcessOK, ScanPcs, SavePcs, Process
  <2>6. ASSUME spent["move"] = 0, q.vm \notin overlapped, NEW n \in Nodes, defs[n][q.vm].version > 0
        PROVE  n \in q.targets
    <3>1. q.vm \in Vms /\ Holds(p, q.vm) BY <1>1, <1>2, <2>5, HeldFacts
    <3>2. Live(q.vm) BY <1>1, <1>2, <2>6, <3>1, OwnFacts DEF CopyOK
    <3>3. PlacedVm(q.vm) BY <2>6, <3>1, <3>2 DEF CopiesInv
    <3>4. q.targets = Targets(q.vm)
      BY <1>1, <1>2, <2>5, <2>6, <3>1, <3>2, OwnFacts DEF OwnOK, PlacedBy
    <3> QED BY <2>6, <3>3, <3>4 DEF PlacedVm
  <2>7. spent["move"] = 0 => LeftBy(r)' BY <1>2, <2>3, <2>6 DEF LeftBy
  <2>8. \E D : r.conn = Conns(p, D) BY <2>3
  <2>9. r.todo \subseteq Nodes \X {r.vm} BY <2>3, <2>5
  <2> QED BY <1>1, <1>2, <2>2, <2>3, <2>4, <2>5, <2>7, <2>8, <2>9, QuietStep DEF LoopPcs
<1> QED BY <1>3, <1>4

\* What a removal has left when it crosses t off its list.
LEMMA LeftStays ==
  ASSUME SavingInv, CopiesInv, NEW p \in Procs, NEW q \in Process, q = proc[p],
         q.pc = "undefine", NEW t \in q.todo, spent["move"] = 0,
         NEW r, r.kind = q.kind, r.vm = q.vm, r.todo = q.todo \ {t},
         r.pc = IF q.todo \ {t} = {} THEN "delete" ELSE "undefine",
         dirty \subseteq dirty', overlapped' = overlapped,
         \A n \in Nodes : defs'[n][q.vm].version > 0 =>
           \/ n \in dirty'
           \/ defs[n][q.vm].version > 0 /\ <<n, q.vm>> # t
  PROVE  LeftBy(r)'
<1>1. LeftBy(q) BY OwnFacts DEF OwnOK
<1> SUFFICES ASSUME r.kind = "remove", r.vm \notin overlapped,
                    NEW n \in Nodes, defs'[n][r.vm].version > 0, n \notin dirty'
             PROVE  r.pc = "undefine" /\ <<n, r.vm>> \in r.todo
  BY DEF LeftBy
<1>2. defs[n][q.vm].version > 0 /\ <<n, q.vm>> # t OBVIOUS
<1>3. <<n, q.vm>> \in q.todo BY <1>1, <1>2 DEF LeftBy
<1>4. <<n, q.vm>> \in q.todo \ {t} BY <1>2, <1>3
<1> QED BY <1>4

\* A pair of the list of a removal.
LEMMA UndefinePair ==
  ASSUME SavingInv, CopiesInv, NEW p \in Procs, proc[p].pc = "undefine", NEW t \in proc[p].todo
  PROVE  /\ t[1] \in Nodes /\ t[2] = proc[p].vm /\ proc[p].vm \in Vms /\ t = <<t[1], t[2]>>
         /\ proc[p].kind = "remove" /\ Holds(p, t[2])
         /\ proc[p].todo \subseteq Nodes \X {proc[p].vm}
<1>1. proc[p].todo \subseteq Nodes \X {proc[p].vm} BY OwnFacts DEF OwnOK, StepOK
<1>2. proc[p].kind = "remove" BY ProcFacts DEF ProcessOK, ScanPcs, SavePcs
<1>3. proc[p].vm \in Vms /\ Holds(p, proc[p].vm) BY <1>2, HeldFacts
<1> QED BY <1>1, <1>2, <1>3

\* The pair t of a removal was crossed off because its node was not reached.
LEMMA UndefineOfflineCopies ==
  ASSUME SavingInv, SavingInv', CopiesInv, NEW p \in Procs, UndefineOffline(p)
  PROVE  CopiesInv'
<1>1. PICK q \in Process : q = proc[p] BY ProcFacts
<1>2. PICK t \in q.todo : /\ ConnTo(p, t[1]) = "dead" /\ MarkDirty(p, {t[1]})
                          /\ Becomes(p, UndefineDone(p, t))
  BY <1>1 DEF UndefineOffline
<1> DEFINE C == {t[1]}
<1>3. PICK r : r = UndefineDone(p, t) OBVIOUS
<1>4. UNCHANGED <<rows, deleted, clusterOf, up, files, defs, running, spent, promised, undone, overlapped>>
      /\ dirty \subseteq dirty' /\ t[1] \in dirty' /\ q.pc = "undefine"
  BY <1>1, <1>2, DirtyGrows DEF UndefineOffline, histVars, nodeVars, MarkDirty, DeadAmong
<1>5. /\ r.kind = q.kind /\ r.vm = q.vm /\ r.targets = q.targets /\ r.node = q.node
      /\ r.shown = q.shown /\ r.snap = q.snap /\ r.handled = q.handled
      /\ r.todo = q.todo \ {t} /\ r.conn = Conns(p, C)
      /\ r.pc = IF q.todo \ {t} = {} THEN "delete" ELSE "undefine"
  BY <1>1, <1>3 DEF Process, UndefineDone, Rest
<1>6. q.handled \subseteq q.shown BY <1>1, OwnFacts DEF OwnOK, StepOK
<1>7. /\ t[1] \in Nodes /\ t[2] = q.vm /\ t = <<t[1], t[2]>> /\ q.kind = "remove"
      /\ q.todo \subseteq Nodes \X {q.vm}
  BY <1>1, <1>4, UndefinePair
<1>8. \A n \in Nodes : <<n, q.vm>> = t => n \in dirty' BY <1>4, <1>7
<1>9. spent["move"] = 0 => LeftBy(r)'
  BY <1>1, <1>4, <1>5, <1>8, LeftStays
<1>10. \E D : r.conn = Conns(p, D) BY <1>5
<1> QED BY <1>1, <1>2, <1>3, <1>4, <1>5, <1>6, <1>7, <1>9, <1>10, QuietStep DEF LoopPcs

\* A machine of the scanned cluster is taken note of.
LEMMA ScanKnownCopies ==
  ASSUME SavingInv, SavingInv', CopiesInv, NEW p \in Procs, ScanKnown(p)
  PROVE  CopiesInv'
<1>1. PICK q \in Process : q = proc[p] BY ProcFacts
<1>2. PICK v \in Unhandled(p) : Becomes(p, [proc[p] EXCEPT !.handled = @ \cup {v}])
  BY DEF ScanKnown
<1>3. PICK r : r = [proc[p] EXCEPT !.handled = @ \cup {v}] OBVIOUS
<1>4. UNCHANGED <<rows, deleted, clusterOf, up, files, defs, running, spent, promised, undone, overlapped>>
      /\ dirty \subseteq dirty' /\ q.pc = "classify"
  BY <1>1 DEF ScanKnown, histVars, nodeVars, dbVars
<1>5. /\ r.kind = q.kind /\ r.vm = q.vm /\ r.targets = q.targets /\ r.node = q.node
      /\ r.shown = q.shown /\ r.snap = q.snap /\ r.handled = q.handled \cup {v}
      /\ r.todo = q.todo /\ r.conn = q.conn /\ r.pc = "classify"
  BY <1>1, <1>3, <1>4 DEF Process
<1>6. q.handled \subseteq q.shown BY <1>1, OwnFacts DEF OwnOK, StepOK
<1>7. r.handled \subseteq r.shown BY <1>1, <1>5, <1>6 DEF Unhandled
<1>8. q.kind = "scan" BY <1>1, <1>4, ScanProcess
<1>9. LeftBy(r)' BY <1>5 DEF LeftBy
<1> QED BY <1>1, <1>2, <1>3, <1>4, <1>5, <1>7, <1>8, <1>9, QuietStep DEF LoopPcs

\* A process that ends early keeps the invariant.
LEMMA EndsCopies ==
  ASSUME SavingInv, SavingInv', CopiesInv, NEW p \in Procs,
         RemoveDiskFails(p) \/ PacemakerOffline(p) \/ JobFails(p)
  PROVE  CopiesInv'
<1>1. UNCHANGED <<rows, deleted, clusterOf, up, files, defs, running, spent, promised, undone, overlapped>>
      /\ dirty \subseteq dirty' /\ Becomes(p, Idle)
  BY DirtyGrows DEF RemoveDiskFails, PacemakerOffline, JobFails, histVars, nodeVars, dbVars
<1> QED BY <1>1, EndsEarly

\* The file of a machine is written by a process that holds it.
LEMMA WriteFileCopies ==
  ASSUME SavingInv, SavingInv', CopiesInv, NEW p \in Procs, WriteFile(p)
  PROVE  CopiesInv'
<1>1. PICK q \in Process : q = proc[p] BY ProcFacts
<1>2. PICK t \in q.todo :
        /\ \/ /\ files' = [files EXCEPT ![t[1]][t[2]] = Xml(p, t[2])] /\ UNCHANGED spent
           \/ Spend("write") /\ UNCHANGED files
        /\ Becomes(p, [proc[p] EXCEPT !.pc = "load", !.at = t, !.conn = Conns(p, {t[1]})])
  BY <1>1 DEF WriteFile
<1>3. PICK r : r = [proc[p] EXCEPT !.pc = "load", !.at = t, !.conn = Conns(p, {t[1]})] OBVIOUS
<1>4. UNCHANGED <<rows, deleted, clusterOf, up, defs, running, promised, undone, overlapped, dirty>>
      /\ q.pc = "define"
  BY <1>1 DEF WriteFile, dbVars
<1>5. r \in Process BY <1>2, <1>3, NewProcess
<1>6. /\ r.kind = q.kind /\ r.vm = q.vm /\ r.targets = q.targets /\ r.node = q.node
      /\ r.shown = q.shown /\ r.snap = q.snap /\ r.handled = q.handled /\ r.todo = q.todo
      /\ r.at = t /\ r.pc = "load" /\ r.conn = Conns(p, {t[1]})
  BY <1>1, <1>3, <1>5 DEF Process
<1>7. t[1] \in Nodes /\ t[2] \in Vms /\ Holds(p, t[2]) BY <1>1, <1>4, HeldFacts
<1>8. files \in [Nodes -> [Vms -> Def]] /\ spent \in [BudgetNames -> Nat]
  BY DEF SavingInv, TypeOK, NodesOK, HistoryOK
<1>9. Effect(p, r, {})
  <2>1. HeldByOthers(p, {}) = {} BY DEF HeldByOthers
  <2>2. \A v \in Vms : RowEffect(p, v) /\ CopyEffect(p, r, {}, v)
    BY <1>1, <1>4, <1>6 DEF RowEffect, CopyEffect, Holds
  <2>3. \A v \in Vms, n \in Nodes : NodeEffect(p, n, v)
    BY <1>2, <1>4, <1>7, <1>8 DEF NodeEffect
  <2>4. /\ spent'["move"] = spent["move"] /\ spent'["outage"] = spent["outage"]
        /\ spent'["write"] = 0 => spent["write"] = 0
    BY <1>2, <1>8 DEF Spend, BudgetNames
  <2> QED BY <1>2, <1>3, <1>4, <2>1, <2>2, <2>3, <2>4 DEF Effect
<1>10. spent'["write"] = 0 => files'[t[1]][t[2]].version = r.snap[t[2]].version
  <2>1. spent["write"] \in Nat BY <1>8 DEF BudgetNames
  <2>2. Spend("write") => spent'["write"] > 0 BY <1>8, <2>1 DEF Spend, BudgetNames
  <2>3. Xml(p, t[2]).version = r.snap[t[2]].version BY <1>1, <1>6 DEF Xml
  <2> QED BY <1>2, <1>7, <1>8, <2>2, <2>3
<1>11. r.handled \subseteq r.shown BY <1>1, <1>6, OwnFacts DEF OwnOK, StepOK
<1>12. Connected(r)' BY <1>6, <1>9, ConnectedStays DEF Effect
<1>13. LeftBy(r)' BY <1>6 DEF LeftBy
<1>14. OwnOK(r)'
  BY <1>1, <1>4, <1>5, <1>6, <1>9, <1>10, <1>11, <1>12, <1>13, OwnContinues DEF LoopPcs
<1>15. r.kind = "scan" => p \in Scanners BY <1>1, <1>6, OwnFacts
<1> QED BY <1>5, <1>9, <1>14, <1>15, EffectKeeps

\* A pair is crossed off the list once its node has what the process holds.
LEMMA PairDoneOwn ==
  ASSUME SavingInv, CopiesInv, NEW p \in Procs, NEW r \in Process, Effect(p, r, {}),
         NEW q \in Process, q = proc[p], q.pc \in {"load", "uuid"},
         r.kind = q.kind, r.vm = q.vm, r.targets = q.targets, r.node = q.node,
         r.shown = q.shown, r.handled = q.handled, r.conn = q.conn,
         r.todo = q.todo \ {q.at}, r.pc = IF q.todo \ {q.at} # {} THEN "define" ELSE AfterDefine(p),
         \A v \in Vms : r.snap[v].version = q.snap[v].version,
         spent'["write"] = 0 /\ q.at[2] \notin overlapped' => SavedBy(r, q.at[1], q.at[2])'
  PROVE  OwnOK(r)'
<1>1. AfterDefine(p) \in {"exit", "pacemaker", "check"} BY DEF AfterDefine
<1>2. q.at \in q.todo /\ q.at = <<q.at[1], q.at[2]>> BY HeldFacts
<1>3. r.pc \notin {"load", "uuid", "undefine", "delete", "classify", "create", "disk"} BY <1>1
<1>4. r.handled \subseteq r.shown BY OwnFacts DEF OwnOK, StepOK
<1>5. Connected(r)' BY ConnectedStays DEF Effect
<1>6. LeftBy(r)' BY <1>3 DEF LeftBy
<1>7. r.kind \in {"persist", "disk"} => r.vm \in Vms BY HeldFacts
<1>8. ASSUME spent'["write"] = 0, r.kind \in {"persist", "disk"}, r.vm \notin overlapped',
             NEW n \in r.targets, <<n, r.vm>> \in q.todo
      PROVE  (r.pc = "define" /\ <<n, r.vm>> \in r.todo) \/ SavedBy(r, n, r.vm)'
  <2>1. CASE <<n, r.vm>> = q.at
    <3>1. q.at[1] = n /\ q.at[2] = r.vm BY <2>1
    <3> QED BY <1>8, <3>1
  <2>2. CASE <<n, r.vm>> # q.at
    <3>1. <<n, r.vm>> \in r.todo BY <1>8, <2>2
    <3> QED BY <3>1
  <2> QED BY <2>1, <2>2
<1>9. r.pc \in LoopPcs => q.pc \in LoopPcs /\ r.todo \subseteq q.todo BY DEF LoopPcs
<1> QED BY <1>3, <1>4, <1>5, <1>6, <1>7, <1>8, <1>9, OwnContinues

\* libvirt defines what the file says.
LEMMA DefineVmCopies ==
  ASSUME SavingInv, SavingInv', CopiesInv, NEW p \in Procs, DefineVm(p)
  PROVE  CopiesInv'
<1>1. PICK q \in Process : q = proc[p] BY ProcFacts
<1>2. PICK n, v : n = q.at[1] /\ v = q.at[2] OBVIOUS
<1>3. q.pc = "load" BY <1>1 DEF DefineVm
<1>4. q.at \in q.todo /\ q.at = <<n, v>> /\ n \in Nodes /\ v \in Vms /\ Holds(p, v)
  BY <1>1, <1>2, <1>3, HeldFacts
<1>5. PICK d : defs' = [defs EXCEPT ![n][v] = d] /\ d.version = files[n][v].version
  <2>1. PICK d : d = [version |-> files[n][v].version,
                      uuid |-> IF files[n][v].uuid = 0 THEN nextUuid + 1 ELSE files[n][v].uuid]
    OBVIOUS
  <2>2. defs' = [defs EXCEPT ![n][v] = d] BY <1>1, <1>2, <2>1 DEF DefineVm
  <2>3. d.version = files[n][v].version BY <2>1
  <2> QED BY <2>2, <2>3
<1>6. PICK r : r = IF q.snap[v].uuid = 0 THEN [q EXCEPT !.pc = "uuid"] ELSE PairDone(p, <<n, v>>, q)
  OBVIOUS
<1>7. UNCHANGED <<rows, deleted, clusterOf, up, files, running, spent, promised, undone, overlapped, dirty>>
      /\ Becomes(p, r)
  BY <1>1, <1>2, <1>6 DEF DefineVm, histVars, dbVars
<1>8. r \in Process BY <1>7, NewProcess
<1>9. /\ r.kind = q.kind /\ r.vm = q.vm /\ r.targets = q.targets /\ r.node = q.node
      /\ r.shown = q.shown /\ r.snap = q.snap /\ r.handled = q.handled /\ r.conn = q.conn
      /\ q.snap[v].uuid = 0 => r.pc = "uuid" /\ r.todo = q.todo /\ r.at = q.at
      /\ q.snap[v].uuid # 0 =>
           /\ r.todo = q.todo \ {q.at}
           /\ r.pc = IF q.todo \ {q.at} # {} THEN "define" ELSE AfterDefine(p)
  BY <1>1, <1>4, <1>6 DEF Process, PairDone, Rest
<1>10. /\ defs'[n][v].version = files[n][v].version
       /\ \A m \in Nodes, w \in Vms : <<m, w>> # <<n, v>> => defs'[m][w] = defs[m][w]
  <2>1. defs \in [Nodes -> [Vms -> Def]] BY DEF SavingInv, TypeOK, NodesOK
  <2> QED BY <1>4, <1>5, <2>1
<1>11. spent["write"] = 0 /\ v \notin overlapped => files[n][v].version = q.snap[v].version
  BY <1>1, <1>2, <1>3, OwnFacts DEF OwnOK, NewestBy
<1>12. q.snap[v].version \in Nat BY <1>4 DEF Process, Row
<1>13. Effect(p, r, {})
  <2>1. HeldByOthers(p, {}) = {} BY DEF HeldByOthers
  <2>2. \A w \in Vms : RowEffect(p, w) /\ CopyEffect(p, r, {}, w)
    BY <1>1, <1>3, <1>7, <1>9 DEF RowEffect, CopyEffect, Holds
  <2>3. ASSUME NEW w \in Vms, NEW m \in Nodes PROVE NodeEffect(p, m, w)
    <3>1. CASE <<m, w>> = <<n, v>>
      BY <1>1, <1>3, <1>4, <1>7, <1>10, <1>11, <1>12, <3>1 DEF NodeEffect
    <3>2. CASE <<m, w>> # <<n, v>> BY <1>7, <1>10, <3>2 DEF NodeEffect
    <3> QED BY <3>1, <3>2
  <2> QED BY <1>7, <2>1, <2>2, <2>3 DEF Effect
<1>14. spent'["write"] = 0 /\ v \notin overlapped' => SavedBy(r, n, v)'
  BY <1>7, <1>9, <1>10, <1>11, <1>12 DEF SavedBy
<1>15. OwnOK(r)'
  <2>1. CASE q.snap[v].uuid = 0
    <3>1. r.handled \subseteq r.shown BY <1>1, <1>9, OwnFacts DEF OwnOK, StepOK
    <3>2. Connected(r)' BY <1>1, <1>9, <1>13, ConnectedStays DEF Effect
    <3>3. LeftBy(r)' BY <1>9, <2>1 DEF LeftBy
    <3>4. r.pc = "uuid" /\ r.todo = q.todo /\ r.at = q.at BY <1>9, <2>1
    <3>5. r.at[1] = n /\ r.at[2] = v BY <1>2, <3>4
    <3> QED BY <1>1, <1>3, <1>8, <1>9, <1>13, <1>14, <2>1, <3>1, <3>2, <3>3, <3>4, <3>5, OwnContinues
         DEF LoopPcs
  <2>2. CASE q.snap[v].uuid # 0
    BY <1>1, <1>2, <1>3, <1>8, <1>9, <1>13, <1>14, <2>2, PairDoneOwn
  <2> QED BY <2>1, <2>2
<1>16. r.kind = "scan" => p \in Scanners BY <1>1, <1>9, OwnFacts
<1> QED BY <1>8, <1>13, <1>15, <1>16, EffectKeeps

\* The uuid libvirt drew goes to the copy and to the row.
LEMMA ReadUuidCopies ==
  ASSUME SavingInv, SavingInv', CopiesInv, NEW p \in Procs, ReadUuid(p)
  PROVE  CopiesInv'
<1>1. PICK q \in Process : q = proc[p] BY ProcFacts
<1>2. PICK n, v, u : n = q.at[1] /\ v = q.at[2] /\ u = defs[n][v].uuid OBVIOUS
<1>3. q.pc = "uuid" BY <1>1 DEF ReadUuid
<1>4. q.at \in q.todo /\ q.at = <<n, v>> /\ n \in Nodes /\ v \in Vms /\ Holds(p, v)
  BY <1>1, <1>2, <1>3, HeldFacts
<1>5. PICK r : r = PairDone(p, <<n, v>>, WithUuid(p, v, u)) OBVIOUS
<1>6. UNCHANGED <<deleted, clusterOf, up, files, defs, running, spent, promised, undone, overlapped, dirty>>
      /\ Becomes(p, r)
      /\ rows' = IF Live(v) THEN [rows EXCEPT ![v].uuid = u] ELSE rows
  BY <1>1, <1>2, <1>5 DEF ReadUuid, histVars, nodeVars
<1>7. r \in Process BY <1>6, NewProcess
<1>8. /\ r.kind = q.kind /\ r.vm = q.vm /\ r.targets = q.targets /\ r.node = q.node
      /\ r.shown = q.shown /\ r.handled = q.handled /\ r.conn = q.conn
      /\ r.snap = [q.snap EXCEPT ![v].uuid = u]
      /\ r.todo = q.todo \ {q.at}
      /\ r.pc = IF q.todo \ {q.at} # {} THEN "define" ELSE AfterDefine(p)
  BY <1>1, <1>4, <1>5 DEF Process, PairDone, Rest, WithUuid
<1>9. /\ \A w \in Vms : r.snap[w].version = q.snap[w].version /\ r.snap[w].home = q.snap[w].home
      /\ \A w \in Vms : w # v => r.snap[w] = q.snap[w]
      /\ r.snap[v].uuid = u
  <2>1. q.snap \in [Vms -> Row] BY DEF Process
  <2> QED BY <1>4, <1>8, <2>1 DEF Row
<1>10. /\ \A w \in Vms : rows'[w].version = rows[w].version /\ rows'[w].home = rows[w].home
       /\ \A w \in Vms : w # v \/ ~Live(v) => rows'[w] = rows[w]
       /\ Live(v) => rows'[v].uuid = u
  <2>1. rows \in [Vms -> Row] BY DEF SavingInv, TypeOK, DatabaseOK
  <2> QED BY <1>4, <1>6, <2>1 DEF Row
<1>11. Effect(p, r, {})
  <2>1. HeldByOthers(p, {}) = {} BY DEF HeldByOthers
  <2>2. \A w \in Vms : RowEffect(p, w) BY <1>4, <1>10 DEF RowEffect
  <2>3. \A w \in Vms : CopyEffect(p, r, {}, w)
    BY <1>1, <1>3, <1>4, <1>9, <1>10 DEF CopyEffect, Holds
  <2>4. \A w \in Vms, m \in Nodes : NodeEffect(p, m, w) BY <1>6 DEF NodeEffect
  <2> QED BY <1>6, <2>1, <2>2, <2>3, <2>4 DEF Effect
<1>12. spent'["write"] = 0 /\ v \notin overlapped' => SavedBy(r, n, v)'
  <2> SUFFICES ASSUME spent["write"] = 0, v \notin overlapped PROVE SavedBy(r, n, v)' BY <1>6
  <2>1. SavedBy(q, n, v) BY <1>1, <1>2, <1>3, OwnFacts DEF OwnOK, NewestBy
  <2> QED BY <1>4, <1>6, <1>9, <2>1 DEF SavedBy
<1>13. OwnOK(r)'
  <2>1. spent'["write"] = 0 /\ q.at[2] \notin overlapped' => SavedBy(r, q.at[1], q.at[2])'
    BY <1>2, <1>12
  <2>2. q.pc \in {"load", "uuid"} /\ \A w \in Vms : r.snap[w].version = q.snap[w].version
    BY <1>3, <1>9
  <2> QED BY <1>1, <1>7, <1>8, <1>11, <2>1, <2>2, PairDoneOwn
<1>14. r.kind = "scan" => p \in Scanners BY <1>1, <1>8, OwnFacts
<1> QED BY <1>7, <1>11, <1>13, <1>14, EffectKeeps

\* Undefining v on n leaves the other definitions.
LEMMA Undefined ==
  ASSUME SavingInv, NEW n \in Nodes, NEW v \in Vms, defs' = [defs EXCEPT ![n][v] = NoDef]
  PROVE  /\ defs'[n][v].version = 0
         /\ \A m \in Nodes, w \in Vms : <<m, w>> # <<n, v>> => defs'[m][w] = defs[m][w]
<1>1. defs \in [Nodes -> [Vms -> Def]] /\ NoDef.version = 0
  BY DEF SavingInv, TypeOK, NodesOK, NoDef
<1> QED BY <1>1

\* A definition that is undefined is counted as undone.
LEMMA UndefinesEffect ==
  ASSUME SavingInv, NEW p \in Procs, NEW r, Becomes(p, r), NEW n \in Nodes, NEW v \in Vms,
         UNCHANGED <<deleted, clusterOf, dirty, up, files, running, spent, promised, overlapped>>,
         defs' = [defs EXCEPT ![n][v] = NoDef], undone' = undone \cup {<<n, v>>},
         \A w \in Vms : RowEffect(p, w) /\ CopyEffect(p, r, {}, w)
  PROVE  Effect(p, r, {})
<1>2. /\ defs'[n][v].version = 0
      /\ \A m \in Nodes, w \in Vms : <<m, w>> # <<n, v>> => defs'[m][w] = defs[m][w]
  BY Undefined
<1>3. \A w \in Vms, m \in Nodes : NodeEffect(p, m, w) BY <1>2 DEF NodeEffect
<1>4. HeldByOthers(p, {}) = {} BY DEF HeldByOthers
<1> QED BY <1>2, <1>3, <1>4 DEF Effect

\* "virsh undefine" of a removal.
LEMMA UndefineCopies ==
  ASSUME SavingInv, SavingInv', CopiesInv, NEW p \in Procs, Undefine(p)
  PROVE  CopiesInv'
<1>1. PICK q \in Process : q = proc[p] BY ProcFacts
<1>2. PICK t \in q.todo : /\ defs' = [defs EXCEPT ![t[1]][t[2]] = NoDef]
                          /\ undone' = undone \cup {t}
                          /\ Becomes(p, UndefineDone(p, t))
  BY <1>1 DEF Undefine
<1>3. PICK r : r = UndefineDone(p, t) OBVIOUS
<1>4. UNCHANGED <<rows, deleted, clusterOf, dirty, up, files, running, spent, promised, overlapped>>
      /\ q.pc = "undefine"
  BY <1>1, <1>2 DEF Undefine, dbVars
<1>5. /\ t[1] \in Nodes /\ t[2] = q.vm /\ q.vm \in Vms /\ t = <<t[1], t[2]>> /\ q.kind = "remove"
      /\ q.todo \subseteq Nodes \X {q.vm}
  BY <1>1, <1>4, UndefinePair
<1>6. r \in Process BY <1>2, <1>3, NewProcess
<1>7. /\ r.kind = q.kind /\ r.vm = q.vm /\ r.targets = q.targets /\ r.node = q.node
      /\ r.shown = q.shown /\ r.snap = q.snap /\ r.handled = q.handled
      /\ r.todo = q.todo \ {t} /\ r.conn = Conns(p, {t[1]})
      /\ r.pc = IF q.todo \ {t} = {} THEN "delete" ELSE "undefine"
  BY <1>1, <1>3 DEF Process, UndefineDone, Rest
<1>8. \A w \in Vms : RowEffect(p, w) /\ CopyEffect(p, r, {}, w)
  BY <1>1, <1>4, <1>7 DEF RowEffect, CopyEffect, Holds
<1>9. /\ Effect(p, r, {}) /\ defs'[t[1]][t[2]].version = 0
      /\ \A m \in Nodes, w \in Vms : <<m, w>> # t => defs'[m][w] = defs[m][w]
  <2>1. PICK n \in Nodes, v \in Vms : t = <<n, v>> /\ t[1] = n /\ t[2] = v BY <1>5
  <2>2. /\ Effect(p, r, {}) /\ defs'[n][v].version = 0
        /\ \A m \in Nodes, w \in Vms : <<m, w>> # <<n, v>> => defs'[m][w] = defs[m][w]
    <3>1. defs' = [defs EXCEPT ![n][v] = NoDef] /\ undone' = undone \cup {<<n, v>>} /\ Becomes(p, r)
      BY <1>2, <1>3, <2>1
    <3>2. UNCHANGED <<deleted, clusterOf, dirty, up, files, running, spent, promised, overlapped>>
      BY <1>4
    <3>3. Effect(p, r, {}) BY <1>8, <3>1, <3>2, UndefinesEffect
    <3> QED BY <3>1, <3>3, Undefined
  <2> QED BY <2>1, <2>2
<1>10. r.handled \subseteq r.shown BY <1>1, <1>7, OwnFacts DEF OwnOK, StepOK
<1>11. Connected(r)' BY <1>7, <1>9, ConnectedStays DEF Effect
<1>12. \A n \in Nodes : defs'[n][q.vm].version > 0 => defs[n][q.vm].version > 0 /\ <<n, q.vm>> # t
  <2> SUFFICES ASSUME NEW n \in Nodes, defs'[n][q.vm].version > 0
               PROVE  defs[n][q.vm].version > 0 /\ <<n, q.vm>> # t
    OBVIOUS
  <2>1. <<n, q.vm>> # t
    <3>1. CASE <<n, q.vm>> = t
      <4>1. n = t[1] /\ q.vm = t[2] BY <3>1
      <4> QED BY <1>9, <4>1
    <3> QED BY <3>1
  <2> QED BY <1>5, <1>9, <2>1
<1>13. spent["move"] = 0 => LeftBy(r)' BY <1>1, <1>4, <1>7, <1>12, LeftStays
<1>14. OwnOK(r)'
  BY <1>1, <1>4, <1>5, <1>6, <1>7, <1>9, <1>10, <1>11, <1>13, OwnContinues DEF LoopPcs
<1>15. r.kind = "scan" => p \in Scanners BY <1>1, <1>7, OwnFacts
<1> QED BY <1>6, <1>9, <1>14, <1>15, EffectKeeps

\* A scan flushes what it has set: of a machine it holds the state and, if the
\* guest runs there, the node it is at.
LEMMA WrittenEffect ==
  ASSUME SavingInv, CopiesInv, NEW p \in Procs, proc[p].pc = "classify", rows' = Written(p)
  PROVE  /\ \A v \in Vms : RowEffect(p, v)
         /\ \A v \in Vms : ~Holds(p, v) => /\ HeldAfterWrite(p)[v] = proc[p].snap[v]
                                           /\ rows'[v] = rows[v]
         /\ \A v \in Vms :
              /\ HeldAfterWrite(p)[v].version = proc[p].snap[v].version
              /\ Live(v) /\ proc[p].snap[v].uuid = rows[v].uuid /\ proc[p].snap[v].home = rows[v].home
                   => /\ HeldAfterWrite(p)[v].uuid = rows'[v].uuid
                      /\ HeldAfterWrite(p)[v].home = rows'[v].home
<1>1. proc[p] \in Process /\ rows \in [Vms -> Row] BY ProcFacts DEF SavingInv, TypeOK, DatabaseOK
<1>2. proc[p].handled \subseteq proc[p].shown BY OwnFacts DEF OwnOK, StepOK
<1>3. proc[p].kind = "scan" BY ScanProcess
<1> SUFFICES ASSUME NEW v \in Vms
             PROVE  /\ RowEffect(p, v)
                    /\ ~Holds(p, v) => HeldAfterWrite(p)[v] = proc[p].snap[v] /\ rows'[v] = rows[v]
                    /\ HeldAfterWrite(p)[v].version = proc[p].snap[v].version
                    /\ Live(v) /\ proc[p].snap[v].uuid = rows[v].uuid
                         /\ proc[p].snap[v].home = rows[v].home
                       => /\ HeldAfterWrite(p)[v].uuid = rows'[v].uuid
                          /\ HeldAfterWrite(p)[v].home = rows'[v].home
  OBVIOUS
<1>4. PICK old \in Row, row \in Row : old = proc[p].snap[v] /\ row = rows[v] BY <1>1 DEF Process
<1>5. PICK new : new = Seen(p, v) OBVIOUS
<1>6. /\ new.version = old.version /\ new.uuid = old.uuid
      /\ new.home = old.home \/ new.home = proc[p].node
  BY <1>4, <1>5 DEF Seen, Row
<1>7. CASE v \in proc[p].handled /\ Holds(p, v) /\ Live(v)
  <2>1. PICK st, ho : st = Changed(old.state, new.state, row.state) /\ ho = Changed(old.home, new.home, row.home)
    OBVIOUS
  <2>2. rows'[v] = [row EXCEPT !.state = st, !.home = ho]
    BY <1>4, <1>5, <1>7, <2>1 DEF Written
  <2>3. rows'[v].version = row.version /\ rows'[v].uuid = row.uuid /\ rows'[v].home = ho
    BY <2>2 DEF Row
  <2>4. HeldAfterWrite(p)[v] = new BY <1>5, <1>7 DEF HeldAfterWrite
  <2>5. ho = row.home \/ (ho = new.home /\ new.home # old.home) BY <2>1 DEF Changed
  <2>6. old.home = row.home => ho = new.home BY <2>1 DEF Changed
  <2>7. RowEffect(p, v) BY <1>2, <1>3, <1>4, <1>6, <1>7, <2>3, <2>5 DEF RowEffect
  <2> QED BY <1>4, <1>6, <1>7, <2>3, <2>4, <2>6, <2>7
<1>8. CASE ~(v \in proc[p].handled /\ Holds(p, v) /\ Live(v))
  <2>1. rows'[v] = rows[v] BY <1>8 DEF Written
  <2>2. HeldAfterWrite(p)[v] = IF v \in proc[p].handled /\ Holds(p, v) THEN new ELSE old
    BY <1>4, <1>5 DEF HeldAfterWrite
  <2>3. RowEffect(p, v) BY <2>1 DEF RowEffect
  <2> QED BY <1>4, <1>6, <1>8, <2>1, <2>2, <2>3
<1> QED BY <1>7, <1>8

\* A scan undefines a machine of another cluster, or one that has no row.
LEMMA ScanUndefinesCopies ==
  ASSUME SavingInv, SavingInv', CopiesInv, NEW p \in Procs, ScanForeign(p) \/ ScanOrphan(p)
  PROVE  CopiesInv'
<1>1. PICK q \in Process : q = proc[p] BY ProcFacts
<1>2. q.pc = "classify" BY <1>1 DEF ScanForeign, ScanOrphan
<1>3. UNCHANGED <<deleted, clusterOf, dirty, up, files, running, spent, promised, overlapped>>
  BY DEF ScanForeign, ScanOrphan, dbVars
<1>4. PICK v, r :
        /\ v \in q.shown
        /\ defs' = [defs EXCEPT ![q.node][v] = NoDef]
        /\ undone' = undone \cup {<<q.node, v>>}
        /\ Becomes(p, r)
        /\ \/ r = [q EXCEPT !.handled = @ \cup {v}, !.snap = HeldAfterWrite(p)] /\ rows' = Written(p)
           \/ r = [q EXCEPT !.handled = @ \cup {v}] /\ rows' = rows
  <2>1. CASE ScanForeign(p)
    <3>1. PICK v \in Unhandled(p) :
            /\ defs' = [defs EXCEPT ![q.node][v] = NoDef]
            /\ undone' = undone \cup {<<q.node, v>>}
            /\ Becomes(p, [q EXCEPT !.handled = @ \cup {v}, !.snap = HeldAfterWrite(p)])
      BY <1>1, <2>1 DEF ScanForeign
    <3>2. v \in q.shown /\ rows' = Written(p) BY <1>1, <2>1 DEF ScanForeign, Unhandled
    <3>3. PICK r : r = [q EXCEPT !.handled = @ \cup {v}, !.snap = HeldAfterWrite(p)] OBVIOUS
    <3>4. Becomes(p, r) BY <3>1, <3>3
    <3> QED BY <3>1, <3>2, <3>3, <3>4
  <2>2. CASE ScanOrphan(p)
    <3>1. PICK v \in Unhandled(p) :
            /\ defs' = [defs EXCEPT ![q.node][v] = NoDef]
            /\ undone' = undone \cup {<<q.node, v>>}
            /\ Becomes(p, [q EXCEPT !.handled = @ \cup {v}])
      BY <1>1, <2>2 DEF ScanOrphan
    <3>2. v \in q.shown /\ rows' = rows BY <1>1, <2>2 DEF ScanOrphan, Unhandled, dbVars
    <3>3. PICK r : r = [q EXCEPT !.handled = @ \cup {v}] OBVIOUS
    <3>4. Becomes(p, r) BY <3>1, <3>3
    <3> QED BY <3>1, <3>2, <3>3, <3>4
  <2> QED BY <2>1, <2>2
<1>5. q.kind = "scan" /\ q.node \in Nodes /\ v \in Vms
  BY <1>1, <1>2, <1>4, ScanProcess DEF Process
<1>6. r \in Process BY <1>4, NewProcess
<1>7. /\ r.kind = q.kind /\ r.vm = q.vm /\ r.targets = q.targets /\ r.node = q.node
      /\ r.shown = q.shown /\ r.handled = q.handled \cup {v}
      /\ r.todo = q.todo /\ r.conn = q.conn /\ r.pc = "classify"
      /\ (r.snap = q.snap /\ rows' = rows) \/ (r.snap = HeldAfterWrite(p) /\ rows' = Written(p))
  BY <1>2, <1>4 DEF Process
<1>8. \A w \in Vms : /\ RowEffect(p, w) /\ CopyEffect(p, r, {}, w)
                     /\ r.snap[w].version = q.snap[w].version
  <2>1. CASE r.snap = q.snap /\ rows' = rows
    BY <1>1, <1>2, <2>1 DEF RowEffect, CopyEffect, Holds
  <2>2. CASE r.snap = HeldAfterWrite(p) /\ rows' = Written(p)
    BY <1>1, <1>2, <2>2, WrittenEffect DEF CopyEffect, Holds
  <2> QED BY <1>7, <2>1, <2>2
<1>9. Effect(p, r, {}) BY <1>3, <1>4, <1>5, <1>8, UndefinesEffect
<1>10. r.handled \subseteq r.shown BY <1>1, <1>4, <1>7, OwnFacts DEF OwnOK, StepOK
<1>11. Connected(r)' BY <1>1, <1>7, <1>9, ConnectedStays DEF Effect
<1>12. LeftBy(r)' BY <1>7 DEF LeftBy
<1>13. OwnOK(r)'
  BY <1>1, <1>2, <1>5, <1>6, <1>7, <1>8, <1>9, <1>10, <1>11, <1>12, OwnContinues DEF LoopPcs
<1>14. r.kind = "scan" => p \in Scanners BY <1>1, <1>7, OwnFacts
<1> QED BY <1>6, <1>9, <1>13, <1>14, EffectKeeps

\* The nodes of a machine are of its cluster.
LEMMA TargetsCluster ==
  ASSUME NEW v \in Vms, NEW n \in Targets(v)
  PROVE  clusterOf[n] = clusterOf[rows[v].home]
BY DEF Targets, Members

\* A scan lists what its node defines or runs: machines that exist, or did.
LEMMA ScanListCopies ==
  ASSUME SavingInv, SavingInv', CopiesInv, NEW p \in Scanners, NEW n \in ScanNodes, ScanList(p, n)
  PROVE  CopiesInv'
<1>1. p \in Procs /\ n \in Nodes BY DEF Procs
<1>2. UNCHANGED <<rows, deleted, clusterOf, up, files, defs, running, spent, promised, undone, overlapped>>
      /\ dirty \subseteq dirty' /\ proc[p].pc = "idle"
  BY DEF ScanList, histVars, nodeVars
<1>3. CASE n \notin up BY <1>1, <1>2, <1>3, EndsEarly DEF ScanList
<1>4. CASE n \in up
  <2>1. PICK r : r = NewScan(n) OBVIOUS
  <2>2. Becomes(p, r) BY <1>4, <2>1 DEF ScanList
  <2>3. r \in Process BY <1>1, <2>2, NewProcess
  <2>4. /\ r.pc = "query" /\ r.kind = "scan" /\ r.node = n /\ r.handled = {} /\ r.todo = {}
        /\ r.snap = [v \in Vms |-> NullRow]
        /\ \A m \in Nodes : r.conn[m] # "dead"
        /\ r.shown = {v \in Vms : defs[n][v].version > 0 \/ running[v] = n}
    BY <2>1 DEF NewScan, Idle
  <2>5. Effect(p, r, {}) BY <1>1, <1>2, <2>2, <2>4, NullRowFacts, QuietEffect
  <2>6. \A v \in r.shown : /\ Live(v) \/ v \in deleted
                           /\ spent["move"] = 0 /\ Live(v) => n \in Targets(v)
    <3> SUFFICES ASSUME NEW v \in r.shown
                 PROVE  /\ Live(v) \/ v \in deleted
                        /\ spent["move"] = 0 /\ Live(v) => n \in Targets(v)
      OBVIOUS
    <3>1. v \in Vms /\ (defs[n][v].version > 0 \/ running[v] = n) BY <2>4
    <3>2. VmOK(v) /\ (spent["move"] = 0 /\ Live(v) => PlacedVm(v)) BY <3>1 DEF CopiesInv
    <3>3. NoNode # n BY <1>1
    <3> QED BY <1>1, <3>1, <3>2, <3>3 DEF VmOK, PlacedVm
  <2>7. StepOK(r)' BY <1>2, <2>4, <2>6 DEF StepOK, Live
  <2>8. Connected(r)' /\ NewestBy(r)' /\ LeftBy(r)' /\ \A v \in Vms : Foreign(r, v)'
    BY <2>4 DEF Connected, NewestBy, LeftBy, Foreign
  <2>9. ASSUME spent'["move"] = 0, NEW v \in Vms, Live(v)' PROVE PlacedBy(r, v)'
    <3>1. Live(v) /\ spent["move"] = 0 /\ Targets(v)' = Targets(v)
      BY <1>2, <2>9 DEF Live, Targets, IsHa, Members
    <3> QED BY <2>4, <2>6, <3>1 DEF PlacedBy
  <2>10. OwnOK(r)' BY <2>7, <2>8, <2>9 DEF OwnOK
  <2> QED BY <1>1, <2>3, <2>5, <2>10, EffectKeeps
<1> QED BY <1>3, <1>4

\* A job loads its machine.
LEMMA NewJobCopies ==
  ASSUME SavingInv, SavingInv', CopiesInv, NEW p \in Workers, NEW k \in JobKinds, NEW v \in Vms,
         StartJob(p, k, v), Live(v) /\ (k = "disk" => rows[v].disk # NoNode)
  PROVE  CopiesInv'
<1>1. p \in Procs BY DEF Procs
<1>2. UNCHANGED <<rows, deleted, clusterOf, up, files, defs, running, spent, promised, undone, dirty>>
  BY DEF StartJob, nodeVars
<1>3. PICK r : r = NewJob(k, v) OBVIOUS
<1>4. Becomes(p, r) /\ overlapped' = overlapped \cup HeldByOthers(p, {v}) BY <1>3 DEF StartJob
<1>5. r \in Process BY <1>1, <1>4, NewProcess
<1>6. /\ r.pc = FirstPc(k, v) /\ r.kind = k /\ r.vm = v /\ r.handled = {} /\ r.shown = {}
      /\ r.conn = [n \in Nodes |-> "none"] /\ r.targets = Targets(v) /\ r.todo = Targets(v) \X {v}
      /\ r.snap = [w \in Vms |-> IF w = v THEN rows[v] ELSE NullRow]
  BY <1>3 DEF NewJob, Idle
<1>7. r.pc \in {"create", "disk", "define", "check"} /\ r.kind # "scan"
      /\ (k \in {"persist", "disk"} => r.pc \in {"create", "define"})
  BY <1>6 DEF FirstPc, JobKinds
<1>8. Effect(p, r, {v})
  <2>1. \A w \in Vms : RowEffect(p, w) BY <1>2 DEF RowEffect
  <2>2. \A w \in Vms : CopyEffect(p, r, {v}, w) BY <1>2, <1>6, NullRowFacts DEF CopyEffect
  <2>3. \A w \in Vms, n \in Nodes : NodeEffect(p, n, w) BY <1>2 DEF NodeEffect
  <2> QED BY <1>2, <1>4, <2>1, <2>2, <2>3 DEF Effect
<1>9. Targets(v)' = Targets(v) BY <1>2 DEF Targets, IsHa, Members
<1>10. StepOK(r)' BY <1>6, <1>7 DEF StepOK
<1>11. Connected(r)' /\ LeftBy(r)' /\ \A w \in Vms : Foreign(r, w)'
  BY <1>6, <1>7 DEF Connected, LeftBy, Foreign
<1>12. NewestBy(r)'
  <2>1. \A n \in r.targets : <<n, r.vm>> \in r.todo BY <1>6
  <2> QED BY <1>6, <1>7, <2>1 DEF NewestBy
<1>13. \A w \in Vms : PlacedBy(r, w)' BY <1>6, <1>7, <1>9 DEF PlacedBy
<1>14. OwnOK(r)' BY <1>10, <1>11, <1>12, <1>13 DEF OwnOK
<1> QED BY <1>1, <1>5, <1>7, <1>8, <1>14, EffectKeeps

\* The query of a scan loads the machines of the cluster; every other machine
\* it was shown is of another cluster.
LEMMA ScanQueryCopies ==
  ASSUME SavingInv, SavingInv', CopiesInv, NEW p \in Procs, ScanQuery(p)
  PROVE  CopiesInv'
<1>1. PICK q \in Process : q = proc[p] BY ProcFacts
<1>2. PICK known : known = ClusterVms(q.node) OBVIOUS
<1>3. PICK r : r = [q EXCEPT !.pc = "classify",
                             !.snap = [v \in Vms |-> IF v \in known THEN rows[v] ELSE NullRow]]
  OBVIOUS
<1>4. /\ UNCHANGED <<rows, deleted, clusterOf, up, files, defs, running, spent, promised, undone, dirty>>
      /\ q.pc = "query" /\ overlapped' = overlapped \cup HeldByOthers(p, known)
      /\ Becomes(p, r)
  BY <1>1, <1>2, <1>3 DEF ScanQuery, nodeVars, dbVars
<1>5. known \subseteq Vms /\ \A v \in known : Live(v) BY <1>2 DEF ClusterVms
<1>6. r \in Process BY <1>4, NewProcess
<1>7. q.kind = "scan" /\ q.node \in Nodes BY <1>1, <1>4, ScanProcess
<1>8. /\ r.kind = q.kind /\ r.vm = q.vm /\ r.targets = q.targets /\ r.node = q.node
      /\ r.shown = q.shown /\ r.handled = q.handled /\ r.conn = q.conn /\ r.pc = "classify"
      /\ r.snap = [v \in Vms |-> IF v \in known THEN rows[v] ELSE NullRow]
  BY <1>3 DEF Process
<1>9. Effect(p, r, known)
  <2>1. \A v \in Vms : RowEffect(p, v) BY <1>4 DEF RowEffect
  <2>2. \A v \in Vms : CopyEffect(p, r, known, v) BY <1>4, <1>5, <1>8, NullRowFacts DEF CopyEffect
  <2>3. \A v \in Vms, n \in Nodes : NodeEffect(p, n, v) BY <1>4 DEF NodeEffect
  <2> QED BY <1>4, <2>1, <2>2, <2>3 DEF Effect
<1>10. OwnOK(q) /\ q.shown \subseteq Vms BY <1>1, OwnFacts DEF Process
<1>11. \A v \in Vms : Live(v)' = Live(v) /\ Targets(v)' = Targets(v)
  BY <1>4 DEF Live, Targets, IsHa, Members
<1>12. StepOK(r)' BY <1>4, <1>8, <1>10, <1>11 DEF OwnOK, StepOK
<1>13. Connected(r)' BY <1>1, <1>4, <1>8, ConnectedStays
<1>14. NewestBy(r)' /\ LeftBy(r)' BY <1>7, <1>8 DEF NewestBy, LeftBy
<1>15. ASSUME spent'["move"] = 0, NEW v \in Vms, Live(v)' PROVE PlacedBy(r, v)'
  <2>1. PlacedBy(q, v) BY <1>4, <1>10, <1>11, <1>15 DEF OwnOK
  <2> QED BY <1>7, <1>8, <1>11, <2>1 DEF PlacedBy
<1>16. ASSUME NEW v \in Vms PROVE Foreign(r, v)'
  <2> SUFFICES ASSUME v \in r.shown, Live(v), r.snap[v].version = 0
               PROVE  spent["move"] > 0 /\ clusterOf[rows[v].home] # clusterOf[r.node]
    BY <1>4, <1>11 DEF Foreign
  <2>1. v \notin known BY <1>5, <1>8 DEF Live
  <2>2. clusterOf[rows[v].home] # clusterOf[q.node] BY <1>2, <2>1 DEF ClusterVms
  <2>3. ASSUME spent["move"] = 0 PROVE FALSE
    <3>1. q.node \in Targets(v) BY <1>8, <1>10, <2>3 DEF OwnOK, PlacedBy
    <3> QED BY <2>2, <3>1, TargetsCluster
  <2>4. spent["move"] \in Nat BY DEF SavingInv, TypeOK, HistoryOK, BudgetNames
  <2> QED BY <1>8, <2>2, <2>3, <2>4
<1>17. OwnOK(r)'
  <2> SUFFICES /\ StepOK(r)' /\ Connected(r)' /\ NewestBy(r)' /\ LeftBy(r)'
               /\ spent'["move"] = 0 => \A v \in Vms : Live(v)' => PlacedBy(r, v)'
               /\ \A v \in Vms : Foreign(r, v)'
    BY DEF OwnOK
  <2> QED BY <1>12, <1>13, <1>14, <1>15, <1>16
<1>18. r.kind = "scan" => p \in Scanners BY <1>1, <1>8, OwnFacts
<1> QED BY <1>5, <1>6, <1>9, <1>17, <1>18, EffectKeeps

\* The flush of a scan, and the list of machines it then defines on its node.
LEMMA ScanFlushCopies ==
  ASSUME SavingInv, SavingInv', CopiesInv, NEW p \in Procs, ScanFlush(p)
  PROVE  CopiesInv'
<1>1. PICK q \in Process : q = proc[p] BY ProcFacts
<1>2. PICK missing : missing = {v \in Vms : /\ rows'[v].version > 0
                                            /\ clusterOf[rows'[v].home] = clusterOf[q.node]
                                            /\ v \notin q.shown}
  OBVIOUS
<1>3. PICK todo : todo = IF clusterOf[q.node] \in HaClusters THEN {q.node} \X missing ELSE {} OBVIOUS
<1>4. PICK fresh : fresh = {v \in missing : <<q.node, v>> \in todo /\ ~Holds(p, v)} OBVIOUS
<1>5. PICK r : r = [q EXCEPT !.todo = todo,
                       !.pc = IF todo = {} THEN "exit" ELSE "define",
                       !.snap = [v \in Vms |-> IF v \in fresh THEN rows[v]
                                              ELSE HeldAfterWrite(p)[v]]]
  OBVIOUS
<1>6. /\ UNCHANGED <<deleted, clusterOf, up, files, defs, running, spent, promised, undone, dirty>>
      /\ q.pc = "classify" /\ rows' = Written(p)
      /\ overlapped' = overlapped \cup HeldByOthers(p, fresh)
      /\ Becomes(p, r)
  BY <1>1, <1>2, <1>3, <1>4, <1>5 DEF ScanFlush, nodeVars
<1>7. q.kind = "scan" /\ q.node \in Nodes BY <1>1, <1>6, ScanProcess
<1>8. r \in Process BY <1>6, NewProcess
<1>9. /\ r.kind = q.kind /\ r.vm = q.vm /\ r.targets = q.targets /\ r.node = q.node
      /\ r.shown = q.shown /\ r.handled = q.handled /\ r.conn = q.conn /\ r.todo = todo
      /\ r.pc \in {"exit", "define"}
      /\ r.snap = [v \in Vms |-> IF v \in fresh THEN rows[v] ELSE HeldAfterWrite(p)[v]]
  BY <1>5 DEF Process
<1>10. fresh \subseteq Vms /\ \A v \in fresh : rows'[v].version > 0 /\ ~Holds(p, v) BY <1>2, <1>4
<1>11. \A v \in Vms : RowEffect(p, v) /\ CopyEffect(p, r, fresh, v)
  <2> SUFFICES ASSUME NEW v \in Vms PROVE RowEffect(p, v) /\ CopyEffect(p, r, fresh, v) OBVIOUS
  <2>1. RowEffect(p, v) BY <1>1, <1>6, WrittenEffect
  <2>2. CASE v \in fresh
    <3>1. rows'[v] = rows[v] BY <1>1, <1>6, <1>10, <2>2, WrittenEffect
    <3>2. Live(v) BY <1>10, <2>2, <3>1 DEF Live
    <3>3. r.snap[v] = rows[v] BY <1>9, <2>2
    <3> QED BY <2>1, <2>2, <3>1, <3>2, <3>3 DEF CopyEffect
  <2>3. CASE v \notin fresh
    <3>1. r.snap[v] = HeldAfterWrite(p)[v] BY <1>9, <2>3
    <3> QED BY <1>1, <1>6, <2>1, <3>1, WrittenEffect DEF CopyEffect, Holds
  <2> QED BY <2>2, <2>3
<1>12. Effect(p, r, fresh)
  <2>1. \A v \in Vms, n \in Nodes : NodeEffect(p, n, v) BY <1>6 DEF NodeEffect
  <2> QED BY <1>6, <1>11, <2>1 DEF Effect
<1>13. \A t \in r.todo : t[1] \in Targets(t[2])'
  <2> SUFFICES ASSUME NEW t \in r.todo PROVE t[1] \in Targets(t[2])' OBVIOUS
  <2>1. clusterOf[q.node] \in HaClusters /\ t[1] = q.node /\ t[2] \in missing
    BY <1>3, <1>9
  <2>2. clusterOf'[rows'[t[2]].home] = clusterOf'[q.node] BY <1>2, <1>6, <2>1
  <2> QED BY <1>6, <1>7, <2>1, <2>2 DEF Targets, IsHa, Members
<1>14. r.handled \subseteq r.shown BY <1>1, <1>9, OwnFacts DEF OwnOK, StepOK
<1>15. Connected(r)' BY <1>1, <1>6, <1>9, ConnectedStays
<1>16. LeftBy(r)' BY <1>9 DEF LeftBy
<1>17. OwnOK(r)'
  BY <1>1, <1>6, <1>7, <1>8, <1>9, <1>10, <1>12, <1>13, <1>14, <1>15, <1>16, OwnContinues
<1>18. r.kind = "scan" => p \in Scanners BY <1>1, <1>9, OwnFacts
<1> QED BY <1>8, <1>10, <1>12, <1>17, <1>18, EffectKeeps

-----------------------------------------------------------------------------
(* Steps that leave a process as it is.                                    *)

\* What is true of a process stays true while rows are created, edited or
\* deleted and nodes change cluster.
LEMMA OwnStays ==
  ASSUME SavingInv, SavingInv', CopiesInv, NEW q \in Procs, NEW s, s = proc[q],
         UNCHANGED <<files, defs, undone, overlapped>>,
         dirty \subseteq dirty', deleted \subseteq deleted',
         spent'["outage"] = 0 => spent["outage"] = 0, spent'["write"] = spent["write"],
         \/ spent'["move"] = spent["move"] /\ clusterOf' = clusterOf
         \/ spent'["move"] = spent["move"] + 1,
         \A v \in Vms : \/ Live(v) /\ Live(v)' /\ rows'[v].home = rows[v].home
                        \/ rows'[v] = rows[v]
                        \/ ~Live(v) /\ v \notin deleted
                        \/ ~Live(v)' /\ v \in deleted'
  PROVE  OwnOK(s)'
<1>1. OwnOK(s) /\ s \in Process BY OwnFacts, ProcFacts
<1>2. spent["move"] \in Nat BY DEF SavingInv, TypeOK, HistoryOK, BudgetNames
<1>3. \A v \in s.shown : v \in Vms /\ (Live(v) \/ v \in deleted)
  BY <1>1 DEF OwnOK, StepOK, Process
<1>4. \A v \in Vms : Holds(q, v) => Live(v) \/ v \in deleted BY OwnFacts DEF CopyOK
<1>5. \A v \in Vms : rows'[v] = rows[v] => (Live(v)' <=> Live(v)) BY DEF Live
<1>6. StepOK(s)'
  <2>1. /\ s.pc = "uuid" => s.snap[s.at[2]].uuid = 0
        /\ s.pc = "undefine" => s.todo \subseteq Nodes \X {s.vm}
        /\ s.handled \subseteq s.shown
    BY <1>1 DEF OwnOK, StepOK
  <2>2. \A v \in s.shown : Live(v)' \/ v \in deleted' BY <1>3, <1>5
  <2> QED BY <2>1, <2>2 DEF StepOK
<1>7. Connected(s)' BY <1>1 DEF OwnOK, Connected
<1>8. spent'["write"] = 0 => NewestBy(s)'
  <2> SUFFICES ASSUME spent["write"] = 0 PROVE NewestBy(s)' OBVIOUS
  <2>1. NewestBy(s) BY <1>1 DEF OwnOK
  <2>2. \A n, v : SavedBy(s, n, v) => SavedBy(s, n, v)' BY DEF SavedBy
  <2> QED BY <2>1, <2>2 DEF NewestBy
<1>9. ASSUME spent'["move"] = 0 PROVE spent["move"] = 0 /\ clusterOf' = clusterOf
  BY <1>2, <1>9
<1>10. spent'["move"] = 0 => LeftBy(s)' BY <1>1, <1>9 DEF OwnOK, LeftBy
<1>11. ASSUME spent'["move"] = 0, NEW v \in Vms, Live(v)' PROVE PlacedBy(s, v)'
  <2>1. CASE Live(v)
    <3>1. PlacedBy(s, v) BY <1>1, <1>9, <1>11, <2>1 DEF OwnOK
    <3>2. rows'[v].home = rows[v].home BY <1>11, <2>1
    <3>3. Targets(v)' = Targets(v) BY <1>9, <1>11, <3>2 DEF Targets, IsHa, Members
    <3> QED BY <3>1, <3>3 DEF PlacedBy
  <2>2. CASE ~Live(v)
    <3>1. v \notin deleted BY <1>5, <1>11, <2>2 DEF CopiesInv, VmOK, SavingInv
    <3>2. ~Holds(q, v) /\ v \notin s.shown BY <1>3, <1>4, <2>2, <3>1
    <3>3. s.pc \in {"create", "disk", "define", "load", "uuid"} => \A t \in s.todo : t[2] # v
      BY <3>2, HeldFacts
    <3>4. s.kind # "scan" /\ s.pc # "idle" => s.vm # v BY <3>2, HeldFacts
    <3> QED BY <3>2, <3>3, <3>4 DEF PlacedBy
  <2> QED BY <2>1, <2>2
<1>12. ASSUME NEW v \in Vms PROVE Foreign(s, v)'
  <2> SUFFICES ASSUME s.pc = "classify", v \in s.shown, Live(v)', s.snap[v].version = 0
               PROVE  /\ spent'["move"] > 0
                      /\ OneScanner /\ spent'["move"] = 1 =>
                           clusterOf'[rows'[v].home] # clusterOf'[s.node]
    BY DEF Foreign
  <2>1. Live(v) \/ v \in deleted BY <1>3
  <2>2. CASE Live(v)
    <3>1. /\ spent["move"] > 0
          /\ OneScanner /\ spent["move"] = 1 => clusterOf[rows[v].home] # clusterOf[s.node]
      BY <1>1, <2>2 DEF OwnOK, Foreign
    <3>2. rows'[v].home = rows[v].home BY <2>2
    <3> QED BY <1>2, <3>1, <3>2
  <2>3. CASE ~Live(v) BY <1>5, <2>1, <2>3
  <2> QED BY <2>2, <2>3
<1> SUFFICES /\ StepOK(s)' /\ Connected(s)'
             /\ spent'["write"] = 0 => NewestBy(s)'
             /\ spent'["move"] = 0 => LeftBy(s)' /\ \A v \in Vms : Live(v)' => PlacedBy(s, v)'
             /\ \A v \in Vms : Foreign(s, v)'
  BY DEF OwnOK
<1> QED BY <1>6, <1>7, <1>8, <1>10, <1>11, <1>12

\* A step of no process keeps the invariant when it creates or edits rows,
\* moves nodes, or starts and stops guests on the nodes of their machine.
LEMMA OtherCopies ==
  ASSUME SavingInv, SavingInv', CopiesInv,
         UNCHANGED <<proc, deleted, files, defs, undone, promised>>,
         overlapped' = overlapped, dirty \subseteq dirty',
         spent'["outage"] = 0 => spent["outage"] = 0 /\ up' = Nodes,
         spent'["write"] = spent["write"],
         \/ spent'["move"] = spent["move"] /\ clusterOf' = clusterOf
         \/ spent'["move"] = spent["move"] + 1,
         \A v \in Vms : \/ /\ Live(v) /\ rows'[v].version >= rows[v].version
                           /\ rows'[v].uuid = rows[v].uuid /\ rows'[v].home = rows[v].home
                        \/ rows'[v] = rows[v]
                        \/ ~Live(v) /\ v \notin deleted /\ Live(v)',
         \A v \in Vms : \/ running'[v] = running[v]
                        \/ running'[v] = NoNode
                        \/ /\ Live(v) \/ v \in deleted
                           /\ Live(v) /\ spent["move"] = 0 => running'[v] \in Targets(v)
  PROVE  CopiesInv'
<1>1. rows \in [Vms -> Row] /\ rows' \in [Vms -> Row] /\ spent["move"] \in Nat
  BY DEF SavingInv, TypeOK, DatabaseOK, HistoryOK, BudgetNames
<1>2. \A v \in Vms : rows[v].version \in Nat /\ rows'[v].version \in Nat BY <1>1 DEF Row
<1>3. \A v \in Vms : \/ Live(v) /\ Live(v)' /\ rows'[v].home = rows[v].home
                                /\ rows'[v].uuid = rows[v].uuid
                                /\ rows'[v].version >= rows[v].version
                     \/ ~Live(v) /\ ~Live(v)' /\ rows'[v] = rows[v]
                     \/ ~Live(v) /\ v \notin deleted /\ Live(v)'
  BY <1>2 DEF Live
<1>4. ASSUME NEW q \in Procs PROVE OwnOK(proc[q])'
  <2>1. PICK s : s = proc[q] OBVIOUS
  <2>2. OwnOK(s)' BY <1>3, <2>1, OwnStays
  <2>3. proc'[q] = s BY <2>1
  <2> QED BY <2>2, <2>3 DEF OwnOK, StepOK, Connected, NewestBy, SavedBy, LeftBy, PlacedBy, Foreign
<1>5. Alone' BY DEF CopiesInv, Alone, Holds
<1>6. \A v \in Vms : VmOK(v)'
  <2> SUFFICES ASSUME NEW v \in Vms PROVE VmOK(v)' OBVIOUS
  <2>1. VmOK(v) BY DEF CopiesInv
  <2>2. \A n \in Nodes : promised[n][v] \in Nat BY DEF SavingInv, TypeOK, HistoryOK
  <2>3. ~Live(v)' /\ v \notin deleted' => running'[v] = NoNode BY <1>3, <2>1 DEF VmOK
  <2>4. Live(v)' => \A n \in Nodes : promised'[n][v] <= rows'[v].version
    BY <1>2, <1>3, <2>1, <2>2 DEF VmOK
  <2> QED BY <1>3, <2>1, <2>3, <2>4 DEF VmOK
<1>7. ASSUME NEW q \in Procs, NEW v \in Vms, Holds(q, v)' PROVE CopyOK(proc[q], v)'
  <2>1. CopyOK(proc[q], v) BY <1>7, OwnFacts DEF Holds
  <2>2. Live(v) \/ v \in deleted BY <2>1 DEF CopyOK
  <2>3. proc[q].snap[v].version \in Nat BY ProcFacts DEF Process, Row
  <2> QED BY <1>2, <1>3, <2>1, <2>2, <2>3 DEF CopyOK
<1>8. spent'["outage"] = 0 => up' = Nodes OBVIOUS
<1>9. ASSUME spent'["move"] = 0, NEW v \in Vms, Live(v)' PROVE PlacedVm(v)'
  <2>1. spent["move"] = 0 /\ clusterOf' = clusterOf BY <1>1, <1>9
  <2>2. CASE Live(v)
    <3>1. PlacedVm(v) BY <2>1, <2>2 DEF CopiesInv
    <3>2. Targets(v)' = Targets(v) BY <1>3, <2>1, <2>2 DEF Targets, IsHa, Members
    <3> QED BY <2>1, <2>2, <3>1, <3>2 DEF PlacedVm
  <2>3. CASE ~Live(v)
    <3>1. v \notin deleted /\ VmOK(v) BY <1>3, <1>9, <2>3 DEF CopiesInv
    <3>2. running'[v] = NoNode /\ \A n \in Nodes : defs'[n][v].version = 0
      BY <2>3, <3>1 DEF VmOK
    <3> QED BY <3>2 DEF PlacedVm
  <2> QED BY <2>2, <2>3
<1>10. NewestSaved' BY DEF CopiesInv, NewestSaved
<1>11. RemovedEverywhere'
  <2>1. spent'["move"] > 0 \/ spent'["move"] = spent["move"] BY <1>1
  <2> QED BY <2>1 DEF CopiesInv, RemovedEverywhere
<1>12. \A q \in Procs : proc'[q].kind = "scan" => q \in Scanners BY DEF CopiesInv
<1> QED BY <1>4, <1>5, <1>6, <1>7, <1>8, <1>9, <1>10, <1>11, <1>12 DEF CopiesInv

\* The web process creates and edits rows, and asks for removals.
LEMMA WebCopies ==
  ASSUME SavingInv, SavingInv', CopiesInv, WebStep
  PROVE  CopiesInv'
<1>1. UNCHANGED <<proc, deleted, files, defs, undone, promised, overlapped, clusterOf, dirty, up, running>>
  BY DEF WebStep, CreateVm, EditVm, RequestRemove, AddDisk, nodeVars, histVars
<1>2. spent'["outage"] = spent["outage"] /\ spent'["write"] = spent["write"]
      /\ spent'["move"] = spent["move"]
  BY DEF WebStep, CreateVm, EditVm, RequestRemove, AddDisk, Spend, histVars,
         SavingInv, TypeOK, HistoryOK, BudgetNames
<1>3. \A v \in Vms : \/ /\ Live(v) /\ rows'[v].version >= rows[v].version
                        /\ rows'[v].uuid = rows[v].uuid /\ rows'[v].home = rows[v].home
                     \/ rows'[v] = rows[v]
                     \/ ~Live(v) /\ v \notin deleted /\ Live(v)'
  <2>1. rows \in [Vms -> Row] /\ \A v \in Vms : rows[v].version \in Nat
    BY DEF SavingInv, TypeOK, DatabaseOK, Row
  <2>2. PICK v \in Vms : \/ \E n \in Nodes : CreateVm(v, n)
                         \/ EditVm(v) \/ RequestRemove(v) \/ AddDisk(v)
    BY DEF WebStep
  <2>3. CASE RequestRemove(v) BY <2>3 DEF RequestRemove
  <2>4. CASE EditVm(v) BY <2>1, <2>4 DEF EditVm, Row
  <2>5. CASE AddDisk(v) BY <2>1, <2>5 DEF AddDisk, Row
  <2>6. CASE \E n \in Nodes : CreateVm(v, n)
    <3>1. PICK row : rows' = [rows EXCEPT ![v] = row] /\ row.version = 1
      <4>1. PICK n \in Nodes : CreateVm(v, n) BY <2>6
      <4>2. [NullRow EXCEPT !.home = n, !.default = n, !.version = 1].version = 1
        BY NullRowFacts DEF Row
      <4> QED BY <4>1, <4>2 DEF CreateVm
    <3>2. ~Live(v) /\ v \notin deleted BY <2>6 DEF CreateVm
    <3> QED BY <2>1, <3>1, <3>2 DEF Live
  <2> QED BY <2>2, <2>3, <2>4, <2>5, <2>6
<1> QED BY <1>1, <1>2, <1>3, OtherCopies DEF CopiesInv

\* A node changes cluster.
LEMMA MoveNodeCopies ==
  ASSUME SavingInv, SavingInv', CopiesInv, NEW n \in Nodes, NEW c \in Clusters, MoveNode(n, c)
  PROVE  CopiesInv'
<1>1. UNCHANGED <<rows, proc, deleted, files, defs, undone, promised, overlapped, up, running>>
      /\ dirty \subseteq dirty'
  BY DEF MoveNode, nodeVars
<1>2. spent'["outage"] = spent["outage"] /\ spent'["write"] = spent["write"]
      /\ spent'["move"] = spent["move"] + 1
  BY DEF MoveNode, Spend, SavingInv, TypeOK, HistoryOK, BudgetNames
<1> QED BY <1>1, <1>2, OtherCopies DEF CopiesInv

\* Nodes fail and return, guests start and stop.
LEMMA EnvironmentCopies ==
  ASSUME SavingInv, SavingInv', CopiesInv, EnvironmentStep
  PROVE  CopiesInv'
<1>1. UNCHANGED <<rows, proc, deleted, files, defs, undone, promised, overlapped, clusterOf, dirty>>
  BY DEF EnvironmentStep, NodeDown, NodeUp, ActionStart, GuestStops, ResourceStarts, dbVars, histVars
<1>2. /\ spent'["write"] = spent["write"] /\ spent'["move"] = spent["move"]
      /\ spent'["outage"] = 0 => spent["outage"] = 0 /\ up' = Nodes
  <2>1. spent \in [BudgetNames -> Nat] /\ spent["outage"] \in Nat
    BY DEF SavingInv, TypeOK, HistoryOK, BudgetNames
  <2>2. spent["outage"] = 0 => up = Nodes BY DEF CopiesInv
  <2>3. CASE \E n \in Nodes : NodeDown(n)
    BY <2>1, <2>3 DEF NodeDown, Spend, BudgetNames
  <2>4. CASE \E n \in Nodes : NodeUp(n)
    BY <2>2, <2>4 DEF NodeUp, histVars
  <2>5. CASE ~\E n \in Nodes : NodeDown(n) \/ NodeUp(n)
    <3>1. UNCHANGED <<spent, up>>
      BY <2>5 DEF EnvironmentStep, ActionStart, GuestStops, ResourceStarts, histVars
    <3> QED BY <2>2, <3>1
  <2> QED BY <2>3, <2>4, <2>5
<1>3. \A v \in Vms : \/ running'[v] = running[v]
                     \/ running'[v] = NoNode
                     \/ /\ Live(v) \/ v \in deleted
                        /\ Live(v) /\ spent["move"] = 0 => running'[v] \in Targets(v)
  <2>1. running \in [Vms -> NodeRef] BY DEF SavingInv, TypeOK, NodesOK
  <2>2. CASE \E n \in Nodes : NodeDown(n) \/ NodeUp(n) BY <2>2 DEF NodeDown, NodeUp
  <2>3. CASE \E v \in Vms : GuestStops(v) BY <2>1, <2>3 DEF GuestStops
  <2>4. ASSUME NEW v \in Vms, ActionStart(v)
        PROVE  \A w \in Vms : \/ running'[w] = running[w]
                              \/ w = v /\ Live(v) /\ running'[v] \in Targets(v)
    <3>1. CASE running' = running BY <3>1
    <3>2. CASE running' # running
      <4>1. Live(v) /\ ~IsHa(v) /\ running' = [running EXCEPT ![v] = rows[v].home]
        BY <2>4, <3>2 DEF ActionStart
      <4> QED BY <2>1, <4>1 DEF Targets
    <3> QED BY <3>1, <3>2
  <2>5. ASSUME NEW v \in Vms, NEW n \in Nodes, ResourceStarts(v, n)
        PROVE  \A w \in Vms : \/ running'[w] = running[w]
                              \/ /\ w = v /\ (Live(v) \/ v \in deleted)
                                 /\ Live(v) /\ spent["move"] = 0 => running'[v] \in Targets(v)
    <3>1. VmOK(v) /\ (Live(v) /\ spent["move"] = 0 => PlacedVm(v)) BY DEF CopiesInv
    <3>2. defs[n][v].version > 0 /\ running' = [running EXCEPT ![v] = n]
      BY <2>5 DEF ResourceStarts
    <3>3. running'[v] = n /\ \A w \in Vms : w # v => running'[w] = running[w] BY <2>1, <3>2
    <3>4. Live(v) \/ v \in deleted BY <3>1, <3>2 DEF VmOK
    <3>5. Live(v) /\ spent["move"] = 0 => n \in Targets(v) BY <3>1, <3>2 DEF PlacedVm
    <3> QED BY <3>3, <3>4, <3>5
  <2> QED BY <2>2, <2>3, <2>4, <2>5 DEF EnvironmentStep
<1> QED BY <1>1, <1>2, <1>3, OtherCopies

\* A job whose machine is gone ends at once.
LEMMA NoJobCopies ==
  ASSUME SavingInv, SavingInv', CopiesInv, NEW p \in Workers, NEW k \in JobKinds, NEW v \in Vms,
         StartJob(p, k, v), ~(Live(v) /\ (k = "disk" => rows[v].disk # NoNode))
  PROVE  CopiesInv'
<1>1. UNCHANGED <<rows, proc, deleted, files, defs, undone, promised, overlapped, clusterOf, dirty,
                  up, running, spent>>
  BY DEF StartJob, nodeVars
<1> QED BY <1>1, OtherCopies DEF CopiesInv

-----------------------------------------------------------------------------
(* The steps that make a promise and that delete a row.                    *)

\* A successful exit: what it promises was saved.
LEMMA ExitCopies ==
  ASSUME SavingInv, SavingInv', CopiesInv, NEW p \in Procs, Exit(p)
  PROVE  CopiesInv'
<1>1. PICK q \in Process : q = proc[p] BY ProcFacts
<1>2. /\ UNCHANGED <<rows, deleted, clusterOf, dirty, up, files, defs, running, spent, undone, overlapped>>
      /\ q.pc = "exit" /\ Becomes(p, Idle)
  BY <1>1 DEF Exit, dbVars, nodeVars
<1>3. proc'[p] = Idle /\ \A s \in Procs : s # p => proc'[s] = proc[s]
  BY <1>2 DEF Becomes, SavingInv, TypeOK
<1>4. Idle.kind = "none" /\ \A v \in Vms : ~(Idle.snap[v].version > 0)
  BY NullRowFacts DEF Idle
<1>5. \A n \in Nodes, v \in Vms :
        \/ promised'[n][v] = promised[n][v]
        \/ /\ q.kind \in {"persist", "disk"} /\ v = q.vm /\ n \in q.targets
           /\ promised'[n][v] = q.snap[v].version
  BY <1>1 DEF Exit
<1>6. q.kind \in {"persist", "disk"} => q.vm \in Vms /\ Holds(p, q.vm) BY <1>1, <1>2, HeldFacts
<1>7. Alone' BY <1>2, <1>3, <1>4 DEF CopiesInv, Alone, Holds
<1>8. \A v \in Vms : VmOK(v)'
  <2> SUFFICES ASSUME NEW v \in Vms PROVE VmOK(v)' OBVIOUS
  <2>1. VmOK(v) BY DEF CopiesInv
  <2>2. CASE \E n \in Nodes : promised'[n][v] # promised[n][v]
    <3>1. Holds(p, v) BY <1>5, <1>6, <2>2
    <3>2. CopyOK(q, v) BY <1>1, <3>1, OwnFacts
    <3>3. ASSUME Live(v), NEW n \in Nodes PROVE promised'[n][v] <= rows[v].version
      BY <1>5, <2>1, <3>2, <3>3 DEF VmOK, CopyOK
    <3> QED BY <1>2, <2>1, <3>2, <3>3 DEF VmOK, CopyOK, Live
  <2>3. CASE \A n \in Nodes : promised'[n][v] = promised[n][v]
    BY <1>2, <2>1, <2>3 DEF VmOK, Live
  <2> QED BY <2>2, <2>3
<1>9. \A s \in Procs : /\ OwnOK(proc[s])'
                       /\ proc'[s].kind = "scan" => s \in Scanners
                       /\ \A v \in Vms : Holds(s, v)' => CopyOK(proc[s], v)'
  <2> SUFFICES ASSUME NEW s \in Procs
               PROVE  /\ OwnOK(proc[s])'
                      /\ proc'[s].kind = "scan" => s \in Scanners
                      /\ \A v \in Vms : Holds(s, v)' => CopyOK(proc[s], v)'
    OBVIOUS
  <2>1. CASE s = p
    <3>1. OwnOK(proc[s])' BY <1>3, <2>1, IdleOwn
    <3> QED BY <1>3, <1>4, <2>1, <3>1 DEF Holds
  <2>2. CASE s # p
    <3>1. PICK x : x = proc[s] OBVIOUS
    <3>2. OwnOK(x)' BY <1>2, <3>1, OwnStays DEF CopiesInv
    <3>3. proc'[s] = x BY <1>3, <2>2, <3>1
    <3>4. OwnOK(proc[s])'
      BY <3>2, <3>3 DEF OwnOK, StepOK, Connected, NewestBy, SavedBy, LeftBy, PlacedBy, Foreign
    <3>5. ASSUME NEW v \in Vms, Holds(s, v)' PROVE CopyOK(proc[s], v)'
      <4>1. Holds(s, v) BY <3>1, <3>3, <3>5 DEF Holds
      <4>2. CopyOK(x, v) BY <3>1, <4>1, OwnFacts
      <4>3. v \notin overlapped => ~Holds(p, v) BY <2>2, <4>1 DEF CopiesInv, Alone
      <4>4. v \notin overlapped => \A n \in Nodes : promised'[n][v] = promised[n][v]
        BY <1>5, <1>6, <4>3
      <4>5. CopyOK(x, v)' BY <1>2, <4>2, <4>4 DEF CopyOK, Live
      <4> QED BY <3>3, <4>5 DEF CopyOK
    <3> QED BY <3>1, <3>3, <3>4, <3>5, OwnFacts
  <2> QED BY <2>1, <2>2
<1>10. NewestSaved'
  <2> SUFFICES ASSUME NEW n \in Nodes, NEW v \in Vms, promised'[n][v] # promised[n][v],
                      n \notin dirty, <<n, v>> \notin undone, v \notin overlapped,
                      ~(spent["write"] > 0)
               PROVE  defs[n][v].version >= promised'[n][v]
    BY <1>2 DEF CopiesInv, NewestSaved
  <2>1. q.kind \in {"persist", "disk"} /\ v = q.vm /\ n \in q.targets
        /\ promised'[n][v] = q.snap[v].version
    BY <1>5
  <2>2. spent["write"] = 0 BY DEF SavingInv, TypeOK, HistoryOK, BudgetNames
  <2>3. SavedBy(q, n, v) BY <1>1, <1>2, <2>1, <2>2, OwnFacts DEF OwnOK, NewestBy
  <2> QED BY <2>1, <2>3 DEF SavedBy
<1>11. spent'["outage"] = 0 => up' = Nodes BY <1>2 DEF CopiesInv
<1>12. spent'["move"] = 0 => \A v \in Vms : Live(v)' => PlacedVm(v)'
  BY <1>2 DEF CopiesInv, PlacedVm, Live, Targets, IsHa, Members
<1>13. RemovedEverywhere' BY <1>2 DEF CopiesInv, RemovedEverywhere
<1> QED BY <1>7, <1>8, <1>9, <1>10, <1>11, <1>12, <1>13 DEF CopiesInv

\* A removal deletes the row: no node still defines the machine.
LEMMA DeleteRowCopies ==
  ASSUME SavingInv, SavingInv', CopiesInv, NEW p \in Procs, DeleteRow(p)
  PROVE  CopiesInv'
<1>1. PICK q \in Process : q = proc[p] BY ProcFacts
<1>2. PICK r : r = [q EXCEPT !.pc = "exit"] OBVIOUS
<1>3. PICK v : v = q.vm OBVIOUS
<1>4. /\ UNCHANGED <<clusterOf, dirty, up, files, defs, running, spent, promised, undone, overlapped>>
      /\ q.pc = "delete" /\ rows' = [rows EXCEPT ![v] = NullRow]
      /\ deleted' = deleted \cup {v} /\ Becomes(p, r)
  BY <1>1, <1>2, <1>3 DEF DeleteRow, nodeVars, histVars
<1>5. q.kind = "remove" BY <1>1, <1>4, ProcFacts DEF ProcessOK, ScanPcs, SavePcs
<1>6. v \in Vms /\ Holds(p, v) BY <1>1, <1>3, <1>4, <1>5, HeldFacts
<1>7. /\ r.kind = q.kind /\ r.vm = q.vm /\ r.targets = q.targets /\ r.node = q.node
      /\ r.shown = q.shown /\ r.handled = q.handled /\ r.conn = q.conn /\ r.pc = "exit"
      /\ r.snap = q.snap
  BY <1>2 DEF Process
<1>8. proc'[p] = r /\ \A s \in Procs : s # p => proc'[s] = proc[s]
  BY <1>4 DEF Becomes, SavingInv, TypeOK
<1>9. /\ rows'[v] = NullRow /\ ~Live(v)' /\ v \in deleted'
      /\ \A w \in Vms : w # v => rows'[w] = rows[w] /\ (Live(w)' <=> Live(w))
                                 /\ (w \in deleted' <=> w \in deleted)
  <2>1. rows \in [Vms -> Row] BY DEF SavingInv, TypeOK, DatabaseOK
  <2> QED BY <1>4, <1>6, <2>1, NullRowFacts DEF Live
<1>10. Alone' BY <1>1, <1>4, <1>7, <1>8 DEF CopiesInv, Alone, Holds
<1>11. \A w \in Vms : VmOK(w)'
  <2> SUFFICES ASSUME NEW w \in Vms PROVE VmOK(w)' OBVIOUS
  <2>1. VmOK(w) BY DEF CopiesInv
  <2> QED BY <1>4, <1>9, <2>1 DEF VmOK
<1>12. \A w \in Vms : \/ Live(w) /\ Live(w)' /\ rows'[w].home = rows[w].home
                      \/ rows'[w] = rows[w]
                      \/ ~Live(w) /\ w \notin deleted
                      \/ ~Live(w)' /\ w \in deleted'
  BY <1>9
<1>13. ASSUME NEW s \in Procs, NEW x, x = proc[s] PROVE OwnOK(x)'
  BY <1>4, <1>12, <1>13, OwnStays
<1>14. OwnOK(r)'
  <2>1. OwnOK(q)' BY <1>1, <1>13
  <2> QED BY <1>4, <1>5, <1>7, <2>1
      DEF OwnOK, StepOK, Connected, NewestBy, LeftBy, PlacedBy, Foreign
<1>15. ASSUME NEW s \in Procs, NEW x, x.snap = proc[s].snap, s # p \/ x.pc = "exit",
              s # p => x = proc[s], NEW w \in Vms, Holds(s, w)
       PROVE  CopyOK(x, w)'
  <2>1. CopyOK(proc[s], w) BY <1>15, OwnFacts
  <2>2. CASE w # v BY <1>4, <1>9, <1>15, <2>1, <2>2 DEF CopyOK
  <2>3. CASE w = v
    <3>1. v \notin overlapped => s = p BY <1>6, <1>15, <2>3 DEF CopiesInv, Alone
    <3> QED BY <1>4, <1>9, <1>15, <2>1, <2>3, <3>1 DEF CopyOK
  <2> QED BY <2>2, <2>3
<1>16. \A s \in Procs : /\ OwnOK(proc[s])'
                        /\ proc'[s].kind = "scan" => s \in Scanners
                        /\ \A w \in Vms : Holds(s, w)' => CopyOK(proc[s], w)'
  <2> SUFFICES ASSUME NEW s \in Procs
               PROVE  /\ OwnOK(proc[s])'
                      /\ proc'[s].kind = "scan" => s \in Scanners
                      /\ \A w \in Vms : Holds(s, w)' => CopyOK(proc[s], w)'
    OBVIOUS
  <2>1. PICK x : x = proc'[s] OBVIOUS
  <2>2. CASE s = p BY <1>1, <1>5, <1>7, <1>8, <1>14, <1>15, <2>2 DEF Holds
  <2>3. CASE s # p
    <3>1. PICK y : y = proc[s] OBVIOUS
    <3>2. OwnOK(y)' /\ proc'[s] = y BY <1>8, <1>13, <2>3, <3>1
    <3>3. OwnOK(proc[s])'
      BY <3>2 DEF OwnOK, StepOK, Connected, NewestBy, SavedBy, LeftBy, PlacedBy, Foreign
    <3>4. \A w \in Vms : Holds(s, w)' => CopyOK(y, w)'
      BY <1>15, <2>3, <3>1, <3>2 DEF Holds
    <3>5. \A w \in Vms : Holds(s, w)' => CopyOK(proc[s], w)'
      BY <3>2, <3>4 DEF CopyOK
    <3> QED BY <3>1, <3>2, <3>3, <3>5, OwnFacts
  <2> QED BY <2>2, <2>3
<1>17. spent'["outage"] = 0 => up' = Nodes BY <1>4 DEF CopiesInv
<1>18. ASSUME spent'["move"] = 0, NEW w \in Vms, Live(w)' PROVE PlacedVm(w)'
  <2>1. w # v BY <1>9, <1>18
  <2>2. Live(w) /\ PlacedVm(w) BY <1>4, <1>9, <1>18, <2>1 DEF CopiesInv
  <2>3. rows'[w] = rows[w] BY <1>9, <2>1
  <2>4. Targets(w)' = Targets(w) BY <1>4, <2>3 DEF Targets, IsHa, Members
  <2> QED BY <1>4, <2>2, <2>4 DEF PlacedVm
<1>19. NewestSaved' BY <1>4 DEF CopiesInv, NewestSaved
<1>20. RemovedEverywhere'
  <2> SUFFICES ASSUME NEW n \in Nodes, defs[n][v].version > 0, n \notin dirty,
                      v \notin overlapped, ~(spent["move"] > 0)
               PROVE  FALSE
    BY <1>4 DEF CopiesInv, RemovedEverywhere
  <2>1. spent["move"] = 0 BY DEF SavingInv, TypeOK, HistoryOK, BudgetNames
  <2>2. LeftBy(q) BY <1>1, <2>1, OwnFacts DEF OwnOK
  <2> QED BY <1>3, <1>4, <1>5, <2>2 DEF LeftBy
<1> QED BY <1>10, <1>11, <1>16, <1>17, <1>18, <1>19, <1>20 DEF CopiesInv

-----------------------------------------------------------------------------
(* The theorems on copies and nodes.                                       *)

\* The invariant holds of an empty database.
LEMMA InitCopies == Init => CopiesInv
<1> SUFFICES ASSUME Init PROVE CopiesInv OBVIOUS
<1>1. Idle.kind = "none" /\ \A v \in Vms : ~(Idle.snap[v].version > 0)
  BY NullRowFacts DEF Idle
<1>2. \A p \in Procs : proc[p] = Idle BY DEF Init
<1>3. \A v \in Vms : ~Live(v) /\ rows[v] = NullRow BY NullRowFacts DEF Init, Live
<1>4. Alone BY <1>1, <1>2 DEF Alone, Holds
<1>5. \A v \in Vms : VmOK(v) BY <1>3 DEF Init, VmOK, NoDef
<1>6. \A p \in Procs : /\ OwnOK(proc[p])
                       /\ proc[p].kind = "scan" => p \in Scanners
                       /\ \A v \in Vms : Holds(p, v) => CopyOK(proc[p], v)
  BY <1>1, <1>2, IdleOwn DEF Holds
<1>7. NewestSaved /\ RemovedEverywhere /\ up = Nodes
  BY DEF Init, NewestSaved, RemovedEverywhere
<1> QED BY <1>3, <1>4, <1>5, <1>6, <1>7 DEF CopiesInv

\* Every step keeps the invariant.
LEMMA NextCopies == SavingInv /\ SavingInv' /\ CopiesInv /\ [Next]_vars => CopiesInv'
<1> SUFFICES ASSUME SavingInv, SavingInv', CopiesInv, [Next]_vars PROVE CopiesInv' OBVIOUS
<1>1. CASE WebStep BY <1>1, WebCopies
<1>2. CASE \E n \in Nodes, c \in Clusters : MoveNode(n, c) BY <1>2, MoveNodeCopies
<1>3. CASE \E w \in Workers, k \in JobKinds, v \in Vms : StartJob(w, k, v)
  BY <1>3, NewJobCopies, NoJobCopies
<1>4. CASE \E s \in Scanners, n \in ScanNodes : ScanList(s, n) BY <1>4, ScanListCopies
<1>5. CASE \E p \in Procs : ProcessStep(p)
  BY <1>5, CreateVolumeCopies, RemoveDiskCopies, WriteFileCopies, DefineOfflineCopies,
     DefineVmCopies, ReadUuidCopies, PacemakerAddCopies, CheckStoppedCopies, UndefineCopies,
     UndefineOfflineCopies, DeleteRowCopies, ScanQueryCopies, ScanKnownCopies,
     ScanUndefinesCopies, ScanFlushCopies, ExitCopies, EndsCopies
  DEF ProcessStep
<1>6. CASE EnvironmentStep BY <1>6, EnvironmentCopies
<1>7. CASE UNCHANGED vars
  BY <1>7, OtherCopies DEF vars, dbVars, nodeVars, histVars, CopiesInv
<1> QED BY <1>1, <1>2, <1>3, <1>4, <1>5, <1>6, <1>7 DEF Next

\* CopiesInv is an invariant: what processes hold in memory, what rows say and
\* what nodes define stay in step while no two processes hold a machine.
THEOREM Copies == Spec => [](SavingInv /\ CopiesInv)
<1>1. Init => SavingInv /\ CopiesInv BY InitSaving, InitCopies
<1>2. SavingInv /\ CopiesInv /\ [Next]_vars => (SavingInv /\ CopiesInv)'
  BY NextSaving, NextCopies
<1> QED BY <1>1, <1>2, PTL DEF Spec

\* A node never defines an older version than a successful job claims to have
\* saved there, as long as no two processes held the machine at once and no
\* write failed (defineVirtualmachine, filePutContents).
THEOREM NewestKept == Spec => []NewestSaved
<1>1. CopiesInv => NewestSaved BY DEF CopiesInv
<1> QED BY <1>1, Copies, PTL

\* No node defines a deleted machine, as long as no two processes held it,
\* every node was reached and no node changed cluster (removeTasks).
THEOREM Removed == Spec => []RemovedEverywhere
<1>1. CopiesInv => RemovedEverywhere BY DEF CopiesInv
<1> QED BY <1>1, Copies, PTL

\* The actions that write rows.
LEMMA RowsWritten ==
  ASSUME [Next]_vars, rows' # rows
  PROVE  \/ \E v \in Vms : (\E n \in Nodes : CreateVm(v, n)) \/ EditVm(v) \/ AddDisk(v)
         \/ \E p \in Procs : \/ RemoveDisk(p) \/ ReadUuid(p) \/ DeleteRow(p)
                             \/ ScanForeign(p) \/ ScanFlush(p)
<1>1. CASE WebStep BY <1>1 DEF WebStep, RequestRemove
<1>2. CASE ~WebStep /\ ~\E p \in Procs : ProcessStep(p)
  BY <1>2 DEF Next, MoveNode, StartJob, ScanList, EnvironmentStep, NodeDown, NodeUp, ActionStart,
              GuestStops, ResourceStarts, vars, dbVars
<1>3. CASE \E p \in Procs : ProcessStep(p)
  BY <1>3 DEF ProcessStep, CreateVolume, RemoveDiskFails, WriteFile, DefineOffline, DefineVm,
              PacemakerAdd, PacemakerOffline, CheckStopped, Undefine, UndefineOffline, ScanQuery,
              ScanKnown, ScanOrphan, Exit, JobFails, dbVars
<1> QED BY <1>1, <1>2, <1>3

\* A step keeps the uuid of a row.
LEMMA UuidStep ==
  ASSUME SavingInv, CopiesInv, [Next]_vars, NEW v \in Vms, rows[v].uuid > 0,
         v \notin overlapped, v \notin deleted'
  PROVE  rows'[v].uuid = rows[v].uuid
<1>1. rows \in [Vms -> Row] BY DEF SavingInv, TypeOK, DatabaseOK
<1> SUFFICES ASSUME rows' # rows PROVE rows'[v].uuid = rows[v].uuid OBVIOUS
<1>2. ASSUME NEW w \in Vms, NEW n \in Nodes, CreateVm(w, n) PROVE rows'[v].uuid = rows[v].uuid
  <2>1. ~Live(w) /\ VmOK(w) BY <1>2 DEF CreateVm, CopiesInv
  <2>2. rows[w].uuid = 0
    <3>1. rows[w] = NullRow BY <2>1 DEF VmOK
    <3>2. NullRow.uuid = 0 BY DEF NullRow
    <3> QED BY <3>1, <3>2
  <2>3. v # w BY <2>2
  <2> QED BY <1>1, <1>2, <2>3 DEF CreateVm
<1>3. ASSUME NEW w \in Vms, EditVm(w) \/ AddDisk(w) PROVE rows'[v].uuid = rows[v].uuid
  BY <1>1, <1>3 DEF EditVm, AddDisk, Row
<1>4. ASSUME NEW p \in Procs, RemoveDisk(p) PROVE rows'[v].uuid = rows[v].uuid
  BY <1>1, <1>4 DEF RemoveDisk, Row
<1>5. ASSUME NEW p \in Procs, ReadUuid(p) PROVE rows'[v].uuid = rows[v].uuid
  <2>1. proc[p].at[2] \in Vms /\ Holds(p, proc[p].at[2]) /\ proc[p].snap[proc[p].at[2]].uuid = 0
    BY <1>5, HeldFacts, OwnFacts DEF ReadUuid, OwnOK, StepOK
  <2>2. CASE proc[p].at[2] = v
    <3>1. CopyOK(proc[p], v) /\ proc[p].pc = "uuid" BY <1>5, <2>1, <2>2, OwnFacts DEF ReadUuid
    <3> QED BY <2>1, <2>2, <3>1 DEF CopyOK
  <2>3. CASE proc[p].at[2] # v BY <1>1, <1>5, <2>1, <2>3 DEF ReadUuid
  <2> QED BY <2>2, <2>3
<1>6. ASSUME NEW p \in Procs, DeleteRow(p) PROVE rows'[v].uuid = rows[v].uuid
  BY <1>1, <1>6 DEF DeleteRow
<1>7. ASSUME NEW p \in Procs, ScanForeign(p) \/ ScanFlush(p) PROVE rows'[v].uuid = rows[v].uuid
  <2>1. rows' = Written(p) BY <1>7 DEF ScanForeign, ScanFlush
  <2>2. rows[v] \in Row BY <1>1
  <2> QED BY <2>1, <2>2 DEF Written, Row
<1> QED BY <1>2, <1>3, <1>4, <1>5, <1>6, <1>7, RowsWritten

\* A machine keeps the uuid its row once has, as long as no two processes held
\* it at once (the uuid that defineVirtualmachine reads back and flushes).
THEOREM UuidKept == Spec => UuidIsStable
<1>1. ASSUME SavingInv, CopiesInv, [Next]_vars
      PROVE  [\A v \in Vms : rows[v].uuid > 0 =>
                 \/ rows'[v].uuid = rows[v].uuid
                 \/ v \in deleted' \/ v \in overlapped]_vars
  BY <1>1, UuidStep
<1> QED BY <1>1, Copies, PTL DEF Spec, UuidIsStable

\* The step that stops a resource found its guest elsewhere.
LEMMA StopStep ==
  ASSUME SavingInv, CopiesInv, [Next]_vars, NEW v \in Vms, running[v] # NoNode,
         role[v] = "Started", role'[v] = "Stopped", spent["outage"] = 0, v \notin overlapped,
         ~(spent'["ask"] > spent["ask"])
  PROVE  rows[v].home # running[v]
<1>1. role \in [Vms -> {"none", "Started", "Stopped"}] /\ running \in [Vms -> NodeRef]
  BY DEF SavingInv, TypeOK, NodesOK
<1>2. PICK p \in Procs : PacemakerAdd(p)
  <2>1. CASE WebStep BY <2>1 DEF WebStep, CreateVm, EditVm, RequestRemove, AddDisk, nodeVars
  <2>2. CASE EnvironmentStep
    <3>1. CASE \E w \in Vms : ActionStart(w) BY <1>1, <3>1 DEF ActionStart
    <3>2. CASE ~\E w \in Vms : ActionStart(w)
      BY <2>2, <3>2 DEF EnvironmentStep, NodeDown, NodeUp, GuestStops, ResourceStarts
    <3> QED BY <3>1, <3>2
  <2>3. CASE \E p \in Procs : ProcessStep(p)
    BY ZenonT(40), <2>3 DEF ProcessStep, CreateVolume, RemoveDisk, RemoveDiskFails, WriteFile, DefineOffline,
                DefineVm, ReadUuid, PacemakerOffline, CheckStopped, Undefine, UndefineOffline,
                DeleteRow, ScanQuery, ScanKnown, ScanForeign, ScanOrphan, ScanFlush, Exit,
                JobFails, nodeVars
  <2>4. CASE ~WebStep /\ ~EnvironmentStep /\ ~\E p \in Procs : ProcessStep(p)
    BY <2>4 DEF Next, MoveNode, StartJob, ScanList, vars, nodeVars
  <2> QED BY <2>1, <2>2, <2>3, <2>4
<1> SUFFICES ASSUME rows[v].home = running[v] PROVE FALSE OBVIOUS
<1>3. proc[p].vm = v /\ ~SeesRunning(p, v)
  <2>1. PICK answer \in BOOLEAN, accepted \in BOOLEAN :
          /\ IsRunning(p, proc[p].vm, answer)
          /\ role' = IF ~accepted THEN role ELSE
                       [role EXCEPT ![proc[p].vm] = IF answer THEN "Started" ELSE "Stopped"]
    BY <1>2 DEF PacemakerAdd
  <2>2. proc[p].vm = v /\ ~answer BY <1>1, <2>1
  <2> QED BY <2>1, <2>2, AskFacts DEF SavingInv
<1>4. proc[p].pc = "pacemaker" BY <1>2 DEF PacemakerAdd
<1>5. Holds(p, v) BY <1>3, <1>4, HeldFacts, ProcFacts DEF ProcessOK, ScanPcs
<1>6. CopyOK(proc[p], v) /\ Connected(proc[p]) BY <1>5, OwnFacts DEF OwnOK
<1>7. Live(v) BY <1>4, <1>6 DEF CopyOK
<1>8. proc[p].snap[v].home = running[v] /\ running[v] \in Nodes
  BY <1>1, <1>6, <1>7 DEF CopyOK, NodeRef
<1>9. up = Nodes /\ proc[p].conn[running[v]] # "dead"
  BY <1>6, <1>8 DEF CopiesInv, Connected
<1>10. proc[p].conn[running[v]] \in {"none", "open"} BY <1>8, <1>9, ProcFacts DEF Process, Session
<1> QED BY <1>3, <1>8, <1>9, <1>10 DEF SeesRunning, Reaches, ConnTo

\* Without outages, saving a machine stops the resource of a running guest only
\* if the row names another node, two processes held the machine, or the
\* dominfo of that step failed (pacemakerAdd, isRunning and its catch).
THEOREM RunningKept == Spec => SaveKeepsRunning
<1>1. ASSUME SavingInv, CopiesInv, [Next]_vars
      PROVE  [\A v \in Vms :
                 /\ running[v] # NoNode /\ role[v] = "Started" /\ role'[v] = "Stopped"
                 /\ spent["outage"] = 0
                 => \/ rows[v].home # running[v]
                    \/ v \in overlapped
                    \/ spent'["ask"] > spent["ask"]]_vars
  BY <1>1, StopStep
<1> QED BY <1>1, Copies, PTL DEF Spec, SaveKeepsRunning

\* The step that undefines a machine of the node's cluster is a removal's.
LEMMA UndefineStep ==
  ASSUME SavingInv, CopiesInv, [Next]_vars, NEW n \in Nodes, NEW v \in Vms,
         defs[n][v].version > 0, defs'[n][v].version = 0, Live(v),
         clusterOf[rows[v].home] = clusterOf[n],
         spent["move"] = 0 \/ (spent["move"] = 1 /\ OneScanner)
  PROVE  \E p \in Procs : proc[p].kind = "remove" /\ proc[p].vm = v /\ proc[p].pc = "undefine"
<1>1. defs \in [Nodes -> [Vms -> Def]] BY DEF SavingInv, TypeOK, NodesOK
<1>2. PICK p \in Procs : DefineVm(p) \/ Undefine(p) \/ ScanForeign(p) \/ ScanOrphan(p)
  <2>0. defs' # defs OBVIOUS
  <2>1. CASE WebStep BY <2>0, <2>1 DEF WebStep, CreateVm, EditVm, RequestRemove, AddDisk, nodeVars
  <2>2. CASE EnvironmentStep
    BY <2>0, <2>2 DEF EnvironmentStep, NodeDown, NodeUp, ActionStart, GuestStops, ResourceStarts
  <2>3. CASE \E p \in Procs : ProcessStep(p)
    BY <2>0, <2>3 DEF ProcessStep, CreateVolume, RemoveDisk, RemoveDiskFails, WriteFile, DefineOffline,
                ReadUuid, PacemakerAdd, PacemakerOffline, CheckStopped, UndefineOffline,
                DeleteRow, ScanQuery, ScanKnown, ScanFlush, Exit, JobFails, nodeVars
  <2>4. CASE ~WebStep /\ ~EnvironmentStep /\ ~\E p \in Procs : ProcessStep(p)
    BY <2>0, <2>4 DEF Next, MoveNode, StartJob, ScanList, vars, nodeVars
  <2> QED BY <2>1, <2>2, <2>3, <2>4
<1>3. CASE DefineVm(p)
  <2>1. PICK m, w : m = proc[p].at[1] /\ w = proc[p].at[2] OBVIOUS
  <2>2. m \in Nodes /\ w \in Vms BY <1>3, <2>1, HeldFacts DEF DefineVm
  <2>3. PICK d : defs' = [defs EXCEPT ![m][w] = d] /\ d.version > 0
    <3>1. PICK d : d = [version |-> files[m][w].version,
                        uuid |-> IF files[m][w].uuid = 0 THEN nextUuid + 1 ELSE files[m][w].uuid]
      OBVIOUS
    <3>2. defs' = [defs EXCEPT ![m][w] = d] /\ files[m][w].version > 0
      BY <1>3, <2>1, <3>1 DEF DefineVm
    <3>3. d.version = files[m][w].version BY <3>1
    <3> QED BY <3>2, <3>3
  <2>4. defs'[n][v] = d \/ defs'[n][v] = defs[n][v] BY <1>1, <2>2, <2>3
  <2> QED BY <2>3, <2>4
<1>4. CASE Undefine(p)
  <2>1. PICK t \in proc[p].todo : defs' = [defs EXCEPT ![t[1]][t[2]] = NoDef] BY <1>4 DEF Undefine
  <2>2. t[1] \in Nodes /\ t[2] = proc[p].vm /\ t[2] \in Vms /\ proc[p].kind = "remove"
        /\ proc[p].pc = "undefine"
    BY <1>4, UndefinePair DEF Undefine
  <2>3. v = t[2] BY <1>1, <2>1, <2>2
  <2> QED BY <2>2, <2>3
<1>5. CASE ScanForeign(p) \/ ScanOrphan(p)
  <2>1. PICK w \in Unhandled(p) :
          /\ ~Holds(p, w) /\ (Live(w) => ScanForeign(p))
          /\ defs' = [defs EXCEPT ![proc[p].node][w] = NoDef]
    BY <1>5 DEF ScanForeign, ScanOrphan
  <2>2. proc[p].pc = "classify" /\ proc[p].node \in Nodes
    BY <1>5, ScanProcess DEF ScanForeign, ScanOrphan
  <2>3. w \in Vms /\ w \in proc[p].shown BY ProcFacts DEF Unhandled, Process
  <2>4. v = w /\ n = proc[p].node BY <1>1, <2>1, <2>2, <2>3
  <2>5. proc[p].snap[v].version = 0
    BY <2>1, <2>4, ProcFacts DEF Holds, Process, Row
  <2>6. Foreign(proc[p], v) BY OwnFacts DEF OwnOK
  <2> QED BY <2>2, <2>3, <2>4, <2>5, <2>6 DEF Foreign
<1> QED BY <1>2, <1>3, <1>4, <1>5

\* A scan never undefines a machine of the node's own cluster while nodes keep
\* their cluster, nor after one move while there is one console that scans
\* (scanVirtualmachines).
THEOREM MembersKept == Spec => ScanKeepsMembers
<1>1. ASSUME SavingInv, CopiesInv, [Next]_vars
      PROVE  [\A n \in Nodes, v \in Vms :
                 /\ defs[n][v].version > 0 /\ defs'[n][v].version = 0
                 /\ Live(v) /\ clusterOf[rows[v].home] = clusterOf[n]
                 /\ spent["move"] = 0 \/ (spent["move"] = 1 /\ OneScanner)
                 => \E p \in Procs : proc[p].kind = "remove" /\ proc[p].vm = v
                                    /\ proc[p].pc = "undefine"]_vars
  BY <1>1, UndefineStep
<1> QED BY <1>1, Copies, PTL DEF Spec, ScanKeepsMembers
=============================================================================

----------------------------- MODULE DrbdProofs -----------------------------
(***************************************************************************)
(* The DRBD disks, for all disks, nodes, web requests, workers and budgets:*)
(* every safety property that holds of Drbd is proved.  Until two requests *)
(* race, the counters implement the pool of CounterPool.                   *)
(*                                                                         *)
(* NextFreeFacts and NextFreeUnused say what getNextFreeDrbdCountByCluster *)
(* returns; CounterInv is inductive because only a request that races can  *)
(* make that answer stale, Exclusive because only a disk that is set up    *)
(* and removed at once has two jobs.                                       *)
(***************************************************************************)
EXTENDS Drbd, FiniteSetTheorems, TLAPS

USE DrbdAssumption

-----------------------------------------------------------------------------
(* What getNextFreeDrbdCountByCluster returns.                             *)

\* The number of rows, and what the listing is counted with, are naturals.
LEMMA RowsFacts ==
  ASSUME NEW i \in Int
  PROVE  /\ Cardinality(Disks) \in Nat
         /\ IsFiniteSet(RowsUpTo(i))
         /\ Cardinality(RowsUpTo(i)) \in Nat
         /\ Cardinality(RowsUpTo(i)) <= Cardinality(Disks)
<1>1. RowsUpTo(i) \in SUBSET Disks BY DEF RowsUpTo
<1> QED BY <1>1, FS_Subset, FS_CardinalityType

\* An interval from zero has as many elements as its upper bound says.
LEMMA IntervalCard ==
  ASSUME NEW n \in Nat
  PROVE  IsFiniteSet(0 .. (n - 1)) /\ Cardinality(0 .. (n - 1)) = n
<1>1. /\ IsFiniteSet(0 .. (n - 1))
      /\ Cardinality(0 .. (n - 1)) = IF 0 > n - 1 THEN 0 ELSE (n - 1) - 0 + 1
  BY FS_Interval
<1>2. (IF 0 > n - 1 THEN 0 ELSE (n - 1) - 0 + 1) = n OBVIOUS
<1> QED BY <1>1, <1>2

\* The listing has no row behind its end, so the search ends among Counters.
LEMMA NotAllInPlace == ~InPlace(Cardinality(Disks))
BY RowsFacts DEF InPlace

\* The value returned is the position of the first row that is not in its
\* place; the row before it is.
LEMMA NextFreeFacts ==
  /\ NextFree \in Counters
  /\ ~InPlace(NextFree)
  /\ NextFree > 0 => InPlace(NextFree - 1)
<1> DEFINE N == Cardinality(Disks)
           P == {i \in Counters : \A j \in 0 .. i : InPlace(j)}
           c == Cardinality(P)
<1>1. N \in Nat BY RowsFacts
<1>2. P \subseteq 0 .. (N - 1)
  <2> SUFFICES ASSUME NEW i \in P PROVE i \in 0 .. (N - 1) OBVIOUS
  <2>1. i \in 0 .. N /\ \A j \in 0 .. i : InPlace(j) BY DEF Counters
  <2>2. i # N BY <2>1, <1>1, NotAllInPlace
  <2> QED BY <2>1, <2>2, <1>1
<1>3. IsFiniteSet(P) /\ c \in Nat /\ c <= N
  <2>1. IsFiniteSet(0 .. (N - 1)) /\ Cardinality(0 .. (N - 1)) = N
    BY <1>1, IntervalCard
  <2> QED BY <2>1, <1>2, FS_Subset, FS_CardinalityType
<1>4. ASSUME NEW k \in P PROVE 0 .. k \subseteq P
  BY <1>1 DEF Counters
<1>5. c \notin P
  <2> SUFFICES ASSUME c \in P PROVE FALSE OBVIOUS
  <2>1. 0 .. c \in SUBSET P BY <1>4
  <2>2. Cardinality(0 .. c) <= c BY <2>1, <1>3, FS_Subset
  <2>3. Cardinality(0 .. c) = c + 1
    <3>1. Cardinality(0 .. ((c + 1) - 1)) = c + 1 BY <1>3, IntervalCard
    <3>2. (c + 1) - 1 = c BY <1>3
    <3> QED BY <3>1, <3>2
  <2> QED BY <2>2, <2>3, <1>3
<1>6. P \subseteq 0 .. (c - 1)
  <2> SUFFICES ASSUME NEW k \in P PROVE k \in 0 .. (c - 1) OBVIOUS
  <2>1. k \in Nat BY <1>2, <1>1
  <2>2. c \notin 0 .. k BY <1>4, <1>5
  <2> QED BY <2>1, <2>2, <1>3
<1>7. P = 0 .. (c - 1)
  <2>1. IsFiniteSet(0 .. (c - 1)) /\ Cardinality(0 .. (c - 1)) = c
    BY <1>3, IntervalCard
  <2>2. P \in SUBSET (0 .. (c - 1)) BY <1>6
  <2>3. Cardinality(0 .. (c - 1)) = Cardinality(P) => 0 .. (c - 1) = P
    BY <2>1, <2>2, FS_Subset
  <2> QED BY <2>1, <2>3
<1>8. c \in Counters BY <1>3, <1>1 DEF Counters
<1>11. NextFree = c BY DEF NextFree
<1>12. \A j \in P : InPlace(j) BY <1>1 DEF Counters
<1>13. c \in Counters /\ (\A j \in 0 .. c : InPlace(j)) => c \in P OBVIOUS
<1> HIDE DEF P, c
<1>9. ~InPlace(c)
  <2> SUFFICES ASSUME InPlace(c) PROVE FALSE OBVIOUS
  <2>1. \A j \in 0 .. c : j \in P \/ j = c BY <1>7, <1>3
  <2>2. \A j \in 0 .. c : InPlace(j) BY <2>1, <1>12
  <2> QED BY <2>2, <1>8, <1>5, <1>13
<1>10. c > 0 => InPlace(c - 1)
  <2> SUFFICES ASSUME c > 0 PROVE InPlace(c - 1) OBVIOUS
  <2>1. c - 1 \in P BY <1>7, <1>3
  <2> QED BY <2>1, <1>12
<1> QED BY <1>8, <1>9, <1>10, <1>11

\* As long as the values in use are distinct, no disk has the value returned.
LEMMA NextFreeUnused ==
  ASSUME counter \in [Disks -> Counters \cup {NoCounter}],
         \A d, e \in Disks : counter[d] = counter[e] /\ counter[d] # NoCounter => d = e
  PROVE  \A d \in Disks : counter[d] # NextFree
<1> DEFINE c == NextFree
           B == RowsUpTo(c - 1)
<1>1. c \in Nat BY NextFreeFacts, RowsFacts DEF Counters
<1>2. IsFiniteSet(B) /\ Cardinality(B) \in Nat BY <1>1, RowsFacts
<1>3. Cardinality(B) <= c
  <2> DEFINE f == [d \in B |-> counter[d]]
  <2>1. \A d \in B : d \in Disks /\ counter[d] \in 0 .. (c - 1) BY DEF RowsUpTo
  <2>2. f \in Injection(B, 0 .. (c - 1))
    <3>1. f \in [B -> 0 .. (c - 1)] BY <2>1
    <3>2. \A d, e \in B : f[d] = f[e] => d = e
      BY <2>1, <1>1 DEF NoCounter
    <3> QED BY <3>1, <3>2 DEF Injection, IsInjective
  <2>3. IsFiniteSet(0 .. (c - 1)) /\ Cardinality(0 .. (c - 1)) = c
    BY <1>1, IntervalCard
  <2> HIDE DEF f
  <2> QED BY <2>2, <2>3, FS_Injection
<1>4. Cardinality(B) >= c
  <2>1. CASE c = 0 BY <2>1, <1>2
  <2>2. CASE c > 0
    <3>1. InPlace(c - 1) BY <2>2, NextFreeFacts
    <3> QED BY <3>1, <1>1, <1>2 DEF InPlace
  <2> QED BY <2>1, <2>2, <1>1
<1> SUFFICES ASSUME NEW d \in Disks, counter[d] = c PROVE FALSE OBVIOUS
<1>5. d \notin B BY <1>1 DEF RowsUpTo
<1>6. Cardinality(B \cup {d}) = Cardinality(B) + 1 BY <1>2, <1>5, FS_AddElement
<1>7. B \cup {d} \in SUBSET RowsUpTo(c) BY <1>1 DEF RowsUpTo
<1>8. IsFiniteSet(RowsUpTo(c)) /\ Cardinality(RowsUpTo(c)) \in Nat BY <1>1, RowsFacts
<1>9. Cardinality(B \cup {d}) <= Cardinality(RowsUpTo(c)) BY <1>7, <1>8, FS_Subset
<1>10. InPlace(c) BY <1>1, <1>2, <1>3, <1>4, <1>6, <1>8, <1>9 DEF InPlace
<1> QED BY <1>10, NextFreeFacts

-----------------------------------------------------------------------------
(* TypeOK and Busy: the processes.                                         *)

\* What CounterInv and the pool are about.
counterVars == <<live, removed, counter, web, raced>>

\* The steps that matter to the counters: all others leave them alone.
LEMMA JobStepCounters ==
  ASSUME NEW p \in Workers, JobStep(p)
  PROVE  \/ proc[p].pc # "idle" /\ DropRow(proc[p].d) /\ UNCHANGED <<web, raced>>
         \/ UNCHANGED counterVars
<1> USE DEF counterVars
<1>1. CASE \E s \in Sides : Allocate(p, s) \/ LinkChild(p, s) \/ SaveConfig(p, s)
                            \/ RemoveChild(p, s) \/ RemoveChildFails(p, s)
  BY <1>1 DEF Allocate, LinkChild, SaveConfig, RemoveChild, RemoveChildFails, dbVars, histVars
<1>2. CASE \/ PacemakerAdd(p, "start", "Started", "wait")
           \/ PacemakerAdd(p, "stop", "Stopped", "drain")
           \/ AllocateFails(p) \/ JobFails(p) \/ SaveVm(p)
  BY <1>2 DEF PacemakerAdd, AllocateFails, JobFails, SaveVm, dbVars, histVars
<1>3. CASE WaitConnected(p) \/ WaitDisconnected(p) \/ Unconfigure(p)
  BY <1>3 DEF WaitConnected, WaitDisconnected, Unconfigure, dbVars, histVars
<1>4. CASE DeleteRow(p) BY <1>4 DEF DeleteRow, histVars
<1>5. CASE DropExpired(p) BY <1>5 DEF DropExpired
<1> QED BY <1>1, <1>2, <1>3, <1>4, <1>5 DEF JobStep

\* The idle process has a process's type.
LEMMA IdleFacts == Idle \in Process /\ Idle.pc = "idle"
BY RowsFacts DEF Idle, Process, PCs, Kinds, Counters, NoCounter, Session, Sides

\* What the steps of a job do to its process keeps its type, its disk and the
\* counter it works with.
Keeps(r, x) == x \in Process /\ x.d = r.d /\ x.num = r.num

LEMMA ProcessUpdates ==
  ASSUME NEW r \in Process
  PROVE  \A pc \in PCs, conn \in [Sides -> Session], has \in SUBSET Sides :
           /\ Keeps(r, [r EXCEPT !.pc = pc])
           /\ Keeps(r, [r EXCEPT !.pc = pc, !.conn = conn])
           /\ Keeps(r, [r EXCEPT !.pc = pc, !.has = has, !.conn = conn])
           /\ [r EXCEPT !.pc = pc].pc = pc
           /\ [r EXCEPT !.pc = pc, !.conn = conn].pc = pc
           /\ [r EXCEPT !.pc = pc, !.has = has, !.conn = conn].pc = pc
BY ZenonT(40) DEF Process, Keeps

\* The same for the polls.
LEMMA ProcessPolls ==
  ASSUME NEW r \in Process
  PROVE  /\ \A pc \in PCs : /\ Keeps(r, [r EXCEPT !.pc = pc, !.polls = 0])
                            /\ [r EXCEPT !.pc = pc, !.polls = 0].pc = pc
         /\ r.polls + 1 < MaxPolls => /\ Keeps(r, [r EXCEPT !.polls = @ + 1])
                                      /\ [r EXCEPT !.polls = @ + 1].pc = r.pc
<1>1. r.polls \in 0 .. MaxPolls /\ 0 \in 0 .. MaxPolls BY DEF Process
<1>2. r.polls + 1 < MaxPolls => r.polls + 1 \in 0 .. MaxPolls BY <1>1
<1> QED BY <1>1, <1>2 DEF Process, Keeps

\* Sessions are open or dead, or not there.
LEMMA ConnsType ==
  ASSUME TypeOK, NEW p \in Workers, NEW S
  PROVE  Conns(p, S) \in [Sides -> Session]
<1>1. proc[p].conn \in [Sides -> Session] BY DEF TypeOK, Process
<1>2. \A s \in Sides : ConnTo(p, s) \in Session BY <1>1 DEF ConnTo, Session
<1> QED BY <1>1, <1>2 DEF Conns

\* After the row of its disk is gone a removal only saves and deletes children.
Late == {"save", "removeA", "removeB"}

\* x: the process of p after a step.  It has ended, or goes on with its disk.
Onward(p, x) ==
  \/ x = Idle
  \/ /\ proc[p].pc # "idle"
     /\ Keeps(proc[p], x)
     /\ x.pc \in Late \/ (proc[p].pc \notin Late /\ UNCHANGED <<live, counter>>)

\* The process of a job after each of its steps (StartJob has a lemma below).
LEMMA JobStepProcess ==
  ASSUME TypeOK, NEW p \in Workers, JobStep(p)
  PROVE  \E x \in Process : Becomes(p, x) /\ Onward(p, x)
<1> USE IdleFacts
<1> DEFINE r == proc[p]
           Goes(x) == /\ Becomes(p, x) /\ Keeps(r, x) /\ r.pc # "idle"
                      /\ x.pc \in Late \/ (r.pc \notin Late /\ UNCHANGED <<live, counter>>)
<1>1. r \in Process BY DEF TypeOK
<1>2. \A S : Conns(p, S) \in [Sides -> Session] BY ConnsType
<1>3. r.has \in SUBSET Sides BY <1>1 DEF Process
<1>4. ASSUME NEW x, Goes(x) \/ Becomes(p, Idle)
      PROVE  \E y \in Process : Becomes(p, y) /\ Onward(p, y)
  BY <1>4 DEF Onward, Keeps
<1> HIDE DEF r
<1>13. CASE \E s \in Sides : Allocate(p, s)
  <2> PICK s \in Sides : Allocate(p, s) BY <1>13
  <2> DEFINE x == [r EXCEPT !.pc = LinkPc[s]]
  <2>1. LinkPc[s] \in PCs BY DEF LinkPc, Sides, PCs
  <2>2. Becomes(p, x) /\ UNCHANGED <<live, counter>> BY DEF Allocate, r
  <2>3. r.pc # "idle" /\ r.pc \notin Late BY DEF Allocate, AllocatePc, Sides, Late, r
  <2>4. Keeps(r, x) BY <1>1, <1>2, <1>3, <2>1, ProcessUpdates
  <2> HIDE DEF x
  <2>5. Goes(x) BY <2>2, <2>3, <2>4
  <2> QED BY <2>5, <1>4
<1>5. CASE \E s \in Sides : LinkChild(p, s)
  <2> PICK s \in Sides : LinkChild(p, s) BY <1>5
  <2> DEFINE pc == IF s = "A" THEN "allocateB" ELSE "configA"
             x == [r EXCEPT !.pc = pc, !.has = r.has \cup {s}, !.conn = Conns(p, {s})]
  <2>1. pc \in PCs BY DEF PCs
  <2>2. r.has \cup {s} \in SUBSET Sides /\ Conns(p, {s}) \in [Sides -> Session] BY <1>2, <1>3
  <2>3. Becomes(p, x) /\ UNCHANGED <<live, counter>> BY DEF LinkChild, r
  <2>4. r.pc # "idle" /\ r.pc \notin Late BY DEF LinkChild, LinkPc, Sides, Late, r
  <2> HIDE DEF pc
  <2>5. Keeps(r, x) BY <1>1, <2>1, <2>2, ProcessUpdates
  <2> HIDE DEF x
  <2>6. Goes(x) BY <2>3, <2>4, <2>5
  <2> QED BY <2>6, <1>4
<1>6. CASE \E s \in Sides : SaveConfig(p, s)
  <2> PICK s \in Sides : SaveConfig(p, s) BY <1>6
  <2> DEFINE pc == IF s = "A" THEN "configB" ELSE "start"
             x == [r EXCEPT !.pc = pc, !.conn = Conns(p, Sides)]
  <2>1. pc \in PCs BY DEF PCs
  <2>2. Becomes(p, x) /\ UNCHANGED <<live, counter>> BY DEF SaveConfig, dbVars, r
  <2>3. r.pc # "idle" /\ r.pc \notin Late BY DEF SaveConfig, ConfigPc, Sides, Late, r
  <2> HIDE DEF pc
  <2>4. Keeps(r, x) BY <1>1, <1>2, <1>3, <2>1, ProcessUpdates
  <2> HIDE DEF x
  <2>5. Goes(x) BY <2>2, <2>3, <2>4
  <2> QED BY <2>5, <1>4
<1>7. CASE \E s \in Sides : RemoveChild(p, s)
  <2> PICK s \in Sides : RemoveChild(p, s) BY <1>7
  <2> DEFINE x == [r EXCEPT !.pc = "removeB", !.conn = Conns(p, {s})]
  <2>1. Becomes(p, x) \/ Becomes(p, Idle) BY DEF RemoveChild, r
  <2>2. r.pc # "idle" BY DEF RemoveChild, RemovePc, Sides, r
  <2>3. "removeB" \in PCs /\ "removeB" \in Late BY DEF PCs, Late
  <2>4. Keeps(r, x) /\ x.pc = "removeB" BY <1>1, <1>2, <1>3, <2>3, ProcessUpdates
  <2> HIDE DEF x
  <2>5. Becomes(p, x) => Goes(x) BY <2>2, <2>3, <2>4
  <2> QED BY <2>1, <2>5, <1>4
<1>8. CASE \/ \E s \in Sides : RemoveChildFails(p, s)
           \/ AllocateFails(p) \/ DropExpired(p) \/ JobFails(p)
  <2>1. Becomes(p, Idle)
    BY <1>8 DEF RemoveChildFails, AllocateFails, DropExpired, JobFails
  <2> QED BY <2>1, <1>4
<1>9. CASE \/ PacemakerAdd(p, "start", "Started", "wait")
           \/ PacemakerAdd(p, "stop", "Stopped", "drain")
  <2>1. PICK pc \in {"wait", "drain"} :
          Becomes(p, [r EXCEPT !.pc = pc, !.conn = Conns(p, Sides)])
    BY <1>9 DEF PacemakerAdd, r
  <2> DEFINE x == [r EXCEPT !.pc = pc, !.conn = Conns(p, Sides)]
  <2>2. r.pc # "idle" /\ r.pc \notin Late /\ UNCHANGED <<live, counter>>
    BY <1>9 DEF PacemakerAdd, dbVars, Late, r
  <2>3. pc \in PCs BY DEF PCs
  <2>4. Keeps(r, x) BY <1>1, <1>2, <1>3, <2>3, ProcessUpdates
  <2>5. Becomes(p, x) BY <2>1
  <2> HIDE DEF x
  <2>6. Goes(x) BY <2>2, <2>4, <2>5
  <2> QED BY <2>6, <1>4
<1>10. CASE WaitConnected(p) \/ WaitDisconnected(p)
  <2>1. r.pc \notin Late /\ r.pc # "idle" /\ UNCHANGED <<live, counter>>
    BY <1>10 DEF WaitConnected, WaitDisconnected, dbVars, Late, r
  <2>2. \/ Becomes(p, Idle)
        \/ r.polls + 1 < MaxPolls /\ Becomes(p, [r EXCEPT !.polls = @ + 1])
        \/ \E pc \in {"drop", "unconfigure"} : Becomes(p, [r EXCEPT !.pc = pc, !.polls = 0])
    BY <1>10 DEF WaitConnected, WaitDisconnected, PollAgain, After, r
  <2>3. {"drop", "unconfigure"} \subseteq PCs BY DEF PCs
  <2>4. \A pc \in {"drop", "unconfigure"} : Keeps(r, [r EXCEPT !.pc = pc, !.polls = 0])
    BY <1>1, <2>3, ProcessPolls
  <2>5. r.polls + 1 < MaxPolls => Keeps(r, [r EXCEPT !.polls = @ + 1])
    BY <1>1, ProcessPolls
  <2>6. Becomes(p, Idle) \/ \E x : Becomes(p, x) /\ Keeps(r, x) BY <2>2, <2>4, <2>5
  <2>7. Becomes(p, Idle) \/ \E x : Goes(x) BY <2>1, <2>6
  <2> QED BY <2>7, <1>4
<1>11. CASE Unconfigure(p)
  <2> DEFINE x == [r EXCEPT !.pc = "delete", !.conn = Conns(p, Sides)]
  <2>1. Becomes(p, x) BY <1>11 DEF Unconfigure, After, r
  <2>2. r.pc # "idle" /\ r.pc \notin Late /\ UNCHANGED <<live, counter>>
    BY <1>11 DEF Unconfigure, dbVars, Late, r
  <2>3. "delete" \in PCs BY DEF PCs
  <2>4. Keeps(r, x) BY <1>1, <1>2, <1>3, <2>3, ProcessUpdates
  <2> HIDE DEF x
  <2>5. Goes(x) BY <2>1, <2>2, <2>4
  <2> QED BY <2>5, <1>4
<1>12. CASE DeleteRow(p) \/ SaveVm(p)
  <2>1. PICK pc \in {"save", "removeA"} : Becomes(p, [r EXCEPT !.pc = pc])
    BY <1>12 DEF DeleteRow, SaveVm, After, r
  <2> DEFINE x == [r EXCEPT !.pc = pc]
  <2>2. r.pc # "idle" BY <1>12 DEF DeleteRow, SaveVm, r
  <2>3. pc \in PCs /\ pc \in Late BY DEF PCs, Late
  <2>4. Keeps(r, x) /\ x.pc = pc BY ZenonT(40), <1>1, <1>2, <1>3, <2>3, ProcessUpdates
  <2>5. Becomes(p, x) BY <2>1
  <2> HIDE DEF x
  <2>6. Goes(x) BY <2>2, <2>3, <2>4, <2>5
  <2> QED BY <2>6, <1>4
<1> QED BY <1>5, <1>6, <1>7, <1>8, <1>9, <1>10, <1>11, <1>12, <1>13 DEF JobStep

\* A process that keeps its disk, or becomes idle, keeps Busy.
LEMMA ProcessStep ==
  ASSUME TypeOK, Busy, NEW p \in Workers, NEW r \in Process, Becomes(p, r),
         r.pc # "idle" => r.d \in live \cup removed,
         live \cup removed \subseteq live' \cup removed'
  PROVE  proc' \in [Workers -> Process] /\ Busy'
BY DEF TypeOK, Busy, Becomes

\* Busy and the type of the processes after a job's step.
LEMMA JobStepBusy ==
  ASSUME TypeOK, Busy, NEW p \in Workers, JobStep(p)
  PROVE  proc' \in [Workers -> Process] /\ Busy'
<1>1. PICK x \in Process : Becomes(p, x) /\ Onward(p, x) BY JobStepProcess
<1>2. x.pc # "idle" => x.d \in live \cup removed
  BY <1>1, IdleFacts DEF Onward, Keeps, Busy
<1>3. live \cup removed \subseteq live' \cup removed'
  BY JobStepCounters DEF DropRow, counterVars
<1> QED BY <1>1, <1>2, <1>3, ProcessStep

-----------------------------------------------------------------------------
(* TypeOK: the data.                                                       *)

\* The counters of a request or of a row.
LEMMA CounterRange == NoCounter \notin Counters /\ NextFree \in Counters
BY RowsFacts, NextFreeFacts DEF Counters, NoCounter

\* Reading the counters keeps the types.
LEMMA ReadCountersType ==
  ASSUME TypeOK, NEW w \in Webs, NEW d \in Disks, ReadCounters(w, d)
  PROVE  TypeOK'
<1>1. PICK at \in Places :
        web' = [web EXCEPT ![w] = [d |-> d, at |-> at, num |-> NextFree]]
  BY DEF ReadCounters
<1>2. at \in [Sides -> Nodes \cup {NoNode}] BY DEF Sides
<1>3. [d |-> d, at |-> at, num |-> NextFree] \in Request
  BY <1>2, CounterRange DEF Request
<1>4. web' \in [Webs -> Request] BY <1>1, <1>3 DEF TypeOK
<1>5. raced' \in BOOLEAN BY DEF ReadCounters, TypeOK
<1> QED BY <1>4, <1>5 DEF ReadCounters, TypeOK, dbVars, nodeVars

\* The commit of a request keeps the types.
LEMMA CommitDiskType ==
  ASSUME TypeOK, CounterInv, NEW w \in Webs, CommitDisk(w)
  PROVE  TypeOK'
<1> DEFINE d == web[w].d
<1>1. web[w] # NoRequest /\ web[w] \in Request /\ d \in Disks
  BY DEF CommitDisk, CounterInv, TypeOK
<1>2. web[w].num \in Counters \cup {NoCounter} /\ web[w].at \in [Sides -> Nodes \cup {NoNode}]
  BY <1>1 DEF Request
<1>3. /\ live' = live \cup {d}
      /\ counter' = [counter EXCEPT ![d] = web[w].num]
      /\ place' = [place EXCEPT ![d] = web[w].at]
      /\ web' = [web EXCEPT ![w] = NoRequest]
  BY DEF CommitDisk
<1>4. NoRequest \in Request BY DEF NoRequest, Request
<1> HIDE DEF d
<1>5. queue' \in [Kinds -> [Disks -> Nat]]
  <2>1. queue' = [queue EXCEPT !["persist"][d] = @ + 1] BY DEF CommitDisk, Enqueue, d
  <2>2. queue \in [Kinds -> [Disks -> Nat]] /\ "persist" \in Kinds BY DEF TypeOK, Kinds
  <2> QED BY <2>1, <2>2, <1>1
<1>6. live' \subseteq Disks BY <1>1, <1>3 DEF TypeOK
<1>7. counter' \in [Disks -> Counters \cup {NoCounter}] BY <1>2, <1>3 DEF TypeOK
<1>8. place' \in [Disks -> [Sides -> Nodes \cup {NoNode}]] BY <1>2, <1>3 DEF TypeOK
<1>9. web' \in [Webs -> Request] BY <1>3, <1>4 DEF TypeOK
<1> QED BY <1>5, <1>6, <1>7, <1>8, <1>9 DEF CommitDisk, TypeOK, nodeVars, histVars

\* A taken job has a process's type and a disk.
LEMMA StartJobType ==
  ASSUME TypeOK, Busy, NEW p \in Workers, NEW k \in Kinds, NEW d \in Disks,
         StartJob(p, k, d)
  PROVE  TypeOK' /\ Busy'
<1>1. queue' \in [Kinds -> [Disks -> Nat]]
  <2>1. queue \in [Kinds -> [Disks -> Nat]] /\ queue[k][d] > 0 BY DEF StartJob, TypeOK
  <2>2. queue' = [queue EXCEPT ![k][d] = @ - 1] BY DEF StartJob
  <2> QED BY <2>1, <2>2
<1>2. overlapped' \subseteq Disks BY DEF StartJob, TypeOK
<1>3. proc' \in [Workers -> Process] /\ Busy'
  <2>1. CASE d \in live
    <3> DEFINE pc == IF k = "persist" THEN "allocateA" ELSE "stop"
               r == [Idle EXCEPT !.pc = pc, !.kind = k, !.d = d, !.num = counter[d],
                                 !.has = linked[d]]
    <3>1. pc \in PCs BY DEF PCs
    <3>2. counter[d] \in Counters \cup {NoCounter} /\ linked[d] \in SUBSET Sides
      BY DEF TypeOK
    <3>3. Becomes(p, r) BY <2>1 DEF StartJob
    <3> HIDE DEF pc
    <3>4. r \in Process /\ r.d = d BY <3>1, <3>2, IdleFacts DEF Process
    <3>5. UNCHANGED <<live, removed>> BY DEF StartJob
    <3> HIDE DEF r
    <3> QED BY <2>1, <3>3, <3>4, <3>5, ProcessStep
  <2>2. CASE d \notin live BY <2>2 DEF StartJob, TypeOK, Busy
  <2> QED BY <2>1, <2>2
<1> QED BY <1>1, <1>2, <1>3 DEF StartJob, TypeOK, nodeVars

\* The row that a removal deletes.
LEMMA DropRowType ==
  ASSUME TypeOK, NEW d \in Disks, DropRow(d)
  PROVE  /\ live' \subseteq Disks /\ removed' \subseteq Disks
         /\ counter' \in [Disks -> Counters \cup {NoCounter}]
         /\ linked' \in [Disks -> SUBSET Sides]
BY DEF DropRow, TypeOK

\* A file written on a node.
LEMMA ConfigUpdate ==
  ASSUME TypeOK, NEW n, NEW c, NEW d \in Disks \cup {NoDisk}
  PROVE  [config EXCEPT ![n][c] = d] \in [Nodes -> [Counters -> Disks \cup {NoDisk}]]
<1>1. config \in [Nodes -> [Counters -> Disks \cup {NoDisk}]] BY DEF TypeOK
<1>2. \A m \in Nodes : [config[m] EXCEPT ![c] = d] \in [Counters -> Disks \cup {NoDisk}]
  BY <1>1
<1> QED BY <1>1, <1>2

\* A job's step keeps the types.
LEMMA JobStepType ==
  ASSUME TypeOK, Busy, NEW p \in Workers, JobStep(p)
  PROVE  TypeOK' /\ Busy'
<1> DEFINE d == proc[p].d
<1>1. proc' \in [Workers -> Process] /\ Busy' BY JobStepBusy
<1>2. proc[p].pc # "idle" => d \in Disks BY DEF Busy, TypeOK
<1>3. proc[p] \in Process /\ d \in Disks \cup {NoDisk} BY DEF TypeOK, Process
<1> HIDE DEF d
<1> USE <1>1
<1>12. CASE \E s \in Sides : Allocate(p, s)
  <2> PICK s \in Sides : Allocate(p, s) BY <1>12
  <2>1. child' = [child EXCEPT ![d][s] = "hidden"] BY DEF Allocate, d
  <2>2. child' \in [Disks -> [Sides -> {"none", "hidden", "shown"}]]
    BY <2>1 DEF TypeOK
  <2> QED BY <2>2 DEF Allocate, TypeOK, nodeVars, histVars
<1>4. CASE \E s \in Sides : LinkChild(p, s)
  <2> PICK s \in Sides : LinkChild(p, s) BY <1>4
  <2>1. linked' = [linked EXCEPT ![d] = @ \cup {s}] BY DEF LinkChild, d
  <2>2. linked' \in [Disks -> SUBSET Sides] BY <2>1 DEF TypeOK
  <2>3. PICK made \in BOOLEAN : volume' = [volume EXCEPT ![d][s] = made]
    BY DEF LinkChild, d
  <2>4. volume' \in [Disks -> [Sides -> BOOLEAN]] BY <2>3 DEF TypeOK
  <2> QED BY <2>2, <2>4 DEF LinkChild, TypeOK, histVars
<1>5. CASE \E s \in Sides : SaveConfig(p, s)
  <2> PICK s \in Sides : SaveConfig(p, s) BY <1>5
  <2>1. config' = [config EXCEPT ![NodeOf(p, s)][proc[p].num] = d] \/ config' = config
    BY DEF SaveConfig, d
  <2>2. config' \in [Nodes -> [Counters -> Disks \cup {NoDisk}]]
    <3>1. \A n, c : [config EXCEPT ![n][c] = d] \in [Nodes -> [Counters -> Disks \cup {NoDisk}]]
      BY <1>3, ConfigUpdate
    <3> QED BY <2>1, <3>1 DEF TypeOK
  <2>3. spent' \in [BudgetNames -> Nat] BY DEF SaveConfig, Spend, TypeOK
  <2> QED BY <2>2, <2>3 DEF SaveConfig, TypeOK, dbVars
<1>6. CASE \/ PacemakerAdd(p, "start", "Started", "wait")
           \/ PacemakerAdd(p, "stop", "Stopped", "drain")
  <2>1. PICK state \in {"Started", "Stopped"} :
          role' = [role EXCEPT ![proc[p].num] = state] \/ role' = role
    BY <1>6 DEF PacemakerAdd
  <2>2. role' \in [Counters -> {"none", "Started", "Stopped"}] BY <2>1 DEF TypeOK
  <2>3. spent' \in [BudgetNames -> Nat] BY <1>6 DEF PacemakerAdd, Spend, TypeOK
  <2> QED BY <1>6, <2>2, <2>3 DEF PacemakerAdd, TypeOK, dbVars
<1>7. CASE Unconfigure(p)
  <2>1. config' \in [Nodes -> [Counters -> Disks \cup {NoDisk}]]
    BY <1>7 DEF Unconfigure, TypeOK
  <2>2. role' \in [Counters -> {"none", "Started", "Stopped"}]
    BY <1>7 DEF Unconfigure, TypeOK
  <2> QED BY <1>7, <2>1, <2>2 DEF Unconfigure, TypeOK, dbVars, histVars
<1>8. CASE DeleteRow(p)
  <2>1. d \in Disks BY <1>8, <1>2 DEF DeleteRow
  <2>2. DropRow(d) /\ child' = [child EXCEPT ![d] = Shown(d)] BY <1>8 DEF DeleteRow, d
  <2>3. Shown(d) \in [Sides -> {"none", "hidden", "shown"}] BY <2>1 DEF Shown, TypeOK
  <2>4. child' \in [Disks -> [Sides -> {"none", "hidden", "shown"}]]
    BY <2>2, <2>3 DEF TypeOK
  <2> QED BY <1>8, <2>1, <2>2, <2>4, DropRowType DEF DeleteRow, TypeOK, nodeVars, histVars
<1>9. CASE DropExpired(p)
  <2>1. d \in Disks BY <1>9, <1>2 DEF DropExpired
  <2>2. DropRow(d) /\ expired' = expired \cup {d} BY <1>9 DEF DropExpired, d
  <2> QED BY <1>9, <2>1, <2>2, DropRowType DEF DropExpired, TypeOK, nodeVars
<1>10. CASE \E s \in Sides : RemoveChild(p, s)
  <2> PICK s \in Sides : RemoveChild(p, s) BY <1>10
  <2>1. volume' = [volume EXCEPT ![d][s] = @ /\ ~Reaches(p, s)] BY DEF RemoveChild, d
  <2>2. volume' \in [Disks -> [Sides -> BOOLEAN]] BY <2>1 DEF TypeOK
  <2>3. child' = [child EXCEPT ![d][s] = "none"] BY DEF RemoveChild, d
  <2>4. child' \in [Disks -> [Sides -> {"none", "hidden", "shown"}]]
    BY <2>3 DEF TypeOK
  <2> QED BY <2>2, <2>4 DEF RemoveChild, TypeOK, histVars
<1>11. CASE \/ \E s \in Sides : RemoveChildFails(p, s)
            \/ AllocateFails(p) \/ JobFails(p) \/ SaveVm(p)
            \/ WaitConnected(p) \/ WaitDisconnected(p)
  <2>1. UNCHANGED <<dbVars, nodeVars, web, histVars>>
    BY <1>11 DEF RemoveChildFails, AllocateFails, JobFails, SaveVm, WaitConnected,
                 WaitDisconnected
  <2> QED BY <2>1 DEF TypeOK, dbVars, nodeVars, histVars
<1> QED BY <1>4, <1>5, <1>6, <1>7, <1>8, <1>9, <1>10, <1>11, <1>12 DEF JobStep

\* A killed process is idle, and nothing it was about to do has happened.
LEMMA KillFacts ==
  ASSUME TypeOK, Busy, NEW p \in Workers, Kill(p)
  PROVE  /\ TypeOK' /\ Busy'
         /\ proc'[p] = Idle /\ \A q \in Workers : q # p => proc'[q] = proc[q]
         /\ stranded \subseteq stranded'
         /\ \A s \in Sides : proc[p].pc = LinkPc[s] => <<proc[p].d, s>> \in stranded'
         /\ UNCHANGED <<dbVars, nodeVars, web, raced, overlapped, expired>>
<1>1. UNCHANGED <<dbVars, nodeVars, web, raced, overlapped, expired>> BY DEF Kill
<1>2. proc' = [proc EXCEPT ![p] = Idle] BY DEF Kill, Becomes
<1>3. proc' \in [Workers -> Process] BY <1>2, IdleFacts DEF TypeOK
<1>4. proc'[p] = Idle /\ \A q \in Workers : q # p => proc'[q] = proc[q]
  BY <1>2 DEF TypeOK
<1>5. Busy' BY <1>1, <1>4, IdleFacts DEF Busy, dbVars
<1>6. proc[p].d \in Disks BY DEF Kill, Busy, TypeOK
<1>7. stranded' = stranded \cup
        {<<proc[p].d, s>> : s \in {t \in Sides : proc[p].pc = LinkPc[t]}}
  BY DEF Kill
<1>8. stranded' \subseteq Disks \X Sides BY <1>6, <1>7 DEF TypeOK
<1>9. spent' \in [BudgetNames -> Nat]
  <2>1. spent' = [spent EXCEPT !["kill"] = @ + 1] BY DEF Kill, Spend
  <2> QED BY <2>1 DEF TypeOK, BudgetNames
<1>10. TypeOK' BY <1>1, <1>3, <1>8, <1>9 DEF TypeOK, dbVars, nodeVars
<1> QED BY <1>1, <1>4, <1>5, <1>7, <1>10

\* A step of the nodes, of pacemaker or of DRBD keeps the types.
LEMMA EnvironmentType ==
  ASSUME TypeOK, EnvironmentStep
  PROVE  TypeOK'
<1>1. CASE \E n \in Nodes : NodeDown(n) \/ NodeUp(n)
  BY <1>1 DEF NodeDown, NodeUp, Spend, TypeOK, dbVars, histVars
<1>2. CASE \E c \in Counters : ResourceUp(c) \/ LinkStep(c) \/ ResourceDown(c)
  <2> PICK c \in Counters : ResourceUp(c) \/ LinkStep(c) \/ ResourceDown(c) BY <1>2
  <2>1. PICK new \in Links : link' = [link EXCEPT ![c] = new]
    <3>1. CASE ResourceUp(c) \/ ResourceDown(c)
      BY <3>1 DEF ResourceUp, ResourceDown, Links
    <3>2. CASE LinkStep(c)
      <4>1. link[c] \in {"waiting", "syncing", "connected"}
        BY <3>2 DEF LinkStep, Up, TypeOK, Links
      <4> QED BY <3>2, <4>1 DEF LinkStep, Links
    <3> QED BY <3>1, <3>2
  <2>2. link' \in [Counters -> Links] BY <2>1 DEF TypeOK
  <2> QED BY <2>2 DEF ResourceUp, LinkStep, ResourceDown, TypeOK, dbVars, histVars
<1> QED BY <1>1, <1>2 DEF EnvironmentStep

-----------------------------------------------------------------------------
(* The inductive invariant.                                                *)

\* The environment and the start of a job leave the counters alone.
LEMMA OtherStepCounters ==
  ASSUME \/ EnvironmentStep
         \/ \E p \in Workers, k \in Kinds, d \in Disks : StartJob(p, k, d)
         \/ \E d \in Disks : RequestRemove(d)
  PROVE  UNCHANGED counterVars
BY DEF EnvironmentStep, StartJob, RequestRemove, NodeDown, NodeUp, ResourceUp, LinkStep,
       ResourceDown, dbVars, histVars, counterVars

\* CounterInv is preserved when a request reads the counters: without a race
\* the value read has no user (NextFreeUnused).
LEMMA ReadCountersInv ==
  ASSUME TypeOK, CounterInv, NEW w \in Webs, NEW d \in Disks, ReadCounters(w, d)
  PROVE  CounterInv'
<1>1. PICK at \in Places :
        web' = [web EXCEPT ![w] = [d |-> d, at |-> at, num |-> NextFree]]
  BY DEF ReadCounters
<1> DEFINE r == [d |-> d, at |-> at, num |-> NextFree]
<1>2. r.d = d /\ r.num = NextFree OBVIOUS
<1>3. web' = [web EXCEPT ![w] = r] /\ web \in [Webs -> Request] BY <1>1 DEF TypeOK
<1> HIDE DEF r
<1>4. web'[w] = r /\ \A x \in Webs : x # w => web'[x] = web[x] BY <1>3
<1>5. UNCHANGED <<live, removed, counter>> BY DEF ReadCounters, dbVars
<1>6. web[w] = NoRequest /\ d \in Disks \ (live \cup removed) /\ \A x \in Webs : web[x].d # d
  BY DEF ReadCounters
<1>7. raced' = (raced \/ \E x \in Webs : web[x] # NoRequest) BY DEF ReadCounters
<1>8. NextFree \in Counters BY CounterRange
<1>9. (\A e \in Disks : counter[e] # NoCounter <=> e \in live)'
  BY <1>5 DEF CounterInv
<1>10. (\A x \in Webs : web[x] # NoRequest =>
          web[x].d \in Disks \ (live \cup removed) /\ web[x].num \in Counters)'
  BY <1>2, <1>4, <1>5, <1>6, <1>8 DEF CounterInv
<1>11. (\A x, y \in Webs : web[x] # NoRequest /\ web[y].d = web[x].d => x = y)'
  BY <1>2, <1>4, <1>6 DEF CounterInv
<1>12. ASSUME ~raced'
       PROVE  (/\ \A e, f \in live : counter[e] = counter[f] => e = f
               /\ \A x \in Webs, e \in live : web[x] # NoRequest => counter[e] # web[x].num
               /\ \A x, y \in Webs : web[x] # NoRequest /\ web[y] # NoRequest => x = y)'
  <2>1. ~raced /\ \A x \in Webs : web[x] = NoRequest BY <1>7, <1>12
  <2>2. \A e, f \in live : counter[e] = counter[f] => e = f BY <2>1 DEF CounterInv
  <2>3. \A e \in Disks : counter[e] # NextFree
    BY <2>2, NextFreeUnused DEF CounterInv, TypeOK
  <2>4. live \subseteq Disks BY DEF TypeOK
  <2> QED BY <2>1, <2>2, <2>3, <2>4, <1>2, <1>4, <1>5
<1> QED BY <1>9, <1>10, <1>11, <1>12 DEF CounterInv

\* CounterInv is preserved when a request commits.
LEMMA CommitDiskInv ==
  ASSUME TypeOK, CounterInv, NEW w \in Webs, CommitDisk(w)
  PROVE  CounterInv'
<1> DEFINE d == web[w].d
           n == web[w].num
<1>1. /\ web[w] # NoRequest
      /\ live' = live \cup {d}
      /\ counter' = [counter EXCEPT ![d] = n]
      /\ web' = [web EXCEPT ![w] = NoRequest]
      /\ UNCHANGED <<removed, raced>>
  BY DEF CommitDisk, histVars
<1>2. d \in Disks \ (live \cup removed) /\ n \in Counters BY <1>1 DEF CounterInv
<1>3. \A x \in Webs : web[x].d = d => x = w BY <1>1 DEF CounterInv
<1>4. NoRequest.d \notin Disks BY DEF NoRequest
<1> HIDE DEF d, n
<1>5. web'[w] = NoRequest /\ \A x \in Webs : x # w => web'[x] = web[x]
  BY <1>1 DEF TypeOK
<1>6. counter'[d] = n /\ \A e \in Disks : e # d => counter'[e] = counter[e]
  BY <1>1, <1>2 DEF TypeOK
<1>7. (\A e \in Disks : counter[e] # NoCounter <=> e \in live)'
  BY <1>1, <1>2, <1>6, CounterRange DEF CounterInv
<1>8. (\A x \in Webs : web[x] # NoRequest =>
         web[x].d \in Disks \ (live \cup removed) /\ web[x].num \in Counters)'
  BY <1>1, <1>3, <1>5 DEF CounterInv
<1>9. (\A x, y \in Webs : web[x] # NoRequest /\ web[y].d = web[x].d => x = y)'
  BY <1>4, <1>5, <1>8 DEF CounterInv
<1>10. ASSUME ~raced'
       PROVE  (/\ \A e, f \in live : counter[e] = counter[f] => e = f
               /\ \A x \in Webs, e \in live : web[x] # NoRequest => counter[e] # web[x].num
               /\ \A x, y \in Webs : web[x] # NoRequest /\ web[y] # NoRequest => x = y)'
  <2>1. ~raced BY <1>1, <1>10
  <2>2. \A x \in Webs : web'[x] = NoRequest BY <1>1, <1>5, <2>1 DEF CounterInv
  <2>3. \A e \in live : e \in Disks /\ counter[e] # n
    BY <1>1, <2>1 DEF CounterInv, TypeOK, n
  <2>4. \A e, f \in live : counter[e] = counter[f] => e = f BY <2>1 DEF CounterInv
  <2> QED BY <1>1, <1>6, <2>2, <2>3, <2>4
<1> QED BY <1>7, <1>8, <1>9, <1>10 DEF CounterInv

\* CounterInv is preserved when a removal deletes the row.
LEMMA DropRowInv ==
  ASSUME TypeOK, CounterInv, NEW d \in live \cup removed, DropRow(d),
         UNCHANGED <<web, raced>>
  PROVE  CounterInv'
<1>1. /\ live' = live \ {d} /\ removed' = removed \cup {d}
      /\ counter' = [counter EXCEPT ![d] = NoCounter]
  BY DEF DropRow
<1>2. live \subseteq Disks /\ d \in Disks BY DEF TypeOK
<1>3. counter'[d] = NoCounter /\ \A e \in Disks : e # d => counter'[e] = counter[e]
  BY <1>1, <1>2 DEF TypeOK
<1>4. (\A e \in Disks : counter[e] # NoCounter <=> e \in live)'
  BY <1>1, <1>3 DEF CounterInv
<1>5. (\A x \in Webs : web[x] # NoRequest =>
         web[x].d \in Disks \ (live \cup removed) /\ web[x].num \in Counters)'
  <2> SUFFICES ASSUME NEW x \in Webs, web[x] # NoRequest
               PROVE  web[x].d \in Disks \ (live' \cup removed') /\ web[x].num \in Counters
    OBVIOUS
  <2>1. web[x].d \in Disks \ (live \cup removed) /\ web[x].num \in Counters
    BY DEF CounterInv
  <2>2. web[x].d # d BY <2>1
  <2> QED BY <1>1, <2>1, <2>2
<1> QED BY <1>1, <1>2, <1>3, <1>4, <1>5 DEF CounterInv

Inv == TypeOK /\ Busy /\ CounterInv

\* The initial states satisfy the invariant.
LEMMA InitInv == Init => Inv
<1> SUFFICES ASSUME Init PROVE Inv OBVIOUS
<1>1. NoRequest \in Request BY DEF NoRequest, Request
<1>2. TypeOK BY <1>1, IdleFacts DEF Init, TypeOK, Links
<1>3. Busy BY IdleFacts DEF Init, Busy
<1>4. CounterInv BY DEF Init, CounterInv
<1> QED BY <1>2, <1>3, <1>4 DEF Inv

\* Every step keeps it.
LEMMA StepInv == Inv /\ [Next]_vars => Inv'
<1> SUFFICES ASSUME TypeOK, Busy, CounterInv, [Next]_vars PROVE TypeOK' /\ Busy' /\ CounterInv'
  BY DEF Inv
<1>1. ASSUME UNCHANGED counterVars PROVE CounterInv'
  BY <1>1 DEF CounterInv, counterVars
<1>2. ASSUME NEW w \in Webs, CommitDisk(w) PROVE TypeOK' /\ Busy' /\ CounterInv'
  <2>1. Busy' BY <1>2 DEF CommitDisk, Busy
  <2> QED BY <2>1, <1>2, CommitDiskType, CommitDiskInv
<1>3. ASSUME NEW w \in Webs, NEW d \in Disks, ReadCounters(w, d)
      PROVE  TypeOK' /\ Busy' /\ CounterInv'
  <2>1. Busy' BY <1>3 DEF ReadCounters, Busy, dbVars
  <2> QED BY <2>1, <1>3, ReadCountersType, ReadCountersInv
<1>4. ASSUME NEW d \in Disks, RequestRemove(d) PROVE TypeOK' /\ Busy' /\ CounterInv'
  <2>1. queue' = [queue EXCEPT !["remove"][d] = @ + 1] BY <1>4 DEF RequestRemove, Enqueue
  <2>2. spent' = [spent EXCEPT !["remove"] = @ + 1] BY <1>4 DEF RequestRemove, Spend
  <2>4. queue' \in [Kinds -> [Disks -> Nat]] BY <2>1 DEF TypeOK, Kinds
  <2>5. spent' \in [BudgetNames -> Nat] BY <2>2 DEF TypeOK, BudgetNames
  <2>3. TypeOK' /\ Busy' BY <1>4, <2>4, <2>5 DEF RequestRemove, TypeOK, Busy, nodeVars
  <2> QED BY <2>3, <1>1, <1>4, OtherStepCounters
<1>5. ASSUME NEW p \in Workers, JobStep(p) PROVE TypeOK' /\ Busy' /\ CounterInv'
  <2>1. TypeOK' /\ Busy' BY <1>5, JobStepType
  <2>2. CASE proc[p].pc # "idle" /\ DropRow(proc[p].d) /\ UNCHANGED <<web, raced>>
    BY <2>1, <2>2, DropRowInv DEF Busy
  <2> QED BY <2>1, <2>2, <1>1, <1>5, JobStepCounters
<1>6. ASSUME NEW p \in Workers, NEW k \in Kinds, NEW d \in Disks, StartJob(p, k, d)
      PROVE  TypeOK' /\ Busy' /\ CounterInv'
  BY <1>6, <1>1, StartJobType, OtherStepCounters
<1>7. CASE EnvironmentStep
  <2>1. UNCHANGED <<proc, live, removed>>
    BY <1>7 DEF EnvironmentStep, NodeDown, NodeUp, ResourceUp, LinkStep, ResourceDown, dbVars
  <2> QED BY <1>7, <2>1, <1>1, EnvironmentType, OtherStepCounters DEF Busy
<1>9. ASSUME NEW p \in Workers, Kill(p) PROVE TypeOK' /\ Busy' /\ CounterInv'
  <2>1. TypeOK' /\ Busy' /\ UNCHANGED counterVars
    BY <1>9, KillFacts DEF dbVars, counterVars
  <2> QED BY <2>1, <1>1
<1>8. CASE UNCHANGED vars
  <2>1. UNCHANGED counterVars BY <1>8 DEF vars, dbVars, histVars, counterVars
  <2>2. TypeOK' /\ Busy' BY <1>8 DEF vars, dbVars, nodeVars, histVars, TypeOK, Busy
  <2> QED BY <2>1, <2>2, <1>1
<1> QED BY <1>2, <1>3, <1>4, <1>5, <1>6, <1>7, <1>8, <1>9 DEF Next, WebStep

\* The inductive invariant holds in every state of every behaviour.
LEMMA Invariant == Spec => []Inv
BY InitInv, StepInv, PTL DEF Spec

\* Type correctness of the DRBD disks, their requests and their jobs.
THEOREM TypeCorrect == Spec => []TypeOK
<1>1. Inv => TypeOK BY DEF Inv
<1> QED BY <1>1, Invariant, PTL

\* Disks never share a counter value (a resource, a port, a device), for every
\* number of disks, requests, jobs and failures, unless two requests read the
\* counters at the same time (getNextFreeDrbdCountByCluster, postPersist).
THEOREM DistinctCounters == Spec => []CountersDistinct
<1>1. Inv => CountersDistinct BY DEF Inv, CounterInv, CountersDistinct
<1> QED BY <1>1, Invariant, PTL

-----------------------------------------------------------------------------
(* The refinement.                                                         *)

\* A step of the disks takes a value from the pool, gives one back or leaves
\* the pool alone.
LEMMA PoolStep ==
  ASSUME Inv, ~raced, [Next]_vars
  PROVE  [Pool!Next]_counter
<1> USE DEF Inv
<1>1. ASSUME NEW w \in Webs, CommitDisk(w) PROVE Pool!Next
  <2> DEFINE d == web[w].d
             n == web[w].num
  <2>1. /\ web[w] # NoRequest
        /\ counter' = [counter EXCEPT ![d] = n]
    BY <1>1 DEF CommitDisk
  <2>2. d \in Disks \ live /\ n \in Counters BY <2>1 DEF CounterInv
  <2>3. \A e \in live : counter[e] # n BY <2>1 DEF CounterInv
  <2> HIDE DEF d, n
  <2>4. \A e \in Disks : counter[e] # n BY <2>2, <2>3, CounterRange DEF CounterInv
  <2>5. counter[d] = NoCounter BY <2>2 DEF CounterInv
  <2>6. Pool!Take(d) BY <2>1, <2>2, <2>4, <2>5 DEF Pool!Take
  <2> QED BY <2>2, <2>6 DEF Pool!Next
<1>2. ASSUME NEW p \in Workers, JobStep(p) PROVE Pool!Next \/ UNCHANGED counter
  <2>1. CASE UNCHANGED counterVars BY <2>1 DEF counterVars
  <2>2. CASE proc[p].pc # "idle" /\ DropRow(proc[p].d)
    <3> DEFINE d == proc[p].d
    <3>1. d \in Disks BY <2>2 DEF Busy, TypeOK
    <3>2. counter' = [counter EXCEPT ![d] = NoCounter] BY <2>2 DEF DropRow
    <3> HIDE DEF d
    <3>3. CASE counter[d] = NoCounter
      <4>1. counter' = counter BY <3>1, <3>2, <3>3 DEF TypeOK
      <4> QED BY <4>1
    <3>4. CASE counter[d] # NoCounter
      <4>1. Pool!GiveBack(d) BY <3>2, <3>4 DEF Pool!GiveBack
      <4> QED BY <4>1, <3>1 DEF Pool!Next
    <3> QED BY <3>3, <3>4
  <2> QED BY <1>2, <2>1, <2>2, JobStepCounters
<1>3. ASSUME NEW w \in Webs, NEW d \in Disks, ReadCounters(w, d) PROVE UNCHANGED counter
  BY <1>3 DEF ReadCounters, dbVars
<1>4. CASE \/ EnvironmentStep
           \/ \E p \in Workers, k \in Kinds, d \in Disks : StartJob(p, k, d)
           \/ \E d \in Disks : RequestRemove(d)
  BY <1>4, OtherStepCounters DEF counterVars
<1>5. CASE UNCHANGED vars BY <1>5 DEF vars, dbVars
<1>6. ASSUME NEW p \in Workers, Kill(p) PROVE UNCHANGED counter
  BY <1>6 DEF Kill, dbVars
<1> QED BY <1>1, <1>2, <1>3, <1>4, <1>5, <1>6 DEF Next, WebStep

\* Until two web requests read the counters at once, the counters are a pool
\* whose values have one user each, whatever jobs, nodes and failures do
\* (CounterPool).
THEOREM PoolRefined == Spec => CountersPool
<1>1. Init => Pool!Init BY DEF Init, Pool!Init
<1>2. Inv /\ [Next]_vars => [raced \/ Pool!Next]_counter BY PoolStep
<1> QED BY <1>1, <1>2, Invariant, PTL DEF Spec, CountersPool

-----------------------------------------------------------------------------
(* The child disks.                                                        *)

\* The child of side s of disk d has somebody who knows of it.
Owned(d, s) == \/ s \in linked[d]
               \/ \E p \in Workers : proc[p].d = d /\ proc[p].pc = LinkPc[s]
               \/ <<d, s>> \in stranded
               \/ d \in expired

\* Who has an owner keeps it in a step of p, unless p was about to link it or
\* the row that named it is gone.
LEMMA OwnerStays ==
  ASSUME NEW d \in Disks, NEW s \in Sides, NEW p \in Workers, Owned(d, s),
         s \in linked[d] => s \in linked'[d],
         stranded \subseteq stranded', expired \subseteq expired',
         proc[p].d # d \/ proc[p].pc # LinkPc[s],
         \A q \in Workers : q # p => proc'[q] = proc[q]
  PROVE  Owned(d, s)'
BY DEF Owned

\* A step of a job keeps every hidden child named.
LEMMA JobStepOwner ==
  ASSUME TypeOK, Busy, HiddenHaveOwner, NEW p \in Workers, JobStep(p)
  PROVE  HiddenHaveOwner'
<1> DEFINE e == proc[p].d
<1> SUFFICES ASSUME NEW d \in Disks, NEW s \in Sides, child'[d][s] = "hidden"
             PROVE  Owned(d, s)'
  BY DEF HiddenHaveOwner, Owned
<1>1. /\ child \in [Disks -> [Sides -> {"none", "hidden", "shown"}]]
      /\ linked \in [Disks -> SUBSET Sides]
  BY DEF TypeOK
<1>2. child[d][s] = "hidden" => Owned(d, s) BY DEF HiddenHaveOwner, Owned
<1>3. PICK x \in Process : proc' = [proc EXCEPT ![p] = x]
  BY JobStepProcess DEF Becomes
<1>4. proc'[p] = x /\ \A q \in Workers : q # p => proc'[q] = proc[q]
  BY <1>3 DEF TypeOK
<1>5. ASSUME child[d][s] = "hidden", s \in linked[d] => s \in linked'[d],
             UNCHANGED stranded, expired \subseteq expired',
             e # d \/ proc[p].pc # LinkPc[s]
      PROVE  Owned(d, s)'
  BY <1>2, <1>4, <1>5, OwnerStays
<1>6. LinkPc[s] \in {"linkA", "linkB"} BY DEF LinkPc, Sides
<1>7. CASE \E t \in Sides : Allocate(p, t)
  <2> PICK t \in Sides : Allocate(p, t) BY <1>7
  <2>1. /\ child' = [child EXCEPT ![e][t] = "hidden"]
        /\ proc' = [proc EXCEPT ![p] = [proc[p] EXCEPT !.pc = LinkPc[t]]]
        /\ UNCHANGED <<linked, stranded, expired>>
    BY DEF Allocate, Becomes, histVars
  <2>2. CASE d = e /\ s = t
    <3>1. proc'[p] = [proc[p] EXCEPT !.pc = LinkPc[t]] /\ proc[p] \in Process
      BY <2>1 DEF TypeOK
    <3>2. proc'[p].d = d /\ proc'[p].pc = LinkPc[s] BY <2>2, <3>1 DEF Process
    <3> QED BY <3>2 DEF Owned
  <2>3. CASE d # e \/ s # t
    <3>1. child'[d][s] = child[d][s] BY <1>1, <2>1, <2>3
    <3>2. proc[p].pc # LinkPc[s] BY <1>6 DEF Allocate, AllocatePc, Sides
    <3> QED BY <3>1, <3>2, <2>1, <1>5
  <2> QED BY <2>2, <2>3
<1>8. CASE \E t \in Sides : LinkChild(p, t)
  <2> PICK t \in Sides : LinkChild(p, t) BY <1>8
  <2>1. /\ linked' = [linked EXCEPT ![e] = @ \cup {t}]
        /\ UNCHANGED <<child, stranded, expired>>
    BY DEF LinkChild, histVars
  <2>2. CASE d = e /\ s = t
    <3>1. s \in linked'[d] BY <1>1, <2>1, <2>2
    <3> QED BY <3>1 DEF Owned
  <2>3. CASE d # e \/ s # t
    <3>1. s \in linked[d] => s \in linked'[d] BY <1>1, <2>1
    <3>2. d # e \/ proc[p].pc # LinkPc[s] BY <2>3 DEF LinkChild, LinkPc, Sides
    <3> QED BY <3>1, <3>2, <2>1, <1>5
  <2> QED BY <2>2, <2>3
<1>9. CASE DeleteRow(p)
  <2>1. /\ linked' = [linked EXCEPT ![e] = {}]
        /\ child' = [child EXCEPT ![e] = Shown(e)]
        /\ UNCHANGED <<stranded, expired>>
    BY <1>9 DEF DeleteRow, DropRow, histVars
  <2>2. CASE d = e
    <3>1. Shown(d)[s] # "hidden" BY DEF Shown
    <3> QED BY <1>1, <2>1, <2>2, <3>1
  <2>3. CASE d # e
    <3>1. child'[d] = child[d] /\ linked'[d] = linked[d] BY <1>1, <2>1, <2>3
    <3> QED BY <2>1, <2>3, <3>1, <1>5
  <2> QED BY <2>2, <2>3
<1>10. CASE DropExpired(p)
  <2>1. /\ linked' = [linked EXCEPT ![e] = {}]
        /\ expired' = expired \cup {e}
        /\ UNCHANGED <<child, stranded>>
    BY <1>10 DEF DropExpired, DropRow
  <2>2. CASE d = e BY <2>1, <2>2 DEF Owned
  <2>3. CASE d # e
    <3>1. linked'[d] = linked[d] BY <1>1, <2>1, <2>3
    <3> QED BY <2>1, <2>3, <3>1, <1>5
  <2> QED BY <2>2, <2>3
<1>11. CASE \E t \in Sides : RemoveChild(p, t)
  <2> PICK t \in Sides : RemoveChild(p, t) BY <1>11
  <2>1. child' = [child EXCEPT ![e][t] = "none"] /\ UNCHANGED <<linked, stranded, expired>>
    BY DEF RemoveChild, histVars
  <2>2. child'[d][s] = child[d][s] BY <1>1, <2>1
  <2>3. proc[p].pc # LinkPc[s] BY <1>6 DEF RemoveChild, RemovePc, Sides
  <2> QED BY <2>1, <2>2, <2>3, <1>5
<1>12. ASSUME UNCHANGED <<child, linked, stranded, expired>>, proc[p].pc \notin {"linkA", "linkB"}
       PROVE  Owned(d, s)'
  BY <1>5, <1>6, <1>12
<1>13. CASE \E t \in Sides : SaveConfig(p, t) \/ RemoveChildFails(p, t)
  BY <1>12, <1>13 DEF SaveConfig, RemoveChildFails, ConfigPc, RemovePc, Sides, dbVars, histVars
<1>14. CASE \/ PacemakerAdd(p, "start", "Started", "wait")
            \/ PacemakerAdd(p, "stop", "Stopped", "drain")
            \/ AllocateFails(p) \/ SaveVm(p)
  BY <1>12, <1>14 DEF PacemakerAdd, AllocateFails, SaveVm, dbVars, histVars
<1>15. CASE WaitConnected(p) \/ WaitDisconnected(p) \/ Unconfigure(p)
  BY <1>12, <1>15 DEF WaitConnected, WaitDisconnected, Unconfigure, dbVars, histVars
<1>16. CASE JobFails(p)
  <2>1. proc[p].pc \notin {"linkA", "linkB"} BY <1>16 DEF JobFails, Needs
  <2> QED BY <1>12, <1>16, <2>1 DEF JobFails, dbVars, histVars
<1> QED BY <1>7, <1>8, <1>9, <1>10, <1>11, <1>13, <1>14, <1>15, <1>16 DEF JobStep

\* A process that is killed before it links a child leaves its trace.
LEMMA KillOwner ==
  ASSUME TypeOK, Busy, HiddenHaveOwner, NEW p \in Workers, Kill(p)
  PROVE  HiddenHaveOwner'
<1> SUFFICES ASSUME NEW d \in Disks, NEW s \in Sides, child'[d][s] = "hidden"
             PROVE  Owned(d, s)'
  BY DEF HiddenHaveOwner, Owned
<1>1. UNCHANGED <<child, linked, expired>> BY KillFacts DEF dbVars
<1>2. Owned(d, s) BY <1>1 DEF HiddenHaveOwner, Owned
<1>3. CASE proc[p].d = d /\ proc[p].pc = LinkPc[s]
  <2>1. <<d, s>> \in stranded' BY <1>3, KillFacts
  <2> QED BY <2>1 DEF Owned
<1>4. CASE proc[p].d # d \/ proc[p].pc # LinkPc[s]
  BY <1>1, <1>2, <1>4, KillFacts, OwnerStays
<1> QED BY <1>3, <1>4

\* A process that takes a job was idle.
LEMMA StartJobOwner ==
  ASSUME TypeOK, HiddenHaveOwner, NEW p \in Workers, NEW k \in Kinds, NEW e \in Disks,
         StartJob(p, k, e)
  PROVE  HiddenHaveOwner'
<1> SUFFICES ASSUME NEW d \in Disks, NEW s \in Sides, child'[d][s] = "hidden"
             PROVE  Owned(d, s)'
  BY DEF HiddenHaveOwner, Owned
<1>1. UNCHANGED <<child, linked, stranded, expired>> BY DEF StartJob
<1>2. Owned(d, s) BY <1>1 DEF HiddenHaveOwner, Owned
<1>3. proc[p].pc # LinkPc[s] BY DEF StartJob, LinkPc, Sides
<1>4. \A q \in Workers : q # p => proc'[q] = proc[q]
  <2>1. \A x : Becomes(p, x) => \A q \in Workers : q # p => proc'[q] = proc[q]
    BY DEF Becomes, TypeOK
  <2>2. proc' = proc \/ \E x : Becomes(p, x) BY DEF StartJob
  <2> QED BY <2>1, <2>2
<1> QED BY <1>1, <1>2, <1>3, <1>4, OwnerStays

\* The logical disks that the interface hides belong to a DRBD disk that it
\* shows, or a job is about to link them, in any order of set-up and removal
\* jobs and at whatever step processes die; excepted are a set-up that died
\* between its two flushes and a removal that gave up waiting (allocateDisks,
\* deleteConfig, removeTasks).
THEOREM HiddenOwned == Spec => []HiddenHaveOwner
<1>1. Init => HiddenHaveOwner BY DEF Init, HiddenHaveOwner
<1>2. Inv /\ HiddenHaveOwner /\ [Next]_vars => HiddenHaveOwner'
  <2> SUFFICES ASSUME TypeOK, Busy, HiddenHaveOwner, [Next]_vars PROVE HiddenHaveOwner'
    BY DEF Inv
  <2>1. ASSUME UNCHANGED <<child, linked, proc, stranded, expired>> PROVE HiddenHaveOwner'
    BY <2>1 DEF HiddenHaveOwner
  <2>2. ASSUME NEW w \in Webs, NEW d \in Disks, ReadCounters(w, d) PROVE HiddenHaveOwner'
    BY <2>1, <2>2 DEF ReadCounters, dbVars
  <2>3. ASSUME NEW w \in Webs, CommitDisk(w) PROVE HiddenHaveOwner'
    BY <2>1, <2>3 DEF CommitDisk, histVars
  <2>4. ASSUME NEW d \in Disks, RequestRemove(d) PROVE HiddenHaveOwner'
    BY <2>1, <2>4 DEF RequestRemove
  <2>5. ASSUME NEW p \in Workers, JobStep(p) PROVE HiddenHaveOwner' BY <2>5, JobStepOwner
  <2>6. ASSUME NEW p \in Workers, NEW k \in Kinds, NEW d \in Disks, StartJob(p, k, d)
        PROVE  HiddenHaveOwner'
    BY <2>6, StartJobOwner
  <2>7. ASSUME NEW p \in Workers, Kill(p) PROVE HiddenHaveOwner' BY <2>7, KillOwner
  <2>8. CASE EnvironmentStep
    BY <2>1, <2>8 DEF EnvironmentStep, NodeDown, NodeUp, ResourceUp, LinkStep, ResourceDown,
                      dbVars, histVars
  <2>9. CASE UNCHANGED vars BY <2>1, <2>9 DEF vars, dbVars, histVars
  <2> QED BY <2>2, <2>3, <2>4, <2>5, <2>6, <2>7, <2>8, <2>9 DEF Next, WebStep
<1> QED BY <1>1, <1>2, Invariant, PTL DEF Spec

-----------------------------------------------------------------------------
(* The configuration files.                                                *)

\* Why ConfigKept holds: as long as no disk was set up and removed at the same
\* time, a job has its disk to itself, and until it deletes the row the counter
\* it works with is the disk's.
Exclusive ==
  overlapped = {} =>
    /\ \A p, q \in Workers : proc[p].d = proc[q].d /\ proc[p].d \in Disks => p = q
    /\ \A p \in Workers : proc[p].pc \notin Late \cup {"idle"} =>
         proc[p].d \in live /\ proc[p].num = counter[proc[p].d]

\* The idle process holds no disk.
LEMMA IdleHoldsNothing == Idle.d \notin Disks BY DEF Idle

\* A job's step keeps the others' disks in place.
LEMMA JobStepExclusive ==
  ASSUME TypeOK, Busy, Exclusive, NEW p \in Workers, JobStep(p)
  PROVE  Exclusive'
<1>1. PICK x \in Process : Becomes(p, x) /\ Onward(p, x) BY JobStepProcess
<1>2. proc'[p] = x /\ \A q \in Workers : q # p => proc'[q] = proc[q]
  BY <1>1 DEF Becomes, TypeOK
<1>3. UNCHANGED overlapped
  BY DEF JobStep, Allocate, LinkChild, SaveConfig, RemoveChild, RemoveChildFails,
         AllocateFails, PacemakerAdd, WaitConnected, WaitDisconnected, Unconfigure, DeleteRow,
         DropExpired, SaveVm, JobFails, histVars
<1> SUFFICES ASSUME overlapped = {}
             PROVE  /\ \A q, t \in Workers : proc'[q].d = proc'[t].d /\ proc'[q].d \in Disks => q = t
                    /\ \A q \in Workers : proc'[q].pc \notin Late \cup {"idle"} =>
                         proc'[q].d \in live' /\ proc'[q].num = counter'[proc'[q].d]
  BY <1>3 DEF Exclusive
<1>4. x.d \in Disks => x.d = proc[p].d BY <1>1, IdleHoldsNothing DEF Onward, Keeps
<1>5. \A q, t \in Workers : proc'[q].d = proc'[t].d /\ proc'[q].d \in Disks => q = t
  BY <1>2, <1>4 DEF Exclusive
<1>6. ASSUME NEW q \in Workers, proc'[q].pc \notin Late \cup {"idle"}
      PROVE  proc'[q].d \in live' /\ proc'[q].num = counter'[proc'[q].d]
  <2>1. CASE q = p
    <3>1. x # Idle /\ x.pc \notin Late BY <1>2, <1>6, <2>1, IdleFacts
    <3>2. /\ x.d = proc[p].d /\ x.num = proc[p].num
          /\ proc[p].pc \notin Late \cup {"idle"}
          /\ UNCHANGED <<live, counter>>
      BY <1>1, <3>1 DEF Onward, Keeps
    <3> QED BY <1>2, <2>1, <3>2 DEF Exclusive
  <2>2. CASE q # p
    <3> DEFINE e == proc[q].d
    <3>1. e \in live /\ proc[q].num = counter[e] /\ proc'[q] = proc[q]
      BY <1>2, <1>6, <2>2 DEF Exclusive
    <3>2. e # proc[p].d BY <2>2, <3>1 DEF Exclusive, TypeOK
    <3> HIDE DEF e
    <3>3. CASE UNCHANGED counterVars BY <3>1, <3>3 DEF counterVars, e
    <3>4. CASE DropRow(proc[p].d)
      <4>1. e \in live' BY <3>1, <3>2, <3>4 DEF DropRow
      <4>2. counter'[e] = counter[e] BY <3>1, <3>2, <3>4 DEF DropRow, TypeOK
      <4> QED BY <3>1, <4>1, <4>2 DEF e
    <3> QED BY <3>3, <3>4, JobStepCounters
  <2> QED BY <2>1, <2>2
<1> QED BY <1>5, <1>6

\* A job that is taken alone keeps it.
LEMMA StartJobExclusive ==
  ASSUME TypeOK, Exclusive, NEW p \in Workers, NEW k \in Kinds, NEW d \in Disks,
         StartJob(p, k, d)
  PROVE  Exclusive'
<1>1. UNCHANGED <<live, counter>> BY DEF StartJob
<1>2. CASE d \notin live BY <1>1, <1>2 DEF StartJob, Exclusive
<1>3. CASE d \in live
  <2> DEFINE pc == IF k = "persist" THEN "allocateA" ELSE "stop"
             x == [Idle EXCEPT !.pc = pc, !.kind = k, !.d = d, !.num = counter[d],
                               !.has = linked[d]]
  <2>1. /\ Becomes(p, x)
        /\ overlapped' = IF \E q \in Workers : proc[q].d = d
                         THEN overlapped \cup {d} ELSE overlapped
    BY <1>3 DEF StartJob
  <2> HIDE DEF pc
  <2>2. x.d = d /\ x.num = counter[d] BY IdleFacts DEF Process
  <2> HIDE DEF x
  <2>3. proc'[p] = x /\ \A q \in Workers : q # p => proc'[q] = proc[q]
    BY <2>1 DEF Becomes, TypeOK
  <2> SUFFICES ASSUME overlapped' = {}
               PROVE  /\ \A q, t \in Workers :
                           proc'[q].d = proc'[t].d /\ proc'[q].d \in Disks => q = t
                      /\ \A q \in Workers : proc'[q].pc \notin Late \cup {"idle"} =>
                           proc'[q].d \in live' /\ proc'[q].num = counter'[proc'[q].d]
    BY DEF Exclusive
  <2>4. overlapped = {} /\ \A q \in Workers : proc[q].d # d BY <2>1
  <2>5. \A q, t \in Workers : proc'[q].d = proc'[t].d /\ proc'[q].d \in Disks => q = t
    BY <2>2, <2>3, <2>4 DEF Exclusive
  <2>6. \A q \in Workers : proc'[q].pc \notin Late \cup {"idle"} =>
          proc'[q].d \in live' /\ proc'[q].num = counter'[proc'[q].d]
    BY <1>1, <1>3, <2>2, <2>3, <2>4 DEF Exclusive
  <2> QED BY <2>5, <2>6
<1> QED BY <1>2, <1>3

\* A killed process holds nothing.
LEMMA KillExclusive ==
  ASSUME TypeOK, Busy, Exclusive, NEW p \in Workers, Kill(p)
  PROVE  Exclusive'
<1>1. /\ proc'[p] = Idle /\ \A q \in Workers : q # p => proc'[q] = proc[q]
      /\ UNCHANGED <<overlapped, live, counter>>
  BY KillFacts DEF dbVars
<1>2. ASSUME overlapped = {}
      PROVE  \A q, t \in Workers : proc'[q].d = proc'[t].d /\ proc'[q].d \in Disks => q = t
  BY <1>1, <1>2, IdleHoldsNothing DEF Exclusive
<1>3. ASSUME overlapped = {}, NEW q \in Workers, proc'[q].pc \notin Late \cup {"idle"}
      PROVE  proc'[q].d \in live' /\ proc'[q].num = counter'[proc'[q].d]
  BY <1>1, <1>3, IdleFacts DEF Exclusive
<1> QED BY <1>1, <1>2, <1>3 DEF Exclusive

\* Nothing else touches the processes, the rows they work on or overlapped.
LEMMA StepExclusive ==
  ASSUME Inv, Exclusive, [Next]_vars
  PROVE  Exclusive'
<1> USE DEF Inv
<1>1. ASSUME UNCHANGED <<proc, overlapped, live, counter>> PROVE Exclusive'
  BY <1>1 DEF Exclusive
<1>2. ASSUME NEW w \in Webs, CommitDisk(w) PROVE Exclusive'
  <2> DEFINE d == web[w].d
  <2>1. /\ live' = live \cup {d} /\ counter' = [counter EXCEPT ![d] = web[w].num]
        /\ UNCHANGED <<proc, overlapped>> /\ web[w] # NoRequest
    BY <1>2 DEF CommitDisk, histVars
  <2>2. d \notin live BY <2>1 DEF CounterInv
  <2> HIDE DEF d
  <2>3. \A e \in live : counter'[e] = counter[e] BY <2>1, <2>2 DEF TypeOK
  <2> QED BY <2>1, <2>3 DEF Exclusive
<1>3. ASSUME NEW w \in Webs, NEW d \in Disks, ReadCounters(w, d) PROVE Exclusive'
  BY <1>1, <1>3 DEF ReadCounters, dbVars
<1>4. ASSUME NEW d \in Disks, RequestRemove(d) PROVE Exclusive'
  BY <1>1, <1>4 DEF RequestRemove
<1>5. ASSUME NEW p \in Workers, JobStep(p) PROVE Exclusive' BY <1>5, JobStepExclusive
<1>6. ASSUME NEW p \in Workers, NEW k \in Kinds, NEW d \in Disks, StartJob(p, k, d)
      PROVE  Exclusive'
  BY <1>6, StartJobExclusive
<1>7. CASE EnvironmentStep
  BY <1>1, <1>7 DEF EnvironmentStep, NodeDown, NodeUp, ResourceUp, LinkStep, ResourceDown,
                    dbVars, histVars
<1>8. CASE UNCHANGED vars BY <1>1, <1>8 DEF vars, dbVars, histVars
<1>9. ASSUME NEW p \in Workers, Kill(p) PROVE Exclusive' BY <1>9, KillExclusive
<1> QED BY <1>2, <1>3, <1>4, <1>5, <1>6, <1>7, <1>8, <1>9 DEF Next, WebStep

\* The step that ConfigKept speaks of.
KeepsConfig ==
  \A n \in Nodes, d \in live :
    LET c == counter[d]
    IN  config[n][c] = d /\ config'[n][c] # d =>
          \/ \E p \in Workers : proc[p].d = d /\ proc[p].pc = "unconfigure"
          \/ raced \/ overlapped # {}

\* Writing a file goes to the counter of the disk it is for, so it overwrites
\* no other disk's.
LEMMA StepKeepsConfig ==
  ASSUME Inv, Exclusive, [Next]_vars
  PROVE  KeepsConfig
<1> USE DEF Inv
<1> SUFFICES ASSUME NEW n \in Nodes, NEW d \in live, ~raced, overlapped = {},
                    config[n][counter[d]] = d, config'[n][counter[d]] # d
             PROVE  \E p \in Workers : proc[p].d = d /\ proc[p].pc = "unconfigure"
  BY DEF KeepsConfig
<1>1. PICK p \in Workers : Unconfigure(p) \/ \E s \in Sides : SaveConfig(p, s)
  <2>1. config' # config OBVIOUS
  <2>2. CASE WebStep
    BY <2>1, <2>2 DEF WebStep, ReadCounters, CommitDisk, RequestRemove, nodeVars
  <2>3. CASE EnvironmentStep
    BY <2>1, <2>3 DEF EnvironmentStep, NodeDown, NodeUp, ResourceUp, LinkStep, ResourceDown
  <2>4. ASSUME NEW p \in Workers, NEW k \in Kinds, NEW e \in Disks, StartJob(p, k, e)
        PROVE  FALSE
    BY <2>1, <2>4 DEF StartJob, nodeVars
  <2>5. ASSUME NEW p \in Workers, JobStep(p)
        PROVE  Unconfigure(p) \/ \E s \in Sides : SaveConfig(p, s)
    BY <2>1, <2>5 DEF JobStep, Allocate, LinkChild, RemoveChild, RemoveChildFails,
       AllocateFails, PacemakerAdd, WaitConnected, WaitDisconnected, DeleteRow, DropExpired, SaveVm,
       JobFails, nodeVars
  <2>6. CASE UNCHANGED vars BY <2>1, <2>6 DEF vars, nodeVars
  <2>7. ASSUME NEW p \in Workers, Kill(p) PROVE FALSE BY <2>1, <2>7 DEF Kill, nodeVars
  <2> QED BY <2>2, <2>3, <2>4, <2>5, <2>6, <2>7 DEF Next
<1>2. proc[p].pc \in {"unconfigure", "configA", "configB"}
  BY <1>1 DEF Unconfigure, SaveConfig, ConfigPc, Sides
<1>3. proc[p].d \in live /\ proc[p].num = counter[proc[p].d]
  BY <1>2 DEF Exclusive, Late
<1>4. config \in [Nodes -> [Counters -> Disks \cup {NoDisk}]] BY DEF TypeOK
<1>5. CASE Unconfigure(p)
  <2>1. proc[p].num = counter[d]
    <3>1. config'[n] = config[n] \/ config'[n] = [config[n] EXCEPT ![proc[p].num] = NoDisk]
      BY <1>5 DEF Unconfigure
    <3>2. config[n] \in [Counters -> Disks \cup {NoDisk}] BY <1>4
    <3>3. counter[d] \in Counters BY DEF CounterInv, TypeOK
    <3> QED BY <3>1, <3>2, <3>3
  <2>2. proc[p].d = d BY <2>1, <1>3 DEF CounterInv
  <2> QED BY <2>2, <1>5 DEF Unconfigure
<1>6. CASE \E s \in Sides : SaveConfig(p, s)
  <2> PICK s \in Sides : SaveConfig(p, s) BY <1>6
  <2>1. config' = [config EXCEPT ![NodeOf(p, s)][proc[p].num] = proc[p].d]
    BY DEF SaveConfig
  <2>2. config'[n] = config[n] \/ config'[n] = [config[n] EXCEPT ![proc[p].num] = proc[p].d]
    BY <2>1, <1>4
  <2>3. proc[p].num = counter[d] /\ proc[p].d # d
    <3>1. config[n] \in [Counters -> Disks \cup {NoDisk}] BY <1>4
    <3>2. counter[d] \in Counters
      BY DEF CounterInv, TypeOK
    <3> QED BY <2>2, <3>1, <3>2
  <2> QED BY <2>3, <1>3 DEF CounterInv
<1> QED BY <1>1, <1>5, <1>6

\* Only its own removal takes a disk's configuration away from a node, in any
\* order of set-ups and removals, unless requests raced or one disk was set up
\* and removed at once (saveToNode, deleteConfig, removeTasks).
THEOREM ConfigStays == Spec => ConfigKept
<1>1. Init => Exclusive
  BY IdleHoldsNothing, IdleFacts DEF Init, Exclusive
<1>2. Inv /\ Exclusive /\ [Next]_vars => Exclusive' BY StepExclusive
<1>3. Inv /\ Exclusive /\ [Next]_vars => [KeepsConfig]_vars BY StepKeepsConfig
<1> QED BY <1>1, <1>2, <1>3, Invariant, PTL DEF Spec, ConfigKept, KeepsConfig

=============================================================================

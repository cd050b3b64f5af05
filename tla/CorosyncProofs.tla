--------------------------- MODULE CorosyncProofs ---------------------------
(***************************************************************************)
(* The rollout of the corosync configuration, for any nodes and workers:   *)
(* GuardedRestart, RollingRestart and RolloutsEnd.  The proof has three    *)
(* invariants, each on top of the one before: where a process is in its    *)
(* list of nodes (SafeInv), what an undisturbed rollout does to the        *)
(* maintenance mode (QuietInv), and which configuration the nodes have     *)
(* while nobody has deleted a row (ConfigInv).                             *)
(***************************************************************************)
EXTENDS Corosync, FiniteNumbers

-----------------------------------------------------------------------------

Removing == {"leave", "leavePacemaker", "leaveCorosync", "unlink", "delete", "rejoin"}
\* The steps for the node at the head of the list after its file was written, and
\* those at which pacemaker runs wherever it should.
Written == Rolling \ {"move", "write"}
Whole == {"move", "write", "ensure", "normal"}

Restarting == {"stopCorosync", "startCorosync", "startPacemaker"}

Texts == [Nodes -> {i \in Int : i >= -1}]

TypeOK ==
  /\ members \in SUBSET Nodes /\ gone \in SUBSET Nodes /\ address \in [Nodes -> Nat]
  /\ queue \in [Nodes -> Nat] /\ up \in SUBSET Nodes /\ pacemaker \in SUBSET Nodes
  /\ text \in [Nodes -> Texts] /\ maintenance \in BOOLEAN
  /\ proc \in [Workers -> Process] /\ spent \in [BudgetNames -> Nat]
  /\ overlapped \in BOOLEAN

\* One process works, unless overlapped is set.
Alone == ~overlapped => \A p, q \in Workers :
           proc[p].pc # "idle" /\ proc[q].pc # "idle" => p = q

\* Where a process is in its list.
Place(r) ==
  /\ r.pc \in Rolling => r.rest # <<>> /\ ElementsOf(r.rest) \subseteq ElementsOf(r.list)
  /\ r.pc \in Rolling \cup {"normal"} => r.list # <<>>
  /\ r.pc \in {"normal"} \cup Removing => r.rest = <<>>
  /\ r.pc # "idle" => r.node \in Nodes
  /\ r.pc \in Removing => r.node \in members \cup gone

\* Pacemaker is down on the node at the head of the list at most.
Rolled(r) == /\ r.pc \in Rolling => Down(r) \subseteq {Head(r.rest)}
             /\ r.pc \in Whole => Down(r) = {}

\* Pacemaker is about to be stopped.
Guarded(r) ==
  /\ r.pc = "stopPacemaker" => maintenance \/ spent["error"] > 0
  /\ r.pc = "leavePacemaker" => maintenance \/ spent["error"] > 0 \/ r.node \in gone

SafeInv ==
  /\ TypeOK /\ Alone
  /\ \A p \in Workers : Place(proc[p])
  /\ ~overlapped => \A p \in Workers : Rolled(proc[p]) /\ Guarded(proc[p])

\* Nothing failed and nothing was removed: a file is missing while it is
\* replaced, and the cluster is in maintenance during a rollout, at most.
Quiet == Undisturbed /\ spent["remove"] = 0
QuietInv == Quiet =>
  /\ up = Nodes
  /\ \A p \in Workers : proc[p].pc \notin Removing
  /\ \A n \in Nodes : text[n] = Missing =>
       \E p \in Workers : proc[p].pc = "write" /\ n = Head(proc[p].rest)
  /\ maintenance => \E p \in Workers : proc[p].pc \in Rolling \cup {"normal"}

\* A rollout brings the present configuration to the nodes of its list, unless a
\* row was saved since the process loaded it or the list: then that node's file
\* is not the present one and its own job is pending.
Behind(r) == \E e \in Nodes :
  /\ queue[e] > 0 /\ text[e] # Current
  /\ e \notin ElementsOf(r.list) \/ r.seen[e] \notin {0, address[e]}
Fresh(r) ==
  /\ \A n \in members : r.seen[n] = address[n]
  /\ ElementsOf(r.list) = members
  /\ \A n \in Done(r) : text[n] = Current
  /\ r.pc \in Written => text[Head(r.rest)] = Current
\* The same before the comparison, when only the job's own row is loaded.
Compared(r) ==
  /\ \A n \in Nodes : n # r.node => r.seen[n] = 0
  /\ \/ r.seen[r.node] \in {0, address[r.node]}
     \/ queue[r.node] > 0 /\ text[r.node] # Current
Knows(r) ==
  /\ r.pc = "compare" \/ r.pc \in Rolling => \A n \in Nodes : r.seen[n] <= address[n]
  /\ r.pc = "compare" => Compared(r)
  /\ r.pc \in Rolling => /\ Fresh(r) \/ Behind(r)
                         /\ \A n \in ElementsOf(r.list) : r.seen[n] # 0

\* A node whose job is pending, or about to compare, has another configuration.
Stale == \E e \in Nodes :
  /\ text[e] # Current
  /\ queue[e] > 0 \/ \E p \in Workers : proc[p].pc = "compare" /\ proc[p].node = e

ConfigBody ==
  /\ \A n \in members : address[n] > 0
  /\ \A n, m \in Nodes : text[n][m] <= address[m]
  /\ \A n \in Nodes : queue[n] > 0 => n \in members
  /\ \A p \in Workers : proc[p].pc # "idle" => proc[p].node \in members
  /\ \A p \in Workers : Knows(proc[p])
  /\ \/ \E p \in Workers : proc[p].pc \in Rolling
     \/ \A n \in members : text[n] = Current
     \/ Stale
ConfigInv == Quiet /\ spent["delete"] = 0 => ConfigBody

-----------------------------------------------------------------------------
(* The list of the members.                                                *)

LEMMA ListedFacts ==
  ASSUME TypeOK
  PROVE  Listed \in Seq(Nodes) /\ ElementsOf(Listed) = members
<1> DEFINE n == Cardinality(members)
<1>1. members \in SUBSET Nat /\ IsFiniteSet(members)
  BY CorosyncAssumption, FS_Subset DEF TypeOK
<1>2. n \in Nat BY <1>1, FS_CardinalityType
<1>3. Listings(members) # {} BY <1>1, ListingExists
<1>4. Listed \in [1 .. n -> members] /\ Sorted(Listed)
  <2>1. \E s \in [1 .. n -> members] : \A i, j \in DOMAIN s : i < j => s[i] < s[j]
    BY <1>3 DEF Listings, Sorted
  <2> HIDE DEF n
  <2>2. Listed = CHOOSE s \in [1 .. n -> members] : \A i, j \in DOMAIN s : i < j => s[i] < s[j]
    BY DEF Listed, n
  <2> QED BY <2>1, <2>2 DEF Sorted
<1> HIDE DEF n
<1>5. Listed \in [1 .. n -> Nodes] BY <1>4 DEF TypeOK
<1>6. Listed \in Seq(Nodes) BY <1>2, <1>5
<1>7. \A i, j \in 1 .. n : Listed[i] = Listed[j] => i = j
  <2> SUFFICES ASSUME NEW i \in 1 .. n, NEW j \in 1 .. n, Listed[i] = Listed[j] PROVE i = j
    OBVIOUS
  <2>1. Listed[i] \in Nat BY <1>1, <1>4
  <2>2. ~(i < j) /\ ~(j < i) BY <1>4, <2>1 DEF Sorted
  <2> QED BY <1>2, <2>2
<1>8. Listed \in Injection(1 .. n, members) BY <1>4, <1>7 DEF Injection, IsInjective
<1>9. IsFiniteSet(1 .. n) /\ Cardinality(1 .. n) = n BY <1>2, FS_Interval
<1>10. Listed \in Surjection(1 .. n, members)
  <2>1. Cardinality(1 .. n) = Cardinality(members) BY <1>9 DEF n
  <2> QED BY <1>1, <1>8, <2>1, FS_Injection
<1>11. \A m \in members : \E i \in 1 .. n : Listed[i] = m BY <1>10 DEF Surjection
<1> QED BY <1>4, <1>6, <1>11 DEF ElementsOf

LEMMA HeadTail ==
  ASSUME NEW s \in Seq(Nodes), s # <<>>
  PROVE  /\ Head(s) \in Nodes /\ Tail(s) \in Seq(Nodes)
         /\ ElementsOf(s) = {Head(s)} \cup ElementsOf(Tail(s))
<1>1. Len(s) \in Nat /\ Len(s) >= 1 /\ DOMAIN s = 1 .. Len(s) OBVIOUS
<1>2. Head(s) = s[1] /\ 1 \in DOMAIN s /\ s[1] \in Nodes BY <1>1
<1>3. /\ Tail(s) \in Seq(Nodes) /\ DOMAIN Tail(s) = 1 .. Len(s) - 1
      /\ \A i \in 1 .. Len(s) - 1 : Tail(s)[i] = s[i + 1]
  BY <1>1
<1>4. \A x \in ElementsOf(s) : x = Head(s) \/ x \in ElementsOf(Tail(s))
  <2> SUFFICES ASSUME NEW i \in DOMAIN s, i # 1 PROVE s[i] \in ElementsOf(Tail(s))
    BY <1>2 DEF ElementsOf
  <2>1. i - 1 \in 1 .. Len(s) - 1 /\ (i - 1) + 1 = i BY <1>1
  <2>2. Tail(s)[i - 1] = s[i] BY <1>3, <2>1
  <2> QED BY <1>3, <2>1, <2>2 DEF ElementsOf
<1>5. \A i \in 1 .. Len(s) - 1 : i + 1 \in DOMAIN s BY <1>1
<1>6. \A x \in ElementsOf(Tail(s)) : x \in ElementsOf(s) BY <1>3, <1>5 DEF ElementsOf
<1>7. Head(s) \in ElementsOf(s) BY <1>2 DEF ElementsOf
<1> QED BY <1>2, <1>3, <1>4, <1>6, <1>7

LEMMA EmptyList == ElementsOf(<<>>) = {} /\ <<>> \in Seq(Nodes)
BY DEF ElementsOf

-----------------------------------------------------------------------------
(* What is written.                                                        *)

\* The rows a process has, and the files, are functions of the nodes.
LEMMA LoadsFacts ==
  ASSUME TypeOK, NEW r \in Process
  PROVE  /\ Current \in [Nodes -> Nat] /\ Loads(r) \in [Nodes -> Nat]
         /\ Listing(Loads(r)) \in [Nodes -> Nat]
         /\ \A n \in Nodes : Current[n] = IF n \in members THEN address[n] ELSE 0
         /\ \A n \in Nodes : Listing(Loads(r))[n] = IF n \in members THEN Loads(r)[n] ELSE 0
         /\ \A n \in Nodes : Loads(r)[n] = IF r.seen[n] # 0 THEN r.seen[n] ELSE Current[n]
<1>1. address \in [Nodes -> Nat] /\ r.seen \in [Nodes -> Nat] BY DEF TypeOK, Process
<1>2. Current \in [Nodes -> Nat] BY <1>1 DEF Current, Listing
<1>3. \A n \in Nodes : Current[n] = IF n \in members THEN address[n] ELSE 0
  BY DEF Current, Listing
<1>4. Loads(r) \in [Nodes -> Nat] BY <1>1, <1>2 DEF Loads
<1>5. \A n \in Nodes : Loads(r)[n] = IF r.seen[n] # 0 THEN r.seen[n] ELSE Current[n]
  BY DEF Loads
<1>6. Listing(Loads(r)) \in [Nodes -> Nat] BY <1>4 DEF Listing
<1>7. \A n \in Nodes : Listing(Loads(r))[n] = IF n \in members THEN Loads(r)[n] ELSE 0
  BY DEF Listing
<1> QED BY <1>2, <1>3, <1>4, <1>5, <1>6, <1>7

LEMMA TextFacts ==
  /\ Missing \in Texts /\ Default \in Texts /\ [Nodes -> Nat] \subseteq Texts
  /\ \A n \in Nodes : Missing[n] = -1 /\ Default[n] = 0
BY DEF Missing, Default, Texts

-----------------------------------------------------------------------------
(* What the steps have in common.                                          *)

Same(r, q) == r.node = q.node /\ r.list = q.list /\ r.rest = q.rest /\ r.ran = q.ran

LEMMA IdleFacts ==
  /\ Idle \in Process /\ Idle.pc = "idle" /\ Idle.node = NoNode /\ Idle.rest = <<>>
BY EmptyList DEF Idle, Process, PCs

LEMMA GotoFacts ==
  ASSUME TypeOK, NEW p \in Workers, NEW pc \in PCs, Goto(p, pc)
  PROVE  \E r \in Process : /\ proc' = [proc EXCEPT ![p] = r] /\ r.pc = pc
                            /\ Same(r, proc[p]) /\ r.seen = proc[p].seen
<1> DEFINE r == [proc[p] EXCEPT !.pc = pc]
<1>1. proc[p] \in Process BY DEF TypeOK
<1>2. r \in Process /\ r.pc = pc /\ Same(r, proc[p]) /\ r.seen = proc[p].seen
  BY <1>1 DEF Process, Same
<1> QED BY <1>2 DEF Goto, Becomes

LEMMA SpendFacts ==
  ASSUME TypeOK, NEW b \in BudgetNames, Spend(b)
  PROVE  /\ spent' \in [BudgetNames -> Nat] /\ spent'[b] > 0
         /\ \A c \in BudgetNames : spent[c] > 0 => spent'[c] > 0
<1>1. spent \in [BudgetNames -> Nat] /\ spent' = [spent EXCEPT ![b] = @ + 1]
  BY DEF TypeOK, Spend
<1> QED BY <1>1

LEMMA Names == {"edit", "remove", "delete", "error", "failure", "outage"} = BudgetNames
BY DEF BudgetNames, Faults

LEMMA SetMaintenanceFacts ==
  ASSUME TypeOK, NEW list, NEW value \in BOOLEAN, SetMaintenance(list, value)
  PROVE  /\ spent' \in [BudgetNames -> Nat] /\ maintenance' \in BOOLEAN
         /\ \A c \in BudgetNames : spent[c] > 0 => spent'[c] > 0
         /\ \/ spent'["error"] > 0
            \/ spent' = spent /\ ElementsOf(list) \cap up \cap pacemaker = {}
               /\ maintenance' = maintenance
            \/ spent' = spent /\ ElementsOf(list) \cap up \cap pacemaker # {}
               /\ maintenance' = value
<1>1. CASE UNCHANGED spent /\ maintenance' = IF ElementsOf(list) \cap up \cap pacemaker # {}
                                             THEN value ELSE maintenance
  BY <1>1 DEF TypeOK
<1>2. CASE Spend("error") /\ UNCHANGED maintenance
  BY <1>2, SpendFacts, Names DEF TypeOK
<1> QED BY <1>1, <1>2 DEF SetMaintenance

LEMMA TargetFacts ==
  ASSUME SafeInv, NEW p \in Workers, proc[p].pc # "idle"
  PROVE  /\ proc[p] \in Process /\ proc[p].rest \in Seq(Nodes) /\ Target(p) \in Nodes
         /\ proc[p].pc \in Rolling => /\ Target(p) = Head(proc[p].rest)
                                      /\ Target(p) \in ElementsOf(proc[p].rest)
                                      /\ Target(p) \in ElementsOf(proc[p].list)
         /\ proc[p].pc \in {"normal"} \cup Removing => Target(p) = proc[p].node
<1>1. proc[p] \in Process /\ proc[p].rest \in Seq(Nodes) BY DEF SafeInv, TypeOK, Process
<1>2. Place(proc[p]) BY DEF SafeInv
<1>3. CASE proc[p].rest = <<>>
  <2>1. proc[p].pc \notin Rolling /\ proc[p].node \in Nodes BY <1>2, <1>3 DEF Place
  <2> QED BY <1>1, <1>3, <2>1 DEF Target
<1>4. CASE proc[p].rest # <<>>
  <2>1. /\ Target(p) = Head(proc[p].rest) /\ Target(p) \in Nodes
        /\ Target(p) \in ElementsOf(proc[p].rest)
    BY <1>1, <1>4, HeadTail DEF Target
  <2>2. proc[p].pc \in Rolling => Target(p) \in ElementsOf(proc[p].list)
    BY <1>2, <2>1 DEF Place
  <2>3. proc[p].pc \notin {"normal"} \cup Removing BY <1>2, <1>4 DEF Place
  <2> QED BY <1>1, <2>1, <2>2, <2>3
<1> QED BY <1>3, <1>4

\* While nothing overlaps, the others are idle when p works.
LEMMA OthersIdle ==
  ASSUME Alone, ~overlapped, NEW p \in Workers, proc[p].pc # "idle"
  PROVE  \A q \in Workers : q # p => proc[q].pc = "idle"
BY DEF Alone

LEMMA SafeStep ==
  ASSUME SafeInv, NEW p \in Workers, proc[p].pc # "idle", NEW r \in Process,
         proc' = [proc EXCEPT ![p] = r], overlapped' = overlapped,
         members \cup gone \subseteq members' \cup gone',
         TypeOK', Place(r)', ~overlapped => Rolled(r)' /\ Guarded(r)'
  PROVE  SafeInv'
<1>1. proc \in [Workers -> Process] BY DEF SafeInv, TypeOK
<1>2. proc'[p] = r /\ \A q \in Workers : q # p => proc'[q] = proc[q] BY <1>1
<1>3. Alone' BY <1>2 DEF SafeInv, Alone
<1>4. \A q \in Workers : Place(proc[q])'
  <2> TAKE q \in Workers
  <2>1. CASE q = p BY <1>2, <2>1 DEF Place
  <2>2. CASE q # p
    <3>1. Place(proc[q]) /\ proc'[q] = proc[q] BY <1>2, <2>2 DEF SafeInv
    <3> QED BY <3>1 DEF Place
  <2> QED BY <2>1, <2>2
<1>5. ASSUME ~overlapped', NEW q \in Workers PROVE Rolled(proc[q])' /\ Guarded(proc[q])'
  <2>1. CASE q = p BY <1>2, <1>5, <2>1 DEF Rolled, Guarded, Down
  <2>2. CASE q # p
    <3>1. proc'[q].pc = "idle" BY <1>2, <1>5, <2>2, OthersIdle DEF SafeInv
    <3> QED BY <3>1 DEF Rolled, Guarded, Rolling, Whole
  <2> QED BY <2>1, <2>2
<1> QED BY <1>3, <1>4, <1>5 DEF SafeInv

-----------------------------------------------------------------------------
(* SafeInv: the steps of a process.                                        *)

LEMMA AdvanceSafe ==
  ASSUME SafeInv, NEW p \in Workers, NEW r \in Process,
         proc' = [proc EXCEPT ![p] = r], Same(r, proc[p]),
         \/ proc[p].pc \in Rolling /\ r.pc \in Rolling
         \/ proc[p].pc \in Removing /\ r.pc \in Removing
         \/ proc[p].pc = "normal" /\ r.pc = "stonith",
         r.pc \in Whole => proc[p].pc \in Whole /\ pacemaker' = pacemaker,
         proc[p].pc \in Rolling => pacemaker \subseteq pacemaker' \cup {Head(proc[p].rest)},
         overlapped' = overlapped, members \cup gone \subseteq members' \cup gone', TypeOK',
         r.pc = "stopPacemaker" => maintenance' \/ spent'["error"] > 0,
         r.pc = "leavePacemaker" => \/ maintenance' \/ spent'["error"] > 0
                                    \/ proc[p].node \in gone'
  PROVE  SafeInv'
<1>1. proc[p].pc # "idle" BY DEF Rolling, Removing
<1>2. Place(proc[p]) /\ (~overlapped => Rolled(proc[p])) BY DEF SafeInv
<1>3. Place(r)' BY <1>2 DEF Place, Same, Rolling, Removing
<1>4. r.ran \cup Done(r) = proc[p].ran \cup Done(proc[p]) /\ r.rest = proc[p].rest
  BY DEF Done, Same
<1>5. ~overlapped => Rolled(r)'
  <2> SUFFICES ASSUME ~overlapped PROVE Rolled(r)' OBVIOUS
  <2>1. r.pc \in Rolling => Down(r)' \subseteq {Head(r.rest)}
    <3>1. r.pc \in Rolling => proc[p].pc \in Rolling BY DEF Rolling, Removing
    <3>2. proc[p].pc \in Rolling =>
            (proc[p].ran \cup Done(proc[p])) \ pacemaker \subseteq {Head(proc[p].rest)}
      BY <1>2 DEF Rolled, Down
    <3>3. Down(r)' = (r.ran \cup Done(r)) \ pacemaker' BY DEF Down, Done
    <3> QED BY <1>4, <3>1, <3>2, <3>3
  <2>2. r.pc \in Whole => Down(r)' = {}
    <3>1. proc[p].pc \in Whole => (proc[p].ran \cup Done(proc[p])) \ pacemaker = {}
      BY <1>2 DEF Rolled, Down
    <3>2. Down(r)' = (r.ran \cup Done(r)) \ pacemaker' BY DEF Down, Done
    <3> QED BY <1>4, <3>1, <3>2
  <2> QED BY <2>1, <2>2 DEF Rolled
<1>6. Guarded(r)' BY DEF Guarded, Same
<1> QED BY <1>1, <1>3, <1>5, <1>6, SafeStep

LEMMA GotoSafe ==
  ASSUME SafeInv, NEW p \in Workers, NEW pc \in PCs, Goto(p, pc),
         \/ proc[p].pc \in Rolling /\ pc \in Rolling
         \/ proc[p].pc \in Removing /\ pc \in Removing
         \/ proc[p].pc = "normal" /\ pc = "stonith",
         pc \in Whole => proc[p].pc \in Whole /\ pacemaker' = pacemaker,
         proc[p].pc \in Rolling => pacemaker \subseteq pacemaker' \cup {Head(proc[p].rest)},
         overlapped' = overlapped, members \cup gone \subseteq members' \cup gone', TypeOK',
         pc = "stopPacemaker" => maintenance' \/ spent'["error"] > 0,
         pc = "leavePacemaker" => \/ maintenance' \/ spent'["error"] > 0
                                  \/ proc[p].node \in gone'
  PROVE  SafeInv'
<1>1. PICK r \in Process : /\ proc' = [proc EXCEPT ![p] = r] /\ r.pc = pc
                           /\ Same(r, proc[p])
  BY GotoFacts DEF SafeInv
<1> QED BY <1>1, AdvanceSafe

LEMMA MoveSafe ==
  ASSUME SafeInv, NEW p \in Workers, MoveConfig(p)
  PROVE  SafeInv'
<1>1. /\ proc[p].pc = "move" /\ Goto(p, "write")
      /\ text' = [text EXCEPT ![Target(p)] = Missing]
      /\ UNCHANGED <<members, gone, address, queue, up, pacemaker, maintenance, spent,
                     overlapped>>
  BY DEF MoveConfig, dbVars, histVars
<1>2. /\ proc[p].pc \in Rolling /\ proc[p].pc \in Whole /\ "write" \in Rolling
      /\ "write" \in PCs
  BY <1>1 DEF Rolling, Whole, PCs
<1>3. text' \in [Nodes -> Texts] BY <1>1, TextFacts DEF SafeInv, TypeOK
<1>4. proc' \in [Workers -> Process] BY <1>1, <1>2, GotoFacts DEF SafeInv, TypeOK
<1>5. TypeOK' BY <1>1, <1>3, <1>4 DEF SafeInv, TypeOK
<1> QED BY <1>1, <1>2, <1>5, GotoSafe

LEMMA WriteFacts ==
  ASSUME SafeInv, NEW p \in Workers, WriteConfig(p)
  PROVE  \E r \in Process : /\ proc' = [proc EXCEPT ![p] = r] /\ r.pc = "ensure"
                            /\ Same(r, proc[p]) /\ r.seen = Loads(proc[p])
<1> DEFINE r == [proc[p] EXCEPT !.pc = "ensure", !.seen = Loads(proc[p])]
<1>1. proc[p] \in Process /\ TypeOK BY DEF SafeInv, TypeOK
<1>2. "ensure" \in PCs /\ Loads(proc[p]) \in [Nodes -> Nat] BY <1>1, LoadsFacts DEF PCs
<1>3. r \in Process /\ r.pc = "ensure" /\ Same(r, proc[p]) /\ r.seen = Loads(proc[p])
  BY <1>1, <1>2 DEF Process, Same
<1> QED BY <1>3 DEF WriteConfig, Becomes

LEMMA WriteSafe ==
  ASSUME SafeInv, NEW p \in Workers, WriteConfig(p)
  PROVE  SafeInv'
<1>1. PICK r \in Process : /\ proc' = [proc EXCEPT ![p] = r] /\ r.pc = "ensure"
                           /\ Same(r, proc[p]) /\ r.seen = Loads(proc[p])
  BY WriteFacts
<1>2. /\ proc[p].pc = "write"
      /\ UNCHANGED <<members, gone, address, queue, up, pacemaker, maintenance, overlapped>>
  BY DEF WriteConfig, dbVars
<1>3. proc[p].pc \in Rolling /\ proc[p].pc \in Whole /\ r.pc \in Rolling
  BY <1>1, <1>2 DEF Rolling, Whole
<1>4. proc[p] \in Process /\ TypeOK BY DEF SafeInv, TypeOK
<1>5. Listing(Loads(proc[p])) \in Texts BY <1>4, LoadsFacts, TextFacts
<1>6. text' = text \/ text' = [text EXCEPT ![Target(p)] = Listing(Loads(proc[p]))]
  BY DEF WriteConfig
<1>7. text' \in [Nodes -> Texts] BY <1>4, <1>5, <1>6 DEF TypeOK
<1>8. spent' \in [BudgetNames -> Nat] BY <1>4, SpendFacts, Names DEF WriteConfig, TypeOK
<1>9. TypeOK' BY <1>1, <1>2, <1>7, <1>8 DEF SafeInv, TypeOK
<1> QED BY <1>1, <1>2, <1>3, <1>9, AdvanceSafe

LEMMA EnsureSafe ==
  ASSUME SafeInv, NEW p \in Workers, Ensure(p)
  PROVE  SafeInv'
<1>1. /\ proc[p].pc = "ensure" /\ Target(p) \in up
      /\ UNCHANGED <<members, gone, address, queue, up, text, pacemaker, overlapped>>
  BY DEF Ensure, dbVars
<1>2. proc[p].pc \in Rolling /\ proc[p].pc # "idle" BY <1>1 DEF Rolling
<1>3. Target(p) \in ElementsOf(proc[p].list) BY <1>2, TargetFacts
<1>4. CASE /\ Target(p) \in pacemaker /\ SetMaintenance(proc[p].list, TRUE)
           /\ Goto(p, "stopPacemaker")
  <2>1. /\ spent' \in [BudgetNames -> Nat] /\ maintenance' \in BOOLEAN
        /\ maintenance' \/ spent'["error"] > 0
    BY <1>1, <1>3, <1>4, SetMaintenanceFacts DEF SafeInv
  <2>2. "stopPacemaker" \in PCs /\ "stopPacemaker" \in Rolling \ Whole
    BY DEF PCs, Rolling, Whole
  <2>3. TypeOK' BY <1>1, <1>4, <2>1, <2>2, GotoFacts DEF SafeInv, TypeOK
  <2> QED BY <1>1, <1>2, <1>4, <2>1, <2>2, <2>3, GotoSafe
<1>5. CASE UNCHANGED <<maintenance, spent>> /\ Goto(p, "stopCorosync")
  <2>1. "stopCorosync" \in PCs /\ "stopCorosync" \in Rolling \ Whole
    BY DEF PCs, Rolling, Whole
  <2>2. TypeOK' BY <1>1, <1>5, <2>1, GotoFacts DEF SafeInv, TypeOK
  <2> QED BY <1>1, <1>2, <1>5, <2>1, <2>2, GotoSafe
<1> QED BY <1>4, <1>5 DEF Ensure

\* The node is at the head of the list, so it is not done.
LEMMA StopPacemakerSafe ==
  ASSUME SafeInv, NEW p \in Workers, NEW from, NEW to \in PCs, StopPacemaker(p, from, to),
         \/ from \in Rolling /\ to \in Restarting
         \/ from \in Removing /\ to \in Removing \ {"leavePacemaker"}
  PROVE  SafeInv'
<1>1. /\ proc[p].pc = from /\ pacemaker' = pacemaker \ {Target(p)} /\ Goto(p, to)
      /\ UNCHANGED <<members, gone, address, queue, up, text, maintenance, spent, overlapped>>
  BY DEF StopPacemaker, dbVars, histVars
<1>2. proc[p].pc # "idle" BY <1>1 DEF Rolling, Removing
<1>3. TypeOK' BY <1>1, GotoFacts DEF SafeInv, TypeOK
<1>4. CASE from \in Rolling /\ to \in Restarting
  <2>1. Target(p) = Head(proc[p].rest) BY <1>1, <1>2, <1>4, TargetFacts
  <2>2. pacemaker \subseteq pacemaker' \cup {Head(proc[p].rest)} BY <1>1, <2>1
  <2>3. to \in Rolling /\ to \notin Whole /\ to \notin {"stopPacemaker", "leavePacemaker"}
    BY <1>4 DEF Rolling, Restarting, Whole
  <2> QED BY <1>1, <1>3, <1>4, <2>2, <2>3, GotoSafe
<1>5. CASE from \in Removing /\ to \in Removing \ {"leavePacemaker"}
  <2>1. PICK r \in Process : proc' = [proc EXCEPT ![p] = r] /\ r.pc = to /\ Same(r, proc[p])
    BY <1>1, GotoFacts DEF SafeInv
  <2>2. Place(proc[p]) BY DEF SafeInv
  <2>3. Place(r)' BY <1>1, <1>5, <2>1, <2>2 DEF Place, Same, Rolling, Removing
  <2>4. Rolled(r)' /\ Guarded(r)' BY <1>5, <2>1 DEF Rolled, Guarded, Rolling, Whole, Removing
  <2> QED BY <1>1, <1>2, <1>3, <2>1, <2>3, <2>4, SafeStep
<1> QED BY <1>4, <1>5

LEMMA CorosyncSafe ==
  ASSUME SafeInv, NEW p \in Workers, NEW from, NEW to \in PCs,
         \/ StopCorosync(p, from, to)
         \/ StartCorosync(p) /\ from = "startCorosync" /\ to = "startPacemaker",
         \/ from \in Rolling /\ to \in Restarting
         \/ from \in Removing /\ to \in Removing \ {"leavePacemaker"}
  PROVE  SafeInv'
<1>1. /\ proc[p].pc = from /\ Goto(p, to)
      /\ UNCHANGED <<members, gone, address, queue, up, text, pacemaker, maintenance, spent,
                     overlapped>>
  BY DEF StopCorosync, StartCorosync, dbVars, histVars
<1>2. TypeOK' BY <1>1, GotoFacts DEF SafeInv, TypeOK
<1>3. /\ to \notin Whole \cup {"stopPacemaker", "leavePacemaker"}
      /\ to \in Restarting => to \in Rolling
  BY DEF Rolling, Restarting, Whole, Removing
<1> QED BY <1>1, <1>2, <1>3, GotoSafe

LEMMA NextNodeFacts ==
  ASSUME SafeInv, NEW p \in Workers, StartPacemaker(p)
  PROVE  \E r \in Process :
           /\ proc' = [proc EXCEPT ![p] = r] /\ r.node = proc[p].node
           /\ r.seen = proc[p].seen /\ r.list = proc[p].list /\ r.ran = proc[p].ran
           /\ ElementsOf(proc[p].rest) = {Target(p)} \cup ElementsOf(r.rest)
           /\ \/ r.pc = "move" /\ r.rest # <<>>
              \/ r.pc = "normal" /\ r.rest = <<>>
<1> DEFINE rest == Tail(proc[p].rest)
           pc == IF rest # <<>> THEN "move" ELSE "normal"
           r == [proc[p] EXCEPT !.rest = rest, !.pc = pc]
<1>1. proc[p].pc \in Rolling /\ proc[p].pc # "idle" BY DEF StartPacemaker, Rolling
<1>2. proc[p] \in Process /\ proc[p].rest \in Seq(Nodes) /\ Target(p) = Head(proc[p].rest)
  BY <1>1, TargetFacts
<1>3. proc[p].rest # <<>> BY <1>1 DEF SafeInv, Place
<1>4. rest \in Seq(Nodes) /\ ElementsOf(proc[p].rest) = {Target(p)} \cup ElementsOf(rest)
  BY <1>2, <1>3, HeadTail
<1>5. proc' = [proc EXCEPT ![p] = r] BY DEF StartPacemaker, NextNode, Becomes
<1> HIDE DEF rest
<1>6. pc \in PCs BY DEF PCs
<1>7. /\ r \in Process /\ r.node = proc[p].node /\ r.seen = proc[p].seen
      /\ r.list = proc[p].list /\ r.rest = rest /\ r.pc = pc /\ r.ran = proc[p].ran
  BY <1>2, <1>4, <1>6 DEF Process
<1> QED BY <1>4, <1>5, <1>7

\* The node that starts pacemaker again is done now.
LEMMA StartPacemakerSafe ==
  ASSUME SafeInv, NEW p \in Workers, StartPacemaker(p)
  PROVE  SafeInv'
<1>1. PICK r \in Process :
        /\ proc' = [proc EXCEPT ![p] = r] /\ r.node = proc[p].node
        /\ r.seen = proc[p].seen /\ r.list = proc[p].list /\ r.ran = proc[p].ran
        /\ ElementsOf(proc[p].rest) = {Target(p)} \cup ElementsOf(r.rest)
        /\ \/ r.pc = "move" /\ r.rest # <<>>
           \/ r.pc = "normal" /\ r.rest = <<>>
  BY NextNodeFacts
<1>2. /\ proc[p].pc = "startPacemaker" /\ pacemaker' = pacemaker \cup {Target(p)}
      /\ UNCHANGED <<members, gone, address, queue, up, text, maintenance, spent, overlapped>>
  BY DEF StartPacemaker, dbVars, histVars
<1>3. proc[p].pc \in Rolling /\ proc[p].pc # "idle" BY <1>2 DEF Rolling
<1>4. Target(p) \in Nodes BY <1>3, TargetFacts
<1>5. TypeOK' BY <1>1, <1>2, <1>4 DEF SafeInv, TypeOK
<1>6. Place(proc[p]) /\ (~overlapped => Rolled(proc[p])) BY DEF SafeInv
<1>7. Place(r)' BY <1>1, <1>3, <1>6 DEF Place, Rolling, Removing
<1>8. Done(r) \subseteq Done(proc[p]) \cup {Target(p)} BY <1>1 DEF Done
<1>9. ~overlapped => Rolled(r)'
  <2>1. Target(p) = Head(proc[p].rest) BY <1>3, TargetFacts
  <2>2. Down(r)' = (r.ran \cup Done(r)) \ pacemaker' BY DEF Down, Done
  <2>3. ~overlapped => (proc[p].ran \cup Done(proc[p])) \ pacemaker \subseteq {Target(p)}
    BY <1>3, <1>6, <2>1 DEF Rolled, Down
  <2>4. ~overlapped => Down(r)' = {} BY <1>1, <1>2, <1>8, <2>2, <2>3
  <2> QED BY <2>4 DEF Rolled
<1>10. Guarded(r)' BY <1>1 DEF Guarded
<1> QED BY <1>1, <1>2, <1>3, <1>5, <1>7, <1>9, <1>10, SafeStep

LEMMA NormalSafe ==
  ASSUME SafeInv, NEW p \in Workers, Normal(p)
  PROVE  SafeInv'
<1>1. /\ proc[p].pc = "normal" /\ Goto(p, "stonith") /\ SetMaintenance(proc[p].list, FALSE)
      /\ UNCHANGED <<members, gone, address, queue, up, text, pacemaker, overlapped>>
  BY DEF Normal, dbVars
<1>2. "stonith" \in PCs /\ "stonith" \notin Whole /\ "normal" \notin Rolling
  BY DEF PCs, Whole, Rolling
<1>3. spent' \in [BudgetNames -> Nat] /\ maintenance' \in BOOLEAN
  BY <1>1, SetMaintenanceFacts DEF SafeInv
<1>4. TypeOK' BY <1>1, <1>2, <1>3, GotoFacts DEF SafeInv, TypeOK
<1> QED BY <1>1, <1>2, <1>4, GotoSafe

\* A process that ends promises nothing.
LEMMA EndSafe ==
  ASSUME SafeInv, NEW p \in Workers, proc[p].pc # "idle", Becomes(p, Idle),
         overlapped' = overlapped, members \cup gone \subseteq members' \cup gone',
         members' \in SUBSET Nodes, address' \in [Nodes -> Nat], maintenance' \in BOOLEAN,
         spent' \in [BudgetNames -> Nat], UNCHANGED <<gone, queue, up, text, pacemaker>>
  PROVE  SafeInv'
<1>1. proc' = [proc EXCEPT ![p] = Idle] /\ Idle \in Process BY IdleFacts DEF Becomes
<1>2. TypeOK' BY <1>1 DEF SafeInv, TypeOK
<1>3. PICK r \in Process : r = Idle BY <1>1
<1>4. r.pc = "idle" BY <1>3, IdleFacts
<1>5. Place(r)' /\ Rolled(r)' /\ Guarded(r)'
  BY <1>4 DEF Place, Rolled, Guarded, Rolling, Whole, Removing
<1> QED BY <1>1, <1>2, <1>3, <1>5, SafeStep

LEMMA JobEndsSafe ==
  ASSUME SafeInv, NEW p \in Workers, Stonith(p) \/ JobFails(p)
  PROVE  SafeInv'
<1>1. /\ proc[p].pc # "idle" /\ Becomes(p, Idle)
      /\ UNCHANGED <<members, gone, address, queue, up, text, pacemaker, maintenance,
                     overlapped>>
  BY DEF Stonith, JobFails, dbVars, nodeVars, histVars
<1>2. spent' \in [BudgetNames -> Nat]
  BY SpendFacts, Names DEF Stonith, JobFails, SafeInv, TypeOK, histVars
<1> QED BY <1>1, <1>2, EndSafe DEF SafeInv, TypeOK

LEMMA CompareFacts ==
  ASSUME SafeInv, NEW p \in Workers, Compare(p)
  PROVE  \E r \in Process :
           /\ proc' = [proc EXCEPT ![p] = r] /\ r.node = proc[p].node
           /\ r.seen = Loads(proc[p]) /\ ElementsOf(r.list) = members /\ r.ran = pacemaker
           /\ \/ /\ text[r.node] # Listing(Loads(proc[p])) /\ r.pc = "move"
                 /\ r.rest = r.list /\ r.list # <<>>
              \/ /\ r.pc = "stonith"
                 /\ text[r.node] = Listing(Loads(proc[p])) \/ members = {}
<1> DEFINE new == text[proc[p].node] # Listing(Loads(proc[p]))
           r == [proc[p] EXCEPT
                   !.pc = IF new /\ Listed # <<>> THEN "move" ELSE "stonith",
                   !.seen = Loads(proc[p]), !.loaded = TRUE, !.list = Listed,
                   !.rest = IF new THEN Listed ELSE <<>>, !.ran = pacemaker]
<1>1. proc' = [proc EXCEPT ![p] = r] BY DEF Compare, Becomes
<1>2. proc[p] \in Process /\ pacemaker \in SUBSET Nodes BY DEF SafeInv, TypeOK
<1>3. Listed \in Seq(Nodes) /\ ElementsOf(Listed) = members BY ListedFacts DEF SafeInv
<1>4. <<>> \in Seq(Nodes) /\ (Listed = <<>> => members = {}) BY <1>3, EmptyList
<1>5. "move" \in PCs /\ "stonith" \in PCs BY DEF PCs
<1>6. Loads(proc[p]) \in [Nodes -> Nat] BY <1>2, LoadsFacts DEF SafeInv
<1>7. new \in BOOLEAN OBVIOUS
<1> HIDE DEF new
<1>8. /\ r \in Process /\ r.node = proc[p].node /\ r.seen = Loads(proc[p]) /\ r.list = Listed
      /\ r.pc = (IF new /\ Listed # <<>> THEN "move" ELSE "stonith")
      /\ r.rest = (IF new THEN Listed ELSE <<>>) /\ r.ran = pacemaker
  BY <1>2, <1>3, <1>4, <1>5, <1>6, <1>7 DEF Process
<1> HIDE DEF r
<1>9. \/ new /\ r.pc = "move" /\ r.rest = r.list /\ r.list # <<>>
      \/ r.pc = "stonith" /\ (~new \/ members = {})
  BY <1>4, <1>7, <1>8
<1> QED BY <1>1, <1>3, <1>8, <1>9 DEF new

LEMMA CompareSafe ==
  ASSUME SafeInv, NEW p \in Workers, Compare(p)
  PROVE  SafeInv'
<1>1. PICK r \in Process :
        /\ proc' = [proc EXCEPT ![p] = r] /\ r.node = proc[p].node /\ r.ran = pacemaker
        /\ \/ r.pc = "move" /\ r.rest = r.list /\ r.list # <<>>
           \/ r.pc = "stonith"
  BY CompareFacts
<1>2. /\ proc[p].pc = "compare"
      /\ UNCHANGED <<members, gone, address, queue, up, text, pacemaker, maintenance, spent,
                     overlapped>>
  BY DEF Compare, dbVars, nodeVars, histVars
<1>3. TypeOK' BY <1>1, <1>2 DEF SafeInv, TypeOK
<1>4. proc[p].node \in Nodes BY <1>2 DEF SafeInv, Place
<1>5. Place(r)' BY <1>1, <1>4 DEF Place, Rolling, Removing
<1>6. r.pc = "move" => Down(r)' = {} BY <1>1, <1>2 DEF Down, Done
<1>7. Rolled(r)' /\ Guarded(r)' BY <1>1, <1>6 DEF Rolled, Guarded, Rolling, Whole
<1> QED BY <1>1, <1>2, <1>3, <1>5, <1>7, SafeStep

\* removeTasks: the collection that is loaded has the node unless its row is gone.
LEMMA LeaveSafe ==
  ASSUME SafeInv, NEW p \in Workers, Leave(p)
  PROVE  SafeInv'
<1>1. /\ proc[p].pc = "leave" /\ proc[p].node \in up
      /\ UNCHANGED <<members, gone, address, queue, up, text, pacemaker, overlapped>>
  BY DEF Leave, dbVars
<1>2. proc[p].pc \in Removing /\ proc[p].pc # "idle" BY <1>1 DEF Removing
<1>3. Place(proc[p]) /\ proc[p] \in Process BY DEF SafeInv, TypeOK
<1>4. CASE /\ proc[p].node \in pacemaker /\ SetMaintenance(Listed, TRUE)
           /\ Becomes(p, [proc[p] EXCEPT !.pc = "leavePacemaker", !.loaded = TRUE,
                                         !.list = Listed])
  <2>1. Listed \in Seq(Nodes) /\ ElementsOf(Listed) = members BY ListedFacts DEF SafeInv
  <2>2. /\ spent' \in [BudgetNames -> Nat] /\ maintenance' \in BOOLEAN
        /\ proc[p].node \in members => maintenance' \/ spent'["error"] > 0
    BY <1>1, <1>4, <2>1, SetMaintenanceFacts DEF SafeInv
  <2>3. "leavePacemaker" \in PCs BY DEF PCs
  <2>4. PICK r \in Process :
          /\ proc' = [proc EXCEPT ![p] = r] /\ r.pc = "leavePacemaker"
          /\ r.node = proc[p].node /\ r.rest = proc[p].rest
    <3> DEFINE r == [proc[p] EXCEPT !.pc = "leavePacemaker", !.loaded = TRUE, !.list = Listed]
    <3>1. /\ r \in Process /\ r.pc = "leavePacemaker" /\ r.node = proc[p].node
          /\ r.rest = proc[p].rest
      BY <1>3, <2>1, <2>3 DEF Process
    <3> QED BY <1>4, <3>1 DEF Becomes
  <2>5. TypeOK' BY <1>1, <2>2, <2>4 DEF SafeInv, TypeOK
  <2>6. r.node \in members \cup gone /\ r.node \in Nodes /\ r.rest = <<>>
    BY <1>1, <1>2, <1>3, <2>4 DEF Place
  <2>7. Place(r)' BY <1>1, <2>4, <2>6 DEF Place, Rolling, Removing
  <2>8. Rolled(r)' /\ Guarded(r)'
    BY <1>1, <2>2, <2>4, <2>6 DEF Rolled, Guarded, Rolling, Whole
  <2> QED BY <1>1, <1>2, <2>4, <2>5, <2>7, <2>8, SafeStep
<1>5. CASE UNCHANGED <<maintenance, spent>> /\ Goto(p, "leaveCorosync")
  <2>1. /\ "leaveCorosync" \in PCs /\ "leaveCorosync" \in Removing \ Whole
        /\ "leave" \notin Rolling
    BY DEF PCs, Removing, Whole, Rolling
  <2>2. TypeOK' BY <1>1, <1>5, <2>1, GotoFacts DEF SafeInv, TypeOK
  <2> QED BY <1>1, <1>2, <1>5, <2>1, <2>2, GotoSafe
<1> QED BY <1>4, <1>5 DEF Leave

LEMMA UnlinkSafe ==
  ASSUME SafeInv, NEW p \in Workers, Unlink(p) \/ DeleteRow(p)
  PROVE  SafeInv'
<1>1. proc[p].pc \in {"unlink", "delete"} BY DEF Unlink, DeleteRow
<1>2. proc[p].pc \in Removing /\ proc[p].pc # "idle" BY <1>1 DEF Removing
<1>3. proc[p].node \in Nodes BY <1>2 DEF SafeInv, Place
<1>4. PICK pc \in {"delete", "rejoin"} : Goto(p, pc) BY DEF Unlink, DeleteRow
<1>5. /\ pc \in PCs /\ pc \in Removing /\ pc \notin Whole /\ proc[p].pc \notin Rolling
      /\ pc \notin {"stopPacemaker", "leavePacemaker"}
  BY <1>1 DEF PCs, Removing, Whole, Rolling
<1>6. UNCHANGED <<queue, up, pacemaker, maintenance, spent, overlapped>>
  BY DEF Unlink, DeleteRow, dbVars, nodeVars, histVars
<1>7. text' \in [Nodes -> Texts]
  BY <1>3, TextFacts DEF Unlink, DeleteRow, SafeInv, TypeOK, nodeVars
<1>8. /\ members' \in SUBSET Nodes /\ gone' \in SUBSET Nodes /\ address' \in [Nodes -> Nat]
      /\ members \cup gone \subseteq members' \cup gone'
  BY <1>3 DEF Unlink, DeleteRow, SafeInv, TypeOK, dbVars
<1>9. proc' \in [Workers -> Process] BY <1>4, <1>5, GotoFacts DEF SafeInv, TypeOK
<1>10. TypeOK' BY <1>6, <1>7, <1>8, <1>9 DEF SafeInv, TypeOK
<1> QED BY <1>2, <1>4, <1>5, <1>6, <1>8, <1>10, GotoSafe

LEMMA RejoinSafe ==
  ASSUME SafeInv, NEW p \in Workers, Rejoin(p)
  PROVE  SafeInv'
<1> DEFINE nodes == Collection(p)
           first == Head(nodes)
           cut   == nodes # <<>> /\ first \notin up
<1>1. /\ proc[p].pc = "rejoin" /\ Becomes(p, Idle)
      /\ members' = IF cut THEN members \cup {first} ELSE members
      /\ \/ SetMaintenance(nodes, FALSE)
         \/ UNCHANGED <<maintenance, spent>>
      /\ UNCHANGED <<gone, address, queue, up, text, pacemaker, overlapped>>
  BY DEF Rejoin
<1>2. nodes \in Seq(Nodes) BY ListedFacts DEF Collection, SafeInv, TypeOK, Process
<1> HIDE DEF nodes
<1>3. nodes # <<>> => first \in Nodes BY <1>2, HeadTail
<1>4. members' \in SUBSET Nodes /\ address' \in [Nodes -> Nat] /\ members \subseteq members'
  BY <1>1, <1>3 DEF SafeInv, TypeOK
<1>5. spent' \in [BudgetNames -> Nat] /\ maintenance' \in BOOLEAN
  BY <1>1, SetMaintenanceFacts DEF SafeInv, TypeOK
<1> QED BY <1>1, <1>4, <1>5, EndSafe

\* The process of a job that begins has loaded the row of its node.
Begun(n, pc) == [Idle EXCEPT !.pc = pc, !.node = n, !.seen[n] = address[n]]

LEMMA BegunFacts ==
  ASSUME TypeOK, NEW n \in Nodes, NEW pc \in PCs
  PROVE  /\ Begun(n, pc) \in Process /\ Begun(n, pc).pc = pc /\ Begun(n, pc).node = n
         /\ Begun(n, pc).rest = <<>>
         /\ \A m \in Nodes : Begun(n, pc).seen[m] = IF m = n THEN address[n] ELSE 0
<1> DEFINE seen == [Idle.seen EXCEPT ![n] = address[n]]
           r == Begun(n, pc)
<1>1. address[n] \in Nat /\ Idle.seen = [m \in Nodes |-> 0] BY DEF TypeOK, Idle
<1>2. seen \in [Nodes -> Nat] /\ \A m \in Nodes : seen[m] = IF m = n THEN address[n] ELSE 0
  BY <1>1
<1>3. r = [Idle EXCEPT !.pc = pc, !.node = n, !.seen = seen] BY DEF Idle, Begun
<1> HIDE DEF seen, r
<1>4. /\ r \in Process /\ r.pc = pc /\ r.node = n /\ r.rest = <<>> /\ r.seen = seen
  BY <1>2, <1>3, IdleFacts DEF Process
<1> QED BY <1>2, <1>4 DEF r

\* A job begins: it has not touched a node yet.
LEMMA BeginSafe ==
  ASSUME SafeInv, NEW p \in Workers, NEW pc \in {"compare", "leave"}, NEW n \in members,
         Begin(p, pc, n), spent' \in [BudgetNames -> Nat], queue' \in [Nodes -> Nat],
         UNCHANGED <<members, gone, address, up, text, pacemaker, maintenance>>,
         \A b \in BudgetNames : spent[b] > 0 => spent'[b] > 0
  PROVE  SafeInv'
<1>1. /\ proc[p].pc = "idle"
      /\ proc' = [proc EXCEPT ![p] = Begun(n, pc)]
      /\ overlapped' = (overlapped \/ Busy)
  BY DEF Begin, Becomes, Begun
<1>2. n \in Nodes /\ pc \in PCs BY DEF SafeInv, TypeOK, PCs
<1>3. PICK r \in Process : /\ proc' = [proc EXCEPT ![p] = r] /\ r.pc = pc /\ r.node = n
                           /\ r.rest = <<>>
  <2>1. TypeOK BY DEF SafeInv
  <2>2. /\ Begun(n, pc) \in Process /\ Begun(n, pc).pc = pc /\ Begun(n, pc).node = n
        /\ Begun(n, pc).rest = <<>>
    BY <1>2, <2>1, BegunFacts
  <2> QED BY <1>1, <2>2
<1>4. /\ proc'[p] = r /\ \A q \in Workers : q # p => proc'[q] = proc[q]
      /\ proc' \in [Workers -> Process]
  BY <1>3 DEF SafeInv, TypeOK
<1>5. overlapped' \in BOOLEAN BY <1>1 DEF SafeInv, TypeOK, Busy
<1>6. TypeOK' BY <1>4, <1>5 DEF SafeInv, TypeOK
<1>7. ~overlapped' => ~overlapped /\ \A q \in Workers : proc[q].pc = "idle"
  BY <1>1 DEF Busy
<1>8. Alone' BY <1>4, <1>7 DEF Alone
<1>9. ASSUME NEW q \in Workers PROVE Place(proc[q])'
  <2>1. CASE q = p BY <1>2, <1>3, <1>4, <2>1 DEF Place, Rolling, Removing
  <2>2. CASE q # p
    <3>1. Place(proc[q]) /\ proc'[q] = proc[q] BY <1>4, <2>2 DEF SafeInv
    <3> QED BY <3>1 DEF Place
  <2> QED BY <2>1, <2>2
<1>10. ASSUME ~overlapped', NEW q \in Workers PROVE Rolled(proc[q])' /\ Guarded(proc[q])'
  <2>1. proc'[q].pc \in {"idle", pc} BY <1>3, <1>4, <1>7, <1>10
  <2> QED BY <2>1 DEF Rolled, Guarded, Rolling, Whole
<1> QED BY <1>6, <1>8, <1>9, <1>10 DEF SafeInv

\* What users and the environment do leaves the processes as they are.
LEMMA OutsideSafe ==
  ASSUME SafeInv, UNCHANGED <<proc, overlapped, pacemaker, maintenance, text>>,
         members' \in SUBSET Nodes, gone' \in SUBSET Nodes, address' \in [Nodes -> Nat],
         members \cup gone \subseteq members' \cup gone', gone \subseteq gone',
         queue' \in [Nodes -> Nat], up' \in SUBSET Nodes, spent' \in [BudgetNames -> Nat],
         \A b \in BudgetNames : spent[b] > 0 => spent'[b] > 0
  PROVE  SafeInv'
<1>1. TypeOK' BY DEF SafeInv, TypeOK
<1>2. Alone' BY DEF SafeInv, Alone
<1>3. \A q \in Workers : Place(proc[q])' BY DEF SafeInv, Place
<1>4. "error" \in BudgetNames BY Names
<1>5. ASSUME ~overlapped', NEW q \in Workers PROVE Rolled(proc[q])' /\ Guarded(proc[q])'
  <2>1. Rolled(proc[q]) /\ Guarded(proc[q]) BY <1>5 DEF SafeInv
  <2> QED BY <1>4, <2>1 DEF Rolled, Guarded, Down, Done
<1> QED BY <1>1, <1>2, <1>3, <1>5 DEF SafeInv

LEMMA UsersSafe ==
  ASSUME SafeInv, NEW n \in Nodes,
         EditNode(n) \/ DeleteNode(n) \/ NodeDown(n) \/ NodeUp(n)
  PROVE  SafeInv'
<1>1. UNCHANGED <<proc, overlapped, pacemaker, maintenance, text>>
  BY DEF EditNode, DeleteNode, NodeDown, NodeUp, nodeVars, histVars
<1>2. /\ spent' \in [BudgetNames -> Nat]
      /\ \A b \in BudgetNames : spent[b] > 0 => spent'[b] > 0
  BY SpendFacts, Names DEF EditNode, DeleteNode, NodeDown, NodeUp, SafeInv, TypeOK, histVars
<1>3. /\ members' \in SUBSET Nodes /\ gone' \in SUBSET Nodes /\ address' \in [Nodes -> Nat]
      /\ queue' \in [Nodes -> Nat] /\ up' \in SUBSET Nodes
      /\ members \cup gone \subseteq members' \cup gone' /\ gone \subseteq gone'
  BY DEF EditNode, DeleteNode, NodeDown, NodeUp, SafeInv, TypeOK, dbVars, nodeVars
<1> QED BY <1>1, <1>2, <1>3, OutsideSafe

LEMMA StartSafe ==
  ASSUME SafeInv, NEW p \in Workers, NEW n \in Nodes, StartPersist(p, n) \/ StartRemove(p, n)
  PROVE  SafeInv'
<1>1. UNCHANGED <<members, gone, address, up, text, pacemaker, maintenance>>
  BY DEF StartPersist, StartRemove, dbVars, nodeVars
<1>2. queue' \in [Nodes -> Nat]
  BY DEF StartPersist, StartRemove, SafeInv, TypeOK, Pending, dbVars
<1>3. /\ spent' \in [BudgetNames -> Nat]
      /\ \A b \in BudgetNames : spent[b] > 0 => spent'[b] > 0
  BY SpendFacts, Names DEF StartPersist, StartRemove, SafeInv, TypeOK
<1>4. CASE n \in members /\ (Begin(p, "compare", n) \/ Begin(p, "leave", n))
  BY <1>1, <1>2, <1>3, <1>4, BeginSafe
<1>5. CASE UNCHANGED <<proc, overlapped>>
  BY <1>1, <1>2, <1>3, <1>5, OutsideSafe DEF SafeInv, TypeOK
<1> QED BY <1>4, <1>5 DEF StartPersist, StartRemove

LEMMA SafeInit == Init => SafeInv
<1> SUFFICES ASSUME Init PROVE SafeInv OBVIOUS
<1>1. \A p \in Workers : proc[p].pc = "idle" /\ proc[p] \in Process BY IdleFacts DEF Init
<1>2. address \in [Nodes -> Nat] /\ members \in SUBSET Nodes BY DEF Init
<1>5. Current \in [Nodes -> Nat] BY <1>2 DEF Current, Listing
<1>6. text \in [Nodes -> Texts] BY <1>5, TextFacts DEF Init
<1>3. TypeOK BY <1>1, <1>2, <1>6, IdleFacts DEF Init, TypeOK
<1>4. Alone BY <1>1 DEF Alone
<1> QED BY <1>1, <1>3, <1>4 DEF SafeInv, Place, Rolled, Guarded, Rolling, Whole, Removing

LEMMA JobSafe ==
  ASSUME SafeInv, NEW p \in Workers, JobStep(p)
  PROVE  SafeInv'
<1>1. /\ \A pc \in Rolling \cup Removing : pc \in PCs
      /\ {"stopPacemaker", "stopCorosync", "startCorosync", "startPacemaker"} \subseteq Rolling
      /\ {"stopCorosync", "startCorosync", "startPacemaker"} = Restarting
      /\ "leavePacemaker" \in Removing /\ "leaveCorosync" \in Removing \ {"leavePacemaker"}
      /\ "unlink" \in Removing \ {"leavePacemaker"}
  BY DEF Rolling, Restarting, Removing, PCs
<1>2. CASE Compare(p) \/ MoveConfig(p) \/ WriteConfig(p) \/ Ensure(p)
  BY <1>2, CompareSafe, MoveSafe, WriteSafe, EnsureSafe
<1>3. CASE StopPacemaker(p, "stopPacemaker", "stopCorosync")
  BY <1>1, <1>3, StopPacemakerSafe
<1>4. CASE StopPacemaker(p, "leavePacemaker", "leaveCorosync")
  BY <1>1, <1>4, StopPacemakerSafe
<1>5. CASE StopCorosync(p, "stopCorosync", "startCorosync") BY <1>1, <1>5, CorosyncSafe
<1>6. CASE StopCorosync(p, "leaveCorosync", "unlink") BY <1>1, <1>6, CorosyncSafe
<1>7. CASE StartCorosync(p) BY <1>1, <1>7, CorosyncSafe
<1>8. CASE StartPacemaker(p) \/ Normal(p) \/ Stonith(p) \/ JobFails(p)
  BY <1>8, StartPacemakerSafe, NormalSafe, JobEndsSafe
<1>9. CASE Leave(p) \/ Unlink(p) \/ DeleteRow(p) \/ Rejoin(p)
  BY <1>9, LeaveSafe, UnlinkSafe, RejoinSafe
<1> QED BY <1>2, <1>3, <1>4, <1>5, <1>6, <1>7, <1>8, <1>9 DEF JobStep

LEMMA SafeNext == SafeInv /\ [Next]_vars => SafeInv'
<1> SUFFICES ASSUME SafeInv, [Next]_vars PROVE SafeInv' OBVIOUS
<1>1. CASE UNCHANGED vars
  <2>1. UNCHANGED <<members, gone, address, queue, up, text, pacemaker, maintenance, proc,
                    spent, overlapped>>
    BY <1>1 DEF vars, dbVars, nodeVars, histVars
  <2> QED BY <2>1, OutsideSafe DEF SafeInv, TypeOK
<1> QED BY <1>1, UsersSafe, StartSafe, JobSafe DEF Next

\* At every step of a rollout, in any cluster, pacemaker is down on the node the
\* job works on at most, among those that ran it and those that are finished,
\* whatever fails and whatever rows change, as long as no two processes work at
\* once (persistTasks).
THEOREM RolloutsRoll == Spec => []RollingRestart
<1>1. SafeInv => RollingRestart
  <2> SUFFICES ASSUME SafeInv, NEW p \in Workers, ~overlapped
               PROVE  /\ proc[p].pc \in Rolling => Down(proc[p]) \subseteq {Target(p)}
                      /\ proc[p].pc \in Whole => Down(proc[p]) = {}
    BY DEF RollingRestart, Whole
  <2>1. Rolled(proc[p]) BY DEF SafeInv
  <2>2. proc[p].pc \in Rolling => Target(p) = Head(proc[p].rest)
    <3>1. proc[p].pc \in Rolling => proc[p].pc # "idle" BY DEF Rolling
    <3> QED BY <3>1, TargetFacts
  <2> QED BY <2>1, <2>2 DEF Rolled
<1> QED BY <1>1, SafeInit, SafeNext, PTL DEF Spec

\* Only the two steps that stop pacemaker take a node out of it.
LEMMA PacemakerStops ==
  ASSUME SafeInv, [Next]_vars, pacemaker \ pacemaker' # {}
  PROVE  \E p \in Workers : /\ proc[p].pc \in {"stopPacemaker", "leavePacemaker"}
                            /\ pacemaker \ pacemaker' \subseteq {Target(p)}
<1>1. pacemaker' # pacemaker OBVIOUS
<1>2. ~UNCHANGED vars BY <1>1 DEF vars, nodeVars
<1>3. \A n \in Nodes : ~(EditNode(n) \/ DeleteNode(n) \/ NodeDown(n) \/ NodeUp(n))
  BY <1>1 DEF EditNode, DeleteNode, NodeDown, NodeUp, nodeVars
<1>4. \A p \in Workers, n \in Nodes : ~(StartPersist(p, n) \/ StartRemove(p, n))
  BY <1>1 DEF StartPersist, StartRemove, nodeVars
<1>5. PICK p \in Workers : JobStep(p) BY <1>2, <1>3, <1>4 DEF Next
<1>6. ~(Compare(p) \/ MoveConfig(p) \/ WriteConfig(p) \/ Ensure(p))
  BY <1>1 DEF Compare, MoveConfig, WriteConfig, Ensure, nodeVars
<1>7. ~(Normal(p) \/ Stonith(p) \/ JobFails(p) \/ Leave(p))
  BY <1>1 DEF Normal, Stonith, JobFails, Leave, nodeVars
<1>8. ~(Unlink(p) \/ DeleteRow(p) \/ Rejoin(p) \/ StartCorosync(p))
  BY <1>1 DEF Unlink, DeleteRow, Rejoin, StartCorosync, nodeVars
<1>9. \A from, to : ~StopCorosync(p, from, to) BY <1>1 DEF StopCorosync
<1>10. ~StartPacemaker(p) BY DEF StartPacemaker
<1>11. \/ StopPacemaker(p, "stopPacemaker", "stopCorosync")
       \/ StopPacemaker(p, "leavePacemaker", "leaveCorosync")
  BY <1>5, <1>6, <1>7, <1>8, <1>9, <1>10 DEF JobStep
<1> QED BY <1>11 DEF StopPacemaker

\* Whatever nodes and jobs there are, pacemaker is stopped in maintenance only,
\* but for a swallowed error, jobs side by side and rows that are gone.
THEOREM RestartsGuarded == Spec => GuardedRestart
<1> DEFINE Guard == pacemaker \ pacemaker' # {} =>
             \/ maintenance
             \/ spent["error"] > 0 \/ overlapped \/ (pacemaker \ pacemaker') \subseteq gone
<1>1. SafeInv /\ [Next]_vars => Guard
  <2> SUFFICES ASSUME SafeInv, [Next]_vars, pacemaker \ pacemaker' # {}, ~overlapped
               PROVE  \/ maintenance \/ spent["error"] > 0
                      \/ (pacemaker \ pacemaker') \subseteq gone
    OBVIOUS
  <2>1. PICK p \in Workers : /\ proc[p].pc \in {"stopPacemaker", "leavePacemaker"}
                             /\ pacemaker \ pacemaker' \subseteq {Target(p)}
    BY PacemakerStops
  <2>2. Guarded(proc[p]) BY DEF SafeInv
  <2>3. proc[p].pc = "leavePacemaker" => Target(p) = proc[p].node
    BY TargetFacts DEF Removing
  <2> QED BY <2>1, <2>2, <2>3 DEF Guarded
<1>2. GuardedRestart <=> [][Guard]_vars BY DEF GuardedRestart
<1> HIDE DEF Guard
<1> QED BY <1>1, <1>2, SafeInit, SafeNext, PTL DEF Spec

-----------------------------------------------------------------------------
(* Undisturbed rollouts.                                                   *)

\* What was spent or overlapped stays so.
LEMMA HistoryGrows ==
  ASSUME SafeInv, [Next]_vars
  PROVE  /\ \A b \in BudgetNames : spent[b] > 0 => spent'[b] > 0
         /\ overlapped => overlapped'
<1>1. CASE UNCHANGED vars BY <1>1 DEF vars, histVars
<1>2. ASSUME NEW n \in Nodes, EditNode(n) \/ DeleteNode(n) \/ NodeDown(n) \/ NodeUp(n)
      PROVE  (\A b \in BudgetNames : spent[b] > 0 => spent'[b] > 0) /\ overlapped' = overlapped
  BY <1>2, SpendFacts, Names DEF EditNode, DeleteNode, NodeDown, NodeUp, SafeInv, histVars
<1>3. ASSUME NEW p \in Workers, NEW n \in Nodes, StartPersist(p, n) \/ StartRemove(p, n)
      PROVE  /\ \A b \in BudgetNames : spent[b] > 0 => spent'[b] > 0
             /\ overlapped => overlapped'
  BY <1>3, SpendFacts, Names DEF StartPersist, StartRemove, Begin, SafeInv
<1>4. ASSUME NEW p \in Workers, JobStep(p)
      PROVE  (\A b \in BudgetNames : spent[b] > 0 => spent'[b] > 0) /\ overlapped' = overlapped
  <2>1. CASE Compare(p) \/ MoveConfig(p) \/ StartCorosync(p) \/ StartPacemaker(p) \/ Stonith(p)
             \/ Unlink(p) \/ DeleteRow(p)
    BY <2>1 DEF Compare, MoveConfig, StartCorosync, StartPacemaker, Stonith, Unlink, DeleteRow,
                histVars
  <2>2. CASE WriteConfig(p) \/ JobFails(p)
    BY <2>2, SpendFacts, Names DEF WriteConfig, JobFails, SafeInv
  <2>3. CASE Ensure(p) \/ Normal(p) \/ Leave(p) \/ Rejoin(p)
    BY <2>3, SetMaintenanceFacts DEF Ensure, Normal, Leave, Rejoin, SafeInv
  <2>4. ASSUME NEW from, NEW to, StopPacemaker(p, from, to) \/ StopCorosync(p, from, to)
        PROVE  spent' = spent /\ overlapped' = overlapped
    BY <2>4 DEF StopPacemaker, StopCorosync, histVars
  <2> QED BY <1>4, <2>1, <2>2, <2>3, <2>4 DEF JobStep
<1> QED BY <1>1, <1>2, <1>3, <1>4 DEF Next

LEMMA QuietBefore ==
  ASSUME SafeInv, [Next]_vars, Quiet'
  PROVE  Quiet /\ (spent'["delete"] = 0 => spent["delete"] = 0)
<1>1. spent \in [BudgetNames -> Nat] BY DEF SafeInv, TypeOK
<1>2. ASSUME NEW b \in BudgetNames, spent'[b] = 0 PROVE spent[b] = 0
  <2>1. ~(spent[b] > 0) BY <1>2, HistoryGrows
  <2> QED BY <1>1, <2>1
<1>3. ~overlapped BY HistoryGrows DEF Quiet, Undisturbed
<1> QED BY <1>2, <1>3, Names DEF Quiet, Undisturbed

\* What QuietInv says when p works: the others are idle.
LEMMA QuietFacts ==
  ASSUME SafeInv, QuietInv, Quiet, NEW p \in Workers, proc[p].pc # "idle"
  PROVE  /\ up = Nodes /\ proc[p].pc \notin Removing
         /\ \A q \in Workers : q # p => proc[q].pc = "idle"
         /\ \A n \in Nodes : text[n] = Missing =>
              proc[p].pc = "write" /\ n = Head(proc[p].rest)
         /\ maintenance => proc[p].pc \in Rolling \cup {"normal"}
<1>1. \A q \in Workers : q # p => proc[q].pc = "idle"
  BY OthersIdle DEF Quiet, Undisturbed, SafeInv
<1> QED BY <1>1 DEF QuietInv, Rolling

\* Nothing throws.
LEMMA NoFailure ==
  ASSUME SafeInv, QuietInv, Quiet, NEW p \in Workers, JobFails(p)
  PROVE  spent'["failure"] > 0
<1>1. proc[p].pc # "idle" BY DEF JobFails
<1>2. Target(p) \in up BY <1>1, QuietFacts, TargetFacts
<1>3. proc[p].pc # "write" => text[Target(p)] # Missing BY <1>1, TargetFacts, QuietFacts
<1>5. ~Throws(p) BY <1>2, <1>3 DEF Throws
<1>6. Spend("failure") BY <1>5 DEF JobFails
<1> QED BY <1>6, SpendFacts, Names DEF SafeInv

\* All nodes of the list are done and run pacemaker: one of them answers.
LEMMA BackToNormal ==
  ASSUME SafeInv, QuietInv, Quiet, Quiet', NEW p \in Workers, Normal(p)
  PROVE  ~maintenance'
<1>1. proc[p].pc = "normal" /\ SetMaintenance(proc[p].list, FALSE) BY DEF Normal
<1>2. proc[p].list # <<>> /\ proc[p].rest = <<>> BY <1>1 DEF SafeInv, Place
<1>3. proc[p].list \in Seq(Nodes) BY DEF SafeInv, TypeOK, Process
<1>4. Head(proc[p].list) \in ElementsOf(proc[p].list) /\ Head(proc[p].list) \in Nodes
  BY <1>2, <1>3, HeadTail
<1>5. Done(proc[p]) = ElementsOf(proc[p].list) BY <1>2, EmptyList DEF Done
<1>6. Done(proc[p]) \subseteq pacemaker
  BY <1>1 DEF SafeInv, Rolled, Quiet, Undisturbed, Whole, Down
<1>7. up = Nodes BY <1>1, QuietFacts
<1>8. spent'["error"] = 0 BY DEF Quiet, Undisturbed
<1>9. ElementsOf(proc[p].list) \cap up \cap pacemaker # {} BY <1>4, <1>5, <1>6, <1>7
<1>10. \/ spent'["error"] > 0
       \/ ElementsOf(proc[p].list) \cap up \cap pacemaker = {}
       \/ maintenance' = FALSE
  BY <1>1, SetMaintenanceFacts DEF SafeInv
<1> QED BY <1>8, <1>9, <1>10

\* The steps of a process that nothing disturbs, as far as files and the place in
\* the list go: r is what becomes of it.
Compares(q, r) ==
  /\ q.pc = "compare" /\ text' = text /\ maintenance' = maintenance
  /\ r.seen = Loads(q) /\ ElementsOf(r.list) = members
  /\ \/ text[r.node] # Listing(Loads(q)) /\ r.pc = "move" /\ r.rest = r.list
     \/ r.pc = "stonith" /\ (text[r.node] = Listing(Loads(q)) \/ members = {})
Moves(q, r) == /\ q.pc = "move" /\ r.pc = "write" /\ maintenance' = maintenance
               /\ Same(r, q) /\ r.seen = q.seen
               /\ text' = [text EXCEPT ![Head(q.rest)] = Missing]
Writes(q, r) == /\ q.pc = "write" /\ r.pc = "ensure" /\ maintenance' = maintenance
                /\ Same(r, q) /\ r.seen = Loads(q)
                /\ text' = [text EXCEPT ![Head(q.rest)] = Listing(Loads(q))]
Restarts(q, r) == /\ q.pc \in Written /\ r.pc \in Written /\ text' = text
                  /\ Same(r, q) /\ r.seen = q.seen
Advances(q, r) ==
  /\ q.pc = "startPacemaker" /\ r.seen = q.seen /\ r.list = q.list
  /\ ElementsOf(q.rest) = {Head(q.rest)} \cup ElementsOf(r.rest)
  /\ r.pc = "move" \/ (r.pc = "normal" /\ r.rest = <<>>)
  /\ text' = text
Leaves(q, r) == q.pc = "normal" /\ r.pc = "stonith" /\ text' = text /\ ~maintenance'
Ends(q, r) == /\ q.pc = "stonith" /\ r.pc = "idle" /\ text' = text
              /\ maintenance' = maintenance
QuietStep(q, r) ==
  Compares(q, r) \/ Moves(q, r) \/ Writes(q, r) \/ Restarts(q, r) \/ Advances(q, r)
    \/ Leaves(q, r) \/ Ends(q, r)

LEMMA QuietSteps ==
  ASSUME SafeInv, QuietInv, Quiet, Quiet', NEW p \in Workers, JobStep(p)
  PROVE  /\ proc[p].pc # "idle" /\ UNCHANGED <<members, address, queue, up>>
         /\ \E r \in Process : /\ proc' = [proc EXCEPT ![p] = r] /\ QuietStep(proc[p], r)
                               /\ r.pc # "idle" => r.node = proc[p].node
<1>1. spent'["error"] = 0 /\ spent'["failure"] = 0 BY DEF Quiet, Undisturbed
<1>2. ~JobFails(p) BY <1>1, NoFailure
<1>3. proc[p].pc # "idle" => proc[p].pc \notin Removing BY QuietFacts
<1>4. ~(Leave(p) \/ Unlink(p) \/ DeleteRow(p) \/ Rejoin(p))
  BY <1>3 DEF Leave, Unlink, DeleteRow, Rejoin, Removing
<1>5. /\ ~StopPacemaker(p, "leavePacemaker", "leaveCorosync")
      /\ ~StopCorosync(p, "leaveCorosync", "unlink")
  BY <1>3 DEF StopPacemaker, StopCorosync, Removing
<1>6. TypeOK BY DEF SafeInv
<1>7. /\ "write" \in PCs /\ "ensure" \in PCs /\ "stonith" \in PCs /\ Written \subseteq PCs
      /\ Written \subseteq Rolling
  BY DEF Written, Rolling, PCs
<1>8. CASE Compare(p)
  <2>1. PICK r \in Process :
          /\ proc' = [proc EXCEPT ![p] = r] /\ r.node = proc[p].node
          /\ r.seen = Loads(proc[p]) /\ ElementsOf(r.list) = members
          /\ \/ /\ text[r.node] # Listing(Loads(proc[p])) /\ r.pc = "move"
                /\ r.rest = r.list
             \/ /\ r.pc = "stonith"
                /\ text[r.node] = Listing(Loads(proc[p])) \/ members = {}
    BY <1>8, CompareFacts
  <2>2. /\ proc[p].pc = "compare"
        /\ UNCHANGED <<members, address, queue, up, text, maintenance>>
    BY <1>8 DEF Compare, dbVars, nodeVars
  <2>3. Compares(proc[p], r) BY <2>1, <2>2 DEF Compares
  <2> QED BY <2>1, <2>2, <2>3 DEF QuietStep
<1>9. CASE MoveConfig(p)
  <2>1. /\ proc[p].pc = "move" /\ Goto(p, "write")
        /\ text' = [text EXCEPT ![Target(p)] = Missing]
        /\ UNCHANGED <<members, address, queue, up, maintenance>>
    BY <1>9 DEF MoveConfig, dbVars
  <2>2. Target(p) = Head(proc[p].rest) BY <2>1, TargetFacts DEF Rolling
  <2>3. PICK r \in Process : /\ proc' = [proc EXCEPT ![p] = r] /\ r.pc = "write"
                             /\ Same(r, proc[p]) /\ r.seen = proc[p].seen
    BY <1>6, <1>7, <2>1, GotoFacts
  <2>4. Moves(proc[p], r) BY <2>1, <2>2, <2>3 DEF Moves
  <2> QED BY <2>1, <2>3, <2>4 DEF QuietStep, Same
<1>10. CASE WriteConfig(p)
  <2>1. /\ proc[p].pc = "write"
        /\ UNCHANGED <<members, address, queue, up, maintenance>>
    BY <1>10 DEF WriteConfig, dbVars
  <2>2. Target(p) = Head(proc[p].rest) /\ Target(p) \in Nodes BY <2>1, TargetFacts DEF Rolling
  <2>3. Target(p) \in up BY <2>1, <2>2, QuietFacts
  <2>4. ~Spend("error") BY <1>1, <1>6, SpendFacts, Names
  <2>5. text' = [text EXCEPT ![Target(p)] = Listing(Loads(proc[p]))]
    BY <1>10, <2>3, <2>4 DEF WriteConfig
  <2>6. PICK r \in Process : /\ proc' = [proc EXCEPT ![p] = r] /\ r.pc = "ensure"
                             /\ Same(r, proc[p]) /\ r.seen = Loads(proc[p])
    BY <1>10, WriteFacts
  <2>7. Writes(proc[p], r) BY <2>1, <2>2, <2>5, <2>6 DEF Writes
  <2> QED BY <2>1, <2>6, <2>7 DEF QuietStep, Same
<1>11. CASE \/ Ensure(p) \/ StopPacemaker(p, "stopPacemaker", "stopCorosync")
            \/ StopCorosync(p, "stopCorosync", "startCorosync") \/ StartCorosync(p)
  <2>1. /\ proc[p].pc \in Written /\ proc[p].pc # "idle"
        /\ UNCHANGED <<members, address, queue, up, text>>
    BY <1>11 DEF Ensure, StopPacemaker, StopCorosync, StartCorosync, dbVars, Written, Rolling
  <2>2. PICK pc \in Written : Goto(p, pc)
    BY <1>11 DEF Ensure, StopPacemaker, StopCorosync, StartCorosync, Written, Rolling
  <2>3. PICK r \in Process : /\ proc' = [proc EXCEPT ![p] = r] /\ r.pc = pc
                             /\ Same(r, proc[p]) /\ r.seen = proc[p].seen
    BY <1>6, <1>7, <2>2, GotoFacts
  <2>4. Restarts(proc[p], r) BY <2>1, <2>2, <2>3 DEF Restarts
  <2> QED BY <2>1, <2>3, <2>4 DEF QuietStep, Same
<1>12. CASE StartPacemaker(p)
  <2>1. /\ proc[p].pc = "startPacemaker" /\ UNCHANGED <<members, address, queue, up, text>>
    BY <1>12 DEF StartPacemaker, dbVars
  <2>2. Target(p) = Head(proc[p].rest) BY <2>1, TargetFacts DEF Rolling
  <2>3. PICK r \in Process :
           /\ proc' = [proc EXCEPT ![p] = r] /\ r.node = proc[p].node
           /\ r.seen = proc[p].seen /\ r.list = proc[p].list /\ r.ran = proc[p].ran
           /\ ElementsOf(proc[p].rest) = {Target(p)} \cup ElementsOf(r.rest)
           /\ \/ r.pc = "move" /\ r.rest # <<>>
              \/ r.pc = "normal" /\ r.rest = <<>>
    BY <1>12, NextNodeFacts
  <2>4. Advances(proc[p], r) BY <2>1, <2>2, <2>3 DEF Advances
  <2> QED BY <2>1, <2>3, <2>4 DEF QuietStep
<1>13. CASE Normal(p)
  <2>1. /\ proc[p].pc = "normal" /\ Goto(p, "stonith")
        /\ UNCHANGED <<members, address, queue, up, text>>
    BY <1>13 DEF Normal, dbVars
  <2>2. PICK r \in Process : proc' = [proc EXCEPT ![p] = r] /\ r.pc = "stonith" /\ Same(r, proc[p])
    BY <1>6, <1>7, <2>1, GotoFacts
  <2>3. Leaves(proc[p], r) BY <1>13, <2>1, <2>2, BackToNormal DEF Leaves
  <2> QED BY <2>1, <2>2, <2>3 DEF QuietStep, Same
<1>14. CASE Stonith(p)
  <2>1. /\ proc[p].pc = "stonith" /\ proc' = [proc EXCEPT ![p] = Idle]
        /\ UNCHANGED <<members, address, queue, up, text, maintenance>>
    BY <1>14 DEF Stonith, Becomes, dbVars, nodeVars
  <2>2. Ends(proc[p], Idle) BY <2>1, IdleFacts DEF Ends
  <2> QED BY <2>1, <2>2, IdleFacts DEF QuietStep
<1> QED BY <1>2, <1>4, <1>5, <1>8, <1>9, <1>10, <1>11, <1>12, <1>13, <1>14 DEF JobStep

\* The steps of users and failures leave the work alone.
LEMMA QuietUsers ==
  ASSUME SafeInv, QuietInv, Quiet, Quiet', NEW n \in Nodes,
         EditNode(n) \/ DeleteNode(n) \/ NodeDown(n) \/ NodeUp(n)
  PROVE  /\ UNCHANGED <<proc, text, maintenance>> /\ up' = Nodes
         /\ \/ spent'["delete"] > 0
            \/ UNCHANGED <<members, address, queue>>
            \/ /\ members' = members \cup {n} /\ address' = [address EXCEPT ![n] = @ + 1]
               /\ queue' = [queue EXCEPT ![n] = @ + 1]
<1>1. spent'["outage"] = 0 /\ up = Nodes BY DEF Quiet, Undisturbed, QuietInv
<1>2. TypeOK BY DEF SafeInv
<1>3. ~NodeDown(n) BY <1>1, <1>2, SpendFacts, Names DEF NodeDown
<1>4. ~NodeUp(n) BY <1>1 DEF NodeUp
<1>5. CASE EditNode(n) BY <1>1, <1>5 DEF EditNode, nodeVars
<1>6. CASE DeleteNode(n) BY <1>1, <1>2, <1>6, SpendFacts, Names DEF DeleteNode, nodeVars
<1> QED BY <1>3, <1>4, <1>5, <1>6

\* A job of a present node begins when all are idle; one of a deleted node is dropped.
LEMMA QuietStart ==
  ASSUME SafeInv, Quiet', NEW p \in Workers, NEW n \in Nodes,
         StartPersist(p, n) \/ StartRemove(p, n)
  PROVE  /\ UNCHANGED <<members, address, up, text, maintenance>>
         /\ queue' = [queue EXCEPT ![n] = @ - 1]
         /\ queue[n] > 0
         /\ \/ n \notin members /\ proc' = proc
            \/ /\ n \in members /\ \A q \in Workers : proc[q].pc = "idle"
               /\ \E r \in Process :
                    /\ proc' = [proc EXCEPT ![p] = r] /\ r.pc = "compare" /\ r.node = n
                    /\ \A m \in Nodes : r.seen[m] = IF m = n THEN address[n] ELSE 0
<1>1. TypeOK /\ spent'["remove"] = 0 /\ ~overlapped' BY DEF SafeInv, Quiet, Undisturbed
<1>2. ~StartRemove(p, n) BY <1>1, SpendFacts, Names DEF StartRemove
<1>3. /\ UNCHANGED <<members, address, up, text, maintenance>>
      /\ queue' = [queue EXCEPT ![n] = @ - 1] /\ queue[n] > 0
  BY <1>2 DEF StartPersist, nodeVars, Pending
<1>4. CASE n \notin members BY <1>2, <1>3, <1>4 DEF StartPersist
<1>5. CASE n \in members
  <2>1. Begin(p, "compare", n) BY <1>2, <1>5 DEF StartPersist
  <2>2. \A q \in Workers : proc[q].pc = "idle" BY <1>1, <2>1 DEF Begin, Busy
  <2>3. "compare" \in PCs BY DEF PCs
  <2> DEFINE r == Begun(n, "compare")
  <2>4. proc' = [proc EXCEPT ![p] = r] BY <2>1 DEF Begin, Becomes, Begun
  <2>5. /\ r \in Process /\ r.pc = "compare" /\ r.node = n
        /\ \A m \in Nodes : r.seen[m] = IF m = n THEN address[n] ELSE 0
    BY <1>1, <2>3, BegunFacts
  <2> HIDE DEF r
  <2> QED BY <1>3, <1>5, <2>2, <2>4, <2>5
<1> QED BY <1>4, <1>5

LEMMA QuietNext ==
  ASSUME SafeInv, QuietInv, [Next]_vars
  PROVE  QuietInv'
<1> SUFFICES ASSUME Quiet'
             PROVE /\ up' = Nodes
                   /\ \A p \in Workers : proc'[p].pc \notin Removing
                   /\ \A n \in Nodes : text'[n] = Missing =>
                        \E p \in Workers : proc'[p].pc = "write" /\ n = Head(proc'[p].rest)
                   /\ maintenance' => \E p \in Workers : proc'[p].pc \in Rolling \cup {"normal"}
  BY DEF QuietInv
<1>1. Quiet BY QuietBefore
<1>2. /\ up = Nodes
      /\ \A p \in Workers : proc[p].pc \notin Removing
      /\ \A n \in Nodes : text[n] = Missing =>
           \E p \in Workers : proc[p].pc = "write" /\ n = Head(proc[p].rest)
      /\ maintenance => \E p \in Workers : proc[p].pc \in Rolling \cup {"normal"}
  BY <1>1 DEF QuietInv
<1>3. proc \in [Workers -> Process] /\ text \in [Nodes -> Texts] BY DEF SafeInv, TypeOK
<1>4. CASE UNCHANGED <<proc, text, maintenance>> /\ up' = Nodes BY <1>2, <1>4
<1>5. CASE UNCHANGED vars BY <1>2, <1>4, <1>5 DEF vars, nodeVars
<1>6. ASSUME NEW p \in Workers, NEW n \in Nodes, StartPersist(p, n) \/ StartRemove(p, n),
             n \in members
      PROVE  QuietInv'
  <2>1. PICK r \in Process : proc' = [proc EXCEPT ![p] = r] /\ r.pc = "compare"
    BY <1>6, QuietStart
  <2>2. UNCHANGED <<up, text, maintenance>> /\ \A q \in Workers : proc[q].pc = "idle"
    BY <1>6, QuietStart
  <2>3. ~maintenance /\ \A m \in Nodes : text[m] # Missing BY <1>2, <2>2 DEF Rolling
  <2>4. \A q \in Workers : proc'[q].pc \in {"idle", "compare"} BY <1>3, <2>1, <2>2
  <2> QED BY <1>2, <2>2, <2>3, <2>4 DEF QuietInv, Removing
<1>7. ASSUME NEW p \in Workers, JobStep(p) PROVE QuietInv'
  <2>1. proc[p].pc # "idle" /\ up' = up BY <1>1, <1>7, QuietSteps
  <2>2. PICK r \in Process : proc' = [proc EXCEPT ![p] = r] /\ QuietStep(proc[p], r)
    BY <1>1, <1>7, QuietSteps
  <2>3. proc'[p] = r /\ \A q \in Workers : q # p => proc'[q].pc = "idle"
    BY <1>1, <1>3, <2>1, <2>2, QuietFacts
  <2>4. /\ \A n \in Nodes : text[n] = Missing => proc[p].pc = "write" /\ n = Head(proc[p].rest)
        /\ maintenance => proc[p].pc \in Rolling \cup {"normal"}
    BY <1>1, <2>1, QuietFacts
  <2>5. r.pc \in Rolling \cup {"normal", "stonith", "idle"}
    BY <2>2 DEF QuietStep, Compares, Moves, Writes, Restarts, Advances, Leaves, Ends, Written,
                Rolling
  <2>6. maintenance' => r.pc \in Rolling \cup {"normal"}
    BY <2>2, <2>4, <2>5 DEF QuietStep, Compares, Moves, Writes, Restarts, Advances, Leaves,
                            Ends, Written, Rolling
  <2>7. ASSUME NEW n \in Nodes, text'[n] = Missing
        PROVE  r.pc = "write" /\ n = Head(r.rest)
    <3>1. ASSUME text' = text, proc[p].pc # "write" PROVE FALSE BY <2>4, <2>7, <3>1
    <3>2. CASE Moves(proc[p], r)
      <4>1. proc[p].pc = "move" /\ r.pc = "write" /\ r.rest = proc[p].rest
            /\ text' = [text EXCEPT ![Head(proc[p].rest)] = Missing]
        BY <3>2 DEF Moves, Same
      <4>2. text[n] # Missing BY <2>4, <4>1
      <4> QED BY <1>3, <2>7, <4>1, <4>2
    <3>3. CASE Writes(proc[p], r)
      <4>1. text' = [text EXCEPT ![Head(proc[p].rest)] = Listing(Loads(proc[p]))]
        BY <3>3 DEF Writes
      <4>2. Listing(Loads(proc[p])) # Missing
        <5>1. Listing(Loads(proc[p])) \in [Nodes -> Nat] BY <1>3, LoadsFacts DEF SafeInv
        <5> QED BY <5>1, TextFacts
      <4> QED BY <1>3, <2>4, <2>7, <4>1, <4>2
    <3>4. "write" \notin Written BY DEF Written
    <3> QED BY <2>2, <3>1, <3>2, <3>3, <3>4
              DEF QuietStep, Compares, Restarts, Advances, Leaves, Ends
  <2>8. \A q \in Workers : proc'[q].pc \notin Removing BY <2>3, <2>5 DEF Removing, Rolling
  <2>9. maintenance' => \E q \in Workers : proc'[q].pc \in Rolling \cup {"normal"}
    BY <2>3, <2>6
  <2>10. \A n \in Nodes : text'[n] = Missing =>
           \E q \in Workers : proc'[q].pc = "write" /\ n = Head(proc'[q].rest)
    BY <2>3, <2>7
  <2>11. up' = Nodes BY <1>2, <2>1
  <2> QED BY <2>8, <2>9, <2>10, <2>11 DEF QuietInv
<1>8. ASSUME NEW n \in Nodes, EditNode(n) \/ DeleteNode(n) \/ NodeDown(n) \/ NodeUp(n)
      PROVE  UNCHANGED <<proc, text, maintenance>> /\ up' = Nodes
  BY <1>1, <1>8, QuietUsers
<1>9. ASSUME NEW p \in Workers, NEW n \in Nodes, StartPersist(p, n) \/ StartRemove(p, n),
             n \notin members
      PROVE  UNCHANGED <<proc, text, maintenance>> /\ up' = Nodes
  BY <1>2, <1>9, QuietStart
<1>10. CASE QuietInv' BY <1>10 DEF QuietInv
<1> QED BY <1>4, <1>5, <1>6, <1>7, <1>8, <1>9, <1>10 DEF Next

\* What a process that compares or rolls out has loaded, or would load.
LEMMA LoadsBounded ==
  ASSUME SafeInv, NEW q \in Process, \A n \in Nodes : q.seen[n] <= address[n]
  PROVE  /\ \A n \in Nodes : Loads(q)[n] <= address[n]
         /\ \A n \in Nodes : Listing(Loads(q))[n] <= address[n]
         /\ \A n \in Nodes : q.seen[n] # 0 => Loads(q)[n] = q.seen[n]
         /\ \A n \in members : q.seen[n] \in {0, address[n]} => Loads(q)[n] = address[n]
<1>1. TypeOK /\ address \in [Nodes -> Nat] /\ members \subseteq Nodes BY DEF SafeInv, TypeOK
<1>2. /\ \A n \in Nodes : Current[n] = IF n \in members THEN address[n] ELSE 0
      /\ \A n \in Nodes : Listing(Loads(q))[n] = IF n \in members THEN Loads(q)[n] ELSE 0
      /\ \A n \in Nodes : Loads(q)[n] = IF q.seen[n] # 0 THEN q.seen[n] ELSE Current[n]
  BY <1>1, LoadsFacts
<1>3. \A n \in Nodes : Loads(q)[n] <= address[n] BY <1>1, <1>2
<1> QED BY <1>1, <1>2, <1>3

\* A process whose rows are the present ones writes the present configuration.
LEMMA FreshListing ==
  ASSUME SafeInv, NEW q \in Process, \A n \in members : Loads(q)[n] = address[n]
  PROVE  Listing(Loads(q)) = Current
BY DEF Listing, Current, SafeInv, TypeOK

\* A step of a process keeps what its rollout has brought.
LEMMA RolloutStep ==
  ASSUME SafeInv, ConfigBody, NEW p \in Workers, NEW r \in Process, proc[p].node \in members,
         r.pc # "idle" => r.node = proc[p].node,
         QuietStep(proc[p], r), UNCHANGED <<members, address, queue>>
  PROVE  /\ \A n, m \in Nodes : text'[n][m] <= address[m]
         /\ Knows(r)'
<1> DEFINE q == proc[p]
           head == Head(q.rest)
<1>1. /\ TypeOK /\ text \in [Nodes -> Texts] /\ q \in Process /\ address \in [Nodes -> Nat]
      /\ members \subseteq Nodes /\ q.node \in Nodes
  BY DEF SafeInv, TypeOK
<1>2. /\ \A n \in members : address[n] > 0
      /\ \A n, m \in Nodes : text[n][m] <= address[m]
      /\ \A n \in Nodes : queue[n] > 0 => n \in members
      /\ Knows(q)
  BY DEF ConfigBody
<1>3. q.pc \in Rolling => /\ head \in Nodes /\ head \in ElementsOf(q.rest)
                          /\ head \in ElementsOf(q.list) /\ head \notin Done(q)
  <2>1. q.pc \in Rolling => q.pc # "idle" BY DEF Rolling
  <2> QED BY <2>1, TargetFacts DEF Done
<1>4. /\ \A n \in Nodes : Current[n] = IF n \in members THEN address[n] ELSE 0
      /\ Current \in [Nodes -> Nat]
  BY <1>1, LoadsFacts
<1>5. Current' = Current BY DEF Current, Listing
<1>6. "compare" \notin Rolling /\ "move" \in Rolling /\ "write" \in Rolling /\ Written \subseteq Rolling
      /\ "move" \notin Written /\ "write" \notin Written /\ "normal" \notin Rolling
      /\ "stonith" \notin Rolling /\ "idle" \notin Rolling /\ "compare" \notin Written
      /\ "startPacemaker" \in Written /\ "ensure" \in Written
  BY DEF Rolling, Written
<1> HIDE DEF q, head
<1>7. CASE Compares(q, r)
  <2>1. /\ q.pc = "compare" /\ text' = text /\ r.seen = Loads(q) /\ ElementsOf(r.list) = members
        /\ (r.pc = "move" /\ r.rest = r.list) \/ r.pc = "stonith"
    BY <1>7 DEF Compares
  <2>2. CASE r.pc = "move"
    <3>1. Done(r) = {} BY <2>1, <2>2, <1>6 DEF Done
    <3>2. /\ \A n \in Nodes : q.seen[n] <= address[n]
          /\ Compared(q)
      BY <1>2, <2>1 DEF Knows
    <3>3. \A n \in Nodes : n # q.node => q.seen[n] = 0 BY <3>2 DEF Compared
    <3>4. \A n \in Nodes : r.seen[n] <= address[n] BY <1>1, <2>1, <3>2, LoadsBounded
    <3>5. \A n \in members : q.seen[n] # 0 => r.seen[n] # 0
      BY <1>1, <2>1, <3>2, LoadsBounded
    <3>6. \A n \in members : n # q.node => r.seen[n] = address[n]
      BY <1>1, <2>1, <3>2, <3>3, LoadsBounded
    <3>7. \A n \in ElementsOf(r.list) : r.seen[n] # 0
      <4>1. q.seen[q.node] = 0 => r.seen[q.node] = address[q.node]
        BY <1>1, <2>1, <3>2, LoadsBounded, q.node \in members DEF q
      <4>2. \A n \in members : address[n] # 0 BY <1>1, <1>2
      <4> QED BY <2>1, <3>5, <3>6, <4>1, <4>2
    <3>8. CASE q.seen[q.node] \in {0, address[q.node]}
      <4>1. r.seen[q.node] = address[q.node]
        BY <1>1, <2>1, <3>2, <3>8, LoadsBounded, q.node \in members DEF q
      <4>2. \A n \in members : r.seen[n] = address[n] BY <3>6, <4>1
      <4>3. Fresh(r)' BY <1>6, <2>1, <2>2, <3>1, <4>2 DEF Fresh, Done
      <4> QED BY <1>2, <1>6, <2>1, <2>2, <3>4, <3>7, <4>3 DEF Knows
    <3>9. CASE q.seen[q.node] \notin {0, address[q.node]}
      <4>1. queue[q.node] > 0 /\ text[q.node] # Current BY <3>2, <3>9 DEF Compared
      <4>2. r.seen[q.node] = q.seen[q.node] BY <1>1, <2>1, <3>2, <3>9, LoadsBounded DEF q
      <4>3. Behind(r)' BY <1>1, <1>5, <2>1, <3>9, <4>1, <4>2 DEF Behind
      <4> QED BY <1>2, <1>6, <2>1, <2>2, <3>4, <3>7, <4>3 DEF Knows
    <3> QED BY <3>8, <3>9
  <2>3. CASE r.pc = "stonith" BY <1>2, <1>6, <2>1, <2>3 DEF Knows
  <2> QED BY <2>1, <2>2, <2>3
<1>8. CASE Moves(q, r)
  <2>1. /\ q.pc = "move" /\ r.pc = "write" /\ Same(r, q) /\ r.seen = q.seen
        /\ text' = [text EXCEPT ![head] = Missing] /\ Done(r) = Done(q)
    BY <1>8 DEF Moves, Same, Done, head
  <2>2. head \in Nodes /\ head \notin Done(q) BY <1>3, <1>6, <2>1
  <2>3. \A n \in Nodes : text'[n] = text[n] \/ text'[n] = Missing BY <1>1, <2>1
  <2>4. \A n \in Nodes : n # head => text'[n] = text[n] BY <1>1, <2>1
  <2>5. Done(q) \subseteq Nodes BY <1>1 DEF Done, ElementsOf, Process
  <2>6. \A n, m \in Nodes : text'[n][m] <= address[m]
    BY <1>1, <1>2, <2>3, TextFacts
  <2>7. Missing # Current BY <1>4, <2>2, TextFacts
  <2>8. /\ \A n \in Nodes : r.seen[n] <= address[n]
        /\ \A n \in ElementsOf(r.list) : r.seen[n] # 0
        /\ Fresh(q) \/ Behind(q)
    BY <1>2, <1>6, <2>1 DEF Knows, Same
  <2>9. CASE Fresh(q)
    <3>1. \A n \in Done(r) : text'[n] = Current BY <2>1, <2>2, <2>4, <2>5, <2>9 DEF Fresh
    <3>2. Fresh(r)' BY <1>5, <1>6, <2>1, <2>9, <3>1 DEF Fresh, Same, Done
    <3> QED BY <1>6, <2>1, <2>6, <2>8, <3>2 DEF Knows
  <2>10. CASE Behind(q)
    <3>1. \A e \in Nodes : text[e] # Current => text'[e] # Current BY <2>3, <2>7
    <3>2. Behind(r)' BY <1>5, <2>1, <2>10, <3>1 DEF Behind, Same
    <3> QED BY <1>6, <2>1, <2>6, <2>8, <3>2 DEF Knows
  <2> QED BY <2>8, <2>9, <2>10
<1>9. CASE Writes(q, r)
  <2>1. /\ q.pc = "write" /\ r.pc = "ensure" /\ Same(r, q) /\ r.seen = Loads(q)
        /\ text' = [text EXCEPT ![head] = Listing(Loads(q))] /\ Done(r) = Done(q)
    BY <1>9 DEF Writes, Same, Done, head
  <2>2. head \in Nodes /\ head \in ElementsOf(q.list) BY <1>3, <1>6, <2>1
  <2>3. /\ \A n \in Nodes : n # head => text'[n] = text[n]
        /\ text'[head] = Listing(Loads(q))
    BY <1>1, <2>1, <2>2
  <2>4. Done(q) \subseteq Nodes BY <1>1 DEF Done, ElementsOf, Process
  <2>5. ElementsOf(q.list) \subseteq Nodes BY <1>1 DEF ElementsOf, Process
  <2>6. /\ \A n \in Nodes : q.seen[n] <= address[n]
        /\ \A n \in ElementsOf(q.list) : q.seen[n] # 0
        /\ Fresh(q) \/ Behind(q)
    BY <1>2, <1>6, <2>1 DEF Knows
  <2>7. /\ \A n \in Nodes : r.seen[n] <= address[n]
        /\ \A n \in Nodes : Listing(Loads(q))[n] <= address[n]
        /\ \A n \in Nodes : q.seen[n] # 0 => r.seen[n] = q.seen[n]
        /\ \A n \in members : q.seen[n] = address[n] => r.seen[n] = address[n]
    BY <1>1, <2>1, <2>6, LoadsBounded
  <2>8. \A n, m \in Nodes : text'[n][m] <= address[m] BY <1>2, <2>3, <2>7
  <2>9. \A n \in ElementsOf(r.list) : r.seen[n] # 0 BY <2>1, <2>5, <2>6, <2>7 DEF Same
  <2>10. CASE Fresh(q)
    <3>1. \A n \in members : r.seen[n] = address[n] BY <2>7, <2>10 DEF Fresh
    <3>2. Listing(Loads(q)) = Current BY <1>1, <2>1, <3>1, FreshListing
    <3>3. \A n \in Done(r) : text'[n] = Current BY <2>1, <2>3, <2>4, <2>10, <3>2 DEF Fresh
    <3>4. text'[Head(r.rest)] = Current BY <2>1, <2>3, <3>2 DEF Same, head
    <3>5. Fresh(r)' BY <1>5, <2>1, <2>10, <3>1, <3>3, <3>4 DEF Fresh, Same, Done
    <3> QED BY <2>1, <2>7, <2>8, <2>9, <3>5, <1>6 DEF Knows
  <2>11. CASE Behind(q)
    <3>1. PICK e \in Nodes : /\ queue[e] > 0 /\ text[e] # Current
                             /\ \/ e \notin ElementsOf(q.list)
                                \/ q.seen[e] \notin {0, address[e]}
      BY <2>11 DEF Behind
    <3>2. e \in members BY <1>2, <3>1
    <3>3. e \notin ElementsOf(r.list) \/ r.seen[e] \notin {0, address[e]}
      BY <2>1, <2>7, <3>1 DEF Same
    <3>4. text'[e] # Current
      <4>1. CASE e # head BY <2>3, <3>1, <4>1
      <4>2. CASE e = head
        <5>1. r.seen[e] \notin {0, address[e]} BY <2>1, <2>2, <3>3, <4>2 DEF Same
        <5>2. Listing(Loads(q))[e] = r.seen[e] BY <1>1, <2>1, <3>2, LoadsFacts
        <5>3. Current[e] = address[e] BY <1>4, <3>2
        <5> QED BY <2>3, <4>2, <5>1, <5>2, <5>3
      <4> QED BY <4>1, <4>2
    <3>5. Behind(r)' BY <1>5, <3>1, <3>3, <3>4 DEF Behind
    <3> QED BY <2>1, <2>7, <2>8, <2>9, <3>5, <1>6 DEF Knows
  <2> QED BY <2>6, <2>10, <2>11
<1>10. CASE Restarts(q, r)
  <2>1. /\ q.pc \in Written /\ r.pc \in Written /\ Same(r, q) /\ r.seen = q.seen /\ text' = text
        /\ Done(r) = Done(q) /\ q.pc \in Rolling /\ r.pc \in Rolling
    BY <1>6, <1>10 DEF Restarts, Same, Done
  <2>2. r.pc # "compare" BY <1>6, <2>1
  <2>3. Fresh(q) => Fresh(r)' BY <1>5, <2>1 DEF Fresh, Same, Done
  <2>4. Behind(q) => Behind(r)' BY <1>5, <2>1 DEF Behind, Same
  <2> QED BY <1>2, <2>1, <2>2, <2>3, <2>4 DEF Knows, Same
<1>11. CASE Advances(q, r)
  <2>1. /\ q.pc = "startPacemaker" /\ r.seen = q.seen /\ r.list = q.list /\ text' = text
        /\ ElementsOf(q.rest) = {head} \cup ElementsOf(r.rest)
        /\ r.pc = "move" \/ r.pc = "normal"
    BY <1>11 DEF Advances, head
  <2>2. q.pc \in Rolling /\ q.pc \in Written /\ r.pc \notin Written BY <1>6, <2>1
  <2>3. Done(r) \subseteq Done(q) \cup {head} BY <2>1 DEF Done
  <2>4. Fresh(q) => Fresh(r)' BY <1>5, <2>1, <2>2, <2>3 DEF Fresh, Done, head
  <2>5. Behind(q) => Behind(r)' BY <1>5, <2>1 DEF Behind
  <2> QED BY <1>2, <1>6, <2>1, <2>2, <2>4, <2>5 DEF Knows
<1>12. CASE Leaves(q, r) \/ Ends(q, r)
  <2>1. text' = text /\ r.pc \in {"stonith", "idle"} BY <1>12 DEF Leaves, Ends
  <2> QED BY <1>2, <1>6, <2>1 DEF Knows
<1> QED BY <1>7, <1>8, <1>9, <1>10, <1>11, <1>12 DEF QuietStep, q

LEMMA ConfigJob ==
  ASSUME SafeInv, QuietInv, Quiet, Quiet', ConfigBody, NEW p \in Workers, JobStep(p)
  PROVE  ConfigBody'
<1> DEFINE q == proc[p]
<1>1. q.pc # "idle" /\ UNCHANGED <<members, address, queue, up>> BY QuietSteps
<1>2. PICK r \in Process : /\ proc' = [proc EXCEPT ![p] = r] /\ QuietStep(q, r)
                           /\ r.pc # "idle" => r.node = q.node
  BY QuietSteps
<1>3. proc \in [Workers -> Process] /\ members \in SUBSET Nodes /\ q \in Process
  BY DEF SafeInv, TypeOK
<1>4. /\ proc'[p] = r /\ \A w \in Workers : w # p => proc'[w].pc = "idle"
      /\ \A w \in Workers : w # p => proc[w].pc = "idle"
  BY <1>1, <1>2, <1>3, QuietFacts
<1>5. /\ \A n \in members : address[n] > 0
      /\ \A n \in Nodes : queue[n] > 0 => n \in members
      /\ q.node \in members /\ Knows(q)
      /\ q.pc \in Rolling \/ (\A n \in members : text[n] = Current) \/ Stale
  BY <1>1, <1>4 DEF ConfigBody, Rolling
<1>6. (\A n, m \in Nodes : text'[n][m] <= address[m]) /\ Knows(r)'
  BY <1>1, <1>2, <1>5, RolloutStep
<1>7. \A w \in Workers : Knows(proc[w])'
  <2> TAKE w \in Workers
  <2>1. CASE w = p BY <1>4, <1>6, <2>1 DEF Knows, Compared, Fresh, Behind, Done
  <2>2. CASE w # p BY <1>4, <2>2 DEF Knows, Rolling
  <2> QED BY <2>1, <2>2
<1>8. \A w \in Workers : proc'[w].pc # "idle" => proc'[w].node \in members
  BY <1>2, <1>4, <1>5
<1>9. Current' = Current BY <1>1 DEF Current, Listing
<1>10. Stale => \E e \in Nodes : /\ text[e] # Current
                                 /\ queue[e] > 0 \/ (q.pc = "compare" /\ q.node = e)
  BY <1>4 DEF Stale
<1>11. \/ r.pc \in Rolling
       \/ \A n \in members : text'[n] = Current
       \/ \E e \in Nodes : text'[e] # Current /\ queue[e] > 0
  <2>1. CASE Moves(q, r) \/ Writes(q, r) \/ Restarts(q, r)
    BY <2>1 DEF Moves, Writes, Restarts, Rolling, Written
  <2>2. CASE Compares(q, r)
    <3>1. /\ q.pc = "compare" /\ text' = text /\ r.node = q.node
          /\ r.pc = "move" \/ text[q.node] = Listing(Loads(q))
      <4>1. r.pc # "idle" BY <2>2 DEF Compares
      <4> QED BY <1>2, <1>5, <2>2, <4>1 DEF Compares
    <3>2. CASE r.pc = "move" BY <3>2 DEF Rolling
    <3>3. CASE text[q.node] = Listing(Loads(q)) /\ ~(\A n \in members : text[n] = Current)
      <4>1. PICK e \in Nodes : text[e] # Current /\ (queue[e] > 0 \/ q.node = e)
        BY <1>5, <1>10, <3>1, <3>3 DEF Rolling
      <4>2. CASE queue[e] > 0 BY <3>1, <4>1, <4>2
      <4>3. CASE q.node = e
        <5>1. /\ \A n \in Nodes : q.seen[n] <= address[n]
              /\ Compared(q)
          BY <1>5, <3>1 DEF Knows
        <5>2. CASE queue[q.node] > 0 BY <3>1, <4>1, <4>3, <5>2
        <5>3. CASE q.seen[q.node] \in {0, address[q.node]}
          <6>1. \A n \in members : q.seen[n] \in {0, address[n]}
            BY <1>3, <5>1, <5>3 DEF Compared
          <6>2. \A n \in members : Loads(q)[n] = address[n]
            BY <1>3, <5>1, <6>1, LoadsBounded
          <6>3. Listing(Loads(q)) = Current BY <1>3, <6>2, FreshListing
          <6> QED BY <3>3, <4>1, <4>3, <6>3
        <5> QED BY <5>1, <5>2, <5>3 DEF Compared
      <4> QED BY <4>1, <4>2, <4>3
    <3> QED BY <3>1, <3>2, <3>3
  <2>3. CASE Advances(q, r)
    <3>1. /\ q.pc = "startPacemaker" /\ r.seen = q.seen /\ r.list = q.list /\ text' = text
          /\ ElementsOf(q.rest) = {Head(q.rest)} \cup ElementsOf(r.rest)
          /\ r.pc = "move" \/ (r.pc = "normal" /\ r.rest = <<>>)
      BY <2>3 DEF Advances
    <3>2. CASE r.pc = "move" BY <3>2 DEF Rolling
    <3>3. CASE r.pc = "normal" /\ r.rest = <<>>
      <4>1. q.pc \in Rolling /\ q.pc \in Written BY <3>1 DEF Rolling, Written
      <4>2. Fresh(q) \/ Behind(q) BY <1>5, <4>1 DEF Knows
      <4>3. ElementsOf(q.list) \subseteq Done(q) \cup {Head(q.rest)}
        BY <3>1, <3>3, EmptyList DEF Done
      <4>4. Fresh(q) => \A n \in members : text'[n] = Current
        BY <3>1, <4>1, <4>3 DEF Fresh
      <4>5. Behind(q) => \E e \in Nodes : text'[e] # Current /\ queue[e] > 0
        BY <3>1 DEF Behind
      <4> QED BY <4>2, <4>4, <4>5
    <3> QED BY <3>1, <3>2, <3>3
  <2>4. CASE Leaves(q, r) \/ Ends(q, r)
    BY <1>5, <1>10, <2>4 DEF Leaves, Ends, Rolling
  <2> QED BY <1>2, <2>1, <2>2, <2>3, <2>4 DEF QuietStep
<1>12. \/ \E w \in Workers : proc'[w].pc \in Rolling
       \/ \A n \in members' : text'[n] = Current'
       \/ Stale'
  BY <1>1, <1>4, <1>9, <1>11 DEF Stale
<1> QED BY <1>1, <1>5, <1>6, <1>7, <1>8, <1>12 DEF ConfigBody

\* A row that was saved makes every file old; the node's own job is pending.
LEMMA ConfigEdit ==
  ASSUME SafeInv, ConfigBody, NEW n \in Nodes, UNCHANGED <<proc, text>>,
         members' = members \cup {n}, address' = [address EXCEPT ![n] = @ + 1],
         queue' = [queue EXCEPT ![n] = @ + 1]
  PROVE  ConfigBody'
<1>1. /\ TypeOK /\ text \in [Nodes -> Texts] /\ queue \in [Nodes -> Nat]
      /\ proc \in [Workers -> Process] /\ address \in [Nodes -> Nat] /\ members \subseteq Nodes
  BY DEF SafeInv, TypeOK
<1>2. /\ \A m \in members : address[m] > 0
      /\ \A k, m \in Nodes : text[k][m] <= address[m]
      /\ \A m \in Nodes : queue[m] > 0 => m \in members
      /\ \A p \in Workers : proc[p].pc # "idle" => proc[p].node \in members
      /\ \A p \in Workers : Knows(proc[p])
  BY DEF ConfigBody
<1>3. /\ address' \in [Nodes -> Nat] /\ address'[n] = address[n] + 1 /\ n \in members'
      /\ \A m \in Nodes : m # n => address'[m] = address[m]
      /\ \A m \in Nodes : address[m] <= address'[m]
  BY <1>1
<1>4. queue'[n] > 0 /\ \A m \in Nodes : queue[m] > 0 => queue'[m] > 0 BY <1>1
<1>5. \A k \in Nodes : text'[k] # Current'
  <2> TAKE k \in Nodes
  <2>1. Current'[n] = address'[n] BY <1>3 DEF Current, Listing
  <2>2. text[k][n] <= address[n] /\ text[k][n] \in Int BY <1>1, <1>2 DEF Texts
  <2>3. text[k][n] # address'[n] BY <1>1, <1>3, <2>2
  <2> QED BY <2>1, <2>3
<1>6. ASSUME NEW p \in Workers PROVE Knows(proc[p])'
  <2>0. PICK r \in Process : r = proc[p] /\ r = proc'[p] BY <1>1
  <2> SUFFICES Knows(r)' BY <2>0 DEF Knows, Compared, Fresh, Behind, Done
  <2>1. Knows(r) /\ r.seen \in [Nodes -> Nat] BY <1>2, <2>0 DEF Process
  <2>2. r.pc # "idle" => r.node \in Nodes BY <1>1, <1>2, <2>0
  <2>3. r.pc = "compare" \/ r.pc \in Rolling => \A m \in Nodes : r.seen[m] <= address'[m]
    BY <1>1, <1>3, <2>1 DEF Knows
  <2>4. CASE r.pc = "compare"
    <3>1. Compared(r) /\ r.node \in Nodes BY <2>1, <2>2, <2>4 DEF Knows
    <3>2. CASE r.node = n
      <4>1. queue'[r.node] > 0 /\ text'[r.node] # Current' BY <1>4, <1>5, <3>2
      <4> QED BY <2>1, <2>3, <2>4, <3>1, <4>1 DEF Knows, Compared, Rolling
    <3>3. CASE r.node # n
      <4>1. address'[r.node] = address[r.node] /\ text'[r.node] # Current'
        BY <1>3, <1>5, <3>1, <3>3
      <4> QED BY <1>4, <2>1, <2>3, <2>4, <3>1, <4>1 DEF Knows, Compared, Rolling
    <3> QED BY <3>2, <3>3
  <2>5. CASE r.pc \in Rolling
    <3>1. (\A m \in ElementsOf(r.list) : r.seen[m] # 0) /\ r.seen[n] <= address[n]
      BY <2>1, <2>5 DEF Knows
    <3>2. n \notin ElementsOf(r.list) \/ r.seen[n] \notin {0, address'[n]}
      BY <1>1, <1>3, <2>1, <3>1
    <3>3. Behind(r)' BY <1>4, <1>5, <3>2 DEF Behind
    <3>4. r.pc # "compare" BY <2>5 DEF Rolling
    <3> QED BY <2>3, <2>5, <3>1, <3>3, <3>4 DEF Knows
  <2>6. CASE r.pc # "compare" /\ r.pc \notin Rolling BY <2>1, <2>6 DEF Knows
  <2> QED BY <2>4, <2>5, <2>6
<1>7. Stale' BY <1>4, <1>5 DEF Stale
<1>8. \A m \in members' : address'[m] > 0 BY <1>1, <1>2, <1>3
<1>9. \A k, m \in Nodes : text'[k][m] <= address'[m]
  BY <1>1, <1>2, <1>3 DEF Texts
<1>10. \A m \in Nodes : queue'[m] > 0 => m \in members' BY <1>1, <1>2
<1>11. \A p \in Workers : proc'[p].pc # "idle" => proc'[p].node \in members' BY <1>2
<1> QED BY <1>6, <1>7, <1>8, <1>9, <1>10, <1>11 DEF ConfigBody

\* A job that begins has the present row of its node.
LEMMA ConfigStart ==
  ASSUME SafeInv, Quiet', ConfigBody, NEW p \in Workers, NEW n \in Nodes,
         StartPersist(p, n) \/ StartRemove(p, n)
  PROVE  ConfigBody'
<1>1. /\ queue \in [Nodes -> Nat] /\ proc \in [Workers -> Process] /\ address \in [Nodes -> Nat]
  BY DEF SafeInv, TypeOK
<1>2. UNCHANGED <<members, address, text>> /\ queue[n] > 0 /\ queue' = [queue EXCEPT ![n] = @ - 1]
  BY QuietStart
<1>3. n \in members BY <1>2 DEF ConfigBody
<1>4. \A w \in Workers : proc[w].pc = "idle" BY <1>3, QuietStart
<1>5. PICK r \in Process :
        /\ proc' = [proc EXCEPT ![p] = r] /\ r.pc = "compare" /\ r.node = n
        /\ \A m \in Nodes : r.seen[m] = IF m = n THEN address[n] ELSE 0
  BY <1>3, QuietStart
<1>6. proc'[p] = r /\ \A w \in Workers : w # p => proc'[w].pc = "idle" BY <1>1, <1>4, <1>5
<1>7. \A m \in Nodes : /\ queue'[m] > 0 => queue[m] > 0
                       /\ m # n => queue'[m] = queue[m]
  BY <1>1, <1>2
<1>8. Current' = Current BY <1>2 DEF Current, Listing
<1>9. Knows(r)'
  <2>1. Compared(r)' BY <1>2, <1>5 DEF Compared
  <2>2. \A m \in Nodes : r.seen[m] <= address'[m] BY <1>1, <1>2, <1>5
  <2> QED BY <1>5, <2>1, <2>2 DEF Knows, Rolling
<1>10. \A w \in Workers : Knows(proc[w])'
  <2> TAKE w \in Workers
  <2>1. CASE w = p BY <1>6, <1>9, <2>1 DEF Knows, Compared, Fresh, Behind, Done
  <2>2. CASE w # p BY <1>6, <2>2 DEF Knows, Rolling
  <2> QED BY <2>1, <2>2
<1>11. Stale => Stale'
  <2> SUFFICES ASSUME NEW e \in Nodes, text[e] # Current, queue[e] > 0 PROVE Stale'
    BY <1>4 DEF Stale
  <2>1. CASE e = n BY <1>2, <1>5, <1>6, <1>8, <2>1 DEF Stale
  <2>2. CASE e # n BY <1>2, <1>7, <1>8, <2>2 DEF Stale
  <2> QED BY <2>1, <2>2
<1>12. (\A m \in members : text[m] = Current) \/ Stale BY <1>4 DEF ConfigBody, Rolling
<1>13. (\A m \in members' : text'[m] = Current') \/ Stale' BY <1>2, <1>8, <1>11, <1>12
<1>14. \A m, k \in Nodes : text'[m][k] <= address'[k] BY <1>2 DEF ConfigBody
<1>15. \A w \in Workers : proc'[w].pc # "idle" => proc'[w].node \in members'
  BY <1>2, <1>3, <1>5, <1>6
<1> QED BY <1>2, <1>7, <1>10, <1>13, <1>14, <1>15 DEF ConfigBody

LEMMA ConfigNext ==
  ASSUME SafeInv, QuietInv, ConfigInv, [Next]_vars
  PROVE  ConfigInv'
<1> SUFFICES ASSUME Quiet', spent'["delete"] = 0 PROVE ConfigBody'
  BY DEF ConfigInv
<1>1. Quiet /\ ConfigBody BY QuietBefore DEF ConfigInv
<1>2. CASE UNCHANGED <<proc, text, members, address, queue>>
  <2>1. Current' = Current BY <1>2 DEF Current, Listing
  <2>2. ASSUME NEW p \in Workers PROVE Knows(proc[p])'
    <3>1. Knows(proc[p]) BY <1>1 DEF ConfigBody
    <3> QED BY <1>2, <2>1, <3>1 DEF Knows, Compared, Fresh, Behind, Done
  <2>3. Stale => Stale' BY <1>2, <2>1 DEF Stale
  <2> QED BY <1>1, <1>2, <2>1, <2>2, <2>3 DEF ConfigBody
<1>3. CASE UNCHANGED vars BY <1>2, <1>3 DEF vars, dbVars, nodeVars
<1>4. ASSUME NEW n \in Nodes, EditNode(n) \/ DeleteNode(n) \/ NodeDown(n) \/ NodeUp(n)
      PROVE  ConfigBody'
  <2>1. /\ UNCHANGED <<proc, text>>
        /\ \/ UNCHANGED <<members, address, queue>>
           \/ /\ members' = members \cup {n} /\ address' = [address EXCEPT ![n] = @ + 1]
              /\ queue' = [queue EXCEPT ![n] = @ + 1]
    BY <1>1, <1>4, QuietUsers
  <2> QED BY <1>1, <1>2, <2>1, ConfigEdit
<1>5. ASSUME NEW p \in Workers, NEW n \in Nodes, StartPersist(p, n) \/ StartRemove(p, n)
      PROVE  ConfigBody'
  BY <1>1, <1>5, ConfigStart
<1>6. ASSUME NEW p \in Workers, JobStep(p) PROVE ConfigBody' BY <1>1, <1>6, ConfigJob
<1> QED BY <1>3, <1>4, <1>5, <1>6 DEF Next

LEMMA ConfigInit == Init => QuietInv /\ ConfigInv
<1> SUFFICES ASSUME Init PROVE QuietInv /\ ConfigBody BY DEF ConfigInv
<1>1. /\ \A p \in Workers : proc[p].pc = "idle"
      /\ members \subseteq Nodes /\ ~maintenance /\ up = Nodes
      /\ \A n \in Nodes : queue[n] = 0
      /\ \A n \in Nodes : address[n] = IF n \in members THEN 1 ELSE 0
      /\ \A n \in Nodes : text[n] = IF n \in members THEN Current ELSE Default
  BY IdleFacts DEF Init
<1>2. \A n \in Nodes : Current[n] = IF n \in members THEN 1 ELSE 0
  BY <1>1 DEF Current, Listing
<1>3. \A n, m \in Nodes : text[n][m] <= address[m] /\ text[n][m] >= 0
  BY <1>1, <1>2, TextFacts
<1>4. \A n \in Nodes : text[n] # Missing
  <2> SUFFICES ASSUME NEW n \in Nodes, text[n] = Missing PROVE FALSE OBVIOUS
  <2>1. text[n][n] >= 0 /\ text[n][n] = -1 BY <1>3, TextFacts
  <2> QED BY <2>1
<1>5. QuietInv BY <1>1, <1>4 DEF QuietInv, Removing
<1>6. \A n \in members : address[n] > 0 /\ text[n] = Current BY <1>1
<1>7. \A p \in Workers : Knows(proc[p]) BY <1>1 DEF Knows, Rolling
<1>8. ConfigBody BY <1>1, <1>3, <1>6, <1>7 DEF ConfigBody
<1> QED BY <1>5, <1>8

\* When rollouts have ended undisturbed, however many nodes, edits and jobs there
\* were, the members have the configuration of the present rows and the cluster
\* is not in maintenance.
THEOREM RolloutsConsistent == Spec => []RolloutsEnd
<1>1. SafeInv /\ QuietInv /\ ConfigInv => RolloutsEnd
  <2> SUFFICES ASSUME SafeInv, QuietInv, ConfigInv PROVE RolloutsEnd OBVIOUS
  <2>1. ASSUME Undisturbed, ~Busy, \A n \in Nodes : queue[n] = 0, spent["remove"] = 0,
               spent["delete"] = 0, NEW n \in members
        PROVE  text[n] = Current
    <3>1. \A p \in Workers : proc[p].pc = "idle" BY <2>1 DEF Busy
    <3>2. ~Stale BY <2>1, <3>1 DEF Stale
    <3>3. ConfigBody BY <2>1 DEF ConfigInv, Quiet
    <3> QED BY <3>1, <3>2, <3>3 DEF ConfigBody, Rolling
  <2>2. ASSUME Undisturbed, spent["remove"] = 0, maintenance PROVE Busy
    BY <2>2 DEF QuietInv, Quiet, Busy, Rolling
  <2> QED BY <2>1, <2>2 DEF RolloutsEnd, ConfigsAgree, MaintenanceEnds
<1>2. Init => SafeInv /\ QuietInv /\ ConfigInv BY SafeInit, ConfigInit
<1>3. SafeInv /\ QuietInv /\ ConfigInv /\ [Next]_vars => (SafeInv /\ QuietInv /\ ConfigInv)'
  BY SafeNext, QuietNext, ConfigNext
<1> QED BY <1>1, <1>2, <1>3, PTL DEF Spec

=============================================================================

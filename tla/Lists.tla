------------------------------- MODULE Lists -------------------------------
(***************************************************************************)
(* The lists of the web pages: virtual machines, nodes, storages, clusters,*)
(* networks, users.  A list is a store of Ext JS that is synchronised      *)
(* after every change of a record (autoSync); controllers add, edit and    *)
(* remove records for the user, and reload the stores of other lists.      *)
(*                                                                         *)
(* The module follows the store of one list, whichever it is.  Requests    *)
(* are under way side by side; the operations of one sync go one after     *)
(* the other.  The server serves an operation some time before its answer  *)
(* is handled, and may refuse it.  Windows are not modal, message boxes    *)
(* are.  Only this user changes the rows.                                  *)
(***************************************************************************)
EXTENDS Integers, Sequences, FiniteSets

CONSTANTS
  Names,        \* the lists
  Ids,          \* ids of rows, 1, 2, ..., in the order they are given
  Values,       \* what a row may hold
  MaxRequests,  \* bound: requests in all
  MaxRefusals   \* bound: operations the server refuses

VARIABLES
  name,         \* the list that is followed
  view,         \* the center of the page: a list, or "vmedit"
  server,       \* the rows, and the next id
  store,        \* the store: rows, new records, dirty and removed ones
  requests,     \* under way
  window,       \* a form that is open: its record, 0 for a new one
  box,          \* the question about a removal that is open
  selection,
  \* history
  tries, confirms,  \* of every row: DELETEs the server got, questions the user said yes to
  excused,          \* rows whose DELETE was refused, or was under way at another sync
  sure,             \* nothing was refused or overtaken since the last load
  asked, refusals

vars == <<name, view, server, store, requests, window, box, selection, tries, confirms, excused,
          sure, asked, refusals>>

-----------------------------------------------------------------------------

Absent == -1
Rows == [Ids -> Values \cup {Absent}]
Present(rows) == {i \in Ids : rows[i] # Absent}
NoWindow == [open |-> FALSE, id |-> 0, joined |-> FALSE]
NoBox == [open |-> FALSE, ids |-> {}, joined |-> FALSE]

(* Ext.data.Store, external.                                               *)

Op(op, id, value) == [op |-> op, id |-> id, value |-> value]
Loaded(rows) == [rows |-> rows, new |-> {}, dirty |-> {}, removed |-> {}]
Added(s, value, ref) == [s EXCEPT !.new = @ \cup {[ref |-> ref, value |-> value]}]
Edited(s, id, value) ==
  [s EXCEPT !.rows[id] = value, !.dirty = @ \cup {id}]
Removed(s, ids) ==
  [s EXCEPT !.rows = [i \in Ids |-> IF i \in ids THEN Absent ELSE @[i]], !.dirty = @ \ ids,
            !.removed = @ \cup ids]

\* The records of a set in the order of their numbers.
Listed(ids) == CHOOSE list \in [1 .. Cardinality(ids) -> ids] :
                 \A i, j \in DOMAIN list : i < j => list[i] < list[j]
\* Everything that is not committed, whatever is under way already.
Refs(s) == {r.ref : r \in s.new}
NewValue(s, ref) == (CHOOSE r \in s.new : r.ref = ref).value
Creates(s) == LET refs == Listed(Refs(s))
              IN [k \in DOMAIN refs |-> Op("create", refs[k], NewValue(s, refs[k]))]
Updates(s) == LET ids == Listed(s.dirty)
              IN [k \in DOMAIN ids |-> Op("update", ids[k], s.rows[ids[k]])]
Deletes(s) == LET ids == Listed(s.removed)
              IN [k \in DOMAIN ids |-> Op("destroy", ids[k], 0)]
Ops(s) == Creates(s) \o Updates(s) \o Deletes(s)

Destroys(r) == {r.ops[k].id : k \in {j \in DOMAIN r.ops : r.ops[j].op = "destroy"}}
Request(ops) ==
  [n |-> asked, ops |-> ops, served |-> FALSE, ok |-> FALSE, id |-> 0, rows |-> server.rows,
   clean |-> requests = {}, orphan |-> FALSE]
Crossed(r) == [r EXCEPT !.clean = FALSE]
Ask(ops) ==
  /\ asked < MaxRequests
  /\ asked' = asked + 1
  /\ requests' = {Crossed(r) : r \in requests} \cup {Request(ops)}
  /\ sure' = (sure /\ requests = {})
  /\ excused' = excused \cup UNION {Destroys(r) : r \in requests}
Load == Ask(<<Op("load", 0, 0)>>)

\* A change of the store, and the sync it causes.
Sync(s) ==
  /\ store' = s
  /\ IF Ops(s) = <<>> THEN UNCHANGED <<requests, asked, sure, excused>> ELSE Ask(Ops(s))

\* The operation of a request that is under way reaches the server ...
Serve(r) ==
  LET op == r.ops[1]
      id == IF op.op = "create" THEN server.next ELSE op.id
      Can == op.op \in {"update", "destroy"} => server.rows[id] # Absent
  IN /\ ~r.served
     /\ op.op = "create" => id \in Ids
     /\ tries' = [i \in Ids |-> IF op.op = "destroy" /\ i = id THEN tries[i] + 1 ELSE tries[i]]
     /\ \E ok \in IF Can THEN BOOLEAN ELSE {FALSE} :
          LET rows == CASE ok /\ op.op = "destroy" -> [server.rows EXCEPT ![id] = Absent]
                        [] ok /\ op.op \in {"create", "update"} ->
                             [server.rows EXCEPT ![id] = op.value]
                        [] OTHER -> server.rows
          IN /\ ~ok /\ Can => refusals < MaxRefusals
             /\ refusals' = IF ~ok /\ Can THEN refusals + 1 ELSE refusals
             /\ server' = [rows |-> rows, next |-> server.next
                                            + (IF op.op = "create" /\ ok THEN 1 ELSE 0)]
             /\ requests' = (requests \ {r}) \cup
                  {[r EXCEPT !.served = TRUE, !.ok = ok, !.id = id, !.rows = rows]}
  /\ UNCHANGED <<name, view, store, window, box, selection, confirms, excused, sure, asked>>

\* ... and its answer the store.  A load takes the records off the store: what
\* is known of them in windows, questions and requests leads nowhere then.  A
\* DELETE that succeeds clears the list of the removed.
Drbd(rows) == {[i \in Ids |-> IF i \in some THEN rows[i] ELSE Absent] : some \in SUBSET Ids}
Committed(s, r) ==
  LET op == r.ops[1]
      mine == {n \in s.new : n.ref = op.id}
  IN CASE op.op = "create" /\ mine # {} ->
            [s EXCEPT !.new = @ \ mine, !.rows[r.id] = op.value]
       [] op.op = "update" /\ ~r.orphan /\ s.rows[op.id] # Absent ->
            [s EXCEPT !.rows[op.id] = op.value, !.dirty = @ \ {op.id}]
       [] op.op = "destroy" -> [s EXCEPT !.removed = {}]
       [] OTHER -> s
Answer(r) ==
  LET op == r.ops[1]
      left == requests \ {r}
      next == IF Len(r.ops) = 1 THEN {}
              ELSE {[r EXCEPT !.ops = Tail(@), !.served = FALSE]}
  IN /\ r.served
     /\ IF op.op \in {"load", "drbd"} /\ r.ok
        THEN /\ \E rows \in IF op.op = "drbd" THEN Drbd(r.rows) ELSE {r.rows} :
                  store' = Loaded(rows)
             /\ requests' = {[q EXCEPT !.orphan = TRUE] : q \in left}
             /\ window' = [window EXCEPT !.joined = FALSE]
             /\ box' = [box EXCEPT !.joined = FALSE]
             /\ selection' = {}
             /\ sure' = (r.clean /\ op.op = "load")
        ELSE /\ store' = IF r.ok THEN Committed(store, r) ELSE store
             /\ requests' = left \cup next
             /\ sure' = (sure /\ r.ok)
             /\ UNCHANGED <<window, box, selection>>
     /\ excused' = IF op.op = "destroy" /\ ~r.ok THEN excused \cup {op.id} ELSE excused
     /\ UNCHANGED <<name, view, server, tries, confirms, asked, refusals>>

-----------------------------------------------------------------------------
(* What the views and controllers do.                                      *)

\* The question is modal; the mask covers the list until a load is answered.
Free == ~box.open
Loading == \E r \in requests : r.ops[1].op \in {"load", "drbd"}
Usable == Free /\ view = name /\ ~Loading

\* The stores a list loads when it is rendered, its own and what its forms need.
AfterRender(v) ==
  {v} \cup CASE v = "Node" -> {"Cluster", "Network", "Storage"}
             [] v = "Cluster" -> {"Network", "Storage"}
             [] OTHER -> {}

\* The view in the center is another one; the form of vmedit goes with it.
switchContent(v) ==
  /\ Free
  /\ view' = v
  /\ selection' = {}
  /\ window' = IF view = "vmedit" THEN NoWindow ELSE window
  /\ IF name \in AfterRender(v) THEN Load ELSE UNCHANGED <<requests, asked, sure, excused>>
  /\ UNCHANGED <<name, server, store, box, tries, confirms, refusals>>

\* A combobox of a form loads its store; the form of a DRBD disk loads two nodes.
LoadElsewhere ==
  /\ Free
  /\ \/ name \in {"Cluster", "Network", "Storage", "Node"} /\ Load
     \/ name = "Node" /\ Ask(<<Op("drbd", 0, 0)>>)
  /\ UNCHANGED <<name, view, server, store, window, box, selection, tries, confirms, refusals>>

Select(ids) ==
  /\ Usable
  /\ ids \subseteq Present(store.rows)
  /\ selection' = ids
  /\ UNCHANGED <<name, view, server, store, requests, window, box, tries, confirms, excused, sure,
                 asked, refusals>>

\* The add button of a list, and a double click on a record.
Open(id) ==
  /\ Usable /\ ~window.open
  /\ id \in {0} \cup Present(store.rows)
  /\ window' = [open |-> TRUE, id |-> id, joined |-> id # 0]
  /\ UNCHANGED <<name, view, server, store, requests, box, selection, tries, confirms, excused,
                 sure, asked, refusals>>
\* A form that changes nothing, or a record that is not in the store any more.
Unsaved == UNCHANGED <<store, requests, asked, sure, excused>>
saveQuietly(value) ==   \* mutant: a store without autoSync
  IF window.id = 0 THEN Sync(Added(store, value, asked))
  ELSE IF window.joined THEN /\ store' = Edited(store, window.id, value)
                             /\ UNCHANGED <<requests, asked, sure, excused>>
  ELSE Unsaved
save(value) ==
  IF window.id = 0 THEN Sync(Added(store, value, asked))
  ELSE IF window.joined /\ store.rows[window.id] # value THEN Sync(Edited(store, window.id, value))
  ELSE Unsaved
SaveAndClose ==
  /\ Free /\ window.open
  /\ \E value \in Values : save(value)
  /\ window' = NoWindow
  /\ UNCHANGED <<name, view, server, box, selection, tries, confirms, refusals>>
Close ==
  /\ Free /\ window.open
  /\ window' = NoWindow
  /\ UNCHANGED <<name, view, server, store, requests, box, selection, tries, confirms, excused,
                 sure, asked, refusals>>

\* The records that were selected when the question came up are removed.
Delete ==
  /\ Usable /\ selection # {}
  /\ box' = [open |-> TRUE, ids |-> selection, joined |-> TRUE]
  /\ UNCHANGED <<name, view, server, store, requests, window, selection, tries, confirms, excused,
                 sure, asked, refusals>>
\* What the question does with the answer.
AnyButton(button) == TRUE   \* mutant: no test of the button
Agreed(button) == button = "yes"
Confirm(button) ==
  LET ids == IF Agreed(button) /\ box.joined THEN box.ids \cap Present(store.rows) ELSE {}
  IN /\ box.open
     /\ IF ids = {} THEN UNCHANGED <<store, requests, asked, sure, excused>>
        ELSE Sync(Removed(store, ids))
     /\ confirms' = [i \in Ids |-> IF button = "yes" /\ i \in box.ids THEN confirms[i] + 1
                                   ELSE confirms[i]]
     /\ window' = IF window.id \in ids THEN [window EXCEPT !.joined = FALSE] ELSE window
     /\ selection' = selection \ ids
     /\ box' = NoBox
     /\ UNCHANGED <<name, view, server, tries, refusals>>
Remove == Delete \/ \E button \in {"yes", "no"} : Confirm(button)

-----------------------------------------------------------------------------
(* The controllers: which of these each has.                               *)

OpenAny == \E id \in Ids \cup {0} : Open(id)
Network == name = "Network" /\ (OpenAny \/ SaveAndClose \/ Remove)
Cluster == name = "Cluster" /\ (OpenAny \/ SaveAndClose \/ Remove)
Storage == name = "Storage" /\ (OpenAny \/ SaveAndClose \/ Remove)
User == name = "User" /\ (OpenAny \/ SaveAndClose \/ Remove)
Node == name = "Node" /\ (OpenAny \/ SaveAndClose \/ Remove)

\* The form of a machine is in the center, is filled by a double click or from
\* the tree, and stays open when it is saved.  The tree knows the number of the
\* machine; the first record whose number begins with it is taken.
Begins(id, prefix) == id = prefix \/ id \div 10 = prefix
switchVmEdit(id) ==
  /\ Free /\ (window.open => view = "vmedit")
  /\ id \in Present(store.rows)
  /\ view' = "vmedit"
  /\ window' = [open |-> TRUE, id |-> id, joined |-> TRUE]
  /\ selection' = {}
  /\ UNCHANGED <<name, server, store, requests, box, tries, confirms, excused, sure, asked,
                 refusals>>
onTreeviewItemClick(vmId) == \E id \in Ids : Begins(id, vmId) /\ switchVmEdit(id)
SaveForm ==
  /\ Free /\ view = "vmedit"
  /\ \E value \in Values : save(value)
  /\ UNCHANGED <<name, view, server, window, box, selection, tries, confirms, refusals>>
Virtualmachine ==
  /\ name = "Virtualmachine"
  /\ \/ Open(0)
     \/ window.id = 0 /\ SaveAndClose
     \/ SaveForm
     \/ Remove
     \/ \E id \in Ids : (Usable /\ switchVmEdit(id)) \/ onTreeviewItemClick(id)

Init ==
  /\ name \in Names /\ view = "Virtualmachine"
  /\ \E rows \in Rows :
       /\ 1 \in Present(rows) /\ \A i \in Ids : i + 1 \in Present(rows) => i \in Present(rows)
       /\ server = [rows |-> rows, next |-> Cardinality(Present(rows)) + 1]
  /\ store = Loaded([i \in Ids |-> Absent])
  /\ requests = {} /\ window = NoWindow /\ box = NoBox /\ selection = {}
  /\ tries = [i \in Ids |-> 0] /\ confirms = [i \in Ids |-> 0] /\ excused = {}
  /\ sure = FALSE /\ asked = 0 /\ refusals = 0

Next ==
  \/ \E r \in requests : Serve(r) \/ Answer(r)
  \/ \E v \in Names : switchContent(v)
  \/ LoadElsewhere
  \/ \E ids \in SUBSET Ids : Select(ids)
  \/ Close
  \/ Virtualmachine \/ Node \/ Storage \/ Cluster \/ Network \/ User

Spec == Init /\ [][Next]_vars

-----------------------------------------------------------------------------

\* Nothing is removed that the user was not asked about: the server gets no
\* more DELETEs for a row than questions were answered with yes, except that a
\* DELETE goes out again with the next sync if it was refused or still under way.
Removals == \A i \in Ids : tries[i] > confirms[i] => i \in excused

\* When nothing is under way, the list shows the rows, all changes are saved
\* and none is waiting, unless requests overtook each other or one was refused
\* since the list was loaded.
ListAgrees == sure /\ requests = {} => store = Loaded(server.rows)

-----------------------------------------------------------------------------
(* The strengthening that makes the two inductive.                         *)

Cells == Values \cup {0, Absent}
Operations == [op : {"create", "update", "destroy", "load", "drbd"}, id : Nat, value : Cells]
Requests == [n : Nat, ops : Seq(Operations) \ {<<>>}, served : BOOLEAN, ok : BOOLEAN, id : Nat,
             rows : [Ids -> Cells], clean : BOOLEAN, orphan : BOOLEAN]
Contents == [rows : [Ids -> Cells], new : SUBSET [ref : Nat, value : Values],
             dirty : SUBSET Ids, removed : SUBSET Ids]

DataOK ==
  /\ server \in [rows : [Ids -> Cells], next : Nat]
  /\ store \in Contents /\ IsFiniteSet(Refs(store))
  /\ requests \in SUBSET Requests
  /\ \A r \in requests : Destroys(r) \subseteq Ids
  /\ tries \in [Ids -> Nat] /\ confirms \in [Ids -> Nat] /\ excused \in SUBSET Ids
  /\ sure \in BOOLEAN /\ asked \in Nat
FormsOK ==
  /\ window \in [open : BOOLEAN, id : Ids \cup {0}, joined : BOOLEAN]
  /\ window.joined => window.id \in Ids
  /\ box \in [open : BOOLEAN, ids : SUBSET Ids, joined : BOOLEAN]
  /\ selection \in SUBSET Ids

\* The DELETEs of a request that the server has not got.
Unserved(r) == {r.ops[k].id : k \in {j \in DOMAIN r.ops :
                                       r.ops[j].op = "destroy" /\ (j > 1 \/ ~r.served)}}

\* What is removed is named by one DELETE under way, and of each that is under
\* way, or was, there is a question behind it that was answered with yes.
Confirmed(i) ==
  /\ \A r, q \in requests : i \in Destroys(r) /\ i \in Destroys(q) => r = q
  /\ \A r \in requests : \A j, k \in DOMAIN r.ops :
       /\ r.ops[j].op = "destroy" /\ r.ops[j].id = i
       /\ r.ops[k].op = "destroy" /\ r.ops[k].id = i
       => j = k
  /\ tries[i] <= confirms[i]
  /\ (\E r \in requests : i \in Unserved(r)) => tries[i] < confirms[i]
  /\ i \in store.removed => \E r \in requests : i \in Destroys(r)

\* A request that nothing crosses is alone, and a load brings the rows.
Alone(r) ==
  /\ requests = {r} /\ ~r.orphan
  /\ r.served /\ r.ok /\ r.ops[1].op = "load" => r.rows = server.rows

Less(rows, ids) == [i \in Ids |-> IF i \in ids THEN Absent ELSE rows[i]]

\* What the store differs in from the rows is what the request r will change.
Brings(r) ==
  \/ r.served /\ ~r.ok
  \/ r.ops[1].op \in {"load", "drbd"} /\ store = Loaded(server.rows)
  \/ \E new \in store.new :
       /\ r.ops = <<Op("create", new.ref, new.value)>>
       /\ store = Added(Loaded(store.rows), new.value, new.ref)
       /\ server.rows = IF r.served THEN [store.rows EXCEPT ![r.id] = new.value] ELSE store.rows
  \/ \E value \in Values : \E id \in Ids :
       /\ r.ops = <<Op("update", id, value)>>
       /\ store = Edited(Loaded(server.rows), id, value)
       /\ r.served => server.rows[id] = value
  \/ /\ \A k \in DOMAIN r.ops : r.ops[k].op = "destroy"
     /\ store = [Loaded(Less(server.rows, Unserved(r))) EXCEPT !.removed = store.removed]

Agreeing ==
  /\ \A r \in requests : r.clean => Alone(r)
  /\ sure => IF requests = {} THEN store = Loaded(server.rows)
             ELSE \E r \in requests : r.clean /\ Brings(r)

ListInv == DataOK /\ FormsOK /\ (\A i \in Ids \ excused : Confirmed(i)) /\ Agreeing

=============================================================================

------------------------------- MODULE Disks -------------------------------
(***************************************************************************)
(* The lists that belong to a machine: the tabs of its disks and of its    *)
(* interfaces in the editor, with the windows that add and change them.    *)
(* There is one store of disks and one of interfaces for all machines; a   *)
(* tab points its store to the machine and loads it.  The list of the      *)
(* disks of a storage uses the same store of disks.  Loads are answered in *)
(* any order, windows stay open while the user goes elsewhere, and the     *)
(* operations of a sync take the address of the store one after the other. *)
(***************************************************************************)
EXTENDS Integers, Sequences, FiniteSets

CONSTANTS
  Machines, Storages,
  Items,        \* Items[s]: what the store s may hold, s \in {"Disk", "Interface"}
  StorageOf,    \* the storage of each disk
  MaxRequests   \* bound: loads and syncs in all

VARIABLES
  currentVm,    \* Virtualmachine.js: the machine of the editor, 0 before the first
  center, tab,  \* "list", "vmedit" or "storagedisklist"; the tab of the editor
  url,          \* url[s]: the address of the store
  owner,        \* the server: the machine of each item, Nobody or Removed
  shown,        \* shown[s]: the rows of the store
  changes,      \* changes[s]: what a sync would send
  loads,        \* loads[s]: loads under way
  syncs,        \* syncs under way
  selection, box,
  window,
  \* history
  crossed,      \* crossed[s]: the rows come from a load that another one crossed
  asked

vars == <<currentVm, center, tab, url, owner, shown, changes, loads, syncs, selection, box, window,
          crossed, asked>>

-----------------------------------------------------------------------------

Stores == {"Disk", "Interface"}
AllItems == Items["Disk"] \cup Items["Interface"]
Nobody == 0      \* of an item that is not there yet
Removed == -1    \* for ever, the server numbers its rows on
Vm(m) == [of |-> "vm", id |-> m]
StorageUrl(s) == [of |-> "storage", id |-> s]

NoChanges == [new |-> {}, dirty |-> {}, removed |-> {}]
NoBox == [open |-> FALSE, store |-> "Disk", items |-> {}, joined |-> FALSE]
NoWindow == [kind |-> "none", item |-> 0, joined |-> FALSE, vm |-> Nobody]
Busy(s) == loads[s] # {}

\* A load, alone or crossing the ones under way.
Load(s, u) ==
  /\ asked < MaxRequests /\ asked' = asked + 1
  /\ loads' = [loads EXCEPT ![s] = {[l EXCEPT !.alone = FALSE] : l \in @}
                                   \cup {[n |-> asked, url |-> u, alone |-> ~Busy(s)]}]

\* sync, external: an operation for everything that is not committed.
Op(op, item, vm) == [op |-> op, item |-> item, vm |-> vm]
Listed(set) == CHOOSE q \in [1 .. Cardinality(set) -> set] : \A x \in set : \E k \in DOMAIN q : q[k] = x
Ops(c) == Listed({Op("create", r.ref, r.vm) : r \in c.new})
            \o Listed({Op("update", r.ref, r.vm) : r \in c.dirty})
            \o Listed({Op("destroy", i, owner[i]) : i \in c.removed})
Sync(s, c, u, reload, excused) ==
  /\ changes' = [changes EXCEPT ![s] = c]
  /\ syncs' = IF Ops(c) = <<>> THEN syncs
              ELSE syncs \cup {[n |-> asked, store |-> s, ops |-> Ops(c), url |-> u, first |-> TRUE,
                                reload |-> reload, failed |-> FALSE,
                                excused |-> excused \/ crossed[s]]}

-----------------------------------------------------------------------------
(* The server and the answers.                                             *)

Listing(u) ==
  IF u.of = "vm" THEN {i \in AllItems : owner[i] = u.id}
  ELSE {i \in Items["Disk"] : owner[i] \in Machines /\ StorageOf[i] = u.id}

\* The rows replace what the store has; records known elsewhere lead nowhere.
LoadAnswer(s, load) ==
  /\ load \in loads[s]
  /\ shown' = [shown EXCEPT ![s] = Listing(load.url) \cap Items[s]]
  /\ changes' = [changes EXCEPT ![s] = NoChanges]
  /\ loads' = [loads EXCEPT ![s] = @ \ {load}]
  /\ selection' = IF tab = s THEN selection \cap Listing(load.url) ELSE selection
  /\ box' = IF box.open /\ box.store = s THEN [box EXCEPT !.joined = FALSE] ELSE box
  /\ window' = IF window.item \in Items[s] THEN [window EXCEPT !.joined = FALSE] ELSE window
  /\ crossed' = [crossed EXCEPT ![s] = ~load.alone]
  /\ UNCHANGED <<currentVm, center, tab, url, owner, syncs, asked>>

\* Answered or refused; the next operation goes where the store points by then.
\* When all are answered the caller's function loads the store again, if it has
\* one for the outcome.
Applied(op, u, item) ==
  CASE op.op = "create" -> [owner EXCEPT ![item] = u.id]
    [] op.op = "update" -> owner
    [] op.op = "destroy" -> [owner EXCEPT ![item] = Removed]
Without(rows, items) == {r \in rows : r.ref \notin items}
Committed(s, op) ==
  LET c == changes[s]
  IN CASE op.op = "create" -> [c EXCEPT !.new = Without(@, {op.item})]
       [] op.op = "update" -> [c EXCEPT !.dirty = Without(@, {op.item})]
       [] op.op = "destroy" -> [c EXCEPT !.removed = {}]
SyncAnswer(r) ==
  LET s == r.store
      op == r.ops[1]
      mine == {p \in changes[s].new : p.ref = op.item}
  IN \E ok \in BOOLEAN, item \in IF op.op = "create" THEN {i \in Items[s] : owner[i] = Nobody}
                                 ELSE {op.item} :
       /\ ok => r.url.of = "vm" /\ (op.op # "create" => owner[item] \in Machines)
       /\ owner' = IF ok THEN Applied(op, r.url, item) ELSE owner
       /\ changes' = IF ok THEN [changes EXCEPT ![s] = Committed(s, op)] ELSE changes
       /\ shown' = IF ok /\ op.op = "create" /\ mine # {} THEN [shown EXCEPT ![s] = @ \cup {item}]
                   ELSE shown
       /\ LET failed == r.failed \/ ~ok
              over == Len(r.ops) = 1
          IN /\ syncs' = (syncs \ {r}) \cup
                  IF over THEN {}
                  ELSE {[r EXCEPT !.ops = Tail(@), !.url = url[s], !.first = FALSE, !.failed = failed]}
             /\ IF over /\ r.reload = IF failed THEN "failure" ELSE "success"
                THEN Load(s, url[s]) ELSE UNCHANGED <<loads, asked>>
       /\ UNCHANGED <<currentVm, center, tab, url, selection, box, window, crossed>>

-----------------------------------------------------------------------------
(* The user goes elsewhere.                                                *)

Free == ~box.open
Go(c, t) ==
  /\ Free
  /\ center' = c /\ tab' = t /\ selection' = {}
  /\ window' = [window EXCEPT !.vm = Nobody]   \* left open
  /\ UNCHANGED <<owner, shown, changes, syncs, box, crossed>>

switchVmEdit(m) ==
  /\ Go("vmedit", "general")
  /\ currentVm' = m
  /\ UNCHANGED <<url, loads, asked>>
switchContent == Go("list", "general") /\ UNCHANGED <<currentVm, url, loads, asked>>

\* The store of the tab is pointed to the machine before it is loaded.
Tab(s) ==
  /\ Free /\ center = "vmedit" /\ tab # s
  /\ tab' = s /\ selection' = {}
  /\ UNCHANGED <<currentVm, center, owner, shown, changes, syncs, box, window, crossed>>
NotPointed(s, u) == url' = url   \* mutant: no setVirtualmachineId
setVirtualmachineId(s, u) == url' = [url EXCEPT ![s] = u]
onTabpanelBeforeShow == setVirtualmachineId("Disk", Vm(currentVm))
ShowDisks == Tab("Disk") /\ onTabpanelBeforeShow /\ Load("Disk", url'["Disk"])
onTabpanelActivate ==
  /\ Tab("Interface")
  /\ url' = [url EXCEPT !["Interface"] = Vm(currentVm)]
  /\ Load("Interface", Vm(currentVm))

onStorageDiskButtonClick(s) ==
  /\ Go("storagedisklist", "general")
  /\ url' = [url EXCEPT !["Disk"] = StorageUrl(s)]
  /\ Load("Disk", StorageUrl(s))
  /\ UNCHANGED currentVm

-----------------------------------------------------------------------------
(* Windows.                                                                *)

Usable(s) == Free /\ center = "vmedit" /\ tab = s /\ ~Busy(s)
Same == UNCHANGED <<currentVm, center, tab, owner, crossed>>
Still == UNCHANGED <<url, shown, changes, loads, syncs, asked>>

\* A window for something new, or for a row of the list.
Open(s, kind, item) ==
  /\ Usable(s) /\ window.kind = "none"
  /\ window' = [kind |-> kind, item |-> item, joined |-> item # Nobody, vm |-> currentVm]
  /\ UNCHANGED <<selection, box>> /\ Same /\ Still

\* A window left open on the way to another machine, or while the list is loaded.
LeftOpen(s) == window.vm = Nobody \/ Busy(s)

\* Disk.js save, valid or not: the store points to the machine of the editor.
Changed(s) ==
  IF window.item = Nobody
  THEN [changes[s] EXCEPT !.new = @ \cup {[ref |-> asked, vm |-> window.vm]}]
  ELSE IF window.joined THEN [changes[s] EXCEPT !.dirty = Without(@, {window.item})
                                                         \cup {[ref |-> window.item, vm |-> window.vm]}] ELSE changes[s]
SaveDisk ==
  /\ Free /\ window.kind = "disk"
  /\ url' = [url EXCEPT !["Disk"] = Vm(currentVm)]
  /\ \/ /\ asked < MaxRequests /\ asked' = asked + 1
        /\ Sync("Disk", Changed("Disk"), Vm(currentVm), "never", LeftOpen("Disk"))
        /\ window' = NoWindow
     \/ UNCHANGED <<changes, syncs, window, asked>>
  /\ UNCHANGED <<shown, loads, selection, box>> /\ Same
\* Drbd.js: the store points where it points, and is loaded at once and again.
onButtonClickSaveDrbd ==
  /\ Free /\ window.kind = "drbd"
  /\ Sync("Disk", Changed("Disk"), url["Disk"], "success", LeftOpen("Disk"))
  /\ Load("Disk", url["Disk"])
  /\ window' = NoWindow
  /\ UNCHANGED <<url, shown, selection, box>> /\ Same
\* Interface.js: the store synchronises itself.
onButtonClickSave ==
  /\ Free /\ window.kind = "interface"
  /\ asked < MaxRequests /\ asked' = asked + 1
  /\ IF window.item = Nobody \/ window.joined
     THEN Sync("Interface", Changed("Interface"), url["Interface"], "never", LeftOpen("Interface"))
     ELSE UNCHANGED <<changes, syncs>>
  /\ window' = NoWindow
  /\ UNCHANGED <<url, shown, loads, selection, box>> /\ Same
Close ==
  /\ Free /\ window.kind # "none"
  /\ window' = NoWindow
  /\ UNCHANGED <<selection, box>> /\ Same /\ Still

-----------------------------------------------------------------------------
(* Removals.                                                               *)

Select(s, items) ==
  /\ Usable(s) /\ items \subseteq shown[s]
  /\ selection' = items
  /\ UNCHANGED <<box, window>> /\ Same /\ Still
Ask(s) ==
  /\ Usable(s) /\ selection # {}
  /\ box' = [open |-> TRUE, store |-> s, items |-> selection, joined |-> TRUE]
  /\ UNCHANGED <<selection, window>> /\ Same /\ Still
Cancel ==
  /\ box.open
  /\ box' = NoBox
  /\ UNCHANGED <<selection, window>> /\ Same /\ Still
Remove(s, items, reload) ==
  LET gone == items \cap shown[s]
  IN /\ box.open /\ box.store = s
     /\ asked < MaxRequests /\ asked' = asked + 1
     /\ shown' = [shown EXCEPT ![s] = @ \ gone]
     /\ Sync(s, [changes[s] EXCEPT !.removed = @ \cup gone, !.dirty = Without(@, gone)], url[s], reload,
             Busy(s))
     /\ box' = NoBox
     /\ selection' = selection \ gone
     /\ window' = IF window.item \in gone THEN [window EXCEPT !.joined = FALSE] ELSE window
     /\ UNCHANGED <<url, loads>> /\ Same
\* The selection by now for disks, the records of the question for interfaces.
deleteDisk == Remove("Disk", selection, "failure")
onButtonClickDelete == Remove("Interface", IF box.joined THEN box.items ELSE {}, "never")

\* Events.js: a disk of the machine of the editor is added to whatever is shown.
InsertEvent(i) ==
  /\ currentVm # Nobody /\ owner[i] = currentVm
  /\ shown' = [shown EXCEPT !["Disk"] = @ \cup {i}]
  /\ UNCHANGED <<selection, box, window, url, changes, loads, syncs, asked>> /\ Same

-----------------------------------------------------------------------------

Init ==
  /\ currentVm = Nobody /\ center = "list" /\ tab = "general"
  /\ url = [s \in Stores |-> IF s = "Interface" THEN Vm(1) ELSE [of |-> "none", id |-> Nobody]]
  /\ owner \in [AllItems -> Machines \cup {Nobody}]
  /\ shown = [s \in Stores |-> {}] /\ changes = [s \in Stores |-> NoChanges]
  /\ loads = [s \in Stores |-> {}] /\ syncs = {}
  /\ selection = {} /\ box = NoBox
  /\ window = NoWindow
  /\ crossed = [s \in Stores |-> FALSE] /\ asked = 0

Windows ==
  \/ \E item \in {Nobody} \cup shown["Disk"] : Open("Disk", "disk", item)
  \/ Open("Disk", "drbd", Nobody)
  \/ \E item \in {Nobody} \cup shown["Interface"] : Open("Interface", "interface", item)
  \/ SaveDisk \/ onButtonClickSaveDrbd \/ onButtonClickSave \/ Close
Removals ==
  \/ \E s \in Stores : Ask(s) \/ \E items \in SUBSET shown[s] : Select(s, items)
  \/ Cancel \/ deleteDisk \/ onButtonClickDelete
Next ==
  \/ \E s \in Stores : \E load \in loads[s] : LoadAnswer(s, load)
  \/ \E r \in syncs : SyncAnswer(r)
  \/ \E m \in Machines : switchVmEdit(m)
  \/ switchContent \/ ShowDisks \/ onTabpanelActivate
  \/ \E s \in Storages : onStorageDiskButtonClick(s)
  \/ Windows \/ Removals
  \/ \E i \in Items["Disk"] : InsertEvent(i)

Spec == Init /\ [][Next]_vars

-----------------------------------------------------------------------------

\* A tab shows no rows of another machine, unless loads crossed.
OwnRows ==
  \A s \in Stores :
    center = "vmedit" /\ tab = s /\ ~Busy(s) /\ ~crossed[s] =>
      \A i \in shown[s] : owner[i] \in {currentVm, Removed}
\* The server is told the machine that is meant: the one of the window for what
\* is new, the one it belongs to for a row; which matters, since the server asks
\* that machine if it is stopped before it removes a disk.  Excepted are windows
\* left open on the way to another machine, lists whose loads crossed, and the
\* later operations of a sync.
RightMachine ==
  \A r \in syncs : r.first /\ ~r.excused /\ r.ops[1].vm \in Machines => r.url = Vm(r.ops[1].vm)
BelongsToMachine == OwnRows /\ RightMachine

-----------------------------------------------------------------------------
(* The strengthening that makes the property inductive.                    *)

Urls == [of : {"vm", "storage", "none"}, id : Int]
Records == [ref : Int, vm : Int]
Changes == [new : SUBSET Records, dirty : SUBSET Records, removed : SUBSET AllItems]
Operations == [op : {"create", "update", "destroy"}, item : Int, vm : Int]
LoadsOf == [n : Nat, url : Urls, alone : BOOLEAN]
SyncsOf == [n : Nat, store : Stores, ops : Seq(Operations) \ {<<>>}, url : Urls, first : BOOLEAN,
            reload : {"never", "success", "failure"}, failed : BOOLEAN, excused : BOOLEAN]
DataOK ==
  /\ currentVm \in Int /\ asked \in Nat
  /\ url \in [Stores -> Urls] /\ owner \in [AllItems -> Int]
  /\ shown \in [Stores -> SUBSET AllItems] /\ changes \in [Stores -> Changes]
  /\ \A s \in Stores : IsFiniteSet(changes[s].new) /\ IsFiniteSet(changes[s].dirty)
  /\ loads \in [Stores -> SUBSET LoadsOf] /\ syncs \in SUBSET SyncsOf
  /\ crossed \in [Stores -> BOOLEAN]
FormsOK ==
  /\ box \in [open : BOOLEAN, store : Stores, items : SUBSET AllItems, joined : BOOLEAN]
  /\ window \in [kind : {"none", "disk", "drbd", "interface"}, item : Int, joined : BOOLEAN, vm : Int]
  /\ selection \in SUBSET AllItems
  /\ center = "vmedit" => currentVm \in Machines
  /\ window.vm # Nobody => window.vm = currentVm /\ center = "vmedit"
  /\ box.open => center = "vmedit" /\ tab = box.store

\* References of new records are not given twice.
Fresh ==
  /\ \A s \in Stores : \A p \in changes[s].new : p.ref < asked
  /\ \A r \in syncs : \A k \in DOMAIN r.ops : r.ops[k].op = "create" => r.ops[k].item < asked

\* The store is the one of the tab that is open, or of a window that was not
\* left open; it points to the machine of the editor then.
Kinds(s) == IF s = "Disk" THEN {"disk", "drbd"} ELSE {"interface"}
Meant(s) == center = "vmedit" /\ (tab = s \/ (window.vm # Nobody /\ window.kind \in Kinds(s)))
Points(s) ==
  Meant(s) => /\ url[s] = Vm(currentVm)
              /\ \A load \in loads[s] : load.alone => load.url = Vm(currentVm)

\* Once it is loaded, it holds what belongs to the machine, and what it creates
\* will, too.
Creates(r, s) ==
  r.store = s /\ r.ops[1].op = "create" /\ \E p \in changes[s].new : p.ref = r.ops[1].item
Own(vm) == vm \in Machines => vm = currentVm
Belongs(s) ==
  Meant(s) /\ ~Busy(s) /\ ~crossed[s] =>
    /\ \A i \in shown[s] \cup changes[s].removed : owner[i] \in {currentVm, Removed}
    /\ \A p \in changes[s].new \cup changes[s].dirty : Own(p.vm)
    /\ \A r \in syncs : Creates(r, s) => r.url = Vm(currentVm)

DisksInv ==
  DataOK /\ FormsOK /\ Fresh /\ (\A s \in Stores : Points(s) /\ Belongs(s)) /\ RightMachine

=============================================================================

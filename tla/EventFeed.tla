------------------------------ MODULE EventFeed ------------------------------
(***************************************************************************)
(* How the browsers keep their lists up to date: the events Entity2Node    *)
(* writes, the polls RestController answers, and what controller/Events.js *)
(* does with the answers.                                                  *)
(*                                                                         *)
(* A flush writes a row and an event about it in one transaction.  The     *)
(* event takes its id when it is inserted and is seen when the transaction *)
(* commits, so events can appear out of order.  A browser remembers the id *)
(* of the last event it handled and asks for newer ones every second; the  *)
(* answer carries the rows as they are when it is made.  A poll that fails *)
(* changes nothing and is no step here.                                    *)
(***************************************************************************)
EXTENDS Integers, FiniteSets

CONSTANTS
  Entities,   \* ids of rows (virtual machines, jobs, disks, nodes)
  Disks,      \* the rows that are disks
  Foreign,    \* disks of a machine other than the one the browsers show
  Writers,    \* processes that flush: web requests and jobs
  Browsers,
  NoEntity, Nothing,
  Budget      \* bounds of what users and jobs may do

BudgetNames == {"flush", "delete", "load"}

ASSUME FeedAssumption ==
  /\ Disks \subseteq Entities /\ Foreign \subseteq Disks /\ NoEntity \notin Entities
  /\ Budget \in [BudgetNames -> Nat]

VARIABLES
  \* the database
  rows,      \* rows[e]: version of the row, or Absent
  gone,      \* rows that were deleted
  log,       \* the events that are committed
  nextId,    \* AUTO_INCREMENT of the table of events
  open,      \* open[w]: the event of w's open transaction
  \* the browsers
  lastEvent, \* lastEvent[b]: 0 until /events/last has answered
  answer,    \* answer[b]: the answer to a poll, on its way
  loading,   \* loading[b]: the rows of a list, on their way
  store,     \* store[b][e]: the version the list shows, or Absent
  edits,     \* edits[b]: a machine was opened, which declares currentVm
  \* bounds and history
  spent,
  trusted,   \* trusted[b]: lastEvent did not move while the list was read and shown
  late       \* late[b]: entities with an event that appeared behind lastEvent

dbVars      == <<rows, gone, log, nextId, open>>
browserVars == <<lastEvent, answer, loading, store, edits, trusted>>
vars        == <<dbVars, browserVars, spent, late>>

-----------------------------------------------------------------------------

Absent == -1

Event   == [id : Nat \ {0}, action : {"insert", "update"}, e : Entities]
NoEvent == [id |-> 0, action |-> "update", e |-> NoEntity]

Last(events) == IF events = {} THEN 0
                ELSE CHOOSE i \in {v.id : v \in events} : \A v \in events : v.id <= i

After(i) == {v \in log : v.id > i}

UpTo(events, some) == {v \in events : \A x \in events : x.e \in some => v.id < x.id}
UpToForeign(b, events) ==   \* mutant: return false, which ends Ext.each
  UpTo(events, Foreign)
\* The records handleRecords does not skip.  Before a machine was opened the
\* first disk among them throws.
Own(events) == {v \in events : v.e \notin Foreign}
Handled(b, events) == Own(IF edits[b] THEN events ELSE UpTo(events, Disks))

\* The id up to which b may have looked when its answer is handled.
Known(b) == IF answer[b] # Nothing /\ Own(answer[b].events) # {}
            THEN Last(Own(answer[b].events)) ELSE lastEvent[b]

Spend(k) == /\ spent[k] < Budget[k]
            /\ spent' = [spent EXCEPT ![k] = @ + 1]

-----------------------------------------------------------------------------
(* The writers.                                                            *)

\* A flush inserts or updates the row and, in postPersist or postUpdate,
\* inserts the event.  The row stays locked until the transaction ends.
BeginFlush(w, e) ==
  /\ open[w] = NoEvent
  /\ e \notin gone
  /\ \A x \in Writers : open[x].e # e
  /\ Spend("flush")
  /\ open' = [open EXCEPT ![w] = [id |-> nextId, e |-> e,
                action |-> IF rows[e] = Absent THEN "insert" ELSE "update"]]
  /\ nextId' = nextId + 1
  /\ UNCHANGED <<rows, gone, log, browserVars, late>>

\* The class of the row is not in eventsArray.
InsertsOnly(event) == IF event.action = "insert" THEN {event} ELSE {}  \* mutant
Saved(event) == {event}

Commit(w) ==
  LET event == open[w]
  IN  /\ event # NoEvent
      /\ rows' = [rows EXCEPT ![event.e] = @ + 1]
      /\ log' = log \cup Saved(event)
      /\ late' = [b \in Browsers |-> IF event.id <= Known(b) THEN late[b] \cup {event.e}
                                     ELSE late[b]]
      /\ open' = [open EXCEPT ![w] = NoEvent]
      /\ UNCHANGED <<gone, nextId, browserVars, spent>>

\* The flush throws: the id is lost.
Rollback(w) ==
  /\ open[w] # NoEvent
  /\ open' = [open EXCEPT ![w] = NoEvent]
  /\ UNCHANGED <<rows, gone, log, nextId, browserVars, spent, late>>

\* The listener does not subscribe to postRemove: there is no event.
DeleteEntity(e) ==
  /\ rows[e] # Absent
  /\ \A w \in Writers : open[w].e # e
  /\ Spend("delete")
  /\ rows' = [rows EXCEPT ![e] = Absent]
  /\ gone' = gone \cup {e}
  /\ UNCHANGED <<log, nextId, open, browserVars, late>>

-----------------------------------------------------------------------------
(* The browsers.                                                           *)

\* getEventsLastAction: the newest id, or 1.
LastId == IF log = {} THEN 1 ELSE Last(log)

\* onLaunch.
Launch(b) ==
  /\ lastEvent[b] = 0
  /\ lastEvent' = [lastEvent EXCEPT ![b] = LastId]
  /\ UNCHANGED <<dbVars, answer, loading, store, edits, trusted, spent, late>>

\* The view of a list loads its store: the rows are read ...
ReadList(b) ==
  /\ loading[b] = Nothing
  /\ Spend("load")
  /\ loading' = [loading EXCEPT ![b] = [rows |-> rows, after |-> lastEvent[b]]]
  /\ UNCHANGED <<dbVars, lastEvent, answer, store, edits, trusted, late>>

\* ... and replace what the list shows, whatever polls have brought meanwhile.
ShowList(b) ==
  /\ loading[b] # Nothing
  /\ store' = [store EXCEPT ![b] = [e \in Entities |->
                 IF e \in Foreign THEN Absent ELSE loading[b].rows[e]]]
  /\ trusted' = [trusted EXCEPT ![b] = lastEvent[b] = loading[b].after /\ lastEvent[b] > 0]
  /\ loading' = [loading EXCEPT ![b] = Nothing]
  /\ UNCHANGED <<dbVars, lastEvent, answer, edits, spent, late>>

\* An event whose row is gone makes getEventsAction fail (null->toArray()).
Poisoned(b) == \E v \in After(lastEvent[b]) : v.e \in gone

\* loadTask and getEventsAction.  eventQueryRunning admits one poll at a time.
Poll(b) ==
  /\ lastEvent[b] > 0 /\ answer[b] = Nothing
  /\ After(lastEvent[b]) # {} /\ ~Poisoned(b)
  /\ answer' = [answer EXCEPT ![b] = [events |-> After(lastEvent[b]), rows |-> rows]]
  /\ UNCHANGED <<dbVars, lastEvent, loading, store, edits, trusted, spent, late>>

\* What the list shows of e after the records: an insert adds what is not
\* there, an update replaces what is there.
Applied(b, events, e) ==
  LET has(action) == \E v \in events : v.e = e /\ v.action = action
  IN  IF \/ has("insert") /\ store[b][e] = Absent
         \/ has("update") /\ store[b][e] # Absent
      THEN answer[b].rows[e] ELSE store[b][e]

Newer(b, events) == Last(log)   \* mutant: /events/last once more
LastHandled(b, events) == IF events = {} THEN lastEvent[b] ELSE Last(events)

HandleRecords(b) ==
  LET events == Handled(b, answer[b].events)
  IN  /\ answer[b] # Nothing
      /\ store' = [store EXCEPT ![b] = [e \in Entities |-> Applied(b, events, e)]]
      /\ lastEvent' = [lastEvent EXCEPT ![b] = LastHandled(b, events)]
      /\ answer' = [answer EXCEPT ![b] = Nothing]
      /\ UNCHANGED <<dbVars, loading, edits, trusted, spent, late>>

\* Virtualmachine.js: the user opens a machine.
OpenMachine(b) ==
  /\ ~edits[b]
  /\ edits' = [edits EXCEPT ![b] = TRUE]
  /\ UNCHANGED <<dbVars, lastEvent, answer, loading, store, trusted, spent, late>>

-----------------------------------------------------------------------------

Init ==
  /\ rows = [e \in Entities |-> Absent]
  /\ gone = {} /\ log = {} /\ nextId = 1
  /\ open = [w \in Writers |-> NoEvent]
  /\ lastEvent = [b \in Browsers |-> 0]
  /\ answer = [b \in Browsers |-> Nothing]
  /\ loading = [b \in Browsers |-> Nothing]
  /\ store = [b \in Browsers |-> [e \in Entities |-> Absent]]
  /\ edits = [b \in Browsers |-> FALSE]
  /\ spent = [k \in BudgetNames |-> 0]
  /\ trusted = [b \in Browsers |-> FALSE]
  /\ late = [b \in Browsers |-> {}]

Next ==
  \/ \E w \in Writers : Commit(w) \/ Rollback(w) \/ \E e \in Entities : BeginFlush(w, e)
  \/ \E e \in Entities : DeleteEntity(e)
  \/ \E b \in Browsers : Launch(b) \/ ReadList(b) \/ ShowList(b) \/ Poll(b) \/ HandleRecords(b)
                         \/ OpenMachine(b)

Spec == Init /\ [][Next]_vars

\* The task of a browser polls every second, and some answer arrives.
FairSpec == /\ Spec
            /\ \A b \in Browsers : WF_vars(Poll(b)) /\ WF_vars(HandleRecords(b))

-----------------------------------------------------------------------------
(* Properties.                                                             *)

\* What a browser shows of e is not, or not any more, its row.
Outdated(b, e) == e \notin Foreign /\ store[b][e] # rows[e]

\* A list that is out of date has news waiting that will correct it: an event
\* behind lastEvent, an insert if the list does not show the row at all.
\* Excepted are lists read before the browser knew the last event or overtaken
\* by a poll, events that appear behind lastEvent (among them the very first
\* event, which the 1 of LastId skips), and rows that were deleted, of which no
\* event tells (RemovedRowsVanish).
NewsWaiting ==
  \A b \in Browsers, e \in Entities :
    trusted[b] /\ e \notin late[b] \cup gone /\ Outdated(b, e) =>
      \E v \in After(lastEvent[b]) :
        v.e = e /\ (v.action = "insert" \/ store[b][e] # Absent)

\* Every list becomes right again and again about every row that is not deleted,
\* however many records are skipped, with the same exceptions, and unless an
\* event of a deleted row blocks the polls, or the event of a disk before a
\* machine was opened, for good.
Blocked(b) ==
  \/ Poisoned(b)
  \/ ~edits[b] /\ \E v \in After(lastEvent[b]) : v.e \in Disks
Excepted(b, e) == ~trusted[b] \/ e \in late[b] \/ Blocked(b)
CatchesUp ==
  \A b \in Browsers, e \in Entities :
    []<>(~Outdated(b, e) \/ e \in gone \/ Excepted(b, e))

\* A row that was deleted disappears from the lists: postRemove saves an event
\* 'remove' (Entity2Node), and handleRecords takes the record off the store.
RemovedRowsVanish ==
  \A b \in Browsers, e \in Entities :
    []<>(~Outdated(b, e) \/ e \notin gone \/ Excepted(b, e))

=============================================================================

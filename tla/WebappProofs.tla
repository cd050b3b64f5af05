---------------------------- MODULE WebappProofs ----------------------------
(***************************************************************************)
(* The page of the administrator, for any rows, writers, browsers,         *)
(* machines and disks.                                                     *)
(*                                                                         *)
(* The feed of events: NewsWaiting is an invariant.  It speaks of what a   *)
(* list shows; the invariant must say the same of rows that are still on   *)
(* their way to a browser, and that an event is pending of the kind that   *)
(* will correct the list: an update does not add a row, an insert does not *)
(* replace one.                                                            *)
(*                                                                         *)
(* A list: Removals and ListAgrees, from ListInv of Lists.  Every step     *)
(* keeps what a request says of the rows it carries, which edits it is     *)
(* still to bring to the server, and who else can touch those rows.        *)
(*                                                                         *)
(* The lists of a machine: BelongsToMachine, from DisksInv of Disks.  What *)
(* a load or a sync under way brings is weighed against the machine the    *)
(* list was pointed at last.                                               *)
(***************************************************************************)
EXTENDS Webapp, FiniteNumbers, Sequences

-----------------------------------------------------------------------------

Versions == {n \in Int : n >= Absent}
Contents == [Entities -> Versions]

TypeOK ==
  /\ rows \in Contents /\ gone \in SUBSET Entities /\ log \in SUBSET Event
  /\ nextId \in Nat \ {0} /\ open \in [Writers -> Event \cup {NoEvent}]
  /\ lastEvent \in [Browsers -> Nat]
  /\ answer \in [Browsers -> {Nothing} \cup [events : SUBSET Event, rows : Contents]]
  /\ loading \in [Browsers -> {Nothing} \cup [rows : Contents, after : Nat]]
  /\ store \in [Browsers -> Contents]
  /\ trusted \in [Browsers -> BOOLEAN] /\ late \in [Browsers -> SUBSET Entities]

\* Ids are given in order, rows that are gone stay so, a row is locked by one
\* transaction, and the event of a transaction says whether the row is new.
Database ==
  /\ \A v \in log : v.id < nextId
  /\ \A w \in Writers : open[w].id < nextId
  /\ \A e \in gone : rows[e] = Absent /\ \A w \in Writers : open[w].e # e
  /\ \A w \in Writers, x \in Writers : open[w] # NoEvent /\ open[w].e = open[x].e => w = x
  /\ \A w \in Writers : open[w] # NoEvent =>
       open[w].action = IF rows[open[w].e] = Absent THEN "insert" ELSE "update"

\* What was read was there: it can only have been deleted since.
Seen(content, r, deleted) ==
  \A e \in Entities : content[e] # Absent /\ r[e] = Absent => e \in deleted

\* Where the content a browser got differs from the rows r, a pending event
\* will correct it.
Corrects(v, e, content) ==
  v.e = e /\ v.action = IF content[e] = Absent THEN "insert" ELSE "update"
Fresh(content, r, pending, excepted) ==
  \A e \in Entities \ excepted :
    r[e] # Absent /\ r[e] # content[e] => \E v \in pending : Corrects(v, e, content)

\* After, of any set of events.
Behind(events, i) == {v \in events : v.id > i}

Shows(b) ==
  /\ Seen(store[b], rows, gone)
  /\ trusted[b] => /\ lastEvent[b] > 0
                   /\ Fresh(store[b], rows, Behind(log, lastEvent[b]), late[b] \cup Foreign)

Loads(b) == loading[b] # Nothing =>
  /\ Seen(loading[b].rows, rows, gone) /\ loading[b].after <= lastEvent[b]
  /\ lastEvent[b] = loading[b].after /\ lastEvent[b] > 0 =>
       Fresh(loading[b].rows, rows, Behind(log, lastEvent[b]), late[b] \cup Foreign)

\* An event that is not in an answer on its way came behind it, or came late.
Answers(b) == answer[b] # Nothing =>
  /\ lastEvent[b] > 0 /\ Seen(answer[b].rows, rows, gone)
  /\ Fresh(answer[b].rows, rows, Behind(log, Known(b)), late[b] \cup Foreign)
  /\ answer[b].events \subseteq Behind(log, lastEvent[b])
  /\ \A v \in Behind(log, lastEvent[b]) \ answer[b].events : v.e \in late[b] \/ v.id > Known(b)

Browser(b) == Shows(b) /\ Loads(b) /\ Answers(b)

IInv == TypeOK /\ Database /\ \A b \in Browsers : Browser(b)

-----------------------------------------------------------------------------
(* The last of a set of events.                                            *)

LEMMA LastFacts ==
  ASSUME NEW events \in SUBSET Event, NEW n \in Nat, \A v \in events : v.id <= n,
         events # {}
  PROVE  /\ Last(events) \in Nat \ {0}
         /\ \E v \in events : Last(events) = v.id
         /\ \A v \in events : v.id <= Last(events)
<1> DEFINE S == {v.id : v \in events}
<1>1. S \in SUBSET Nat /\ S # {} /\ \A s \in S : s <= n BY DEF Event
<1>2. PICK m \in S : \A s \in S : s <= m
  <2> HIDE DEF S
  <2>1. IsFiniteSet(S) BY <1>1, FS_BoundedSetOfNaturals
  <2> QED BY <1>1, <2>1, Greatest
<1>3. \A v \in events : v.id <= m BY <1>2
<1>4. Last(events) \in S /\ \A v \in events : v.id <= Last(events) BY <1>2, <1>3 DEF Last
<1> QED BY <1>4 DEF Event

\* How far b may have looked: behind lastEvent, and behind what it will handle.
LEMMA KnownFacts ==
  ASSUME TypeOK, Database, NEW b \in Browsers, Answers(b)
  PROVE  /\ Known(b) \in Nat /\ lastEvent[b] <= Known(b)
         /\ answer[b] # Nothing => \A v \in Own(answer[b].events) : v.id <= Known(b)
<1> DEFINE events == Own(answer[b].events)
<1>1. lastEvent[b] \in Nat BY DEF TypeOK
<1>2. CASE answer[b] # Nothing /\ events # {}
  <2>1. events \subseteq answer[b].events BY DEF Own
  <2>2. answer[b].events \subseteq log /\ \A v \in answer[b].events : v.id > lastEvent[b]
    BY <1>2 DEF Answers, Behind
  <2>3. events \in SUBSET Event /\ nextId \in Nat /\ \A v \in events : v.id <= nextId
    BY <2>1, <2>2 DEF TypeOK, Database, Event
  <2> HIDE DEF events
  <2>4. /\ Last(events) \in Nat /\ \A v \in events : v.id <= Last(events)
        /\ \E v \in events : Last(events) = v.id
    BY <2>3, <1>2, LastFacts
  <2>5. lastEvent[b] <= Last(events) BY <1>1, <2>1, <2>2, <2>4
  <2>6. Known(b) = Last(events) BY <1>2 DEF Known, events
  <2> QED BY <2>4, <2>5, <2>6 DEF events
<1>3. CASE answer[b] = Nothing BY <1>1, <1>3 DEF Known
<1>4. CASE answer[b] # Nothing /\ events = {} BY <1>1, <1>4 DEF Known
<1> QED BY <1>2, <1>3, <1>4

\* What is left of an answer is behind the last record that was handled.
LEMMA HandledFacts ==
  ASSUME TypeOK, Database, NEW b \in Browsers, Answers(b), answer[b] # Nothing,
         NEW events, events = Handled(b, answer[b].events),
         NEW i, i = LastHandled(b, events)
  PROVE  /\ i \in Nat /\ lastEvent[b] <= i /\ i <= Known(b)
         /\ \A v \in answer[b].events \ events : v.e \in Foreign \/ v.id > i
<1>1. lastEvent[b] \in Nat BY DEF TypeOK
<1>2. events \subseteq Own(answer[b].events) BY DEF Handled, Own, UpTo
<1>3. Own(answer[b].events) \subseteq answer[b].events BY DEF Own
<1>4. answer[b].events \subseteq log /\ \A v \in answer[b].events : v.id > lastEvent[b]
  BY DEF Answers, Behind
<1>5. \A v \in answer[b].events : v \in Event BY <1>4 DEF TypeOK
<1>6. /\ Known(b) \in Nat /\ lastEvent[b] <= Known(b)
      /\ \A v \in Own(answer[b].events) : v.id <= Known(b)
  BY KnownFacts
<1>7. \A v \in answer[b].events \ events :
        v.e \in Foreign \/ \E x \in answer[b].events : x.id <= v.id /\ \A h \in events : h.id < x.id
  <2> SUFFICES ASSUME NEW v \in answer[b].events, v \notin events, v.e \notin Foreign
               PROVE  \E x \in answer[b].events : x.id <= v.id /\ \A h \in events : h.id < x.id
    OBVIOUS
  <2>1. v \in Own(answer[b].events) BY DEF Own
  <2>2. ~edits[b] BY <2>1 DEF Handled
  <2>3. events = Own(UpTo(answer[b].events, Disks)) BY <2>2 DEF Handled
  <2>4. v \notin UpTo(answer[b].events, Disks) BY <2>3 DEF Own
  <2>5. PICK x \in answer[b].events : x.e \in Disks /\ ~(v.id < x.id) BY <2>4 DEF UpTo
  <2>6. \A h \in events : h.id < x.id BY <2>3, <2>5 DEF Own, UpTo
  <2>7. x.id <= v.id BY <2>5, <1>5 DEF Event
  <2> QED BY <2>6, <2>7
<1>8. CASE events = {}
  <2>1. i = lastEvent[b] BY <1>8 DEF LastHandled
  <2> QED BY <1>1, <1>4, <1>6, <2>1
<1>9. CASE events # {}
  <2>1. /\ events \in SUBSET Event /\ nextId \in Nat /\ \A v \in events : v.id <= nextId
    BY <1>2, <1>3, <1>4, <1>5 DEF Database, TypeOK, Event
  <2>2. i = Last(events) BY <1>9 DEF LastHandled
  <2>3. /\ i \in Nat /\ \E h \in events : i = h.id
    BY <1>9, <2>1, <2>2, LastFacts
  <2>4. PICK h \in events : i = h.id BY <2>3
  <2>5. h \in Own(answer[b].events) /\ h \in answer[b].events BY <1>2, <1>3
  <2>6. lastEvent[b] <= i /\ i <= Known(b) BY <1>1, <1>4, <1>6, <2>3, <2>4, <2>5
  <2>7. \A v \in answer[b].events \ events : v.e \in Foreign \/ v.id > i
    <3> SUFFICES ASSUME NEW v \in answer[b].events, v \notin events, v.e \notin Foreign
                 PROVE  v.id > i
      OBVIOUS
    <3>1. PICK x \in answer[b].events : x.id <= v.id /\ h.id < x.id BY <1>7, <2>4
    <3>2. v.id \in Nat /\ x.id \in Nat /\ h.id \in Nat BY <1>5, <2>5 DEF Event
    <3> QED BY <3>1, <3>2, <2>4
  <2> QED BY <2>3, <2>6, <2>7
<1> QED BY <1>8, <1>9

-----------------------------------------------------------------------------
(* What happens to a content when the rows change.                         *)

LEMMA SeenHere ==
  ASSUME NEW r, NEW deleted, NEW pending, NEW excepted
  PROVE  Seen(r, r, deleted) /\ Fresh(r, r, pending, excepted)
BY DEF Seen, Fresh

\* A row is saved, and the event of it is pending or comes late.
LEMMA ContentSaved ==
  ASSUME NEW content \in Contents, NEW r \in Contents, NEW deleted, NEW e \in Entities,
         e \notin deleted, Seen(content, r, deleted)
  PROVE  LET r2 == [r EXCEPT ![e] = @ + 1]
         IN  /\ r2 \in Contents /\ Seen(content, r2, deleted)
             /\ \A v, pending, excepted, pending2, excepted2 :
                  /\ Fresh(content, r, pending, excepted)
                  /\ pending \subseteq pending2 /\ excepted \subseteq excepted2
                  /\ v.e = e /\ v.action = IF r[e] = Absent THEN "insert" ELSE "update"
                  /\ e \in excepted2 \/ v \in pending2
                  => Fresh(content, r2, pending2, excepted2)
<1> DEFINE r2 == [r EXCEPT ![e] = @ + 1]
<1>1. /\ r2 \in Contents /\ r2[e] # Absent
      /\ \A x \in Entities \ {e} : r2[x] = r[x]
  BY DEF Contents, Versions, Absent
<1>2. r[e] = Absent => content[e] = Absent BY DEF Seen
<1> HIDE DEF r2
<1>3. Seen(content, r2, deleted) BY <1>1 DEF Seen
<1>4. ASSUME NEW v, NEW pending, NEW excepted, NEW pending2, NEW excepted2,
             Fresh(content, r, pending, excepted),
             pending \subseteq pending2, excepted \subseteq excepted2,
             v.e = e, v.action = IF r[e] = Absent THEN "insert" ELSE "update",
             e \in excepted2 \/ v \in pending2,
             NEW x \in Entities \ excepted2, r2[x] # Absent, r2[x] # content[x]
      PROVE  \E y \in pending2 : Corrects(y, x, content)
  <2>1. CASE x # e
    <3>1. r[x] # Absent /\ r[x] # content[x] BY <1>1, <1>4, <2>1
    <3>2. x \in Entities \ excepted BY <1>4
    <3>3. PICK y \in pending : Corrects(y, x, content) BY <1>4, <3>1, <3>2 DEF Fresh
    <3> QED BY <1>4, <3>3
  <2>2. CASE x = e /\ r[e] # Absent /\ r[e] # content[e]
    <3>1. x \in Entities \ excepted BY <1>4
    <3>2. PICK y \in pending : Corrects(y, x, content) BY <1>4, <2>2, <3>1 DEF Fresh
    <3> QED BY <1>4, <3>2
  <2>3. CASE x = e /\ (r[e] = Absent \/ r[e] = content[e])
    <3>1. r[e] = Absent <=> content[e] = Absent BY <1>2, <2>3
    <3>2. v \in pending2 /\ Corrects(v, x, content) BY <1>4, <2>3, <3>1 DEF Corrects
    <3> QED BY <3>2
  <2> QED BY <2>1, <2>2, <2>3
<1>5. \A v, pending, excepted, pending2, excepted2 :
        /\ Fresh(content, r, pending, excepted)
        /\ pending \subseteq pending2 /\ excepted \subseteq excepted2
        /\ v.e = e /\ v.action = IF r[e] = Absent THEN "insert" ELSE "update"
        /\ e \in excepted2 \/ v \in pending2
        => Fresh(content, r2, pending2, excepted2)
  BY <1>4 DEF Fresh
<1> QED BY <1>1, <1>3, <1>5 DEF r2

LEMMA ContentDeleted ==
  ASSUME NEW content \in Contents, NEW r \in Contents, NEW deleted, NEW e \in Entities
  PROVE  LET r2 == [r EXCEPT ![e] = Absent]
         IN  /\ r2 \in Contents
             /\ Seen(content, r, deleted) => Seen(content, r2, deleted \cup {e})
             /\ \A pending, excepted : Fresh(content, r, pending, excepted) =>
                                       Fresh(content, r2, pending, excepted)
<1> DEFINE r2 == [r EXCEPT ![e] = Absent]
<1>1. /\ r2 \in Contents /\ r2[e] = Absent
      /\ \A x \in Entities \ {e} : r2[x] = r[x]
  BY DEF Contents, Versions, Absent
<1> HIDE DEF r2
<1>2. Seen(content, r, deleted) => Seen(content, r2, deleted \cup {e}) BY <1>1 DEF Seen
<1>3. \A pending, excepted : Fresh(content, r, pending, excepted) =>
                             Fresh(content, r2, pending, excepted)
  BY <1>1 DEF Fresh
<1> QED BY <1>1, <1>2, <1>3 DEF r2

-----------------------------------------------------------------------------
(* The writers.                                                            *)

LEMMA CommitType ==
  ASSUME TypeOK, Database, NEW w \in Writers, Commit(w)
  PROVE  TypeOK' /\ Database'
<1> DEFINE event == open[w]
<1>1. event \in Event /\ event # NoEvent BY DEF Commit, TypeOK
<1>2. event.e \in Entities /\ event.id \in Nat \ {0} BY <1>1 DEF Event
<1>3. event.e \notin gone BY <1>2 DEF Database
<1>4. /\ rows' = [rows EXCEPT ![event.e] = @ + 1] /\ log' = log \cup {event}
      /\ open' = [open EXCEPT ![w] = NoEvent]
      /\ late' = [b \in Browsers |-> IF event.id <= Known(b) THEN late[b] \cup {event.e}
                                     ELSE late[b]]
      /\ UNCHANGED <<gone, nextId, lastEvent, answer, loading, store, trusted>>
  BY DEF Commit, Saved, browserVars
<1> HIDE DEF event
<1>5. /\ rows' \in Contents /\ rows'[event.e] # Absent
      /\ \A x \in Entities \ {event.e} : rows'[x] = rows[x]
  BY <1>2, <1>4 DEF TypeOK, Contents, Versions, Absent
<1>6. late' \in [Browsers -> SUBSET Entities] BY <1>2, <1>4 DEF TypeOK
<1>7. /\ open' \in [Writers -> Event \cup {NoEvent}] /\ open'[w] = NoEvent
      /\ \A x \in Writers \ {w} : open'[x] = open[x]
  BY <1>4 DEF TypeOK
<1>8. TypeOK' BY <1>1, <1>4, <1>5, <1>6, <1>7 DEF TypeOK
<1>9. NoEvent.id = 0 /\ NoEvent.e = NoEntity BY DEF NoEvent
<1>10. \A v \in log' : v.id < nextId' BY <1>4 DEF Database, event
<1>11. \A x \in Writers : open'[x].id < nextId' BY <1>4, <1>7, <1>9 DEF Database, TypeOK
<1>12. \A e \in gone' : rows'[e] = Absent /\ \A x \in Writers : open'[x].e # e
  BY <1>3, <1>4, <1>5, <1>7, <1>9, FeedAssumption DEF Database, TypeOK
<1>13. \A x \in Writers, y \in Writers : open'[x] # NoEvent /\ open'[x].e = open'[y].e => x = y
  <2> SUFFICES ASSUME NEW x \in Writers, NEW y \in Writers, open'[x] # NoEvent,
                      open'[x].e = open'[y].e
               PROVE  x = y
    OBVIOUS
  <2>1. x # w /\ open'[x] = open[x] BY <1>7
  <2>2. open[x].e \in Entities BY <2>1, <1>7 DEF TypeOK, Event
  <2>3. y # w BY <1>7, <1>9, <2>1, <2>2, FeedAssumption
  <2> QED BY <1>7, <2>1, <2>3 DEF Database
<1>14. \A x \in Writers : open'[x] # NoEvent =>
         open'[x].action = IF rows'[open'[x].e] = Absent THEN "insert" ELSE "update"
  <2> SUFFICES ASSUME NEW x \in Writers, open'[x] # NoEvent
               PROVE  open'[x].action = IF rows'[open'[x].e] = Absent THEN "insert" ELSE "update"
    OBVIOUS
  <2>1. x # w /\ open'[x] = open[x] BY <1>7
  <2>2. open[x].e \in Entities BY <2>1, <1>7 DEF TypeOK, Event
  <2>3. open[x].e # event.e BY <2>1, <1>1 DEF Database, event
  <2> QED BY <1>5, <2>1, <2>2, <2>3 DEF Database
<1> QED BY <1>8, <1>10, <1>11, <1>12, <1>13, <1>14 DEF Database

LEMMA CommitKeeps ==
  ASSUME TypeOK, Database, NEW w \in Writers, Commit(w), NEW b \in Browsers, Browser(b)
  PROVE  Browser(b)'
<1> DEFINE event == open[w]
           out == late[b] \cup Foreign
<1>1. event \in Event /\ event # NoEvent BY DEF Commit, TypeOK
<1>2. event.e \in Entities /\ event.id \in Nat BY <1>1 DEF Event
<1>3. event.e \notin gone BY <1>2 DEF Database
<1>4. event.action = IF rows[event.e] = Absent THEN "insert" ELSE "update"
  BY <1>1 DEF Database
<1>5. /\ rows' = [rows EXCEPT ![event.e] = @ + 1] /\ log' = log \cup {event}
      /\ late'[b] = IF event.id <= Known(b) THEN late[b] \cup {event.e} ELSE late[b]
      /\ UNCHANGED <<gone, lastEvent, answer, loading, store, trusted>>
  BY DEF Commit, Saved, browserVars
<1>6. Known(b)' = Known(b) BY <1>5 DEF Known
<1>7. Known(b) \in Nat /\ lastEvent[b] \in Nat /\ lastEvent[b] <= Known(b)
  BY KnownFacts DEF Browser, TypeOK
<1> HIDE DEF event
\* Behind i there is as much as before, and the event unless it is late.
<1>8. ASSUME NEW i \in Nat, i <= Known(b)
      PROVE  /\ Behind(log, i) \subseteq Behind(log', i)
             /\ late[b] \cup Foreign \subseteq late'[b] \cup Foreign
             /\ event.e \in late'[b] \cup Foreign \/ event \in Behind(log', i)
  BY <1>2, <1>5, <1>7, <1>8 DEF Behind
<1>9. ASSUME NEW content \in Contents, Seen(content, rows, gone)
      PROVE  /\ Seen(content, rows', gone')
             /\ \A i \in Nat : /\ i <= Known(b)
                               /\ Fresh(content, rows, Behind(log, i), late[b] \cup Foreign)
                  => Fresh(content, rows', Behind(log', i), late'[b] \cup Foreign)
  <2>1. rows \in Contents BY DEF TypeOK
  <2>2. /\ Seen(content, rows', gone)
        /\ \A v, pending, excepted, pending2, excepted2 :
             /\ Fresh(content, rows, pending, excepted)
             /\ pending \subseteq pending2 /\ excepted \subseteq excepted2
             /\ v.e = event.e /\ v.action = IF rows[event.e] = Absent THEN "insert" ELSE "update"
             /\ event.e \in excepted2 \/ v \in pending2
             => Fresh(content, rows', pending2, excepted2)
    BY <1>2, <1>3, <1>5, <1>9, <2>1, ContentSaved
  <2> QED BY <1>4, <1>5, <1>8, <2>2
<1>10. Shows(b)'
  <2>1. store[b] \in Contents BY DEF TypeOK
  <2> QED BY <1>5, <1>7, <1>9, <2>1 DEF Browser, Shows
<1>11. Loads(b)'
  <2> SUFFICES ASSUME loading[b] # Nothing PROVE Loads(b)' BY <1>5 DEF Loads
  <2>1. loading[b].rows \in Contents BY DEF TypeOK
  <2> QED BY <1>5, <1>7, <1>9, <2>1 DEF Browser, Loads
<1>12. Answers(b)'
  <2> SUFFICES ASSUME answer[b] # Nothing PROVE Answers(b)' BY <1>5 DEF Answers
  <2>1. answer[b].rows \in Contents BY DEF TypeOK
  <2>2. /\ lastEvent'[b] > 0 /\ Seen(answer'[b].rows, rows', gone')
        /\ Fresh(answer'[b].rows, rows', Behind(log', Known(b)), late'[b] \cup Foreign)
    <3>1. /\ lastEvent[b] > 0 /\ Seen(answer[b].rows, rows, gone)
          /\ Fresh(answer[b].rows, rows, Behind(log, Known(b)), late[b] \cup Foreign)
      BY DEF Browser, Answers
    <3>2. Seen(answer[b].rows, rows', gone') BY <1>9, <2>1, <3>1
    <3>3. Fresh(answer[b].rows, rows', Behind(log', Known(b)), late'[b] \cup Foreign)
      BY <1>7, <1>9, <2>1, <3>1
    <3> QED BY <1>5, <3>1, <3>2, <3>3
  <2>3. answer'[b].events \subseteq Behind(log', lastEvent'[b])
    BY <1>5, <1>7, <1>8 DEF Browser, Answers
  <2>4. \A v \in Behind(log', lastEvent'[b]) \ answer'[b].events :
          v.e \in late'[b] \/ v.id > Known(b)
    BY <1>2, <1>5, <1>7 DEF Browser, Answers, Behind
  <2> QED BY <1>6, <2>2, <2>3, <2>4 DEF Answers
<1> QED BY <1>10, <1>11, <1>12 DEF Browser

\* The other steps of the writers do not write events.
LEMMA BeginFlushType ==
  ASSUME TypeOK, Database, NEW w \in Writers, NEW e \in Entities, BeginFlush(w, e)
  PROVE  TypeOK' /\ Database'
<1> DEFINE event == [id |-> nextId, e |-> e,
                     action |-> IF rows[e] = Absent THEN "insert" ELSE "update"]
<1>1. /\ e \notin gone /\ \A x \in Writers : open[x].e # e
      /\ open' = [open EXCEPT ![w] = event] /\ nextId' = nextId + 1
      /\ UNCHANGED <<rows, gone, log, lastEvent, answer, loading, store, trusted, late>>
  BY DEF BeginFlush, browserVars
<1>2. event \in Event BY DEF TypeOK, Event
<1>3. /\ event.id = nextId /\ event.e = e
      /\ event.action = IF rows[event.e] = Absent THEN "insert" ELSE "update"
  OBVIOUS
<1> HIDE DEF event
<1>4. /\ open' \in [Writers -> Event \cup {NoEvent}] /\ open'[w] = event
      /\ \A x \in Writers \ {w} : open'[x] = open[x]
  BY <1>1, <1>2 DEF TypeOK
<1>5. TypeOK' BY <1>1, <1>4 DEF TypeOK
<1>6. \A x \in Writers : open[x].id \in Nat BY DEF TypeOK, Event, NoEvent
<1>7. /\ \A v \in log' : v.id < nextId'
      /\ \A x \in Writers : open'[x].id < nextId'
  BY <1>1, <1>3, <1>4, <1>6 DEF Database, TypeOK, Event
<1>8. /\ \A x \in gone' : rows'[x] = Absent /\ \A y \in Writers : open'[y].e # x
      /\ \A x \in Writers, y \in Writers : open'[x] # NoEvent /\ open'[x].e = open'[y].e => x = y
      /\ \A x \in Writers : open'[x] # NoEvent =>
           open'[x].action = IF rows'[open'[x].e] = Absent THEN "insert" ELSE "update"
  BY <1>1, <1>3, <1>4 DEF Database
<1> QED BY <1>5, <1>7, <1>8 DEF Database

LEMMA RollbackType ==
  ASSUME TypeOK, Database, NEW w \in Writers, Rollback(w)
  PROVE  TypeOK' /\ Database'
<1>1. /\ open' = [open EXCEPT ![w] = NoEvent]
      /\ UNCHANGED <<rows, gone, log, nextId, lastEvent, answer, loading, store, trusted, late>>
  BY DEF Rollback, browserVars
<1>2. /\ open' \in [Writers -> Event \cup {NoEvent}] /\ open'[w] = NoEvent
      /\ \A x \in Writers \ {w} : open'[x] = open[x]
  BY <1>1 DEF TypeOK
<1>3. NoEvent.id = 0 /\ NoEvent.e = NoEntity BY DEF NoEvent
<1>4. TypeOK' BY <1>1, <1>2 DEF TypeOK
<1>5. \A x \in Writers, y \in Writers : open'[x] # NoEvent /\ open'[x].e = open'[y].e => x = y
  <2> SUFFICES ASSUME NEW x \in Writers, NEW y \in Writers, open'[x] # NoEvent,
                      open'[x].e = open'[y].e
               PROVE  x = y
    OBVIOUS
  <2>1. x # w /\ open'[x] = open[x] BY <1>2
  <2>2. open[x].e \in Entities BY <2>1, <1>2 DEF TypeOK, Event
  <2>3. y # w BY <1>2, <1>3, <2>1, <2>2, FeedAssumption
  <2> QED BY <1>2, <2>1, <2>3 DEF Database
<1>6. \A v \in log' : v.id < nextId' BY <1>1 DEF Database
<1>7. \A x \in Writers : open'[x].id < nextId' BY <1>1, <1>2, <1>3 DEF Database, TypeOK
<1>8. /\ \A x \in gone' : rows'[x] = Absent /\ \A y \in Writers : open'[y].e # x
      /\ \A x \in Writers : open'[x] # NoEvent =>
           open'[x].action = IF rows'[open'[x].e] = Absent THEN "insert" ELSE "update"
  BY <1>1, <1>2, <1>3, FeedAssumption DEF Database, TypeOK
<1> QED BY <1>4, <1>5, <1>6, <1>7, <1>8 DEF Database

LEMMA DeleteType ==
  ASSUME TypeOK, Database, NEW e \in Entities, DeleteEntity(e)
  PROVE  TypeOK' /\ Database'
<1>1. /\ \A w \in Writers : open[w].e # e
      /\ rows' = [rows EXCEPT ![e] = Absent] /\ gone' = gone \cup {e}
      /\ UNCHANGED <<log, nextId, open, lastEvent, answer, loading, store, trusted, late>>
  BY DEF DeleteEntity, browserVars
<1>2. /\ rows' \in Contents /\ rows'[e] = Absent
      /\ \A x \in Entities \ {e} : rows'[x] = rows[x]
  BY <1>1 DEF TypeOK, Contents, Versions, Absent
<1>3. TypeOK' BY <1>1, <1>2 DEF TypeOK
<1>4. \A w \in Writers : open[w] # NoEvent => open[w].e \in Entities /\ open[w].e # e
  BY <1>1 DEF TypeOK, Event
<1>5. /\ \A x \in gone' : rows'[x] = Absent /\ \A w \in Writers : open'[w].e # x
      /\ \A w \in Writers : open'[w] # NoEvent =>
           open'[w].action = IF rows'[open'[w].e] = Absent THEN "insert" ELSE "update"
  BY <1>1, <1>2, <1>4 DEF Database, TypeOK
<1>6. \A v \in log' : v.id < nextId' BY <1>1 DEF Database
<1>7. /\ \A w \in Writers : open'[w].id < nextId'
      /\ \A w \in Writers, x \in Writers : open'[w] # NoEvent /\ open'[w].e = open'[x].e => w = x
  BY <1>1 DEF Database
<1> QED BY <1>3, <1>5, <1>6, <1>7 DEF Database

LEMMA EntityDeletedKeeps ==
  ASSUME TypeOK, NEW e \in Entities, DeleteEntity(e), NEW b \in Browsers, Browser(b)
  PROVE  Browser(b)'
<1>1. /\ rows' = [rows EXCEPT ![e] = Absent] /\ gone' = gone \cup {e}
      /\ UNCHANGED <<log, lastEvent, answer, loading, store, trusted, late>>
  BY DEF DeleteEntity, browserVars
<1>2. Known(b)' = Known(b) BY <1>1 DEF Known
<1>3. ASSUME NEW content \in Contents
      PROVE  /\ Seen(content, rows, gone) => Seen(content, rows', gone')
             /\ \A pending, excepted : Fresh(content, rows, pending, excepted) =>
                                       Fresh(content, rows', pending, excepted)
  BY <1>1, ContentDeleted DEF TypeOK
<1>4. Shows(b)'
  <2>1. store[b] \in Contents BY DEF TypeOK
  <2> QED BY <1>1, <1>2, <1>3, <2>1 DEF Browser, Shows
<1>5. Loads(b)'
  <2> SUFFICES ASSUME loading[b] # Nothing PROVE Loads(b)' BY <1>1 DEF Loads
  <2>1. loading[b].rows \in Contents BY DEF TypeOK
  <2> QED BY <1>1, <1>2, <1>3, <2>1 DEF Browser, Loads
<1>6. Answers(b)'
  <2> SUFFICES ASSUME answer[b] # Nothing PROVE Answers(b)' BY <1>1 DEF Answers
  <2>1. answer[b].rows \in Contents BY DEF TypeOK
  <2> QED BY <1>1, <1>2, <1>3, <2>1 DEF Browser, Answers
<1> QED BY <1>4, <1>5, <1>6 DEF Browser

\* What b has is as good as before when neither it nor the rows changed.
LEMMA BrowserStutters ==
  ASSUME NEW b \in Browsers, Browser(b), UNCHANGED <<rows, gone, log>>,
         UNCHANGED <<lastEvent[b], answer[b], loading[b], store[b], trusted[b], late[b]>>
  PROVE  Browser(b)'
BY DEF Browser, Shows, Loads, Answers, Known

-----------------------------------------------------------------------------
(* The browsers.  A step of one leaves the others as they are.             *)

LEMMA DatabaseStutters ==
  ASSUME Database, UNCHANGED <<rows, gone, log, nextId, open>>
  PROVE  Database'
BY DEF Database

LEMMA LaunchKeeps ==
  ASSUME IInv, NEW b \in Browsers, Launch(b)
  PROVE  IInv'
<1>1. /\ lastEvent[b] = 0 /\ lastEvent' = [lastEvent EXCEPT ![b] = LastId]
      /\ UNCHANGED <<rows, gone, log, nextId, open, answer, loading, store, trusted, late>>
  BY DEF Launch, dbVars
<1>2. LastId \in Nat \ {0}
  <2>1. log \in SUBSET Event /\ nextId \in Nat /\ \A v \in log : v.id <= nextId
    BY DEF IInv, TypeOK, Database, Event
  <2> QED BY <2>1, LastFacts DEF LastId
<1>3. TypeOK' BY <1>1, <1>2 DEF IInv, TypeOK
<1>4. Database' BY <1>1, DatabaseStutters DEF IInv
<1>5. Browser(b)'
  <2>1. ~trusted[b] /\ answer[b] = Nothing
    <3>1. trusted[b] => lastEvent[b] > 0 BY DEF IInv, Browser, Shows
    <3>2. answer[b] # Nothing => lastEvent[b] > 0 BY DEF IInv, Browser, Answers
    <3>3. ~(lastEvent[b] > 0) BY <1>1
    <3> QED BY <3>1, <3>2, <3>3
  <2>2. lastEvent'[b] > 0 /\ lastEvent'[b] = LastId BY <1>1, <1>2 DEF IInv, TypeOK
  <2>3. Shows(b)' BY <1>1, <2>1 DEF IInv, Browser, Shows, TypeOK
  <2>4. Answers(b)' BY <1>1, <2>1 DEF Answers
  <2>5. Loads(b)'
    <3> SUFFICES ASSUME loading[b] # Nothing PROVE Loads(b)' BY <1>1 DEF Loads
    <3>1. loading[b].after \in Nat BY DEF IInv, TypeOK
    <3>2. Seen(loading[b].rows, rows, gone) /\ loading[b].after <= 0
      BY <1>1 DEF IInv, Browser, Loads
    <3>3. loading[b].after < lastEvent'[b] BY <1>2, <2>2, <3>1, <3>2
    <3> QED BY <1>1, <1>2, <2>2, <3>1, <3>2, <3>3 DEF Loads
  <2> QED BY <2>3, <2>4, <2>5 DEF Browser
<1>6. ASSUME NEW x \in Browsers, x # b PROVE Browser(x)'
  BY <1>1, <1>6, BrowserStutters DEF IInv, TypeOK
<1> QED BY <1>3, <1>4, <1>5, <1>6 DEF IInv

LEMMA ReadListKeeps ==
  ASSUME IInv, NEW b \in Browsers, ReadList(b)
  PROVE  IInv'
<1> DEFINE content == [rows |-> rows, after |-> lastEvent[b]]
<1>1. /\ loading' = [loading EXCEPT ![b] = content]
      /\ UNCHANGED <<rows, gone, log, nextId, open, lastEvent, answer, store, trusted, late>>
  BY DEF ReadList, dbVars
<1>2. content \in [rows : Contents, after : Nat] BY DEF IInv, TypeOK
<1>3. content.rows = rows /\ content.after = lastEvent[b] OBVIOUS
<1> HIDE DEF content
<1>4. TypeOK' BY <1>1, <1>2 DEF IInv, TypeOK
<1>5. Database' BY <1>1, DatabaseStutters DEF IInv
<1>6. Browser(b)'
  <2>1. Shows(b)' BY <1>1 DEF IInv, Browser, Shows
  <2>2. Answers(b)' BY <1>1 DEF IInv, Browser, Answers, Known
  <2>3. loading'[b] = content BY <1>1 DEF IInv, TypeOK
  <2>4. lastEvent[b] \in Nat BY DEF IInv, TypeOK
  <2>5. Loads(b)' BY <1>1, <1>3, <2>3, <2>4, SeenHere DEF Loads
  <2> QED BY <2>1, <2>2, <2>5 DEF Browser
<1>7. ASSUME NEW x \in Browsers, x # b PROVE Browser(x)'
  BY <1>1, <1>7, BrowserStutters DEF IInv, TypeOK
<1> QED BY <1>4, <1>5, <1>6, <1>7 DEF IInv

LEMMA ShowListKeeps ==
  ASSUME IInv, NEW b \in Browsers, ShowList(b)
  PROVE  IInv'
<1> DEFINE content == [e \in Entities |-> IF e \in Foreign THEN Absent ELSE loading[b].rows[e]]
           trust == lastEvent[b] = loading[b].after /\ lastEvent[b] > 0
<1>1. /\ loading[b] # Nothing
      /\ store' = [store EXCEPT ![b] = content]
      /\ trusted' = [trusted EXCEPT ![b] = trust]
      /\ loading' = [loading EXCEPT ![b] = Nothing]
      /\ UNCHANGED <<rows, gone, log, nextId, open, lastEvent, answer, late>>
  BY DEF ShowList, dbVars
<1>2. loading[b].rows \in Contents BY <1>1 DEF IInv, TypeOK
<1>3. content \in Contents BY <1>2 DEF Contents, Versions, Absent
<1>4. \A e \in Entities : content[e] = IF e \in Foreign THEN Absent ELSE loading[b].rows[e]
  OBVIOUS
<1>5. trust \in BOOLEAN OBVIOUS
<1>6. Seen(content, rows, gone) BY <1>1, <1>4 DEF IInv, Browser, Loads, Seen
<1>7. trust => Fresh(content, rows, Behind(log, lastEvent[b]), late[b] \cup Foreign)
  <2>1. ASSUME trust
        PROVE  Fresh(loading[b].rows, rows, Behind(log, lastEvent[b]), late[b] \cup Foreign)
    BY <1>1, <2>1 DEF IInv, Browser, Loads
  <2> QED BY <1>4, <2>1 DEF Fresh, Corrects
<1>8. trust => lastEvent[b] > 0 OBVIOUS
<1> HIDE DEF content, trust
<1>9. TypeOK' BY <1>1, <1>3, <1>5 DEF IInv, TypeOK
<1>10. Database' BY <1>1, DatabaseStutters DEF IInv
<1>11. store'[b] = content /\ trusted'[b] = trust /\ loading'[b] = Nothing
  BY <1>1 DEF IInv, TypeOK
<1>12. Browser(b)'
  <2>1. Shows(b)' BY <1>1, <1>6, <1>7, <1>8, <1>11 DEF Shows
  <2>2. Answers(b)' BY <1>1 DEF IInv, Browser, Answers, Known
  <2>3. Loads(b)' BY <1>11 DEF Loads
  <2> QED BY <2>1, <2>2, <2>3 DEF Browser
<1>13. ASSUME NEW x \in Browsers, x # b PROVE Browser(x)'
  BY <1>1, <1>13, BrowserStutters DEF IInv, TypeOK
<1> QED BY <1>9, <1>10, <1>12, <1>13 DEF IInv

LEMMA PollKeeps ==
  ASSUME IInv, NEW b \in Browsers, Poll(b)
  PROVE  IInv'
<1> DEFINE message == [events |-> After(lastEvent[b]), rows |-> rows]
<1>1. /\ lastEvent[b] > 0
      /\ answer' = [answer EXCEPT ![b] = message]
      /\ UNCHANGED <<rows, gone, log, nextId, open, lastEvent, loading, store, trusted, late>>
  BY DEF Poll, dbVars
<1>2. After(lastEvent[b]) = Behind(log, lastEvent[b]) BY DEF After, Behind
<1>3. Behind(log, lastEvent[b]) \subseteq log BY DEF Behind
<1>4. message \in [events : SUBSET Event, rows : Contents] BY <1>2, <1>3 DEF IInv, TypeOK
<1>5. message.events = Behind(log, lastEvent[b]) /\ message.rows = rows BY <1>2
<1> HIDE DEF message
<1>6. TypeOK' BY <1>1, <1>4 DEF IInv, TypeOK
<1>7. Database' BY <1>1, DatabaseStutters DEF IInv
<1>8. answer'[b] = message BY <1>1 DEF IInv, TypeOK
<1>9. Browser(b)'
  <2>1. Shows(b)' BY <1>1 DEF IInv, Browser, Shows
  <2>2. Loads(b)' BY <1>1 DEF IInv, Browser, Loads
  <2>3. Answers(b)' BY <1>1, <1>5, <1>8, SeenHere DEF Answers
  <2> QED BY <2>1, <2>2, <2>3 DEF Browser
<1>10. ASSUME NEW x \in Browsers, x # b PROVE Browser(x)'
  BY <1>1, <1>10, BrowserStutters DEF IInv, TypeOK
<1> QED BY <1>6, <1>7, <1>9, <1>10 DEF IInv

\* The store after the records: what they bring is as new as the answer, and for
\* what they leave alone the event that will correct it is still to come.
LEMMA AppliedFresh ==
  ASSUME IInv, NEW b \in Browsers, answer[b] # Nothing, trusted[b],
         NEW events, events = Handled(b, answer[b].events),
         NEW content, content = [e \in Entities |-> Applied(b, events, e)]
  PROVE  Fresh(content, rows, Behind(log, LastHandled(b, events)), late[b] \cup Foreign)
<1> DEFINE i == LastHandled(b, events)
<1>1. /\ i \in Nat /\ lastEvent[b] <= i /\ i <= Known(b)
      /\ \A v \in answer[b].events \ events : v.e \in Foreign \/ v.id > i
  BY HandledFacts DEF IInv, Browser
<1>2. Known(b) \in Nat BY KnownFacts DEF IInv, Browser
<1>3. /\ Fresh(answer[b].rows, rows, Behind(log, Known(b)), late[b] \cup Foreign)
      /\ \A v \in Behind(log, lastEvent[b]) \ answer[b].events :
           v.e \in late[b] \/ v.id > Known(b)
  BY DEF IInv, Browser, Answers
<1>4. Fresh(store[b], rows, Behind(log, lastEvent[b]), late[b] \cup Foreign)
  BY DEF IInv, Browser, Shows
<1>5. \A v \in log : v.id \in Nat BY DEF IInv, TypeOK, Event
<1> HIDE DEF i
<1>6. SUFFICES ASSUME NEW e \in Entities \ (late[b] \cup Foreign),
                      rows[e] # Absent, rows[e] # content[e]
               PROVE  \E v \in Behind(log, i) : Corrects(v, e, content)
  BY DEF Fresh, i
<1>7. content[e] = Applied(b, events, e) OBVIOUS
<1>8. CASE content[e] = answer[b].rows[e]
  <2>1. PICK v \in Behind(log, Known(b)) : Corrects(v, e, answer[b].rows)
    BY <1>3, <1>6, <1>8 DEF Fresh
  <2>2. v \in Behind(log, i) BY <1>1, <1>2, <1>5, <2>1 DEF Behind
  <2> QED BY <1>8, <2>1, <2>2 DEF Corrects
<1>9. CASE content[e] # answer[b].rows[e]
  <2>1. /\ content[e] = store[b][e]
        /\ ~\E v \in events : Corrects(v, e, store[b])
    BY <1>7, <1>9 DEF Applied, Corrects
  <2>2. PICK v \in Behind(log, lastEvent[b]) : Corrects(v, e, store[b])
    BY <1>4, <1>6, <2>1 DEF Fresh
  <2>3. v \in log /\ v \notin events /\ v.e = e BY <2>1, <2>2 DEF Behind, Corrects
  <2>4. v.id > i
    <3>1. CASE v \in answer[b].events BY <1>1, <1>6, <2>3, <3>1
    <3>2. CASE v \notin answer[b].events
      <4>1. v.id > Known(b) BY <1>3, <1>6, <2>2, <2>3, <3>2
      <4> QED BY <1>1, <1>2, <1>5, <2>3, <4>1
    <3> QED BY <3>1, <3>2
  <2> QED BY <2>1, <2>2, <2>3, <2>4 DEF Behind, Corrects
<1> QED BY <1>8, <1>9

LEMMA HandleKeeps ==
  ASSUME IInv, NEW b \in Browsers, HandleRecords(b)
  PROVE  IInv'
<1> DEFINE events == Handled(b, answer[b].events)
           content == [e \in Entities |-> Applied(b, events, e)]
           i == LastHandled(b, events)
<1>1. /\ answer[b] # Nothing
      /\ store' = [store EXCEPT ![b] = content]
      /\ lastEvent' = [lastEvent EXCEPT ![b] = i]
      /\ answer' = [answer EXCEPT ![b] = Nothing]
      /\ UNCHANGED <<rows, gone, log, nextId, open, loading, trusted, late>>
  BY DEF HandleRecords, dbVars
<1>2. i \in Nat /\ lastEvent[b] <= i BY <1>1, HandledFacts DEF IInv, Browser
<1>3. lastEvent[b] \in Nat /\ lastEvent[b] > 0 BY <1>1 DEF IInv, TypeOK, Browser, Answers
<1>4. \A e \in Entities : content[e] = answer[b].rows[e] \/ content[e] = store[b][e]
  BY DEF Applied
<1>5. store[b] \in Contents /\ answer[b].rows \in Contents BY <1>1 DEF IInv, TypeOK
<1>6. content \in Contents
  <2>1. \A e \in Entities : content[e] \in Versions BY <1>4, <1>5 DEF Contents
  <2> QED BY <2>1 DEF Contents
<1>7. Seen(content, rows, gone)
  <2>1. Seen(store[b], rows, gone) /\ Seen(answer[b].rows, rows, gone)
    BY <1>1 DEF IInv, Browser, Shows, Answers
  <2> HIDE DEF content
  <2> QED BY <1>4, <2>1 DEF Seen
<1>8. trusted[b] => Fresh(content, rows, Behind(log, i), late[b] \cup Foreign)
  BY <1>1, AppliedFresh
<1> HIDE DEF events, content, i
<1>9. TypeOK' BY <1>1, <1>2, <1>6 DEF IInv, TypeOK
<1>10. Database' BY <1>1, DatabaseStutters DEF IInv
<1>11. store'[b] = content /\ lastEvent'[b] = i /\ answer'[b] = Nothing
  BY <1>1 DEF IInv, TypeOK
<1>12. i > 0 BY <1>2, <1>3
<1>13. Shows(b)' BY <1>1, <1>7, <1>8, <1>11, <1>12 DEF Shows
<1>14. Answers(b)' BY <1>11 DEF Answers
\* Rows that were read before lastEvent moved will not be trusted.
<1>15. Loads(b)'
  <2> SUFFICES ASSUME loading[b] # Nothing PROVE Loads(b)' BY <1>1 DEF Loads
  <2>1. loading[b].after \in Nat BY DEF IInv, TypeOK
  <2>2. /\ Seen(loading[b].rows, rows, gone) /\ loading[b].after <= lastEvent[b]
        /\ lastEvent[b] = loading[b].after =>
             Fresh(loading[b].rows, rows, Behind(log, lastEvent[b]), late[b] \cup Foreign)
    BY <1>3 DEF IInv, Browser, Loads
  <2>3. loading[b].after <= i BY <1>2, <1>3, <2>1, <2>2
  <2>4. i = loading[b].after => i = lastEvent[b] BY <1>2, <1>3, <2>1, <2>2
  <2> QED BY <1>1, <1>11, <2>2, <2>3, <2>4 DEF Loads
<1>16. ASSUME NEW x \in Browsers, x # b PROVE Browser(x)'
  BY <1>1, <1>16, BrowserStutters DEF IInv, TypeOK
<1> QED BY <1>9, <1>10, <1>13, <1>14, <1>15, <1>16 DEF IInv, Browser

-----------------------------------------------------------------------------

LEMMA Initially == Init => IInv
<1> SUFFICES ASSUME Init PROVE IInv OBVIOUS
<1>1. rows \in Contents BY DEF Init, Contents, Versions, Absent
<1>2. \A b \in Browsers : store[b] = [e \in Entities |-> Absent] BY DEF Init
<1>3. TypeOK BY <1>1, <1>2 DEF Init, TypeOK, Contents, Versions, Absent
<1>4. Database BY DEF Init, Database, NoEvent
<1>5. \A b \in Browsers : Browser(b)
  BY <1>2 DEF Init, Browser, Shows, Loads, Answers, Seen
<1> QED BY <1>3, <1>4, <1>5 DEF IInv

LEMMA StepKeeps == IInv /\ [Next]_vars => IInv'
<1> SUFFICES ASSUME IInv, [Next]_vars PROVE IInv' OBVIOUS
<1>1. ASSUME NEW w \in Writers, Commit(w) PROVE IInv'
  BY <1>1, CommitType, CommitKeeps DEF IInv
<1>2. ASSUME NEW w \in Writers, Rollback(w) PROVE IInv'
  <2>1. UNCHANGED <<rows, gone, log, lastEvent, answer, loading, store, trusted, late>>
    BY <1>2 DEF Rollback, browserVars
  <2> QED BY <1>2, <2>1, RollbackType, BrowserStutters DEF IInv
<1>3. ASSUME NEW w \in Writers, NEW e \in Entities, BeginFlush(w, e) PROVE IInv'
  <2>1. UNCHANGED <<rows, gone, log, lastEvent, answer, loading, store, trusted, late>>
    BY <1>3 DEF BeginFlush, browserVars
  <2> QED BY <1>3, <2>1, BeginFlushType, BrowserStutters DEF IInv
<1>4. ASSUME NEW e \in Entities, DeleteEntity(e) PROVE IInv'
  BY <1>4, DeleteType, EntityDeletedKeeps DEF IInv
<1>5. ASSUME NEW b \in Browsers, OpenMachine(b) PROVE IInv'
  <2>1. UNCHANGED <<rows, gone, log, nextId, open, lastEvent, answer, loading, store, trusted, late>>
    BY <1>5 DEF OpenMachine, dbVars
  <2>2. TypeOK' BY <2>1 DEF IInv, TypeOK
  <2> QED BY <2>1, <2>2, DatabaseStutters, BrowserStutters DEF IInv
<1>6. ASSUME UNCHANGED vars PROVE IInv'
  <2>1. UNCHANGED <<rows, gone, log, nextId, open, lastEvent, answer, loading, store, trusted, late>>
    BY <1>6 DEF vars, dbVars, browserVars
  <2>2. TypeOK' BY <2>1 DEF IInv, TypeOK
  <2> QED BY <2>1, <2>2, DatabaseStutters, BrowserStutters DEF IInv
<1> QED
  BY <1>1, <1>2, <1>3, <1>4, <1>5, <1>6, LaunchKeeps, ReadListKeeps, ShowListKeeps, PollKeeps,
     HandleKeeps DEF Next

LEMMA Correcting == IInv => NewsWaiting
<1> SUFFICES ASSUME IInv, NEW b \in Browsers, NEW e \in Entities, trusted[b],
                    e \notin late[b] \cup gone, Outdated(b, e)
             PROVE  \E v \in After(lastEvent[b]) :
                      v.e = e /\ (v.action = "insert" \/ store[b][e] # Absent)
  BY DEF NewsWaiting
<1>1. Fresh(store[b], rows, Behind(log, lastEvent[b]), late[b] \cup Foreign)
  BY DEF IInv, Browser, Shows
\* The list shows no row that never was.
<1>2. e \in Entities \ (late[b] \cup Foreign) /\ rows[e] # Absent /\ rows[e] # store[b][e]
  BY DEF Outdated, IInv, Browser, Shows, Seen
<1>3. PICK v \in Behind(log, lastEvent[b]) : Corrects(v, e, store[b]) BY <1>1, <1>2 DEF Fresh
<1>4. v \in After(lastEvent[b]) BY <1>3 DEF Behind, After
<1> QED BY <1>3, <1>4 DEF Corrects

\* For any rows, writers and browsers, and in whatever order transactions commit:
\* a list that was read behind the last event a browser knows, and that does not
\* show a row as it is, has an event coming that will correct it, unless the row
\* was deleted or its event appeared too late.
THEOREM ListsGetCorrected == Spec => []NewsWaiting
BY Initially, StepKeeps, Correcting, PTL DEF Spec

-----------------------------------------------------------------------------
(* Lists and the rows they hold.                                           *)

ElementsOf(list) == {list[k] : k \in DOMAIN list}

LEMMA Finite == \A S : Rows!Cardinality(S) = Cardinality(S) /\ (Rows!IsFiniteSet(S) <=> IsFiniteSet(S))
BY DEF Rows!Cardinality, Cardinality, Rows!IsFiniteSet, IsFiniteSet

LEMMA NumbersListed ==
  ASSUME NEW S \in SUBSET Nat, IsFiniteSet(S)
  PROVE  /\ Rows!Listed(S) \in Seq(S) /\ ElementsOf(Rows!Listed(S)) = S
         /\ \A i, j \in DOMAIN Rows!Listed(S) : Rows!Listed(S)[i] = Rows!Listed(S)[j] => i = j
         /\ Len(Rows!Listed(S)) = Cardinality(S)
<1> DEFINE n == Cardinality(S)
           l == Rows!Listed(S)
<1>1. n \in Nat BY FS_CardinalityType
<1>2. Listings(S) # {} BY ListingExists
<1>3. l \in [1 .. n -> S] /\ Sorted(l)
  <2>1. \E s \in [1 .. n -> S] : \A i, j \in DOMAIN s : i < j => s[i] < s[j]
    BY <1>2 DEF Listings, Sorted
  <2> HIDE DEF n
  <2>2. l = CHOOSE s \in [1 .. n -> S] : \A i, j \in DOMAIN s : i < j => s[i] < s[j]
    BY Finite DEF Rows!Listed, n
  <2> HIDE DEF l
  <2> QED BY <2>1, <2>2 DEF Sorted
<1> HIDE DEF n, l
<1>4. l \in Seq(S) /\ DOMAIN l = 1 .. n /\ Len(l) = n BY <1>1, <1>3
<1>5. \A i, j \in 1 .. n : l[i] = l[j] => i = j
  <2> SUFFICES ASSUME NEW i \in 1 .. n, NEW j \in 1 .. n, l[i] = l[j] PROVE i = j
    OBVIOUS
  <2>1. l[i] \in Nat /\ l[j] \in Nat BY <1>3
  <2>2. ~(i < j) /\ ~(j < i) BY <1>3, <2>1 DEF Sorted
  <2> QED BY <1>1, <2>2
<1>6. ElementsOf(l) = S
  <2>1. l \in Injection(1 .. n, S) BY <1>3, <1>5 DEF Injection, IsInjective
  <2>2. IsFiniteSet(1 .. n) /\ Cardinality(1 .. n) = n BY <1>1, FS_Interval
  <2>3. Cardinality(1 .. n) = Cardinality(S) BY <2>2 DEF n
  <2>4. l \in Surjection(1 .. n, S) BY <2>1, <2>2, <2>3, FS_Injection
  <2>5. \A y \in S : \E x \in 1 .. n : l[x] = y BY <2>4 DEF Surjection
  <2> QED BY <1>3, <1>4, <2>5 DEF ElementsOf
<1> QED BY <1>4, <1>5, <1>6 DEF n, l

\* What three lists in a row have at each place.
InRow(all, a, b, c) ==
  /\ DOMAIN all = 1 .. Len(a) + Len(b) + Len(c)
  /\ \A k \in DOMAIN all :
       \/ k \in DOMAIN a /\ all[k] = a[k]
       \/ k - Len(a) \in DOMAIN b /\ all[k] = b[k - Len(a)]
       \/ k - Len(a) - Len(b) \in DOMAIN c /\ all[k] = c[k - Len(a) - Len(b)]
  /\ \A k \in DOMAIN c : /\ Len(a) + Len(b) + k \in DOMAIN all
                         /\ all[Len(a) + Len(b) + k] = c[k]
  /\ c # <<>> => all # <<>>

\* Two lists in a row.
LEMMA TwoLists ==
  ASSUME NEW S, NEW a \in Seq(S), NEW b \in Seq(S)
  PROVE  /\ a \o b \in Seq(S)
         /\ Len(a \o b) = Len(a) + Len(b)
         /\ \A k \in 1 .. Len(a \o b) : (a \o b)[k] = IF k <= Len(a) THEN a[k] ELSE b[k - Len(a)]
OBVIOUS

\* Three lists in a row.
LEMMA ThreeLists ==
  ASSUME NEW S, NEW a \in Seq(S), NEW b \in Seq(S), NEW c \in Seq(S)
  PROVE  a \o b \o c \in Seq(S) /\ InRow(a \o b \o c, a, b, c)
<1> DEFINE ab == a \o b
<1>1. ab \in Seq(S) /\ Len(ab) = Len(a) + Len(b) BY TwoLists
<1>2. \A k \in 1 .. Len(ab) : ab[k] = IF k <= Len(a) THEN a[k] ELSE b[k - Len(a)] BY TwoLists
<1> HIDE DEF ab
<1>3. ab \o c \in Seq(S) /\ Len(ab \o c) = Len(ab) + Len(c) BY <1>1, TwoLists
<1>4. \A k \in 1 .. Len(ab \o c) : (ab \o c)[k] = IF k <= Len(ab) THEN ab[k] ELSE c[k - Len(ab)]
  BY <1>1, TwoLists
<1>5. Len(a) \in Nat /\ Len(b) \in Nat /\ Len(c) \in Nat OBVIOUS
<1>6. DOMAIN (ab \o c) = 1 .. Len(a) + Len(b) + Len(c) BY <1>1, <1>3
<1>7. DOMAIN a = 1 .. Len(a) /\ DOMAIN b = 1 .. Len(b) /\ DOMAIN c = 1 .. Len(c) OBVIOUS
<1>8. ASSUME NEW k \in DOMAIN (ab \o c)
      PROVE  \/ k \in DOMAIN a /\ (ab \o c)[k] = a[k]
             \/ k - Len(a) \in DOMAIN b /\ (ab \o c)[k] = b[k - Len(a)]
             \/ k - Len(a) - Len(b) \in DOMAIN c /\ (ab \o c)[k] = c[k - Len(a) - Len(b)]
  <2>1. k \in 1 .. Len(ab \o c) /\ k \in Int BY <1>3
  <2>2. CASE k <= Len(a) BY <2>1, <2>2, <1>1, <1>2, <1>3, <1>4, <1>5, <1>7
  <2>3. CASE k > Len(a) /\ k <= Len(ab) BY <2>1, <2>3, <1>1, <1>2, <1>3, <1>4, <1>5, <1>7
  <2>4. CASE k > Len(ab)
    <3>1. k - Len(ab) = k - Len(a) - Len(b) BY <1>1, <1>5, <2>1
    <3> QED BY <3>1, <2>1, <2>4, <1>1, <1>3, <1>4, <1>5, <1>7
  <2> QED BY <2>1, <2>2, <2>3, <2>4, <1>1, <1>5
<1>9. ASSUME NEW k \in DOMAIN c
      PROVE  /\ Len(a) + Len(b) + k \in DOMAIN (ab \o c)
             /\ (ab \o c)[Len(a) + Len(b) + k] = c[k]
  <2>1. k \in 1 .. Len(c) BY <1>7
  <2>2. Len(a) + Len(b) + k \in 1 .. Len(ab \o c) BY <2>1, <1>1, <1>3, <1>5
  <2>3. ~(Len(a) + Len(b) + k <= Len(ab)) /\ Len(a) + Len(b) + k - Len(ab) = k
    BY <2>1, <1>1, <1>5
  <2> QED BY <2>2, <2>3, <1>3, <1>4
<1>10. c # <<>> => ab \o c # <<>>
  <2>1. c # <<>> => Len(c) > 0 BY <1>5
  <2> QED BY <2>1, <1>1, <1>3, <1>5
<1>11. ab \o c \in Seq(S) /\ InRow(ab \o c, a, b, c) BY <1>3, <1>6, <1>8, <1>9, <1>10 DEF InRow
<1> QED BY <1>11 DEF ab

-----------------------------------------------------------------------------

LEMMA OpFacts ==
  ASSUME NEW o, NEW i, NEW v
  PROVE  /\ Rows!Op(o, i, v).op = o /\ Rows!Op(o, i, v).id = i /\ Rows!Op(o, i, v).value = v
         /\ o \in {"create", "update", "destroy", "load", "drbd"} /\ i \in Nat /\ v \in Rows!Cells =>
              Rows!Op(o, i, v) \in Rows!Operations
BY DEF Rows!Op, Rows!Operations

Destroyed(ops) == {ops[k].id : k \in {j \in DOMAIN ops : ops[j].op = "destroy"}}
Once(ops, i) ==
  \A j, k \in DOMAIN ops : /\ ops[j].op = "destroy" /\ ops[j].id = i
                           /\ ops[k].op = "destroy" /\ ops[k].id = i
                           => j = k

LEMMA CreatesFacts ==
  ASSUME NEW s \in Rows!Contents, IsFiniteSet(Rows!Refs(s))
  PROVE  /\ Rows!Creates(s) \in Seq(Rows!Operations)
         /\ \A k \in DOMAIN Rows!Creates(s) : Rows!Creates(s)[k].op = "create"
         /\ Len(Rows!Creates(s)) = Cardinality(Rows!Refs(s))
<1> DEFINE refs == Rows!Listed(Rows!Refs(s))
<1>1. Rows!Refs(s) \in SUBSET Nat BY DEF Rows!Contents, Rows!Refs
<1>2. refs \in Seq(Nat) /\ Len(refs) = Cardinality(Rows!Refs(s)) BY <1>1, NumbersListed
<1>3. \A k \in DOMAIN refs : refs[k] \in Rows!Refs(s) BY <1>1, NumbersListed
<1> HIDE DEF refs
<1>4. ASSUME NEW ref \in Rows!Refs(s) PROVE Rows!NewValue(s, ref) \in Rows!Cells
  <2>1. \E r \in s.new : r.ref = ref BY DEF Rows!Refs
  <2>2. (CHOOSE r \in s.new : r.ref = ref) \in s.new BY <2>1
  <2> QED BY <2>2 DEF Rows!NewValue, Rows!Contents, Rows!Cells
<1>5. \A k \in DOMAIN refs :
        Rows!Op("create", refs[k], Rows!NewValue(s, refs[k])) \in Rows!Operations
  BY <1>2, <1>3, <1>4, OpFacts
<1>6. Rows!Creates(s) = [k \in DOMAIN refs |-> Rows!Op("create", refs[k], Rows!NewValue(s, refs[k]))]
  BY DEF Rows!Creates, refs
<1>7. DOMAIN refs = 1 .. Len(refs) /\ Len(refs) \in Nat BY <1>2
<1>8. Rows!Creates(s) \in Seq(Rows!Operations) /\ Len(Rows!Creates(s)) = Len(refs)
  BY <1>5, <1>6, <1>7
<1> QED BY <1>2, <1>6, <1>8, OpFacts

LEMMA UpdatesFacts ==
  ASSUME NEW s \in Rows!Contents
  PROVE  /\ Rows!Updates(s) \in Seq(Rows!Operations)
         /\ \A k \in DOMAIN Rows!Updates(s) : Rows!Updates(s)[k].op = "update"
         /\ Len(Rows!Updates(s)) = Cardinality(s.dirty)
<1> DEFINE ids == Rows!Listed(s.dirty)
<1>1. s.dirty \in SUBSET Nat /\ IsFiniteSet(s.dirty) /\ s.dirty \subseteq Ids
  BY WebappAssumption, FS_Subset DEF Rows!Contents
<1>2. ids \in Seq(Nat) /\ Len(ids) = Cardinality(s.dirty) BY <1>1, NumbersListed
<1>3. \A k \in DOMAIN ids : ids[k] \in s.dirty BY <1>1, NumbersListed
<1> HIDE DEF ids
<1>4. \A k \in DOMAIN ids : s.rows[ids[k]] \in Rows!Cells BY <1>1, <1>3 DEF Rows!Contents
<1>5. \A k \in DOMAIN ids : Rows!Op("update", ids[k], s.rows[ids[k]]) \in Rows!Operations
  BY <1>2, <1>4, OpFacts
<1>6. Rows!Updates(s) = [k \in DOMAIN ids |-> Rows!Op("update", ids[k], s.rows[ids[k]])]
  BY DEF Rows!Updates, ids
<1>7. DOMAIN ids = 1 .. Len(ids) /\ Len(ids) \in Nat BY <1>2
<1>8. Rows!Updates(s) \in Seq(Rows!Operations) /\ Len(Rows!Updates(s)) = Len(ids)
  BY <1>5, <1>6, <1>7
<1> QED BY <1>2, <1>6, <1>8, OpFacts

LEMMA DeletesFacts ==
  ASSUME NEW s \in Rows!Contents
  PROVE  /\ Rows!Deletes(s) \in Seq(Rows!Operations)
         /\ \A k \in DOMAIN Rows!Deletes(s) : Rows!Deletes(s)[k].op = "destroy"
         /\ \A j, k \in DOMAIN Rows!Deletes(s) :
              Rows!Deletes(s)[j].id = Rows!Deletes(s)[k].id => j = k
         /\ {Rows!Deletes(s)[k].id : k \in DOMAIN Rows!Deletes(s)} = s.removed
         /\ Len(Rows!Deletes(s)) = Cardinality(s.removed)
<1> DEFINE ids == Rows!Listed(s.removed)
<1>1. s.removed \in SUBSET Nat /\ IsFiniteSet(s.removed)
  BY WebappAssumption, FS_Subset DEF Rows!Contents
<1>2. ids \in Seq(Nat) /\ Len(ids) = Cardinality(s.removed) BY <1>1, NumbersListed
<1>3. ElementsOf(ids) = s.removed /\ \A i, j \in DOMAIN ids : ids[i] = ids[j] => i = j
  BY <1>1, NumbersListed
<1> HIDE DEF ids
<1>4. 0 \in Rows!Cells BY DEF Rows!Cells
<1>5. \A k \in DOMAIN ids : Rows!Op("destroy", ids[k], 0) \in Rows!Operations
  BY <1>2, <1>4, OpFacts
<1>6. Rows!Deletes(s) = [k \in DOMAIN ids |-> Rows!Op("destroy", ids[k], 0)]
  BY DEF Rows!Deletes, ids
<1>7. DOMAIN ids = 1 .. Len(ids) /\ Len(ids) \in Nat BY <1>2
<1>8. Rows!Deletes(s) \in Seq(Rows!Operations) /\ Len(Rows!Deletes(s)) = Len(ids)
  BY <1>5, <1>6, <1>7
<1>9. DOMAIN Rows!Deletes(s) = DOMAIN ids /\ \A k \in DOMAIN ids :
        Rows!Deletes(s)[k].op = "destroy" /\ Rows!Deletes(s)[k].id = ids[k]
  BY <1>6, OpFacts
<1>10. {Rows!Deletes(s)[k].id : k \in DOMAIN Rows!Deletes(s)} = ElementsOf(ids)
  BY <1>9 DEF ElementsOf
<1> QED BY <1>2, <1>3, <1>8, <1>9, <1>10

\* A sync sends one DELETE for each record that was removed.
LEMMA OpsFacts ==
  ASSUME NEW s \in Rows!Contents, IsFiniteSet(Rows!Refs(s))
  PROVE  /\ Rows!Ops(s) \in Seq(Rows!Operations)
         /\ Destroyed(Rows!Ops(s)) = s.removed
         /\ \A i : Once(Rows!Ops(s), i)
         /\ Rows!Refs(s) # {} \/ s.dirty # {} \/ s.removed # {} => Rows!Ops(s) # <<>>
<1> DEFINE a == Rows!Creates(s)
           b == Rows!Updates(s)
           c == Rows!Deletes(s)
           all == a \o b \o c
<1>1. /\ a \in Seq(Rows!Operations) /\ b \in Seq(Rows!Operations) /\ c \in Seq(Rows!Operations)
      /\ \A k \in DOMAIN a : a[k].op = "create"
      /\ \A k \in DOMAIN b : b[k].op = "update"
      /\ \A k \in DOMAIN c : c[k].op = "destroy"
      /\ \A j, k \in DOMAIN c : c[j].id = c[k].id => j = k
      /\ {c[k].id : k \in DOMAIN c} = s.removed
      /\ Len(a) = Cardinality(Rows!Refs(s)) /\ Len(b) = Cardinality(s.dirty)
      /\ Len(c) = Cardinality(s.removed)
  BY CreatesFacts, UpdatesFacts, DeletesFacts
<1>2. Rows!Ops(s) = all BY DEF Rows!Ops
<1> HIDE DEF a, b, c
<1>3. all \in Seq(Rows!Operations) /\ InRow(all, a, b, c) BY <1>1, ThreeLists
<1> HIDE DEF all
<1>4. \A k \in DOMAIN all : all[k].op = "destroy" =>
        k - Len(a) - Len(b) \in DOMAIN c /\ all[k] = c[k - Len(a) - Len(b)]
  BY <1>1, <1>3 DEF InRow
<1>5. Destroyed(all) = s.removed
  <2>1. \A x \in Destroyed(all) : x \in s.removed BY <1>1, <1>4 DEF Destroyed
  <2>2. ASSUME NEW k \in DOMAIN c PROVE c[k].id \in Destroyed(all)
    <3>1. PICK m \in DOMAIN all : all[m] = c[k] BY <1>3 DEF InRow
    <3>2. all[m].op = "destroy" /\ all[m].id = c[k].id BY <1>1, <3>1
    <3> QED BY <3>2 DEF Destroyed
  <2>3. \A x \in s.removed : \E k \in DOMAIN c : x = c[k].id BY <1>1
  <2>4. \A x \in s.removed : x \in Destroyed(all) BY <2>2, <2>3
  <2> QED BY <2>1, <2>4
<1>6. ASSUME NEW i PROVE Once(all, i)
  <2> SUFFICES ASSUME NEW j \in DOMAIN all, NEW k \in DOMAIN all,
                      all[j].op = "destroy", all[k].op = "destroy", all[j].id = i, all[k].id = i
               PROVE  j = k
    BY DEF Once
  <2>1. j - Len(a) - Len(b) = k - Len(a) - Len(b) BY <1>1, <1>4
  <2>2. j \in Int /\ k \in Int /\ Len(a) \in Nat /\ Len(b) \in Nat BY <1>1, <1>3 DEF InRow
  <2> QED BY <2>1, <2>2
<1>7. Rows!Refs(s) # {} \/ s.dirty # {} \/ s.removed # {} => Len(a) + Len(b) + Len(c) > 0
  <2>1. IsFiniteSet(s.dirty) /\ IsFiniteSet(s.removed)
    BY WebappAssumption, FS_Subset DEF Rows!Contents
  <2>2. \A S : IsFiniteSet(S) /\ S # {} => Cardinality(S) # 0 BY FS_EmptySet
  <2>3. Len(a) \in Nat /\ Len(b) \in Nat /\ Len(c) \in Nat BY <1>1
  <2> QED BY <1>1, <2>1, <2>2, <2>3
<1>8. Len(a) + Len(b) + Len(c) > 0 => all # <<>>
  <2>1. Len(a) \in Nat /\ Len(b) \in Nat /\ Len(c) \in Nat BY <1>1
  <2>2. Len(a) + Len(b) + Len(c) > 0 => 1 \in DOMAIN all BY <1>3, <2>1 DEF InRow
  <2> QED BY <2>2
<1> QED BY <1>2, <1>3, <1>5, <1>6, <1>7, <1>8

-----------------------------------------------------------------------------
(* Requests.                                                               *)

LEMMA RequestFacts ==
  ASSUME NEW r \in Rows!Requests
  PROVE  /\ r.ops \in Seq(Rows!Operations) /\ r.ops # <<>> /\ Len(r.ops) \in Nat \ {0}
         /\ DOMAIN r.ops = 1 .. Len(r.ops) /\ 1 \in DOMAIN r.ops /\ r.ops[1] \in Rows!Operations
         /\ Rows!Destroys(r) = Destroyed(r.ops)
         /\ r.ops[1].op = "destroy" => r.ops[1].id \in Destroyed(r.ops)
<1>1. r.ops \in Seq(Rows!Operations) /\ r.ops # <<>> BY DEF Rows!Requests
<1>2. Len(r.ops) \in Nat \ {0} /\ DOMAIN r.ops = 1 .. Len(r.ops) BY <1>1
<1>3. 1 \in DOMAIN r.ops /\ r.ops[1] \in Rows!Operations BY <1>1, <1>2
<1>4. Rows!Destroys(r) = Destroyed(r.ops) BY DEF Rows!Destroys, Destroyed
<1>5. r.ops[1].op = "destroy" => r.ops[1].id \in Destroyed(r.ops) BY <1>3 DEF Destroyed
<1> QED BY <1>1, <1>2, <1>3, <1>4, <1>5

\* A request that is crossed is the same but for that.
SameOps(q, r) ==
  /\ q.ops = r.ops /\ q.served = r.served /\ Rows!Destroys(q) = Rows!Destroys(r)
  /\ Rows!Unserved(q) = Rows!Unserved(r)

LEMMA CrossedFacts ==
  ASSUME NEW r \in Rows!Requests
  PROVE  Rows!Crossed(r) \in Rows!Requests /\ ~Rows!Crossed(r).clean /\ SameOps(Rows!Crossed(r), r)
<1>1. Rows!Crossed(r) \in Rows!Requests /\ ~Rows!Crossed(r).clean
  BY DEF Rows!Crossed, Rows!Requests
<1>2. Rows!Crossed(r).ops = r.ops /\ Rows!Crossed(r).served = r.served
  BY DEF Rows!Crossed, Rows!Requests
<1>3. Rows!Destroys(Rows!Crossed(r)) = Rows!Destroys(r) BY <1>2 DEF Rows!Destroys
<1>4. Rows!Unserved(Rows!Crossed(r)) = Rows!Unserved(r) BY <1>2 DEF Rows!Unserved
<1> QED BY <1>1, <1>2, <1>3, <1>4 DEF SameOps

LEMMA UnservedFacts ==
  ASSUME NEW r \in Rows!Requests
  PROVE  /\ Rows!Unserved(r) \subseteq Destroyed(r.ops)
         /\ ~r.served => Rows!Unserved(r) = Destroyed(r.ops)
BY DEF Rows!Unserved, Destroyed

LEMMA NewRequest ==
  ASSUME Rows!DataOK, NEW ops \in Seq(Rows!Operations), ops # <<>>
  PROVE  /\ Rows!Request(ops) \in Rows!Requests /\ Rows!Request(ops).ops = ops
         /\ ~Rows!Request(ops).served /\ ~Rows!Request(ops).orphan
         /\ Rows!Request(ops).clean = (requests = {})
         /\ Rows!Destroys(Rows!Request(ops)) = Destroyed(ops)
         /\ Rows!Unserved(Rows!Request(ops)) = Destroyed(ops)
<1> DEFINE q == Rows!Request(ops)
<1>1. /\ q \in Rows!Requests /\ q.ops = ops /\ ~q.served /\ ~q.orphan
      /\ q.clean = (requests = {})
  BY DEF Rows!Request, Rows!Requests, Rows!DataOK
<1> HIDE DEF q
<1>2. Rows!Destroys(q) = Destroyed(ops) BY <1>1, RequestFacts
<1>3. Rows!Unserved(q) = Destroyed(ops) BY <1>1, UnservedFacts
<1> QED BY <1>1, <1>2, <1>3 DEF q

-----------------------------------------------------------------------------
(* Steps that ask the server for nothing.                                  *)

Grows == confirms' \in [Ids -> Nat] /\ \A i \in Ids : confirms'[i] >= confirms[i]

LEMMA QuietKeeps ==
  ASSUME Rows!ListInv, UNCHANGED <<server, rowStore, requests, tries, excused, sure, asked>>,
         Grows, Rows!FormsOK'
  PROVE  Rows!ListInv'
<1>1. Rows!DataOK' BY DEF Rows!ListInv, Rows!DataOK, Grows
<1>2. ASSUME NEW i \in Ids \ excused' PROVE Rows!Confirmed(i)'
  <2>1. Rows!Confirmed(i) BY <1>2 DEF Rows!ListInv
  <2>2. tries[i] \in Nat /\ confirms[i] \in Nat /\ confirms'[i] \in Nat /\ confirms'[i] >= confirms[i]
    BY <1>2 DEF Rows!ListInv, Rows!DataOK, Grows
  <2>3. tries'[i] <= confirms'[i] BY <2>1, <2>2 DEF Rows!Confirmed
  <2>4. (\E r \in requests : i \in Rows!Unserved(r)) => tries[i] < confirms'[i]
    BY <2>1, <2>2 DEF Rows!Confirmed
  <2> QED BY <2>1, <2>3, <2>4 DEF Rows!Confirmed
<1>3. server' = server /\ rowStore' = rowStore OBVIOUS
<1>4. ASSUME NEW r, Rows!Brings(r) PROVE Rows!Brings(r)'
  BY <1>3, <1>4 DEF Rows!Brings
<1>5. Rows!Agreeing' BY <1>4 DEF Rows!ListInv, Rows!Agreeing, Rows!Alone
<1> QED BY <1>1, <1>2, <1>5 DEF Rows!ListInv

-----------------------------------------------------------------------------
(* Steps that ask for something.                                           *)

LEMMA AskKeepsData ==
  ASSUME Rows!DataOK, NEW ops \in Seq(Rows!Operations), ops # <<>>, Destroyed(ops) \subseteq Ids,
         Rows!Ask(ops), UNCHANGED <<server, tries>>, Grows,
         rowStore' \in Rows!Contents, IsFiniteSet(Rows!Refs(rowStore'))
  PROVE  Rows!DataOK'
<1>1. \A r \in requests : r \in Rows!Requests /\ Rows!Destroys(r) \subseteq Ids BY DEF Rows!DataOK
<1>2. \A q \in requests' : q = Rows!Request(ops) \/ \E r \in requests : q = Rows!Crossed(r)
  BY DEF Rows!Ask
<1>3. requests' \in SUBSET Rows!Requests BY <1>1, <1>2, NewRequest, CrossedFacts
<1>4. ASSUME NEW q \in requests' PROVE Rows!Destroys(q) \subseteq Ids
  BY <1>1, <1>2, NewRequest, CrossedFacts DEF SameOps
<1>5. excused' \in SUBSET Ids
  <2>1. excused' = excused \cup UNION {Rows!Destroys(r) : r \in requests} BY DEF Rows!Ask
  <2> QED BY <1>1, <2>1 DEF Rows!DataOK
<1>6. sure' \in BOOLEAN /\ asked' \in Nat BY DEF Rows!Ask, Rows!DataOK
<1> HIDE DEF Rows!Ask
<1>7. Rows!IsFiniteSet(Rows!Refs(rowStore))' BY Finite
<1>8. server' = server /\ tries' = tries OBVIOUS
<1>9. \A r \in requests' : Rows!Destroys(r)' = Rows!Destroys(r) BY DEF Rows!Destroys
<1> QED BY <1>3, <1>4, <1>5, <1>6, <1>7, <1>8, <1>9 DEF Rows!DataOK, Grows

LEMMA AskKeepsConfirmed ==
  ASSUME Rows!DataOK, NEW ops \in Seq(Rows!Operations), ops # <<>>, Rows!Ask(ops),
         NEW i \in Ids \ excused', Rows!Confirmed(i), Once(ops, i), tries' = tries, Grows,
         i \in Destroyed(ops) => tries[i] < confirms'[i],
         i \in rowStore'.removed => i \in Destroyed(ops)
  PROVE  Rows!Confirmed(i)'
<1> DEFINE new == Rows!Request(ops)
<1>1. \A r \in requests : i \notin Rows!Destroys(r) BY DEF Rows!Ask
<1>2. requests' = {Rows!Crossed(r) : r \in requests} \cup {new} BY DEF Rows!Ask
<1>3. \A r \in requests : r \in Rows!Requests BY DEF Rows!DataOK
<1>4. /\ new \in requests' /\ new.ops = ops /\ Rows!Destroys(new) = Destroyed(ops)
      /\ Rows!Unserved(new) = Destroyed(ops) /\ new \in Rows!Requests
  BY <1>2, NewRequest
<1> HIDE DEF new
<1>5. \A q \in requests' : i \in Rows!Destroys(q) => q = new
  BY <1>1, <1>2, <1>3, CrossedFacts DEF SameOps
<1>6. \A q \in requests' : q \in Rows!Requests BY <1>2, <1>3, <1>4, CrossedFacts
<1>7. \A q \in requests' : i \in Rows!Unserved(q) => q = new
  BY <1>5, <1>6, UnservedFacts, RequestFacts
<1>8. ASSUME NEW q \in requests' PROVE Once(q.ops, i)
  <2>1. CASE i \in Rows!Destroys(q) BY <1>4, <1>5, <2>1
  <2>2. CASE i \notin Rows!Destroys(q) BY <2>2 DEF Once, Rows!Destroys
  <2> QED BY <2>1, <2>2
<1>9. tries[i] \in Nat /\ confirms[i] \in Nat /\ confirms'[i] \in Nat /\ confirms'[i] >= confirms[i]
  BY DEF Rows!DataOK, Grows
<1>10. tries'[i] <= confirms'[i] BY <1>9 DEF Rows!Confirmed
<1>11. (\E q \in requests' : i \in Rows!Unserved(q)) => tries'[i] < confirms'[i] BY <1>4, <1>7
<1>12. i \in rowStore'.removed => \E q \in requests' : i \in Rows!Destroys(q) BY <1>4
<1> QED BY <1>5, <1>8, <1>10, <1>11, <1>12 DEF Rows!Confirmed, Once

\* A request that crosses no other is clean, and the others are so no more.
LEMMA AskKeepsAlone ==
  ASSUME Rows!DataOK, NEW ops \in Seq(Rows!Operations), ops # <<>>, Rows!Ask(ops)
  PROVE  \A q \in requests' : q.clean => /\ q = Rows!Request(ops) /\ requests = {}
                                         /\ Rows!Alone(q)'
<1> SUFFICES ASSUME NEW q \in requests', q.clean
             PROVE  q = Rows!Request(ops) /\ requests = {} /\ Rows!Alone(q)'
  OBVIOUS
<1>1. requests' = {Rows!Crossed(r) : r \in requests} \cup {Rows!Request(ops)} BY DEF Rows!Ask
<1>2. \A r \in requests : r \in Rows!Requests BY DEF Rows!DataOK
<1>3. q = Rows!Request(ops) BY <1>1, <1>2, CrossedFacts
<1>4. requests = {} BY <1>3, NewRequest
<1>5. requests' = {q} BY <1>1, <1>3, <1>4
<1>6. ~q.orphan /\ ~q.served BY <1>3, NewRequest
<1> QED BY <1>3, <1>4, <1>5, <1>6 DEF Rows!Alone

LEMMA AskKeeps ==
  ASSUME Rows!ListInv, NEW ops \in Seq(Rows!Operations), ops # <<>>, Destroyed(ops) \subseteq Ids,
         \A i : Once(ops, i), Rows!Ask(ops), UNCHANGED <<server, tries>>, Grows, Rows!FormsOK',
         rowStore' \in Rows!Contents, IsFiniteSet(Rows!Refs(rowStore')),
         rowStore'.removed \subseteq rowStore.removed \cup Destroyed(ops),
         \A i \in Destroyed(ops) : i \in rowStore.removed \/ confirms'[i] > confirms[i],
         \A q : q = Rows!Request(ops) /\ sure /\ requests = {} => Rows!Brings(q)'
  PROVE  Rows!ListInv'
<1>1. Rows!DataOK /\ Rows!DataOK' BY AskKeepsData DEF Rows!ListInv
<1>2. ASSUME NEW i \in Ids, i \notin excused' PROVE Rows!Confirmed(i)'
  <2>1. i \notin excused /\ \A r \in requests : i \notin Rows!Destroys(r) BY <1>2 DEF Rows!Ask
  <2>2. Rows!Confirmed(i) BY <2>1 DEF Rows!ListInv
  <2>3. i \notin rowStore.removed BY <2>1, <2>2 DEF Rows!Confirmed
  <2>4. i \in rowStore'.removed => i \in Destroyed(ops) BY <2>3
  <2>5. i \in Destroyed(ops) => tries[i] < confirms'[i]
    <3>1. i \in Destroyed(ops) => confirms'[i] > confirms[i] BY <2>3
    <3>2. tries[i] <= confirms[i] BY <2>2 DEF Rows!Confirmed
    <3>3. tries[i] \in Nat /\ confirms[i] \in Nat /\ confirms'[i] \in Nat BY <1>1 DEF Rows!DataOK
    <3> QED BY <3>1, <3>2, <3>3
  <2>6. tries' = tries OBVIOUS
  <2> QED BY <1>1, <1>2, <2>2, <2>4, <2>5, <2>6, AskKeepsConfirmed
<1>3. Rows!Agreeing'
  <2>1. \A q \in requests' : q.clean => Rows!Alone(q)' BY <1>1, AskKeepsAlone
  <2>2. ASSUME sure' PROVE requests' # {} /\ \E q \in requests' : q.clean /\ Rows!Brings(q)'
    <3>1. sure /\ requests = {} BY <2>2 DEF Rows!Ask
    <3>2. PICK q : q = Rows!Request(ops) OBVIOUS
    <3>3. q \in requests' /\ q.clean BY <1>1, <3>1, <3>2, NewRequest DEF Rows!Ask
    <3>4. Rows!Brings(q)' BY <3>1, <3>2
    <3> QED BY <3>3, <3>4
  <2> QED BY <2>1, <2>2 DEF Rows!Agreeing
<1> QED BY <1>1, <1>2, <1>3 DEF Rows!ListInv

LEMMA SingleOp ==
  ASSUME NEW o \in {"load", "drbd", "create", "update"}, NEW i \in Nat, NEW v \in Rows!Cells
  PROVE  LET ops == <<Rows!Op(o, i, v)>>
         IN /\ ops \in Seq(Rows!Operations) /\ ops # <<>> /\ ops[1].op = o
            /\ Destroyed(ops) = {} /\ \A j : Once(ops, j)
<1> DEFINE op == Rows!Op(o, i, v)
<1>1. op \in Rows!Operations /\ op.op = o BY OpFacts
<1> HIDE DEF op
<1>2. <<op>> \in Seq(Rows!Operations) /\ <<op>> # <<>> /\ <<op>>[1] = op BY <1>1
<1>3. \A k \in DOMAIN <<op>> : <<op>>[k].op # "destroy" BY <1>1
<1>4. Destroyed(<<op>>) = {} BY <1>3 DEF Destroyed
<1>5. \A j : Once(<<op>>, j) BY <1>3 DEF Once
<1> QED BY <1>1, <1>2, <1>4, <1>5 DEF op

\* Loads change nothing yet.
LEMMA LoadKeeps ==
  ASSUME Rows!ListInv, NEW o \in {"load", "drbd"}, Rows!Ask(<<Rows!Op(o, 0, 0)>>),
         UNCHANGED <<server, rowStore, tries, confirms>>, Rows!FormsOK'
  PROVE  Rows!ListInv'
<1>1. PICK ops : ops = <<Rows!Op(o, 0, 0)>> OBVIOUS
<1>2. /\ ops \in Seq(Rows!Operations) /\ ops # <<>> /\ ops[1].op = o
      /\ Destroyed(ops) = {} /\ \A j : Once(ops, j)
  BY <1>1, SingleOp DEF Rows!Cells
<1>3. Grows BY DEF Grows, Rows!ListInv, Rows!DataOK
<1>4. rowStore' \in Rows!Contents /\ IsFiniteSet(Rows!Refs(rowStore'))
  BY Finite DEF Rows!ListInv, Rows!DataOK
<1>5. ASSUME NEW q, q = Rows!Request(ops), sure, requests = {} PROVE Rows!Brings(q)'
  <2>1. q.ops[1].op \in {"load", "drbd"} BY <1>2, <1>5, NewRequest DEF Rows!ListInv
  <2>2. rowStore' = Rows!Loaded(server'.rows) BY <1>5 DEF Rows!ListInv, Rows!Agreeing
  <2> QED BY <2>1, <2>2 DEF Rows!Brings, Rows!Loaded
<1>6. Rows!Ask(ops) BY <1>1
<1> QED BY <1>2, <1>3, <1>4, <1>5, <1>6, AskKeeps

-----------------------------------------------------------------------------
(* Changes of the store, and what a sync sends after one.                  *)

LEMMA LoadedFacts ==
  ASSUME NEW rows0 \in [Ids -> Rows!Cells]
  PROVE  /\ Rows!Loaded(rows0) \in Rows!Contents /\ Rows!Refs(Rows!Loaded(rows0)) = {}
         /\ Rows!Loaded(rows0).rows = rows0 /\ Rows!Loaded(rows0).new = {}
         /\ Rows!Loaded(rows0).dirty = {} /\ Rows!Loaded(rows0).removed = {}
BY DEF Rows!Loaded, Rows!Contents, Rows!Refs

LEMMA AddedFacts ==
  ASSUME NEW s \in Rows!Contents, IsFiniteSet(Rows!Refs(s)), NEW value \in Values, NEW ref \in Nat
  PROVE  LET t == Rows!Added(s, value, ref)
         IN /\ t \in Rows!Contents /\ IsFiniteSet(Rows!Refs(t)) /\ Rows!Refs(t) = Rows!Refs(s) \cup {ref}
            /\ t.new = s.new \cup {[ref |-> ref, value |-> value]}
            /\ t.rows = s.rows /\ t.dirty = s.dirty /\ t.removed = s.removed
<1> DEFINE t == Rows!Added(s, value, ref)
<1>1. /\ t \in Rows!Contents /\ t.new = s.new \cup {[ref |-> ref, value |-> value]}
      /\ t.rows = s.rows /\ t.dirty = s.dirty /\ t.removed = s.removed
  BY DEF Rows!Added, Rows!Contents
<1> HIDE DEF t
<1>2. Rows!Refs(t) = Rows!Refs(s) \cup {ref}
  <2>1. [ref |-> ref, value |-> value].ref = ref OBVIOUS
  <2>2. \A x \in Rows!Refs(t) : x \in Rows!Refs(s) \cup {ref} BY <1>1, <2>1 DEF Rows!Refs
  <2>3. \A r \in s.new : r.ref \in Rows!Refs(t) BY <1>1 DEF Rows!Refs
  <2>4. \A x \in Rows!Refs(s) : x \in Rows!Refs(t) BY <2>3 DEF Rows!Refs
  <2>5. ref \in Rows!Refs(t) BY <1>1, <2>1 DEF Rows!Refs
  <2> QED BY <2>2, <2>4, <2>5
<1>3. IsFiniteSet(Rows!Refs(t)) BY <1>2, FS_AddElement
<1> QED BY <1>1, <1>2, <1>3 DEF t

LEMMA EditedFacts ==
  ASSUME NEW s \in Rows!Contents, NEW value \in Values, NEW id \in Ids
  PROVE  LET t == Rows!Edited(s, id, value)
         IN /\ t \in Rows!Contents /\ Rows!Refs(t) = Rows!Refs(s)
            /\ t.new = s.new /\ t.rows = [s.rows EXCEPT ![id] = value]
            /\ t.dirty = s.dirty \cup {id} /\ t.removed = s.removed
BY DEF Rows!Edited, Rows!Contents, Rows!Refs, Rows!Cells

\* The store t is the rows, with one of them changed.
OneEdited(t, rows0, id, value) ==
  /\ t \in Rows!Contents /\ t.rows = [rows0 EXCEPT ![id] = value]
  /\ t.new = {} /\ t.dirty = {id} /\ t.removed = {}

LEMMA EditedRows ==
  ASSUME NEW rows0 \in [Ids -> Rows!Cells], NEW value \in Values, NEW id \in Ids
  PROVE  OneEdited(Rows!Edited(Rows!Loaded(rows0), id, value), rows0, id, value)
<1> DEFINE t == Rows!Edited(Rows!Loaded(rows0), id, value)
<1>1. PICK s : s = Rows!Loaded(rows0) OBVIOUS
<1>2. /\ s \in Rows!Contents /\ s.rows = rows0 /\ s.new = {} /\ s.dirty = {} /\ s.removed = {}
  BY <1>1, LoadedFacts
<1>3. t = Rows!Edited(s, id, value) BY <1>1
<1> HIDE DEF t
<1>4. /\ t \in Rows!Contents /\ t.new = s.new /\ t.rows = [s.rows EXCEPT ![id] = value]
      /\ t.dirty = s.dirty \cup {id} /\ t.removed = s.removed
  BY ZenonT(40), <1>2, <1>3, EditedFacts
<1>5. OneEdited(t, rows0, id, value) BY <1>2, <1>4 DEF OneEdited
<1> QED BY <1>5 DEF t

LEMMA EditedLoaded ==
  ASSUME NEW rows0 \in [Ids -> Rows!Cells], NEW rows1 \in [Ids -> Rows!Cells],
         NEW value \in Values, NEW id \in Ids
  PROVE  [rows0 EXCEPT ![id] = value] = [rows1 EXCEPT ![id] = value] =>
           Rows!Edited(Rows!Loaded(rows0), id, value) = Rows!Edited(Rows!Loaded(rows1), id, value)
<1>1. PICK e : e = Rows!Edited(Rows!Loaded(rows0), id, value) OBVIOUS
<1>2. PICK f : f = Rows!Edited(Rows!Loaded(rows1), id, value) OBVIOUS
<1>3. OneEdited(e, rows0, id, value) BY <1>1, EditedRows
<1>4. OneEdited(f, rows1, id, value) BY <1>2, EditedRows
<1>5. ASSUME [rows0 EXCEPT ![id] = value] = [rows1 EXCEPT ![id] = value] PROVE e = f
  <2>1. e.rows = f.rows BY <1>3, <1>4, <1>5 DEF OneEdited
  <2> QED BY <1>3, <1>4, <2>1 DEF OneEdited, Rows!Contents
<1> QED BY <1>1, <1>2, <1>5

LEMMA RemovedFacts ==
  ASSUME NEW s \in Rows!Contents, NEW ids \in SUBSET Ids
  PROVE  LET t == Rows!Removed(s, ids)
         IN /\ t \in Rows!Contents /\ Rows!Refs(t) = Rows!Refs(s)
            /\ t.new = s.new /\ t.rows = Rows!Less(s.rows, ids)
            /\ t.dirty = s.dirty \ ids /\ t.removed = s.removed \cup ids
BY DEF Rows!Removed, Rows!Contents, Rows!Refs, Rows!Cells, Rows!Less

LEMMA FewListed ==
  /\ Rows!Listed({}) = <<>>
  /\ \A x \in Nat : Rows!Listed({x}) = <<x>>
<1>1. Rows!Listed({}) = <<>>
  <2>1. IsFiniteSet({}) /\ Cardinality({}) = 0 BY FS_EmptySet
  <2> QED BY <2>1, NumbersListed
<1>2. ASSUME NEW x \in Nat PROVE Rows!Listed({x}) = <<x>>
  <2>1. IsFiniteSet({x}) /\ Cardinality({x}) = 1 BY FS_Singleton
  <2>2. Rows!Listed({x}) \in Seq({x}) /\ Len(Rows!Listed({x})) = 1 BY <2>1, NumbersListed
  <2>3. PICK list : list = Rows!Listed({x}) OBVIOUS
  <2>4. list[1] = x /\ DOMAIN list = {1} BY <2>2, <2>3
  <2>5. list = <<x>> BY <2>2, <2>3, <2>4
  <2> QED BY <2>3, <2>5
<1> QED BY <1>1, <1>2

LEMMA SentWhenAdded ==
  ASSUME NEW rows0 \in [Ids -> Rows!Cells], NEW value \in Values, NEW ref \in Nat
  PROVE  Rows!Ops(Rows!Added(Rows!Loaded(rows0), value, ref)) = <<Rows!Op("create", ref, value)>>
<1> DEFINE t == Rows!Added(Rows!Loaded(rows0), value, ref)
<1>1. /\ t.new = {[ref |-> ref, value |-> value]} /\ Rows!Refs(t) = {ref}
      /\ t.dirty = {} /\ t.removed = {}
  BY LoadedFacts, AddedFacts, FS_EmptySet
<1> HIDE DEF t
<1>2. Rows!NewValue(t, ref) = value
  <2> DEFINE new == [ref |-> ref, value |-> value]
  <2>1. new.ref = ref /\ new.value = value OBVIOUS
  <2> HIDE DEF new
  <2>2. t.new = {new} BY <1>1 DEF new
  <2>3. \E r \in t.new : r.ref = ref BY <2>1, <2>2
  <2>4. (CHOOSE r \in t.new : r.ref = ref) \in t.new BY <2>3
  <2> QED BY <2>1, <2>2, <2>4 DEF Rows!NewValue
<1>3. Rows!Creates(t) = <<Rows!Op("create", ref, value)>>
  BY <1>1, <1>2, FewListed DEF Rows!Creates
<1>4. Rows!Updates(t) = <<>> /\ Rows!Deletes(t) = <<>>
  BY <1>1, FewListed DEF Rows!Updates, Rows!Deletes
<1> QED BY <1>3, <1>4 DEF Rows!Ops, t

LEMMA SentWhenEdited ==
  ASSUME NEW rows0 \in [Ids -> Rows!Cells], NEW value \in Values, NEW id \in Ids
  PROVE  Rows!Ops(Rows!Edited(Rows!Loaded(rows0), id, value)) = <<Rows!Op("update", id, value)>>
<1> DEFINE t == Rows!Edited(Rows!Loaded(rows0), id, value)
<1>1. Rows!Refs(t) = {} /\ t.dirty = {id} /\ t.removed = {} /\ t.rows[id] = value
  <2>1. PICK s : s = Rows!Loaded(rows0) OBVIOUS
  <2>2. s \in Rows!Contents /\ Rows!Refs(s) = {} /\ s.dirty = {} /\ s.removed = {} /\ s.rows = rows0
    BY <2>1, LoadedFacts
  <2>3. t = Rows!Edited(s, id, value) BY <2>1
  <2> HIDE DEF t
  <2>4. /\ Rows!Refs(t) = Rows!Refs(s) /\ t.rows = [s.rows EXCEPT ![id] = value]
        /\ t.dirty = s.dirty \cup {id} /\ t.removed = s.removed
    BY <2>2, <2>3, EditedFacts
  <2>5. [rows0 EXCEPT ![id] = value][id] = value OBVIOUS
  <2> QED BY <2>2, <2>4, <2>5
<1> HIDE DEF t
<1>2. id \in Nat BY WebappAssumption
<1>3. Rows!Updates(t) = <<Rows!Op("update", id, value)>>
  BY <1>1, <1>2, FewListed DEF Rows!Updates
<1>4. Rows!Creates(t) = <<>> /\ Rows!Deletes(t) = <<>>
  BY <1>1, FewListed DEF Rows!Creates, Rows!Deletes
<1> QED BY <1>3, <1>4 DEF Rows!Ops, t

LEMMA SentWhenRemoved ==
  ASSUME NEW rows0 \in [Ids -> Rows!Cells], NEW ids \in SUBSET Ids
  PROVE  LET t == Rows!Removed(Rows!Loaded(rows0), ids)
         IN \A k \in DOMAIN Rows!Ops(t) : Rows!Ops(t)[k].op = "destroy"
<1> DEFINE t == Rows!Removed(Rows!Loaded(rows0), ids)
<1>1. t \in Rows!Contents /\ Rows!Refs(t) = {} /\ t.dirty = {} BY LoadedFacts, RemovedFacts
<1> HIDE DEF t
<1>2. Rows!Creates(t) = <<>> /\ Rows!Updates(t) = <<>>
  BY <1>1, FewListed DEF Rows!Creates, Rows!Updates
<1>3. Rows!Deletes(t) \in Seq(Rows!Operations) BY <1>1, DeletesFacts
<1>4. Rows!Ops(t) = Rows!Deletes(t) BY <1>2, <1>3 DEF Rows!Ops
<1>5. \A k \in DOMAIN Rows!Ops(t) : Rows!Ops(t)[k].op = "destroy" BY <1>1, <1>4, DeletesFacts
<1> QED BY <1>5 DEF t

\* A change of the store and its sync.
LEMMA SyncKeeps ==
  ASSUME Rows!ListInv, NEW s \in Rows!Contents, IsFiniteSet(Rows!Refs(s)),
         Rows!Refs(s) # {} \/ s.dirty # {} \/ s.removed # {},
         Rows!Sync(s), UNCHANGED <<server, tries>>, Grows, Rows!FormsOK',
         rowStore.removed \subseteq s.removed,
         \A i \in s.removed \ rowStore.removed : confirms'[i] > confirms[i],
         \A q : q = Rows!Request(Rows!Ops(s)) /\ rowStore = Rows!Loaded(server.rows)
                  => Rows!Brings(q)'
  PROVE  Rows!ListInv'
<1>1. PICK ops : ops = Rows!Ops(s) OBVIOUS
<1>2. /\ ops \in Seq(Rows!Operations) /\ Destroyed(ops) = s.removed /\ \A i : Once(ops, i)
      /\ ops # <<>>
  BY <1>1, OpsFacts
<1>3. rowStore' = s /\ Rows!Ask(ops) BY <1>1, <1>2 DEF Rows!Sync
<1>4. Destroyed(ops) \subseteq Ids BY <1>2 DEF Rows!Contents
<1>5. \A i \in Destroyed(ops) : i \in rowStore.removed \/ confirms'[i] > confirms[i] BY <1>2
<1>6. ASSUME NEW q, q = Rows!Request(ops), sure, requests = {} PROVE Rows!Brings(q)'
  <2>1. rowStore = Rows!Loaded(server.rows) BY <1>6 DEF Rows!ListInv, Rows!Agreeing
  <2> QED BY <1>1, <1>6, <2>1
<1>7. rowStore'.removed \subseteq rowStore.removed \cup Destroyed(ops) BY <1>2, <1>3
<1> QED BY <1>2, <1>3, <1>4, <1>5, <1>6, <1>7, AskKeeps

LEMMA AddKeeps ==
  ASSUME Rows!ListInv, NEW value \in Values, Rows!Sync(Rows!Added(rowStore, value, asked)),
         UNCHANGED <<server, tries, confirms>>, Rows!FormsOK'
  PROVE  Rows!ListInv'
<1>1. PICK s : s = Rows!Added(rowStore, value, asked) OBVIOUS
<1>2. rowStore \in Rows!Contents /\ IsFiniteSet(Rows!Refs(rowStore)) /\ asked \in Nat
  BY Finite DEF Rows!ListInv, Rows!DataOK
<1>3. /\ s \in Rows!Contents /\ IsFiniteSet(Rows!Refs(s)) /\ asked \in Rows!Refs(s)
      /\ s.removed = rowStore.removed /\ s.rows = rowStore.rows
      /\ [ref |-> asked, value |-> value] \in s.new
  BY <1>1, <1>2, AddedFacts
<1>4. Grows BY DEF Grows, Rows!ListInv, Rows!DataOK
<1>5. ASSUME NEW q, q = Rows!Request(Rows!Ops(s)), rowStore = Rows!Loaded(server.rows)
      PROVE  Rows!Brings(q)'
  <2>1. server.rows \in [Ids -> Rows!Cells] BY DEF Rows!ListInv, Rows!DataOK
  <2>2. PICK new : new = [ref |-> asked, value |-> value] OBVIOUS
  <2>3. new \in s.new /\ new.ref = asked /\ new.value = value BY <1>3, <2>2
  <2>4. Rows!Ops(s) = <<Rows!Op("create", new.ref, new.value)>>
    BY <1>1, <1>2, <1>5, <2>1, <2>3, SentWhenAdded
  <2>5. <<Rows!Op("create", new.ref, new.value)>> \in Seq(Rows!Operations)
    BY <1>2, <2>3, SingleOp DEF Rows!Cells
  <2>6. q.ops = <<Rows!Op("create", new.ref, new.value)>> /\ ~q.served
    BY <1>5, <2>4, <2>5, NewRequest DEF Rows!ListInv
  <2>7. rowStore' = s BY <1>1 DEF Rows!Sync
  <2>8. s.rows = server.rows BY <1>3, <1>5, <2>1, LoadedFacts
  <2>9. s = Rows!Added(Rows!Loaded(s.rows), new.value, new.ref) BY <1>1, <1>5, <2>3, <2>8
  <2>10. server'.rows = s.rows BY <2>8
  <2> QED BY <2>3, <2>6, <2>7, <2>9, <2>10 DEF Rows!Brings, Rows!Added, Rows!Loaded, Rows!Op
<1>6. Rows!Sync(s) BY <1>1
<1> QED BY <1>3, <1>4, <1>5, <1>6, SyncKeeps

LEMMA EditKeeps ==
  ASSUME Rows!ListInv, NEW value \in Values, NEW id \in Ids, Rows!Sync(Rows!Edited(rowStore, id, value)),
         UNCHANGED <<server, tries, confirms>>, Rows!FormsOK'
  PROVE  Rows!ListInv'
<1>1. PICK s : s = Rows!Edited(rowStore, id, value) OBVIOUS
<1>2. rowStore \in Rows!Contents /\ IsFiniteSet(Rows!Refs(rowStore))
  BY Finite DEF Rows!ListInv, Rows!DataOK
<1>3. /\ s \in Rows!Contents /\ IsFiniteSet(Rows!Refs(s)) /\ id \in s.dirty
      /\ s.removed = rowStore.removed
  <2>1. /\ s \in Rows!Contents /\ Rows!Refs(s) = Rows!Refs(rowStore)
        /\ s.dirty = rowStore.dirty \cup {id} /\ s.removed = rowStore.removed
    BY <1>1, <1>2, EditedFacts
  <2> QED BY <1>2, <2>1
<1>4. Grows BY DEF Grows, Rows!ListInv, Rows!DataOK
<1>5. ASSUME NEW q, q = Rows!Request(Rows!Ops(s)), rowStore = Rows!Loaded(server.rows)
      PROVE  Rows!Brings(q)'
  <2>1. server.rows \in [Ids -> Rows!Cells] BY DEF Rows!ListInv, Rows!DataOK
  <2>2. Rows!Ops(s) = <<Rows!Op("update", id, value)>> BY <1>1, <1>5, <2>1, SentWhenEdited
  <2>3. id \in Nat BY WebappAssumption
  <2>4. <<Rows!Op("update", id, value)>> \in Seq(Rows!Operations)
    BY <2>3, SingleOp DEF Rows!Cells
  <2>5. q.ops = <<Rows!Op("update", id, value)>> /\ ~q.served
    BY <1>5, <2>2, <2>4, NewRequest DEF Rows!ListInv
  <2>6. rowStore' = s BY <1>1 DEF Rows!Sync
  <2>7. s = Rows!Edited(Rows!Loaded(server'.rows), id, value) BY <1>1, <1>5
  <2> QED BY <2>5, <2>6, <2>7 DEF Rows!Brings, Rows!Edited, Rows!Loaded, Rows!Op
<1>6. Rows!Sync(s) BY <1>1
<1> QED BY <1>3, <1>4, <1>5, <1>6, SyncKeeps

LEMMA RemoveKeeps ==
  ASSUME Rows!ListInv, NEW ids \in SUBSET Ids, ids # {}, Rows!Sync(Rows!Removed(rowStore, ids)),
         UNCHANGED <<server, tries>>, Grows, \A i \in ids : confirms'[i] > confirms[i],
         Rows!FormsOK'
  PROVE  Rows!ListInv'
<1>1. PICK s : s = Rows!Removed(rowStore, ids) OBVIOUS
<1>2. rowStore \in Rows!Contents /\ IsFiniteSet(Rows!Refs(rowStore))
  BY Finite DEF Rows!ListInv, Rows!DataOK
<1>3. /\ s \in Rows!Contents /\ IsFiniteSet(Rows!Refs(s))
      /\ s.removed = rowStore.removed \cup ids /\ s.rows = Rows!Less(rowStore.rows, ids)
      /\ s.new = rowStore.new /\ s.dirty = rowStore.dirty \ ids
  BY <1>1, <1>2, RemovedFacts
<1>4. ASSUME NEW q, q = Rows!Request(Rows!Ops(s)), rowStore = Rows!Loaded(server.rows)
      PROVE  Rows!Brings(q)'
  <2>1. server.rows \in [Ids -> Rows!Cells] BY DEF Rows!ListInv, Rows!DataOK
  <2>2. PICK ops : ops = Rows!Ops(s) OBVIOUS
  <2>3. \A k \in DOMAIN ops : ops[k].op = "destroy" BY <1>1, <1>4, <2>1, <2>2, SentWhenRemoved
  <2>4. ops \in Seq(Rows!Operations) /\ Destroyed(ops) = s.removed /\ ops # <<>>
    BY <1>3, <2>2, OpsFacts
  <2>5. q.ops = ops /\ Rows!Unserved(q) = s.removed
    BY <1>4, <2>2, <2>4, NewRequest DEF Rows!ListInv
  <2>6. /\ rowStore.rows = server.rows /\ rowStore.new = {} /\ rowStore.dirty = {}
        /\ rowStore.removed = {}
    BY <1>4, <2>1, LoadedFacts
  <2>7. /\ s.removed = ids /\ s.rows = Rows!Less(server.rows, Rows!Unserved(q))
        /\ s.new = {} /\ s.dirty = {}
    BY <1>3, <2>5, <2>6
  <2>8. s = [Rows!Loaded(Rows!Less(server.rows, Rows!Unserved(q))) EXCEPT !.removed = s.removed]
    BY <1>3, <2>7 DEF Rows!Loaded, Rows!Contents
  <2>9. rowStore' = s /\ server' = server BY <1>1 DEF Rows!Sync
  <2>10. Rows!Unserved(q)' = Rows!Unserved(q) BY DEF Rows!Unserved
  <2>11. rowStore' = [Rows!Loaded(Rows!Less(server'.rows, Rows!Unserved(q))) EXCEPT !.removed = rowStore'.removed]
    BY <2>8, <2>9
  <2> QED BY <2>3, <2>5, <2>10, <2>11 DEF Rows!Brings, Rows!Loaded, Rows!Less
<1>5. Rows!Sync(s) BY <1>1
<1> QED BY <1>3, <1>4, <1>5, SyncKeeps

-----------------------------------------------------------------------------
(* The server.                                                             *)

\* The request r after an operation was served.
Served(r, q) ==
  /\ ~r.served
  /\ requests' = (requests \ {r}) \cup {q}
  /\ q \in Rows!Requests /\ q.ops = r.ops /\ q.served /\ q.clean = r.clean /\ q.orphan = r.orphan
  /\ tries' = [i \in Ids |-> IF r.ops[1].op = "destroy" /\ i = r.ops[1].id THEN tries[i] + 1
                             ELSE tries[i]]
  /\ server' \in [rows : [Ids -> Rows!Cells], next : Nat] /\ q.rows = server'.rows
  /\ q.ok /\ r.ops[1].op \in {"load", "drbd"} => server'.rows = server.rows
  /\ q.ok /\ r.ops[1].op = "destroy" =>
       server'.rows = [server.rows EXCEPT ![r.ops[1].id] = Rows!Absent]
  /\ q.ok /\ r.ops[1].op = "create" => server'.rows = [server.rows EXCEPT ![q.id] = r.ops[1].value]
  /\ q.ok /\ r.ops[1].op = "update" =>
       server'.rows = [server.rows EXCEPT ![r.ops[1].id] = r.ops[1].value]
  /\ UNCHANGED <<rowStore, window, question, marked, confirms, excused, sure, asked>>

LEMMA ServeFacts ==
  ASSUME Rows!ListInv, NEW r \in requests, Rows!Serve(r)
  PROVE  \E q : Served(r, q)
<1> DEFINE op == r.ops[1]
           id == IF op.op = "create" THEN server.next ELSE op.id
           Can == op.op \in {"update", "destroy"} => server.rows[id] # Rows!Absent
           After0(ok) == CASE ok /\ op.op = "destroy" -> [server.rows EXCEPT ![id] = Rows!Absent]
                           [] ok /\ op.op \in {"create", "update"} ->
                                [server.rows EXCEPT ![id] = op.value]
                           [] OTHER -> server.rows
<1>1. PICK ok \in BOOLEAN :
        /\ server' = [rows |-> After0(ok), next |-> server.next
                                              + (IF op.op = "create" /\ ok THEN 1 ELSE 0)]
        /\ requests' = (requests \ {r}) \cup
             {[r EXCEPT !.served = TRUE, !.ok = ok, !.id = id, !.rows = After0(ok)]}
  BY DEF Rows!Serve
<1>2. r \in Rows!Requests /\ op \in Rows!Operations BY RequestFacts DEF Rows!ListInv, Rows!DataOK
<1>3. server \in [rows : [Ids -> Rows!Cells], next : Nat] BY DEF Rows!ListInv, Rows!DataOK
<1>4. op.id \in Nat /\ op.value \in Rows!Cells
      /\ op.op \in {"create", "update", "destroy", "load", "drbd"}
  BY <1>2 DEF Rows!Operations
<1>5. id \in Nat BY <1>3, <1>4
<1>6. /\ ~r.served
      /\ tries' = [i \in Ids |-> IF op.op = "destroy" /\ i = id THEN tries[i] + 1 ELSE tries[i]]
      /\ UNCHANGED <<rowStore, window, question, marked, confirms, excused, sure, asked>>
  BY DEF Rows!Serve
<1>7. PICK q : q = [r EXCEPT !.served = TRUE, !.ok = ok, !.id = id, !.rows = After0(ok)] OBVIOUS
<1>8. op.op # "create" => id = op.id OBVIOUS
<1>9. op.op = "create" \/ id = op.id OBVIOUS
<1>10. After0(ok) \in [Ids -> Rows!Cells] BY <1>3, <1>4 DEF Rows!Cells
<1>11. /\ ~ok \/ op.op \in {"load", "drbd"} => After0(ok) = server.rows
       /\ ok /\ op.op = "destroy" => After0(ok) = [server.rows EXCEPT ![id] = Rows!Absent]
       /\ ok /\ op.op \in {"create", "update"} => After0(ok) = [server.rows EXCEPT ![id] = op.value]
  <2> HIDE DEF op, id
  <2>1. ~ok \/ op.op \in {"load", "drbd"} => After0(ok) = server.rows OBVIOUS
  <2>2. ASSUME ok, op.op = "destroy" PROVE After0(ok) = [server.rows EXCEPT ![id] = Rows!Absent]
    BY <2>2
  <2>3. ASSUME ok, op.op \in {"create", "update"}
        PROVE  After0(ok) = [server.rows EXCEPT ![id] = op.value]
    BY <2>3
  <2> QED BY <2>1, <2>2, <2>3
<1> HIDE DEF id, Can, After0
<1>12. /\ q \in Rows!Requests /\ q.ops = r.ops /\ q.served /\ q.clean = r.clean
       /\ q.orphan = r.orphan /\ q.ok = ok /\ q.id = id /\ q.rows = After0(ok)
  BY <1>2, <1>5, <1>7, <1>10 DEF Rows!Requests
<1>13. server'.rows = After0(ok) /\ server' \in [rows : [Ids -> Rows!Cells], next : Nat]
  BY <1>1, <1>3, <1>10
<1>14. requests' = (requests \ {r}) \cup {q} BY <1>1, <1>7
<1>15. tries' = [i \in Ids |-> IF op.op = "destroy" /\ i = op.id THEN tries[i] + 1 ELSE tries[i]]
  BY <1>6, <1>8
<1>16. Served(r, q) BY <1>6, <1>8, <1>11, <1>12, <1>13, <1>14, <1>15 DEF Served
<1> QED BY <1>16

LEMMA FirstServed ==
  ASSUME NEW r \in Rows!Requests, NEW q \in Rows!Requests, q.ops = r.ops, ~r.served, q.served
  PROVE  /\ Rows!Destroys(q) = Rows!Destroys(r) /\ Rows!Unserved(r) = Rows!Destroys(r)
         /\ Rows!Unserved(q) \subseteq Rows!Unserved(r)
         /\ r.ops[1].op = "destroy" =>
              /\ r.ops[1].id \in Rows!Unserved(r)
              /\ Rows!Unserved(r) = Rows!Unserved(q) \cup {r.ops[1].id}
              /\ Once(r.ops, r.ops[1].id) => r.ops[1].id \notin Rows!Unserved(q)
         /\ r.ops[1].op # "destroy" => Rows!Unserved(q) = Rows!Unserved(r)
<1>1. Rows!Destroys(q) = Destroyed(r.ops) /\ Rows!Destroys(r) = Destroyed(r.ops) BY RequestFacts
<1>2. Rows!Unserved(r) = Destroyed(r.ops) BY UnservedFacts
<1>3. Rows!Unserved(q) \subseteq Destroyed(r.ops) BY UnservedFacts
<1>4. DOMAIN r.ops = 1 .. Len(r.ops) /\ Len(r.ops) \in Nat \ {0} /\ 1 \in DOMAIN r.ops
  BY RequestFacts
<1>5. \A x : x \in Rows!Unserved(q) <=>
               \E k \in DOMAIN r.ops : k > 1 /\ r.ops[k].op = "destroy" /\ r.ops[k].id = x
  BY DEF Rows!Unserved
<1>6. \A x : x \in Destroyed(r.ops) <=>
               \E k \in DOMAIN r.ops : r.ops[k].op = "destroy" /\ r.ops[k].id = x
  BY DEF Destroyed
<1>7. \A k \in DOMAIN r.ops : k = 1 \/ k > 1 BY <1>4
<1>8. ASSUME r.ops[1].op = "destroy"
      PROVE  /\ r.ops[1].id \in Destroyed(r.ops)
             /\ Destroyed(r.ops) = Rows!Unserved(q) \cup {r.ops[1].id}
             /\ Once(r.ops, r.ops[1].id) => r.ops[1].id \notin Rows!Unserved(q)
  <2>1. r.ops[1].id \in Destroyed(r.ops) BY <1>4, <1>6, <1>8
  <2>2. \A x \in Destroyed(r.ops) : x \in Rows!Unserved(q) \cup {r.ops[1].id}
    BY <1>5, <1>6, <1>7
  <2>3. ASSUME Once(r.ops, r.ops[1].id), r.ops[1].id \in Rows!Unserved(q) PROVE FALSE
    <3>1. PICK k \in DOMAIN r.ops : k > 1 /\ r.ops[k].op = "destroy" /\ r.ops[k].id = r.ops[1].id
      BY <1>5, <2>3
    <3> QED BY <1>4, <1>8, <2>3, <3>1 DEF Once
  <2> QED BY <1>3, <2>1, <2>2, <2>3
<1>9. ASSUME r.ops[1].op # "destroy" PROVE Destroyed(r.ops) \subseteq Rows!Unserved(q)
  BY <1>5, <1>6, <1>7, <1>9
<1> QED BY <1>1, <1>2, <1>3, <1>8, <1>9

LEMMA ServeKeepsConfirmed ==
  ASSUME Rows!ListInv, NEW r \in requests, NEW q, Served(r, q), NEW i \in Ids \ excused
  PROVE  Rows!Confirmed(i)'
<1>1. \A x \in requests : x \in Rows!Requests BY DEF Rows!ListInv, Rows!DataOK
<1>2. Rows!Confirmed(i) BY DEF Rows!ListInv
<1>3. requests' = (requests \ {r}) \cup {q} /\ q \in Rows!Requests /\ q.ops = r.ops
      /\ ~r.served /\ q.served /\ rowStore' = rowStore /\ confirms' = confirms
  BY DEF Served
<1>4. /\ Rows!Destroys(q) = Rows!Destroys(r) /\ Rows!Unserved(q) \subseteq Rows!Unserved(r)
      /\ r.ops[1].op = "destroy" => r.ops[1].id \in Rows!Unserved(r)
      /\ r.ops[1].op = "destroy" /\ Once(r.ops, r.ops[1].id) =>
           r.ops[1].id \notin Rows!Unserved(q)
      /\ Rows!Unserved(r) = Rows!Destroys(r)
  BY <1>1, <1>3, FirstServed
<1>5. ASSUME NEW x \in requests', NEW y \in requests', i \in Rows!Destroys(x), i \in Rows!Destroys(y)
      PROVE  x = y
  <2>1. x = q \/ x \in requests \ {r} BY <1>3
  <2>2. y = q \/ y \in requests \ {r} BY <1>3
  <2> QED BY <1>2, <1>4, <1>5, <2>1, <2>2 DEF Rows!Confirmed
<1>6. \A x \in requests' : Once(x.ops, i) BY <1>2, <1>3 DEF Rows!Confirmed, Once
<1>7. tries[i] \in Nat /\ confirms[i] \in Nat BY DEF Rows!ListInv, Rows!DataOK
<1>8. tries'[i] <= confirms'[i] /\ ((\E x \in requests' : i \in Rows!Unserved(x)) => tries'[i] < confirms'[i])
  <2>1. CASE r.ops[1].op = "destroy" /\ r.ops[1].id = i
    <3>1. tries'[i] = tries[i] + 1 BY <2>1 DEF Served
    <3>2. tries[i] < confirms[i] BY <1>2, <1>4, <2>1 DEF Rows!Confirmed
    <3>3. Once(r.ops, i) BY <1>2 DEF Rows!Confirmed, Once
    <3>4. i \notin Rows!Unserved(q) BY <1>4, <2>1, <3>3
    <3>5. ASSUME NEW x \in requests', i \in Rows!Unserved(x) PROVE FALSE
      <4>1. x \in requests /\ x # r BY <1>3, <3>4, <3>5
      <4>2. i \in Rows!Destroys(x) BY <1>1, <3>5, <4>1, UnservedFacts, RequestFacts
      <4>3. i \in Rows!Destroys(r) BY <1>4, <2>1
      <4> QED BY <1>2, <4>1, <4>2, <4>3 DEF Rows!Confirmed
    <3> QED BY <1>3, <1>7, <3>1, <3>2, <3>5
  <2>2. CASE ~(r.ops[1].op = "destroy" /\ r.ops[1].id = i)
    <3>1. tries'[i] = tries[i] BY <2>2 DEF Served
    <3>2. ASSUME NEW x \in requests', i \in Rows!Unserved(x)
          PROVE  \E y \in requests : i \in Rows!Unserved(y)
      BY <1>3, <1>4, <3>2
    <3> QED BY <1>2, <1>3, <3>1, <3>2 DEF Rows!Confirmed
  <2> QED BY <2>1, <2>2
<1>9. i \in rowStore'.removed => \E x \in requests' : i \in Rows!Destroys(x)
  BY <1>2, <1>3, <1>4 DEF Rows!Confirmed
<1> QED BY <1>5, <1>6, <1>8, <1>9 DEF Rows!Confirmed, Once

\* The server changes what the store was changed to.
LEMMA ServeBrings ==
  ASSUME Rows!ListInv, NEW r \in requests, NEW q, Served(r, q), Rows!Brings(r)
  PROVE  Rows!Brings(q)'
<1>1. /\ ~r.served /\ q.served /\ q.ops = r.ops /\ rowStore' = rowStore
      /\ q \in Rows!Requests /\ r \in Rows!Requests
  BY DEF Served, Rows!ListInv, Rows!DataOK
<1>2. server.rows \in [Ids -> Rows!Cells] BY DEF Rows!ListInv, Rows!DataOK
<1>3. CASE ~q.ok BY <1>1, <1>3 DEF Rows!Brings
<1>4. CASE q.ok /\ r.ops[1].op \in {"load", "drbd"} /\ rowStore = Rows!Loaded(server.rows)
  <2>1. server'.rows = server.rows BY <1>4 DEF Served
  <2> QED BY <1>1, <1>4, <2>1 DEF Rows!Brings, Rows!Loaded
<1>5. ASSUME q.ok, NEW new \in rowStore.new,
             r.ops = <<Rows!Op("create", new.ref, new.value)>>,
             rowStore = Rows!Added(Rows!Loaded(rowStore.rows), new.value, new.ref),
             server.rows = IF r.served THEN [rowStore.rows EXCEPT ![r.id] = new.value] ELSE rowStore.rows
      PROVE  Rows!Brings(q)'
  <2>1. r.ops[1].op = "create" /\ r.ops[1].value = new.value BY <1>5, OpFacts
  <2>2. server'.rows = [rowStore.rows EXCEPT ![q.id] = new.value] BY <1>1, <1>5, <2>1 DEF Served
  <2> QED BY <1>1, <1>5, <2>2 DEF Rows!Brings, Rows!Added, Rows!Loaded, Rows!Op
<1>6. ASSUME q.ok, NEW value \in Values, NEW id \in Ids,
             r.ops = <<Rows!Op("update", id, value)>>,
             rowStore = Rows!Edited(Rows!Loaded(server.rows), id, value),
             r.served => server.rows[id] = value
      PROVE  Rows!Brings(q)'
  <2>1. r.ops[1].op = "update" /\ r.ops[1].value = value /\ r.ops[1].id = id BY <1>6, OpFacts
  <2>2. server'.rows = [server.rows EXCEPT ![id] = value] BY <1>6, <2>1 DEF Served
  <2>3. [server.rows EXCEPT ![id] = value] = [server'.rows EXCEPT ![id] = value] BY <1>2, <2>2
  <2>31. server'.rows \in [Ids -> Rows!Cells] BY DEF Served
  <2>4. rowStore = Rows!Edited(Rows!Loaded(server'.rows), id, value)
    BY <1>2, <1>6, <2>3, <2>31, EditedLoaded
  <2>5. q.ops = <<Rows!Op("update", id, value)>> BY <1>1, <1>6
  <2>6. rowStore' = Rows!Edited(Rows!Loaded(server'.rows), id, value) BY <1>1, <2>4
  <2>7. server'.rows[id] = value BY <1>2, <2>2
  <2> QED BY <2>5, <2>6, <2>7 DEF Rows!Brings, Rows!Edited, Rows!Loaded, Rows!Op
<1>7. ASSUME q.ok, \A k \in DOMAIN r.ops : r.ops[k].op = "destroy",
             rowStore = [Rows!Loaded(Rows!Less(server.rows, Rows!Unserved(r))) EXCEPT
                           !.removed = rowStore.removed]
      PROVE  Rows!Brings(q)'
  <2>1. r.ops[1].op = "destroy" BY <1>1, <1>7, RequestFacts
  <2>2. server'.rows = [server.rows EXCEPT ![r.ops[1].id] = Rows!Absent] BY <1>7, <2>1 DEF Served
  <2>3. Rows!Unserved(r) = Rows!Unserved(q) \cup {r.ops[1].id} BY <1>1, <2>1, FirstServed
  <2>4. Rows!Less(server.rows, Rows!Unserved(r)) = Rows!Less(server'.rows, Rows!Unserved(q))
    BY <1>2, <2>2, <2>3 DEF Rows!Less
  <2>5. Rows!Unserved(q)' = Rows!Unserved(q) BY DEF Rows!Unserved
  <2>6. rowStore' = [Rows!Loaded(Rows!Less(server'.rows, Rows!Unserved(q))) EXCEPT
                       !.removed = rowStore'.removed]
    BY <1>1, <1>7, <2>4
  <2> QED BY <1>1, <1>7, <2>5, <2>6 DEF Rows!Brings, Rows!Loaded, Rows!Less
<1> QED BY <1>1, <1>3, <1>4, <1>5, <1>6, <1>7 DEF Rows!Brings

LEMMA ServeKeeps ==
  ASSUME Rows!ListInv, NEW r \in requests, Rows!Serve(r)
  PROVE  Rows!ListInv'
<1>1. PICK q : Served(r, q) BY ServeFacts
<1>2. /\ requests' = (requests \ {r}) \cup {q} /\ q \in Rows!Requests /\ q.ops = r.ops
      /\ q.clean = r.clean /\ q.orphan = r.orphan /\ q.served /\ ~r.served
      /\ UNCHANGED <<rowStore, window, question, marked, confirms, excused, sure, asked>>
  BY <1>1 DEF Served
<1>3. \A x \in requests : x \in Rows!Requests /\ Rows!Destroys(x) \subseteq Ids
  BY DEF Rows!ListInv, Rows!DataOK
<1>4. Rows!DataOK'
  <2>1. requests' \in SUBSET Rows!Requests BY <1>2, <1>3
  <2>2. Rows!Destroys(q) \subseteq Ids BY <1>2, <1>3, FirstServed
  <2>3. \A x \in requests' : Rows!Destroys(x) \subseteq Ids BY <1>2, <1>3, <2>2
  <2>4. tries' \in [Ids -> Nat] BY <1>1 DEF Served, Rows!ListInv, Rows!DataOK
  <2>5. \A x \in requests' : Rows!Destroys(x)' = Rows!Destroys(x) BY DEF Rows!Destroys
  <2>6. server' \in [rows : [Ids -> Rows!Cells], next : Nat] BY <1>1 DEF Served
  <2>7. Rows!Refs(rowStore)' = Rows!Refs(rowStore) BY <1>2 DEF Rows!Refs
  <2>8. Rows!IsFiniteSet(Rows!Refs(rowStore))' BY <2>7 DEF Rows!ListInv, Rows!DataOK
  <2> QED BY <1>2, <2>1, <2>3, <2>4, <2>5, <2>6, <2>8 DEF Rows!ListInv, Rows!DataOK
<1>5. Rows!FormsOK' BY <1>2 DEF Rows!ListInv, Rows!FormsOK
<1>6. \A i \in Ids \ excused' : Rows!Confirmed(i)' BY <1>1, <1>2, ServeKeepsConfirmed
<1>7. \A x \in requests : x.clean => requests = {x} /\ ~x.orphan
  BY DEF Rows!ListInv, Rows!Agreeing, Rows!Alone
<1>8. ASSUME NEW x \in requests', x.clean PROVE x = q /\ requests = {r} /\ Rows!Alone(x)'
  <2>1. x = q \/ (x \in requests /\ x # r) BY <1>2
  <2>2. x = q BY <1>7, <1>8, <2>1
  <2>3. requests = {r} /\ ~q.orphan BY <1>2, <1>7, <1>8, <2>2
  <2>4. requests' = {q} BY <1>2, <2>3
  <2>5. q.ok /\ q.ops[1].op = "load" => q.rows = server'.rows BY <1>1 DEF Served
  <2> QED BY <2>2, <2>3, <2>4, <2>5 DEF Rows!Alone
<1>9. ASSUME sure' PROVE requests' # {} /\ \E x \in requests' : x.clean /\ Rows!Brings(x)'
  <2>1. PICK x \in requests : x.clean /\ Rows!Brings(x)
    BY <1>2, <1>9 DEF Rows!ListInv, Rows!Agreeing
  <2>2. x = r BY <1>7, <2>1
  <2>3. Rows!Brings(q)' BY <1>1, <2>1, <2>2, ServeBrings
  <2> QED BY <1>2, <2>1, <2>2, <2>3
<1>10. Rows!Agreeing' BY <1>8, <1>9 DEF Rows!Agreeing
<1> QED BY <1>4, <1>5, <1>6, <1>10 DEF Rows!ListInv

-----------------------------------------------------------------------------
(* The answers.                                                            *)

\* The request r without its first operation.
Goes(r, q) ==
  /\ q \in Rows!Requests /\ Len(r.ops) > 1 /\ q.ops = Tail(r.ops) /\ ~q.served
  /\ q.clean = r.clean /\ q.orphan = r.orphan

LEMMA TailIn ==
  ASSUME NEW S, NEW list \in Seq(S), list # <<>>, Len(list) # 1
  PROVE  Len(list) > 1 /\ Tail(list) \in Seq(S) /\ Tail(list) # <<>>
<1>1. Len(list) \in Nat /\ Len(list) # 0 OBVIOUS
<1>2. Len(list) > 1 BY <1>1
<1>3. Tail(list) \in Seq(S) /\ Len(Tail(list)) = Len(list) - 1 BY <1>1
<1>4. PICK tail : tail = Tail(list) OBVIOUS
<1>5. Len(tail) # 0 BY <1>1, <1>2, <1>3, <1>4
<1>6. tail # <<>> BY <1>5
<1> QED BY <1>2, <1>3, <1>4, <1>6

LEMMA NextFacts ==
  ASSUME NEW r \in Rows!Requests, Len(r.ops) # 1
  PROVE  Goes(r, [r EXCEPT !.ops = Tail(@), !.served = FALSE])
<1> DEFINE q == [r EXCEPT !.ops = Tail(@), !.served = FALSE]
<1> HIDE DEF q
<1>1. PICK ops : ops = r.ops OBVIOUS
<1>2. ops \in Seq(Rows!Operations) /\ ops # <<>> BY <1>1, RequestFacts
<1>3. Len(ops) # 1 BY <1>1
<1>4. Len(ops) > 1 /\ Tail(ops) \in Seq(Rows!Operations) /\ Tail(ops) # <<>>
  BY <1>2, <1>3, TailIn
<1>5. q = [r EXCEPT !.ops = Tail(ops), !.served = FALSE] BY <1>1 DEF q
<1>6. /\ q \in Rows!Requests /\ q.ops = Tail(ops) /\ ~q.served
      /\ q.clean = r.clean /\ q.orphan = r.orphan
  BY <1>4, <1>5 DEF Rows!Requests
<1>7. Goes(r, q) BY <1>1, <1>4, <1>6 DEF Goes
<1> QED BY <1>7 DEF q

LEMMA TailFacts ==
  ASSUME NEW r \in Rows!Requests, NEW q, Goes(r, q), r.served
  PROVE  /\ Rows!Unserved(q) = Rows!Unserved(r) /\ Rows!Destroys(q) = Rows!Unserved(r)
         /\ \A i : Once(r.ops, i) => Once(q.ops, i)
         /\ r.ops[1].op # "destroy" => Rows!Destroys(q) = Rows!Destroys(r)
         /\ \A o : (\A k \in DOMAIN r.ops : r.ops[k].op = o) => \A k \in DOMAIN q.ops : q.ops[k].op = o
<1>1. /\ r.ops \in Seq(Rows!Operations) /\ Len(r.ops) \in Nat /\ Len(r.ops) > 1
      /\ DOMAIN r.ops = 1 .. Len(r.ops) /\ Rows!Destroys(r) = Destroyed(r.ops)
  BY RequestFacts DEF Goes
<1>2. /\ q.ops = Tail(r.ops) /\ q \in Rows!Requests /\ ~q.served BY DEF Goes
<1>3. DOMAIN q.ops = 1 .. Len(r.ops) - 1 /\ \A k \in DOMAIN q.ops : q.ops[k] = r.ops[k + 1]
  BY <1>1, <1>2
<1>4. \A k \in DOMAIN q.ops : k + 1 \in DOMAIN r.ops /\ k + 1 > 1 BY <1>1, <1>3
<1>5. \A k \in DOMAIN r.ops : k > 1 => k - 1 \in DOMAIN q.ops /\ (k - 1) + 1 = k BY <1>1, <1>3
<1>6. \A x : x \in Rows!Unserved(r) <=>
               \E k \in DOMAIN r.ops : k > 1 /\ r.ops[k].op = "destroy" /\ r.ops[k].id = x
  BY DEF Rows!Unserved
<1>7. \A x : x \in Destroyed(q.ops) <=>
               \E k \in DOMAIN q.ops : q.ops[k].op = "destroy" /\ q.ops[k].id = x
  BY DEF Destroyed
<1>8. ASSUME NEW x \in Rows!Unserved(r) PROVE x \in Destroyed(q.ops)
  <2>1. PICK k \in DOMAIN r.ops : k > 1 /\ r.ops[k].op = "destroy" /\ r.ops[k].id = x
    BY <1>6, <1>8
  <2>2. k - 1 \in DOMAIN q.ops /\ q.ops[k - 1] = r.ops[k] BY <1>3, <1>5, <2>1
  <2> QED BY <1>7, <2>1, <2>2
<1>9. ASSUME NEW x \in Destroyed(q.ops) PROVE x \in Rows!Unserved(r)
  <2>1. PICK k \in DOMAIN q.ops : q.ops[k].op = "destroy" /\ q.ops[k].id = x BY <1>7, <1>9
  <2>2. k + 1 \in DOMAIN r.ops /\ k + 1 > 1 /\ q.ops[k] = r.ops[k + 1] BY <1>3, <1>4
  <2> QED BY <1>6, <2>1, <2>2
<1>10. Rows!Unserved(q) = Destroyed(q.ops) /\ Rows!Destroys(q) = Destroyed(q.ops)
  BY <1>2, UnservedFacts, RequestFacts
<1>11. ASSUME NEW i, Once(r.ops, i) PROVE Once(q.ops, i)
  <2> SUFFICES ASSUME NEW j \in DOMAIN q.ops, NEW k \in DOMAIN q.ops, q.ops[j].op = "destroy",
                      q.ops[j].id = i, q.ops[k].op = "destroy", q.ops[k].id = i
               PROVE  j = k
    BY DEF Once
  <2>1. j + 1 = k + 1 BY <1>3, <1>4, <1>11 DEF Once
  <2>2. j \in Int /\ k \in Int BY <1>1, <1>3
  <2> QED BY <2>1, <2>2
<1>12. ASSUME r.ops[1].op # "destroy", NEW x \in Destroyed(r.ops) PROVE x \in Rows!Unserved(r)
  <2>1. PICK k \in DOMAIN r.ops : r.ops[k].op = "destroy" /\ r.ops[k].id = x
    BY <1>12 DEF Destroyed
  <2>2. k > 1 BY <1>1, <1>12, <2>1
  <2> QED BY <1>6, <2>1, <2>2
<1>13. Rows!Unserved(r) \subseteq Destroyed(r.ops) BY UnservedFacts
<1>14. \A o : (\A k \in DOMAIN r.ops : r.ops[k].op = o) => \A k \in DOMAIN q.ops : q.ops[k].op = o
  BY <1>3, <1>4
<1> QED BY <1>1, <1>8, <1>9, <1>10, <1>11, <1>12, <1>13, <1>14

LEMMA ServedFacts ==
  ASSUME NEW r \in Rows!Requests, r.served
  PROVE  /\ \A x \in Rows!Destroys(r) :
              (r.ops[1].op = "destroy" /\ x = r.ops[1].id) \/ x \in Rows!Unserved(r)
         /\ Rows!Unserved(r) \subseteq Rows!Destroys(r)
         /\ Len(r.ops) = 1 => Rows!Unserved(r) = {}
<1>1. DOMAIN r.ops = 1 .. Len(r.ops) /\ Len(r.ops) \in Nat /\ Rows!Destroys(r) = Destroyed(r.ops)
  BY RequestFacts
<1>2. \A x : x \in Rows!Unserved(r) <=>
               \E k \in DOMAIN r.ops : k > 1 /\ r.ops[k].op = "destroy" /\ r.ops[k].id = x
  BY DEF Rows!Unserved
<1>3. \A x : x \in Destroyed(r.ops) <=>
               \E k \in DOMAIN r.ops : r.ops[k].op = "destroy" /\ r.ops[k].id = x
  BY DEF Destroyed
<1>4. \A k \in DOMAIN r.ops : k = 1 \/ k > 1 BY <1>1
<1>5. Len(r.ops) = 1 => \A k \in DOMAIN r.ops : ~(k > 1) BY <1>1
<1> QED BY <1>1, <1>2, <1>3, <1>4, <1>5

\* A load makes the requests that are under way lose their records.
Orphan(q) == [q EXCEPT !.orphan = TRUE]

LEMMA OrphanFacts ==
  ASSUME NEW r \in Rows!Requests
  PROVE  Orphan(r) \in Rows!Requests /\ Orphan(r).clean = r.clean /\ SameOps(Orphan(r), r)
<1>1. Orphan(r) \in Rows!Requests /\ Orphan(r).clean = r.clean BY DEF Orphan, Rows!Requests
<1>2. Orphan(r).ops = r.ops /\ Orphan(r).served = r.served BY DEF Orphan, Rows!Requests
<1>3. Rows!Destroys(Orphan(r)) = Rows!Destroys(r) BY <1>2 DEF Rows!Destroys
<1>4. Rows!Unserved(Orphan(r)) = Rows!Unserved(r) BY <1>2 DEF Rows!Unserved
<1> QED BY <1>1, <1>2, <1>3, <1>4 DEF SameOps

\* What the answer of a load does.
Reloaded(r, rows0) ==
  /\ rows0 \in [Ids -> Rows!Cells] /\ rowStore' = Rows!Loaded(rows0)
  /\ r.ops[1].op = "load" => rows0 = r.rows
  /\ requests' = {Orphan(q) : q \in requests \ {r}}
  /\ sure' = (r.clean /\ r.ops[1].op = "load")
  /\ r.served /\ r.ok
  /\ UNCHANGED <<server, tries, confirms, excused, asked>>

LEMMA ReloadKeeps ==
  ASSUME Rows!ListInv, NEW r \in requests, NEW rows0, Reloaded(r, rows0), Rows!FormsOK'
  PROVE  Rows!ListInv'
<1>1. \A x \in requests : x \in Rows!Requests /\ Rows!Destroys(x) \subseteq Ids
  BY DEF Rows!ListInv, Rows!DataOK
<1>2. \A x \in requests' : \E y \in requests : y # r /\ x = Orphan(y) BY DEF Reloaded
<1>3. rowStore' \in Rows!Contents /\ Rows!Refs(rowStore') = {} /\ rowStore'.removed = {}
  BY LoadedFacts DEF Reloaded
<1>4. Rows!DataOK'
  <2>1. requests' \in SUBSET Rows!Requests BY <1>1, <1>2, OrphanFacts
  <2>2. \A x \in requests' : Rows!Destroys(x) \subseteq Ids BY <1>1, <1>2, OrphanFacts DEF SameOps
  <2>3. \A x \in requests' : Rows!Destroys(x)' = Rows!Destroys(x) BY DEF Rows!Destroys
  <2>4. Rows!IsFiniteSet(Rows!Refs(rowStore))' BY <1>3, Finite, FS_EmptySet
  <2>5. /\ server' \in [rows : [Ids -> Rows!Cells], next : Nat] /\ tries' \in [Ids -> Nat]
        /\ confirms' \in [Ids -> Nat] /\ excused' \in SUBSET Ids /\ sure' \in BOOLEAN
        /\ asked' \in Nat
    BY <1>1 DEF Reloaded, Rows!ListInv, Rows!DataOK, Rows!Requests
  <2> QED BY <1>3, <2>1, <2>2, <2>3, <2>4, <2>5 DEF Rows!DataOK
<1>5. ASSUME NEW i \in Ids \ excused' PROVE Rows!Confirmed(i)'
  <2>1. Rows!Confirmed(i) /\ tries' = tries /\ confirms' = confirms
    BY DEF Rows!ListInv, Reloaded
  <2>2. ASSUME NEW x \in requests', NEW y \in requests', i \in Rows!Destroys(x), i \in Rows!Destroys(y)
        PROVE  x = y
    <3>1. PICK a \in requests : x = Orphan(a) BY <1>2
    <3>2. PICK b \in requests : y = Orphan(b) BY <1>2
    <3>3. i \in Rows!Destroys(a) /\ i \in Rows!Destroys(b)
      BY <1>1, <2>2, <3>1, <3>2, OrphanFacts DEF SameOps
    <3>4. a = b BY <2>1, <3>3 DEF Rows!Confirmed
    <3> QED BY <3>1, <3>2, <3>4
  <2>3. \A x \in requests' : Once(x.ops, i)
    BY <1>1, <1>2, <2>1, OrphanFacts DEF SameOps, Rows!Confirmed, Once
  <2>4. (\E x \in requests' : i \in Rows!Unserved(x)) => \E x \in requests : i \in Rows!Unserved(x)
    BY <1>1, <1>2, OrphanFacts DEF SameOps
  <2>5. i \notin rowStore'.removed BY <1>3
  <2> QED BY <2>1, <2>2, <2>3, <2>4, <2>5 DEF Rows!Confirmed, Once
<1>6. \A x \in requests : x.clean => requests = {x}
  BY DEF Rows!ListInv, Rows!Agreeing, Rows!Alone
<1>7. ASSUME NEW x \in requests', x.clean PROVE FALSE
  <2>1. PICK y \in requests : y # r /\ x = Orphan(y) BY <1>2
  <2>2. y.clean BY <1>1, <1>7, <2>1, OrphanFacts
  <2> QED BY <1>6, <2>1, <2>2
<1>8. ASSUME sure' PROVE requests' = {} /\ rowStore' = Rows!Loaded(server'.rows)
  <2>1. r.clean /\ r.ops[1].op = "load" /\ rows0 = r.rows BY <1>8 DEF Reloaded
  <2>2. requests = {r} /\ r.rows = server.rows
    BY <2>1 DEF Rows!ListInv, Rows!Agreeing, Rows!Alone, Reloaded
  <2> QED BY <1>2, <2>1, <2>2 DEF Reloaded
<1>9. Rows!Agreeing' BY <1>7, <1>8 DEF Rows!Agreeing, Rows!Loaded
<1> QED BY <1>4, <1>5, <1>9 DEF Rows!ListInv

LEMMA CommittedFacts ==
  ASSUME NEW s \in Rows!Contents, IsFiniteSet(Rows!Refs(s)), NEW r \in Rows!Requests
  PROVE  LET t == Rows!Committed(s, r)
         IN /\ t \in Rows!Contents /\ IsFiniteSet(Rows!Refs(t)) /\ t.removed \subseteq s.removed
            /\ r.ops[1].op = "destroy" => t.removed = {}
<1> DEFINE t == Rows!Committed(s, r)
<1>1. PICK op : op = r.ops[1] OBVIOUS
<1>2. op \in Rows!Operations /\ r.id \in Nat BY <1>1, RequestFacts DEF Rows!Requests
<1>3. op.value \in Rows!Cells BY <1>2 DEF Rows!Operations
<1>4. PICK mine : mine = {n \in s.new : n.ref = op.id} OBVIOUS
<1>5. t = CASE op.op = "create" /\ mine # {} ->
                 [s EXCEPT !.new = @ \ mine, !.rows[r.id] = op.value]
            [] op.op = "update" /\ ~r.orphan /\ s.rows[op.id] # Rows!Absent ->
                 [s EXCEPT !.rows[op.id] = op.value, !.dirty = @ \ {op.id}]
            [] op.op = "destroy" -> [s EXCEPT !.removed = {}]
            [] OTHER -> s
  BY <1>1, <1>4 DEF Rows!Committed
<1> HIDE DEF t
<1>6. CASE op.op = "create" /\ mine # {}
  <2>1. t = [s EXCEPT !.new = @ \ mine, !.rows[r.id] = op.value] BY <1>5, <1>6
  <2>2. t \in Rows!Contents /\ t.new \subseteq s.new /\ t.removed = s.removed
    BY <1>3, <2>1 DEF Rows!Contents
  <2>3. Rows!Refs(t) \subseteq Rows!Refs(s) BY <2>2 DEF Rows!Refs
  <2>4. IsFiniteSet(Rows!Refs(t)) BY <2>3, FS_Subset
  <2> QED BY <1>1, <1>6, <2>2, <2>4 DEF t
<1>7. CASE op.op = "update" /\ ~r.orphan /\ s.rows[op.id] # Rows!Absent
  <2>1. t = [s EXCEPT !.rows[op.id] = op.value, !.dirty = @ \ {op.id}] BY <1>5, <1>7
  <2>2. t \in Rows!Contents /\ t.new = s.new /\ t.removed = s.removed
    BY <1>3, <2>1 DEF Rows!Contents
  <2>3. Rows!Refs(t) = Rows!Refs(s) BY <2>2 DEF Rows!Refs
  <2> QED BY <1>1, <1>7, <2>2, <2>3 DEF t
<1>8. CASE op.op = "destroy"
  <2>1. t = [s EXCEPT !.removed = {}] BY <1>5, <1>8
  <2>2. t \in Rows!Contents /\ t.new = s.new /\ t.removed = {} BY <2>1 DEF Rows!Contents
  <2>3. Rows!Refs(t) = Rows!Refs(s) BY <2>2 DEF Rows!Refs
  <2> QED BY <1>1, <2>2, <2>3 DEF t
<1>9. CASE /\ ~(op.op = "create" /\ mine # {}) /\ op.op # "destroy"
           /\ ~(op.op = "update" /\ ~r.orphan /\ s.rows[op.id] # Rows!Absent)
  <2>1. t = s BY <1>5, <1>9
  <2> QED BY <1>1, <1>9, <2>1 DEF t
<1> QED BY <1>6, <1>7, <1>8, <1>9

\* What another answer does, next being the rest of the request.
Settled(r, next) ==
  /\ r.served /\ (r.ok => r.ops[1].op \notin {"load", "drbd"})
  /\ IF Len(r.ops) = 1 THEN next = {} ELSE \E q : next = {q} /\ Goes(r, q)
  /\ rowStore' = IF r.ok THEN Rows!Committed(rowStore, r) ELSE rowStore
  /\ requests' = (requests \ {r}) \cup next
  /\ sure' = (sure /\ r.ok)
  /\ excused' = IF r.ops[1].op = "destroy" /\ ~r.ok THEN excused \cup {r.ops[1].id} ELSE excused
  /\ UNCHANGED <<server, tries, confirms, asked, window, question, marked>>

LEMMA SettledData ==
  ASSUME Rows!ListInv, NEW r \in requests, NEW next, Settled(r, next)
  PROVE  /\ Rows!DataOK' /\ rowStore'.removed \subseteq rowStore.removed
         /\ r.ok /\ r.ops[1].op = "destroy" => rowStore'.removed = {}
<1>1. \A x \in requests : x \in Rows!Requests /\ Rows!Destroys(x) \subseteq Ids
  BY DEF Rows!ListInv, Rows!DataOK
<1>2. \A x \in requests' : x \in requests \/ Goes(r, x) BY DEF Settled
<1>3. requests' \in SUBSET Rows!Requests BY <1>1, <1>2 DEF Goes
<1>4. ASSUME NEW x \in requests' PROVE Rows!Destroys(x) \subseteq Ids
  <2>1. CASE x \in requests BY <1>1, <2>1
  <2>2. CASE Goes(r, x)
    <3>1. Rows!Destroys(x) = Rows!Unserved(r) BY <1>1, <2>2, TailFacts DEF Settled
    <3>2. Rows!Unserved(r) \subseteq Rows!Destroys(r) BY <1>1, ServedFacts DEF Settled
    <3> QED BY <1>1, <3>1, <3>2
  <2> QED BY <1>2, <2>1, <2>2
<1>5. rowStore \in Rows!Contents /\ IsFiniteSet(Rows!Refs(rowStore))
  BY Finite DEF Rows!ListInv, Rows!DataOK
<1>6. PICK t : t = Rows!Committed(rowStore, r) OBVIOUS
<1>7. /\ t \in Rows!Contents /\ IsFiniteSet(Rows!Refs(t)) /\ t.removed \subseteq rowStore.removed
      /\ r.ops[1].op = "destroy" => t.removed = {}
  BY <1>1, <1>5, <1>6, CommittedFacts
<1>8. rowStore' = t \/ (~r.ok /\ rowStore' = rowStore) BY <1>6 DEF Settled
<1>9. /\ rowStore' \in Rows!Contents /\ IsFiniteSet(Rows!Refs(rowStore'))
      /\ rowStore'.removed \subseteq rowStore.removed
      /\ r.ok /\ r.ops[1].op = "destroy" => rowStore'.removed = {}
  BY <1>5, <1>7, <1>8
<1>10. excused' \in SUBSET Ids
  <2>1. r.ops[1].op = "destroy" => r.ops[1].id \in Ids BY <1>1, RequestFacts
  <2> QED BY <2>1 DEF Settled, Rows!ListInv, Rows!DataOK
<1>11. sure' \in BOOLEAN BY <1>1 DEF Settled, Rows!ListInv, Rows!DataOK, Rows!Requests
<1>12. \A x \in requests' : Rows!Destroys(x)' = Rows!Destroys(x) BY DEF Rows!Destroys
<1>13. Rows!IsFiniteSet(Rows!Refs(rowStore))' BY <1>9, Finite
<1>14. UNCHANGED <<server, tries, confirms, asked>> BY DEF Settled
<1>15. Rows!DataOK'
  BY <1>3, <1>4, <1>9, <1>10, <1>11, <1>12, <1>13, <1>14 DEF Rows!ListInv, Rows!DataOK
<1> QED BY <1>9, <1>15

LEMMA SettledConfirmed ==
  ASSUME Rows!ListInv, NEW r \in requests, NEW next, Settled(r, next), NEW i \in Ids \ excused'
  PROVE  Rows!Confirmed(i)'
<1>1. \A x \in requests : x \in Rows!Requests BY DEF Rows!ListInv, Rows!DataOK
<1>2. Rows!Confirmed(i) BY DEF Rows!ListInv, Settled
<1>3. \A x \in requests' : (x \in requests /\ x # r) \/ (Goes(r, x) /\ next = {x}) BY DEF Settled
<1>4. \A x : Goes(r, x) => /\ Rows!Unserved(x) = Rows!Unserved(r)
                           /\ Rows!Destroys(x) = Rows!Unserved(r)
                           /\ Once(r.ops, i) => Once(x.ops, i)
  BY <1>1, TailFacts DEF Settled
<1>5. /\ \A x \in Rows!Destroys(r) :
           (r.ops[1].op = "destroy" /\ x = r.ops[1].id) \/ x \in Rows!Unserved(r)
      /\ Rows!Unserved(r) \subseteq Rows!Destroys(r)
      /\ Len(r.ops) = 1 => Rows!Unserved(r) = {}
  BY <1>1, ServedFacts DEF Settled
<1>6. ASSUME NEW x \in requests', NEW y \in requests', i \in Rows!Destroys(x), i \in Rows!Destroys(y)
      PROVE  x = y
  <2>1. CASE Goes(r, x) /\ next = {x} /\ Goes(r, y) /\ next = {y} BY <2>1
  <2>2. CASE x \in requests /\ x # r /\ y \in requests /\ y # r
    BY <1>2, <1>6, <2>2 DEF Rows!Confirmed
  <2>3. CASE x \in requests /\ x # r /\ Goes(r, y)
    BY <1>2, <1>4, <1>5, <1>6, <2>3 DEF Rows!Confirmed
  <2>4. CASE y \in requests /\ y # r /\ Goes(r, x)
    BY <1>2, <1>4, <1>5, <1>6, <2>4 DEF Rows!Confirmed
  <2> QED BY <1>3, <2>1, <2>2, <2>3, <2>4
<1>7. \A x \in requests : Once(x.ops, i) BY <1>2 DEF Rows!Confirmed, Once
<1>8. \A x \in requests' : Once(x.ops, i) BY <1>3, <1>4, <1>7
<1>9. (\E x \in requests' : i \in Rows!Unserved(x)) => \E x \in requests : i \in Rows!Unserved(x)
  BY <1>3, <1>4
<1>10. tries' = tries /\ confirms' = confirms BY DEF Settled
<1>11. ASSUME i \in rowStore'.removed PROVE \E x \in requests' : i \in Rows!Destroys(x)
  <2>1. i \in rowStore.removed /\ ~(r.ok /\ r.ops[1].op = "destroy") BY <1>11, SettledData
  <2>2. PICK x \in requests : i \in Rows!Destroys(x) BY <1>2, <2>1 DEF Rows!Confirmed
  <2>3. CASE x # r BY <2>2, <2>3 DEF Settled
  <2>4. CASE x = r
    <3>1. r.ops[1].op = "destroy" => i # r.ops[1].id BY <2>1 DEF Settled
    <3>2. i \in Rows!Unserved(r) BY <1>5, <2>2, <2>4, <3>1
    <3>3. Len(r.ops) # 1 BY <1>5, <3>2
    <3>4. PICK q : next = {q} /\ Goes(r, q) BY <3>3 DEF Settled
    <3>5. q \in requests' BY <3>4 DEF Settled
    <3> QED BY <1>4, <3>2, <3>4, <3>5
  <2> QED BY <2>3, <2>4
<1> QED BY <1>2, <1>6, <1>8, <1>9, <1>10, <1>11 DEF Rows!Confirmed, Once

\* The answer of the one request under way leaves the store and the rows the same.
LEMMA SettledBrings ==
  ASSUME Rows!ListInv, NEW r \in requests, NEW next, Settled(r, next), Rows!Brings(r), r.ok,
         ~r.orphan
  PROVE  \/ next = {} /\ rowStore' = Rows!Loaded(server'.rows)
         \/ \E q : next = {q} /\ Goes(r, q) /\ Rows!Brings(q)'
<1>1. r \in Rows!Requests /\ rowStore \in Rows!Contents BY DEF Rows!ListInv, Rows!DataOK
<1>2. /\ r.served /\ r.ops[1].op \notin {"load", "drbd"} /\ server' = server
      /\ rowStore' = Rows!Committed(rowStore, r)
      /\ IF Len(r.ops) = 1 THEN next = {} ELSE \E q : next = {q} /\ Goes(r, q)
  BY DEF Settled
<1>3. server.rows \in [Ids -> Rows!Cells] BY DEF Rows!ListInv, Rows!DataOK
<1>4. PICK t : t = rowStore' OBVIOUS
<1>5. ASSUME NEW new \in rowStore.new,
             r.ops = <<Rows!Op("create", new.ref, new.value)>>,
             rowStore = Rows!Added(Rows!Loaded(rowStore.rows), new.value, new.ref),
             server.rows = [rowStore.rows EXCEPT ![r.id] = new.value]
      PROVE  next = {} /\ rowStore' = Rows!Loaded(server'.rows)
  <2>1. PICK op : op = Rows!Op("create", new.ref, new.value) OBVIOUS
  <2>2. op.op = "create" /\ op.id = new.ref /\ op.value = new.value BY <2>1, OpFacts
  <2>3. r.ops[1] = op /\ Len(r.ops) = 1 BY <1>5, <2>1
  <2>4. new.ref \in Nat /\ new.value \in Values BY <1>1 DEF Rows!Contents
  <2>5. PICK rows0 : rows0 = rowStore.rows OBVIOUS
  <2>6. rows0 \in [Ids -> Rows!Cells] BY <1>1, <2>5 DEF Rows!Contents
  <2>7. PICK s : s = Rows!Loaded(rows0) OBVIOUS
  <2>8. /\ s \in Rows!Contents /\ s.rows = rows0 /\ s.new = {} /\ s.dirty = {} /\ s.removed = {}
        /\ Rows!Refs(s) = {}
    BY <2>6, <2>7, LoadedFacts
  <2>9. /\ rowStore.new = {[ref |-> new.ref, value |-> new.value]} /\ rowStore.dirty = {}
        /\ rowStore.removed = {}
    BY <1>5, <2>4, <2>5, <2>7, <2>8, AddedFacts, FS_EmptySet
  <2>10. PICK mine : mine = {n \in rowStore.new : n.ref = op.id} OBVIOUS
  <2>11. mine = rowStore.new BY <2>2, <2>9, <2>10
  <2>12. t = [rowStore EXCEPT !.new = @ \ mine, !.rows[r.id] = op.value]
    <3>1. mine # {} BY <1>5, <2>11
    <3> QED BY <1>2, <1>4, <2>2, <2>3, <2>10, <3>1 DEF Rows!Committed
  <2>13. /\ t.new = {} /\ t.rows = server.rows /\ t.dirty = {} /\ t.removed = {}
         /\ t \in [rows : {t.rows}, new : {{}}, dirty : {{}}, removed : {{}}]
    BY <1>1, <1>5, <2>2, <2>9, <2>11, <2>12 DEF Rows!Contents
  <2>14. t = Rows!Loaded(server.rows) BY <2>13 DEF Rows!Loaded
  <2> QED BY <1>2, <1>4, <2>3, <2>14
<1>6. ASSUME NEW value \in Values, NEW id \in Ids,
             r.ops = <<Rows!Op("update", id, value)>>,
             rowStore = Rows!Edited(Rows!Loaded(server.rows), id, value),
             server.rows[id] = value
      PROVE  next = {} /\ rowStore' = Rows!Loaded(server'.rows)
  <2>1. PICK op : op = Rows!Op("update", id, value) OBVIOUS
  <2>2. op.op = "update" /\ op.id = id /\ op.value = value BY <2>1, OpFacts
  <2>3. r.ops[1] = op /\ Len(r.ops) = 1 BY <1>6, <2>1
  <2>4. OneEdited(rowStore, server.rows, id, value) BY <1>3, <1>6, EditedRows
  <2>5. [server.rows EXCEPT ![id] = value] = server.rows BY <1>3, <1>6
  <2>6. rowStore.rows = server.rows /\ rowStore.new = {} /\ rowStore.dirty = {id} /\ rowStore.removed = {}
    BY <2>4, <2>5 DEF OneEdited
  <2>7. rowStore.rows[id] # Rows!Absent BY <1>6, <2>6, WebappAssumption DEF Rows!Absent, Absent
  <2>8. t = [rowStore EXCEPT !.rows[op.id] = op.value, !.dirty = @ \ {op.id}]
    BY <1>2, <1>4, <2>2, <2>3, <2>7 DEF Rows!Committed
  <2>9. /\ t.new = {} /\ t.rows = server.rows /\ t.dirty = {} /\ t.removed = {}
        /\ t \in [rows : {t.rows}, new : {{}}, dirty : {{}}, removed : {{}}]
    BY <1>1, <2>2, <2>5, <2>6, <2>8 DEF Rows!Contents
  <2>10. t = Rows!Loaded(server.rows) BY <2>9 DEF Rows!Loaded
  <2> QED BY <1>2, <1>4, <2>3, <2>10
<1>7. ASSUME \A k \in DOMAIN r.ops : r.ops[k].op = "destroy",
             rowStore = [Rows!Loaded(Rows!Less(server.rows, Rows!Unserved(r))) EXCEPT
                           !.removed = rowStore.removed]
      PROVE  \/ next = {} /\ rowStore' = Rows!Loaded(server'.rows)
             \/ \E q : next = {q} /\ Goes(r, q) /\ Rows!Brings(q)'
  <2>1. r.ops[1].op = "destroy" BY <1>1, <1>7, RequestFacts
  <2>2. t = [rowStore EXCEPT !.removed = {}] BY <1>2, <1>4, <2>1 DEF Rows!Committed
  <2>3. PICK rows0 : rows0 = Rows!Less(server.rows, Rows!Unserved(r)) OBVIOUS
  <2>4. t = Rows!Loaded(rows0) BY <1>7, <2>2, <2>3 DEF Rows!Loaded
  <2>5. CASE Len(r.ops) = 1
    <3>1. Rows!Unserved(r) = {} BY <1>1, <1>2, <2>5, ServedFacts
    <3>2. rows0 = server.rows BY <1>3, <2>3, <3>1 DEF Rows!Less
    <3> QED BY <1>2, <1>4, <2>4, <2>5, <3>2
  <2>6. CASE Len(r.ops) # 1
    <3>1. PICK q : next = {q} /\ Goes(r, q) BY <1>2, <2>6
    <3>2. Rows!Unserved(q) = Rows!Unserved(r) /\ \A k \in DOMAIN q.ops : q.ops[k].op = "destroy"
      BY <1>1, <1>2, <1>7, <3>1, TailFacts
    <3>3. Rows!Unserved(q)' = Rows!Unserved(q) BY DEF Rows!Unserved
    <3>4. rowStore' = [Rows!Loaded(Rows!Less(server'.rows, Rows!Unserved(q))) EXCEPT
                         !.removed = rowStore'.removed]
      BY <1>2, <1>4, <2>3, <2>4, <3>2 DEF Rows!Loaded
    <3>5. Rows!Brings(q)' BY <3>2, <3>3, <3>4 DEF Rows!Brings, Rows!Loaded, Rows!Less
    <3> QED BY <3>1, <3>5
  <2> QED BY <2>5, <2>6
<1> QED BY <1>2, <1>5, <1>6, <1>7 DEF Rows!Brings

LEMMA SettledKeeps ==
  ASSUME Rows!ListInv, NEW r \in requests, NEW next, Settled(r, next)
  PROVE  Rows!ListInv'
<1>1. \A x \in requests : x.clean => requests = {x} /\ ~x.orphan
  BY DEF Rows!ListInv, Rows!Agreeing, Rows!Alone
<1>2. \A x \in requests' : (x \in requests /\ x # r) \/ (Goes(r, x) /\ next = {x}) BY DEF Settled
<1>3. ASSUME NEW x \in requests', x.clean PROVE Rows!Alone(x)'
  <2>1. Goes(r, x) /\ next = {x} BY <1>1, <1>2, <1>3
  <2>2. r.clean /\ x.orphan = r.orphan /\ ~x.served BY <1>3, <2>1 DEF Goes
  <2>3. requests = {r} /\ ~x.orphan BY <1>1, <2>2
  <2>4. requests' = {x} BY <2>1, <2>3 DEF Settled
  <2> QED BY <2>2, <2>3, <2>4 DEF Rows!Alone
<1>4. ASSUME sure'
      PROVE  \/ requests' = {} /\ rowStore' = Rows!Loaded(server'.rows)
             \/ requests' # {} /\ \E q \in requests' : q.clean /\ Rows!Brings(q)'
  <2>1. sure /\ r.ok BY <1>4 DEF Settled
  <2>2. PICK x \in requests : x.clean /\ Rows!Brings(x) BY <2>1 DEF Rows!ListInv, Rows!Agreeing
  <2>3. x = r /\ requests = {r} /\ ~r.orphan BY <1>1, <2>2
  <2>4. \/ next = {} /\ rowStore' = Rows!Loaded(server'.rows)
        \/ \E q : next = {q} /\ Goes(r, q) /\ Rows!Brings(q)'
    BY <2>1, <2>2, <2>3, SettledBrings
  <2>5. requests' = next BY <2>3 DEF Settled
  <2>6. \A q : Goes(r, q) => q.clean BY <2>2, <2>3 DEF Goes
  <2> QED BY <2>4, <2>5, <2>6
<1>5. Rows!Agreeing' BY <1>3, <1>4 DEF Rows!Agreeing, Rows!Loaded
<1>6. Rows!DataOK' BY SettledData
<1>7. Rows!FormsOK' BY DEF Settled, Rows!ListInv, Rows!FormsOK
<1>8. \A i \in Ids \ excused' : Rows!Confirmed(i)' BY SettledConfirmed
<1> QED BY <1>5, <1>6, <1>7, <1>8 DEF Rows!ListInv

LEMMA AnswerKeeps ==
  ASSUME Rows!ListInv, NEW r \in requests, Rows!Answer(r)
  PROVE  Rows!ListInv'
<1> DEFINE next == IF Len(r.ops) = 1 THEN {}
                   ELSE {[r EXCEPT !.ops = Tail(@), !.served = FALSE]}
<1>1. r \in Rows!Requests BY DEF Rows!ListInv, Rows!DataOK
<1>2. r.served /\ UNCHANGED <<server, tries, confirms, asked>> BY DEF Rows!Answer
<1>3. CASE r.ops[1].op \in {"load", "drbd"} /\ r.ok
  <2>1. PICK rows0 \in IF r.ops[1].op = "drbd" THEN Rows!Drbd(r.rows) ELSE {r.rows} :
          rowStore' = Rows!Loaded(rows0)
    BY <1>3 DEF Rows!Answer
  <2>2. r.rows \in [Ids -> Rows!Cells] BY <1>1 DEF Rows!Requests
  <2>3. rows0 \in [Ids -> Rows!Cells] /\ (r.ops[1].op = "load" => rows0 = r.rows)
    BY <2>1, <2>2 DEF Rows!Drbd, Rows!Cells
  <2>4. /\ requests' = {[q EXCEPT !.orphan = TRUE] : q \in requests \ {r}}
        /\ sure' = (r.clean /\ r.ops[1].op = "load") /\ excused' = excused
        /\ window' = [window EXCEPT !.joined = FALSE]
        /\ question' = [question EXCEPT !.joined = FALSE] /\ marked' = {}
    BY <1>3 DEF Rows!Answer
  <2>5. Reloaded(r, rows0) BY <1>2, <1>3, <2>1, <2>3, <2>4 DEF Reloaded, Orphan
  <2>6. Rows!FormsOK' BY <2>4 DEF Rows!ListInv, Rows!FormsOK
  <2> QED BY <2>5, <2>6, ReloadKeeps
<1>4. CASE ~(r.ops[1].op \in {"load", "drbd"} /\ r.ok)
  <2>1. IF Len(r.ops) = 1 THEN next = {} ELSE \E q : next = {q} /\ Goes(r, q)
    BY <1>1, NextFacts
  <2>2. /\ rowStore' = IF r.ok THEN Rows!Committed(rowStore, r) ELSE rowStore
        /\ requests' = (requests \ {r}) \cup next /\ sure' = (sure /\ r.ok)
        /\ excused' = IF r.ops[1].op = "destroy" /\ ~r.ok THEN excused \cup {r.ops[1].id} ELSE excused
        /\ UNCHANGED <<window, question, marked>>
    BY <1>4 DEF Rows!Answer
  <2> HIDE DEF next
  <2>3. Settled(r, next) BY <1>2, <1>4, <2>1, <2>2 DEF Settled
  <2> QED BY <2>3, SettledKeeps
<1> QED BY <1>3, <1>4

-----------------------------------------------------------------------------
(* What the user does.                                                     *)

LEMMA Same == Rows!ListInv => confirms \in [Ids -> Nat] /\ (confirms' = confirms => Grows)
BY DEF Rows!ListInv, Rows!DataOK, Grows

LEMMA SwitchContentKeeps ==
  ASSUME Rows!ListInv, NEW v, Rows!switchContent(v)
  PROVE  Rows!ListInv'
<1>1. Rows!FormsOK' BY DEF Rows!switchContent, Rows!NoWindow, Rows!ListInv, Rows!FormsOK
<1>2. UNCHANGED <<server, rowStore, tries, confirms>> BY DEF Rows!switchContent
<1>3. Rows!Load \/ UNCHANGED <<requests, asked, sure, excused>> BY DEF Rows!switchContent
<1>4. CASE Rows!Load BY <1>1, <1>2, <1>4, LoadKeeps DEF Rows!Load
<1>5. CASE UNCHANGED <<requests, asked, sure, excused>> BY <1>1, <1>2, <1>5, Same, QuietKeeps
<1> QED BY <1>3, <1>4, <1>5

LEMMA LoadElsewhereKeeps ==
  ASSUME Rows!ListInv, Rows!LoadElsewhere
  PROVE  Rows!ListInv'
<1>1. Rows!FormsOK' BY DEF Rows!LoadElsewhere, Rows!ListInv, Rows!FormsOK
<1>2. UNCHANGED <<server, rowStore, tries, confirms>> BY DEF Rows!LoadElsewhere
<1>3. Rows!Load \/ Rows!Ask(<<Rows!Op("drbd", 0, 0)>>) BY DEF Rows!LoadElsewhere
<1> QED BY <1>1, <1>2, <1>3, LoadKeeps DEF Rows!Load

LEMMA SelectKeeps ==
  ASSUME Rows!ListInv, NEW ids \in SUBSET Ids, Rows!Select(ids)
  PROVE  Rows!ListInv'
<1>1. Rows!FormsOK' BY DEF Rows!Select, Rows!ListInv, Rows!FormsOK
<1>2. UNCHANGED <<server, rowStore, requests, tries, confirms, excused, sure, asked>>
  BY DEF Rows!Select
<1> QED BY <1>1, <1>2, Same, QuietKeeps

LEMMA OpenKeeps ==
  ASSUME Rows!ListInv, NEW id \in Ids \cup {0}, Rows!Open(id)
  PROVE  Rows!ListInv'
<1>1. Rows!FormsOK' BY DEF Rows!Open, Rows!ListInv, Rows!FormsOK
<1>2. UNCHANGED <<server, rowStore, requests, tries, confirms, excused, sure, asked>>
  BY DEF Rows!Open
<1> QED BY <1>1, <1>2, Same, QuietKeeps

LEMMA CloseKeeps ==
  ASSUME Rows!ListInv, Rows!Close
  PROVE  Rows!ListInv'
<1>1. Rows!FormsOK' BY DEF Rows!Close, Rows!NoWindow, Rows!ListInv, Rows!FormsOK
<1>2. UNCHANGED <<server, rowStore, requests, tries, confirms, excused, sure, asked>>
  BY DEF Rows!Close
<1> QED BY <1>1, <1>2, Same, QuietKeeps

LEMMA SwitchVmEditKeeps ==
  ASSUME Rows!ListInv, NEW id \in Ids, Rows!switchVmEdit(id)
  PROVE  Rows!ListInv'
<1>1. Rows!FormsOK' BY DEF Rows!switchVmEdit, Rows!ListInv, Rows!FormsOK
<1>2. UNCHANGED <<server, rowStore, requests, tries, confirms, excused, sure, asked>>
  BY DEF Rows!switchVmEdit
<1> QED BY <1>1, <1>2, Same, QuietKeeps

LEMMA DeleteKeeps ==
  ASSUME Rows!ListInv, Rows!Delete
  PROVE  Rows!ListInv'
<1>1. Rows!FormsOK' BY DEF Rows!Delete, Rows!ListInv, Rows!FormsOK
<1>2. UNCHANGED <<server, rowStore, requests, tries, confirms, excused, sure, asked>>
  BY DEF Rows!Delete
<1> QED BY <1>1, <1>2, Same, QuietKeeps

LEMMA SaveKeeps ==
  ASSUME Rows!ListInv, NEW value \in Values, Rows!save(value),
         UNCHANGED <<server, tries, confirms>>, Rows!FormsOK'
  PROVE  Rows!ListInv'
<1>1. \/ Rows!Sync(Rows!Added(rowStore, value, asked))
      \/ window.joined /\ Rows!Sync(Rows!Edited(rowStore, window.id, value))
      \/ UNCHANGED <<rowStore, requests, asked, sure, excused>>
  BY DEF Rows!save, Rows!Unsaved
<1>2. window.joined => window.id \in Ids BY DEF Rows!ListInv, Rows!FormsOK
<1>3. CASE Rows!Sync(Rows!Added(rowStore, value, asked)) BY <1>3, AddKeeps
<1>4. CASE window.joined /\ Rows!Sync(Rows!Edited(rowStore, window.id, value))
  BY <1>2, <1>4, EditKeeps
<1>5. CASE UNCHANGED <<rowStore, requests, asked, sure, excused>> BY <1>5, Same, QuietKeeps
<1> QED BY <1>1, <1>3, <1>4, <1>5

LEMMA SaveAndCloseKeeps ==
  ASSUME Rows!ListInv, Rows!SaveAndClose
  PROVE  Rows!ListInv'
<1>1. PICK value \in Values : Rows!save(value) BY DEF Rows!SaveAndClose
<1>2. Rows!FormsOK' BY DEF Rows!SaveAndClose, Rows!NoWindow, Rows!ListInv, Rows!FormsOK
<1>3. UNCHANGED <<server, tries, confirms>> BY DEF Rows!SaveAndClose
<1> QED BY <1>1, <1>2, <1>3, SaveKeeps

LEMMA SaveFormKeeps ==
  ASSUME Rows!ListInv, Rows!SaveForm
  PROVE  Rows!ListInv'
<1>1. PICK value \in Values : Rows!save(value) BY DEF Rows!SaveForm
<1>2. Rows!FormsOK' BY DEF Rows!SaveForm, Rows!ListInv, Rows!FormsOK
<1>3. UNCHANGED <<server, tries, confirms>> BY DEF Rows!SaveForm
<1> QED BY <1>1, <1>2, <1>3, SaveKeeps

\* Every record that is removed counts as one the user said yes to.
LEMMA ConfirmKeeps ==
  ASSUME Rows!ListInv, NEW button, Rows!Confirm(button)
  PROVE  Rows!ListInv'
<1> DEFINE ids == IF Rows!Agreed(button) /\ question.joined
                  THEN question.ids \cap Rows!Present(rowStore.rows) ELSE {}
<1>1. ids \in SUBSET Ids /\ ids \subseteq question.ids /\ (ids # {} => button = "yes")
  BY DEF Rows!Present, Rows!Agreed
<1>2. /\ IF ids = {} THEN UNCHANGED <<rowStore, requests, asked, sure, excused>>
         ELSE Rows!Sync(Rows!Removed(rowStore, ids))
      /\ confirms' = [i \in Ids |-> IF button = "yes" /\ i \in question.ids THEN confirms[i] + 1
                                    ELSE confirms[i]]
      /\ window' = IF window.id \in ids THEN [window EXCEPT !.joined = FALSE] ELSE window
      /\ marked' = marked \ ids /\ question' = Rows!NoBox
      /\ UNCHANGED <<server, tries>>
  BY DEF Rows!Confirm
<1> HIDE DEF ids
<1>3. Rows!FormsOK' BY <1>2 DEF Rows!NoBox, Rows!ListInv, Rows!FormsOK
<1>4. confirms \in [Ids -> Nat] BY Same
<1>5. Grows BY <1>2, <1>4 DEF Grows
<1>6. \A i \in ids : confirms'[i] > confirms[i] BY <1>1, <1>2, <1>4
<1>7. CASE ids = {} BY <1>2, <1>3, <1>5, <1>7, QuietKeeps
<1>8. CASE ids # {} BY <1>1, <1>2, <1>3, <1>5, <1>6, <1>8, RemoveKeeps
<1> QED BY <1>7, <1>8

-----------------------------------------------------------------------------
(* A list.                                                                 *)

LEMMA ListBegins == Rows!Init => Rows!ListInv
<1> SUFFICES ASSUME Rows!Init PROVE Rows!ListInv
  OBVIOUS
<1>1. /\ rowStore = Rows!Loaded([i \in Ids |-> Rows!Absent]) /\ requests = {}
      /\ window = Rows!NoWindow /\ question = Rows!NoBox /\ marked = {} /\ excused = {}
      /\ tries = [i \in Ids |-> 0] /\ confirms = [i \in Ids |-> 0] /\ sure = FALSE /\ asked = 0
  BY DEF Rows!Init
<1>2. server \in [rows : [Ids -> Rows!Cells], next : Nat]
  <2>1. PICK rows0 \in [Ids -> Values \cup {Rows!Absent}] :
          server = [rows |-> rows0, next |-> Rows!Cardinality(Rows!Present(rows0)) + 1]
    BY DEF Rows!Init, Rows!Rows
  <2>2. IsFiniteSet(Rows!Present(rows0)) BY WebappAssumption, FS_Subset DEF Rows!Present
  <2>3. Rows!Cardinality(Rows!Present(rows0)) \in Nat BY <2>2, Finite, FS_CardinalityType
  <2>4. rows0 \in [Ids -> Rows!Cells] BY DEF Rows!Cells
  <2> QED BY <2>1, <2>3, <2>4
<1>3. [i \in Ids |-> Rows!Absent] \in [Ids -> Rows!Cells] BY DEF Rows!Cells
<1>4. rowStore \in Rows!Contents /\ Rows!Refs(rowStore) = {} /\ rowStore.removed = {}
  BY <1>1, <1>3, LoadedFacts
<1>5. Rows!IsFiniteSet(Rows!Refs(rowStore)) BY <1>4, Finite, FS_EmptySet
<1>6. Rows!DataOK BY <1>1, <1>2, <1>4, <1>5 DEF Rows!DataOK
<1>7. Rows!FormsOK BY <1>1 DEF Rows!FormsOK, Rows!NoWindow, Rows!NoBox
<1>8. \A i \in Ids : Rows!Confirmed(i) BY <1>1, <1>4 DEF Rows!Confirmed
<1>9. Rows!Agreeing BY <1>1 DEF Rows!Agreeing
<1> QED BY <1>6, <1>7, <1>8, <1>9 DEF Rows!ListInv

LEMMA ListStep == Rows!ListInv /\ Rows!Next => Rows!ListInv'
<1> SUFFICES ASSUME Rows!ListInv, Rows!Next PROVE Rows!ListInv'
  OBVIOUS
<1>1. ASSUME Rows!Remove PROVE Rows!ListInv'
  BY <1>1, DeleteKeeps, ConfirmKeeps DEF Rows!Remove
<1>2. ASSUME Rows!OpenAny \/ Rows!SaveAndClose \/ Rows!Remove PROVE Rows!ListInv'
  BY <1>1, <1>2, OpenKeeps, SaveAndCloseKeeps DEF Rows!OpenAny
<1>3. ASSUME NEW id \in Ids, Rows!onTreeviewItemClick(id) PROVE Rows!ListInv'
  BY <1>3, SwitchVmEditKeeps DEF Rows!onTreeviewItemClick
<1>4. ASSUME Rows!Virtualmachine PROVE Rows!ListInv'
  <2>1. \/ Rows!Open(0) \/ Rows!SaveAndClose \/ Rows!SaveForm \/ Rows!Remove
        \/ \E id \in Ids : Rows!switchVmEdit(id) \/ Rows!onTreeviewItemClick(id)
    BY <1>4 DEF Rows!Virtualmachine
  <2> QED BY <1>1, <1>3, <2>1, OpenKeeps, SaveAndCloseKeeps, SaveFormKeeps, SwitchVmEditKeeps
<1>5. ASSUME Rows!Node \/ Rows!Storage \/ Rows!Cluster \/ Rows!Network \/ Rows!User
      PROVE  Rows!ListInv'
  BY <1>2, <1>5 DEF Rows!Node, Rows!Storage, Rows!Cluster, Rows!Network, Rows!User
<1>6. \/ \E r \in requests : Rows!Serve(r) \/ Rows!Answer(r)
      \/ \E v \in Names : Rows!switchContent(v)
      \/ Rows!LoadElsewhere
      \/ \E ids \in SUBSET Ids : Rows!Select(ids)
      \/ Rows!Close \/ Rows!Virtualmachine
      \/ Rows!Node \/ Rows!Storage \/ Rows!Cluster \/ Rows!Network \/ Rows!User
  BY DEF Rows!Next
<1> QED BY <1>4, <1>5, <1>6, ServeKeeps, AnswerKeeps, SwitchContentKeeps, LoadElsewhereKeeps,
           SelectKeeps, CloseKeeps

LEMMA ListQuiet == Rows!ListInv /\ UNCHANGED listVars => Rows!ListInv'
<1> SUFFICES ASSUME Rows!ListInv, UNCHANGED listVars PROVE Rows!ListInv'
  OBVIOUS
<1>1. UNCHANGED <<server, rowStore, requests, window, question, marked, tries, confirms, excused,
                  sure, asked>>
  BY DEF listVars
<1>2. Rows!FormsOK' BY <1>1 DEF Rows!ListInv, Rows!FormsOK
<1> QED BY <1>1, <1>2, Same, QuietKeeps

LEMMA ListAlways == WebappSpec => []Rows!ListInv
<1>1. WebappInit => Rows!ListInv BY ListBegins DEF WebappInit
<1>2. Rows!ListInv /\ [WebappNext]_<<part, vars, listVars, diskVars, jobVars>> => Rows!ListInv'
  <2> SUFFICES ASSUME Rows!ListInv, [WebappNext]_<<part, vars, listVars, diskVars, jobVars>>
               PROVE  Rows!ListInv'
    OBVIOUS
  <2>1. Rows!Next \/ UNCHANGED listVars BY DEF WebappNext
  <2> QED BY <2>1, ListStep, ListQuiet
<1> QED BY <1>1, <1>2, PTL DEF WebappSpec

\* A row is removed only as often as the user confirmed it.
THEOREM RemovedWhenConfirmed == WebappSpec => []Removals
<1>1. Rows!ListInv => Removals
  <2> SUFFICES ASSUME Rows!ListInv, NEW i \in Ids, tries[i] > confirms[i], i \notin excused
               PROVE  FALSE
    BY DEF Removals, Rows!Removals
  <2>1. tries[i] <= confirms[i] /\ tries[i] \in Nat /\ confirms[i] \in Nat
    BY DEF Rows!ListInv, Rows!Confirmed, Rows!DataOK
  <2> QED BY <2>1
<1> QED BY <1>1, ListAlways, PTL

\* A list that nothing is under way for shows the rows of the server.
THEOREM ListShowsTheRows == WebappSpec => []ListAgrees
<1>1. Rows!ListInv => ListAgrees
  BY DEF Rows!ListInv, Rows!Agreeing, ListAgrees, Rows!ListAgrees
<1> QED BY <1>1, ListAlways, PTL

-----------------------------------------------------------------------------
(* The lists of a machine: listing a set, and finite sets.                 *)

LEMMA FiniteT == \A S : Tabs!Cardinality(S) = Cardinality(S) /\ (Tabs!IsFiniteSet(S) <=> IsFiniteSet(S))
BY DEF Tabs!Cardinality, Cardinality, Tabs!IsFiniteSet, IsFiniteSet

LEMMA SetListed ==
  ASSUME NEW S, IsFiniteSet(S)
  PROVE  Tabs!Listed(S) \in Seq(S)
<1> DEFINE n == Cardinality(S)
           list == Tabs!Listed(S)
           Lists0(q) == \A x \in S : \E k \in DOMAIN q : q[k] = x
<1>1. n \in Nat /\ ExistsBijection(1 .. n, S) BY FS_CardinalityType
<1>2. \E q \in [1 .. n -> S] : Lists0(q)
  <2>1. PICK q : q \in Bijection(1 .. n, S) BY <1>1 DEF ExistsBijection
  <2>2. q \in [1 .. n -> S] /\ \A x \in S : \E k \in 1 .. n : q[k] = x
    BY <2>1 DEF Bijection, Injection, Surjection
  <2> QED BY <2>2
<1>3. list = CHOOSE q \in [1 .. n -> S] : Lists0(q) BY FiniteT DEF Tabs!Listed
<1> HIDE DEF n, list, Lists0
<1>4. list \in [1 .. n -> S] BY <1>2, <1>3
<1> QED BY <1>1, <1>4 DEF list

\* What a sync of the changes c tells the server.
Sent(c) ==
  {Tabs!Op("create", p.ref, p.vm) : p \in c.new} \cup {Tabs!Op("update", p.ref, p.vm) : p \in c.dirty}
    \cup {Tabs!Op("destroy", i, owner[i]) : i \in c.removed}
Few(c) == c \in Tabs!Changes /\ IsFiniteSet(c.new) /\ IsFiniteSet(c.dirty)

LEMMA ItemsFinite ==
  /\ IsFiniteSet(Tabs!AllItems) /\ Tabs!AllItems \subseteq Nat \ {0}
  /\ \A s \in Tabs!Stores : Items[s] \subseteq Tabs!AllItems
BY WebappAssumption, FS_Union DEF Tabs!AllItems, Tabs!Stores

LEMMA OpOf ==
  ASSUME NEW o \in {"create", "update", "destroy"}, NEW i \in Int, NEW m \in Int
  PROVE  /\ Tabs!Op(o, i, m) \in Tabs!Operations
         /\ Tabs!Op(o, i, m).op = o /\ Tabs!Op(o, i, m).item = i /\ Tabs!Op(o, i, m).vm = m
BY DEF Tabs!Op, Tabs!Operations

LEMMA OpsSent ==
  ASSUME Tabs!DataOK, NEW c, Few(c)
  PROVE  Tabs!Ops(c) \in Seq(Sent(c)) /\ Sent(c) \subseteq Tabs!Operations
<1> DEFINE a == {Tabs!Op("create", p.ref, p.vm) : p \in c.new}
           b == {Tabs!Op("update", p.ref, p.vm) : p \in c.dirty}
           d == {Tabs!Op("destroy", i, owner[i]) : i \in c.removed}
<1>1. IsFiniteSet(a)
  <2> DEFINE f == [p \in c.new |-> Tabs!Op("create", p.ref, p.vm)]
  <2>1. f \in Surjection(c.new, a) BY DEF Surjection
  <2> QED BY <2>1, FS_Surjection DEF Few
<1>2. IsFiniteSet(b)
  <2> DEFINE f == [p \in c.dirty |-> Tabs!Op("update", p.ref, p.vm)]
  <2>1. f \in Surjection(c.dirty, b) BY DEF Surjection
  <2> QED BY <2>1, FS_Surjection DEF Few
<1>3. IsFiniteSet(d)
  <2> DEFINE f == [i \in c.removed |-> Tabs!Op("destroy", i, owner[i])]
  <2>1. f \in Surjection(c.removed, d) BY DEF Surjection
  <2>2. IsFiniteSet(c.removed) BY ItemsFinite, FS_Subset DEF Few, Tabs!Changes
  <2> QED BY <2>1, <2>2, FS_Surjection
<1>4. a \subseteq Tabs!Operations
  <2>1. \A p \in c.new : p.ref \in Int /\ p.vm \in Int BY DEF Few, Tabs!Changes, Tabs!Records
  <2> QED BY <2>1, OpOf
<1>5. b \subseteq Tabs!Operations
  <2>1. \A p \in c.dirty : p.ref \in Int /\ p.vm \in Int BY DEF Few, Tabs!Changes, Tabs!Records
  <2> QED BY <2>1, OpOf
<1>6. d \subseteq Tabs!Operations
  <2>1. \A i \in c.removed : i \in Int /\ owner[i] \in Int
    BY ItemsFinite DEF Few, Tabs!Changes, Tabs!DataOK
  <2> QED BY <2>1, OpOf
<1>7. Sent(c) = a \cup b \cup d BY DEF Sent
<1>8. Tabs!Ops(c) = Tabs!Listed(a) \o Tabs!Listed(b) \o Tabs!Listed(d) BY DEF Tabs!Ops
<1> HIDE DEF a, b, d
<1>9. /\ Tabs!Listed(a) \in Seq(Sent(c)) /\ Tabs!Listed(b) \in Seq(Sent(c))
      /\ Tabs!Listed(d) \in Seq(Sent(c))
  <2>1. Tabs!Listed(a) \in Seq(a) /\ Tabs!Listed(b) \in Seq(b) /\ Tabs!Listed(d) \in Seq(d)
    BY <1>1, <1>2, <1>3, SetListed
  <2> QED BY <1>7, <2>1
<1>10. Tabs!Ops(c) \in Seq(Sent(c)) BY <1>8, <1>9
<1> QED BY <1>4, <1>5, <1>6, <1>7, <1>10

-----------------------------------------------------------------------------
(* Loads and syncs.                                                        *)

\* A load to the address u is under way, and it is one that crosses none only
\* if no other is.
Asked(s, u) ==
  /\ diskLoads' \in [Tabs!Stores -> SUBSET Tabs!LoadsOf] /\ diskAsked' = diskAsked + 1
  /\ \A t \in Tabs!Stores \ {s} : diskLoads'[t] = diskLoads[t]
  /\ diskLoads'[s] # {}
  /\ \A load \in diskLoads'[s] : load.alone => load.url = u

LEMMA LoadFacts ==
  ASSUME Tabs!DataOK, NEW s \in Tabs!Stores, NEW u \in Tabs!Urls, Tabs!Load(s, u)
  PROVE  Asked(s, u)
<1> DEFINE crosses == {[l EXCEPT !.alone = FALSE] : l \in diskLoads[s]}
           new == [n |-> diskAsked, url |-> u, alone |-> ~Tabs!Busy(s)]
<1>1. diskLoads \in [Tabs!Stores -> SUBSET Tabs!LoadsOf] /\ diskAsked \in Nat BY DEF Tabs!DataOK
<1>2. diskLoads' = [diskLoads EXCEPT ![s] = crosses \cup {new}] /\ diskAsked' = diskAsked + 1
  BY DEF Tabs!Load
<1>3. \A l \in crosses : l \in Tabs!LoadsOf /\ ~l.alone
  <2>1. \A l \in Tabs!LoadsOf : /\ [l EXCEPT !.alone = FALSE] \in Tabs!LoadsOf
                               /\ ~[l EXCEPT !.alone = FALSE].alone
    BY DEF Tabs!LoadsOf
  <2>2. diskLoads[s] \subseteq Tabs!LoadsOf BY <1>1
  <2> QED BY <2>1, <2>2
<1>4. new \in Tabs!LoadsOf /\ new.url = u BY <1>1 DEF Tabs!LoadsOf, Tabs!Busy
<1> HIDE DEF crosses, new
<1>5. diskLoads'[s] = crosses \cup {new} BY <1>1, <1>2
<1> QED BY <1>1, <1>2, <1>3, <1>4, <1>5 DEF Asked

\* The changes c belong to the machine of the editor.
Content(c) ==
  /\ \A i \in c.removed : owner[i] \in {currentVm, Tabs!Removed}
  /\ \A p \in c.new \cup c.dirty : Tabs!Own(p.vm)

\* The sync r that goes to the address u.
Syncing(r, s, c, u, excused0) ==
  /\ r \in Tabs!SyncsOf /\ r.store = s /\ r.url = u /\ r.excused = (excused0 \/ crossed[s])
  /\ \A k \in DOMAIN r.ops : r.ops[k] \in Sent(c)
Synced(s, c, u, excused0) ==
  /\ changes' = [changes EXCEPT ![s] = c]
  /\ syncs' = syncs \/ \E r : syncs' = syncs \cup {r} /\ Syncing(r, s, c, u, excused0)

LEMMA SyncFacts ==
  ASSUME Tabs!DataOK, NEW s \in Tabs!Stores, NEW c, Few(c), NEW u \in Tabs!Urls,
         NEW reload \in {"never", "success", "failure"}, NEW excused0 \in BOOLEAN,
         Tabs!Sync(s, c, u, reload, excused0)
  PROVE  Synced(s, c, u, excused0)
<1> DEFINE r == [n |-> diskAsked, store |-> s, ops |-> Tabs!Ops(c), url |-> u, first |-> TRUE,
                 reload |-> reload, failed |-> FALSE, excused |-> excused0 \/ crossed[s]]
<1>1. /\ changes' = [changes EXCEPT ![s] = c]
      /\ syncs' = IF Tabs!Ops(c) = <<>> THEN syncs ELSE syncs \cup {r}
  BY DEF Tabs!Sync
<1>2. Tabs!Ops(c) \in Seq(Sent(c)) /\ Sent(c) \subseteq Tabs!Operations BY OpsSent
<1>3. diskAsked \in Nat /\ crossed[s] \in BOOLEAN BY DEF Tabs!DataOK
<1>4. PICK ops : ops = Tabs!Ops(c) OBVIOUS
<1>5. CASE ops = <<>> BY <1>1, <1>4, <1>5 DEF Synced
<1>6. CASE ops # <<>>
  <2>1. ops \in Seq(Tabs!Operations) \ {<<>>} /\ \A k \in DOMAIN ops : ops[k] \in Sent(c)
    BY <1>2, <1>4, <1>6
  <2>2. r = [n |-> diskAsked, store |-> s, ops |-> ops, url |-> u, first |-> TRUE,
             reload |-> reload, failed |-> FALSE, excused |-> excused0 \/ crossed[s]]
    BY <1>4
  <2> HIDE DEF r
  <2>3. r \in Tabs!SyncsOf BY <1>3, <2>1, <2>2 DEF Tabs!SyncsOf
  <2>4. Syncing(r, s, c, u, excused0) BY <2>1, <2>2, <2>3 DEF Syncing
  <2> QED BY <1>1, <1>4, <1>6, <2>4 DEF Synced
<1> QED BY <1>5, <1>6

LEMMA FirstOp ==
  ASSUME NEW r \in Tabs!SyncsOf
  PROVE  /\ r.ops \in Seq(Tabs!Operations) /\ r.ops # <<>> /\ 1 \in DOMAIN r.ops
         /\ r.ops[1] \in Tabs!Operations /\ Len(r.ops) \in Nat \ {0}
         /\ \A k \in DOMAIN r.ops : r.ops[k] \in Tabs!Operations /\ r.ops[k].item \in Int
<1>1. r.ops \in Seq(Tabs!Operations) /\ r.ops # <<>> BY DEF Tabs!SyncsOf
<1>2. Len(r.ops) \in Nat \ {0} /\ DOMAIN r.ops = 1 .. Len(r.ops) BY <1>1
<1>3. \A k \in DOMAIN r.ops : r.ops[k] \in Tabs!Operations BY <1>1
<1>4. \A op \in Tabs!Operations : op.item \in Int BY DEF Tabs!Operations
<1> QED BY <1>1, <1>2, <1>3, <1>4

LEMMA SentFacts ==
  ASSUME Tabs!DataOK, NEW c, Few(c), NEW op \in Sent(c)
  PROVE  /\ op.op = "create" => \E p \in c.new : op.item = p.ref
         /\ Content(c) /\ op.vm \in Machines => op.vm = currentVm
<1>1. \A p \in c.new \cup c.dirty : p.ref \in Int /\ p.vm \in Int
  BY DEF Few, Tabs!Changes, Tabs!Records
<1>2. \A i \in c.removed : i \in Int /\ owner[i] \in Int
  BY ItemsFinite DEF Few, Tabs!Changes, Tabs!DataOK
<1>3. CASE \E p \in c.new : op = Tabs!Op("create", p.ref, p.vm)
  <2>1. PICK p \in c.new : op = Tabs!Op("create", p.ref, p.vm) BY <1>3
  <2>2. op.item = p.ref /\ op.vm = p.vm BY <1>1, <2>1, OpOf
  <2> QED BY <2>2 DEF Content, Tabs!Own
<1>4. CASE \E p \in c.dirty : op = Tabs!Op("update", p.ref, p.vm)
  <2>1. PICK p \in c.dirty : op = Tabs!Op("update", p.ref, p.vm) BY <1>4
  <2>2. op.op = "update" /\ op.vm = p.vm BY <1>1, <2>1, OpOf
  <2> QED BY <2>2 DEF Content, Tabs!Own
<1>5. CASE \E i \in c.removed : op = Tabs!Op("destroy", i, owner[i])
  <2>1. PICK i \in c.removed : op = Tabs!Op("destroy", i, owner[i]) BY <1>5
  <2>2. op.op = "destroy" /\ op.vm = owner[i] BY <1>2, <2>1, OpOf
  <2>3. Tabs!Removed \notin Machines
    <3>1. \A m \in Machines : m \in Nat BY WebappAssumption
    <3> QED BY <3>1 DEF Tabs!Removed
  <2> QED BY <2>2, <2>3 DEF Content
<1> QED BY <1>3, <1>4, <1>5 DEF Sent

-----------------------------------------------------------------------------
(* Steps that neither load nor sync.                                       *)

LEMMA TabsQuietKeeps ==
  ASSUME Tabs!DisksInv, Tabs!FormsOK', url' \in [Tabs!Stores -> Tabs!Urls],
         UNCHANGED <<currentVm, center, tab, owner, shown, changes, diskLoads, syncs, crossed>>,
         diskAsked' \in Nat, diskAsked' >= diskAsked,
         \A s \in Tabs!Stores : Tabs!Meant(s)' => Tabs!Meant(s) /\ url'[s] = url[s]
  PROVE  Tabs!DisksInv'
<1>1. Tabs!DataOK' BY DEF Tabs!DisksInv, Tabs!DataOK
<1>2. Tabs!Fresh'
  <2>1. diskAsked \in Nat BY DEF Tabs!DisksInv, Tabs!DataOK
  <2>2. \A s \in Tabs!Stores : \A p \in changes[s].new : p.ref \in Int
    BY DEF Tabs!DisksInv, Tabs!DataOK, Tabs!Changes, Tabs!Records
  <2>3. \A r \in syncs : \A k \in DOMAIN r.ops : r.ops[k].item \in Int
    BY FirstOp DEF Tabs!DisksInv, Tabs!DataOK
  <2> QED BY <2>1, <2>2, <2>3 DEF Tabs!DisksInv, Tabs!Fresh
<1>3. ASSUME NEW s \in Tabs!Stores PROVE Tabs!Points(s)' /\ Tabs!Belongs(s)'
  <2>1. Tabs!Points(s) /\ Tabs!Belongs(s) /\ (Tabs!Meant(s)' => Tabs!Meant(s) /\ url'[s] = url[s])
    BY DEF Tabs!DisksInv
  <2>2. Tabs!Points(s)' BY <2>1 DEF Tabs!Points
  <2>3. Tabs!Belongs(s)' BY <2>1 DEF Tabs!Belongs, Tabs!Busy, Tabs!Creates, Tabs!Own
  <2> QED BY <2>2, <2>3
<1>4. Tabs!RightMachine' BY DEF Tabs!DisksInv, Tabs!RightMachine
<1> QED BY <1>1, <1>2, <1>3, <1>4 DEF Tabs!DisksInv

LEMMA MeantStays ==
  ASSUME Tabs!FormsOK, Tabs!FormsOK', UNCHANGED <<center, tab>>, NEW s \in Tabs!Stores,
         \/ diskWindow' = diskWindow
         \/ diskWindow'.vm = Tabs!Nobody
         \/ diskWindow'.kind = diskWindow.kind /\ diskWindow'.vm = diskWindow.vm
         \/ \E t \in Tabs!Stores : tab = t /\ diskWindow'.kind \in Tabs!Kinds(t)
  PROVE  Tabs!Meant(s)' => Tabs!Meant(s)
<1>1. \A t \in Tabs!Stores : \A k : k \in Tabs!Kinds(t) /\ k \in Tabs!Kinds(s) => s = t
  BY DEF Tabs!Kinds, Tabs!Stores
<1> QED BY <1>1 DEF Tabs!Meant, Tabs!Kinds

LEMMA OpenWindowKeeps ==
  ASSUME Tabs!DisksInv, NEW s \in Tabs!Stores, NEW kind \in Tabs!Kinds(s), NEW item \in Int,
         Tabs!Open(s, kind, item)
  PROVE  Tabs!DisksInv'
<1>1. /\ diskWindow' = [kind |-> kind, item |-> item, joined |-> item # Tabs!Nobody,
                        vm |-> currentVm]
      /\ center = "vmedit" /\ tab = s
      /\ UNCHANGED <<currentVm, center, tab, owner, crossed, url, shown, changes, diskLoads, syncs,
                     diskAsked, selection, box>>
  BY DEF Tabs!Open, Tabs!Usable, Tabs!Same, Tabs!Still
<1>2. kind \in {"none", "disk", "drbd", "interface"} BY DEF Tabs!Kinds, Tabs!Stores
<1>3. currentVm \in Int /\ diskAsked \in Nat /\ url \in [Tabs!Stores -> Tabs!Urls]
  BY DEF Tabs!DisksInv, Tabs!DataOK
<1>4. Tabs!FormsOK' BY <1>1, <1>2, <1>3 DEF Tabs!DisksInv, Tabs!FormsOK
<1>5. \A t \in Tabs!Stores : Tabs!Meant(t)' => Tabs!Meant(t) /\ url'[t] = url[t]
  BY <1>1, <1>4, MeantStays DEF Tabs!DisksInv
<1> QED BY <1>1, <1>3, <1>4, <1>5, TabsQuietKeeps

LEMMA CloseWindowKeeps ==
  ASSUME Tabs!DisksInv, Tabs!Close
  PROVE  Tabs!DisksInv'
<1>1. /\ diskWindow' = Tabs!NoWindow
      /\ UNCHANGED <<currentVm, center, tab, owner, crossed, url, shown, changes, diskLoads, syncs,
                     diskAsked, selection, box>>
  BY DEF Tabs!Close, Tabs!Same, Tabs!Still
<1>2. diskAsked \in Nat /\ url \in [Tabs!Stores -> Tabs!Urls] BY DEF Tabs!DisksInv, Tabs!DataOK
<1>3. diskWindow'.vm = Tabs!Nobody BY <1>1 DEF Tabs!NoWindow
<1>4. Tabs!FormsOK' BY <1>1 DEF Tabs!DisksInv, Tabs!FormsOK, Tabs!NoWindow, Tabs!Nobody
<1>5. \A t \in Tabs!Stores : Tabs!Meant(t)' => Tabs!Meant(t) /\ url'[t] = url[t]
  BY <1>1, <1>3, <1>4, MeantStays DEF Tabs!DisksInv
<1> QED BY <1>1, <1>2, <1>4, <1>5, TabsQuietKeeps

\* Selecting, asking and saying no.
LEMMA QuestionKeeps ==
  ASSUME Tabs!DisksInv,
         \/ \E s \in Tabs!Stores : Tabs!Ask(s) \/ \E items \in SUBSET shown[s] : Tabs!Select(s, items)
         \/ Tabs!Cancel
  PROVE  Tabs!DisksInv'
<1>1. UNCHANGED <<currentVm, center, tab, owner, crossed, url, shown, changes, diskLoads, syncs,
                  diskAsked, diskWindow>>
  BY DEF Tabs!Ask, Tabs!Select, Tabs!Cancel, Tabs!Same, Tabs!Still
<1>2. diskAsked \in Nat /\ url \in [Tabs!Stores -> Tabs!Urls] BY DEF Tabs!DisksInv, Tabs!DataOK
<1>3. Tabs!FormsOK'
  <2>1. ASSUME NEW s \in Tabs!Stores, Tabs!Ask(s) PROVE Tabs!FormsOK'
    BY <1>1, <2>1
    DEF Tabs!Ask, Tabs!Usable, Tabs!DisksInv, Tabs!FormsOK
  <2>2. ASSUME NEW s \in Tabs!Stores, NEW items, Tabs!Select(s, items) PROVE Tabs!FormsOK'
    <3>1. items \in SUBSET Tabs!AllItems BY <2>2 DEF Tabs!Select, Tabs!DisksInv, Tabs!DataOK
    <3> QED BY <1>1, <2>2, <3>1 DEF Tabs!Select, Tabs!DisksInv, Tabs!FormsOK
  <2>3. ASSUME Tabs!Cancel PROVE Tabs!FormsOK'
    BY <1>1, <2>3 DEF Tabs!Cancel, Tabs!NoBox, Tabs!DisksInv, Tabs!FormsOK, Tabs!Stores
  <2> QED BY <2>1, <2>2, <2>3
<1>4. \A t \in Tabs!Stores : Tabs!Meant(t)' => Tabs!Meant(t) /\ url'[t] = url[t]
  BY <1>1, <1>3, MeantStays DEF Tabs!DisksInv
<1> QED BY <1>1, <1>2, <1>3, <1>4, TabsQuietKeeps

-----------------------------------------------------------------------------
(* The user goes elsewhere, and comes back.                                *)

\* Nothing happens to what is asked, but for a load of the store s.
LEMMA DataStays ==
  ASSUME Tabs!DisksInv, UNCHANGED <<owner, shown, changes, syncs, crossed>>, currentVm' \in Int,
         url' \in [Tabs!Stores -> Tabs!Urls],
         \/ UNCHANGED <<diskLoads, diskAsked>>
         \/ \E s \in Tabs!Stores, u \in Tabs!Urls : Asked(s, u)
  PROVE  Tabs!DataOK' /\ Tabs!Fresh' /\ Tabs!RightMachine'
<1>1. diskAsked \in Nat /\ diskLoads \in [Tabs!Stores -> SUBSET Tabs!LoadsOf]
  BY DEF Tabs!DisksInv, Tabs!DataOK
<1>2. diskLoads' \in [Tabs!Stores -> SUBSET Tabs!LoadsOf] BY <1>1 DEF Asked
<1>3. diskAsked' \in Nat /\ diskAsked' >= diskAsked BY <1>1 DEF Asked
<1>4. Tabs!DataOK' BY <1>2, <1>3 DEF Tabs!DisksInv, Tabs!DataOK
<1>5. Tabs!Fresh'
  <2>1. \A s \in Tabs!Stores : \A p \in changes[s].new : p.ref \in Int
    BY DEF Tabs!DisksInv, Tabs!DataOK, Tabs!Changes, Tabs!Records
  <2>2. \A r \in syncs : \A k \in DOMAIN r.ops : r.ops[k].item \in Int
    BY FirstOp DEF Tabs!DisksInv, Tabs!DataOK
  <2> QED BY <1>1, <1>3, <2>1, <2>2 DEF Tabs!DisksInv, Tabs!Fresh
<1>6. Tabs!RightMachine' BY DEF Tabs!DisksInv, Tabs!RightMachine
<1> QED BY <1>4, <1>5, <1>6

LEMMA GoKeeps ==
  ASSUME Tabs!DisksInv, NEW c \in {"list", "vmedit", "storagedisklist"}, Tabs!Go(c, "general"),
         currentVm' \in Int, c = "vmedit" => currentVm' \in Machines,
         url' \in [Tabs!Stores -> Tabs!Urls],
         \/ UNCHANGED <<diskLoads, diskAsked>>
         \/ \E s \in Tabs!Stores, u \in Tabs!Urls : Asked(s, u)
  PROVE  Tabs!DisksInv'
<1>1. /\ ~box.open /\ center' = c /\ tab' = "general" /\ selection' = {}
      /\ diskWindow' = [diskWindow EXCEPT !.vm = Tabs!Nobody]
      /\ UNCHANGED <<owner, shown, changes, syncs, box, crossed>>
  BY DEF Tabs!Go, Tabs!Free
<1>2. diskWindow' \in [kind : {"none", "disk", "drbd", "interface"}, item : Int, joined : BOOLEAN, vm : Int]
      /\ diskWindow'.vm = Tabs!Nobody
  BY <1>1 DEF Tabs!DisksInv, Tabs!FormsOK, Tabs!Nobody
<1>3. Tabs!FormsOK' BY <1>1, <1>2 DEF Tabs!DisksInv, Tabs!FormsOK
<1>4. \A s \in Tabs!Stores : ~Tabs!Meant(s)' BY <1>1, <1>2 DEF Tabs!Meant, Tabs!Stores
<1>5. \A s \in Tabs!Stores : Tabs!Points(s)' /\ Tabs!Belongs(s)'
  BY <1>4 DEF Tabs!Points, Tabs!Belongs
<1>6. Tabs!DataOK' /\ Tabs!Fresh' /\ Tabs!RightMachine' BY <1>1, DataStays
<1> QED BY <1>3, <1>5, <1>6 DEF Tabs!DisksInv

LEMMA UrlTypes ==
  ASSUME Tabs!DataOK
  PROVE  /\ Tabs!Vm(currentVm) \in Tabs!Urls
         /\ \A m \in Machines : m \in Nat \ {0}
         /\ \A u \in Tabs!Urls, s \in Tabs!Stores :
              [url EXCEPT ![s] = u] \in [Tabs!Stores -> Tabs!Urls]
BY WebappAssumption DEF Tabs!DataOK, Tabs!Vm, Tabs!Urls

LEMMA SwitchVmEditTabsKeeps ==
  ASSUME Tabs!DisksInv, NEW m \in Machines, Tabs!switchVmEdit(m)
  PROVE  Tabs!DisksInv'
<1>1. /\ Tabs!Go("vmedit", "general") /\ currentVm' = m /\ UNCHANGED <<url, diskLoads, diskAsked>>
  BY DEF Tabs!switchVmEdit
<1>2. currentVm' \in Int /\ url' \in [Tabs!Stores -> Tabs!Urls]
  BY <1>1, UrlTypes DEF Tabs!DisksInv, Tabs!DataOK
<1> QED BY <1>1, <1>2, GoKeeps

LEMMA SwitchContentTabsKeeps ==
  ASSUME Tabs!DisksInv, Tabs!switchContent
  PROVE  Tabs!DisksInv'
<1>1. Tabs!Go("list", "general") /\ UNCHANGED <<currentVm, url, diskLoads, diskAsked>>
  BY DEF Tabs!switchContent
<1>2. currentVm' \in Int /\ url' \in [Tabs!Stores -> Tabs!Urls]
  BY <1>1 DEF Tabs!DisksInv, Tabs!DataOK
<1> QED BY <1>1, <1>2, GoKeeps

LEMMA StorageDisksKeeps ==
  ASSUME Tabs!DisksInv, NEW st \in Storages, Tabs!onStorageDiskButtonClick(st)
  PROVE  Tabs!DisksInv'
<1>1. /\ Tabs!Go("storagedisklist", "general") /\ UNCHANGED currentVm
      /\ url' = [url EXCEPT !["Disk"] = Tabs!StorageUrl(st)]
      /\ Tabs!Load("Disk", Tabs!StorageUrl(st))
  BY DEF Tabs!onStorageDiskButtonClick
<1>2. Tabs!StorageUrl(st) \in Tabs!Urls
  BY WebappAssumption DEF Tabs!StorageUrl, Tabs!Urls
<1>3. Tabs!DataOK /\ "Disk" \in Tabs!Stores BY DEF Tabs!DisksInv, Tabs!Stores
<1>4. url' \in [Tabs!Stores -> Tabs!Urls] /\ Asked("Disk", Tabs!StorageUrl(st))
  BY <1>1, <1>2, <1>3, UrlTypes, LoadFacts
<1>5. currentVm' \in Int BY <1>1, <1>3 DEF Tabs!DataOK
<1> QED BY <1>1, <1>2, <1>3, <1>4, <1>5, GoKeeps

\* A tab that is opened points its store to the machine, and loads it.
LEMMA TabKeeps ==
  ASSUME Tabs!DisksInv, NEW s \in Tabs!Stores, Tabs!Tab(s), Asked(s, Tabs!Vm(currentVm)),
         url' = [url EXCEPT ![s] = Tabs!Vm(currentVm)]
  PROVE  Tabs!DisksInv'
<1>1. /\ ~box.open /\ center = "vmedit" /\ tab' = s /\ selection' = {}
      /\ UNCHANGED <<currentVm, center, owner, shown, changes, syncs, box, diskWindow, crossed>>
  BY DEF Tabs!Tab, Tabs!Free
<1>2. Tabs!FormsOK' BY <1>1 DEF Tabs!DisksInv, Tabs!FormsOK
<1>3. /\ Tabs!DataOK /\ Tabs!Vm(currentVm) \in Tabs!Urls /\ url' \in [Tabs!Stores -> Tabs!Urls]
      /\ currentVm' \in Int
  BY <1>1, UrlTypes DEF Tabs!DisksInv, Tabs!DataOK
<1>4. Tabs!DataOK' /\ Tabs!Fresh' /\ Tabs!RightMachine' BY <1>1, <1>3, DataStays
<1>5. ASSUME NEW t \in Tabs!Stores, t # s PROVE Tabs!Points(t)' /\ Tabs!Belongs(t)'
  <2>1. Tabs!Points(t) /\ Tabs!Belongs(t) BY DEF Tabs!DisksInv
  <2>2. Tabs!Meant(t)' => Tabs!Meant(t) BY <1>1, <1>5 DEF Tabs!Meant
  <2>3. url'[t] = url[t] /\ diskLoads'[t] = diskLoads[t] BY <1>3, <1>5 DEF Asked, Tabs!DataOK
  <2>4. Tabs!Points(t)' BY <1>1, <2>1, <2>2, <2>3 DEF Tabs!Points
  <2>5. Tabs!Belongs(t)'
    BY <1>1, <2>1, <2>2, <2>3 DEF Tabs!Belongs, Tabs!Busy, Tabs!Creates, Tabs!Own
  <2> QED BY <2>4, <2>5
<1>6. Tabs!Points(s)' BY <1>1, <1>3 DEF Tabs!Points, Asked, Tabs!DataOK
<1>7. Tabs!Belongs(s)' BY DEF Asked, Tabs!Belongs, Tabs!Busy
<1> QED BY <1>2, <1>4, <1>5, <1>6, <1>7 DEF Tabs!DisksInv

LEMMA ShowDisksKeeps ==
  ASSUME Tabs!DisksInv, Tabs!ShowDisks
  PROVE  Tabs!DisksInv'
<1>1. Tabs!DataOK /\ "Disk" \in Tabs!Stores /\ Tabs!Vm(currentVm) \in Tabs!Urls
  BY UrlTypes DEF Tabs!DisksInv, Tabs!Stores
<1>2. /\ Tabs!Tab("Disk") /\ url' = [url EXCEPT !["Disk"] = Tabs!Vm(currentVm)]
      /\ Tabs!Load("Disk", url'["Disk"])
  BY DEF Tabs!ShowDisks, Tabs!onTabpanelBeforeShow, Tabs!setVirtualmachineId
<1>3. url'["Disk"] = Tabs!Vm(currentVm) BY <1>1, <1>2 DEF Tabs!DataOK
<1>4. Asked("Disk", Tabs!Vm(currentVm)) BY <1>1, <1>2, <1>3, LoadFacts
<1> QED BY <1>1, <1>2, <1>4, TabKeeps

LEMMA ShowInterfacesKeeps ==
  ASSUME Tabs!DisksInv, Tabs!onTabpanelActivate
  PROVE  Tabs!DisksInv'
<1>1. Tabs!DataOK /\ "Interface" \in Tabs!Stores /\ Tabs!Vm(currentVm) \in Tabs!Urls
  BY UrlTypes DEF Tabs!DisksInv, Tabs!Stores
<1>2. /\ Tabs!Tab("Interface") /\ url' = [url EXCEPT !["Interface"] = Tabs!Vm(currentVm)]
      /\ Tabs!Load("Interface", Tabs!Vm(currentVm))
  BY DEF Tabs!onTabpanelActivate
<1>3. Asked("Interface", Tabs!Vm(currentVm)) BY <1>1, <1>2, LoadFacts
<1> QED BY <1>1, <1>2, <1>3, TabKeeps

-----------------------------------------------------------------------------
(* The answers of loads.                                                   *)

LEMMA LoadAnswerKeeps ==
  ASSUME Tabs!DisksInv, NEW s \in Tabs!Stores, NEW load \in diskLoads[s], Tabs!LoadAnswer(s, load)
  PROVE  Tabs!DisksInv'
<1> DEFINE listed == Tabs!Listing(load.url)
<1>1. /\ shown' = [shown EXCEPT ![s] = listed \cap Items[s]]
      /\ changes' = [changes EXCEPT ![s] = Tabs!NoChanges]
      /\ diskLoads' = [diskLoads EXCEPT ![s] = @ \ {load}]
      /\ selection' = IF tab = s THEN selection \cap listed ELSE selection
      /\ box' = IF box.open /\ box.store = s THEN [box EXCEPT !.joined = FALSE] ELSE box
      /\ diskWindow' = IF diskWindow.item \in Items[s] THEN [diskWindow EXCEPT !.joined = FALSE]
                       ELSE diskWindow
      /\ crossed' = [crossed EXCEPT ![s] = ~load.alone]
      /\ UNCHANGED <<currentVm, center, tab, url, owner, syncs, diskAsked>>
  BY DEF Tabs!LoadAnswer
<1>2. /\ Tabs!DataOK /\ Tabs!FormsOK /\ load \in Tabs!LoadsOf
      /\ diskLoads \in [Tabs!Stores -> SUBSET Tabs!LoadsOf]
      /\ shown \in [Tabs!Stores -> SUBSET Tabs!AllItems]
      /\ changes \in [Tabs!Stores -> Tabs!Changes] /\ crossed \in [Tabs!Stores -> BOOLEAN]
      /\ url \in [Tabs!Stores -> Tabs!Urls] /\ owner \in [Tabs!AllItems -> Int]
  BY DEF Tabs!DisksInv, Tabs!DataOK
<1>3. listed \subseteq Tabs!AllItems BY ItemsFinite DEF Tabs!Listing, Tabs!Stores
<1>4. load.url = Tabs!Vm(currentVm) => \A i \in listed : owner[i] = currentVm
  BY DEF Tabs!Listing, Tabs!Vm
<1> HIDE DEF listed
<1>5. Tabs!NoChanges \in Tabs!Changes /\ Tabs!NoChanges.new = {} /\ Tabs!NoChanges.dirty = {}
      /\ Tabs!NoChanges.removed = {}
  BY DEF Tabs!NoChanges, Tabs!Changes
<1>6. load.alone \in BOOLEAN BY <1>2 DEF Tabs!LoadsOf
<1>7. Tabs!DataOK'
  <2>1. /\ shown' \in [Tabs!Stores -> SUBSET Tabs!AllItems]
        /\ changes' \in [Tabs!Stores -> Tabs!Changes]
        /\ diskLoads' \in [Tabs!Stores -> SUBSET Tabs!LoadsOf]
        /\ crossed' \in [Tabs!Stores -> BOOLEAN]
    BY <1>1, <1>2, <1>3, <1>5, <1>6
  <2>2. \A t \in Tabs!Stores : changes'[t] = changes[t] \/ changes'[t] = Tabs!NoChanges
    BY <1>1, <1>2
  <2>3. Tabs!IsFiniteSet({}) BY FS_EmptySet, FiniteT
  <2>4. \A t \in Tabs!Stores : Tabs!IsFiniteSet(changes'[t].new) /\ Tabs!IsFiniteSet(changes'[t].dirty)
    BY <1>2, <1>5, <2>2, <2>3 DEF Tabs!DataOK
  <2> QED BY <1>1, <1>2, <2>1, <2>4 DEF Tabs!DataOK
<1>8. Tabs!FormsOK' BY <1>1, <1>2, <1>3 DEF Tabs!FormsOK
<1>9. Tabs!Fresh'
  <2>1. \A t \in Tabs!Stores : changes'[t].new \subseteq changes[t].new BY <1>1, <1>2, <1>5
  <2> QED BY <1>1, <2>1 DEF Tabs!DisksInv, Tabs!Fresh
<1>10. diskWindow'.vm = diskWindow.vm /\ diskWindow'.kind = diskWindow.kind
  BY <1>1, <1>2 DEF Tabs!FormsOK
<1>11. ASSUME NEW t \in Tabs!Stores PROVE Tabs!Points(t)'
  <2>1. diskLoads'[t] \subseteq diskLoads[t] BY <1>1, <1>2
  <2>2. Tabs!Points(t) BY DEF Tabs!DisksInv
  <2>3. Tabs!Meant(t)' => Tabs!Meant(t) BY <1>1, <1>10 DEF Tabs!Meant
  <2> QED BY <1>1, <2>1, <2>2, <2>3 DEF Tabs!Points
<1>12. ASSUME NEW t \in Tabs!Stores, t # s PROVE Tabs!Belongs(t)'
  <2>1. /\ diskLoads'[t] = diskLoads[t] /\ shown'[t] = shown[t] /\ changes'[t] = changes[t]
        /\ crossed'[t] = crossed[t]
    BY <1>1, <1>2, <1>12
  <2>2. Tabs!Belongs(t) BY DEF Tabs!DisksInv
  <2>3. Tabs!Meant(t)' => Tabs!Meant(t) BY <1>1, <1>10 DEF Tabs!Meant
  <2> QED BY <1>1, <2>1, <2>2, <2>3 DEF Tabs!Belongs, Tabs!Busy, Tabs!Creates, Tabs!Own
<1>13. Tabs!Belongs(s)'
  <2>1. Tabs!Meant(s)' => Tabs!Meant(s) BY <1>1, <1>10 DEF Tabs!Meant
  <2>2. changes'[s] = Tabs!NoChanges /\ shown'[s] \subseteq listed /\ crossed'[s] = ~load.alone
    BY <1>1, <1>2
  <2>3. Tabs!Meant(s)' /\ ~crossed'[s] => load.url = Tabs!Vm(currentVm)
    BY <2>1, <2>2 DEF Tabs!DisksInv, Tabs!Points
  <2> QED BY <1>1, <1>4, <1>5, <2>2, <2>3 DEF Tabs!Belongs, Tabs!Creates
<1>14. Tabs!RightMachine' BY <1>1 DEF Tabs!DisksInv, Tabs!RightMachine
<1> QED BY <1>7, <1>8, <1>9, <1>11, <1>12, <1>13, <1>14 DEF Tabs!DisksInv

-----------------------------------------------------------------------------
(* Changes and their syncs.                                                *)

\* The changes c of the store s are the ones it had, and a new record or more.
More(s, c) == Few(c) /\ \A p \in c.new : p \in changes[s].new \/ p.ref = diskAsked

LEMMA ChangeKeeps ==
  ASSUME Tabs!DisksInv, NEW s \in Tabs!Stores, NEW c, More(s, c), NEW u \in Tabs!Urls,
         NEW excused0 \in BOOLEAN, Synced(s, c, u, excused0), Tabs!FormsOK',
         UNCHANGED <<currentVm, center, tab, owner, crossed>>,
         url' \in [Tabs!Stores -> Tabs!Urls], shown' \in [Tabs!Stores -> SUBSET Tabs!AllItems],
         (diskLoads' = diskLoads /\ diskAsked' = diskAsked + 1) \/ Asked(s, u),
         \A t \in Tabs!Stores : shown'[t] \subseteq shown[t],
         \A t \in Tabs!Stores : Tabs!Meant(t)' => Tabs!Meant(t) /\ url'[t] = url[t],
         Tabs!Meant(s) => u = Tabs!Vm(currentVm),
         Tabs!Meant(s) /\ ~Tabs!Busy(s) /\ ~crossed[s] => Content(c),
         ~excused0 => Tabs!Meant(s) /\ ~Tabs!Busy(s)
  PROVE  Tabs!DisksInv'
<1>1. /\ Tabs!DataOK /\ diskAsked \in Nat /\ changes \in [Tabs!Stores -> Tabs!Changes]
      /\ diskLoads \in [Tabs!Stores -> SUBSET Tabs!LoadsOf] /\ syncs \in SUBSET Tabs!SyncsOf
  BY DEF Tabs!DisksInv, Tabs!DataOK
<1>2. /\ diskLoads' \in [Tabs!Stores -> SUBSET Tabs!LoadsOf] /\ diskAsked' = diskAsked + 1
      /\ \A t \in Tabs!Stores : diskLoads[t] # {} => diskLoads'[t] # {}
      /\ \A t \in Tabs!Stores : \A l \in diskLoads'[t] :
           l.alone => l \in diskLoads[t] \/ (t = s /\ l.url = u)
  BY <1>1 DEF Asked
<1>3. changes' = [changes EXCEPT ![s] = c] BY DEF Synced
<1>4. changes'[s] = c /\ \A t \in Tabs!Stores \ {s} : changes'[t] = changes[t] BY <1>1, <1>3
<1>5. \A q \in syncs' : q \in syncs \/ Syncing(q, s, c, u, excused0) BY DEF Synced
<1>6. Tabs!DataOK'
  <2>1. changes' \in [Tabs!Stores -> Tabs!Changes] BY <1>1, <1>3 DEF More, Few
  <2>2. \A t \in Tabs!Stores : Tabs!IsFiniteSet(changes'[t].new) /\ Tabs!IsFiniteSet(changes'[t].dirty)
    BY <1>1, <1>4, FiniteT DEF Tabs!DataOK, More, Few
  <2>3. syncs' \in SUBSET Tabs!SyncsOf BY <1>1, <1>5 DEF Syncing
  <2> QED BY <1>1, <1>2, <2>1, <2>2, <2>3 DEF Tabs!DataOK
<1>7. \A t \in Tabs!Stores : \A p \in changes[t].new : p.ref \in Int /\ p.ref < diskAsked
  BY <1>1 DEF Tabs!Changes, Tabs!Records, Tabs!DisksInv, Tabs!Fresh
<1>8. \A p \in c.new : p.ref < diskAsked + 1 BY <1>1, <1>7 DEF More
<1>9. \A q \in syncs : \A k \in DOMAIN q.ops :
        q.ops[k].item \in Int /\ (q.ops[k].op = "create" => q.ops[k].item < diskAsked)
  BY <1>1, FirstOp DEF Tabs!DisksInv, Tabs!Fresh
<1>10. Tabs!Fresh'
  <2>1. ASSUME NEW t \in Tabs!Stores, NEW p \in changes'[t].new PROVE p.ref < diskAsked'
    BY <1>1, <1>2, <1>4, <1>7, <1>8
  <2>2. ASSUME NEW q \in syncs', NEW k \in DOMAIN q.ops, q.ops[k].op = "create"
        PROVE  q.ops[k].item < diskAsked'
    <3>1. CASE q \in syncs BY <1>1, <1>2, <1>9, <2>2, <3>1
    <3>2. CASE Syncing(q, s, c, u, excused0)
      <4>1. q.ops[k] \in Sent(c) BY <3>2 DEF Syncing
      <4>2. \E p \in c.new : q.ops[k].item = p.ref BY <1>1, <2>2, <4>1, SentFacts DEF More
      <4> QED BY <1>2, <1>8, <4>2
    <3> QED BY <1>5, <3>1, <3>2
  <2> QED BY <2>1, <2>2 DEF Tabs!Fresh
<1>11. ASSUME NEW t \in Tabs!Stores PROVE Tabs!Points(t)'
  <2>1. Tabs!Points(t) BY DEF Tabs!DisksInv
  <2> QED BY <1>2, <2>1 DEF Tabs!Points
<1>12. ASSUME NEW t \in Tabs!Stores, t # s PROVE Tabs!Belongs(t)'
  <2>1. Tabs!Belongs(t) BY DEF Tabs!DisksInv
  <2>2. ASSUME NEW q \in syncs', Tabs!Creates(q, t)' PROVE q \in syncs /\ Tabs!Creates(q, t)
    BY <1>4, <1>5, <1>12, <2>2 DEF Tabs!Creates, Syncing
  <2>3. changes'[t] = changes[t] BY <1>4, <1>12
  <2> QED BY <1>2, <2>1, <2>2, <2>3 DEF Tabs!Belongs, Tabs!Busy, Tabs!Own
<1>13. Tabs!Belongs(s)'
  <2>1. Tabs!Belongs(s) BY DEF Tabs!DisksInv
  <2>2. ASSUME NEW q \in syncs, Tabs!Creates(q, s)' PROVE Tabs!Creates(q, s)
    <3>1. q.store = s /\ q.ops[1].op = "create" /\ 1 \in DOMAIN q.ops
      BY <1>1, <2>2, FirstOp DEF Tabs!Creates
    <3>2. PICK p \in c.new : p.ref = q.ops[1].item BY <1>4, <2>2 DEF Tabs!Creates
    <3>3. p.ref # diskAsked BY <1>1, <1>9, <3>1, <3>2
    <3> QED BY <3>1, <3>2, <3>3 DEF Tabs!Creates, More
  <2>3. ASSUME Tabs!Meant(s), ~Tabs!Busy(s), ~crossed[s], NEW q \in syncs', Tabs!Creates(q, s)'
        PROVE  q.url = Tabs!Vm(currentVm)
    <3>1. CASE q \in syncs BY <2>1, <2>2, <2>3, <3>1 DEF Tabs!Belongs
    <3>2. CASE Syncing(q, s, c, u, excused0) BY <2>3, <3>2 DEF Syncing
    <3> QED BY <1>5, <3>1, <3>2
  <2>4. Tabs!Meant(s)' /\ ~Tabs!Busy(s)' => Tabs!Meant(s) /\ ~Tabs!Busy(s)
    BY <1>2 DEF Tabs!Busy
  <2>5. ASSUME Tabs!Meant(s), ~Tabs!Busy(s), ~crossed[s]
        PROVE  /\ \A i \in shown'[s] \cup changes'[s].removed : owner'[i] \in {currentVm', Tabs!Removed}
               /\ \A p \in changes'[s].new \cup changes'[s].dirty : p.vm \in Machines => p.vm = currentVm'
    BY <1>4, <2>1, <2>5 DEF Tabs!Belongs, Content, Tabs!Own
  <2> QED BY <2>3, <2>4, <2>5 DEF Tabs!Belongs, Tabs!Own
<1>14. Tabs!RightMachine'
  <2> SUFFICES ASSUME NEW q \in syncs', q.first, ~q.excused, q.ops[1].vm \in Machines
               PROVE  q.url = Tabs!Vm(q.ops[1].vm)
    BY DEF Tabs!RightMachine
  <2>1. CASE q \in syncs BY <2>1 DEF Tabs!DisksInv, Tabs!RightMachine
  <2>2. CASE Syncing(q, s, c, u, excused0)
    <3>1. q \in Tabs!SyncsOf /\ q.url = u /\ ~excused0 /\ ~crossed[s] BY <2>2 DEF Syncing
    <3>2. q.ops[1] \in Sent(c) BY <2>2, <3>1, FirstOp DEF Syncing
    <3>3. Content(c) /\ u = Tabs!Vm(currentVm) BY <3>1
    <3>4. q.ops[1].vm = currentVm BY <1>1, <3>2, <3>3, SentFacts DEF More
    <3> QED BY <3>1, <3>3, <3>4
  <2> QED BY <1>5, <2>1, <2>2
<1> QED BY <1>6, <1>10, <1>11, <1>12, <1>13, <1>14 DEF Tabs!DisksInv

\* What a window adds: a new record, or the row it was opened for.
LEMMA ChangedFacts ==
  ASSUME Tabs!DisksInv, NEW s \in Tabs!Stores
  PROVE  /\ More(s, Tabs!Changed(s))
         /\ Content(changes[s]) /\ Tabs!Own(diskWindow.vm) => Content(Tabs!Changed(s))
<1>1. /\ changes[s] \in Tabs!Changes /\ Few(changes[s]) /\ diskAsked \in Nat
      /\ diskWindow.item \in Int /\ diskWindow.vm \in Int
  BY FiniteT DEF Tabs!DisksInv, Tabs!DataOK, Tabs!FormsOK, Few
<1>2. PICK c : c = changes[s] OBVIOUS
<1>3. CASE diskWindow.item = Tabs!Nobody
  <2>1. PICK p : p = [ref |-> diskAsked, vm |-> diskWindow.vm] OBVIOUS
  <2>2. Tabs!Changed(s) = [c EXCEPT !.new = @ \cup {p}] BY <1>2, <1>3, <2>1 DEF Tabs!Changed
  <2>3. p \in Tabs!Records /\ p.ref = diskAsked /\ p.vm = diskWindow.vm
    BY <1>1, <2>1 DEF Tabs!Records
  <2>4. PICK d : d = Tabs!Changed(s) OBVIOUS
  <2>5. d \in Tabs!Changes /\ d.new = c.new \cup {p} /\ d.dirty = c.dirty /\ d.removed = c.removed
    BY <1>1, <1>2, <2>2, <2>3, <2>4 DEF Tabs!Changes
  <2>6. IsFiniteSet(d.new) /\ IsFiniteSet(d.dirty) BY <1>1, <1>2, <2>5, FS_AddElement DEF Few
  <2> QED BY <1>2, <2>3, <2>4, <2>5, <2>6 DEF More, Few, Content
<1>4. CASE diskWindow.item # Tabs!Nobody /\ diskWindow.joined
  <2>1. PICK p : p = [ref |-> diskWindow.item, vm |-> diskWindow.vm] OBVIOUS
  <2>2. PICK rest : rest = Tabs!Without(c.dirty, {diskWindow.item}) OBVIOUS
  <2>3. Tabs!Changed(s) = [c EXCEPT !.dirty = rest \cup {p}]
    BY <1>2, <1>4, <2>1, <2>2 DEF Tabs!Changed
  <2>4. p \in Tabs!Records /\ p.vm = diskWindow.vm BY <1>1, <2>1 DEF Tabs!Records
  <2>5. rest \subseteq c.dirty BY <2>2 DEF Tabs!Without
  <2>6. PICK d : d = Tabs!Changed(s) OBVIOUS
  <2>7. d \in Tabs!Changes /\ d.new = c.new /\ d.dirty = rest \cup {p} /\ d.removed = c.removed
    BY <1>1, <1>2, <2>3, <2>4, <2>5, <2>6 DEF Tabs!Changes
  <2>8. IsFiniteSet(rest) BY <1>1, <1>2, <2>5, FS_Subset DEF Few
  <2>9. IsFiniteSet(d.new) /\ IsFiniteSet(d.dirty) BY <1>1, <1>2, <2>7, <2>8, FS_AddElement DEF Few
  <2> QED BY <1>2, <2>4, <2>5, <2>6, <2>7, <2>9 DEF More, Few, Content
<1>5. CASE diskWindow.item # Tabs!Nobody /\ ~diskWindow.joined
  <2>1. Tabs!Changed(s) = changes[s] BY <1>5 DEF Tabs!Changed
  <2> QED BY <1>1, <2>1 DEF More
<1> QED BY <1>3, <1>4, <1>5

\* A window that belongs to the store s is closed with what it changed.
LEMMA WindowKeeps ==
  ASSUME Tabs!DisksInv, NEW s \in Tabs!Stores, NEW u \in Tabs!Urls,
         NEW reload \in {"never", "success", "failure"},
         Tabs!Sync(s, Tabs!Changed(s), u, reload, Tabs!LeftOpen(s)),
         diskWindow.kind \in Tabs!Kinds(s), diskWindow' = Tabs!NoWindow,
         url' = url \/ url' = [url EXCEPT !["Disk"] = Tabs!Vm(currentVm)],
         u = url[s] \/ u = Tabs!Vm(currentVm),
         (diskLoads' = diskLoads /\ diskAsked' = diskAsked + 1) \/ Asked(s, u),
         UNCHANGED <<currentVm, center, tab, owner, crossed, shown, selection, box>>
  PROVE  Tabs!DisksInv'
<1>1. /\ Tabs!DataOK /\ Tabs!FormsOK /\ shown \in [Tabs!Stores -> SUBSET Tabs!AllItems]
      /\ url \in [Tabs!Stores -> Tabs!Urls] /\ crossed \in [Tabs!Stores -> BOOLEAN]
      /\ \A t \in Tabs!Stores : Tabs!Points(t) /\ Tabs!Belongs(t)
  BY DEF Tabs!DisksInv, Tabs!DataOK
<1>2. /\ More(s, Tabs!Changed(s))
      /\ Content(changes[s]) /\ Tabs!Own(diskWindow.vm) => Content(Tabs!Changed(s))
  BY ChangedFacts
<1>3. Tabs!LeftOpen(s) \in BOOLEAN BY DEF Tabs!LeftOpen, Tabs!Busy
<1>4. Synced(s, Tabs!Changed(s), u, Tabs!LeftOpen(s)) BY <1>1, <1>2, <1>3, SyncFacts DEF More
<1>5. Tabs!FormsOK' BY <1>1 DEF Tabs!FormsOK, Tabs!NoWindow, Tabs!Nobody
<1>6. diskWindow'.vm = Tabs!Nobody BY DEF Tabs!NoWindow
<1>7. \A t \in Tabs!Stores : Tabs!Meant(t)' => Tabs!Meant(t) BY <1>1, <1>5, <1>6, MeantStays
<1>8. \A t \in Tabs!Stores : Tabs!Meant(t) => url[t] = Tabs!Vm(currentVm)
  BY <1>1 DEF Tabs!Points
<1>9. url' \in [Tabs!Stores -> Tabs!Urls] /\ \A t \in Tabs!Stores : Tabs!Meant(t) => url'[t] = url[t]
  BY <1>1, <1>8, UrlTypes DEF Tabs!Stores
<1>10. Tabs!Own(diskWindow.vm)
  <2>1. diskWindow.vm = Tabs!Nobody => diskWindow.vm \notin Machines
    BY WebappAssumption DEF Tabs!Nobody
  <2> QED BY <1>1, <2>1 DEF Tabs!Own, Tabs!FormsOK
<1>11. Tabs!Meant(s) /\ ~Tabs!Busy(s) /\ ~crossed[s] => Content(Tabs!Changed(s))
  BY <1>1, <1>2, <1>10 DEF Tabs!Belongs, Content
<1>12. ~Tabs!LeftOpen(s) => Tabs!Meant(s) /\ ~Tabs!Busy(s)
  BY <1>1 DEF Tabs!LeftOpen, Tabs!Meant, Tabs!FormsOK
<1> QED BY <1>1, <1>2, <1>3, <1>4, <1>5, <1>7, <1>8, <1>9, <1>11, <1>12, ChangeKeeps

LEMMA SaveDiskKeeps ==
  ASSUME Tabs!DisksInv, Tabs!SaveDisk
  PROVE  Tabs!DisksInv'
<1>1. Tabs!DataOK /\ Tabs!FormsOK /\ "Disk" \in Tabs!Stores /\ Tabs!Vm(currentVm) \in Tabs!Urls
  BY UrlTypes DEF Tabs!DisksInv, Tabs!Stores
<1>2. /\ diskWindow.kind = "disk" /\ url' = [url EXCEPT !["Disk"] = Tabs!Vm(currentVm)]
      /\ UNCHANGED <<currentVm, center, tab, owner, crossed, shown, diskLoads, selection, box>>
  BY DEF Tabs!SaveDisk, Tabs!Same
<1>3. diskWindow.kind \in Tabs!Kinds("Disk") BY <1>2 DEF Tabs!Kinds
<1>4. CASE /\ diskAsked' = diskAsked + 1 /\ diskWindow' = Tabs!NoWindow
           /\ Tabs!Sync("Disk", Tabs!Changed("Disk"), Tabs!Vm(currentVm), "never",
                        Tabs!LeftOpen("Disk"))
  BY <1>1, <1>2, <1>3, <1>4, WindowKeeps
<1>5. CASE UNCHANGED <<changes, syncs, diskWindow, diskAsked>>
  <2>1. Tabs!FormsOK' BY <1>1, <1>2, <1>5 DEF Tabs!FormsOK
  <2>2. \A t \in Tabs!Stores : Tabs!Meant(t)' => Tabs!Meant(t) BY <1>1, <1>2, <1>5, <2>1, MeantStays
  <2>3. \A t \in Tabs!Stores : Tabs!Meant(t) => url[t] = Tabs!Vm(currentVm)
    BY DEF Tabs!DisksInv, Tabs!Points
  <2>4. url' \in [Tabs!Stores -> Tabs!Urls] BY <1>1, <1>2, UrlTypes
  <2>5. url \in [Tabs!Stores -> Tabs!Urls] /\ diskAsked \in Nat BY <1>1 DEF Tabs!DataOK
  <2>6. \A t \in Tabs!Stores : Tabs!Meant(t)' => Tabs!Meant(t) /\ url'[t] = url[t]
    BY <1>2, <2>2, <2>3, <2>5
  <2> QED BY <1>2, <1>5, <2>1, <2>4, <2>5, <2>6, TabsQuietKeeps
<1> QED BY <1>4, <1>5 DEF Tabs!SaveDisk

LEMMA SaveDrbdKeeps ==
  ASSUME Tabs!DisksInv, Tabs!onButtonClickSaveDrbd
  PROVE  Tabs!DisksInv'
<1>1. /\ Tabs!DataOK /\ "Disk" \in Tabs!Stores /\ url["Disk"] \in Tabs!Urls
  BY DEF Tabs!DisksInv, Tabs!Stores, Tabs!DataOK
<1>2. /\ diskWindow.kind = "drbd" /\ url' = url /\ diskWindow' = Tabs!NoWindow
      /\ Tabs!Sync("Disk", Tabs!Changed("Disk"), url["Disk"], "success", Tabs!LeftOpen("Disk"))
      /\ Tabs!Load("Disk", url["Disk"])
      /\ UNCHANGED <<currentVm, center, tab, owner, crossed, shown, selection, box>>
  BY DEF Tabs!onButtonClickSaveDrbd, Tabs!Same
<1>3. diskWindow.kind \in Tabs!Kinds("Disk") BY <1>2 DEF Tabs!Kinds
<1>4. Asked("Disk", url["Disk"]) BY <1>1, <1>2, LoadFacts
<1> QED BY <1>1, <1>2, <1>3, <1>4, WindowKeeps

LEMMA SaveInterfaceKeeps ==
  ASSUME Tabs!DisksInv, Tabs!onButtonClickSave
  PROVE  Tabs!DisksInv'
<1>1. /\ Tabs!DataOK /\ Tabs!FormsOK /\ "Interface" \in Tabs!Stores /\ url["Interface"] \in Tabs!Urls
      /\ diskAsked \in Nat /\ url \in [Tabs!Stores -> Tabs!Urls]
  BY DEF Tabs!DisksInv, Tabs!Stores, Tabs!DataOK
<1>2. /\ diskWindow.kind = "interface" /\ url' = url /\ diskWindow' = Tabs!NoWindow
      /\ diskAsked' = diskAsked + 1
      /\ UNCHANGED <<currentVm, center, tab, owner, crossed, shown, selection, box, diskLoads>>
  BY DEF Tabs!onButtonClickSave, Tabs!Same
<1>3. diskWindow.kind \in Tabs!Kinds("Interface") BY <1>2 DEF Tabs!Kinds
<1>4. CASE Tabs!Sync("Interface", Tabs!Changed("Interface"), url["Interface"], "never",
                     Tabs!LeftOpen("Interface"))
  BY <1>1, <1>2, <1>3, <1>4, WindowKeeps
<1>5. CASE UNCHANGED <<changes, syncs>>
  <2>1. Tabs!FormsOK' BY <1>1, <1>2 DEF Tabs!FormsOK, Tabs!NoWindow, Tabs!Nobody
  <2>2. diskWindow'.vm = Tabs!Nobody BY <1>2 DEF Tabs!NoWindow
  <2>3. \A t \in Tabs!Stores : Tabs!Meant(t)' => Tabs!Meant(t) /\ url'[t] = url[t]
    BY <1>1, <1>2, <2>1, <2>2, MeantStays
  <2>4. diskAsked' \in Nat /\ diskAsked' >= diskAsked BY <1>1, <1>2
  <2> QED BY <1>1, <1>2, <1>5, <2>1, <2>3, <2>4, TabsQuietKeeps
<1> QED BY <1>4, <1>5 DEF Tabs!onButtonClickSave

\* Rows that are removed are rows the store shows.
LEMMA RemoveRowsKeeps ==
  ASSUME Tabs!DisksInv, NEW s \in Tabs!Stores, NEW items, NEW reload \in {"never", "failure"},
         Tabs!Remove(s, items, reload)
  PROVE  Tabs!DisksInv'
<1> DEFINE removed == items \cap shown[s]
           c == [changes[s] EXCEPT !.removed = @ \cup removed, !.dirty = Tabs!Without(@, removed)]
<1>1. /\ box.open /\ box.store = s /\ diskAsked' = diskAsked + 1
      /\ shown' = [shown EXCEPT ![s] = @ \ removed]
      /\ Tabs!Sync(s, c, url[s], reload, Tabs!Busy(s))
      /\ box' = Tabs!NoBox /\ selection' = selection \ removed
      /\ diskWindow' = IF diskWindow.item \in removed THEN [diskWindow EXCEPT !.joined = FALSE]
                       ELSE diskWindow
      /\ UNCHANGED <<currentVm, center, tab, owner, crossed, url, diskLoads>>
  BY DEF Tabs!Remove, Tabs!Same
<1>2. /\ Tabs!DataOK /\ Tabs!FormsOK /\ shown \in [Tabs!Stores -> SUBSET Tabs!AllItems]
      /\ url \in [Tabs!Stores -> Tabs!Urls] /\ Few(changes[s])
      /\ \A t \in Tabs!Stores : Tabs!Points(t) /\ Tabs!Belongs(t)
  BY FiniteT DEF Tabs!DisksInv, Tabs!DataOK, Few
<1>3. removed \subseteq Tabs!AllItems /\ removed \subseteq shown[s] BY <1>2
<1>4. PICK d : d = c OBVIOUS
<1>5. /\ d \in Tabs!Changes /\ d.new = changes[s].new /\ d.dirty \subseteq changes[s].dirty
      /\ d.removed = changes[s].removed \cup removed
  BY <1>2, <1>3, <1>4 DEF Few, Tabs!Changes, Tabs!Without
<1>6. Tabs!Sync(s, d, url[s], reload, Tabs!Busy(s)) BY <1>1, <1>4
<1> HIDE DEF removed, c
<1>7. More(s, d) BY <1>2, <1>5, FS_Subset DEF More, Few
<1>8. Tabs!Busy(s) \in BOOLEAN BY DEF Tabs!Busy
<1>9. Synced(s, d, url[s], Tabs!Busy(s)) BY <1>2, <1>6, <1>7, <1>8, SyncFacts DEF More
<1>10. Tabs!FormsOK' BY <1>1, <1>2 DEF Tabs!FormsOK, Tabs!NoBox, Tabs!Stores
<1>11. diskWindow'.kind = diskWindow.kind /\ diskWindow'.vm = diskWindow.vm
  BY <1>1, <1>2 DEF Tabs!FormsOK
<1>12. \A t \in Tabs!Stores : Tabs!Meant(t)' => Tabs!Meant(t)
  BY <1>1, <1>2, <1>10, <1>11, MeantStays
<1>13. Tabs!Meant(s) BY <1>1, <1>2 DEF Tabs!FormsOK, Tabs!Meant
<1>14. url[s] = Tabs!Vm(currentVm) BY <1>2, <1>13 DEF Tabs!Points
<1>15. ~Tabs!Busy(s) /\ ~crossed[s] => Content(d)
  BY <1>2, <1>3, <1>5, <1>13 DEF Tabs!Belongs, Content
<1>16. shown' \in [Tabs!Stores -> SUBSET Tabs!AllItems]
       /\ \A t \in Tabs!Stores : shown'[t] \subseteq shown[t]
  BY <1>1, <1>2
<1> QED BY <1>1, <1>2, <1>7, <1>8, <1>9, <1>10, <1>12, <1>13, <1>14, <1>15, <1>16, ChangeKeeps

-----------------------------------------------------------------------------
(* The answers of syncs, and the events.                                   *)

\* What stays when an operation is answered: rows and changes get fewer, but
\* for the row that was created; the rest of the sync goes where the store points.
Rest(q, r) ==
  /\ q \in Tabs!SyncsOf /\ q.store = r.store /\ q.url = url[r.store] /\ ~q.first
  /\ \A k \in DOMAIN q.ops : \E j \in DOMAIN r.ops : q.ops[k] = r.ops[j]
Created(r, item) ==
  /\ r.ops[1].op = "create" /\ \E p \in changes[r.store].new : p.ref = r.ops[1].item
  /\ item \in Items[r.store] /\ owner'[item] = r.url.id /\ r.url.of = "vm"
Answered(r) ==
  /\ owner' \in [Tabs!AllItems -> Int] /\ changes' \in [Tabs!Stores -> Tabs!Changes]
  /\ shown' \in [Tabs!Stores -> SUBSET Tabs!AllItems]
  /\ \A i \in Tabs!AllItems :
       owner[i] # Tabs!Nobody => owner'[i] = owner[i] \/ owner'[i] = Tabs!Removed
  /\ \A t \in Tabs!Stores : /\ changes'[t].new \subseteq changes[t].new
                            /\ changes'[t].dirty \subseteq changes[t].dirty
                            /\ changes'[t].removed \subseteq changes[t].removed
  /\ \A t \in Tabs!Stores : \A i \in shown'[t] :
       i \in shown[t] \/ (t = r.store /\ Created(r, i))
  /\ \A q \in syncs' : q \in syncs \/ Rest(q, r)
  /\ UNCHANGED <<diskLoads, diskAsked>> \/ Asked(r.store, url[r.store])
  /\ UNCHANGED <<currentVm, center, tab, url, selection, box, diskWindow, crossed>>

LEMMA AppliedFacts ==
  ASSUME Tabs!DataOK, NEW op \in Tabs!Operations, NEW u \in Tabs!Urls, NEW item,
         op.op = "create" => owner[item] = Tabs!Nobody /\ item \in Tabs!AllItems
  PROVE  LET after == Tabs!Applied(op, u, item)
         IN /\ after \in [Tabs!AllItems -> Int]
            /\ \A i \in Tabs!AllItems :
                 owner[i] # Tabs!Nobody => after[i] = owner[i] \/ after[i] = Tabs!Removed
            /\ op.op = "create" => after[item] = u.id
<1>1. owner \in [Tabs!AllItems -> Int] /\ u.id \in Int BY DEF Tabs!DataOK, Tabs!Urls
<1>2. op.op \in {"create", "update", "destroy"} BY DEF Tabs!Operations
<1>3. CASE op.op = "create"
  <2>1. Tabs!Applied(op, u, item) = [owner EXCEPT ![item] = u.id] BY <1>3 DEF Tabs!Applied
  <2> QED BY <1>1, <1>3, <2>1
<1>4. CASE op.op = "update"
  <2>1. Tabs!Applied(op, u, item) = owner BY <1>4 DEF Tabs!Applied
  <2> QED BY <1>1, <1>4, <2>1
<1>5. CASE op.op = "destroy"
  <2>1. Tabs!Applied(op, u, item) = [owner EXCEPT ![item] = Tabs!Removed]
    BY <1>5 DEF Tabs!Applied
  <2>2. Tabs!Removed \in Int BY DEF Tabs!Removed
  <2> QED BY <1>1, <1>5, <2>1, <2>2
<1> QED BY <1>2, <1>3, <1>4, <1>5

LEMMA CommittedTabs ==
  ASSUME Tabs!DataOK, NEW s \in Tabs!Stores, NEW op \in Tabs!Operations
  PROVE  LET c == Tabs!Committed(s, op)
         IN /\ c \in Tabs!Changes /\ c.new \subseteq changes[s].new
            /\ c.dirty \subseteq changes[s].dirty /\ c.removed \subseteq changes[s].removed
<1>1. PICK c, d : c = changes[s] /\ d = Tabs!Committed(s, op) OBVIOUS
<1>2. c \in Tabs!Changes BY <1>1 DEF Tabs!DataOK
<1>3. op.op \in {"create", "update", "destroy"} BY DEF Tabs!Operations
<1>4. \A rows0 : Tabs!Without(rows0, {op.item}) \subseteq rows0 BY DEF Tabs!Without
<1>5. PICK new, dirty : /\ new = Tabs!Without(c.new, {op.item}) /\ new \subseteq c.new
                        /\ dirty = Tabs!Without(c.dirty, {op.item}) /\ dirty \subseteq c.dirty
  BY <1>4
<1>6. \/ d = [c EXCEPT !.new = new]
      \/ d = [c EXCEPT !.dirty = dirty]
      \/ d = [c EXCEPT !.removed = {}]
  BY <1>1, <1>3, <1>5 DEF Tabs!Committed
<1>7. /\ d \in Tabs!Changes /\ d.new \subseteq c.new /\ d.dirty \subseteq c.dirty
      /\ d.removed \subseteq c.removed
  BY <1>2, <1>5, <1>6 DEF Tabs!Changes
<1> QED BY <1>1, <1>7

LEMMA RestFacts ==
  ASSUME NEW r \in Tabs!SyncsOf, Len(r.ops) # 1, url[r.store] \in Tabs!Urls,
         NEW failed \in BOOLEAN
  PROVE  Rest([r EXCEPT !.ops = Tail(@), !.url = url[r.store], !.first = FALSE, !.failed = failed], r)
<1> DEFINE q == [r EXCEPT !.ops = Tail(@), !.url = url[r.store], !.first = FALSE, !.failed = failed]
<1>1. PICK ops : ops = r.ops OBVIOUS
<1>2. ops \in Seq(Tabs!Operations) /\ ops # <<>> /\ Len(ops) # 1 BY <1>1, FirstOp
<1>3. Tail(ops) \in Seq(Tabs!Operations) /\ Tail(ops) # <<>> BY <1>2, TailIn
<1>4. \A k \in DOMAIN Tail(ops) : \E j \in DOMAIN ops : Tail(ops)[k] = ops[j]
  <2>1. Len(ops) \in Nat /\ Len(ops) > 1 /\ DOMAIN ops = 1 .. Len(ops) BY <1>2, TailIn
  <2>2. DOMAIN Tail(ops) = 1 .. Len(ops) - 1 /\ \A k \in DOMAIN Tail(ops) : Tail(ops)[k] = ops[k + 1]
    BY <1>2, <2>1
  <2>3. \A k \in DOMAIN Tail(ops) : k + 1 \in DOMAIN ops BY <2>1, <2>2
  <2> QED BY <2>2, <2>3
<1>5. q = [r EXCEPT !.ops = Tail(ops), !.url = url[r.store], !.first = FALSE, !.failed = failed]
  BY <1>1
<1> HIDE DEF q
<1>6. q \in Tabs!SyncsOf /\ q.store = r.store /\ q.url = url[r.store] /\ ~q.first /\ q.ops = Tail(ops)
  BY <1>3, <1>5 DEF Tabs!SyncsOf
<1>7. Rest(q, r) BY <1>1, <1>4, <1>6 DEF Rest
<1> QED BY <1>7 DEF q

LEMMA SyncAnswerFacts ==
  ASSUME Tabs!DisksInv, NEW r \in syncs, Tabs!SyncAnswer(r)
  PROVE  Answered(r)
<1>1. /\ Tabs!DataOK /\ r \in Tabs!SyncsOf
      /\ url \in [Tabs!Stores -> Tabs!Urls] /\ owner \in [Tabs!AllItems -> Int]
      /\ shown \in [Tabs!Stores -> SUBSET Tabs!AllItems]
      /\ changes \in [Tabs!Stores -> Tabs!Changes]
  BY DEF Tabs!DisksInv, Tabs!DataOK
<1>2. PICK s, op : s = r.store /\ op = r.ops[1] OBVIOUS
<1>3. s \in Tabs!Stores /\ op \in Tabs!Operations /\ r.url \in Tabs!Urls /\ r.failed \in BOOLEAN
      /\ url[s] \in Tabs!Urls
  BY <1>1, <1>2, FirstOp DEF Tabs!SyncsOf
<1>4. PICK mine : mine = {p \in changes[s].new : p.ref = op.item} OBVIOUS
<1>5. PICK ok \in BOOLEAN, item \in IF op.op = "create" THEN {i \in Items[s] : owner[i] = Tabs!Nobody}
                                    ELSE {op.item} :
        /\ ok => r.url.of = "vm"
        /\ owner' = IF ok THEN Tabs!Applied(op, r.url, item) ELSE owner
        /\ changes' = IF ok THEN [changes EXCEPT ![s] = Tabs!Committed(s, op)] ELSE changes
        /\ shown' = IF ok /\ op.op = "create" /\ mine # {}
                    THEN [shown EXCEPT ![s] = @ \cup {item}] ELSE shown
        /\ LET failed == r.failed \/ ~ok
               over == Len(r.ops) = 1
           IN /\ syncs' = (syncs \ {r}) \cup
                   IF over THEN {}
                   ELSE {[r EXCEPT !.ops = Tail(@), !.url = url[s], !.first = FALSE, !.failed = failed]}
              /\ IF over /\ r.reload = IF failed THEN "failure" ELSE "success"
                 THEN Tabs!Load(s, url[s]) ELSE UNCHANGED <<diskLoads, diskAsked>>
        /\ UNCHANGED <<currentVm, center, tab, url, selection, box, diskWindow, crossed>>
  BY <1>2, <1>4 DEF Tabs!SyncAnswer
<1>6. op.op = "create" => item \in Items[s] /\ item \in Tabs!AllItems /\ owner[item] = Tabs!Nobody
  BY <1>3, <1>5, ItemsFinite
<1>7. /\ owner' \in [Tabs!AllItems -> Int]
      /\ \A i \in Tabs!AllItems :
           owner[i] # Tabs!Nobody => owner'[i] = owner[i] \/ owner'[i] = Tabs!Removed
      /\ ok /\ op.op = "create" => owner'[item] = r.url.id
  BY <1>1, <1>3, <1>5, <1>6, AppliedFacts
<1>8. /\ changes' \in [Tabs!Stores -> Tabs!Changes]
      /\ \A t \in Tabs!Stores : /\ changes'[t].new \subseteq changes[t].new
                                /\ changes'[t].dirty \subseteq changes[t].dirty
                                /\ changes'[t].removed \subseteq changes[t].removed
  <2>1. PICK c : c = Tabs!Committed(s, op) OBVIOUS
  <2>2. /\ c \in Tabs!Changes /\ c.new \subseteq changes[s].new
        /\ c.dirty \subseteq changes[s].dirty /\ c.removed \subseteq changes[s].removed
    BY <1>1, <1>3, <2>1, CommittedTabs
  <2>3. changes' = [changes EXCEPT ![s] = c] \/ changes' = changes BY <1>5, <2>1
  <2> QED BY <1>1, <1>3, <2>2, <2>3
<1>9. shown' \in [Tabs!Stores -> SUBSET Tabs!AllItems] BY <1>1, <1>3, <1>5, <1>6
<1>10. ASSUME NEW t \in Tabs!Stores, NEW i \in shown'[t], i \notin shown[t]
       PROVE  t = r.store /\ Created(r, i)
  <2>1. ok /\ op.op = "create" /\ mine # {} /\ t = s /\ i = item BY <1>1, <1>3, <1>5, <1>10
  <2>2. r.url.of = "vm" /\ owner'[item] = r.url.id /\ item \in Items[s] BY <1>5, <1>6, <1>7, <2>1
  <2>3. \E p \in changes[s].new : p.ref = op.item BY <1>4, <2>1
  <2> QED BY <1>2, <2>1, <2>2, <2>3 DEF Created
<1>11. \A q \in syncs' : q \in syncs \/ Rest(q, r)
  <2>1. CASE Len(r.ops) = 1
    <3>1. syncs' = syncs \ {r} BY <1>5, <2>1
    <3> QED BY <3>1
  <2>2. CASE Len(r.ops) # 1
    <3>1. PICK failed \in BOOLEAN : failed = (r.failed \/ ~ok) BY <1>3
    <3>2. syncs' = (syncs \ {r}) \cup
             {[r EXCEPT !.ops = Tail(@), !.url = url[r.store], !.first = FALSE, !.failed = failed]}
      BY <1>2, <1>5, <2>2, <3>1
    <3>3. Rest([r EXCEPT !.ops = Tail(@), !.url = url[r.store], !.first = FALSE, !.failed = failed], r)
      BY <1>1, <1>2, <1>3, <2>2, RestFacts
    <3> QED BY <3>2, <3>3
  <2> QED BY <2>1, <2>2
<1>12. UNCHANGED <<diskLoads, diskAsked>> \/ Asked(r.store, url[r.store])
  <2>1. UNCHANGED <<diskLoads, diskAsked>> \/ Tabs!Load(s, url[s]) BY <1>5
  <2> QED BY <1>1, <1>2, <1>3, <2>1, LoadFacts
<1>13. UNCHANGED <<currentVm, center, tab, url, selection, box, diskWindow, crossed>> BY <1>5
<1> QED BY <1>7, <1>8, <1>9, <1>10, <1>11, <1>12, <1>13 DEF Answered

LEMMA SyncAnswerKeeps ==
  ASSUME Tabs!DisksInv, NEW r \in syncs, Tabs!SyncAnswer(r)
  PROVE  Tabs!DisksInv'
<1>1. Answered(r) BY SyncAnswerFacts
<1>2. /\ Tabs!DataOK /\ Tabs!FormsOK /\ r \in Tabs!SyncsOf /\ syncs \in SUBSET Tabs!SyncsOf
      /\ diskAsked \in Nat /\ diskLoads \in [Tabs!Stores -> SUBSET Tabs!LoadsOf]
      /\ changes \in [Tabs!Stores -> Tabs!Changes]
      /\ shown \in [Tabs!Stores -> SUBSET Tabs!AllItems]
  BY DEF Tabs!DisksInv, Tabs!DataOK
<1>3. r.store \in Tabs!Stores /\ 1 \in DOMAIN r.ops BY <1>2, FirstOp DEF Tabs!SyncsOf
<1>4. /\ diskLoads' \in [Tabs!Stores -> SUBSET Tabs!LoadsOf] /\ diskAsked' \in Nat
      /\ diskAsked' >= diskAsked
      /\ \A t \in Tabs!Stores : diskLoads[t] # {} => diskLoads'[t] # {}
      /\ \A t \in Tabs!Stores : \A l \in diskLoads'[t] :
           l.alone => l \in diskLoads[t] \/ l.url = url[t]
  BY <1>1, <1>2, <1>3 DEF Answered, Asked
<1>5. \A q \in syncs' : q \in syncs \/ Rest(q, r) BY <1>1 DEF Answered
<1>6. Tabs!DataOK'
  <2>1. \A t \in Tabs!Stores : Tabs!IsFiniteSet(changes'[t].new) /\ Tabs!IsFiniteSet(changes'[t].dirty)
    BY <1>1, <1>2, FiniteT, FS_Subset DEF Answered, Tabs!DataOK
  <2>2. syncs' \in SUBSET Tabs!SyncsOf BY <1>2, <1>5 DEF Rest
  <2> QED BY <1>1, <1>2, <1>4, <2>1, <2>2 DEF Answered, Tabs!DataOK
<1>7. Tabs!FormsOK' BY <1>1, <1>2 DEF Answered, Tabs!FormsOK
<1>8. \A q \in syncs : \A k \in DOMAIN q.ops :
        q.ops[k].item \in Int /\ (q.ops[k].op = "create" => q.ops[k].item < diskAsked)
  BY <1>2, FirstOp DEF Tabs!DisksInv, Tabs!Fresh
<1>9. Tabs!Fresh'
  <2>1. ASSUME NEW t \in Tabs!Stores, NEW p \in changes'[t].new PROVE p.ref < diskAsked'
    <3>1. p \in changes[t].new BY <1>1 DEF Answered
    <3>2. p.ref < diskAsked /\ p.ref \in Int
      BY <1>2, <3>1 DEF Tabs!DisksInv, Tabs!Fresh, Tabs!Changes, Tabs!Records
    <3> QED BY <1>2, <1>4, <3>2
  <2>2. ASSUME NEW q \in syncs', NEW k \in DOMAIN q.ops, q.ops[k].op = "create"
        PROVE  q.ops[k].item < diskAsked'
    <3>1. \E x \in syncs : \E j \in DOMAIN x.ops : q.ops[k] = x.ops[j]
      BY <1>5 DEF Rest
    <3>2. q.ops[k].item \in Int /\ q.ops[k].item < diskAsked BY <1>8, <2>2, <3>1
    <3> QED BY <1>2, <1>4, <3>2
  <2> QED BY <2>1, <2>2 DEF Tabs!Fresh
<1>10. UNCHANGED <<currentVm, center, tab, url, diskWindow, crossed>> BY <1>1 DEF Answered
<1>11. ASSUME NEW t \in Tabs!Stores PROVE Tabs!Points(t)'
  <2>1. Tabs!Points(t) BY DEF Tabs!DisksInv
  <2> QED BY <1>4, <1>10, <2>1 DEF Tabs!Points, Tabs!Meant
<1>12. ASSUME NEW t \in Tabs!Stores PROVE Tabs!Belongs(t)'
  <2> SUFFICES ASSUME Tabs!Meant(t)', ~Tabs!Busy(t)', ~crossed'[t] PROVE
        /\ \A i \in shown'[t] \cup changes'[t].removed : owner'[i] \in {currentVm', Tabs!Removed}
        /\ \A p \in changes'[t].new \cup changes'[t].dirty : Tabs!Own(p.vm)'
        /\ \A q \in syncs' : Tabs!Creates(q, t)' => q.url = Tabs!Vm(currentVm)'
    BY DEF Tabs!Belongs
  <2>1. Tabs!Meant(t) /\ ~Tabs!Busy(t) /\ ~crossed[t]
    BY <1>4, <1>10 DEF Tabs!Meant, Tabs!Busy
  <2>2. /\ \A i \in shown[t] \cup changes[t].removed : owner[i] \in {currentVm, Tabs!Removed}
        /\ \A p \in changes[t].new \cup changes[t].dirty : Tabs!Own(p.vm)
        /\ \A q \in syncs : Tabs!Creates(q, t) => q.url = Tabs!Vm(currentVm)
        /\ url[t] = Tabs!Vm(currentVm)
    BY <2>1 DEF Tabs!DisksInv, Tabs!Belongs, Tabs!Points
  <2>3. currentVm \in Machines BY <1>2, <2>1 DEF Tabs!FormsOK, Tabs!Meant
  <2>4. currentVm # Tabs!Nobody /\ Tabs!Removed # Tabs!Nobody
    BY <2>3, WebappAssumption DEF Tabs!Nobody, Tabs!Removed
  <2>5. \A i \in Tabs!AllItems :
          owner[i] \in {currentVm, Tabs!Removed} => owner'[i] \in {currentVm, Tabs!Removed}
    BY <1>1, <2>4 DEF Answered
  <2>6. shown[t] \subseteq Tabs!AllItems /\ changes[t].removed \subseteq Tabs!AllItems
    BY <1>2 DEF Tabs!Changes
  <2>7. ASSUME NEW i \in shown'[t] PROVE owner'[i] \in {currentVm, Tabs!Removed}
    <3>1. CASE i \in shown[t] BY <2>2, <2>5, <2>6, <3>1
    <3>2. CASE t = r.store /\ Created(r, i)
      <4>1. Tabs!Creates(r, t) BY <3>2 DEF Created, Tabs!Creates
      <4>2. r.url.id = currentVm BY <2>2, <4>1 DEF Tabs!Vm
      <4> QED BY <3>2, <4>2 DEF Created
    <3> QED BY <1>1, <3>1, <3>2 DEF Answered
  <2>8. changes'[t].removed \subseteq changes[t].removed /\ changes'[t].new \subseteq changes[t].new
        /\ changes'[t].dirty \subseteq changes[t].dirty
    BY <1>1 DEF Answered
  <2>9. ASSUME NEW q \in syncs', Tabs!Creates(q, t)' PROVE q.url = Tabs!Vm(currentVm)
    <3>1. CASE q \in syncs BY <2>2, <2>8, <2>9, <3>1 DEF Tabs!Creates
    <3>2. CASE Rest(q, r) BY <2>2, <2>9, <3>2 DEF Tabs!Creates, Rest
    <3> QED BY <1>5, <3>1, <3>2
  <2>10. \A i \in changes'[t].removed : owner'[i] \in {currentVm, Tabs!Removed}
    BY <2>2, <2>5, <2>6, <2>8
  <2>11. \A p \in changes'[t].new \cup changes'[t].dirty : p.vm \in Machines => p.vm = currentVm
    BY <2>2, <2>8 DEF Tabs!Own
  <2> QED BY <1>10, <2>7, <2>9, <2>10, <2>11 DEF Tabs!Own
<1>13. Tabs!RightMachine' BY <1>5 DEF Tabs!DisksInv, Tabs!RightMachine, Rest
<1> QED BY <1>6, <1>7, <1>9, <1>11, <1>12, <1>13 DEF Tabs!DisksInv

LEMMA InsertEventKeeps ==
  ASSUME Tabs!DisksInv, NEW i \in Items["Disk"], Tabs!InsertEvent(i)
  PROVE  Tabs!DisksInv'
<1>1. /\ owner[i] = currentVm
      /\ shown' = [shown EXCEPT !["Disk"] = @ \cup {i}]
      /\ UNCHANGED <<selection, box, diskWindow, url, changes, diskLoads, syncs, diskAsked,
                     currentVm, center, tab, owner, crossed>>
  BY DEF Tabs!InsertEvent, Tabs!Same
<1>2. /\ Tabs!DataOK /\ shown \in [Tabs!Stores -> SUBSET Tabs!AllItems] /\ i \in Tabs!AllItems
  BY ItemsFinite DEF Tabs!DisksInv, Tabs!DataOK, Tabs!Stores
<1>3. shown' \in [Tabs!Stores -> SUBSET Tabs!AllItems]
      /\ \A t \in Tabs!Stores : shown'[t] \subseteq shown[t] \cup {i}
  BY <1>1, <1>2
<1>4. Tabs!DataOK' BY <1>1, <1>2, <1>3 DEF Tabs!DataOK
<1>5. Tabs!FormsOK' /\ Tabs!Fresh' /\ Tabs!RightMachine'
  BY <1>1 DEF Tabs!DisksInv, Tabs!FormsOK, Tabs!Fresh, Tabs!RightMachine
<1>6. ASSUME NEW t \in Tabs!Stores PROVE Tabs!Points(t)' /\ Tabs!Belongs(t)'
  <2>1. Tabs!Points(t) /\ Tabs!Belongs(t) BY DEF Tabs!DisksInv
  <2>2. Tabs!Points(t)' BY <1>1, <2>1 DEF Tabs!Points, Tabs!Meant
  <2>3. Tabs!Belongs(t)'
    BY <1>1, <1>3, <2>1 DEF Tabs!Belongs, Tabs!Meant, Tabs!Busy, Tabs!Creates, Tabs!Own
  <2> QED BY <2>2, <2>3
<1> QED BY <1>4, <1>5, <1>6 DEF Tabs!DisksInv

-----------------------------------------------------------------------------
(* The lists of a machine.                                                 *)

LEMMA TabsBegin == Tabs!Init => Tabs!DisksInv
<1> SUFFICES ASSUME Tabs!Init PROVE Tabs!DisksInv
  OBVIOUS
<1>1. /\ currentVm = Tabs!Nobody /\ center = "list" /\ tab = "general" /\ diskAsked = 0
      /\ url = [s \in Tabs!Stores |-> IF s = "Interface" THEN Tabs!Vm(1)
                                      ELSE [of |-> "none", id |-> Tabs!Nobody]]
      /\ owner \in [Tabs!AllItems -> Machines \cup {Tabs!Nobody}]
      /\ shown = [s \in Tabs!Stores |-> {}] /\ changes = [s \in Tabs!Stores |-> Tabs!NoChanges]
      /\ diskLoads = [s \in Tabs!Stores |-> {}] /\ syncs = {} /\ selection = {}
      /\ box = Tabs!NoBox /\ diskWindow = Tabs!NoWindow /\ crossed = [s \in Tabs!Stores |-> FALSE]
  BY DEF Tabs!Init
<1>2. Tabs!NoChanges \in Tabs!Changes /\ Tabs!NoChanges.new = {} /\ Tabs!NoChanges.dirty = {}
  BY DEF Tabs!NoChanges, Tabs!Changes
<1>3. Tabs!IsFiniteSet({}) BY FS_EmptySet, FiniteT
<1>4. url \in [Tabs!Stores -> Tabs!Urls] BY <1>1 DEF Tabs!Urls, Tabs!Vm, Tabs!Nobody
<1>5. owner \in [Tabs!AllItems -> Int]
  <2>1. \A m \in Machines \cup {Tabs!Nobody} : m \in Int
    BY WebappAssumption DEF Tabs!Nobody
  <2> HIDE DEF Tabs!AllItems
  <2> QED BY <1>1, <2>1
<1>6. Tabs!DataOK BY SMTT(30), <1>1, <1>2, <1>3, <1>4, <1>5 DEF Tabs!DataOK, Tabs!Nobody
<1>7. Tabs!FormsOK
  BY <1>1 DEF Tabs!FormsOK, Tabs!NoBox, Tabs!NoWindow, Tabs!Nobody, Tabs!Stores
<1>8. Tabs!Fresh BY <1>1, <1>2 DEF Tabs!Fresh
<1>9. \A s \in Tabs!Stores : Tabs!Points(s) /\ Tabs!Belongs(s)
  BY <1>1 DEF Tabs!Points, Tabs!Belongs, Tabs!Meant
<1>10. Tabs!RightMachine BY <1>1 DEF Tabs!RightMachine
<1> QED BY <1>6, <1>7, <1>8, <1>9, <1>10 DEF Tabs!DisksInv

LEMMA TabsStep == Tabs!DisksInv /\ Tabs!Next => Tabs!DisksInv'
<1> SUFFICES ASSUME Tabs!DisksInv, Tabs!Next PROVE Tabs!DisksInv'
  OBVIOUS
<1>1. "Disk" \in Tabs!Stores /\ "Interface" \in Tabs!Stores /\ Tabs!Nobody \in Int
  BY DEF Tabs!Stores, Tabs!Nobody
<1>2. \A s \in Tabs!Stores : \A i \in shown[s] : i \in Int
  BY ItemsFinite DEF Tabs!DisksInv, Tabs!DataOK
<1>3. ASSUME Tabs!Windows PROVE Tabs!DisksInv'
  <2>1. "disk" \in Tabs!Kinds("Disk") /\ "drbd" \in Tabs!Kinds("Disk")
        /\ "interface" \in Tabs!Kinds("Interface")
    BY DEF Tabs!Kinds
  <2>2. ASSUME NEW item \in {Tabs!Nobody} \cup shown["Disk"], Tabs!Open("Disk", "disk", item)
        PROVE  Tabs!DisksInv'
    <3>1. item \in Int BY <1>1, <1>2
    <3> QED BY <1>1, <2>1, <2>2, <3>1, OpenWindowKeeps
  <2>3. ASSUME Tabs!Open("Disk", "drbd", Tabs!Nobody) PROVE Tabs!DisksInv'
    BY <1>1, <2>1, <2>3, OpenWindowKeeps
  <2>4. ASSUME NEW item \in {Tabs!Nobody} \cup shown["Interface"],
               Tabs!Open("Interface", "interface", item)
        PROVE  Tabs!DisksInv'
    <3>1. item \in Int BY <1>1, <1>2
    <3> QED BY <1>1, <2>1, <2>4, <3>1, OpenWindowKeeps
  <2> QED BY <1>3, <2>2, <2>3, <2>4, SaveDiskKeeps, SaveDrbdKeeps, SaveInterfaceKeeps,
             CloseWindowKeeps
          DEF Tabs!Windows
<1>4. ASSUME Tabs!Removals PROVE Tabs!DisksInv'
  <2>1. ASSUME Tabs!deleteDisk PROVE Tabs!DisksInv'
    BY <1>1, <2>1, RemoveRowsKeeps DEF Tabs!deleteDisk
  <2>2. ASSUME Tabs!onButtonClickDelete PROVE Tabs!DisksInv'
    BY <1>1, <2>2, RemoveRowsKeeps DEF Tabs!onButtonClickDelete
  <2> QED BY <1>4, <2>1, <2>2, QuestionKeeps DEF Tabs!Removals
<1>5. \/ \E s \in Tabs!Stores : \E load \in diskLoads[s] : Tabs!LoadAnswer(s, load)
      \/ \E r \in syncs : Tabs!SyncAnswer(r)
      \/ \E m \in Machines : Tabs!switchVmEdit(m)
      \/ Tabs!switchContent \/ Tabs!ShowDisks \/ Tabs!onTabpanelActivate
      \/ \E st \in Storages : Tabs!onStorageDiskButtonClick(st)
      \/ Tabs!Windows \/ Tabs!Removals
      \/ \E i \in Items["Disk"] : Tabs!InsertEvent(i)
  BY DEF Tabs!Next
<1> QED BY <1>3, <1>4, <1>5, LoadAnswerKeeps, SyncAnswerKeeps, SwitchVmEditTabsKeeps,
           SwitchContentTabsKeeps, ShowDisksKeeps, ShowInterfacesKeeps, StorageDisksKeeps,
           InsertEventKeeps

LEMMA TabsQuiet == Tabs!DisksInv /\ UNCHANGED diskVars => Tabs!DisksInv'
<1> SUFFICES ASSUME Tabs!DisksInv, UNCHANGED diskVars PROVE Tabs!DisksInv'
  OBVIOUS
<1>1. UNCHANGED <<currentVm, center, tab, url, owner, shown, changes, diskLoads, syncs, selection,
                  box, diskWindow, crossed, diskAsked>>
  BY DEF diskVars
<1>2. Tabs!FormsOK' BY <1>1 DEF Tabs!DisksInv, Tabs!FormsOK
<1>3. diskAsked \in Nat /\ url \in [Tabs!Stores -> Tabs!Urls] BY DEF Tabs!DisksInv, Tabs!DataOK
<1>4. \A t \in Tabs!Stores : Tabs!Meant(t)' => Tabs!Meant(t) /\ url'[t] = url[t]
  BY <1>1 DEF Tabs!Meant
<1> QED BY <1>1, <1>2, <1>3, <1>4, TabsQuietKeeps

\* A tab shows and changes what belongs to the machine that is meant.
THEOREM TabsBelong == WebappSpec => []BelongsToMachine
<1>1. WebappInit => Tabs!DisksInv BY TabsBegin DEF WebappInit
<1>2. Tabs!DisksInv /\ [WebappNext]_<<part, vars, listVars, diskVars, jobVars>> => Tabs!DisksInv'
  <2> SUFFICES ASSUME Tabs!DisksInv, [WebappNext]_<<part, vars, listVars, diskVars, jobVars>>
               PROVE  Tabs!DisksInv'
    OBVIOUS
  <2>1. Tabs!Next \/ UNCHANGED diskVars BY DEF WebappNext
  <2> QED BY <2>1, TabsStep, TabsQuiet
<1>3. Tabs!DisksInv => BelongsToMachine
  <2> SUFFICES ASSUME Tabs!DisksInv PROVE BelongsToMachine
    OBVIOUS
  <2>1. Tabs!RightMachine BY DEF Tabs!DisksInv
  <2>2. Tabs!OwnRows
    BY DEF Tabs!DisksInv, Tabs!OwnRows, Tabs!Belongs, Tabs!Meant
  <2> QED BY <2>1, <2>2 DEF BelongsToMachine, Tabs!BelongsToMachine
<1> QED BY <1>1, <1>2, <1>3, PTL DEF WebappSpec

=============================================================================

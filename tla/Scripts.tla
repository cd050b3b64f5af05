------------------------------- MODULE Scripts -------------------------------
(***************************************************************************)
(* util.js: load_scripts, which both pages of the console use.  A page     *)
(* asks for its scripts, websock.js asks for two more while it runs, and   *)
(* when none is pending any more onscriptsload starts the page.  Scripts   *)
(* arrive in any order and run in the order in which they were asked for:  *)
(* most browsers see to that (async = false), for the others load_scripts  *)
(* puts a script into the document when those before it are there.         *)
(***************************************************************************)
EXTENDS Naturals, Sequences, SequencesExt

CONSTANTS
  Files,      \* the scripts the page asks for, in order
  Asker,      \* the one of them that asks for more while it runs: websock.js
  Nested      \* what it asks for, nothing in a browser with WebSockets

VARIABLES
  engine,     \* Util.Engine: "trident", "presto", or "webkit" for all the others
  readyState, \* of a script; only trident and presto have it
  arrived,    \* scripts the browser has fetched
  document,   \* head: the scripts in the document
  ran,        \* those of them that have run
  ls, ps,     \* Util._loading_scripts, Util._pending_scripts
  events,     \* tasks of the browser: calls of the handler of a script
  started     \* how often onscriptsload was called

vars == <<engine, readyState, arrived, document, ran, ls, ps, events, started>>

All == Files \o Nested
Asks(s) == IF s = Asker THEN Nested ELSE <<>>

\* A script is an element of the page: no two are the same.
ScriptsAssumption ==
  /\ Files \in Seq(ToSet(Files)) /\ Nested \in Seq(ToSet(Nested))
  /\ Asker \in ToSet(Files)
  /\ \A i, j \in DOMAIN All : All[i] = All[j] => i = j

\* load_scripts: trident keeps a script out of the document until it is there.
InDocument(files) == IF engine = "trident" THEN document ELSE document \o files
Loading(files) == IF engine = "trident" THEN ls \o files ELSE ls

\* A script is here: trident says so before it runs.
Fetch(s) ==
  /\ s \in ps \ (arrived \cup ToSet(ran))
  /\ arrived' = arrived \cup {s}
  /\ IF engine = "trident"
     THEN readyState' = [readyState EXCEPT ![s] = "loaded"] /\ events' = Append(events, s)
     ELSE UNCHANGED <<readyState, events>>
  /\ UNCHANGED <<engine, document, ran, ls, ps, started>>

\* The next script of the document runs; its handler is called once or twice
\* (onload and onreadystatechange).
Run ==
  /\ Len(ran) < Len(document)
  /\ LET s == document[Len(ran) + 1]
     IN /\ s \in arrived
        /\ ran' = Append(ran, s)
        /\ document' = InDocument(Asks(s)) /\ ls' = Loading(Asks(s))
        /\ ps' = ps \cup ToSet(Asks(s))
        /\ readyState' = [readyState EXCEPT ![s] = CASE engine = "trident" -> "complete"
                                                     [] engine = "presto" -> "loaded"
                                                     [] OTHER -> @]
        /\ events' = events \o IF engine = "webkit" THEN <<s>> ELSE <<s, s>>
  /\ UNCHANGED <<engine, arrived, started>>

\* n scripts at the beginning of ls are there, and no more of them.
Front_(q, n) ==
  /\ \A i \in 1 .. n : readyState[q[i]] # "loading"
  /\ n < Len(q) => readyState[q[n + 1]] = "loading"
CompleteLoaded(s) == engine = "webkit" \/ readyState[s] \in {"loaded", "complete"}   \* mutant
Complete(s) ==
  engine = "webkit" \/ readyState[s] = "complete" \/ (engine = "presto" /\ readyState[s] = "loaded")

\* The handler of a script, until it is taken off.
Handle ==
  /\ events # <<>> /\ events' = Tail(events)
  /\ LET s == Head(events)
     IN IF s \in ps
        THEN /\ \E n \in 0 .. Len(ls) : /\ Front_(ls, n)
                                       /\ document' = document \o SubSeq(ls, 1, n)
                                       /\ ls' = SubSeq(ls, n + 1, Len(ls))
             /\ ps' = IF Complete(s) THEN ps \ {s} ELSE ps
             /\ started' = IF ps' = {} THEN started + 1 ELSE started
        ELSE UNCHANGED <<document, ls, ps, started>>
  /\ UNCHANGED <<engine, readyState, arrived, ran>>

Init ==
  /\ engine \in {"trident", "presto", "webkit"}
  /\ readyState = [s \in ToSet(All) |-> IF engine = "webkit" THEN "undefined" ELSE "loading"]
  /\ arrived = {} /\ ran = <<>> /\ events = <<>> /\ started = 0
  /\ ps = ToSet(Files)
  /\ ls = (IF engine = "trident" THEN Files ELSE <<>>)
  /\ document = (IF engine = "trident" THEN <<>> ELSE Files)

Next == (\E s \in ToSet(All) : Fetch(s)) \/ Run \/ Handle
Spec == Init /\ [][Next]_vars

-----------------------------------------------------------------------------
(* Properties.                                                             *)

\* In every order of arrivals and handlers the scripts run in the order in
\* which they were asked for, the page starts once and only when all of them,
\* the nested ones included, have run; and it does start when all have arrived.
StartsOnce ==
  /\ IsPrefix(ran, All)
  /\ started \in {0, 1} /\ (started = 1 => ran = All)
  /\ arrived = ToSet(All) /\ events = <<>> /\ ran = document => started = 1

-----------------------------------------------------------------------------
(* What StartsOnce rests on.                                               *)

\* What has been asked for by now.
Requested == IF Asker \in ToSet(ran) THEN All ELSE Files

States == {"undefined", "loading", "loaded", "complete"}
ScriptsTypeOK ==
  /\ engine \in {"trident", "presto", "webkit"}
  /\ readyState \in [ToSet(All) -> States]
  /\ ran \in Seq(ToSet(All)) /\ document \in Seq(ToSet(All)) /\ ls \in Seq(ToSet(All))
  /\ events \in Seq(ToSet(All)) /\ started \in {0, 1}

\* The document and then ls have what was asked for, in that order; the
\* beginning of the document has run.
InOrderAsked ==
  /\ Len(ran) <= Len(document) /\ Len(document) + Len(ls) = Len(Requested)
  /\ \A i \in 1 .. Len(ran) : ran[i] = All[i]
  /\ \A i \in 1 .. Len(document) : document[i] = All[i]
  /\ \A i \in 1 .. Len(ls) : ls[i] = All[Len(document) + i]
  /\ engine # "trident" => ls = <<>>

\* The browser says of a script what has become of it.
ReadyStates ==
  \A s \in ToSet(All) :
    CASE engine = "trident" -> readyState[s] = IF s \in ToSet(ran) THEN "complete"
                                               ELSE IF s \in arrived THEN "loaded" ELSE "loading"
      [] engine = "presto" -> readyState[s] = IF s \in ToSet(ran) THEN "loaded" ELSE "loading"
      [] engine = "webkit" -> readyState[s] = "undefined"

\* Nothing that is to run is taken for done, and a handler is on its way for
\* what has run and for the script that the document waits for.
HandlersCome ==
  /\ arrived \subseteq ToSet(Requested) /\ ps \subseteq ToSet(Requested)
  /\ ToSet(Requested) \ ToSet(ran) \subseteq ps
  /\ ps \cap ToSet(ran) \subseteq ToSet(events)
  /\ engine # "trident" => ToSet(events) \subseteq ToSet(ran)
  /\ ls # <<>> /\ Head(ls) \in arrived => Head(ls) \in ToSet(events)
  /\ started = 1 <=> ps = {}

ScriptsInv == ScriptsTypeOK /\ InOrderAsked /\ ReadyStates /\ HandlersCome

=============================================================================

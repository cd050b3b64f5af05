----------------------------- MODULE JobWindow -----------------------------
(***************************************************************************)
(* The window with the output of a job, controller/Job.js: an interval     *)
(* asks the server once a second, one question at a time, until the job is *)
(* over.  The interval, the guard of the questions and the store belong to *)
(* the page and not to a window: every window that is destroyed clears the *)
(* interval, and a window that opens takes all three over.                 *)
(***************************************************************************)
EXTENDS Integers, FiniteSets

CONSTANTS
  Jobs,
  MaxWindows,    \* bound: windows that are opened
  MaxFailures    \* bound: questions the server does not answer

VARIABLES
  state,         \* state[j], at the server
  detailQuery, refreshIntervalId, intervals,
  job,           \* the job JobOutput's address names
  loads,         \* questions under way
  windows, text, \* text[w]: what a window shows
  opened, failures,
  disturbed      \* history: a window came or went, or a question failed, while one was open

vars == <<state, detailQuery, refreshIntervalId, intervals, job, loads, windows, text, opened,
          failures, disturbed>>

-----------------------------------------------------------------------------

Windows == 1 .. MaxWindows
NoJob == 0
Over(s) == s \notin {"pending", "running"}
NoText == [job |-> NoJob, over |-> FALSE]

\* The job queue.
Runs(j) ==
  /\ ~Over(state[j])
  /\ state' = [state EXCEPT ![j] = IF @ = "pending" THEN "running" ELSE "finished"]
  /\ UNCHANGED <<detailQuery, refreshIntervalId, intervals, job, loads, windows, text, opened,
                 failures, disturbed>>

Kept == detailQuery' = detailQuery   \* mutant: the guard stays as it is
Reset == detailQuery' = 0

\* A double click on a job.
onGridpanelItemDblClick(j) ==
  /\ opened < MaxWindows
  /\ opened' = opened + 1
  /\ windows' = windows \cup {opened'}
  /\ job' = j
  /\ Reset
  /\ refreshIntervalId' = opened' /\ intervals' = intervals \cup {opened'}
  /\ disturbed' = (windows # {} \/ loads # {})
  /\ UNCHANGED <<state, loads, text, failures>>

\* The interval: nothing while a question is under way.
Tick ==
  /\ intervals # {} /\ detailQuery = 0
  /\ detailQuery' = 1
  /\ loads' = loads \cup {[n |-> CHOOSE n \in 0 .. Cardinality(loads) : \A l \in loads : l.n # n,
                          job |-> job]}
  /\ UNCHANGED <<state, refreshIntervalId, intervals, job, windows, text, opened, failures,
                 disturbed>>

\* The text goes to a window that is open: with two of them the id of the
\* component is not unique, and it is either.  Without one the function throws,
\* and so it does when the question failed.
Answer(load) ==
  /\ loads' = loads \ {load}
  /\ \/ /\ windows # {}
        /\ \E w \in windows :
             text' = [text EXCEPT ![w] = [job |-> load.job, over |-> Over(state[load.job])]]
        /\ intervals' = IF Over(state[load.job]) THEN intervals \ {refreshIntervalId} ELSE intervals
        /\ detailQuery' = 0
        /\ UNCHANGED <<failures, disturbed>>
     \/ /\ windows = {}
        /\ UNCHANGED <<text, intervals, detailQuery, failures, disturbed>>
     \/ /\ failures < MaxFailures /\ failures' = failures + 1
        /\ disturbed' = TRUE
        /\ UNCHANGED <<text, intervals, detailQuery>>
  /\ UNCHANGED <<state, refreshIntervalId, job, windows, opened>>

\* Any window: one with a job, or another one of the page.
onWindowDestroy(w) ==
  /\ windows' = windows \ {w}
  /\ intervals' = intervals \ {refreshIntervalId}
  /\ disturbed' = TRUE
  /\ UNCHANGED <<state, detailQuery, refreshIntervalId, job, loads, text, opened, failures>>
AnotherWindow == 0

-----------------------------------------------------------------------------

Init ==
  /\ state = [j \in Jobs |-> "pending"]
  /\ detailQuery = 0 /\ refreshIntervalId = 0 /\ intervals = {}
  /\ job = NoJob /\ loads = {}
  /\ windows = {} /\ text = [w \in Windows |-> NoText]
  /\ opened = 0 /\ failures = 0 /\ disturbed = FALSE

Next ==
  \/ \E j \in Jobs : Runs(j) \/ onGridpanelItemDblClick(j)
  \/ Tick
  \/ \E load \in loads : Answer(load)
  \/ \E w \in windows \cup {AnotherWindow} : onWindowDestroy(w)

Spec == Init /\ [][Next]_vars

-----------------------------------------------------------------------------

\* A window that nothing disturbed since it was opened.
Watched == windows # {} /\ ~disturbed
TheWindow == CHOOSE w \in windows : TRUE

\* In the end it shows how its job ended, and its interval is cleared: the one
\* of a window that a second one followed stays for ever.
Finished ==
  /\ text[TheWindow] = [job |-> job, over |-> TRUE]
  /\ refreshIntervalId \notin intervals
ShowsTheEnd == Watched ~> (~Watched \/ Finished)

=============================================================================

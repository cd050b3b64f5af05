------------------------------- MODULE Webapp -------------------------------
(***************************************************************************)
(* The parts of the page of the administrator: the feed of events, a list  *)
(* with its forms, the lists that belong to a machine, and the window of a *)
(* job.  They share no state, so an execution picks a part and runs it;    *)
(* the feed and the window of a job are fair when they are the part that   *)
(* runs.                                                                   *)
(***************************************************************************)
EXTENDS EventFeed

CONSTANTS
  Names, Ids, Values, ListRequests, Refusals,                     \* Lists
  Machines, Storages, Items, StorageOf, DiskRequests,             \* Disks
  JobIds, JobWindows, Failures                                    \* JobWindow

ASSUME WebappAssumption ==
  \* Rows, machines, storages, disks and interfaces have numbers from 1 on.
  /\ Ids \subseteq Nat \ {0} /\ IsFiniteSet(Ids)
  /\ Absent \notin Values
  /\ Machines \subseteq Nat \ {0} /\ Storages \subseteq Nat \ {0}
  /\ Items \in [{"Disk", "Interface"} -> SUBSET (Nat \ {0})]
  /\ IsFiniteSet(Items["Disk"]) /\ IsFiniteSet(Items["Interface"])
  /\ Items["Disk"] \cap Items["Interface"] = {}

VARIABLES
  part,
  name, view, server, rowStore, requests, window, question, marked, tries, confirms, excused,
  sure, asked, refusals,
  currentVm, center, tab, url, owner, shown, changes, diskLoads, syncs, selection, box,
  diskWindow, crossed, diskAsked,
  state, detailQuery, refreshIntervalId, intervals, job, jobLoads, windows, text, opened,
  failures, disturbed

Rows == INSTANCE Lists WITH
  MaxRequests <- ListRequests, MaxRefusals <- Refusals,
  store <- rowStore, box <- question, selection <- marked
Tabs == INSTANCE Disks WITH
  MaxRequests <- DiskRequests, loads <- diskLoads, window <- diskWindow, asked <- diskAsked
Jobs == INSTANCE JobWindow WITH
  Jobs <- JobIds, MaxWindows <- JobWindows, MaxFailures <- Failures, loads <- jobLoads

-----------------------------------------------------------------------------

listVars == <<name, view, server, rowStore, requests, window, question, marked, tries, confirms,
              excused, sure, asked, refusals>>
diskVars == <<currentVm, center, tab, url, owner, shown, changes, diskLoads, syncs, selection,
              box, diskWindow, crossed, diskAsked>>
jobVars == <<state, detailQuery, refreshIntervalId, intervals, job, jobLoads, windows, text,
             opened, failures, disturbed>>

WebappInit ==
  /\ part \in {"feed", "list", "disks", "job"}
  /\ Init /\ Rows!Init /\ Tabs!Init /\ Jobs!Init

WebappNext ==
  /\ UNCHANGED part
  /\ \/ part = "feed" /\ Next /\ UNCHANGED <<listVars, diskVars, jobVars>>
     \/ part = "list" /\ Rows!Next /\ UNCHANGED <<vars, diskVars, jobVars>>
     \/ part = "disks" /\ Tabs!Next /\ UNCHANGED <<vars, listVars, jobVars>>
     \/ part = "job" /\ Jobs!Next /\ UNCHANGED <<vars, listVars, diskVars>>

\* The interval and the job queue go on, and questions are answered.
JobFairness ==
  /\ WF_jobVars(part = "job" /\ Jobs!Tick)
  /\ WF_jobVars(part = "job" /\ \E load \in jobLoads : Jobs!Answer(load))
  /\ WF_jobVars(part = "job" /\ \E j \in JobIds : Jobs!Runs(j))
FeedFairness ==
  \A b \in Browsers : WF_vars(part = "feed" /\ Poll(b)) /\ WF_vars(part = "feed" /\ HandleRecords(b))

WebappSpec == WebappInit /\ [][WebappNext]_<<part, vars, listVars, diskVars, jobVars>>

-----------------------------------------------------------------------------
(* The properties of the parts; the modules state them.                    *)

\* Lists: a row is removed only as often as the user confirmed it.
Removals == Rows!Removals
\* Lists: a list that nothing is under way for shows the rows of the server.
ListAgrees == Rows!ListAgrees
\* Disks: a tab shows and changes what belongs to the machine that is meant.
BelongsToMachine == Tabs!BelongsToMachine
\* JobWindow: an open window shows how its job ended, and stops asking.
ShowsTheEnd == Jobs!ShowsTheEnd

=============================================================================

# Verification of openPCM

openPCM is a web application (Symfony/Doctrine, `src/src/Jan/ZevirtBundle`) that
manages clusters of KVM hosts: virtual machines, their disks, storages and
networks, and the corosync/pacemaker/DRBD configuration of the hosts.  This
directory holds TLA+ models of its core logic, the TLC runs that check them and
the theorems TLAPS proves about them.  Paths below are relative to
`src/src/Jan/ZevirtBundle` unless they start with `src/`.

## 1. How the program runs

* The **web process** handles REST requests (`Controller/*`).  It writes rows
  with Doctrine and, because `ControlService::isCli()` is false there, calls
  `JobService`, which inserts a `Job` (a JMS queue job with the console command
  as payload).
* The **job queue** (JMS, not part of the repository) starts every pending job
  as a console process `Command/*`.  Several run at once; nothing orders two
  jobs of the same machine and nothing locks a row.
* A **console process** (`isCli()` true) loads the entities it needs once.
  Doctrine's identity map keeps that copy for the life of the process, and a
  flush writes only the columns that changed in it.  Commands go to the nodes
  through `ConnectionService`, which opens one SSH session per node and keeps
  it, the failed ones too.
* The **nodes** run libvirt, pacemaker, corosync and DRBD.  They change on their
  own: guests stop, pacemaker starts and moves resources, nodes drop out.
* The **browser** (`src/web/app`, ExtJS) polls `RestController` for events.

So the hard behaviour is: stale copies in concurrent processes, several steps on
several nodes with no transaction around them, errors that are swallowed in one
place and end the process in another, and unreachable nodes.

## 2. Inventory

For each part: the state it keeps, what it does, with whom it interacts, what is
hard about it, what makes it correct.

**Virtual machine definitions** (`Service/VirtualmachineService.php`, the libvirt
half of `Service/NodeService.php`, `Service/DiskService.php`,
`Command/VirtualmachineCommand.php`, `Controller/VirtualMachineController.php`).
State: the row of a machine (node, default node, state, uuid, disks), the XML file
and the libvirt definition on each node, the volume of a disk, target-role of the
pacemaker resource, the flag *dirty* of a node.  Operations: save
(`persistTasks`), remove (`removeTasks`), save or remove of a disk, scan of a node
(`scanVirtualmachines`), start (`actionStart`).  A machine of an HA cluster is
saved to all nodes of the cluster, one after the other.  Hard: two jobs and a scan
share the XML file, the row and the uuid; nodes fail between two steps; errors of
writes are swallowed.  Correct when a job that succeeded has left the definition
everywhere or remembered where not (dirty), when definitions do not go back in
time, when nothing of a removed machine is left, when a save does not stop a
running guest and a scan removes only what does not belong there.

**DRBD disks** (`Service/DrbdService.php`, `Controller/DiskController.php`,
`Command/DiskCommand.php`).  State: the row of a disk, its counter, its two
hidden child disks, the resource file on two nodes, the resource in pacemaker, the
connection of the peers.  Operations: take a counter (`postPersist`), set up
(`allocateDisks`, `saveConfig`, `pacemakerAdd`, wait for the connection), remove
(stop, wait, unconfigure, delete, remove children).  Hard: counters are read
without a lock, waits are bounded, every name on the nodes depends on the counter.
Correct when counters are distinct, reused only after the files are gone, and no
hidden volume loses its owner.

**Corosync and pacemaker on the nodes** (`Service/NodeService.php`,
`Service/ClusterService.php`, `Command/NodeCommand.php`).  State: the rows of the
nodes, `corosync.conf` and the daemons of each node, `maintenance-mode` of the
cluster.  Operations: rollout of a new configuration (`persistTasks`), removal of a
node (`removeTasks`), deletion of a row by the web.  Hard: a loop over all nodes
that stops daemons, several jobs at once, one attribute shared by all of them.
Correct when pacemaker is stopped in maintenance only, on one node at a time, and
when the cluster ends with one configuration and out of maintenance.

**Event feed** (`EventListener/Entity2Node.php`, `Controller/RestController.php`,
`src/web/app/controller/Events.js`).  State: rows, the table of events, the last
event and the lists of each browser.  Operations: a flush with its event, a poll,
the handling of the answer, the loading of a list.  Hard: ids are given before the
commit, answers and lists cross, rows vanish without an event.  Correct when a
list that is out of date has news waiting and becomes right.

**SSH sessions** (`Service/ConnectionService.php`, `Model/Ssh.php`).  State: one
session per node and process, kept when it failed as well.  Operations: connect
(marks an unreachable node dirty), `exec` (throws on an error), `filePutContents`
(swallows it).  Part of the modules that use it.

**SSH keys of the nodes** (`NodeService::persistTasks` 200-212,
`saveAuthorizedKeys` 529-539, `Ssh::addSshKey` 236-268).  Every node gets the keys
of the others of its cluster, as a rewritten file; two nodes saved at once can lose
a key.  Not modelled, see section 8.

**Power commands and migration** (`VirtualmachineService::actionShutdown`,
`actionDestroy`, `actionMigrate`, ..., polled from `Command/VirtualmachineCommand.php`).
Only `actionStart` is modelled.

**Job queue** (`Service/JobService.php`, `Controller/JobController.php`).  The queue
itself is a bundle outside the repository.  Modelled as pending jobs that workers
take once, in any order.

**VNC console** (`src/web/novnc/include`, the page `Resources/views/Default/vnc.html.twig`
that the iframe of `app/view/vm/Vnc.js` shows; `ui.js` belongs to `novnc/vnc.html`).  It
runs in the browser, one callback at a time: socket events, timers, input events, clicks.

* *Session* (`rfb.js`, `websock.js`, `ui.js`).  State: `rfb_state`, the socket, the timers
  of connecting, disconnecting, sending and messages, the grabbed keyboard.  Operations:
  connect, disconnect, password, the steps of the handshake, every socket event and timer.
  Hard: callbacks of a session that is over arrive in the next one.  Correct when nothing
  of a session outlives it and the protocol is kept.
* *Stream* (`rfb.js` `normal_msg`, `framebufferUpdate`, `encHandlers`; `display.js`
  `renderQ`).  State: the receive queue and what has been taken off it, counters within a
  rectangle, the queue of drawing actions.  Hard: a message is cut anywhere, and the code
  returns and starts again from the top.  Correct when it never loses its place and draws
  every rectangle, in order.
* *Display* (`display.js`).  State: viewport, clean rectangle, canvas, fill style, tile,
  colour map, cursor.  Correct when each pixel of the canvas shows its place of the frame
  buffer in its colour, or a request brings it.
* *Keyboard and mouse* (`input.js`, `rfb.js`).  State: `keyDownList`, the mask of the
  buttons, `mouse_arr`, the drag of the viewport.  Hard: keyups and releases that another
  window sees.  Correct when the guest holds nothing that the console forgot.
* *Page, settings, scripts* (`ui.js`, `webutil.js`, `util.js`).  State: panels, connect
  button, controls, stored settings, attributes of RFB, scripts on their way.
* *zlib* (`jsunzip.js`), *messages* (`rfb.js`, `websock.js`, `base64.js`),
  *authentication* (`des.js`): pure algorithms around a state (history, send queue,
  challenge), correct when bytes come out as the other side means them.

**Web interface** (`src/web/app`): *lists* with their forms (`controller/Virtualmachine.js`,
`Node.js`, `Storage.js`, `Cluster.js`, `Network.js`, `User.js`), *disks and interfaces* of a
machine (`controller/Disk.js`, `Interface.js`, `Navigation.js`, `store/*.js`), the *window of
a job* (`controller/Job.js`).  State: the records of a store, what is changed and not
synchronised, the address of the proxy, windows and questions that are open, requests that
are under way.  Hard: every change sends a request at once and none waits for another;
stores are shared by all machines.  Correct when a list at rest shows the rows, nothing is
removed unasked, and requests reach the machine that is meant.

**Storages** (`Service/StorageService.php`) and the rows of networks, interfaces, templates,
users and groups on the server are not modelled, see section 8.

How they meet: the removal of a DRBD disk saves the virtual machine; both read
the members of a cluster; all flushes feed the events, which change the lists; all node
work goes through the SSH sessions.  The modules of the server are separate because they
share no state beyond that: in `Drbd` the saving of the machine is a step that succeeds or
throws, in `Virtualmachine` a node changes cluster without its corosync rollout.  The
parts of the console share calls, not state: `Rfb` decides when a session is `normal`,
`RfbStream` takes the bytes apart while it is, `Inflate` and `Pixels` take a rectangle that
has arrived whole, `Viewport` says what is seen and asked for, `Keyboard`, `Mouse` and
`Sending` make the messages, `Auth` is the one handshake step with arithmetic in it.  Each
takes the calls of its neighbours in any order they can come.

## 3. Modules

| Module | What it is |
|---|---|
| `Virtualmachine` | definitions of virtual machines: web requests, jobs, scans, nodes |
| `VirtualmachineProofs` | its two inductive invariants, and all its safety properties as theorems |
| `Drbd` | DRBD disks: counters, jobs, nodes, pacemaker, DRBD links |
| `CounterPool` | the abstract specification of the counters: one user per value |
| `DrbdProofs` | all safety properties of `Drbd`, and that it implements `CounterPool` |
| `Corosync` | rollout of the corosync configuration, removal of a node |
| `CorosyncProofs` | three invariants on top of each other, and its safety properties as theorems |
| `EventFeed` | events, polls and lists |
| `FiniteNumbers` | lemmas of `CorosyncProofs`, `WebappProofs`, `ConsoleProofs` and `RfbStreamProofs`: a finite set of ids has a greatest element and a listing in ascending order |
| `Lists` | the store of one list of the web interface: forms, removals, syncs, loads |
| `Disks` | the shared stores of disks and interfaces: tabs, windows, addresses |
| `JobWindow` | the window that polls the output of a job |
| `Webapp` | `EventFeed`, `Lists`, `Disks` and `JobWindow`, side by side |
| `WebappProofs` | the inductive invariants of the feed, of a list and of the lists of a machine, and their safety properties as theorems |
| `MCWebapp` | values of the constants of `Webapp` for TLC, the states it begins with, the fairness |
| `Rfb` | a console session: every state of `rfb.js`, timers, socket, page, server |
| `RfbProofs` | its invariant (where client and server are in the protocol), and its safety properties as theorems |
| `RfbLayout` | what a server sends (RFB 3.8): where the fields of the messages, rectangles and encodings begin and end, as an assumption on the streams |
| `RfbStream` | the messages and encodings out of a stream that is cut anywhere; the render queue |
| `RfbStreamProofs` | the safety properties of the stream as theorems |
| `Viewport` | viewport, clean rectangle, requests and answers |
| `Pixels` | encodings to pixels: styles, tiles, palettes, copies, cursor |
| `Keyboard`, `Mouse` | browser events to key and pointer events |
| `Page`, `Settings`, `Scripts` | panels and modes; query, storage, controls and attributes; the loader |
| `Console` | `Viewport`, `Keyboard`, `Mouse`, `Page`, `Settings`, `Scripts` and `Auth`: what the user has before him |
| `ConsoleProofs` | the inductive invariant of each of the seven, and their safety properties as theorems |
| `Inflate`, `Sending`, `Auth` | zlib streams; messages, base64 and frames; VNC authentication with DES |
| `MCRfbStream`, `MCConsole` | the streams for TLC, built as `RfbLayout` has them; `RfbStream`, the parts of `Console`, `Inflate`, `Sending` and `Pixels`, side by side |
| `MCVirtualmachine`, `MCDrbd`, `MCCorosync`, `MCRfb` | values of the constants for TLC |
| `MCDefinitions` | `Virtualmachine` in two situations: jobs beside jobs, and a scan beside a job |
| `MCJobs` | `Virtualmachine`, `Drbd` and `Corosync` side by side, with their fairness: their jobs end |

`Webapp`, `MCConsole` and `MCJobs` hold several modules in one run.  They share no state, so an
execution picks one at the start (`part`), runs its `Next`, and leaves the variables of the
others as they begin; the properties of the parts are its properties.  `Console` itself lets
the steps of its parts come in any order; `MCNext` takes those of one part at a time.  The number of states
is the sum, not the product.  `WebappInit` lets every part begin in any of its initial states;
`MCInit` fixes those of the parts that are not followed.

How state and actions correspond to the code:

* A **row** is an element of a variable of the database; Doctrine's copy in a
  console process is part of `proc[p]` (`snap` in `Virtualmachine`, `num` and `has`
  in `Drbd`, `list` in `Corosync`).  Each action of a process is the code between
  two commands to nodes or two flushes, so other processes can act in between
  wherever the code waits for something.
* `version` (`Virtualmachine`), `address` (`Corosync`) and the versions of
  `EventFeed` stand for what users edit; a definition carries the version it was made
  from, and a `corosync.conf` the addresses of all nodes it lists.
* `JobFails(p)` is the uncaught exception or fatal error that ends a process; its
  guard says from where.  Swallowed errors are disjuncts of the action that
  swallows them.  A cached session is `conn`: `"dead"` stays dead in that process.
* `queue`, `StartJob` are the job queue; `NodeDown`, `NodeUp`, `ResourceUp`,
  `LinkStep`, `GuestStops`, ... are the environment.
* In the modules of the browser an action is one callback, and what a function of the code
  does is an operator of its name from one state of the client to the next
  (`init_vars`, `rQwait`, `scan_renderQ`, `mouseButton`, `toggleSettingsPanel`, ...).  The
  server is an environment that knows what it sent (`sent`, `screen`, `stream`, `Expected`)
  and against which the properties compare.
* History variables (`promised`, `undone`, `overlapped`, `raced`, `expired`,
  `stranded`, `trusted`, `late`, `lost`, `torn`, `clean`, `disturbed`, `excused`, `sure`, `crossed`) record what happened for the properties; no guard reads them.
  `spent` counts what users and failures have done, against `Budget`.

In `Virtualmachine`, `promised[n][v]` is set when a job exits successfully: it is the
claim "saved" a user sees.  `undone` holds what a remove or a scan undefined on
purpose.  In `Drbd`, `NextFree` is `getNextFreeDrbdCountByCluster` written by what
the loop counts: the rows that stand at the position of their value.  In `EventFeed`,
a transaction is `BeginFlush` ... `Commit` or `Rollback`, so ids can appear out of
order, and the answer of a poll carries the rows of the moment it was made.

`IsRunning` of `Virtualmachine` is `isRunning`: it gives what dominfo says, or "not running"
when dominfo throws, because the node is not reached or because the command fails on a node
that is (`"ask"` in the budget).  The question of `pacemakerAdd` and the write that follows are
one step, as are the two commands of `cibadmin`; a guest that starts between them is not followed.
In `Drbd` a child disk takes two steps, as it takes two flushes: `Allocate` inserts the hidden
row, `LinkChild` names it in the row of the disk and makes the volume.  `Kill` ends a process at
any step (`"kill"`); one killed between the two is `stranded`.  In `Corosync` a process keeps
the rows it has loaded (`seen`), as Doctrine does, and each `getCorosyncConfig` adds those that
came since (`Loads`); the nodes it walks over are those of the first look (`list`).

## 4. Runs

All runs use small sets and a budget: how often users edit, remove, delete or
move, how often a node drops out, how many writes fail unseen.  A node that went
down may come back at any time.  Runs set `CHECK_DEADLOCK FALSE` because with the
budgets used up the system rests.

| Run | Shows | Bounds |
|---|---|---|
| `vm_definitions` | `TypeOK`, `SavedOrDirty`, `NewestSaved`, `RemovedEverywhere`, `UuidIsStable`, `SaveKeepsRunning`, `ScanKeepsMembers` | 1 machine, 2 nodes, one of two situations. Jobs: 2 workers, an edit, a removal, an outage. Scan: a worker, a scanner of the second node, an edit or a removal, and a move of a node to the other cluster or a dominfo that fails |
| `vm_removed_disks` | violation of `DisksOutliveGuest` | one disk, one removal |
| `drbd_disks` | `CountersDistinct`, `ConfigKept`, `HiddenHaveOwner`, `CountersPool` (refinement) | 2 disks, 2 requests, 2 workers, every pair of 2 nodes, 2 polls, 1 removal, 1 kill, or an outage while there is one disk |
| `corosync` | `RollingRestart`, `RolloutsEnd`, `GuardedRestart` | 3 nodes, 1 worker, 2 edits, a removal and one of: a command that throws, an error that is swallowed, an outage, a deleted row |
| `corosync_overlap` | violation of `MaintenanceEnsured` | 3 nodes, 2 workers, 2 edits |
| `corosync_removal` | violation of `NormalAfterRemoval` | 2 nodes, 1 removal |
| `jobs_end` | `JobsFinish` | `Virtualmachine`: 1 worker, a disk, a removal, an outage, a swallowed write |
| | `DiskJobsEnd` | `Drbd`: 1 disk, 2 workers, a removal, an outage, a swallowed write, a kill |
| | `NodeJobsEnd` | `Corosync`: 2 nodes, 2 workers, 2 edits, a removal and one of: a command that throws, an outage, a deleted row, when jobs do not overlap |
| `webapp` | the web interface, part by part, below | |
| `webapp_removals` | violation of `RemovedRowsVanish` | the part `EventFeed` of `webapp` with 2 flushes |
| `vnc_session` | `NoLeak`, `HandshakeKept`, `EndsByItself`, `ComesToAnEnd` | 2 sessions after each other, 2 inputs, an arrival of one or two messages, a fault |
| `vnc_console` | the console, part by part, below | |
| `vnc_stream_lost` | violation of `NeverLost` | two updates, of COPYRECT and of RRE |

The parts of `webapp` and `vnc_console`:

| Part | Property | What it says | Bounds |
|---|---|---|---|
| `EventFeed` | `NewsWaiting`, `CatchesUp` | a list that is out of date about a row that is not deleted has news waiting and becomes right | 2 entities (one a foreign disk), 2 writers, 1 browser, 4 flushes, 1 deletion, 2 loads |
| `Lists` | `Removals` | no DELETE without a question answered yes, but for those sent again | 2 rows, 2 values, 3 requests, 1 refusal, each of six lists |
| | `ListAgrees` | a list at rest shows the rows, unless requests crossed or one was refused | the same |
| `Disks` | `BelongsToMachine` | tabs show their machine, and what is new or removed goes to it | 2 machines, a storage, a disk, an interface, 3 requests |
| `JobWindow` | `ShowsTheEnd` | a window that stays open shows the end of its job and stops asking | 2 jobs, 2 windows, 1 failure |
| `RfbStream` | `StreamKept` | however it is cut, no field is read for another | 6 streams with every message and encoding, pieces of 1 to 21 bytes or the rest, 2 sessions |
| | `InOrder`, `Shown` | queued rectangles are drawn in order, and all of them | the same |
| `Viewport` | `EveryPixelComes` | a pixel shows its place or a request brings it | frame buffers of 4 x 2 and 2 x 2, windows of 2 x 1 and 3 x 2, drags of -2 to 1, 1 request on its way |
| `Keyboard` | `Remembered` | what the guest has down is in `keyDownList` and gets released | 5 keys: return, shift, control, a letter with two characters, a dead key; 3 down at once |
| `Mouse` | `PointerTold` | the guest is told every change; the mask is what is down | 2 buttons and the wheel, 2 collected events |
| `Page` | `PanelsAndModes` | one panel at most, the display clips as saved, no drag without session | 3 settings |
| `Settings` | `Configured` | RFB works with what the user asked for last | 2 booleans, a number, a text, 4 queries, 2 texts that are typed, both storages |
| `Scripts` | `StartsOnce` | the page starts once, after all scripts in order | 3 scripts, 2 nested ones, 3 kinds of browser |
| `Inflate` | `Inflated` | out comes what the server compressed | 2 streams, 4 chunks, 3 in a row, a window of 20 |
| `Sending` | `SameWords` | what the server hears is what was meant, and the other way round | 4 messages out of all kinds, a socket of 100 bytes |
| `Pixels` | `PixelsAgree` | what is painted is what the server shows | 9 x 2 pixels, 3 colours, 2 updates, every encoding, tiles of side 2 |
| `Auth` | `Accepted` | the answer is the DES the server expects, sent once | 4 passwords, 3 challenges, whole or in two pieces |

Why the bounds are enough.  Interference in `Virtualmachine` is between two
processes on one machine and, for HA, between two nodes; machines do not interact
except in the listing of a scan, which the scanned node sees one by one.  A second
edit, removal or outage only repeats a step another process could have taken.
In `Drbd` two disks are enough to collide in a counter; 2 polls have a first, and a last
one; more disks are covered by the proofs.  In `Corosync` three nodes have a first, a
middle and a last one; two edits give a rollout over what an earlier one left, also one that
died half-way, and two that overlap.  Overlap and failures are kept apart (`Bounded` of
`MCCorosync`) in `jobs_end`; the safety properties speak of one process at a time,
and what two do to each other is the finding of `corosync_overlap`.  In `EventFeed` two writers are enough to commit in the reverse order
of their ids.  In `Lists` and `Disks` three requests are two that cross and one behind them.
In `RfbStream` the pieces cut every field of every message somewhere, and
the second session starts with whatever the first left.  In `Viewport` the frame buffers are
larger than the window, equal and smaller in each direction.  The chunks of `Inflate`
have blocks of every type, matches into the same and into earlier chunks, overlapping ones
and the longest one (258).  `Sending` has numbers beyond one byte, texts beyond ASCII, and
frames of every remainder of base64.  In `Pixels` boxes are wider than a byte of pixels and
than a tile; the side of a tile is 2 there and 16 in the code, so the two clipped tiles are
reached in a canvas of 9 x 2.  What the theorems of section 6 cover does not
depend on bounds at all.  Symmetry (disks, nodes, workers, requests) is used in `drbd_disks`
only, whose properties are safety formulas.

Beyond these runs, modules were checked alone with larger bounds:
`Viewport` with 2 requests on their way (2.2 million states), `Disks` with 4 requests (3.8
million), `Lists` with every first state of the rows (1.1 million), `Sending` with 5 messages.

## 5. Fairness

`FairSpec` assumes weak fairness of each process (a console process that was started
keeps running until it returns; every wait of the code is a command or a bounded
poll) and of taking each job (JMS dispatches pending jobs; nothing holds a job back
except workers, which end).  There is no fairness for users, nodes, guests, pacemaker, DRBD
or for a removal started by hand: `JobsFinish`, `DiskJobsEnd` and `NodeJobsEnd` hold although
nodes may stay
away and disks may never connect.  A process that is killed has ended, and nothing makes
`Kill` happen.  The three properties say that, once users ask for nothing more (as the budgets
have it), a time comes at which no job is pending and no process works.  `MCSpec` of `MCJobs`
asks for fairness of the steps within the bounds, which for `Corosync` only say which of the alike workers takes a job and that jobs overlap or something
fails, not both.

In the browser a timer that was set fires (`Rfb`: the timeouts; `RfbStream`: the 10 ms timer
behind a message, unless the stream is lost), an image that was given its data loads and
`requestAnimationFrame` comes back (`RfbStream`), the intervals of `Events.js` and of the
job window go on and their questions are answered, also by a failure (`MCWebapp`), and a job
of the queue runs on.  Nothing is assumed of the user, of the socket or of the server:
`ComesToAnEnd` holds because the code sets a timer, and `Shown` says what follows once all
bytes have arrived.

## 6. What is proved

`Virtualmachine`, for all constants that satisfy `ConstantsAssumption`:

* `TypeCorrect`: `Spec => []TypeOK`.
* `PromisesKept`: `Spec => []SavedOrDirty`, for any number of nodes, machines, jobs and
  scans at once.  `SavedOrDirty` is not inductive: it speaks of jobs that have exited,
  so the invariant must say what a job has done before.  `SavingInv` adds `Shape` (where
  a process can be, and that what it holds has been loaded) and `Covered`: a saving
  process has, for each of its targets, either kept the pair (defined, dirty or undone)
  or still has it in `todo`.  At the exit `todo` is empty, so the promise it makes is
  kept.  The proof goes action by action (`...Keeps`); pairs stay kept (`KeptGrows`)
  because every step that undefines records it in `undone`.
* `NewestKept`, `Removed`, `UuidKept`, `RunningKept`, `MembersKept`: `NewestSaved`,
  `RemovedEverywhere`, `UuidIsStable`, `SaveKeepsRunning` and `ScanKeepsMembers`.  They speak of
  rows, of nodes or of one step; why they hold is in the memory of the processes.
  `CopiesInv` relates the copies to rows and nodes: a machine that two processes never held
  has at most one holder (`Alone`), and the only copy agrees with the row (`CopyOK`); what left
  the list of a saving process is saved in its version (`NewestBy`), what a removal leaves
  defined is still on its list (`LeftBy`); while no node moved, a process works on
  nodes of the machine's cluster only (`PlacedBy`); and without outages no session is dead
  (`Connected`).  It is inductive together with `SavingInv` (`Copies`).  A step of one process
  must not take these from another: `Effect` bounds what a step does to rows, copies and
  nodes, each action has a lemma that it keeps to that (`...Effect`, `...Copies`), and
  `EffectKeeps` shows once that such a step leaves the others what they have.

`Drbd`, for all constants that satisfy `DrbdAssumption`:

* `TypeCorrect`, with `Busy` (a busy process holds a disk that has or had a row).
* `DistinctCounters`: `Spec => []CountersDistinct`.  `NextFreeFacts` shows that the search
  returns the position of the first row that is not in its place, `NextFreeUnused` that
  no row has that value when the values in use are distinct: below a value `c` that
  stands in its place there are exactly `c` rows, one for each smaller value, so one
  more row with `c` would be in its place as well.  `CounterInv` adds what is on its way:
  without a race there is one request at most, and no row has its value.
* `PoolRefined`: until two requests read the counters at once, `Spec` implements
  `CounterPool` with `counter` as `holds`.  A commit takes a value, the deletion of a row
  gives it back, all other steps stutter.
* `HiddenOwned`: `Spec => []HiddenHaveOwner`, wherever processes are killed: a hidden child is
  linked, or in the hands of the job that inserted it, or its disk is one of the two that the
  property names (`stranded`, `expired`).
* `ConfigStays`: `Spec => ConfigKept`, from `Exclusive`: as long as no disk was set up
  and removed at once, a job has its disk to itself and works with the disk's counter
  until it deletes the row; so what it writes or empties is its own disk's file.

`EventFeed`, for all constants that satisfy `FeedAssumption`:

* `ListsGetCorrected`: `Spec => []NewsWaiting`, for any number of rows, writers and browsers.
  `NewsWaiting` is not inductive: an event that is waiting need not help (an update does not
  add a row, an insert does not replace one), and a list comes from rows read before.  `Fresh`
  says that a content differs from the rows only where an event of the right kind is still
  behind a given id; the invariant says it of the list behind `lastEvent`, of rows being read
  as long as no poll has overtaken them, and of an answer on its way behind the last id it will
  move `lastEvent` to (`Known`).  `HandledFacts` shows that whatever `handleRecords` skips is
  behind the new `lastEvent`, or of a foreign disk.  That a set of ids has a last one comes
  from the well-foundedness of strict inclusion (`Greatest`).

`Webapp`, if rows, machines, storages, disks and interfaces have numbers from 1 on, rows, disks
and interfaces are finitely many, no item is a disk and an interface, and the mark of an absent
row is no value (`WebappAssumption`).  The theorems are about `WebappSpec`, the initial states and steps of the run
without its fairness, and so about any numbers of requests, refusals and windows:

* `RemovedWhenConfirmed`: `WebappSpec => []Removals`, and `ListShowsTheRows`:
  `WebappSpec => []ListAgrees`, from `ListInv`.  Neither is inductive.  For `Removals` the
  invariant says that a row that is not excused is named by one DELETE under way at most,
  that each row the store still counts as removed has one (`Confirmed`), and that while the server
  has not handled it there is a yes that no try has used up.  For `ListAgrees` it
  says what the only request under way will bring: the store differs from the rows of the server in
  just the row that is created, edited or removed (`Brings`), and a request that another one
  crosses is no longer `clean`.  `ServeBrings` and the lemmas of the answers take that through
  the server and back; that a sync sends just the changes of the store is `OpsFacts` with
  the listing of a finite set.
* `TabsBelong`: `WebappSpec => []BelongsToMachine`, from `DisksInv`.  What a tab shows comes
  from answers asked for earlier, so the invariant follows the address: while a store is the
  one of the open tab, or of a window that was not left open, it points to the machine of
  the editor, and so does the only load under way (`Points`); once it is loaded, its rows, also
  those waiting to be saved or removed, and the rows it creates belong to that machine (`Belongs`).  References
  of new records are not given twice (`Fresh`), without which an answer could be taken for
  another's.

`Corosync`, for all constants that satisfy `CorosyncAssumption`, in particular any number of
nodes and workers:

* `RolloutsRoll`: `Spec => []RollingRestart`, and `RestartsGuarded`: `Spec => GuardedRestart`.
  Neither is inductive: both speak of some steps of a rollout and follow from what holds at
  the others.  `SafeInv` says where a process is in its list (`Place`), that of the nodes that ran
  pacemaker when the job began (`ran`) and those that are `Done` it is down on the one at the
  head of the list at most, and on none between two nodes (`Rolled`), and that a process
  about to stop pacemaker has put the cluster into maintenance (`Guarded`); the latter two as
  long as processes do not overlap, when the others are idle (`Alone`).  Failures, outages,
  deleted rows and rollouts that died half-way are not excepted from `RollingRestart`.
* `RolloutsConsistent`: `Spec => []RolloutsEnd`.  `QuietInv`, for as long as nothing has failed
  or was removed: a file is missing on the node that is being written only, so no step throws
  (`NoFailure`), and the node that is asked to leave maintenance answers (`BackToNormal`).
  `ConfigInv`, while no row was deleted: a rollout has brought the present configuration to the
  nodes that are done and goes to all members (`Fresh`), or a row was saved since it was loaded,
  and then that node's file is not the present one and its own job is pending (`Behind`).  No
  file lists an address that is newer than its row, so a file that is behind stays behind.  `QuietSteps` sums the actions up for both.  That a list of the
  members exists, `Listed`, is `ListingExists`.

`Console`, for all constants that satisfy `ConsoleAssumption`.  It is the conjunction of what
the modules of the parts assume of theirs:

* `ViewportAssumption`, `PageAssumption`: sizes are pairs of natural numbers, drags integers;
  "clip" and "cursor" are among the settings (`ui.js` begins with them).
* `MouseAssumption`: the wheel is none of the buttons that go down and up.
* `KeyboardAssumption`: characters are numbers; the arrows and the other keys that print
  nothing come without one (Firefox says `which` 0 in their keypress); a key with a keysym in
  both events (backspace, tab, return, escape, delete) has no other character than its own.
  `getKeysymSpecial` relies on it: otherwise a press would be noted with one keysym and sent
  with another.
* `ScriptsAssumption`: the scripts are different, and the one that asks for more is of the page.
* `SettingsAssumption`: the cursor has a checkbox, every setting a default that is not null,
  the rendered page has no setting of its own, and `toLowerCase` leaves lower case as it is.
* `AuthAssumption`: passwords and challenges are sequences of bytes, a challenge has 16.

The theorems are about `ConsoleSpec`, without the bounds on sizes and budgets that the
run needs.  Each part has an invariant at the end of its module, and `ConsoleProofs` shows
that each action keeps it:

* `PixelsCome`: `ConsoleSpec => []EveryPixelComes`.  The property speaks of the next
  request, which covers only what is not clean, so `ViewInv` says that what is clean is shown or
  on its way: modified and owed to an incremental request, or in the box of a full one
  (`CleanShown`, `OnTheWay`).  It needs that the clean part is in the viewport, the
  canvas as large as it, and the viewport within the frame buffer (`Displayed`, `Fits`).
  `viewportChange` is taken in its two steps: `SizeChangeKeeps` keeps the pixels of the smaller
  of two viewports, `PositionChangeKeeps` follows a pixel through the two copies of the canvas,
  along and down.  A clean part no wider or no higher than a pixel counts for nothing: the
  code takes it for empty and asks for all that is in view (`DirtyCover`).
* `KeysRemembered`: `ConsoleSpec => []Remembered`, for any keys and characters.  `KeysInv` adds
  that a guest that is only viewed has no key down; with it whatever the console does not send
  is not down either.  `KeysymFacts` says that the keysym that is noted at a press is the
  one that is sent, `SpliceFacts` that taking the entry of one key out leaves the others.
* `ButtonsTold`: `ConsoleSpec => []PointerTold`, for any set of buttons.  A release must find the
  session in the mode in which it ends a drag, so `MouseInv` adds `DragsInMode`.
* `PageStaysConsistent`: `ConsoleSpec => []PanelsAndModes`, for any other settings.  The
  handlers of `ui.js` call each other; there is one lemma per handler, and `PageInv` is the
  property with the type of the page.
* `PageStartsOnce`: `ConsoleSpec => []StartsOnce`, for any scripts and all three kinds of browser.
  `ScriptsInv` says that document and `ls` hold what was asked for in its order
  (`InOrderAsked`), what `readyState` tells of a script in each browser (`ReadyStates`), and that a
  handler is on its way for each script that has run and not been counted, and for the one that
  the document waits for (`HandlersCome`); so the page cannot get stuck with all scripts there.
* `SettingsKept`: `ConsoleSpec => []Configured`, for any settings, defaults, queries and texts.
  `SettingsInv` relates the places where a setting is: what is stored means what is
  wanted (`StoredIsWanted`), `WebUtil.settings` is a copy of `chrome.storage` (`Copied`), a page
  that began has a value for each setting (`Begun`), and in an open menu the controls hold what
  their kind can (`Controlled`).
* `AnsweredOnce`: `ConsoleSpec => []AuthInv`, for any passwords and challenges.  Until the answer
  the queue and what is still to come make up the challenge; the answer is `genDES` of the
  whole challenge and of the password that is there then; afterwards nothing is left.  That
  is the part of `Accepted` which depends on the order of pieces, dialog and timer.
* `PasswordAccepted`: `ComputesDes => (ConsoleSpec => []Accepted)`.  `ComputesDes` says that `genDES`
  is DES for the passwords and challenges there are; it speaks of constants only.  A proof of it
  would unroll 16 rounds defined by recursion; TLC evaluates it for those of the run
  (an answer that differed would violate `Accepted`).

`Rfb`, if there is a connection and the budget is one of numbers (`RfbAssumption`):

* `NothingLeaks`: `Spec => []NoLeak`, `HandshakeIsKept`: `Spec => []HandshakeKept`, and
  `SessionsEndByThemselves`: `Spec => EndsByItself`, for any number of sessions after each
  other.  None is inductive: that the server is never confused depends on all that is
  on its way.  `IInv` (`SessionsInOrder`) has two layers.  `Core` and `Start` hold in every session,
  also in one that callbacks of an earlier one disturb.  `Session` holds while `clean`: no timer
  is set in a state it does not belong to, and client and server are at matching places of
  the protocol.  What the client said and the server has not heard is `Pipe`, in the wire or
  in the send queue, so that flushing a queue is no step of the protocol; `Fits` says what may be
  in it for each stage of the server, `Step` for each state of the client, with what
  waits in the receive queue.  Each case of `init_msg` is proved for both layers
  (`...Onward`, `Clean...`), each function of `rfb.js`, `websock.js` and `ui.js` has a lemma on
  what it returns (`...Facts`).

`RfbStream`, for all constants that satisfy `RfbStreamAssumption` and `LayoutAssumption`, so
for pieces of any size (`Chunks` only has to be a set of numbers), any `RQMax` and any number of
sessions:

* `LayoutAssumption` (`RfbLayout`) is what the protocol promises: a stream is laid out as RFB
  3.8 has it.  Each byte at which a message, a rectangle or a part of one begins carries that
  place, with the rectangles and parts that are left, and from it on are the fields the
  server owes there, up to the next place; a stream ends behind a message.  Of the filters of TIGHT
  it has the palette only, as rfb.js throws at any other.  A pixel has at
  least one byte, and a rectangle with pixels is at least 1 x 1.  TLC evaluates it for the
  streams of the runs, which `MCRfbStream` puts together from messages, in all encodings.
* `StreamIsKept`: `Spec => []StreamKept`.  Not inductive: what the next read gets depends on
  where `FBU` believes to be.  `Resting` relates the two between callbacks: the queue begins in
  front of a message when no rectangle is left, in front of a header when `FBU.bytes` is 0,
  and otherwise within a rectangle, in front of as many lines, subrectangles or tiles as
  `FBU` still counts, while the counters of the other encodings are 0.  A session that begins
  needs only that `FBU.rects` and the counters are reset; `FBU.bytes` is left behind by
  `init_vars`, which is why `Resting` says nothing of it without a rectangle.  A stream that is
  `torn` (COPYRECT, RRE or SetColourMapEntries cut in their header) is not followed: what
  that leads to is the finding `NeverLost`.
* A handler that finds all its bytes takes exactly the fields laid out there (`Moved` says how
  far it is, with everything else the same), one that does not leaves the queue where it can go
  on; each has a lemma for that (`...Kept`).  The loops of `framebufferUpdate` and of
  `display_hextile` are functions on the number of turns; the lemmas on loops follow
  the turns from a number to its successor without the library's induction (`AllNumbers`,
  by the greatest member of a finite set).  The loop over the tiles ends because each turn takes
  a byte that has arrived.
* `DrawnInOrder`: `Spec => []InOrder`, also of streams that are torn; of the layout it needs only
  that a stream has a length.  What waits in `renderQ` is in the order of the rectangles and none
  of it is before what has gone through it (`Order`), and every function keeps that whatever it
  reads (`...Keeps`).

TLC checked `SavingInv`, `CopiesInv`, `CounterInv`, `Busy` and `Exclusive`, and the invariants
of `CorosyncProofs` (with two nodes), `WebappProofs` (with `ListInv` and `DisksInv`), `Console`,
`RfbProofs` and `RfbStreamProofs` (`DecoderInv`), on the instances of the runs before they were
proved.

Only model-checked:

* the liveness properties (`JobsFinish`, `DiskJobsEnd`, `NodeJobsEnd`, `CatchesUp`, `ShowsTheEnd`,
  `ComesToAnEnd`, `Shown`): the prover handles neither fairness nor ENABLED;
* `Inflated`, `SameWords`, `PixelsAgree`: `Inflate`, `Sending` and `Pixels` compute over sequences
  by recursion, and the properties say what comes out of it, which is out of the prover's reach;
* `ComputesDes`, the hypothesis of `PasswordAccepted`: on the 3 passwords that are not empty and
  the 3 challenges of the run, 18 blocks.

The proved modules declare no RECURSIVE operator; the loop of the counters of `Drbd` is
written without induction (by what it counts), which is why it can be proved about.

## 7. What the checks found

Findings (violations of what the code says of itself):

* `DisksOutliveGuest` (`VirtualmachineService.php:134`): removing a machine deletes the disks
  of a guest that runs, then refuses because it runs.
* `NormalAfterRemoval` (`NodeService.php:305`): after the removal of a node the cluster
  stays in maintenance when `$nodes[0]` is the removed node.
* `MaintenanceEnsured` (`NodeService.php:257`): two rollouts share `maintenance-mode`: the one
  that ends clears it between the check and the stop of the other, which then stops pacemaker
  outside maintenance although it has made sure of it (232).
* `RemovedRowsVanish` (`Entity2Node.php:17`): the listener has `postRemove`, and `Events.js:73`
  handles the event, but the event is not subscribed; a list shows a deleted row until it is
  loaded again.
* `NeverLost` (`rfb.js:1124`): a COPYRECT or RRE rectangle whose body has not arrived
  returns "more data" with its header gone and `FBU.bytes` 0; the next call reads what
  follows as a header, and the console is out of step with the server.

Exceptions that had to be written into properties.  Each was needed, TLC gives a
behaviour without it, and each is a gap of the code that no document speaks of:

* `CountersDistinct`, `raced`: requests that read the counters at once take the same
  value; after such a race (0, 0, 1) later requests collide even one at a time.
* `HiddenHaveOwner`, `expired`: a removal that has waited a minute for the disconnect returns
  in silence (`DrbdService.php:316`), `DiskService::removeTasks` deletes the row (76-77), and the
  job succeeds; volumes, files and resource stay.
  `stranded`: `allocateDisks` commits a child (381-382) before the row that names it
  (`DiskService.php:22`), and a process that dies in between leaves it without an owner.
* `ConfigKept`, `overlapped`: a disk that is removed while it is set up.
* `NewestSaved`, `UuidIsStable`, `RemovedEverywhere`, `overlapped`: two processes that
  hold the same machine; and a write that failed unseen (`filePutContents`).
* `SaveKeepsRunning`: `isRunning` looks at the node of the row only, which pacemaker may
  have made wrong, and takes an unreachable node, or a dominfo that fails, for a stopped guest:
  the step at which dominfo failed is excepted.  The removal asks in the same way, so
  it undefines a guest that runs when dominfo fails (`VirtualmachineService.php:140`).
* `ScanKeepsMembers`, `OneScanner`: after a node changed its cluster, one scan may move a machine
  into the cluster of the node whose listing another scan works off; the other then
  undefines it there (`NodeService::scanVirtualmachines`).
* `RolloutsEnd`, `Undisturbed`: a rollout that fails leaves the cluster in
  maintenance, and saving the same node again is skipped (`NodeService.php:219`).
* `GuardedRestart`, `overlapped`: see `MaintenanceEnsured`; and a swallowed error of
  `crm_attribute`.  `RollingRestart`, `overlapped`: two rollouts may each have a node down.
* `NewsWaiting`, `trusted` and `late`: lists read before the last event was known or
  overtaken by a poll; events that commit behind `lastEvent`; the first event of an
  installation (`RestController.php:109`); and `gone`: rows that were deleted
  (`RemovedRowsVanish`).
* `CatchesUp`, `gone` as above; `Poisoned` and `edits`: an event whose row was deleted makes every
  later poll fail (`RestController.php:90`); the first event of a disk before a machine was opened stops the loop
  (`Events.js:55`).
* `Removals`, `excused`: a DELETE that was refused or is still under way is sent again with
  the next change.  `ListAgrees`, `sure`: a save while a POST is outstanding posts twice; answers
  that overtake each other write older values.
* `BelongsToMachine`: crossing loads show another machine's disks; windows left open post to
  the machine that is shown now; later operations of a sync take the address of the moment.
* `HandshakeKept`, `EndsByItself`, `NoLeak`, `clean`: a session that began while callbacks
  of an earlier one were outstanding may be ended by them.
* `PixelsAgree`: the cached fill style is stale after the canvas changed its size
  (`display.js` 250), COPYRECT copies from outside the viewport, and the cursor has red and
  blue exchanged (`display.js:742`).
* `SameWords`: clipboard text with characters above 255 corrupts its frame (`rfb.js:1769`).
* `PointerTold`, `disturbed`: presses and releases that the page does not see.
* `StreamKept`, `torn`: `NeverLost`, and SetColourMapEntries, which does not wait
  for its header.
* `Configured`, `Misread`: a checkbox of the rendered page takes the empty text and "False", "No"
  for yes, where the settings of `ui.js` take them for no.

Also noticed while modelling, in the server:

* The scan compares a machine with the scanned node after it has set the node
  (`NodeService.php:688`); it flushes rows loaded before a save (703).
* Errors swallowed: of `cibadmin` (`NodeService.php:121`), so no second node is tried; of
  `vol-create-as` (`DiskService.php:93`), so a volume is never made; of a missing session in
  the check that a volume is gone (170); of `setMaintenanceMode` when no node accepts it
  (`ClusterService.php:62`).  `pacemakerDelete` sends an unclosed element
  (`DrbdService.php:103`).
* `virsh undefine` throws on a node without the definition (`NodeService.php:73`), so a
  removal that failed half-way cannot be repeated; `getShortHostname` (149) runs outside any
  try, so no HA machine can be saved while its default node is away.
* Marking a node dirty persists a row that was just deleted (`ConnectionService.php:45`);
  `deleteNodesAction` (`NodeController.php:72`) leaves corosync running on the node and
  answers an error with 200.
* The check at `DiskController.php:150` and the job that removes the disk are apart: the
  machine may be started in between.
* A resource that synchronises counts as disconnected (`DrbdService.php:261`); a DRBD disk
  whose allocation failed cannot be removed by a job (58); `zevirt:drbd` ends with a fatal
  error (`Command/DrbdCommand.php:42`).

and in the browser:

* `rfb.js`: RAW, RRE and HEXTILE overtake the queue; a TIGHT filter other than 1 throws;
  resets of TIGHT streams are dropped while data is awaited (1346, 1481); a server that
  falls silent hangs the handshake; an empty `connectTimeout` is NaN and fails at once (467);
  `viewportDragging` keeps `checkEvents` from sending (589).
* `display.js`: `clear` does not reset the clean rectangle.  `jsunzip.js:669`: bits read
  ahead are lost at the end of a chunk.
* `ui.js`: the setting `cursor` is lost at every load (478); `setPassword` leaves `onclick`
  undefined; the state `password` closes an open panel; the timer of 674 fires after the
  keyboard was shown again.  `util.js`: a script that does not load stops the page silently
  (230); options of mode `wo` with the default null can never be set (176).  `webutil.js:150`:
  two pages overwrite each other's settings.  `vnc.html.twig` takes `local_cursor` without
  asking whether the browser shows one.
* `Events.js:88`: `userJobs` is undeclared until a filter was clicked.  `Job.js:42-68`: two
  windows share one interval, a failed answer throws and the flag stays set.
  `Navigation.js:34`: `findRecord('id', vmId)` matches prefixes.  The edit windows are not modal
  and may keep a record that left its store.

## 8. Not modelled, and why

* The text of XML, `corosync.conf`, resource files, CIB elements: data, stood for by
  versions and counters.
* RBD volumes, cloning, the removal of a single disk from the web, standby, the commands
  shutdown, destroy, reset and migrate: further operations of modelled parts.
* SSH keys (`NodeService::persistTasks` 200-212, `saveAuthorizedKeys`, `Ssh::addSshKey`):
  loops over nodes beside the rollout of `Corosync`.
* Storages: a loop over nodes that defines libvirt pools and ends at the first
  failure; no other part reads what it leaves.
* Networks, interfaces, templates, users, groups on the server: rows only.
* The queue bundle, libvirt, pacemaker, corosync, DRBD, Ext JS, the browser and its
  sockets, the VNC server: external, modelled from what the code relies on.
* Views and forms of Ext JS, `js/BoxSelect.js` (a third-party field), touch input and the keys
  of mobile devices, scaling, the Flash replacement of WebSocket, repeater and test modes,
  statistics, logging: no state that another part reads, or not part of the page of openPCM.

## 9. Plan

Done: `Virtualmachine`, `Drbd` with `CounterPool`, `Corosync`, `EventFeed` and their proofs;
the console (`Rfb` to `Settings`); the web interface (`Lists`, `Disks`, `JobWindow`).  What
would come next:

1. `Virtualmachine`: the removal of a single disk from the web, and the power commands with
   their polls (`VirtualmachineCommand.php` 149: "2 minutes", 150: a loop of one minute).
2. `NodeKeys`: the distribution of SSH keys; its abstract promise is that every pair of
   members trusts each other once no job is left.
3. An abstract `Rollout` (old configuration, new configuration, at most one node down)
   that `Corosync` implements.

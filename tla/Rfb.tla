-------------------------------- MODULE Rfb --------------------------------
(***************************************************************************)
(* The life of a console session: the state machine of rfb.js with its     *)
(* timers, the socket of websock.js beneath it and the page of ui.js above *)
(* it, against a VNC server behind a WebSocket proxy.  JavaScript runs one *)
(* callback at a time, so an action is one callback: a socket event, a     *)
(* timer or a click.  What a callback does to the client is a function     *)
(* from client to client, one for each function of rfb.js.                 *)
(*                                                                         *)
(* What the server sends after the handshake is decoded in RfbStream; here *)
(* such a message is either understood ("data") or illegal ("garbage").    *)
(* The page of openPCM itself (vnc.html.twig) connects once when it loads  *)
(* and has no other button than Ctrl-Alt-Del: its sessions are among the   *)
(* ones of ui.js.                                                          *)
(***************************************************************************)
EXTENDS Integers, Sequences

CONSTANTS
  MaxSockets,  \* bound: how often the user connects
  Budget       \* bounds of what the user, the server and the network do

\* What the user does, what the server sends after the handshake, and what the
\* network does: a full buffer, a lost connection, a message in two parts.
BudgetNames == {"input", "message", "fault"}

ASSUME RfbAssumption == MaxSockets \in Nat \ {0} /\ Budget \in [BudgetNames -> Nat]

VARIABLES
  client,   \* the page: rfb.js, websock.js and ui.js
  server,   \* the server's side of the current connection
  clean,    \* nothing of an earlier session was pending when this one began
  spent

vars == <<client, server, clean, spent>>

Sockets == 1 .. MaxSockets

-----------------------------------------------------------------------------
(* The client.                                                             *)

ClosingButFailed == {"disconnected", "loaded", "connect", "disconnect"}   \* mutant
\* The states of rfb_state that close the socket when they are entered.
Closing == {"disconnected", "loaded", "connect", "disconnect", "failed"}
Handshake == {"ProtocolVersion", "Security", "Authentication", "password",
              "SecurityResult", "ClientInitialisation", "ServerInitialisation"}
States == Handshake \cup {"disconnected", "loaded", "connect", "disconnect", "failed", "normal"}

\* The page after the constructor of RFB and UI.start.  failed, flushes and
\* inits count the timeouts that nothing clears, checks the chains of
\* checkEvents; half: the last message in rQ has not arrived to its end.
NewClient ==
  [rfb_state |-> "loaded", cur |-> 0, socket |-> [s \in Sockets |-> "unused"],
   connTimer |-> FALSE, disconnTimer |-> FALSE, sendTimer |-> FALSE, msgTimer |-> FALSE,
   failed |-> 0, flushes |-> 0, inits |-> 0, checks |-> 0,
   sQ |-> <<>>, wire |-> <<>>, congested |-> FALSE, rQ |-> <<>>, half |-> FALSE,
   version |-> 0, scheme |-> "none", password |-> FALSE,
   grabbed |-> FALSE, held |-> FALSE, moved |-> FALSE,
   shown |-> "loaded", button |-> "connect"]

\* websock.js: flush() after send(); a socket that is still connecting throws
\* and leaves the queue, a socket that is closed swallows what it gets.
Flush(c) ==
  IF c.socket[c.cur] = "connecting" \/ c.congested THEN c
  ELSE [c EXCEPT !.wire = IF c.socket[c.cur] = "open" THEN @ \o c.sQ ELSE @, !.sQ = <<>>]
Send(c, m) == Flush([c EXCEPT !.sQ = Append(@, m)])

\* websock.js: close().
CloseSocket(c) ==
  IF c.cur # 0 /\ c.socket[c.cur] \in {"connecting", "open"}
  THEN [c EXCEPT !.socket[c.cur] = "closing"] ELSE c

\* input.js: ungrab() releases the keys that are down.
Ungrab(c) ==
  LET d == IF c.held THEN Send(c, "input") ELSE c
  IN [d EXCEPT !.grabbed = FALSE, !.held = FALSE]

OpenSocketOnly(c) ==   \* mutant: init_vars without ws.init()
  [c EXCEPT !.wire = <<>>, !.rQ = <<>>, !.half = FALSE, !.moved = FALSE,
            !.congested = FALSE, !.cur = @ + 1, !.socket[c.cur + 1] = "connecting"]
\* init_vars and websock.js open(): empty queues, a new socket.
OpenSocket(c) ==
  [c EXCEPT !.sQ = <<>>, !.wire = <<>>, !.rQ = <<>>, !.half = FALSE, !.moved = FALSE,
            !.congested = FALSE, !.cur = @ + 1, !.socket[c.cur + 1] = "connecting"]

\* ui.js: updateState, the callback.  The button of the connect panel is one
\* DOM element: "Connect", then "Send Password".
Show(c, state) ==
  [c EXCEPT !.shown = state, !.button = IF state = "password" THEN "password" ELSE @]

\* A failure is told once: 'disconnected' after it leaves the state 'failed'.
After(c, state) == IF c.rfb_state = "failed" /\ state = "disconnected" THEN "failed" ELSE state

EnterOnly(c, state) ==   \* mutant: connTimer goes on after 'connect'
  LET d == [c EXCEPT !.rfb_state = After(c, state),
                     !.disconnTimer = @ /\ After(c, state) = "disconnect"]
  IN CASE state = "connect" -> OpenSocket([d EXCEPT !.connTimer = TRUE])
       [] state = "disconnect" -> [d EXCEPT !.disconnTimer = TRUE]
       [] state = "failed" -> [d EXCEPT !.failed = @ + 1]
       [] OTHER -> d
EnterAndWait(c, state) ==   \* mutant: no disconnect timer
  LET d == [c EXCEPT !.rfb_state = After(c, state),
                     !.connTimer = @ /\ After(c, state) = "connect"]
  IN CASE state = "connect" -> OpenSocket([d EXCEPT !.connTimer = TRUE])
       [] state = "failed" -> [d EXCEPT !.failed = @ + 1]
       [] OTHER -> d
\* updateState: the new state, the timers that end with the old one, and the
\* switch over the new one.
Enter(c, state) ==
  LET d == [c EXCEPT !.rfb_state = After(c, state),
                     !.connTimer = @ /\ After(c, state) = "connect",
                     !.disconnTimer = @ /\ After(c, state) = "disconnect"]
  IN CASE state = "connect" -> OpenSocket([d EXCEPT !.connTimer = TRUE])
       [] state = "disconnect" -> [d EXCEPT !.disconnTimer = TRUE]
       [] state = "failed" -> [d EXCEPT !.failed = @ + 1]
       [] OTHER -> d

\* The timers of a connection end with it.
StopTimers(c) == [c EXCEPT !.sendTimer = FALSE, !.msgTimer = FALSE]

UpdateState(c, state) ==
  IF state = c.rfb_state THEN c
  ELSE Show(Enter(IF state \in Closing THEN CloseSocket(Ungrab(StopTimers(c))) ELSE c,
                  state), state)

Fail(c) == UpdateState(c, "failed")

-----------------------------------------------------------------------------
(* The handshake: init_msg, one function for each case.                    *)

\* rQwait: is the next message here to its end?
Whole(c) == Len(c.rQ) > 1 \/ (Len(c.rQ) = 1 /\ ~c.half)
Shift(c) == [c EXCEPT !.rQ = Tail(@)]
Versions == {"3.3", "3.7", "3.8"}
VersionOf(m) == CASE m = "3.3" -> 33 [] m = "3.7" -> 37 [] m = "3.8" -> 38

\* A version that arrives in two parts fails: this one case does not wait.
ProtocolVersion(c) ==
  IF ~Whole(c) \/ Head(c.rQ) = "unknown" THEN Fail(c)
  ELSE IF Head(c.rQ) = "repeater" THEN Send(Shift(c), "repeater")
  ELSE UpdateState(Send([Shift(c) EXCEPT !.version = VersionOf(Head(c.rQ)), !.sendTimer = TRUE],
                        "version"), "Security")

ClientInitialisation(c) == UpdateState(Send(c, "init"), "ServerInitialisation")

Authentication(c) ==
  CASE c.scheme = "none" ->
         IF c.version >= 38 THEN UpdateState(c, "SecurityResult")
         ELSE ClientInitialisation(UpdateState(c, "ClientInitialisation"))
    [] c.scheme = "vnc" /\ ~c.password -> UpdateState(c, "password")
    [] c.scheme = "vnc" /\ c.password ->
         IF Whole(c) THEN UpdateState(Send(Shift(c), "response"), "SecurityResult") ELSE c
    [] OTHER -> Fail(c)

\* From 3.7 on the client chooses a scheme, before the server has chosen.
Security(c) ==
  IF ~Whole(c) THEN c
  ELSE LET d == [Shift(c) EXCEPT !.scheme = Head(c.rQ)]
       IN IF c.version < 37 THEN Authentication(UpdateState(d, "Authentication"))
          ELSE IF d.scheme = "refused" THEN Fail(d)
          ELSE Authentication(UpdateState(Send(d, "scheme"), "Authentication"))

SecurityResult(c) ==
  CASE ~Whole(c) -> c
    [] Whole(c) /\ Head(c.rQ) = "ok" ->
         ClientInitialisation(UpdateState(Shift(c), "ClientInitialisation"))
    [] OTHER -> Fail(Shift(c))

\* Every session starts a chain of checkEvents, which never ends.
ServerInitialisation(c) ==
  IF ~Whole(c) THEN c
  ELSE UpdateState(Send([Shift(c) EXCEPT !.grabbed = TRUE, !.checks = @ + 1], "setup"),
                   "normal")

InitMsg(c) ==
  CASE c.rfb_state = "ProtocolVersion" -> ProtocolVersion(c)
    [] c.rfb_state = "Security" -> Security(c)
    [] c.rfb_state = "Authentication" -> Authentication(c)
    [] c.rfb_state = "SecurityResult" -> SecurityResult(c)
    [] c.rfb_state = "ServerInitialisation" -> ServerInitialisation(c)
    [] OTHER -> c

\* normal_msg takes one message; handle_message leaves the rest to a timer.
NormalMsg(c) ==
  IF ~Whole(c) THEN c
  ELSE LET d == IF Head(c.rQ) = "garbage" THEN Fail(Shift(c)) ELSE Shift(c)
       IN [d EXCEPT !.msgTimer = @ \/ d.rQ # <<>>]

HandleMessage(c) ==
  IF c.rQ = <<>> \/ c.rfb_state \in {"disconnected", "failed"} THEN c
  ELSE IF c.rfb_state = "normal" THEN NormalMsg(c) ELSE InitMsg(c)

-----------------------------------------------------------------------------
(* The user, on the page of ui.js.                                         *)

Spend(b) == /\ spent[b] < Budget[b]
            /\ spent' = [spent EXCEPT ![b] = @ + 1]

\* updateVisualState shows the button "Connect" of the bar in these states.
Offered == client.shown \in {"failed", "loaded", "disconnected"}

\* What an earlier session may still do to the next one.
Quiet == /\ client.failed = 0 /\ client.flushes = 0 /\ client.inits = 0
         /\ \A s \in Sockets : client.socket[s] \in {"unused", "closed"}

\* The server of a new connection has said nothing and waits for the socket.
NewServer == [stage |-> "version", version |-> 0]

Connect(password) ==
  /\ Offered /\ client.button = "connect" /\ client.cur < MaxSockets
  /\ client' = UpdateState([client EXCEPT !.password = password], "connect")
  /\ server' = NewServer
  /\ clean' = Quiet
  /\ UNCHANGED spent

Disconnect ==
  /\ ~Offered
  /\ client' = UpdateState(client, "disconnect")
  /\ UNCHANGED <<server, clean, spent>>

\* setPassword: the state is set without updateState, the handler of the
\* button becomes UI.Connect, which does not exist.
SendPassword(password) ==
  /\ client.button = "password"
  /\ Spend("input")
  /\ client' = [client EXCEPT !.password = password, !.rfb_state = "Authentication",
                              !.inits = @ + 1, !.button = "dead"]
  /\ clean' = (clean /\ client.rfb_state = "password")
  /\ UNCHANGED server

\* A key goes down or up on the canvas.
Key ==
  /\ client.grabbed
  /\ Spend("input")
  /\ client' = Send([client EXCEPT !.held = ~@], "input")
  /\ UNCHANGED <<server, clean>>

\* sendCtrlAltDel, sendKey, clipboardPasteFrom.
Paste ==
  /\ client.rfb_state = "normal"
  /\ Spend("input")
  /\ client' = Send(client, "input")
  /\ UNCHANGED <<server, clean>>

\* flushClient: the requests for updates follow 50 ms later.
FlushClient(c) == Send([c EXCEPT !.moved = FALSE, !.flushes = @ + 1], "input")

MouseButton ==
  /\ client.grabbed
  /\ Spend("input")
  /\ client' = FlushClient(client)
  /\ UNCHANGED <<server, clean>>

MouseMove ==
  /\ client.grabbed /\ ~client.moved
  /\ Spend("input")
  /\ client' = [client EXCEPT !.moved = TRUE]
  /\ UNCHANGED <<server, clean>>

-----------------------------------------------------------------------------
(* Timers.                                                                 *)

ConnectTimeout ==
  /\ client.connTimer
  /\ client' = [Fail(client) EXCEPT !.connTimer = FALSE]
  /\ UNCHANGED <<server, clean, spent>>

DisconnectTimeout ==
  /\ client.disconnTimer
  /\ client' = [Fail(client) EXCEPT !.disconnTimer = FALSE]
  /\ UNCHANGED <<server, clean, spent>>

\* 50 ms after a failure.
FailedTimeout ==
  /\ client.failed > 0
  /\ client' = UpdateState([client EXCEPT !.failed = @ - 1], "disconnected")
  /\ UNCHANGED <<server, clean, spent>>

\* 50 ms after the mouse events of flushClient.
FlushTimeout ==
  /\ client.flushes > 0
  /\ client' = Send([client EXCEPT !.flushes = @ - 1], "request")
  /\ UNCHANGED <<server, clean, spent>>

\* 1 ms after sendPassword.
InitTimeout ==
  /\ client.inits > 0
  /\ client' = InitMsg([client EXCEPT !.inits = @ - 1])
  /\ UNCHANGED <<server, clean, spent>>

SendInterval ==
  /\ client.sendTimer /\ client.sQ # <<>>
  /\ client' = Flush(client)
  /\ client' # client
  /\ UNCHANGED <<server, clean, spent>>

MsgTimeout ==
  /\ client.msgTimer
  /\ client' = HandleMessage([client EXCEPT !.msgTimer = FALSE])
  /\ UNCHANGED <<server, clean, spent>>

\* checkEvents goes on in any state, and does something in 'normal'.
CheckEvents ==
  /\ client.checks > 0 /\ client.rfb_state = "normal"
  /\ IF client.moved THEN client' = FlushClient(client) /\ UNCHANGED spent
     ELSE client' = Send(client, "request") /\ Spend("input")
  /\ UNCHANGED <<server, clean>>

-----------------------------------------------------------------------------
(* The socket and the server behind it (external).                         *)

OnOpen ==
  /\ client.cur # 0 /\ client.socket[client.cur] = "connecting"
  /\ LET c == [client EXCEPT !.socket[client.cur] = "open"]
     IN client' = IF c.rfb_state = "connect" THEN UpdateState(c, "ProtocolVersion") ELSE Fail(c)
  /\ UNCHANGED <<server, clean, spent>>

\* The socket s is closed: it could not connect, the server or a proxy closed
\* it, or close() is done.  The handler is the same for every socket.
OnClose(s) ==
  /\ client.socket[s] \in {"connecting", "open", "closing"}
  /\ IF client.socket[s] = "closing" THEN UNCHANGED spent ELSE Spend("fault")
  /\ LET c == [client EXCEPT !.socket[s] = "closed"]
     IN client' = CASE c.rfb_state = "disconnect" -> UpdateState(c, "disconnected")
                    [] c.rfb_state \in {"failed", "disconnected"} -> c
                    [] OTHER -> Fail(c)
  /\ UNCHANGED <<server, clean>>

\* The send buffer of the browser fills up and drains.
Congest ==
  /\ client.cur # 0 /\ client.socket[client.cur] = "open"
  /\ ~client.congested
  /\ Spend("fault")
  /\ client' = [client EXCEPT !.congested = TRUE]
  /\ UNCHANGED <<server, clean>>

Drain ==
  /\ client.congested
  /\ client' = [client EXCEPT !.congested = FALSE]
  /\ UNCHANGED <<server, clean, spent>>

\* What the server sends next, and what it waits for then.
Says(stage, version) ==
  CASE stage = "version" -> {<<m, "hearVersion">> : m \in Versions \cup {"unknown"}}
                            \cup {<<"repeater", "hearRepeater">>}
    [] stage = "types" ->
         {<<"refused", "refused">>} \cup
         (IF version < 37 THEN {<<"none", "hearInit">>, <<"vnc", "challenge">>}
          ELSE {<<m, "hearScheme">> : m \in {"none", "vnc"}})
    [] stage = "challenge" -> {<<"challenge", "hearResponse">>}
    [] stage = "result" -> {<<"ok", "hearInit">>, <<"denied", "refused">>}
    [] stage = "init" -> {<<"init", "serve">>}
    [] stage = "serve" -> {<<"data", "serve">>, <<"garbage", "serve">>}
    [] OTHER -> {}

\* Messages arrive at once, the last whole or only its first part; a part
\* completes it.
Arrive(messages, half) ==
  client' = HandleMessage([client EXCEPT !.rQ = @ \o messages, !.half = half])

ServerSays(half) ==
  /\ client.cur # 0 /\ client.socket[client.cur] = "open" /\ ~client.half
  /\ IF server.stage = "serve" THEN Spend("message")
     ELSE IF half THEN Spend("fault") ELSE UNCHANGED spent
  /\ \E say \in Says(server.stage, server.version),
        more \in {<<>>} \cup (IF server.stage = "serve" THEN {<<"data">>} ELSE {}) :
       /\ Arrive(<<say[1]>> \o more, half)
       /\ server' = [stage |-> say[2],
                     version |-> IF say[1] \in Versions THEN VersionOf(say[1])
                                 ELSE server.version]
  /\ UNCHANGED clean

RestArrives ==
  /\ client.cur # 0 /\ client.socket[client.cur] = "open" /\ client.half
  /\ client' = HandleMessage([client EXCEPT !.half = FALSE])
  /\ UNCHANGED <<server, clean, spent>>

\* What the server makes of a message of the client.
Hears(stage, version, m) ==
  CASE stage = "hearVersion" /\ m = "version" -> "types"
    [] stage = "hearRepeater" /\ m = "repeater" -> "version"
    [] stage = "hearScheme" /\ m = "scheme" ->
         IF client.scheme = "vnc" THEN "challenge"
         ELSE IF version >= 38 THEN "result" ELSE "hearInit"
    [] stage = "hearResponse" /\ m = "response" -> "result"
    [] stage = "hearInit" /\ m = "init" -> "init"
    [] stage = "serve" /\ m \in {"setup", "input", "request"} -> "serve"
    [] OTHER -> "confused"

ServerHears ==
  /\ client.wire # <<>>
  /\ server.stage \notin {"version", "types", "challenge", "result", "init"}
  /\ server' = [server EXCEPT !.stage = Hears(@, server.version, Head(client.wire))]
  /\ client' = [client EXCEPT !.wire = Tail(@)]
  /\ UNCHANGED <<clean, spent>>

-----------------------------------------------------------------------------
(* Specification.                                                          *)

Init ==
  /\ client = NewClient
  /\ server = NewServer
  /\ clean = TRUE
  /\ spent = [b \in BudgetNames |-> 0]

UserStep ==
  \/ \E p \in BOOLEAN : Connect(p) \/ SendPassword(p)
  \/ Disconnect \/ Key \/ Paste \/ MouseButton \/ MouseMove

TimerStep ==
  \/ ConnectTimeout \/ DisconnectTimeout \/ FailedTimeout \/ FlushTimeout
  \/ InitTimeout \/ SendInterval \/ MsgTimeout \/ CheckEvents

NetworkStep ==
  \/ OnOpen \/ (\E s \in Sockets : OnClose(s)) \/ Congest \/ Drain
  \/ (\E half \in BOOLEAN : ServerSays(half)) \/ RestArrives \/ ServerHears

Next == UserStep \/ TimerStep \/ NetworkStep

Spec == Init /\ [][Next]_vars

\* Timers fire, and the browser reports the end of a socket it was told to
\* close unless the other side keeps it waiting for ever.
FairSpec ==
  /\ Spec
  /\ WF_vars(ConnectTimeout) /\ WF_vars(DisconnectTimeout) /\ WF_vars(FailedTimeout)

-----------------------------------------------------------------------------
(* Properties.                                                             *)

\* A session that is over holds no connection, and no connection but the
\* current one is open: whatever ends it, updateState closes the socket.
\* The disconnect timer and the grabbed keyboard do not outlive their states.
NoLeak ==
  /\ \A s \in Sockets : client.socket[s] \in {"connecting", "open"} =>
       s = client.cur /\ client.rfb_state \in {"connect", "normal"} \cup Handshake
  /\ clean => /\ client.disconnTimer => client.rfb_state = "disconnect"
              /\ client.grabbed => client.rfb_state = "normal"

\* The server never gets something it does not expect in its stage: a request
\* for updates or a key in the middle of the handshake.  A session that began
\* while callbacks of an earlier one were outstanding may do that.
HandshakeKept == clean => server.stage # "confused"

\* A session that began when everything of the earlier ones was over is ended
\* by the user, by its own socket, by its own timer or by a bad message.
EndsByItself ==
  [][/\ clean
     /\ client.rfb_state \in Handshake \cup {"connect", "normal"}
     /\ client'.rfb_state \in {"failed", "disconnected", "disconnect"}
     => \/ Disconnect
        \/ OnClose(client.cur)
        \/ (client.rfb_state = "connect" /\ ConnectTimeout)
        \/ client.rQ # <<>>
        \/ \E half \in BOOLEAN : ServerSays(half)]_vars

\* Connecting and disconnecting come to an end, whatever the other side does.
ComesToAnEnd == []<>(client.rfb_state \notin {"connect", "disconnect"})

=============================================================================

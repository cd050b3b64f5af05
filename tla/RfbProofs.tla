----------------------------- MODULE RfbProofs -----------------------------
(***************************************************************************)
(* The safety properties of Rfb are proved of Spec, for any number of      *)
(* connections and all budgets: NoLeak, HandshakeKept and EndsByItself.    *)
(*                                                                         *)
(* IInv has two layers.  Core holds in every session, also in one that     *)
(* callbacks of an earlier one disturb: only the current socket can be     *)
(* open, and only in a state that has a connection.  Session holds while   *)
(* clean: no timer is set in a state it does not belong to, and Fits and   *)
(* Step say where client and server are in the protocol.  Pipe is what the *)
(* client said and the server has not heard, in the wire and in the send   *)
(* queue; Fits bounds it by the stage of the server, Step by the state of  *)
(* the client, with what waits in the receive queue.  So the handshake     *)
(* cannot go wrong however both queues are cut and delayed.                *)
(*                                                                         *)
(* The functions of rfb.js come first (...Facts), then each case of        *)
(* init_msg twice: what it leaves of Core in any session (...Onward), and  *)
(* of Session in one that nothing disturbs (Clean...).  Then there is one  *)
(* lemma for each action (...Keeps), and the theorems.                     *)
(***************************************************************************)
EXTENDS Rfb, SequenceTheorems, TLAPS

-----------------------------------------------------------------------------
(* The values.                                                             *)

Ended == {"failed", "disconnect", "disconnected"}
Talking == Handshake \cup {"normal"}
Words == {"repeater", "version", "scheme", "response", "init", "setup", "input", "request"}
Said == Versions \cup {"unknown", "repeater", "refused", "none", "vnc", "challenge", "ok",
                           "denied", "init", "data", "garbage"}
Stages == {"version", "hearVersion", "hearRepeater", "types", "refused", "hearInit", "challenge",
           "hearScheme", "hearResponse", "result", "init", "serve", "confused"}
Numbers == {0, 33, 37, 38}

Clients ==
  [rfb_state : States, cur : 0 .. MaxSockets,
   socket : [Sockets -> {"unused", "connecting", "open", "closing", "closed"}],
   connTimer : BOOLEAN, disconnTimer : BOOLEAN, sendTimer : BOOLEAN, msgTimer : BOOLEAN,
   failed : Nat, flushes : Nat, inits : Nat, checks : Nat,
   sQ : Seq(Words), wire : Seq(Words), congested : BOOLEAN, rQ : Seq(Said), half : BOOLEAN,
   version : Numbers, scheme : Said, password : BOOLEAN,
   grabbed : BOOLEAN, held : BOOLEAN, moved : BOOLEAN,
   shown : States, button : {"connect", "password", "dead"}]
Servers == [stage : Stages, version : Numbers]

-----------------------------------------------------------------------------
(* The invariant.                                                          *)

\* What holds of the page in every session.
Core(c) ==
  /\ c \in Clients /\ c.cur # 0
  /\ \A s \in Sockets : c.socket[s] \in {"connecting", "open"} =>
       s = c.cur /\ c.rfb_state \in Talking \cup {"connect"}
  /\ c.rfb_state = "connect" => c.socket[c.cur] = "connecting" /\ c.wire = <<>>
  /\ c.half => c.rQ # <<>>
  /\ c.held => c.grabbed
  /\ c.button = "connect" =>
       c.shown = c.rfb_state \/ (c.rfb_state = "failed" /\ c.shown = "disconnected")

\* A session begins with a server that has said nothing, and until its version
\* is known nothing waits in the receive queue.
Start(c, sv) ==
  /\ c.rfb_state = "connect" => c.rQ = <<>> /\ sv.stage = "version"
  /\ c.rfb_state = "ProtocolVersion" =>
       c.rQ = <<>> /\ sv.stage \in {"version", "hearRepeater", "confused"}

\* What the client said and the server may still hear.
Pipe(c) == IF c.socket[c.cur] = "open" THEN c.wire \o c.sQ ELSE c.wire

\* What the server may hear in its stage.
Fits(sv, scheme, pipe) ==
  \/ pipe = <<>> /\ sv.stage # "confused"
  \/ sv.stage = "hearVersion" /\ pipe = <<"version">>
  \/ sv.stage = "hearRepeater" /\ pipe = <<"repeater">>
  \/ sv.stage = "hearScheme" /\ pipe = <<"scheme">>
  \/ sv.stage = "hearScheme" /\ pipe = <<"scheme", "init">> /\ scheme = "none" /\ sv.version = 37
  \/ sv.stage = "hearResponse" /\ pipe = <<"response">>
  \/ sv.stage = "hearInit" /\ pipe = <<"init">>
  \/ sv.stage = "serve" /\ pipe \in Seq({"setup", "input", "request"})

Waits(c, sv, stage, pipe) == sv.stage = stage /\ Pipe(c) = pipe /\ c.rQ = <<>>
\* The first part of m is here.
Part(c, sv, stage, m) ==
  sv.stage = stage /\ Pipe(c) = <<>> /\ c.rQ = <<m>> /\ c.half

\* Where client and server are in the handshake.
Step(c, sv) ==
  CASE c.rfb_state = "connect" -> c.sQ = <<>>
    [] c.rfb_state = "ProtocolVersion" ->
         Waits(c, sv, "version", <<>>) \/ Waits(c, sv, "hearRepeater", <<"repeater">>)
    [] c.rfb_state = "Security" ->
         /\ c.version = sv.version /\ c.version # 0
         /\ \/ Waits(c, sv, "hearVersion", <<"version">>)
            \/ Waits(c, sv, "types", <<>>)
            \/ Part(c, sv, "refused", "refused")
            \/ c.version < 37 /\ (Part(c, sv, "hearInit", "none") \/ Part(c, sv, "challenge", "vnc"))
            \/ c.version >= 37 /\ \E m \in {"none", "vnc"} : Part(c, sv, "hearScheme", m)
    [] c.rfb_state \in {"Authentication", "password"} ->
         /\ c.scheme = "vnc"
         /\ \/ Waits(c, sv, "hearScheme", <<"scheme">>)
            \/ Waits(c, sv, "challenge", <<>>)
            \/ sv.stage = "hearResponse" /\ Pipe(c) = <<>> /\ c.rQ = <<"challenge">>
    [] c.rfb_state = "SecurityResult" ->
         \/ Waits(c, sv, "hearScheme", <<"scheme">>) /\ c.scheme = "none" /\ sv.version >= 38
         \/ Waits(c, sv, "hearResponse", <<"response">>)
         \/ Waits(c, sv, "result", <<>>)
         \/ Part(c, sv, "hearInit", "ok")
         \/ Part(c, sv, "refused", "denied")
    [] c.rfb_state = "ServerInitialisation" ->
         \/ /\ Waits(c, sv, "hearScheme", <<"scheme", "init">>)
            /\ c.scheme = "none" /\ sv.version = 37
         \/ Waits(c, sv, "hearInit", <<"init">>)
         \/ Waits(c, sv, "init", <<>>)
         \/ Part(c, sv, "serve", "init")
    [] c.rfb_state = "normal" -> sv.stage = "serve"
    [] c.rfb_state = "ClientInitialisation" -> FALSE
    [] OTHER -> TRUE

\* What holds of the page and the server when nothing of an earlier session was
\* pending as this one began.
Session(c, sv) ==
  /\ c.connTimer => c.rfb_state = "connect"
  /\ c.disconnTimer => c.rfb_state = "disconnect"
  /\ c.grabbed => c.rfb_state = "normal"
  /\ c.failed > 0 => c.rfb_state \in Ended
  /\ c.flushes > 0 => c.rfb_state \in Ended \cup {"normal"}
  /\ c.inits > 0 => c.rfb_state \notin {"connect", "ProtocolVersion"}
  /\ c.rfb_state \in Talking => c.socket[c.cur] = "open"
  /\ \A s \in Sockets \ {c.cur} : c.socket[s] \in {"unused", "closed"}
  /\ Fits(sv, c.scheme, Pipe(c))
  /\ Step(c, sv)

ServerOK == server \in Servers /\ spent \in [BudgetNames -> Nat] /\ clean \in BOOLEAN

IInv ==
  /\ ServerOK
  /\ \/ client = NewClient /\ server = NewServer
     \/ Core(client) /\ Start(client, server) /\ (clean => Session(client, server))

-----------------------------------------------------------------------------
(* Sequences.                                                              *)

\* What is appended behind a prefix.
LEMMA AppendBehind ==
  ASSUME NEW S, NEW w \in Seq(S), NEW q \in Seq(S), NEW m \in S
  PROVE  w \o Append(q, m) = Append(w \o q, m)
<1>1. Append(q, m) = q \o <<m>> BY AppendIsConcat
<1>2. <<m>> \in Seq(S) OBVIOUS
<1>3. w \o q \in Seq(S) BY ConcatProperties
<1>4. Append(w \o q, m) = (w \o q) \o <<m>> BY <1>3, AppendIsConcat
<1> QED BY <1>1, <1>2, <1>4, ConcatAssociative

\* A message in an empty queue.
LEMMA AppendFirst == \A m : Append(<<>>, m) = <<m>>
OBVIOUS

\* A message behind one that waits.
LEMMA AppendSecond ==
  ASSUME NEW S, NEW m \in S, NEW n \in S
  PROVE  Append(<<m>>, n) = <<m, n>>
<1>1. <<m>> \in Seq(S) /\ <<m, n>> \in Seq(S) OBVIOUS
<1>2. LET a == Append(<<m>>, n)
      IN a \in Seq(S) /\ Len(a) = 2 /\ a[1] = m /\ a[2] = n
  BY <1>1, AppendProperties
<1>3. \A i \in 1 .. 2 : Append(<<m>>, n)[i] = <<m, n>>[i] BY <1>2
<1> QED BY <1>1, <1>2, <1>3, SeqEqual

\* A prefix of what the server may hear is what the server may hear.
LEMMA PrefixFits ==
  ASSUME NEW sv, NEW scheme, NEW w \in Seq(Words), NEW q \in Seq(Words), Fits(sv, scheme, w \o q)
  PROVE  Fits(sv, scheme, w)
<1> DEFINE p == w \o q
<1>1. /\ p \in Seq(Words) /\ Len(p) = Len(w) + Len(q)
      /\ \A i \in 1 .. Len(w) : p[i] = w[i]
  BY ConcatProperties
<1> HIDE DEF p
<1>2. Len(w) \in Nat /\ Len(q) \in Nat OBVIOUS
<1>3. w = <<>> => Fits(sv, scheme, w) BY DEF Fits
<1>4. ASSUME Len(w) = 1, NEW m, p = <<m>> PROVE w = p
  BY <1>1, <1>4
<1>5. ASSUME Len(w) > 0, NEW m, p = <<m>> PROVE w = p
  BY <1>1, <1>2, <1>4, <1>5
<1>6. ASSUME NEW m, NEW n, p = <<m, n>>, Len(w) > 0 PROVE w = <<m>> \/ w = p
  <2>1. Len(p) = 2 BY <1>6
  <2>2. Len(w) + Len(q) = 2 BY <2>1, <1>1
  <2>3. Len(w) > 0 BY <1>6
  <2>4. Len(w) = 1 \/ Len(w) = 2
    <3>1. \A a, b \in Nat : a + b = 2 /\ a > 0 => a = 1 \/ a = 2 OBVIOUS
    <3> QED BY <3>1, <2>2, <2>3, <1>2
  <2> QED BY <2>1, <2>4, <1>1, <1>6
<1>7. ASSUME NEW T, p \in Seq(T) PROVE w \in Seq(T)
  <2>1. \A i \in 1 .. Len(w) : w[i] \in T BY <1>1, <1>2, <1>7
  <2> QED BY <2>1
<1>8. w # <<>> => Len(w) > 0 OBVIOUS
<1>9. ASSUME w # <<>> PROVE Fits(sv, scheme, w)
  <2>1. Fits(sv, scheme, p) BY DEF p
  <2>2. p # <<>> BY <1>1, <1>2, <1>8, <1>9
  <2> QED BY <2>1, <2>2, <1>5, <1>6, <1>7, <1>8, <1>9 DEF Fits
<1> QED BY <1>3, <1>9

\* What is left when the server heard the first message fits its next stage.
LEMMA HearsFits ==
  ASSUME NEW p \in Seq(Words), p # <<>>, server \in Servers, client.scheme \in Said,
         Fits(server, client.scheme, p),
         NEW sv, sv = [server EXCEPT !.stage = Hears(@, server.version, Head(p))]
  PROVE  /\ sv \in Servers /\ sv.version = server.version
         /\ Fits(sv, client.scheme, Tail(p))
<1>1. /\ sv \in Servers /\ sv.version = server.version
      /\ sv.stage = Hears(server.stage, server.version, Head(p))
  BY DEF Servers, Hears, Stages
<1>2. ASSUME NEW m, p = <<m>> PROVE Head(p) = m /\ Tail(p) = <<>>
  BY <1>2
<1>3. CASE server.stage = "serve" /\ p \in Seq({"setup", "input", "request"})
  <2>1. /\ Head(p) \in {"setup", "input", "request"}
        /\ Tail(p) \in Seq({"setup", "input", "request"})
    BY <1>3, HeadTailProperties
  <2> QED BY <1>1, <1>3, <2>1 DEF Fits, Hears
<1>4. CASE server.stage = "hearScheme" /\ p = <<"scheme", "init">>
           /\ client.scheme = "none" /\ server.version = 37
  <2>1. Head(p) = "scheme" BY <1>4
  <2>2. Len(Tail(p)) = 1 /\ Tail(p)[1] = "init" BY <1>4
  <2>3. Tail(p) = <<"init">> BY <1>4
  <2> QED BY <1>1, <1>4, <2>1, <2>3 DEF Fits, Hears
<1>5. ASSUME NEW m, p = <<m>>,
             <<server.stage, m>> \in
               {<<"hearVersion", "version">>, <<"hearRepeater", "repeater">>,
                <<"hearScheme", "scheme">>, <<"hearResponse", "response">>, <<"hearInit", "init">>}
      PROVE  Fits(sv, client.scheme, Tail(p))
  <2>1. Tail(p) = <<>> /\ Head(p) = m BY <1>2, <1>5
  <2>2. Hears(server.stage, server.version, m) # "confused" BY <1>5 DEF Hears
  <2> QED BY <2>1, <2>2, <1>1 DEF Fits
<1>6. \/ server.stage = "serve" /\ p \in Seq({"setup", "input", "request"})
      \/ /\ server.stage = "hearScheme" /\ p = <<"scheme", "init">>
         /\ client.scheme = "none" /\ server.version = 37
      \/ \E m : /\ p = <<m>>
               /\ <<server.stage, m>> \in
                    {<<"hearVersion", "version">>, <<"hearRepeater", "repeater">>,
                     <<"hearScheme", "scheme">>, <<"hearResponse", "response">>,
                     <<"hearInit", "init">>}
  BY DEF Fits
<1> QED BY <1>1, <1>3, <1>4, <1>5, <1>6

-----------------------------------------------------------------------------
(* The functions of websock.js and input.js.                               *)

\* d differs from c in its queues to the server at most, in what closing a
\* connection changes, and in what the invariant does not read.
Same(c, d) ==
  /\ d.rfb_state = c.rfb_state /\ d.cur = c.cur
  /\ d.connTimer = c.connTimer /\ d.disconnTimer = c.disconnTimer
  /\ d.failed = c.failed /\ d.flushes = c.flushes /\ d.inits = c.inits
  /\ d.rQ = c.rQ /\ d.half = c.half
  /\ d.version = c.version /\ d.scheme = c.scheme /\ d.password = c.password
  /\ d.shown = c.shown /\ d.button = c.button
SameBut(c, d) ==
  Same(c, d) /\ d.socket = c.socket /\ d.grabbed = c.grabbed /\ d.held = c.held

\* Flush moves the send queue to the wire, or drops it, or leaves it.
LEMMA FlushFacts ==
  ASSUME NEW c \in Clients
  PROVE  /\ Flush(c) \in Clients /\ SameBut(c, Flush(c))
         /\ Pipe(Flush(c)) = Pipe(c)
         /\ c.socket[c.cur] # "open" => Flush(c).wire = c.wire
         /\ c.sQ = <<>> => Flush(c).sQ = <<>>
<1>1. CASE c.socket[c.cur] = "connecting" \/ c.congested
  BY <1>1 DEF Flush, SameBut, Same
<1>2. CASE ~(c.socket[c.cur] = "connecting" \/ c.congested)
  <2>1. PICK w : w = IF c.socket[c.cur] = "open" THEN c.wire \o c.sQ ELSE c.wire OBVIOUS
  <2>2. c.wire \in Seq(Words) /\ c.sQ \in Seq(Words) BY DEF Clients
  <2>3. w \in Seq(Words) /\ <<>> \in Seq(Words) BY <2>1, <2>2, ConcatProperties
  <2>4. Flush(c) = [c EXCEPT !.wire = w, !.sQ = <<>>] BY <1>2, <2>1 DEF Flush
  <2>5. /\ Flush(c) \in Clients /\ SameBut(c, Flush(c))
        /\ Flush(c).wire = w /\ Flush(c).sQ = <<>>
    <3>1. Flush(c) \in Clients BY <2>3, <2>4 DEF Clients
    <3>2. SameBut(c, Flush(c)) BY <2>4 DEF Clients, SameBut, Same
    <3>3. Flush(c).wire = w /\ Flush(c).sQ = <<>> BY <2>4 DEF Clients
    <3> QED BY <3>1, <3>2, <3>3
  <2>6. w \o <<>> = w BY <2>3, ConcatEmptySeq
  <2> QED BY <2>1, <2>5, <2>6 DEF Pipe, SameBut, Same
<1> QED BY <1>1, <1>2

\* Send puts one message behind what the server may still hear.
LEMMA SendFacts ==
  ASSUME NEW c \in Clients, NEW m \in Words
  PROVE  /\ Send(c, m) \in Clients /\ SameBut(c, Send(c, m))
         /\ c.socket[c.cur] = "open" => Pipe(Send(c, m)) = Append(Pipe(c), m)
         /\ c.socket[c.cur] # "open" => Send(c, m).wire = c.wire
<1>1. PICK q : q = Append(c.sQ, m) OBVIOUS
<1>2. c.wire \in Seq(Words) /\ c.sQ \in Seq(Words) BY DEF Clients
<1>3. q \in Seq(Words) BY <1>1, <1>2, AppendProperties
<1>4. PICK d : d = [c EXCEPT !.sQ = q] OBVIOUS
<1>5. d \in Clients /\ SameBut(c, d) /\ d.sQ = q /\ d.wire = c.wire
  BY <1>3, <1>4 DEF Clients, SameBut, Same
<1>6. c.socket[c.cur] = "open" => Pipe(d) = Append(Pipe(c), m)
  <2>0. \A w, x \in Seq(Words) : w \o Append(x, m) = Append(w \o x, m) BY AppendBehind
  <2>1. c.wire \o q = Append(c.wire \o c.sQ, m) BY <1>1, <1>2, <2>0
  <2> QED BY <2>1, <1>5 DEF Pipe, SameBut, Same
<1>7. Send(c, m) = Flush(d) BY <1>1, <1>4 DEF Send
<1>8. /\ Flush(d) \in Clients /\ SameBut(d, Flush(d)) /\ Pipe(Flush(d)) = Pipe(d)
      /\ d.socket[d.cur] # "open" => Flush(d).wire = d.wire
  BY <1>5, FlushFacts
<1> QED BY <1>5, <1>6, <1>7, <1>8 DEF SameBut, Same

\* ungrab lets the keys go and says so to a server that listens.
LEMMA UngrabFacts ==
  ASSUME NEW c \in Clients
  PROVE  LET d == Ungrab(c)
         IN /\ d \in Clients /\ d.grabbed = FALSE /\ d.held = FALSE
            /\ Same(c, d) /\ d.socket = c.socket
            /\ c.held /\ c.socket[c.cur] = "open" => Pipe(d) = Append(Pipe(c), "input")
            /\ ~(c.held /\ c.socket[c.cur] = "open") => d.wire = c.wire
<1>1. PICK u : u = IF c.held THEN Send(c, "input") ELSE c OBVIOUS
<1>2. "input" \in Words BY DEF Words
<1>3. u \in Clients /\ SameBut(c, u) BY <1>1, <1>2, SendFacts DEF SameBut, Same
<1>4. /\ c.held /\ c.socket[c.cur] = "open" => Pipe(u) = Append(Pipe(c), "input")
      /\ ~(c.held /\ c.socket[c.cur] = "open") => u.wire = c.wire
  BY <1>1, <1>2, SendFacts
<1>5. PICK d : d = [u EXCEPT !.grabbed = FALSE, !.held = FALSE] OBVIOUS
<1>6. Ungrab(c) = d BY <1>1, <1>5 DEF Ungrab
<1>7. d \in Clients /\ d.grabbed = FALSE /\ d.held = FALSE /\ d.wire = u.wire
  BY <1>3, <1>5 DEF Clients
<1>8. Same(c, d) /\ d.socket = c.socket
  BY <1>3, <1>5 DEF Clients, SameBut, Same
<1>9. Pipe(d) = Pipe(u) BY <1>3, <1>5 DEF Clients, Pipe
<1> QED BY <1>4, <1>6, <1>7, <1>8, <1>9

\* Closing touches the current socket only, and leaves it neither open nor connecting.
LEMMA CloseFacts ==
  ASSUME NEW c \in Clients, NEW d, d = CloseSocket(c)
  PROVE  /\ d \in Clients /\ d.wire = c.wire
         /\ Same(c, d) /\ d.grabbed = c.grabbed /\ d.held = c.held
         /\ c.cur # 0 => d.socket[c.cur] \notin {"connecting", "open"}
         /\ \A s \in Sockets \ {c.cur} : d.socket[s] = c.socket[s]
         /\ c.cur = 0 \/ c.socket[c.cur] \notin {"connecting", "open"} => d.socket = c.socket
<1>1. CASE c.cur # 0 /\ c.socket[c.cur] \in {"connecting", "open"}
  <2>1. d = [c EXCEPT !.socket[c.cur] = "closing"] BY <1>1 DEF CloseSocket
  <2>2. c.cur \in Sockets BY <1>1 DEF Clients, Sockets
  <2>3. PICK f : f = [c.socket EXCEPT ![c.cur] = "closing"] OBVIOUS
  <2>4. /\ f \in [Sockets -> {"unused", "connecting", "open", "closing", "closed"}]
        /\ f[c.cur] = "closing" /\ \A s \in Sockets \ {c.cur} : f[s] = c.socket[s]
    BY <2>2, <2>3 DEF Clients
  <2>5. d = [c EXCEPT !.socket = f] BY <2>1, <2>3 DEF Clients
  <2>6. d \in Clients /\ d.socket = f /\ d.wire = c.wire BY SMTT(30), <2>4, <2>5 DEF Clients
  <2>7. Same(c, d) /\ d.grabbed = c.grabbed /\ d.held = c.held BY <2>5, <2>6 DEF Clients, SameBut, Same
  <2> QED BY <1>1, <2>4, <2>6, <2>7
<1>2. CASE ~(c.cur # 0 /\ c.socket[c.cur] \in {"connecting", "open"})
  <2>1. d = c BY <1>2 DEF CloseSocket
  <2> QED BY <2>1, <1>2 DEF Clients, SameBut, Same
<1> QED BY <1>1, <1>2

-----------------------------------------------------------------------------
(* updateState.                                                            *)

\* d is c in the state h of a connection.
MovedTo(c, d, h) ==
  /\ d \in Clients /\ d.rfb_state = h
  /\ d.cur = c.cur /\ d.socket = c.socket
  /\ ~d.connTimer /\ ~d.disconnTimer
  /\ d.failed = c.failed /\ d.flushes = c.flushes /\ d.inits = c.inits
  /\ d.sQ = c.sQ /\ d.wire = c.wire /\ d.rQ = c.rQ /\ d.half = c.half
  /\ d.version = c.version /\ d.scheme = c.scheme /\ d.password = c.password
  /\ d.grabbed = c.grabbed /\ d.held = c.held
  /\ d.shown = h /\ d.button = IF h = "password" THEN "password" ELSE c.button

\* updateState to a state in which the connection goes on.
LEMMA MoveFacts ==
  ASSUME NEW c \in Clients, NEW h \in Talking, c.rfb_state # h
  PROVE  MovedTo(c, UpdateState(c, h), h)
<1>1. h \notin Closing /\ h \notin {"connect", "disconnect", "failed", "disconnected"}
      /\ h \in States
  BY DEF Talking, Handshake, Closing, States
<1>2. After(c, h) = h BY <1>1 DEF After
<1>3. PICK e : e = [c EXCEPT !.rfb_state = h, !.connTimer = FALSE, !.disconnTimer = FALSE]
  OBVIOUS
<1>4. /\ c.connTimer \in BOOLEAN /\ c.disconnTimer \in BOOLEAN
      /\ (c.connTimer /\ h = "connect") = FALSE /\ (c.disconnTimer /\ h = "disconnect") = FALSE
  BY <1>1 DEF Clients
<1>5. Enter(c, h) = e BY <1>1, <1>2, <1>3, <1>4 DEF Enter
<1>6. PICK b : b = IF h = "password" THEN "password" ELSE e.button OBVIOUS
<1>7. UpdateState(c, h) = [e EXCEPT !.shown = h, !.button = b]
  BY <1>1, <1>5, <1>6 DEF UpdateState, Show
<1>8. e \in Clients BY <1>1, <1>3 DEF Clients
<1>9. b \in {"connect", "password", "dead"} BY <1>6, <1>8 DEF Clients
<1>10. UpdateState(c, h) \in Clients BY <1>1, <1>7, <1>8, <1>9 DEF Clients
<1>11. e.button = c.button BY <1>3 DEF Clients
<1> QED BY <1>3, <1>6, <1>7, <1>10, <1>11 DEF MovedTo, Clients

\* d is c after the end of its connection in the state e.
Over(c, d, e) ==
  /\ d \in Clients /\ d.rfb_state = After(c, e)
  /\ d.cur = c.cur
  /\ c.cur # 0 => d.socket[c.cur] \notin {"connecting", "open"}
  /\ \A s \in Sockets \ {c.cur} : d.socket[s] = c.socket[s]
  /\ ~d.connTimer /\ (d.disconnTimer => d.rfb_state = "disconnect")
  /\ d.flushes = c.flushes /\ d.inits = c.inits
  /\ d.rQ = c.rQ /\ d.half = c.half
  /\ d.version = c.version /\ d.scheme = c.scheme
  /\ ~d.grabbed /\ ~d.held
  /\ d.shown = e /\ d.button = c.button
  /\ ~(c.held /\ c.socket[c.cur] = "open") => d.wire = c.wire
  /\ c.held /\ c.socket[c.cur] = "open" =>
       \E q \in Seq(Words) : d.wire \o q = Append(Pipe(c), "input")

\* What every state that closes the socket does before it is entered.
LEMMA LeaveFacts ==
  ASSUME NEW c \in Clients, NEW d, d = CloseSocket(Ungrab(StopTimers(c)))
  PROVE  /\ d \in Clients /\ ~d.grabbed /\ ~d.held
         /\ Same(c, d)
         /\ c.cur # 0 => d.socket[c.cur] \notin {"connecting", "open"}
         /\ \A s \in Sockets \ {c.cur} : d.socket[s] = c.socket[s]
         /\ c.cur = 0 \/ c.socket[c.cur] \notin {"connecting", "open"} => d.socket = c.socket
         /\ ~(c.held /\ c.socket[c.cur] = "open") => d.wire = c.wire
         /\ c.held /\ c.socket[c.cur] = "open" =>
              \E q \in Seq(Words) : d.wire \o q = Append(Pipe(c), "input")
<1>1. PICK t : t = StopTimers(c) OBVIOUS
<1>2. t \in Clients /\ SameBut(c, t) /\ t.wire = c.wire /\ t.sQ = c.sQ
  BY <1>1 DEF StopTimers, Clients, SameBut, Same
<1>3. Pipe(t) = Pipe(c) BY <1>2 DEF SameBut, Same, Pipe
<1>4. PICK u : u = Ungrab(t) OBVIOUS
<1>5. /\ u \in Clients /\ ~u.grabbed /\ ~u.held
      /\ Same(t, u) /\ u.socket = t.socket
      /\ t.held /\ t.socket[t.cur] = "open" => Pipe(u) = Append(Pipe(t), "input")
      /\ ~(t.held /\ t.socket[t.cur] = "open") => u.wire = t.wire
  BY <1>2, <1>4, UngrabFacts
<1>6. Same(c, u) /\ u.socket = c.socket
  BY <1>2, <1>5 DEF SameBut, Same, Clients
<1>7. u.cur = c.cur /\ u.socket = c.socket BY <1>6 DEF SameBut, Same, Clients
<1>8. /\ d \in Clients /\ d.wire = u.wire
      /\ Same(u, d) /\ d.grabbed = u.grabbed /\ d.held = u.held
      /\ u.cur # 0 => d.socket[u.cur] \notin {"connecting", "open"}
      /\ \A s \in Sockets \ {u.cur} : d.socket[s] = u.socket[s]
      /\ u.cur = 0 \/ u.socket[u.cur] \notin {"connecting", "open"} => d.socket = u.socket
  BY <1>1, <1>4, <1>5, CloseFacts
<1>9. Same(c, d)
  BY <1>6, <1>8, <1>5 DEF SameBut, Same, Clients
<1>10. ~d.grabbed /\ ~d.held BY <1>5, <1>8
<1>11. ASSUME c.held, c.socket[c.cur] = "open"
       PROVE  \E q \in Seq(Words) : d.wire \o q = Append(Pipe(c), "input")
  <2>1. t.held /\ t.socket[t.cur] = "open" BY <1>2, <1>11 DEF SameBut, Same
  <2>2. Pipe(u) = Append(Pipe(c), "input") BY <2>1, <1>3, <1>5
  <2>3. Pipe(u) = d.wire \o u.sQ BY <1>7, <1>8, <1>11 DEF Pipe
  <2>4. u.sQ \in Seq(Words) BY <1>5 DEF Clients
  <2> QED BY <2>2, <2>3, <2>4
<1>12. ~(c.held /\ c.socket[c.cur] = "open") => d.wire = c.wire
  BY <1>2, <1>5, <1>8 DEF SameBut, Same
<1> QED BY <1>7, <1>8, <1>9, <1>10, <1>11, <1>12

\* updateState to a state in which the connection is over.
LEMMA EndFacts ==
  ASSUME NEW c \in Clients, NEW e \in Ended, c.rfb_state # e
  PROVE  Over(c, UpdateState(c, e), e)
<1>1. PICK x : x = CloseSocket(Ungrab(StopTimers(c))) OBVIOUS
<1>2. /\ x \in Clients /\ ~x.grabbed /\ ~x.held
      /\ Same(c, x)
      /\ c.cur # 0 => x.socket[c.cur] \notin {"connecting", "open"}
      /\ \A s \in Sockets \ {c.cur} : x.socket[s] = c.socket[s]
      /\ ~(c.held /\ c.socket[c.cur] = "open") => x.wire = c.wire
      /\ c.held /\ c.socket[c.cur] = "open" =>
           \E q \in Seq(Words) : x.wire \o q = Append(Pipe(c), "input")
  BY ZenonT(40), <1>1, LeaveFacts
<1>3. /\ x.rfb_state = c.rfb_state /\ x.cur = c.cur /\ x.flushes = c.flushes
      /\ x.inits = c.inits /\ x.rQ = c.rQ /\ x.half = c.half /\ x.version = c.version
      /\ x.scheme = c.scheme /\ x.button = c.button
  BY <1>2 DEF SameBut, Same, Clients
<1>4. e \in Closing /\ e # "connect" /\ e # "password" /\ e \in States
  BY DEF Ended, Closing, States
<1>5. PICK a : a = After(x, e) OBVIOUS
<1>6. /\ a = After(c, e) /\ a \in Ended /\ a \in States /\ a # "connect"
      /\ e = "disconnect" => a = "disconnect"
      /\ a = "disconnect" => e = "disconnect"
  BY <1>3, <1>4, <1>5 DEF After, Ended, States
<1>7. PICK y : y = [x EXCEPT !.rfb_state = a, !.connTimer = FALSE,
                             !.disconnTimer = @ /\ a = "disconnect"]
  OBVIOUS
<1>8. /\ y \in Clients /\ y.rfb_state = a /\ ~y.connTimer
      /\ y.disconnTimer => a = "disconnect"
      /\ y.cur = x.cur /\ y.socket = x.socket /\ y.flushes = x.flushes /\ y.inits = x.inits
      /\ y.rQ = x.rQ /\ y.half = x.half /\ y.version = x.version /\ y.scheme = x.scheme
      /\ y.button = x.button /\ y.grabbed = x.grabbed /\ y.held = x.held /\ y.wire = x.wire
  <2>1. y \in Clients BY ZenonT(40), <1>2, <1>6, <1>7 DEF Clients
  <2>2. y.rfb_state = a /\ ~y.connTimer /\ (y.disconnTimer => a = "disconnect")
    BY <1>2, <1>7 DEF Clients
  <2>3. /\ y.cur = x.cur /\ y.socket = x.socket /\ y.flushes = x.flushes /\ y.inits = x.inits
        /\ y.rQ = x.rQ /\ y.half = x.half /\ y.version = x.version /\ y.scheme = x.scheme
        /\ y.button = x.button /\ y.grabbed = x.grabbed /\ y.held = x.held /\ y.wire = x.wire
    BY <1>2, <1>7 DEF Clients
  <2> QED BY <2>1, <2>2, <2>3
<1>9. PICK z : z = CASE e = "disconnect" -> [y EXCEPT !.disconnTimer = TRUE]
                     [] e = "failed" -> [y EXCEPT !.failed = @ + 1]
                     [] OTHER -> y
  OBVIOUS
<1>10. Enter(x, e) = z
  <2>1. (x.connTimer /\ a = "connect") = FALSE BY <1>2, <1>6 DEF Clients
  <2>2. y = [x EXCEPT !.rfb_state = After(x, e),
                      !.connTimer = @ /\ After(x, e) = "connect",
                      !.disconnTimer = @ /\ After(x, e) = "disconnect"]
    BY <1>5, <1>7, <2>1
  <2> QED BY <1>4, <1>9, <2>2 DEF Enter
<1>11. /\ z \in Clients /\ z.rfb_state = a /\ ~z.connTimer
       /\ z.disconnTimer => a = "disconnect"
       /\ z.cur = x.cur /\ z.socket = x.socket /\ z.flushes = x.flushes /\ z.inits = x.inits
       /\ z.rQ = x.rQ /\ z.half = x.half /\ z.version = x.version /\ z.scheme = x.scheme
       /\ z.button = x.button /\ z.grabbed = x.grabbed /\ z.held = x.held /\ z.wire = x.wire
  <2>1. CASE e = "disconnect"
    <3>1. z = [y EXCEPT !.disconnTimer = TRUE] BY <1>9, <2>1
    <3> QED BY <3>1, <2>1, <1>6, <1>8 DEF Clients
  <2>2. CASE e = "failed"
    <3>1. z = [y EXCEPT !.failed = @ + 1] BY <1>9, <2>2
    <3>2. y.failed + 1 \in Nat BY <1>8 DEF Clients
    <3> QED BY <3>1, <3>2, <1>8 DEF Clients
  <2>3. CASE e = "disconnected" BY <2>3, <1>8, <1>9
  <2> QED BY <2>1, <2>2, <2>3 DEF Ended
<1>12. UpdateState(c, e) = [z EXCEPT !.shown = e]
  <2>1. UpdateState(c, e) = Show(z, e) BY <1>1, <1>4, <1>10 DEF UpdateState
  <2>2. z.button = [z EXCEPT !.shown = e].button BY <1>11 DEF Clients
  <2> QED BY <2>1, <1>4, <1>11 DEF Show, Clients
<1>13. PICK d : d = [z EXCEPT !.shown = e] OBVIOUS
<1>14. d \in Clients /\ d.shown = e BY <1>4, <1>11, <1>13 DEF Clients
<1>15. /\ d.rfb_state = a /\ ~d.connTimer /\ (d.disconnTimer => a = "disconnect")
       /\ d.cur = x.cur /\ d.socket = x.socket /\ d.flushes = x.flushes /\ d.inits = x.inits
       /\ d.rQ = x.rQ /\ d.half = x.half /\ d.version = x.version /\ d.scheme = x.scheme
       /\ d.button = x.button /\ d.grabbed = x.grabbed /\ d.held = x.held /\ d.wire = x.wire
  BY <1>11, <1>13 DEF Clients
<1>16. /\ c.cur # 0 => d.socket[c.cur] \notin {"connecting", "open"}
       /\ \A s \in Sockets \ {c.cur} : d.socket[s] = c.socket[s]
       /\ ~(c.held /\ c.socket[c.cur] = "open") => d.wire = c.wire
  BY <1>2, <1>15
<1>17. c.held /\ c.socket[c.cur] = "open" =>
         \E q \in Seq(Words) : d.wire \o q = Append(Pipe(c), "input")
  BY <1>2, <1>15
<1>18. d.disconnTimer => d.rfb_state = "disconnect"
  BY <1>6, <1>15
<1>19. UpdateState(c, e) = d BY <1>12, <1>13
<1> QED BY <1>2, <1>3, <1>6, <1>14, <1>15, <1>16, <1>17, <1>18, <1>19 DEF Over

\* d is c with a new connection.
Connecting(c, d) ==
  /\ d \in Clients /\ d.rfb_state = "connect" /\ d.cur = c.cur + 1
  /\ d.socket[d.cur] = "connecting"
  /\ \A s \in Sockets \ {d.cur} :
       /\ d.socket[s] \notin {"connecting", "open"} \/ s # c.cur
       /\ (s = c.cur /\ c.socket[s] \in {"connecting", "open"}) \/ d.socket[s] = c.socket[s]
  /\ ~d.disconnTimer
  /\ d.failed = c.failed /\ d.flushes = c.flushes /\ d.inits = c.inits
  /\ d.sQ = <<>> /\ d.wire = <<>> /\ d.rQ = <<>> /\ ~d.half
  /\ ~d.grabbed /\ ~d.held
  /\ d.shown = "connect" /\ d.button = c.button

\* updateState to "connect": a new socket, with empty queues.
LEMMA ConnectFacts ==
  ASSUME NEW c \in Clients, c.rfb_state # "connect", c.cur < MaxSockets
  PROVE  Connecting(c, UpdateState(c, "connect"))
<1>1. PICK x : x = CloseSocket(Ungrab(StopTimers(c))) OBVIOUS
<1>2. /\ x \in Clients /\ ~x.grabbed /\ ~x.held /\ Same(c, x)
      /\ c.cur # 0 => x.socket[c.cur] \notin {"connecting", "open"}
      /\ \A s \in Sockets \ {c.cur} : x.socket[s] = c.socket[s]
      /\ c.cur = 0 \/ c.socket[c.cur] \notin {"connecting", "open"} => x.socket = c.socket
  BY <1>1, LeaveFacts
<1>3. /\ x.rfb_state = c.rfb_state /\ x.cur = c.cur /\ x.failed = c.failed
      /\ x.flushes = c.flushes /\ x.inits = c.inits /\ x.button = c.button
  BY <1>2 DEF Same
<1>4. "connect" \in Closing /\ After(x, "connect") = "connect" BY DEF Closing, After
<1>5. PICK y : y = [x EXCEPT !.rfb_state = "connect", !.connTimer = TRUE, !.disconnTimer = FALSE]
  OBVIOUS
<1>6. y \in Clients BY <1>2, <1>5 DEF Clients, States
<1>7. /\ y.rfb_state = "connect" /\ ~y.disconnTimer
      /\ y.cur = c.cur /\ y.socket = x.socket /\ y.failed = c.failed
      /\ y.flushes = c.flushes /\ y.inits = c.inits /\ y.button = c.button
      /\ ~y.grabbed /\ ~y.held
  BY <1>2, <1>3, <1>5 DEF Clients
<1>8. PICK f : f = [y.socket EXCEPT ![y.cur + 1] = "connecting"] OBVIOUS
<1>9. y.cur + 1 \in Sockets /\ y.cur + 1 \in 0 .. MaxSockets
  BY <1>7, RfbAssumption DEF Clients, Sockets
<1>10. /\ f \in [Sockets -> {"unused", "connecting", "open", "closing", "closed"}]
       /\ f[y.cur + 1] = "connecting" /\ \A s \in Sockets \ {y.cur + 1} : f[s] = x.socket[s]
  BY <1>6, <1>7, <1>8, <1>9 DEF Clients
<1>11. PICK z : z = [y EXCEPT !.sQ = <<>>, !.wire = <<>>, !.rQ = <<>>, !.half = FALSE,
                              !.moved = FALSE, !.congested = FALSE, !.cur = @ + 1, !.socket = f]
  OBVIOUS
<1>12. OpenSocket(y) = z BY <1>6, <1>8, <1>11 DEF OpenSocket, Clients
<1>13. z \in Clients
  <2>1. <<>> \in Seq(Words) /\ <<>> \in Seq(Said) OBVIOUS
  <2> QED BY ZenonT(40), <2>1, <1>6, <1>9, <1>10, <1>11 DEF Clients
<1>14. /\ z.rfb_state = "connect" /\ ~z.disconnTimer
       /\ z.cur = c.cur + 1 /\ z.socket = f /\ z.failed = c.failed
       /\ z.flushes = c.flushes /\ z.inits = c.inits /\ z.button = c.button
       /\ ~z.grabbed /\ ~z.held
       /\ z.sQ = <<>> /\ z.wire = <<>> /\ z.rQ = <<>> /\ ~z.half
  BY <1>6, <1>7, <1>11 DEF Clients
<1>15. Enter(x, "connect") = z
  <2>1. PICK w : w = [x EXCEPT !.rfb_state = "connect", !.connTimer = @ /\ TRUE,
                               !.disconnTimer = @ /\ FALSE]
    OBVIOUS
  <2>2. Enter(x, "connect") = OpenSocket([w EXCEPT !.connTimer = TRUE])
    BY <2>1, <1>4 DEF Enter
  <2>3. (x.disconnTimer /\ FALSE) = FALSE OBVIOUS
  <2>4. [w EXCEPT !.connTimer = TRUE] = y BY <2>1, <2>3, <1>2, <1>5 DEF Clients
  <2> QED BY <2>2, <2>4, <1>12
<1>16. PICK d : d = [z EXCEPT !.shown = "connect"] OBVIOUS
<1>17. UpdateState(c, "connect") = d
  <2>1. UpdateState(c, "connect") = Show(z, "connect")
    BY <1>1, <1>4, <1>15 DEF UpdateState
  <2>2. Show(z, "connect") = [z EXCEPT !.shown = "connect", !.button = @] BY DEF Show
  <2>3. [z EXCEPT !.shown = "connect", !.button = @] = [z EXCEPT !.shown = "connect"]
    BY <1>13 DEF Clients
  <2> QED BY <2>1, <2>2, <2>3, <1>16
<1>18. d \in Clients /\ d.shown = "connect" BY <1>13, <1>16 DEF Clients, States
<1>19. /\ d.rfb_state = "connect" /\ ~d.disconnTimer
       /\ d.cur = c.cur + 1 /\ d.socket = f /\ d.failed = c.failed
       /\ d.flushes = c.flushes /\ d.inits = c.inits /\ d.button = c.button
       /\ ~d.grabbed /\ ~d.held
       /\ d.sQ = <<>> /\ d.wire = <<>> /\ d.rQ = <<>> /\ ~d.half
  BY <1>13, <1>14, <1>16 DEF Clients
<1>20. d.socket[d.cur] = "connecting" BY <1>7, <1>10, <1>19
<1>21. \A s \in Sockets \ {d.cur} : d.socket[s] = x.socket[s] BY <1>7, <1>10, <1>19
<1>22. \A s \in Sockets \ {d.cur} :
         /\ d.socket[s] \notin {"connecting", "open"} \/ s # c.cur
         /\ (s = c.cur /\ c.socket[s] \in {"connecting", "open"}) \/ d.socket[s] = c.socket[s]
  <2> TAKE s \in Sockets \ {d.cur}
  <2>1. CASE s # c.cur BY <2>1, <1>2, <1>21
  <2>2. CASE s = c.cur
    <3>1. c.cur # 0 BY <2>2 DEF Sockets
    <3> QED BY <3>1, <2>2, <1>2, <1>21
  <2> QED BY <2>1, <2>2
<1> QED BY <1>17, <1>18, <1>19, <1>20, <1>22 DEF Connecting

-----------------------------------------------------------------------------
(* What holds of the page in every session.                                *)

\* Sending disturbs nothing.
LEMMA CoreSame ==
  ASSUME NEW c, Core(c), NEW d \in Clients, SameBut(c, d),
         c.socket[c.cur] # "open" => d.wire = c.wire
  PROVE  Core(d)
BY DEF Core, SameBut, Same

\* Nor does the next state of a connection.
LEMMA CoreMove ==
  ASSUME NEW c, Core(c), NEW h \in Talking, NEW d, MovedTo(c, d, h)
  PROVE  Core(d)
<1>1. h # "connect" BY DEF Talking, Handshake
<1> QED BY <1>1 DEF Core, MovedTo

\* A page with a connection that may end.
Ending(c) ==
  /\ c \in Clients /\ c.cur # 0
  /\ \A s \in Sockets \ {c.cur} : c.socket[s] \notin {"connecting", "open"}
  /\ c.half => c.rQ # <<>>

\* The end of a connection leaves the page in order.
LEMMA CoreEnd ==
  ASSUME NEW c, Ending(c), NEW e \in Ended, NEW d, Over(c, d, e)
  PROVE  Core(d) /\ d.rfb_state \in Ended
<1>1. d.rfb_state \in Ended /\ (d.rfb_state = e \/ (d.rfb_state = "failed" /\ e = "disconnected"))
  BY DEF Over, After, Ended
<1>2. \A s \in Sockets : d.socket[s] \notin {"connecting", "open"}
  BY DEF Ending, Over
<1> QED BY <1>1, <1>2 DEF Ending, Core, Over, Ended

\* Whatever the state is, a failure leaves the page in order.
LEMMA CoreFail ==
  ASSUME NEW c, Core(c)
  PROVE  Core(Fail(c)) /\ Fail(c).rfb_state = "failed" /\ Fail(c).rQ = c.rQ
<1>1. CASE c.rfb_state = "failed" BY <1>1 DEF Fail, UpdateState
<1>2. CASE c.rfb_state # "failed"
  <2>1. c \in Clients /\ "failed" \in Ended BY DEF Core, Ended
  <2>2. Over(c, Fail(c), "failed") BY <1>2, <2>1, EndFacts DEF Fail
  <2>3. Fail(c).rfb_state = "failed" /\ Fail(c).rQ = c.rQ BY <2>2 DEF Over, After
  <2>4. Ending(c) BY DEF Core, Ending
  <2> QED BY <2>1, <2>2, <2>3, <2>4, CoreEnd
<1> QED BY <1>1, <1>2

\* Whatever is sent.
LEMMA CoreSend ==
  ASSUME NEW c, Core(c), NEW m \in Words
  PROVE  Core(Send(c, m)) /\ SameBut(c, Send(c, m))
<1>1. c \in Clients BY DEF Core
<1>2. /\ Send(c, m) \in Clients /\ SameBut(c, Send(c, m))
      /\ c.socket[c.cur] # "open" => Send(c, m).wire = c.wire
  BY <1>1, SendFacts
<1> QED BY <1>2, CoreSame

\* The next message is taken from the queue.
LEMMA ShiftFacts ==
  ASSUME NEW c, Core(c), Whole(c)
  PROVE  /\ Core(Shift(c)) /\ Shift(c).rQ = Tail(c.rQ)
         /\ c.rQ # <<>> /\ Head(c.rQ) \in Said
         /\ Pipe(Shift(c)) = Pipe(c) /\ Shift(c) = [c EXCEPT !.rQ = Tail(c.rQ)]
<1>1. c \in Clients /\ c.rQ \in Seq(Said) BY DEF Core, Clients
<1>2. c.rQ # <<>> /\ Len(c.rQ) > 0 BY <1>1 DEF Whole
<1>3. /\ Head(c.rQ) \in Said /\ Tail(c.rQ) \in Seq(Said)
      /\ Len(Tail(c.rQ)) = Len(c.rQ) - 1
  BY <1>1, <1>2, HeadTailProperties
<1>4. PICK d : d = [c EXCEPT !.rQ = Tail(c.rQ)] OBVIOUS
<1>5. Shift(c) = d BY <1>4 DEF Shift
<1>6. d \in Clients /\ d.rQ = Tail(c.rQ) BY <1>1, <1>3, <1>4 DEF Clients
<1>7. /\ d.rfb_state = c.rfb_state /\ d.cur = c.cur /\ d.socket = c.socket /\ d.wire = c.wire
      /\ d.sQ = c.sQ /\ d.half = c.half /\ d.held = c.held /\ d.grabbed = c.grabbed
      /\ d.shown = c.shown /\ d.button = c.button
  BY <1>1, <1>4 DEF Clients
<1>8. d.half => d.rQ # <<>>
  <2>1. c.half => Len(c.rQ) > 1 BY <1>1 DEF Whole
  <2>2. c.half => Len(Tail(c.rQ)) > 0 BY <2>1, <1>1, <1>3
  <2>3. c.half => Tail(c.rQ) # <<>> BY <2>2
  <2>4. d.half => c.half BY <1>7
  <2> QED BY <2>3, <2>4, <1>6
<1>9. Core(d) BY <1>6, <1>7, <1>8 DEF Core
<1>10. Pipe(d) = Pipe(c) BY <1>7 DEF Pipe
<1> QED BY <1>2, <1>3, <1>4, <1>5, <1>6, <1>9, <1>10

-----------------------------------------------------------------------------
(* A handshake that nothing disturbs.                                      *)

Handshaking(c, sv) ==
  /\ Core(c) /\ sv \in Servers /\ c.rfb_state \in Handshake
  /\ c.socket[c.cur] = "open" /\ \A s \in Sockets \ {c.cur} : c.socket[s] \in {"unused", "closed"}
  /\ ~c.connTimer /\ ~c.disconnTimer /\ ~c.grabbed /\ c.failed = 0 /\ c.flushes = 0

Settled(c, sv) == Core(c) /\ Start(c, sv) /\ Session(c, sv)

\* A message of the client leaves the handshake undisturbed.
LEMMA ShakeSend ==
  ASSUME NEW c, NEW sv, Handshaking(c, sv), NEW m \in Words
  PROVE  /\ Handshaking(Send(c, m), sv) /\ SameBut(c, Send(c, m))
         /\ Pipe(Send(c, m)) = Append(Pipe(c), m)
<1>1. c \in Clients /\ Core(c) /\ c.socket[c.cur] = "open" BY DEF Handshaking, Core
<1>2. Core(Send(c, m)) /\ SameBut(c, Send(c, m)) BY <1>1, CoreSend
<1>3. Pipe(Send(c, m)) = Append(Pipe(c), m) BY <1>1, SendFacts
<1> QED BY <1>2, <1>3 DEF Handshaking, SameBut, Same

\* So does a state that is entered,
LEMMA ShakeMove ==
  ASSUME NEW c, NEW sv, Handshaking(c, sv), NEW h \in Handshake, c.rfb_state # h
  PROVE  LET d == UpdateState(c, h)
         IN Handshaking(d, sv) /\ MovedTo(c, d, h) /\ Pipe(d) = Pipe(c)
<1>1. c \in Clients /\ Core(c) /\ h \in Talking BY DEF Handshaking, Core, Talking
<1>2. PICK d : d = UpdateState(c, h) OBVIOUS
<1>3. MovedTo(c, d, h) BY <1>1, <1>2, MoveFacts
<1>4. Core(d) BY <1>1, <1>3, CoreMove
<1>5. Pipe(d) = Pipe(c) BY <1>3 DEF Pipe, MovedTo
<1>6. Handshaking(d, sv) BY <1>3, <1>4 DEF Handshaking, MovedTo
<1> QED BY <1>2, <1>3, <1>5, <1>6

\* and a message that is taken from the queue.
LEMMA ShakeShift ==
  ASSUME NEW c, NEW sv, Handshaking(c, sv), Whole(c)
  PROVE  LET d == Shift(c)
         IN /\ Handshaking(d, sv) /\ d.rQ = Tail(c.rQ) /\ Pipe(d) = Pipe(c)
            /\ d.rfb_state = c.rfb_state /\ d.version = c.version /\ d.scheme = c.scheme
            /\ d.password = c.password /\ d.inits = c.inits
<1>1. Core(c) /\ c \in Clients BY DEF Handshaking, Core
<1>2. PICK d : d = Shift(c) OBVIOUS
<1>3. Core(d) /\ d.rQ = Tail(c.rQ) /\ Pipe(d) = Pipe(c) /\ d = [c EXCEPT !.rQ = Tail(c.rQ)]
  BY <1>1, <1>2, ShiftFacts
<1>4. /\ d.rfb_state = c.rfb_state /\ d.version = c.version /\ d.scheme = c.scheme
      /\ d.password = c.password /\ d.inits = c.inits /\ d.cur = c.cur /\ d.socket = c.socket
      /\ d.connTimer = c.connTimer /\ d.disconnTimer = c.disconnTimer
      /\ d.grabbed = c.grabbed /\ d.failed = c.failed /\ d.flushes = c.flushes
  BY <1>1, <1>3 DEF Clients
<1>5. Handshaking(d, sv) BY <1>3, <1>4 DEF Handshaking
<1> QED BY <1>2, <1>3, <1>4, <1>5

\* An undisturbed session that ends is in order.
LEMMA SessionEnds ==
  ASSUME NEW c, NEW sv, Ending(c), NEW e \in Ended, c.rfb_state # e,
         \A s \in Sockets \ {c.cur} : c.socket[s] \in {"unused", "closed"},
         Fits(sv, c.scheme, Pipe(c)), c.held => sv.stage = "serve"
  PROVE  Settled(UpdateState(c, e), sv) /\ UpdateState(c, e).rfb_state \in Ended
<1>1. PICK d : d = UpdateState(c, e) OBVIOUS
<1>2. c \in Clients BY DEF Ending
<1>3. Over(c, d, e) BY <1>1, <1>2, EndFacts
<1>4. Core(d) /\ d.rfb_state \in Ended BY <1>3, CoreEnd
<1>5. d \in Clients /\ d.wire \in Seq(Words) /\ d.cur # 0 /\ d.cur \in Sockets
  BY <1>4 DEF Core, Clients, Sockets
<1>6. Pipe(d) = d.wire BY <1>3, <1>5 DEF Over, Pipe
<1>7. Fits(sv, c.scheme, d.wire)
  <2>1. c.wire \in Seq(Words) /\ c.sQ \in Seq(Words) BY <1>2 DEF Clients
  <2>2. CASE ~(c.held /\ c.socket[c.cur] = "open")
    <3>1. d.wire = c.wire BY <2>2, <1>3 DEF Over
    <3>2. CASE c.socket[c.cur] = "open"
      <4>1. Fits(sv, c.scheme, c.wire \o c.sQ) BY <3>2 DEF Pipe
      <4> QED BY <4>1, <2>1, <3>1, PrefixFits
    <3>3. CASE c.socket[c.cur] # "open" BY <3>1, <3>3 DEF Pipe
    <3> QED BY <3>2, <3>3
  <2>3. CASE c.held /\ c.socket[c.cur] = "open"
    <3>1. PICK q \in Seq(Words) : d.wire \o q = Append(Pipe(c), "input")
      BY <2>3, <1>3 DEF Over
    <3>2. sv.stage = "serve" BY <2>3
    <3>3. Pipe(c) \in Seq({"setup", "input", "request"})
      <4>1. <<>> \in Seq({"setup", "input", "request"}) OBVIOUS
      <4> QED BY <3>2, <4>1 DEF Fits
    <3>4. Append(Pipe(c), "input") \in Seq({"setup", "input", "request"})
      BY <3>3, AppendProperties
    <3>5. Fits(sv, c.scheme, d.wire \o q) BY <3>1, <3>2, <3>4 DEF Fits
    <3> QED BY <3>5, <1>5, PrefixFits
  <2> QED BY <2>2, <2>3
<1>8. Step(d, sv) BY <1>4 DEF Step, Ended
<1>9. d.rfb_state \notin Talking \cup {"connect", "ProtocolVersion"}
  BY <1>4 DEF Ended, Talking, Handshake
<1>10. Session(d, sv)
  <2>1. /\ d.scheme = c.scheme /\ d.cur = c.cur /\ ~d.connTimer /\ ~d.grabbed
        /\ d.disconnTimer => d.rfb_state = "disconnect"
        /\ \A s \in Sockets \ {d.cur} : d.socket[s] \in {"unused", "closed"}
    BY <1>3 DEF Over
  <2> QED BY <2>1, <1>4, <1>6, <1>7, <1>8, <1>9 DEF Session
<1>11. Start(d, sv) BY <1>9 DEF Start
<1> QED BY <1>1, <1>4, <1>10, <1>11 DEF Settled

\* A handshake that fails or is broken off leaves the session in order.
LEMMA ShakeEnds ==
  ASSUME NEW c, NEW sv, Handshaking(c, sv), Fits(sv, c.scheme, Pipe(c)), NEW e \in Ended
  PROVE  Settled(UpdateState(c, e), sv)
<1>1. c.rfb_state # e BY DEF Handshaking, Handshake, Ended
<1>2. /\ Ending(c) /\ ~c.held
      /\ \A s \in Sockets \ {c.cur} : c.socket[s] \in {"unused", "closed"}
  BY DEF Handshaking, Core, Ending
<1> QED BY <1>1, <1>2, SessionEnds

\* A step of the handshake is done.
LEMMA ShakeSettles ==
  ASSUME NEW c, NEW sv, Handshaking(c, sv), Fits(sv, c.scheme, Pipe(c)), Step(c, sv),
         c.rfb_state = "ProtocolVersion" => c.inits = 0
  PROVE  Settled(c, sv)
<1>1. c.rfb_state # "connect" BY DEF Handshaking, Handshake
<1>2. Start(c, sv) BY <1>1 DEF Start, Step, Waits
<1>3. Session(c, sv) BY <1>1 DEF Session, Handshaking, Core, Clients
<1> QED BY <1>2, <1>3 DEF Settled, Handshaking

-----------------------------------------------------------------------------
(* A handshake in any session.                                             *)

\* d differs from c in what the state of the page does not depend on.
Alike(c, d) ==
  /\ d.rfb_state = c.rfb_state /\ d.cur = c.cur /\ d.socket = c.socket
  /\ d.wire = c.wire /\ d.sQ = c.sQ /\ d.rQ = c.rQ /\ d.half = c.half
  /\ d.held = c.held /\ d.shown = c.shown /\ d.button = c.button
  /\ d.connTimer = c.connTimer /\ d.disconnTimer = c.disconnTimer
  /\ d.failed = c.failed /\ d.flushes = c.flushes /\ d.inits = c.inits

\* The page stays in order when a variable of the handshake is set.
LEMMA CoreAlike ==
  ASSUME NEW c, Core(c), NEW d \in Clients, Alike(c, d), c.grabbed => d.grabbed
  PROVE  Core(d)
BY DEF Core, Alike

\* What the handshake remembers.
LEMMA SetVersion ==
  ASSUME NEW c \in Clients, NEW v \in Numbers, NEW d,
         d = [c EXCEPT !.version = v, !.sendTimer = TRUE]
  PROVE  /\ d \in Clients /\ Alike(c, d) /\ d.grabbed = c.grabbed
         /\ d.version = v /\ d.scheme = c.scheme /\ d.password = c.password
<1>1. d \in Clients BY DEF Clients
<1>2. Alike(c, d) BY DEF Alike, Clients
<1> QED BY <1>1, <1>2 DEF Clients

\* The security type.
LEMMA SetScheme ==
  ASSUME NEW c \in Clients, NEW m \in Said, NEW d, d = [c EXCEPT !.scheme = m]
  PROVE  /\ d \in Clients /\ Alike(c, d) /\ d.grabbed = c.grabbed
         /\ d.version = c.version /\ d.scheme = m /\ d.password = c.password
<1>1. d \in Clients BY DEF Clients
<1>2. Alike(c, d) BY DEF Alike, Clients
<1> QED BY <1>1, <1>2 DEF Clients

\* The keyboard, and one more chain of checkEvents.
LEMMA SetGrabbed ==
  ASSUME NEW c \in Clients, NEW d, d = [c EXCEPT !.grabbed = TRUE, !.checks = @ + 1]
  PROVE  d \in Clients /\ Alike(c, d) /\ d.grabbed /\ d.scheme = c.scheme
<1>1. d \in Clients
  <2>1. c.checks + 1 \in Nat BY DEF Clients
  <2> QED BY <2>1 DEF Clients
<1>2. Alike(c, d) BY DEF Alike, Clients
<1> QED BY <1>1, <1>2 DEF Clients

\* The next state of a connection, which may be the present one.
LEMMA CoreNext ==
  ASSUME NEW c, Core(c), NEW h \in Talking
  PROVE  Core(UpdateState(c, h)) /\ UpdateState(c, h).rfb_state = h
<1>1. CASE c.rfb_state = h BY <1>1 DEF UpdateState
<1>2. CASE c.rfb_state # h
  <2>1. c \in Clients BY DEF Core
  <2>2. MovedTo(c, UpdateState(c, h), h) BY <1>2, <2>1, MoveFacts
  <2> QED BY <2>2, CoreMove DEF MovedTo
<1> QED BY <1>1, <1>2

\* Nothing but the user begins a connection, and nothing leads back to the
\* version of the server, but the repeater, which is asked once.
Onward(c, d) ==
  /\ Core(d)
  /\ \/ d = c /\ (c.rfb_state = "ProtocolVersion" => c.rQ = <<>>)
     \/ d.rfb_state \notin {"connect", "ProtocolVersion"}
     \/ /\ d.rfb_state = c.rfb_state /\ c.rfb_state = "ProtocolVersion"
        /\ c.rQ = <<"repeater">> /\ d.rQ = <<>>

\* Case 'ClientInitialisation' of init_msg, in any session.
LEMMA InitialisationOnward ==
  ASSUME NEW c, Core(c)
  PROVE  /\ Core(ClientInitialisation(c))
         /\ ClientInitialisation(c).rfb_state = "ServerInitialisation"
<1>1. "init" \in Words /\ "ServerInitialisation" \in Talking BY DEF Words, Talking, Handshake
<1>2. Core(Send(c, "init")) BY <1>1, CoreSend
<1> QED BY <1>1, <1>2, CoreNext DEF ClientInitialisation

\* Case 'Authentication' and the authentication of each scheme.
LEMMA AuthenticationOnward ==
  ASSUME NEW c, Core(c), c.rfb_state = "Authentication"
  PROVE  LET d == Authentication(c)
         IN Core(d) /\ d.rfb_state \notin {"connect", "ProtocolVersion"}
<1>1. /\ "response" \in Words
      /\ {"SecurityResult", "ClientInitialisation", "password"} \subseteq Talking
  BY DEF Words, Talking, Handshake
<1>2. CASE c.scheme = "none" /\ c.version >= 38
  BY <1>1, <1>2, CoreNext DEF Authentication
<1>3. CASE c.scheme = "none" /\ ~(c.version >= 38)
  <2>1. Core(UpdateState(c, "ClientInitialisation")) BY <1>1, CoreNext
  <2> QED BY <1>3, <2>1, InitialisationOnward DEF Authentication
<1>4. CASE c.scheme = "vnc" /\ ~c.password
  BY <1>1, <1>4, CoreNext DEF Authentication
<1>5. CASE c.scheme = "vnc" /\ c.password /\ Whole(c)
  <2>1. Core(Shift(c)) BY <1>5, ShiftFacts
  <2>2. Core(Send(Shift(c), "response")) BY <1>1, <2>1, CoreSend
  <2>3. Authentication(c) = UpdateState(Send(Shift(c), "response"), "SecurityResult")
    BY <1>5 DEF Authentication
  <2> QED BY <1>1, <2>2, <2>3, CoreNext
<1>6. CASE c.scheme = "vnc" /\ c.password /\ ~Whole(c)
  BY <1>6 DEF Authentication
<1>7. CASE c.scheme \notin {"none", "vnc"}
  <2>1. Authentication(c) = Fail(c) BY <1>7 DEF Authentication
  <2> QED BY <2>1, CoreFail
<1>8. c.password \in BOOLEAN BY DEF Core, Clients
<1> QED BY <1>2, <1>3, <1>4, <1>5, <1>6, <1>7, <1>8

\* Case 'Security'.
LEMMA SecurityOnward ==
  ASSUME NEW c, Core(c), c.rfb_state = "Security"
  PROVE  LET d == Security(c)
         IN Core(d) /\ d.rfb_state \notin {"connect", "ProtocolVersion"}
<1>1. CASE ~Whole(c) BY <1>1 DEF Security
<1>2. CASE Whole(c)
  <2>1. Core(Shift(c)) /\ Shift(c) \in Clients /\ Head(c.rQ) \in Said
    BY <1>2, ShiftFacts DEF Core
  <2>2. PICK d : d = [Shift(c) EXCEPT !.scheme = Head(c.rQ)] OBVIOUS
  <2>3. Core(d) BY <2>1, <2>2, SetScheme, CoreAlike
  <2>4. "Authentication" \in Talking /\ "scheme" \in Words BY DEF Talking, Handshake, Words
  <2>5. \A e : Core(e) => /\ Core(Authentication(UpdateState(e, "Authentication")))
                         /\ Authentication(UpdateState(e, "Authentication")).rfb_state
                              \notin {"connect", "ProtocolVersion"}
    BY <2>4, CoreNext, AuthenticationOnward
  <2>6. Core(Send(d, "scheme")) BY <2>3, <2>4, CoreSend
  <2>7. Core(Fail(d)) /\ Fail(d).rfb_state = "failed" BY <2>3, CoreFail
  <2>8. Security(c) = IF c.version < 37 THEN Authentication(UpdateState(d, "Authentication"))
                      ELSE IF d.scheme = "refused" THEN Fail(d)
                      ELSE Authentication(UpdateState(Send(d, "scheme"), "Authentication"))
    BY <1>2, <2>2 DEF Security
  <2> QED BY <2>3, <2>5, <2>6, <2>7, <2>8
<1> QED BY <1>1, <1>2

\* Case 'SecurityResult'.
LEMMA ResultOnward ==
  ASSUME NEW c, Core(c), c.rfb_state = "SecurityResult"
  PROVE  LET d == SecurityResult(c)
         IN Core(d) /\ d.rfb_state \notin {"connect", "ProtocolVersion"}
<1>1. CASE ~Whole(c) BY <1>1 DEF SecurityResult
<1>2. CASE Whole(c) /\ Head(c.rQ) = "ok"
  <2>1. Core(Shift(c)) BY <1>2, ShiftFacts
  <2>2. Core(UpdateState(Shift(c), "ClientInitialisation"))
    BY <2>1, CoreNext DEF Talking, Handshake
  <2>3. SecurityResult(c) = ClientInitialisation(UpdateState(Shift(c), "ClientInitialisation"))
    BY <1>2 DEF SecurityResult
  <2> QED BY <2>2, <2>3, InitialisationOnward
<1>3. CASE Whole(c) /\ Head(c.rQ) # "ok"
  <2>1. SecurityResult(c) = Fail(Shift(c)) BY <1>3 DEF SecurityResult
  <2>2. Core(Shift(c)) BY <1>3, ShiftFacts
  <2> QED BY <2>1, <2>2, CoreFail
<1> QED BY <1>1, <1>2, <1>3

\* Case 'ServerInitialisation'.
LEMMA ServerInitialisationOnward ==
  ASSUME NEW c, Core(c), c.rfb_state = "ServerInitialisation"
  PROVE  LET d == ServerInitialisation(c)
         IN Core(d) /\ d.rfb_state \notin {"connect", "ProtocolVersion"}
<1>1. CASE ~Whole(c) BY <1>1 DEF ServerInitialisation
<1>2. CASE Whole(c)
  <2>1. Core(Shift(c)) /\ Shift(c) \in Clients BY <1>2, ShiftFacts DEF Core
  <2>2. PICK d : d = [Shift(c) EXCEPT !.grabbed = TRUE, !.checks = @ + 1] OBVIOUS
  <2>3. Core(d)
    <3>1. d \in Clients /\ Alike(Shift(c), d) /\ d.grabbed BY <2>1, <2>2, SetGrabbed
    <3> QED BY <2>1, <3>1, CoreAlike
  <2>4. "setup" \in Words /\ "normal" \in Talking BY DEF Words, Talking
  <2>5. Core(Send(d, "setup")) BY <2>3, <2>4, CoreSend
  <2>6. ServerInitialisation(c) = UpdateState(Send(d, "setup"), "normal")
    BY <1>2, <2>2 DEF ServerInitialisation
  <2> QED BY <2>4, <2>5, <2>6, CoreNext
<1> QED BY <1>1, <1>2

\* What the client hears while it waits for the version.
FirstWords == Versions \cup {"unknown", "repeater"}

\* The versions that are accepted are known by their numbers.
LEMMA VersionKnown ==
  ASSUME NEW m \in Versions
  PROVE  VersionOf(m) \in Numbers \ {0}
BY DEF Versions, VersionOf, Numbers

\* Case 'ProtocolVersion': the state is left, or the repeater was asked.
LEMMA VersionOnward ==
  ASSUME NEW c, Core(c), c.rfb_state = "ProtocolVersion",
         c.rQ = <<>> \/ \E m \in FirstWords : c.rQ = <<m>>
  PROVE  Onward(c, ProtocolVersion(c))
<1>1. CASE ~Whole(c) \/ Head(c.rQ) = "unknown"
  <2>1. ProtocolVersion(c) = Fail(c) BY <1>1 DEF ProtocolVersion
  <2> QED BY <2>1, CoreFail DEF Onward
<1>2. CASE Whole(c) /\ Head(c.rQ) # "unknown"
  <2>1. /\ Core(Shift(c)) /\ Shift(c).rQ = Tail(c.rQ) /\ c.rQ # <<>>
        /\ Shift(c) = [c EXCEPT !.rQ = Tail(c.rQ)]
    BY <1>2, ShiftFacts
  <2>2. PICK m \in FirstWords : c.rQ = <<m>> BY <2>1
  <2>3. Head(c.rQ) = m /\ Tail(c.rQ) = <<>> BY <2>2
  <2>4. Shift(c) \in Clients /\ Shift(c).rfb_state = c.rfb_state
    BY <2>1 DEF Core, Clients
  <2>5. CASE m = "repeater"
    <3>1. PICK d : d = Send(Shift(c), "repeater") OBVIOUS
    <3>2. "repeater" \in Words BY DEF Words
    <3>3. Core(d) /\ SameBut(Shift(c), d) BY <2>1, <3>1, <3>2, CoreSend
    <3>4. d.rfb_state = c.rfb_state /\ d.rQ = <<>>
      BY <2>1, <2>3, <2>4, <3>3 DEF SameBut, Same
    <3>5. ProtocolVersion(c) = d BY <1>2, <2>3, <2>5, <3>1 DEF ProtocolVersion
    <3> QED BY <2>2, <2>5, <3>3, <3>4, <3>5 DEF Onward
  <2>6. CASE m # "repeater"
    <3>1. VersionOf(m) \in Numbers BY <1>2, <2>3, <2>6, VersionKnown DEF FirstWords
    <3>2. PICK d : d = [Shift(c) EXCEPT !.version = VersionOf(m), !.sendTimer = TRUE] OBVIOUS
    <3>3. Core(d)
      <4>1. d \in Clients /\ Alike(Shift(c), d) /\ d.grabbed = Shift(c).grabbed
        BY <2>4, <3>1, <3>2, SetVersion
      <4> QED BY <2>1, <4>1, CoreAlike
    <3>4. "version" \in Words /\ "Security" \in Talking BY DEF Words, Talking, Handshake
    <3>5. Core(Send(d, "version")) BY <3>3, <3>4, CoreSend
    <3>6. ProtocolVersion(c) = UpdateState(Send(d, "version"), "Security")
      BY <1>2, <2>3, <2>6, <3>2 DEF ProtocolVersion
    <3> QED BY <3>4, <3>5, <3>6, CoreNext DEF Onward
  <2> QED BY <2>5, <2>6
<1> QED BY <1>1, <1>2

\* init_msg, in any session.
LEMMA InitOnward ==
  ASSUME NEW c, Core(c),
         c.rfb_state = "ProtocolVersion" => c.rQ = <<>> \/ \E m \in FirstWords : c.rQ = <<m>>
  PROVE  Onward(c, InitMsg(c))
<1>1. CASE c.rfb_state = "ProtocolVersion" BY <1>1, VersionOnward DEF InitMsg
<1>2. CASE c.rfb_state = "Security"
  BY <1>2, SecurityOnward DEF InitMsg, Onward
<1>3. CASE c.rfb_state = "Authentication"
  BY <1>3, AuthenticationOnward DEF InitMsg, Onward
<1>4. CASE c.rfb_state = "SecurityResult"
  BY <1>4, ResultOnward DEF InitMsg, Onward
<1>5. CASE c.rfb_state = "ServerInitialisation"
  BY <1>5, ServerInitialisationOnward DEF InitMsg, Onward
<1>6. CASE c.rfb_state \notin {"ProtocolVersion", "Security", "Authentication",
                               "SecurityResult", "ServerInitialisation"}
  BY <1>6 DEF InitMsg, Onward
<1> QED BY <1>1, <1>2, <1>3, <1>4, <1>5, <1>6

\* A message after the handshake.
LEMMA SetMsgTimer ==
  ASSUME NEW c \in Clients, NEW b \in BOOLEAN, NEW d, d = [c EXCEPT !.msgTimer = b]
  PROVE  /\ d \in Clients /\ Alike(c, d) /\ d.grabbed = c.grabbed
         /\ d.version = c.version /\ d.scheme = c.scheme /\ d.password = c.password
<1>1. d \in Clients BY DEF Clients
<1>2. Alike(c, d) BY DEF Alike, Clients
<1> QED BY <1>1, <1>2 DEF Clients

\* normal_msg, in any session.
LEMMA NormalOnward ==
  ASSUME NEW c, Core(c), c.rfb_state = "normal"
  PROVE  Onward(c, NormalMsg(c))
<1>1. CASE ~Whole(c) BY <1>1 DEF NormalMsg, Onward
<1>2. CASE Whole(c)
  <2>1. /\ Core(Shift(c)) /\ Shift(c) \in Clients
        /\ Shift(c) = [c EXCEPT !.rQ = Tail(c.rQ)]
    BY <1>2, ShiftFacts DEF Core
  <2>2. Shift(c).rfb_state = "normal" BY <2>1 DEF Core, Clients
  <2>3. PICK d : d = IF Head(c.rQ) = "garbage" THEN Fail(Shift(c)) ELSE Shift(c) OBVIOUS
  <2>4. Core(d) /\ d.rfb_state \in {"failed", "normal"}
    BY <2>1, <2>2, <2>3, CoreFail
  <2>5. d \in Clients BY <2>4 DEF Core
  <2>6. PICK b : b = (d.msgTimer \/ d.rQ # <<>>) OBVIOUS
  <2>7. b \in BOOLEAN BY <2>5, <2>6 DEF Clients
  <2>8. NormalMsg(c) = [d EXCEPT !.msgTimer = b] BY <1>2, <2>3, <2>6 DEF NormalMsg
  <2>9. NormalMsg(c) \in Clients /\ Alike(d, NormalMsg(c)) /\ NormalMsg(c).grabbed = d.grabbed
    BY <2>5, <2>7, <2>8, SetMsgTimer
  <2>10. Core(NormalMsg(c)) BY <2>4, <2>9, CoreAlike
  <2> QED BY <2>4, <2>9, <2>10 DEF Onward, Alike
<1> QED BY <1>1, <1>2

\* handle_message, in any session.
LEMMA HandleOnward ==
  ASSUME NEW c, Core(c),
         c.rfb_state = "ProtocolVersion" => c.rQ = <<>> \/ \E m \in FirstWords : c.rQ = <<m>>
  PROVE  Onward(c, HandleMessage(c))
<1>1. CASE c.rQ = <<>> \/ c.rfb_state \in {"disconnected", "failed"}
  BY <1>1 DEF HandleMessage, Onward
<1>2. CASE ~(c.rQ = <<>> \/ c.rfb_state \in {"disconnected", "failed"}) /\ c.rfb_state = "normal"
  BY <1>2, NormalOnward DEF HandleMessage
<1>3. CASE ~(c.rQ = <<>> \/ c.rfb_state \in {"disconnected", "failed"}) /\ c.rfb_state # "normal"
  BY <1>3, InitOnward DEF HandleMessage
<1> QED BY <1>1, <1>2, <1>3

-----------------------------------------------------------------------------
(* A handshake that nothing disturbs, message by message.                  *)

\* m has come to its end, and the server waits for the answer.
Came(c, sv, stage, m) ==
  sv.stage = stage /\ Pipe(c) = <<>> /\ c.rQ = <<m>> /\ ~c.half

\* What the handshake remembers does not disturb it.
LEMMA ShakeAlike ==
  ASSUME NEW c, NEW sv, Handshaking(c, sv), NEW d \in Clients, Alike(c, d),
         d.grabbed = c.grabbed
  PROVE  Handshaking(d, sv) /\ Pipe(d) = Pipe(c)
<1>1. Core(d) BY CoreAlike DEF Handshaking
<1> QED BY <1>1 DEF Handshaking, Alike, Pipe

\* When one message waits, rQwait depends on its end only.
LEMMA WholeFacts ==
  ASSUME NEW c
  PROVE  /\ c.rQ = <<>> => ~Whole(c)
         /\ \A m : c.rQ = <<m>> => (Whole(c) <=> ~c.half) /\ Head(c.rQ) = m /\ Tail(c.rQ) = <<>>
<1>1. c.rQ = <<>> => ~Whole(c) BY DEF Whole
<1>2. ASSUME NEW m, c.rQ = <<m>>
      PROVE  (Whole(c) <=> ~c.half) /\ Head(c.rQ) = m /\ Tail(c.rQ) = <<>>
  BY <1>2 DEF Whole
<1> QED BY <1>1, <1>2

\* Case 'ClientInitialisation', with the server as it must be then.
LEMMA CleanInitialisation ==
  ASSUME NEW c, NEW sv, Handshaking(c, sv), c.rQ = <<>>, c.rfb_state # "ServerInitialisation",
         \/ sv.stage = "hearInit" /\ Pipe(c) = <<>>
         \/ /\ sv.stage = "hearScheme" /\ Pipe(c) = <<"scheme">>
            /\ c.scheme = "none" /\ sv.version = 37
  PROVE  Settled(ClientInitialisation(c), sv)
<1>1. "init" \in Words /\ "scheme" \in Words /\ "ServerInitialisation" \in Handshake
  BY DEF Words, Handshake
<1>2. PICK s : s = Send(c, "init") OBVIOUS
<1>3. Handshaking(s, sv) /\ SameBut(c, s) /\ Pipe(s) = Append(Pipe(c), "init")
  BY <1>1, <1>2, ShakeSend
<1>4. s.rQ = <<>> /\ s.scheme = c.scheme /\ s.rfb_state # "ServerInitialisation"
  BY <1>3 DEF SameBut, Same
<1>5. PICK d : d = UpdateState(s, "ServerInitialisation") OBVIOUS
<1>6. Handshaking(d, sv) /\ MovedTo(s, d, "ServerInitialisation") /\ Pipe(d) = Pipe(s)
  BY <1>1, <1>3, <1>4, <1>5, ShakeMove
<1>7. d.rQ = <<>> /\ d.scheme = c.scheme /\ d.rfb_state = "ServerInitialisation"
  BY <1>4, <1>6 DEF MovedTo
<1>8. CASE sv.stage = "hearInit" /\ Pipe(c) = <<>>
  <2>1. Pipe(d) = <<"init">> BY <1>3, <1>6, <1>8, AppendFirst
  <2> QED BY <2>1, <1>2, <1>5, <1>6, <1>7, <1>8, ShakeSettles
          DEF ClientInitialisation, Step, Waits, Fits
<1>9. CASE /\ sv.stage = "hearScheme" /\ Pipe(c) = <<"scheme">>
           /\ c.scheme = "none" /\ sv.version = 37
  <2>1. Append(<<"scheme">>, "init") = <<"scheme", "init">> BY <1>1, AppendSecond
  <2>2. Pipe(d) = <<"scheme", "init">> BY <2>1, <1>3, <1>6, <1>9
  <2> QED BY <2>2, <1>2, <1>5, <1>6, <1>7, <1>9, ShakeSettles
          DEF ClientInitialisation, Step, Waits, Fits
<1> QED BY <1>8, <1>9

\* Case 'Authentication'.
LEMMA CleanAuthentication ==
  ASSUME NEW c, NEW sv, Handshaking(c, sv), c.rfb_state = "Authentication", Step(c, sv)
  PROVE  Settled(Authentication(c), sv)
<1>1. /\ c.scheme = "vnc" /\ Fits(sv, c.scheme, Pipe(c))
      /\ \/ c.rQ = <<>>
         \/ sv.stage = "hearResponse" /\ Pipe(c) = <<>> /\ c.rQ = <<"challenge">>
  BY DEF Step, Waits, Fits
<1>2. {"password", "SecurityResult"} \subseteq Handshake /\ "response" \in Words
      /\ c.password \in BOOLEAN
  BY DEF Handshake, Words, Handshaking, Core, Clients
<1>3. CASE ~c.password
  <2>1. PICK d : d = UpdateState(c, "password") OBVIOUS
  <2>2. Handshaking(d, sv) /\ MovedTo(c, d, "password") /\ Pipe(d) = Pipe(c)
    BY <2>1, <1>2, ShakeMove
  <2>3. d.rfb_state = "password" /\ d.scheme = c.scheme /\ d.rQ = c.rQ
    BY <2>2 DEF MovedTo
  <2>4. Step(d, sv) BY <2>2, <2>3 DEF Step, Waits
  <2>5. Authentication(c) = d BY <1>1, <1>3, <2>1 DEF Authentication
  <2>6. Settled(d, sv) BY <2>2, <2>3, <2>4, <1>1, ShakeSettles
  <2> QED BY <2>5, <2>6
<1>4. CASE c.password /\ ~Whole(c)
  <2>1. Authentication(c) = c BY <1>1, <1>4 DEF Authentication
  <2> QED BY <2>1, <1>1, ShakeSettles
<1>5. CASE c.password /\ Whole(c)
  <2>1. sv.stage = "hearResponse" /\ Pipe(c) = <<>> /\ c.rQ = <<"challenge">>
    BY <1>1, <1>5, WholeFacts
  <2>2. PICK s : s = Shift(c) OBVIOUS
  <2>3. /\ Handshaking(s, sv) /\ s.rQ = <<>> /\ Pipe(s) = <<>>
        /\ s.rfb_state = "Authentication"
    BY <2>1, <2>2, <1>5, ShakeShift, WholeFacts
  <2>4. PICK t : t = Send(s, "response") OBVIOUS
  <2>5. Handshaking(t, sv) /\ SameBut(s, t) /\ Pipe(t) = <<"response">>
    BY <2>3, <2>4, <1>2, ShakeSend, AppendFirst
  <2>6. t.rQ = <<>> /\ t.rfb_state = "Authentication" BY <2>3, <2>5 DEF SameBut, Same
  <2>7. PICK d : d = UpdateState(t, "SecurityResult") OBVIOUS
  <2>8. Handshaking(d, sv) /\ MovedTo(t, d, "SecurityResult") /\ Pipe(d) = Pipe(t)
    BY <2>5, <2>6, <2>7, <1>2, ShakeMove
  <2>9. d.rfb_state = "SecurityResult" /\ d.rQ = <<>> BY <2>6, <2>8 DEF MovedTo
  <2>10. Step(d, sv) BY <2>1, <2>5, <2>8, <2>9 DEF Step, Waits
  <2>11. Fits(sv, d.scheme, Pipe(d)) BY <2>1, <2>5, <2>8 DEF Fits
  <2>12. Settled(d, sv) BY <2>8, <2>9, <2>10, <2>11, ShakeSettles
  <2>13. Authentication(c) = d BY <1>1, <1>5, <2>2, <2>4, <2>7 DEF Authentication
  <2> QED BY <2>12, <2>13
<1> QED BY <1>2, <1>3, <1>4, <1>5

\* What the server has chosen, or asks the client to choose.
LEMMA CleanScheme ==
  ASSUME NEW c, NEW sv, Handshaking(c, sv), c.rfb_state = "Security", c.rQ = <<>>,
         c.version = sv.version,
         \/ c.scheme = "refused" /\ sv.stage = "refused" /\ Pipe(c) = <<>>
         \/ c.scheme = "none" /\ sv.stage = "hearInit" /\ Pipe(c) = <<>> /\ c.version < 37
         \/ c.scheme = "vnc" /\ sv.stage = "challenge" /\ Pipe(c) = <<>>
         \/ /\ c.scheme \in {"none", "vnc"} /\ sv.stage = "hearScheme"
            /\ Pipe(c) = <<"scheme">> /\ c.version \in {37, 38}
  PROVE  Settled(Authentication(UpdateState(c, "Authentication")), sv)
<1>1. {"Authentication", "SecurityResult", "ClientInitialisation"} \subseteq Handshake
  BY DEF Handshake
<1>2. PICK d : d = UpdateState(c, "Authentication") OBVIOUS
<1>3. Handshaking(d, sv) /\ MovedTo(c, d, "Authentication") /\ Pipe(d) = Pipe(c)
  BY <1>1, <1>2, ShakeMove
<1>4. /\ d.rfb_state = "Authentication" /\ d.rQ = <<>> /\ d.version = c.version
      /\ d.scheme = c.scheme /\ d.password = c.password
  BY <1>3 DEF MovedTo
<1>5. CASE c.scheme = "refused" /\ sv.stage = "refused" /\ Pipe(c) = <<>>
  <2>1. Authentication(d) = UpdateState(d, "failed")
    BY <1>4, <1>5 DEF Authentication, Fail
  <2>2. Fits(sv, d.scheme, Pipe(d)) BY <1>3, <1>5 DEF Fits
  <2>3. "failed" \in Ended BY DEF Ended
  <2> QED BY <2>1, <2>2, <2>3, <1>2, <1>3, ShakeEnds
<1>6. CASE c.scheme = "vnc"
  <2>1. Step(d, sv) BY <1>3, <1>4, <1>6 DEF Step, Waits
  <2> QED BY <2>1, <1>2, <1>3, <1>4, CleanAuthentication
<1>7. CASE c.scheme = "none"
  <2>1. c.version \in Numbers BY DEF Handshaking, Core, Clients
  <2>2. CASE c.version >= 38
    <3>1. c.version = 38 /\ sv.stage = "hearScheme" /\ Pipe(c) = <<"scheme">>
      BY <2>1, <2>2, <1>7 DEF Numbers
    <3>2. PICK e : e = UpdateState(d, "SecurityResult") OBVIOUS
    <3>3. Handshaking(e, sv) /\ MovedTo(d, e, "SecurityResult") /\ Pipe(e) = Pipe(d)
      BY <3>2, <1>1, <1>3, <1>4, ShakeMove
    <3>4. e.rfb_state = "SecurityResult" /\ e.rQ = <<>> /\ e.scheme = "none"
      BY <3>3, <1>4, <1>7 DEF MovedTo
    <3>5. Step(e, sv) BY <3>1, <3>3, <3>4, <1>3 DEF Step, Waits
    <3>6. Fits(sv, e.scheme, Pipe(e)) BY <3>1, <3>3, <1>3 DEF Fits
    <3>7. Settled(e, sv) BY <3>3, <3>4, <3>5, <3>6, ShakeSettles
    <3>8. Authentication(d) = e BY <2>2, <3>2, <1>4, <1>7 DEF Authentication
    <3> QED BY <3>7, <3>8, <1>2
  <2>3. CASE ~(c.version >= 38)
    <3>1. PICK e : e = UpdateState(d, "ClientInitialisation") OBVIOUS
    <3>2. Handshaking(e, sv) /\ MovedTo(d, e, "ClientInitialisation") /\ Pipe(e) = Pipe(d)
      BY <3>1, <1>1, <1>3, <1>4, ShakeMove
    <3>3. e.rfb_state = "ClientInitialisation" /\ e.rQ = <<>> /\ e.scheme = "none"
      BY <3>2, <1>4, <1>7 DEF MovedTo
    <3>4. \/ sv.stage = "hearInit" /\ Pipe(e) = <<>>
          \/ sv.stage = "hearScheme" /\ Pipe(e) = <<"scheme">> /\ sv.version = 37
      BY <2>3, <3>2, <1>3, <1>7
    <3>5. Settled(ClientInitialisation(e), sv) BY <3>2, <3>3, <3>4, CleanInitialisation
    <3>6. Authentication(d) = ClientInitialisation(e)
      BY <2>3, <3>1, <1>4, <1>7 DEF Authentication
    <3> QED BY <3>5, <3>6, <1>2
  <2> QED BY <2>2, <2>3
<1> QED BY <1>5, <1>6, <1>7

\* Case 'Security', for each type and version.
LEMMA CleanSecurity ==
  ASSUME NEW c, NEW sv, Handshaking(c, sv), c.rfb_state = "Security",
         c.version = sv.version, c.version # 0,
         \/ Came(c, sv, "refused", "refused")
         \/ c.version < 37 /\ (Came(c, sv, "hearInit", "none") \/ Came(c, sv, "challenge", "vnc"))
         \/ c.version >= 37 /\ \E m \in {"none", "vnc"} : Came(c, sv, "hearScheme", m)
  PROVE  Settled(Security(c), sv)
<1>1. PICK m \in {"refused", "none", "vnc"} : c.rQ = <<m>> /\ ~c.half /\ Pipe(c) = <<>>
  BY DEF Came
<1>2. Whole(c) /\ Head(c.rQ) = m /\ Tail(c.rQ) = <<>> BY <1>1, WholeFacts
<1>3. PICK s : s = Shift(c) OBVIOUS
<1>4. /\ Handshaking(s, sv) /\ s.rQ = <<>> /\ Pipe(s) = <<>> /\ s.rfb_state = "Security"
      /\ s.version = c.version
  BY <1>1, <1>2, <1>3, ShakeShift
<1>5. s \in Clients /\ m \in Said BY <1>4 DEF Handshaking, Core, Said
<1>6. PICK d : d = [s EXCEPT !.scheme = m] OBVIOUS
<1>7. d \in Clients /\ Alike(s, d) /\ d.grabbed = s.grabbed /\ d.scheme = m
      /\ d.version = c.version
  BY <1>4, <1>5, <1>6, SetScheme
<1>8. Handshaking(d, sv) /\ Pipe(d) = <<>> BY <1>4, <1>7, ShakeAlike
<1>9. d.rQ = <<>> /\ d.rfb_state = "Security" BY <1>4, <1>7 DEF Alike
<1>10. c.version \in {33, 37, 38} BY DEF Handshaking, Core, Clients, Numbers
<1>11. \/ m = "refused" /\ sv.stage = "refused"
       \/ m = "none" /\ sv.stage = "hearInit" /\ c.version < 37
       \/ m = "vnc" /\ sv.stage = "challenge" /\ c.version < 37
       \/ m \in {"none", "vnc"} /\ sv.stage = "hearScheme" /\ c.version >= 37
  <2>1. \A n : c.rQ = <<n>> => n = m BY <1>1
  <2> QED BY <2>1 DEF Came
<1>12. CASE c.version < 37
  <2>1. c.version \notin {37, 38} /\ ~(c.version >= 37) BY <1>10, <1>12
  <2>2. Settled(Authentication(UpdateState(d, "Authentication")), sv)
    BY <2>1, <1>7, <1>8, <1>9, <1>11, <1>12, CleanScheme
  <2>3. Security(c) = Authentication(UpdateState(d, "Authentication"))
    BY <1>2, <1>3, <1>6, <1>12 DEF Security
  <2> QED BY <2>2, <2>3
<1>13. CASE ~(c.version < 37) /\ m = "refused"
  <2>1. Security(c) = UpdateState(d, "failed")
    BY <1>2, <1>3, <1>6, <1>7, <1>13 DEF Security, Fail
  <2>2. Fits(sv, d.scheme, Pipe(d)) BY <1>8, <1>11, <1>13 DEF Fits
  <2>3. "failed" \in Ended BY DEF Ended
  <2> QED BY <2>1, <2>2, <2>3, <1>8, ShakeEnds
<1>14. CASE ~(c.version < 37) /\ m # "refused"
  <2>1. sv.stage = "hearScheme" /\ m \in {"none", "vnc"} /\ c.version \in {37, 38}
    BY <1>10, <1>11, <1>14
  <2>2. PICK t : t = Send(d, "scheme") OBVIOUS
  <2>3. "scheme" \in Words BY DEF Words
  <2>4. Handshaking(t, sv) /\ SameBut(d, t) /\ Pipe(t) = <<"scheme">>
    BY <2>2, <2>3, <1>8, ShakeSend, AppendFirst
  <2>5. t.rQ = <<>> /\ t.rfb_state = "Security" /\ t.scheme = m /\ t.version = c.version
    BY <2>4, <1>7, <1>9 DEF SameBut, Same
  <2>6. Settled(Authentication(UpdateState(t, "Authentication")), sv)
    BY <2>1, <2>4, <2>5, CleanScheme
  <2>7. Security(c) = Authentication(UpdateState(t, "Authentication"))
    BY <2>2, <1>2, <1>3, <1>6, <1>7, <1>14 DEF Security
  <2> QED BY <2>6, <2>7
<1> QED BY <1>12, <1>13, <1>14

\* Case 'SecurityResult'.
LEMMA CleanResult ==
  ASSUME NEW c, NEW sv, Handshaking(c, sv), c.rfb_state = "SecurityResult",
         Came(c, sv, "hearInit", "ok") \/ Came(c, sv, "refused", "denied")
  PROVE  Settled(SecurityResult(c), sv)
<1>1. PICK m \in {"ok", "denied"} : c.rQ = <<m>> /\ ~c.half /\ Pipe(c) = <<>>
  BY DEF Came
<1>2. Whole(c) /\ Head(c.rQ) = m /\ Tail(c.rQ) = <<>> BY <1>1, WholeFacts
<1>3. PICK s : s = Shift(c) OBVIOUS
<1>4. Handshaking(s, sv) /\ s.rQ = <<>> /\ Pipe(s) = <<>> /\ s.rfb_state = "SecurityResult"
  BY <1>1, <1>2, <1>3, ShakeShift
<1>5. (m = "ok" /\ sv.stage = "hearInit") \/ (m = "denied" /\ sv.stage = "refused")
  <2>1. \A n : c.rQ = <<n>> => n = m BY <1>1
  <2> QED BY <2>1 DEF Came
<1>6. CASE m = "ok"
  <2>1. "ClientInitialisation" \in Handshake BY DEF Handshake
  <2>2. PICK d : d = UpdateState(s, "ClientInitialisation") OBVIOUS
  <2>3. Handshaking(d, sv) /\ MovedTo(s, d, "ClientInitialisation") /\ Pipe(d) = Pipe(s)
    BY <2>1, <2>2, <1>4, ShakeMove
  <2>4. d.rfb_state = "ClientInitialisation" /\ d.rQ = <<>> BY <2>3, <1>4 DEF MovedTo
  <2>5. Settled(ClientInitialisation(d), sv)
    BY <2>3, <2>4, <1>4, <1>5, <1>6, CleanInitialisation
  <2> QED BY <2>2, <2>5, <1>2, <1>3, <1>6 DEF SecurityResult
<1>7. CASE m = "denied"
  <2>1. SecurityResult(c) = UpdateState(s, "failed")
    BY <1>2, <1>3, <1>7 DEF SecurityResult, Fail
  <2>2. Fits(sv, s.scheme, Pipe(s)) BY <1>4, <1>5, <1>7 DEF Fits
  <2>3. "failed" \in Ended BY DEF Ended
  <2> QED BY <2>1, <2>2, <2>3, <1>4, ShakeEnds
<1> QED BY <1>6, <1>7

\* Case 'ProtocolVersion': version, unknown version, repeater, or a part of one.
LEMMA CleanVersion ==
  ASSUME NEW c, NEW sv, Handshaking(c, sv), c.rfb_state = "ProtocolVersion", c.inits = 0,
         c.rQ # <<>>, Pipe(c) = <<>>,
         \E m : /\ c.rQ = <<m>>
               /\ \/ m \in Versions /\ sv.stage = "hearVersion" /\ sv.version = VersionOf(m)
                  \/ m = "unknown" /\ sv.stage = "hearVersion"
                  \/ m = "repeater" /\ sv.stage = "hearRepeater"
  PROVE  Settled(ProtocolVersion(c), sv)
<1>1. PICK m : /\ c.rQ = <<m>>
               /\ \/ m \in Versions /\ sv.stage = "hearVersion" /\ sv.version = VersionOf(m)
                  \/ m = "unknown" /\ sv.stage = "hearVersion"
                  \/ m = "repeater" /\ sv.stage = "hearRepeater"
  OBVIOUS
<1>2. (Whole(c) <=> ~c.half) /\ Head(c.rQ) = m /\ Tail(c.rQ) = <<>> BY <1>1, WholeFacts
<1>3. CASE ~Whole(c) \/ m = "unknown"
  <2>1. ProtocolVersion(c) = UpdateState(c, "failed")
    BY <1>2, <1>3 DEF ProtocolVersion, Fail
  <2>2. Fits(sv, c.scheme, Pipe(c)) BY <1>1 DEF Fits
  <2>3. "failed" \in Ended BY DEF Ended
  <2> QED BY <2>1, <2>2, <2>3, ShakeEnds
<1>4. CASE Whole(c) /\ m # "unknown"
  <2>1. PICK s : s = Shift(c) OBVIOUS
  <2>2. /\ Handshaking(s, sv) /\ s.rQ = <<>> /\ Pipe(s) = <<>>
        /\ s.rfb_state = "ProtocolVersion" /\ s.inits = 0
    BY <2>1, <1>2, <1>4, ShakeShift
  <2>3. CASE m = "repeater"
    <3>1. PICK d : d = Send(s, "repeater") OBVIOUS
    <3>2. "repeater" \in Words /\ "repeater" \notin Versions BY DEF Words, Versions
    <3>3. Handshaking(d, sv) /\ SameBut(s, d) /\ Pipe(d) = <<"repeater">>
      BY <2>2, <3>1, <3>2, ShakeSend, AppendFirst
    <3>4. d.rfb_state = "ProtocolVersion" /\ d.rQ = <<>> /\ d.inits = 0
      BY <2>2, <3>3 DEF SameBut, Same
    <3>5. sv.stage = "hearRepeater" BY <1>1, <2>3, <3>2
    <3>6. Step(d, sv) BY <3>3, <3>4, <3>5 DEF Step, Waits
    <3>7. Fits(sv, d.scheme, Pipe(d)) BY <3>3, <3>5 DEF Fits
    <3>8. Settled(d, sv) BY <3>3, <3>4, <3>6, <3>7, ShakeSettles
    <3>9. ProtocolVersion(c) = d BY <1>2, <1>4, <2>1, <2>3, <3>1 DEF ProtocolVersion
    <3> QED BY <3>8, <3>9
  <2>4. CASE m # "repeater"
    <3>1. m \in Versions /\ sv.stage = "hearVersion" /\ sv.version = VersionOf(m)
      BY <1>1, <1>4, <2>4
    <3>2. VersionOf(m) \in Numbers /\ VersionOf(m) # 0 BY <3>1, VersionKnown
    <3>3. PICK e : e = [s EXCEPT !.version = VersionOf(m), !.sendTimer = TRUE] OBVIOUS
    <3>4. s \in Clients BY <2>2 DEF Handshaking, Core
    <3>5. e \in Clients /\ Alike(s, e) /\ e.grabbed = s.grabbed /\ e.version = VersionOf(m)
      BY <3>2, <3>3, <3>4, SetVersion
    <3>6. Handshaking(e, sv) /\ Pipe(e) = <<>> BY <2>2, <3>5, ShakeAlike
    <3>7. e.rQ = <<>> /\ e.rfb_state = "ProtocolVersion" BY <2>2, <3>5 DEF Alike
    <3>8. PICK t : t = Send(e, "version") OBVIOUS
    <3>9. "version" \in Words /\ "Security" \in Handshake BY DEF Words, Handshake
    <3>10. Handshaking(t, sv) /\ SameBut(e, t) /\ Pipe(t) = <<"version">>
      BY <3>6, <3>8, <3>9, ShakeSend, AppendFirst
    <3>11. t.rQ = <<>> /\ t.rfb_state = "ProtocolVersion" /\ t.version = VersionOf(m)
      BY <3>5, <3>7, <3>10 DEF SameBut, Same
    <3>12. PICK d : d = UpdateState(t, "Security") OBVIOUS
    <3>13. Handshaking(d, sv) /\ MovedTo(t, d, "Security") /\ Pipe(d) = Pipe(t)
      BY <3>9, <3>10, <3>11, <3>12, ShakeMove
    <3>14. d.rfb_state = "Security" /\ d.rQ = <<>> /\ d.version = sv.version
      BY <3>1, <3>11, <3>13 DEF MovedTo
    <3>15. d.version # 0 BY <3>1, <3>2, <3>14
    <3>16. Step(d, sv) BY <3>1, <3>10, <3>13, <3>14, <3>15 DEF Step, Waits
    <3>17. Fits(sv, d.scheme, Pipe(d)) BY <3>1, <3>10, <3>13 DEF Fits
    <3>18. Settled(d, sv) BY <3>13, <3>14, <3>16, <3>17, ShakeSettles
    <3>19. ProtocolVersion(c) = d
      BY <1>2, <1>4, <2>1, <2>4, <3>3, <3>8, <3>12 DEF ProtocolVersion
    <3> QED BY <3>18, <3>19
  <2> QED BY <2>3, <2>4
<1> QED BY <1>3, <1>4

-----------------------------------------------------------------------------
(* A session after its handshake that nothing disturbs.                    *)

Serving(c, sv) ==
  /\ Core(c) /\ sv \in Servers /\ sv.stage = "serve" /\ c.rfb_state = "normal"
  /\ c.socket[c.cur] = "open" /\ \A s \in Sockets \ {c.cur} : c.socket[s] \in {"unused", "closed"}
  /\ ~c.connTimer /\ ~c.disconnTimer /\ c.failed = 0
  /\ Pipe(c) \in Seq({"setup", "input", "request"})

\* Such a session is in order,
LEMMA ServingSettles ==
  ASSUME NEW c, NEW sv, Serving(c, sv)
  PROVE  Settled(c, sv)
<1>1. Fits(sv, c.scheme, Pipe(c)) BY DEF Serving, Fits
<1>2. Step(c, sv) BY DEF Serving, Step
<1>3. Session(c, sv) BY <1>1, <1>2 DEF Session, Serving, Core, Clients
<1> QED BY <1>3 DEF Settled, Start, Serving

\* and there is no other in the state 'normal'.
LEMMA SettledServes ==
  ASSUME NEW c, NEW sv \in Servers, Settled(c, sv), c.rfb_state = "normal"
  PROVE  Serving(c, sv)
<1>1. sv.stage = "serve" BY DEF Settled, Session, Step
<1>2. "normal" \in Talking /\ "normal" \notin Ended BY DEF Talking, Ended
<1>3. Pipe(c) \in Seq({"setup", "input", "request"})
  <2>1. <<>> \in Seq({"setup", "input", "request"}) OBVIOUS
  <2>2. Fits(sv, c.scheme, Pipe(c)) BY DEF Settled, Session
  <2> QED BY <2>1, <2>2, <1>1 DEF Fits
<1>4. c.failed = 0 BY <1>2 DEF Settled, Session, Core, Clients
<1> QED BY <1>1, <1>2, <1>3, <1>4 DEF Serving, Settled, Session

\* The server hears what is sent to it.
LEMMA ServingSends ==
  ASSUME NEW c, NEW sv, Serving(c, sv), NEW m \in {"setup", "input", "request"}
  PROVE  Serving(Send(c, m), sv)
<1>1. m \in Words /\ Core(c) /\ c \in Clients BY DEF Words, Serving, Core
<1>2. PICK d : d = Send(c, m) OBVIOUS
<1>3. Core(d) /\ SameBut(c, d) BY <1>1, <1>2, CoreSend
<1>4. Pipe(d) = Append(Pipe(c), m) BY <1>1, <1>2, SendFacts DEF Serving
<1>5. Pipe(d) \in Seq({"setup", "input", "request"})
  BY <1>4, AppendProperties DEF Serving
<1> QED BY <1>2, <1>3, <1>5 DEF Serving, SameBut, Same

\* What a serving session does not depend on.
LEMMA ServingAlike ==
  ASSUME NEW c, NEW sv, Serving(c, sv), NEW d \in Clients,
         d.rfb_state = c.rfb_state, d.cur = c.cur, d.socket = c.socket,
         d.wire = c.wire, d.sQ = c.sQ, d.rQ = c.rQ, d.half = c.half,
         d.held => d.grabbed, d.shown = c.shown, d.button = c.button,
         d.connTimer = c.connTimer, d.disconnTimer = c.disconnTimer, d.failed = c.failed
  PROVE  Serving(d, sv)
<1>1. Core(d) BY DEF Serving, Core
<1> QED BY <1>1 DEF Serving, Pipe

\* It may end at any time.
LEMMA ServingEnds ==
  ASSUME NEW c, NEW sv, Serving(c, sv), NEW e \in Ended
  PROVE  Settled(UpdateState(c, e), sv)
<1>1. c.rfb_state # e BY DEF Serving, Ended
<1>2. Ending(c) BY DEF Serving, Core, Ending
<1>3. Fits(sv, c.scheme, Pipe(c)) BY DEF Serving, Fits
<1> QED BY <1>1, <1>2, <1>3, SessionEnds DEF Serving

\* What a session in order does not depend on.
LEMMA SettledAlike ==
  ASSUME NEW c, NEW sv, Settled(c, sv), NEW d \in Clients, Alike(c, d),
         d.grabbed = c.grabbed, d.scheme = c.scheme, d.version = c.version
  PROVE  Settled(d, sv)
<1>1. Core(d) BY CoreAlike DEF Settled
<1>2. Pipe(d) = Pipe(c) BY DEF Alike, Pipe
<1>3. Start(d, sv) BY DEF Settled, Alike, Start
<1>4. Step(d, sv)
  <2>1. Step(c, sv) BY DEF Settled, Session
  <2>2. /\ d.rfb_state = c.rfb_state /\ d.rQ = c.rQ /\ d.half = c.half /\ d.sQ = c.sQ
    BY DEF Alike
  <2> QED BY <2>1, <2>2, <1>2 DEF Step, Waits, Part
<1>5. Session(d, sv)
  BY <1>2, <1>4 DEF Settled, Session, Alike
<1> QED BY <1>1, <1>3, <1>5 DEF Settled

\* normal_msg: the message is understood, or ends the session.
LEMMA CleanNormal ==
  ASSUME NEW c, NEW sv, Serving(c, sv)
  PROVE  Settled(NormalMsg(c), sv)
<1>1. CASE ~Whole(c) BY <1>1, ServingSettles DEF NormalMsg
<1>2. CASE Whole(c)
  <2>1. Core(c) /\ c \in Clients BY DEF Serving, Core
  <2>2. PICK s : s = Shift(c) OBVIOUS
  <2>3. Core(s) /\ Pipe(s) = Pipe(c) /\ s = [c EXCEPT !.rQ = Tail(c.rQ)]
    BY <1>2, <2>1, <2>2, ShiftFacts
  <2>4. /\ s.rfb_state = c.rfb_state /\ s.cur = c.cur /\ s.socket = c.socket
        /\ s.connTimer = c.connTimer /\ s.disconnTimer = c.disconnTimer /\ s.failed = c.failed
    BY <2>1, <2>3 DEF Clients
  <2>5. Serving(s, sv) BY <2>3, <2>4 DEF Serving
  <2>6. PICK d : d = IF Head(c.rQ) = "garbage" THEN Fail(s) ELSE s OBVIOUS
  <2>7. "failed" \in Ended BY DEF Ended
  <2>8. Settled(d, sv) BY <2>5, <2>6, <2>7, ServingEnds, ServingSettles DEF Fail
  <2>9. d \in Clients BY <2>8 DEF Settled, Core
  <2>10. PICK b : b = (d.msgTimer \/ d.rQ # <<>>) OBVIOUS
  <2>11. b \in BOOLEAN BY <2>9, <2>10 DEF Clients
  <2>12. PICK e : e = [d EXCEPT !.msgTimer = b] OBVIOUS
  <2>13. NormalMsg(c) = e BY <1>2, <2>2, <2>6, <2>10, <2>12 DEF NormalMsg
  <2>14. e \in Clients /\ Alike(d, e) /\ e.grabbed = d.grabbed /\ e.scheme = d.scheme
         /\ e.version = d.version
    BY <2>9, <2>11, <2>12, SetMsgTimer
  <2> QED BY <2>8, <2>13, <2>14, SettledAlike
<1> QED BY <1>1, <1>2

\* The last message of the handshake, after which the keyboard is grabbed.
LEMMA CleanServerInitialisation ==
  ASSUME NEW c, NEW sv, Handshaking(c, sv), c.rfb_state = "ServerInitialisation",
         Came(c, sv, "serve", "init")
  PROVE  Settled(ServerInitialisation(c), sv)
<1>1. Whole(c) /\ Head(c.rQ) = "init" /\ Tail(c.rQ) = <<>> /\ sv.stage = "serve"
  BY WholeFacts DEF Came
<1>2. PICK s : s = Shift(c) OBVIOUS
<1>3. Handshaking(s, sv) /\ s.rQ = <<>> /\ Pipe(s) = <<>> /\ s.rfb_state = "ServerInitialisation"
  BY <1>1, <1>2, ShakeShift DEF Came
<1>4. PICK d : d = [s EXCEPT !.grabbed = TRUE, !.checks = @ + 1] OBVIOUS
<1>5. Core(s) /\ s \in Clients BY <1>3 DEF Handshaking, Core
<1>6. d \in Clients /\ Alike(s, d) /\ d.grabbed BY <1>4, <1>5, SetGrabbed
<1>7. Core(d) /\ Pipe(d) = <<>> BY <1>3, <1>5, <1>6, CoreAlike DEF Alike, Pipe
<1>8. "setup" \in Words /\ "normal" \in Talking BY DEF Words, Talking
<1>9. PICK t : t = Send(d, "setup") OBVIOUS
<1>10. Core(t) /\ SameBut(d, t) BY <1>7, <1>8, <1>9, CoreSend
<1>11. d.socket[d.cur] = "open" BY <1>3, <1>6 DEF Handshaking, Alike
<1>12. Pipe(t) = <<"setup">> BY <1>6, <1>7, <1>8, <1>9, <1>11, SendFacts, AppendFirst
<1>13. t.rfb_state = "ServerInitialisation" /\ t.cur = s.cur /\ t.socket = s.socket
       /\ t.failed = s.failed
  BY <1>3, <1>6, <1>10 DEF Alike, SameBut, Same
<1>14. PICK u : u = UpdateState(t, "normal") OBVIOUS
<1>15. MovedTo(t, u, "normal")
  <2>1. t \in Clients BY <1>10 DEF Core
  <2> QED BY <2>1, <1>8, <1>13, <1>14, MoveFacts
<1>16. Core(u) BY <1>8, <1>10, <1>15, CoreMove
<1>17. Pipe(u) = <<"setup">> BY <1>12, <1>15 DEF MovedTo, Pipe
<1>18. <<"setup">> \in Seq({"setup", "input", "request"}) OBVIOUS
<1>19. Serving(u, sv)
  BY <1>1, <1>3, <1>13, <1>15, <1>16, <1>17, <1>18 DEF Serving, Handshaking, MovedTo
<1>20. ServerInitialisation(c) = u
  BY <1>1, <1>2, <1>4, <1>9, <1>14 DEF ServerInitialisation
<1> QED BY <1>19, <1>20, ServingSettles

-----------------------------------------------------------------------------
(* Messages in a session that nothing disturbs.                            *)

\* A session in order is undisturbed in its handshake.
LEMMA SettledShakes ==
  ASSUME NEW c, NEW sv \in Servers, Settled(c, sv), c.rfb_state \in Handshake
  PROVE  /\ Handshaking(c, sv) /\ Fits(sv, c.scheme, Pipe(c)) /\ Step(c, sv)
         /\ c.rfb_state = "ProtocolVersion" => c.inits = 0
<1>1. c.rfb_state \in Talking /\ c.rfb_state \notin Ended
      /\ c.rfb_state \notin {"normal", "connect", "disconnect"}
  BY DEF Talking, Ended, Handshake
<1>2. c.failed \in Nat /\ c.flushes \in Nat /\ c.inits \in Nat /\ Core(c) /\ Session(c, sv)
  BY DEF Settled, Core, Clients
<1>3. c.failed = 0 /\ c.flushes = 0 BY <1>1, <1>2 DEF Session
<1>4. ~c.connTimer /\ ~c.disconnTimer /\ ~c.grabbed BY <1>1, <1>2 DEF Session
<1>5. c.rfb_state = "ProtocolVersion" => c.inits = 0 BY <1>2 DEF Session
<1> QED BY <1>1, <1>2, <1>3, <1>4, <1>5 DEF Handshaking, Session

\* The message m is what the client waits for in its state.
Expected(c, sv, m) ==
  \/ /\ c.rfb_state = "ProtocolVersion" /\ c.inits = 0
     /\ \/ m \in Versions /\ sv.stage = "hearVersion" /\ sv.version = VersionOf(m)
        \/ m = "unknown" /\ sv.stage = "hearVersion"
        \/ m = "repeater" /\ sv.stage = "hearRepeater"
  \/ /\ c.rfb_state = "Security" /\ c.version = sv.version /\ c.version # 0
     /\ \/ m = "refused" /\ sv.stage = "refused"
        \/ m = "none" /\ sv.stage = "hearInit" /\ c.version < 37
        \/ m = "vnc" /\ sv.stage = "challenge" /\ c.version < 37
        \/ m \in {"none", "vnc"} /\ sv.stage = "hearScheme" /\ c.version >= 37
  \/ /\ c.rfb_state \in {"Authentication", "password"} /\ c.scheme = "vnc"
     /\ m = "challenge" /\ sv.stage = "hearResponse"
  \/ /\ c.rfb_state = "SecurityResult"
     /\ (m = "ok" /\ sv.stage = "hearInit") \/ (m = "denied" /\ sv.stage = "refused")
  \/ c.rfb_state = "ServerInitialisation" /\ m = "init" /\ sv.stage = "serve"

\* handle_message in the handshake, whether the message is whole or not.
LEMMA HandleExpected ==
  ASSUME NEW c, NEW sv, Handshaking(c, sv), NEW m, c.rQ = <<m>>, Pipe(c) = <<>>,
         Expected(c, sv, m)
  PROVE  Settled(HandleMessage(c), sv)
<1>1. /\ (Whole(c) <=> ~c.half) /\ c.rQ # <<>>
      /\ c.half \in BOOLEAN
  BY WholeFacts DEF Handshaking, Core, Clients
<1>2. HandleMessage(c) = InitMsg(c)
  BY <1>1 DEF HandleMessage, Handshaking, Handshake
<1>3. sv.stage # "confused" BY DEF Expected
<1>4. Fits(sv, c.scheme, Pipe(c)) BY <1>3 DEF Fits
<1>5. CASE c.rfb_state = "ProtocolVersion"
  <2>1. c.inits = 0 /\ (\/ m \in Versions /\ sv.stage = "hearVersion" /\ sv.version = VersionOf(m)
                        \/ m = "unknown" /\ sv.stage = "hearVersion"
                        \/ m = "repeater" /\ sv.stage = "hearRepeater")
    BY <1>5 DEF Expected
  <2>2. InitMsg(c) = ProtocolVersion(c) BY <1>5 DEF InitMsg
  <2>3. \E n : /\ c.rQ = <<n>>
               /\ \/ n \in Versions /\ sv.stage = "hearVersion" /\ sv.version = VersionOf(n)
                  \/ n = "unknown" /\ sv.stage = "hearVersion"
                  \/ n = "repeater" /\ sv.stage = "hearRepeater"
    BY <2>1
  <2> QED BY <2>1, <2>2, <2>3, <1>1, <1>2, <1>5, CleanVersion
<1>6. CASE c.rfb_state \in {"Authentication", "password"}
  <2>1. Step(c, sv) BY <1>6 DEF Step, Expected
  <2>2. CASE c.rfb_state = "Authentication"
    BY <2>1, <2>2, <1>2, CleanAuthentication DEF InitMsg
  <2>3. CASE c.rfb_state = "password"
    <3>1. InitMsg(c) = c BY <2>3 DEF InitMsg
    <3> QED BY <3>1, <2>1, <2>3, <1>2, <1>4, ShakeSettles
  <2> QED BY <2>2, <2>3, <1>6
<1>7. CASE c.rfb_state \in {"Security", "SecurityResult", "ServerInitialisation"} /\ c.half
  <2>1. InitMsg(c) = c
    BY <1>1, <1>7 DEF InitMsg, Security, SecurityResult, ServerInitialisation
  <2>2. Step(c, sv) BY <1>7 DEF Step, Expected, Part
  <2> QED BY <2>1, <2>2, <1>2, <1>4, <1>7, ShakeSettles
<1>8. CASE c.rfb_state = "Security" /\ ~c.half
  <2>1. InitMsg(c) = Security(c) BY <1>8 DEF InitMsg
  <2>2. /\ c.version = sv.version /\ c.version # 0
        /\ \/ Came(c, sv, "refused", "refused")
           \/ c.version < 37 /\ (Came(c, sv, "hearInit", "none") \/ Came(c, sv, "challenge", "vnc"))
           \/ c.version >= 37 /\ \E n \in {"none", "vnc"} : Came(c, sv, "hearScheme", n)
    BY <1>8 DEF Expected, Came
  <2> QED BY <2>1, <2>2, <1>2, <1>8, CleanSecurity
<1>9. CASE c.rfb_state = "SecurityResult" /\ ~c.half
  <2>1. InitMsg(c) = SecurityResult(c) BY <1>9 DEF InitMsg
  <2>2. Came(c, sv, "hearInit", "ok") \/ Came(c, sv, "refused", "denied")
    BY <1>9 DEF Expected, Came
  <2> QED BY <2>1, <2>2, <1>2, <1>9, CleanResult
<1>10. CASE c.rfb_state = "ServerInitialisation" /\ ~c.half
  <2>1. InitMsg(c) = ServerInitialisation(c) BY <1>10 DEF InitMsg
  <2>2. Came(c, sv, "serve", "init") BY <1>10 DEF Expected, Came
  <2> QED BY <2>1, <2>2, <1>2, <1>10, CleanServerInitialisation
<1> QED BY <1>1, <1>5, <1>6, <1>7, <1>8, <1>9, <1>10 DEF Expected

\* In a session in order a message of the handshake waits only for its end, or
\* for the password.
LEMMA SettledWaits ==
  ASSUME NEW c, NEW sv \in Servers, Settled(c, sv),
         c.rfb_state \notin {"normal", "Authentication"}
  PROVE  InitMsg(c) = c \/ c.rfb_state = "ProtocolVersion"
<1>1. CASE c.rfb_state \in {"Security", "SecurityResult", "ServerInitialisation"}
  <2>1. c.rQ = <<>> \/ (c.half /\ \E m : c.rQ = <<m>>)
    BY <1>1 DEF Settled, Session, Step, Waits, Part
  <2>2. ~Whole(c) BY <2>1, WholeFacts
  <2> QED BY <2>2, <1>1 DEF InitMsg, Security, SecurityResult, ServerInitialisation
<1>2. CASE c.rfb_state \notin {"Security", "SecurityResult", "ServerInitialisation",
                               "ProtocolVersion"}
  BY <1>2 DEF InitMsg
<1> QED BY <1>1, <1>2

\* init_msg from the timer of the password.
LEMMA CleanInit ==
  ASSUME NEW c, NEW sv \in Servers, Settled(c, sv), c.rfb_state # "ProtocolVersion"
  PROVE  Settled(InitMsg(c), sv)
<1>1. CASE c.rfb_state = "Authentication"
  <2>1. c.rfb_state \in Handshake BY <1>1 DEF Handshake
  <2> QED BY <2>1, <1>1, SettledShakes, CleanAuthentication DEF InitMsg
<1>2. CASE c.rfb_state = "normal" BY <1>2 DEF InitMsg
<1>3. CASE c.rfb_state \notin {"normal", "Authentication"}
  BY <1>3, SettledWaits
<1> QED BY <1>1, <1>2, <1>3

\* handle_message from its own timer.
LEMMA CleanHandle ==
  ASSUME NEW c, NEW sv \in Servers, Settled(c, sv)
  PROVE  Settled(HandleMessage(c), sv)
<1>1. CASE c.rQ = <<>> \/ c.rfb_state \in {"disconnected", "failed"}
  BY <1>1 DEF HandleMessage
<1>2. CASE ~(c.rQ = <<>> \/ c.rfb_state \in {"disconnected", "failed"}) /\ c.rfb_state = "normal"
  BY <1>2, SettledServes, CleanNormal DEF HandleMessage
<1>3. CASE ~(c.rQ = <<>> \/ c.rfb_state \in {"disconnected", "failed"}) /\ c.rfb_state # "normal"
  <2>1. c.rfb_state # "ProtocolVersion" BY <1>3 DEF Settled, Start
  <2> QED BY <2>1, <1>3, CleanInit DEF HandleMessage
<1> QED BY <1>1, <1>2, <1>3

\* The rest of a message, or a new one, in a session in order.
LEMMA CleanArrival ==
  ASSUME NEW c, NEW sv, Serving(c, sv) \/ (Handshaking(c, sv) /\ Pipe(c) = <<>>
           /\ \E m : c.rQ = <<m>> /\ Expected(c, sv, m))
  PROVE  Settled(HandleMessage(c), sv)
<1>1. CASE Serving(c, sv)
  <2>1. c.rfb_state = "normal" BY <1>1 DEF Serving
  <2>2. HandleMessage(c) = c \/ HandleMessage(c) = NormalMsg(c) BY <2>1 DEF HandleMessage
  <2> QED BY <2>2, <1>1, CleanNormal, ServingSettles
<1>2. CASE /\ Handshaking(c, sv) /\ Pipe(c) = <<>>
           /\ \E m : c.rQ = <<m>> /\ Expected(c, sv, m)
  BY <1>2, HandleExpected
<1> QED BY <1>1, <1>2

-----------------------------------------------------------------------------
(* Every action keeps the invariant.                                       *)

\* A session has begun, and it is in order if it began so.
Running(c, sv, ok) == Core(c) /\ Start(c, sv) /\ (ok => Session(c, sv))

\* The page before its first connection.
LEMMA NewClientFacts ==
  /\ NewClient \in Clients /\ NewClient.rfb_state = "loaded" /\ NewClient.cur = 0
  /\ \A s \in Sockets : NewClient.socket[s] = "unused"
  /\ ~NewClient.connTimer /\ ~NewClient.disconnTimer /\ ~NewClient.sendTimer
  /\ ~NewClient.msgTimer /\ NewClient.failed = 0 /\ NewClient.flushes = 0
  /\ NewClient.inits = 0 /\ NewClient.checks = 0 /\ ~NewClient.congested
  /\ NewClient.wire = <<>> /\ NewClient.rQ = <<>> /\ ~NewClient.half
  /\ ~NewClient.grabbed /\ NewClient.shown = "loaded" /\ NewClient.button = "connect"
<1>1. <<>> \in Seq(Words) /\ <<>> \in Seq(Said) OBVIOUS
<1>2. NewClient \in Clients
  BY <1>1, RfbAssumption DEF NewClient, Clients, States, Handshake, Said, Numbers, Sockets
<1> QED BY <1>2 DEF NewClient

\* A bound is counted.
LEMMA SpendFacts ==
  ASSUME NEW b \in BudgetNames, spent \in [BudgetNames -> Nat], Spend(b)
  PROVE  spent' \in [BudgetNames -> Nat]
<1>1. spent[b] + 1 \in Nat OBVIOUS
<1> QED BY <1>1 DEF Spend

\* The bounds there are.
LEMMA InputIsBudget == {"input", "message", "fault"} \subseteq BudgetNames
BY DEF BudgetNames

\* The invariant after a step.
LEMMA StepKeeps ==
  ASSUME server' \in Servers, spent' \in [BudgetNames -> Nat], clean' \in BOOLEAN,
         Running(client', server', clean')
  PROVE  IInv'
BY DEF IInv, ServerOK, Running

\* Everything but opening the first connection needs a session.
LEMMA SessionRuns ==
  ASSUME IInv, client # NewClient
  PROVE  /\ Running(client, server, clean) /\ client \in Clients /\ ServerOK
         /\ client.cur \in Sockets
         /\ clean => Settled(client, server)
BY DEF IInv, Running, Settled, Core, Clients, Sockets

\* The user connects: whatever was pending, the session begins in order if nothing was.
LEMMA ConnectKeeps ==
  ASSUME IInv, NEW p \in BOOLEAN, Connect(p)
  PROVE  IInv'
<1>1. PICK c : c = [client EXCEPT !.password = p] OBVIOUS
<1>2. client \in Clients /\ client.cur < MaxSockets /\ client.button = "connect"
  BY NewClientFacts DEF IInv, Core, Connect
<1>3. c \in Clients BY <1>1, <1>2 DEF Clients
<1>4. /\ c.rfb_state = client.rfb_state /\ c.cur = client.cur /\ c.socket = client.socket
      /\ c.failed = client.failed /\ c.flushes = client.flushes /\ c.inits = client.inits
      /\ c.button = client.button
  BY <1>1, <1>2 DEF Clients
<1>5. client.rfb_state # "connect"
  BY <1>2, NewClientFacts DEF IInv, Core, Connect, Offered
<1>6. PICK d : d = client' OBVIOUS
<1>7. Connecting(c, d)
  BY <1>1, <1>2, <1>3, <1>4, <1>5, <1>6, ConnectFacts DEF Connect
<1>8. \A s \in Sockets : client.socket[s] \in {"connecting", "open"} => s = client.cur
  BY NewClientFacts DEF IInv, Core
<1>9. d \in Clients /\ d.cur = client.cur + 1 /\ d.cur # 0 /\ d.cur \in Sockets
      /\ d.rfb_state = "connect" /\ d.socket[d.cur] = "connecting"
  <2>1. d \in Clients /\ d.cur = client.cur + 1 BY <1>4, <1>7 DEF Connecting
  <2>2. client.cur \in Nat BY <1>2, RfbAssumption DEF Clients
  <2> QED BY <2>1, <2>2, <1>2, <1>7, RfbAssumption DEF Connecting, Sockets
<1>10. \A s \in Sockets \ {d.cur} :
         d.socket[s] \notin {"connecting", "open"} /\ (Quiet => d.socket[s] \in {"unused", "closed"})
  <2> TAKE s \in Sockets \ {d.cur}
  <2>1. /\ d.socket[s] \notin {"connecting", "open"} \/ s # client.cur
        /\ \/ s = client.cur /\ client.socket[s] \in {"connecting", "open"}
           \/ d.socket[s] = client.socket[s]
    BY <1>4, <1>7 DEF Connecting
  <2>2. d.socket[s] \notin {"connecting", "open"} BY <2>1, <1>8
  <2>3. Quiet => d.socket[s] \in {"unused", "closed"} BY <2>1 DEF Quiet
  <2> QED BY <2>2, <2>3
<1>11. d.rQ = <<>> /\ ~d.half /\ d.wire = <<>> /\ d.sQ = <<>> /\ ~d.held /\ ~d.grabbed
       /\ d.shown = "connect" /\ ~d.disconnTimer
  BY <1>7 DEF Connecting
<1>12. Core(d) BY <1>9, <1>10, <1>11 DEF Core
<1>13. server' = NewServer /\ clean' = Quiet /\ spent' = spent BY DEF Connect
<1>14. Start(d, NewServer) BY <1>9, <1>11 DEF Start, NewServer
<1>15. Quiet => Session(d, NewServer)
  <2>1. Pipe(d) = <<>> BY <1>9, <1>11 DEF Pipe
  <2>2. Fits(NewServer, d.scheme, Pipe(d)) BY <2>1 DEF Fits, NewServer
  <2>3. Step(d, NewServer) BY <1>9, <1>11 DEF Step
  <2>4. Quiet => d.failed = 0 /\ d.flushes = 0 /\ d.inits = 0
    BY <1>4, <1>7 DEF Connecting, Quiet
  <2>5. "connect" \notin Talking BY DEF Talking, Handshake
  <2> QED BY <2>2, <2>3, <2>4, <2>5, <1>9, <1>10, <1>11 DEF Session
<1>16. Quiet \in BOOLEAN /\ NewServer \in Servers /\ spent \in [BudgetNames -> Nat]
  BY DEF Quiet, NewServer, Servers, Stages, Numbers, IInv, ServerOK
<1> QED BY <1>6, <1>12, <1>13, <1>14, <1>15, <1>16, StepKeeps DEF Running

\* The user, a socket or a timer ends the session that runs.
LEMMA EndKeeps ==
  ASSUME NEW c, NEW sv \in Servers, NEW ok \in BOOLEAN, Running(c, sv, ok), NEW e \in Ended
  PROVE  /\ Running(UpdateState(c, e), sv, ok)
         /\ UpdateState(c, e).rfb_state \in Ended
<1>1. CASE c.rfb_state = e
  <2>1. UpdateState(c, e) = c BY <1>1 DEF UpdateState
  <2> QED BY <2>1, <1>1
<1>2. CASE c.rfb_state # e
  <2>1. Core(c) /\ c \in Clients /\ Ending(c) BY DEF Running, Core, Ending
  <2>2. PICK d : d = UpdateState(c, e) OBVIOUS
  <2>3. Over(c, d, e) BY <2>1, <2>2, <1>2, EndFacts
  <2>4. Core(d) /\ d.rfb_state \in Ended BY <2>1, <2>3, CoreEnd
  <2>5. Start(d, sv) BY <2>4 DEF Start, Ended
  <2>6. ASSUME ok PROVE Session(d, sv)
    <3>1. Session(c, sv) BY <2>6 DEF Running
    <3>2. /\ \A s \in Sockets \ {c.cur} : c.socket[s] \in {"unused", "closed"}
          /\ Fits(sv, c.scheme, Pipe(c))
      BY <3>1 DEF Session
    <3>3. c.held => sv.stage = "serve" BY <3>1, <2>1 DEF Session, Core, Step
    <3> QED BY <3>2, <3>3, <1>2, <2>1, <2>2, SessionEnds DEF Settled
  <2> QED BY <2>2, <2>4, <2>5, <2>6 DEF Running
<1> QED BY <1>1, <1>2

\* The user disconnects, in any state in which the button is there.
LEMMA DisconnectKeeps ==
  ASSUME IInv, Disconnect
  PROVE  IInv'
<1>1. client # NewClient BY NewClientFacts DEF Disconnect, Offered
<1>2. Running(client, server, clean) /\ ServerOK BY <1>1, SessionRuns
<1>3. "disconnect" \in Ended /\ server \in Servers /\ clean \in BOOLEAN
  BY <1>2 DEF Ended, ServerOK
<1>4. Running(client', server, clean) BY <1>2, <1>3, EndKeeps DEF Disconnect
<1> QED BY <1>2, <1>4, StepKeeps DEF Disconnect, ServerOK

\* The password is here, whatever the state is by now.
LEMMA SendPasswordKeeps ==
  ASSUME IInv, NEW p \in BOOLEAN, SendPassword(p)
  PROVE  IInv'
<1>1. client # NewClient BY NewClientFacts DEF SendPassword
<1>2. Running(client, server, clean) /\ client \in Clients /\ ServerOK BY <1>1, SessionRuns
<1>3. Core(client) /\ client.inits + 1 \in Nat BY <1>2 DEF Running, Clients
<1>4. PICK d : d = client' OBVIOUS
<1>5. /\ d \in Clients /\ d.rfb_state = "Authentication" /\ d.button = "dead"
      /\ d.inits > 0
  <2>1. d = [client EXCEPT !.password = p, !.rfb_state = "Authentication",
                           !.inits = @ + 1, !.button = "dead"]
    BY <1>4 DEF SendPassword
  <2>2. d \in Clients BY <2>1, <1>2, <1>3 DEF Clients, States, Handshake
  <2> QED BY <2>1, <2>2, <1>2 DEF Clients
<1>6. /\ d.cur = client.cur /\ d.socket = client.socket /\ d.wire = client.wire
      /\ d.sQ = client.sQ /\ d.rQ = client.rQ /\ d.half = client.half
      /\ d.held = client.held /\ d.grabbed = client.grabbed /\ d.scheme = client.scheme
      /\ d.connTimer = client.connTimer /\ d.disconnTimer = client.disconnTimer
      /\ d.failed = client.failed /\ d.flushes = client.flushes
  BY <1>2, <1>4 DEF SendPassword, Clients
<1>7. "Authentication" \in Talking BY DEF Talking, Handshake
<1>8. Core(d) BY <1>3, <1>5, <1>6, <1>7 DEF Core
<1>9. Start(d, server) BY <1>5 DEF Start
<1>10. ASSUME clean' PROVE Session(d, server)
  <2>1. Session(client, server) /\ client.rfb_state = "password" /\ client.rfb_state \in Talking
    BY <1>2, <1>10 DEF Running, SendPassword, Talking, Handshake
  <2>2. "password" \notin Ended BY DEF Ended
  <2>3. Pipe(d) = Pipe(client) BY <1>6 DEF Pipe
  <2>4. Step(d, server) BY <2>1, <2>3, <1>5, <1>6 DEF Session, Step, Waits
  <2> QED BY <2>1, <2>2, <2>3, <2>4, <1>5, <1>6 DEF Session
<1>11. clean' \in BOOLEAN /\ server' = server BY <1>2 DEF SendPassword, ServerOK
<1>12. spent' \in [BudgetNames -> Nat]
  BY <1>2, InputIsBudget, SpendFacts DEF SendPassword, ServerOK
<1> QED BY <1>2, <1>4, <1>8, <1>9, <1>10, <1>11, <1>12, StepKeeps DEF Running, ServerOK

\* d differs from c in what does not matter here, and nothing more is pending
\* in it than in c, but the requests that follow the mouse.
Quieter(c, d) ==
  /\ d \in Clients
  /\ d.rfb_state = c.rfb_state /\ d.cur = c.cur /\ d.socket = c.socket
  /\ d.wire = c.wire /\ d.sQ = c.sQ /\ d.rQ = c.rQ /\ d.half = c.half
  /\ d.version = c.version /\ d.scheme = c.scheme
  /\ d.shown = c.shown /\ d.button = c.button
  /\ (d.held => d.grabbed) /\ d.grabbed = c.grabbed
  /\ (d.connTimer => c.connTimer) /\ (d.disconnTimer => c.disconnTimer)
  /\ (d.failed > 0 => c.failed > 0) /\ (d.inits > 0 => c.inits > 0)
  /\ d.flushes > 0 => c.flushes > 0 \/ c.grabbed \/ c.rfb_state = "normal"

\* A session does not mind that less is pending.
LEMMA QuieterRuns ==
  ASSUME NEW c, NEW sv, NEW ok, Running(c, sv, ok), NEW d, Quieter(c, d)
  PROVE  Running(d, sv, ok)
<1>1. Core(c) BY DEF Running
<1>2. Core(d) BY <1>1 DEF Core, Quieter
<1>3. Start(d, sv) BY DEF Running, Start, Quieter
<1>4. ASSUME ok PROVE Session(d, sv)
  <2>1. Session(c, sv) BY <1>4 DEF Running
  <2>2. Pipe(d) = Pipe(c) BY DEF Pipe, Quieter
  <2>3. Step(d, sv)
    <3>1. Step(c, sv) BY <2>1 DEF Session
    <3> QED BY <3>1, <2>2 DEF Step, Waits, Part, Quieter
  <2> QED BY <2>1, <2>2, <2>3 DEF Session, Quieter
<1> QED BY <1>2, <1>3, <1>4 DEF Running

\* A message to a server that waits for anything, or that is gone.
LEMMA SpeakRuns ==
  ASSUME NEW c, NEW sv \in Servers, NEW ok, Running(c, sv, ok),
         NEW m \in {"setup", "input", "request"},
         ok => c.rfb_state \in Ended \cup {"normal"}
  PROVE  Running(Send(c, m), sv, ok) /\ SameBut(c, Send(c, m))
<1>1. Core(c) /\ c \in Clients /\ m \in Words BY DEF Running, Core, Words
<1>2. PICK d : d = Send(c, m) OBVIOUS
<1>3. Core(d) /\ SameBut(c, d) BY <1>1, <1>2, CoreSend
<1>4. Start(d, sv) BY <1>3 DEF Running, Start, SameBut, Same
<1>5. ASSUME ok, c.rfb_state = "normal" PROVE Session(d, sv)
  <2>1. Serving(c, sv) BY <1>5, SettledServes DEF Running, Settled
  <2> QED BY <2>1, <1>2, ServingSends, ServingSettles DEF Settled
<1>6. ASSUME ok, c.rfb_state \in Ended PROVE Session(d, sv)
  <2>1. Session(c, sv) BY <1>6 DEF Running
  <2>2. c.socket[c.cur] # "open" /\ c.rfb_state \notin Talking
    <3>1. c.cur \in Sockets BY <1>1 DEF Core, Clients, Sockets
    <3>2. c.rfb_state \notin Talking \cup {"connect"}
      BY <1>6 DEF Ended, Talking, Handshake
    <3> QED BY <3>1, <3>2, <1>1 DEF Core
  <2>3. d.wire = c.wire BY <1>1, <1>2, <2>2, SendFacts
  <2>4. Pipe(d) = Pipe(c) BY <2>2, <2>3, <1>3 DEF Pipe, SameBut, Same
  <2>5. Step(d, sv) BY <1>3, <1>6 DEF Step, Ended, SameBut, Same
  <2> QED BY <2>1, <2>4, <2>5, <1>3 DEF Session, SameBut, Same
<1> QED BY <1>2, <1>3, <1>4, <1>5, <1>6 DEF Running

\* The keyboard is grabbed, or the state is normal: there is a session, and if
\* it is in order its server listens.
LEMMA Grabbed ==
  ASSUME IInv, client.grabbed \/ client.rfb_state = "normal"
  PROVE  /\ Running(client, server, clean) /\ client \in Clients /\ ServerOK
         /\ clean => client.rfb_state = "normal"
<1>1. client # NewClient BY NewClientFacts
<1> QED BY <1>1, SessionRuns DEF Running, Session

\* Input of the user.
LEMMA KeyKeeps ==
  ASSUME IInv, Key
  PROVE  IInv'
<1>1. /\ Running(client, server, clean) /\ client \in Clients /\ ServerOK
      /\ clean => client.rfb_state = "normal"
  BY Grabbed DEF Key
<1>2. PICK d : d = [client EXCEPT !.held = ~@] OBVIOUS
<1>3. d \in Clients BY <1>1, <1>2 DEF Clients
<1>4. Quieter(client, d) BY <1>1, <1>2, <1>3 DEF Quieter, Clients, Key
<1>5. Running(d, server, clean) /\ d.rfb_state = client.rfb_state
  BY <1>1, <1>4, QuieterRuns DEF Quieter
<1>6. Running(client', server, clean)
  <2>1. client' = Send(d, "input") BY <1>2 DEF Key
  <2> QED BY <2>1, <1>1, <1>5, SpeakRuns DEF ServerOK
<1>7. spent' \in [BudgetNames -> Nat] BY <1>1, InputIsBudget, SpendFacts DEF Key, ServerOK
<1> QED BY <1>1, <1>6, <1>7, StepKeeps DEF Key, ServerOK

\* Clipboard and Ctrl-Alt-Del.
LEMMA PasteKeeps ==
  ASSUME IInv, Paste
  PROVE  IInv'
<1>1. /\ Running(client, server, clean) /\ client \in Clients /\ ServerOK
      /\ clean => client.rfb_state = "normal"
  BY Grabbed DEF Paste
<1>2. Running(client', server, clean) BY <1>1, SpeakRuns DEF Paste, ServerOK
<1>3. spent' \in [BudgetNames -> Nat] BY <1>1, InputIsBudget, SpendFacts DEF Paste, ServerOK
<1> QED BY <1>1, <1>2, <1>3, StepKeeps DEF Paste, ServerOK

\* The mouse is told, and the requests follow.
LEMMA FlushClientRuns ==
  ASSUME NEW c \in Clients, NEW sv \in Servers, NEW ok, Running(c, sv, ok),
         c.grabbed \/ c.rfb_state = "normal"
  PROVE  Running(FlushClient(c), sv, ok) /\ FlushClient(c).rfb_state = c.rfb_state
<1>1. PICK d : d = [c EXCEPT !.moved = FALSE, !.flushes = @ + 1] OBVIOUS
<1>2. c.flushes + 1 \in Nat BY DEF Clients
<1>3. d \in Clients BY <1>1, <1>2 DEF Clients
<1>4. d.held => d.grabbed BY <1>1 DEF Clients, Running, Core
<1>5. Quieter(c, d) BY <1>1, <1>3, <1>4 DEF Quieter, Clients
<1>6. Running(d, sv, ok) /\ d.rfb_state = c.rfb_state BY <1>5, QuieterRuns DEF Quieter
<1>7. ok => d.rfb_state = "normal" BY <1>6 DEF Running, Session
<1>8. Running(Send(d, "input"), sv, ok) /\ SameBut(d, Send(d, "input"))
  BY <1>6, <1>7, SpeakRuns
<1> QED BY <1>1, <1>6, <1>8 DEF FlushClient, SameBut, Same

\* A button of the mouse,
LEMMA MouseButtonKeeps ==
  ASSUME IInv, MouseButton
  PROVE  IInv'
<1>1. Running(client, server, clean) /\ client \in Clients /\ ServerOK
  BY Grabbed DEF MouseButton
<1>2. Running(client', server, clean) BY <1>1, FlushClientRuns DEF MouseButton, ServerOK
<1>3. spent' \in [BudgetNames -> Nat]
  BY <1>1, InputIsBudget, SpendFacts DEF MouseButton, ServerOK
<1> QED BY <1>1, <1>2, <1>3, StepKeeps DEF MouseButton, ServerOK

\* and its moves.
LEMMA MouseMoveKeeps ==
  ASSUME IInv, MouseMove
  PROVE  IInv'
<1>1. Running(client, server, clean) /\ client \in Clients /\ ServerOK
  BY Grabbed DEF MouseMove
<1>2. PICK d : d = [client EXCEPT !.moved = TRUE] OBVIOUS
<1>3. d \in Clients BY <1>1, <1>2 DEF Clients
<1>4. d.held => d.grabbed BY <1>1, <1>2 DEF Clients, Running, Core
<1>5. Quieter(client, d) BY <1>1, <1>2, <1>3, <1>4 DEF Quieter, Clients
<1>6. Running(client', server, clean) BY <1>1, <1>2, <1>5, QuieterRuns DEF MouseMove
<1>7. spent' \in [BudgetNames -> Nat]
  BY <1>1, InputIsBudget, SpendFacts DEF MouseMove, ServerOK
<1> QED BY <1>1, <1>6, <1>7, StepKeeps DEF MouseMove, ServerOK

\* The chains of checkEvents, the ones of earlier sessions too.
LEMMA CheckEventsKeeps ==
  ASSUME IInv, CheckEvents
  PROVE  IInv'
<1>1. /\ Running(client, server, clean) /\ client \in Clients /\ ServerOK
      /\ clean => client.rfb_state = "normal"
  BY Grabbed DEF CheckEvents
<1>2. Running(client', server, clean)
  <2>1. CASE client.moved BY <2>1, <1>1, FlushClientRuns DEF CheckEvents, ServerOK
  <2>2. CASE ~client.moved BY <2>2, <1>1, SpeakRuns DEF CheckEvents, ServerOK
  <2> QED BY <2>1, <2>2
<1>3. spent' \in [BudgetNames -> Nat]
  BY <1>1, InputIsBudget, SpendFacts DEF CheckEvents, ServerOK
<1> QED BY <1>1, <1>2, <1>3, StepKeeps DEF CheckEvents, ServerOK

\* The socket did not open in time.
LEMMA ConnectTimeoutKeeps ==
  ASSUME IInv, ConnectTimeout
  PROVE  IInv'
<1>1. client # NewClient BY NewClientFacts DEF ConnectTimeout
<1>2. Running(client, server, clean) /\ ServerOK BY <1>1, SessionRuns
<1>3. PICK c : c = Fail(client) OBVIOUS
<1>4. Running(c, server, clean)
  BY <1>2, <1>3, EndKeeps DEF Fail, Ended, ServerOK
<1>5. c \in Clients /\ (c.held => c.grabbed) BY <1>4 DEF Running, Core
<1>6. PICK d : d = [c EXCEPT !.connTimer = FALSE] OBVIOUS
<1>7. d \in Clients BY <1>5, <1>6 DEF Clients
<1>8. Quieter(c, d) BY <1>5, <1>6, <1>7 DEF Quieter, Clients
<1>9. Running(client', server, clean)
  BY <1>3, <1>4, <1>6, <1>8, QuieterRuns DEF ConnectTimeout
<1> QED BY <1>2, <1>9, StepKeeps DEF ConnectTimeout, ServerOK

\* The server did not close in time.
LEMMA DisconnectTimeoutKeeps ==
  ASSUME IInv, DisconnectTimeout
  PROVE  IInv'
<1>1. client # NewClient BY NewClientFacts DEF DisconnectTimeout
<1>2. Running(client, server, clean) /\ ServerOK BY <1>1, SessionRuns
<1>3. PICK c : c = Fail(client) OBVIOUS
<1>4. Running(c, server, clean)
  BY <1>2, <1>3, EndKeeps DEF Fail, Ended, ServerOK
<1>5. c \in Clients /\ (c.held => c.grabbed) BY <1>4 DEF Running, Core
<1>6. PICK d : d = [c EXCEPT !.disconnTimer = FALSE] OBVIOUS
<1>7. d \in Clients BY <1>5, <1>6 DEF Clients
<1>8. Quieter(c, d) BY <1>5, <1>6, <1>7 DEF Quieter, Clients
<1>9. Running(client', server, clean)
  BY <1>3, <1>4, <1>6, <1>8, QuieterRuns DEF DisconnectTimeout
<1> QED BY <1>2, <1>9, StepKeeps DEF DisconnectTimeout, ServerOK

\* 50 ms after a failure, in whatever state the page is by then.
LEMMA FailedTimeoutKeeps ==
  ASSUME IInv, FailedTimeout
  PROVE  IInv'
<1>1. client # NewClient BY NewClientFacts DEF FailedTimeout
<1>2. Running(client, server, clean) /\ client \in Clients /\ ServerOK BY <1>1, SessionRuns
<1>3. PICK c : c = [client EXCEPT !.failed = @ - 1] OBVIOUS
<1>4. client.failed - 1 \in Nat BY <1>2 DEF Clients, FailedTimeout
<1>5. c \in Clients BY <1>2, <1>3, <1>4 DEF Clients
<1>6. c.held => c.grabbed BY <1>2, <1>3 DEF Clients, Running, Core
<1>7. Quieter(client, c) BY <1>2, <1>3, <1>5, <1>6 DEF Quieter, Clients, FailedTimeout
<1>8. Running(c, server, clean) BY <1>2, <1>7, QuieterRuns
<1>9. Running(client', server, clean)
  BY <1>2, <1>3, <1>8, EndKeeps DEF FailedTimeout, Ended, ServerOK
<1> QED BY <1>2, <1>9, StepKeeps DEF FailedTimeout, ServerOK

\* 50 ms after the mouse, in whatever state the page is by then.
LEMMA FlushTimeoutKeeps ==
  ASSUME IInv, FlushTimeout
  PROVE  IInv'
<1>1. client # NewClient BY NewClientFacts DEF FlushTimeout
<1>2. Running(client, server, clean) /\ client \in Clients /\ ServerOK BY <1>1, SessionRuns
<1>3. PICK c : c = [client EXCEPT !.flushes = @ - 1] OBVIOUS
<1>4. client.flushes - 1 \in Nat BY <1>2 DEF Clients, FlushTimeout
<1>5. c \in Clients BY <1>2, <1>3, <1>4 DEF Clients
<1>6. c.held => c.grabbed BY <1>2, <1>3 DEF Clients, Running, Core
<1>7. Quieter(client, c) BY <1>2, <1>3, <1>5, <1>6 DEF Quieter, Clients, FlushTimeout
<1>8. Running(c, server, clean) BY <1>2, <1>7, QuieterRuns
<1>9. clean => c.rfb_state \in Ended \cup {"normal"}
  BY <1>2, <1>7 DEF Running, Session, FlushTimeout, Quieter
<1>10. Running(client', server, clean)
  <2>1. client' = Send(c, "request") BY <1>3 DEF FlushTimeout
  <2> QED BY <2>1, <1>2, <1>8, <1>9, SpeakRuns DEF ServerOK
<1> QED BY <1>2, <1>10, StepKeeps DEF FlushTimeout, ServerOK

\* The handshake goes on in any session as it began.
LEMMA OnwardStarts ==
  ASSUME NEW c, NEW sv, Start(c, sv), NEW d, Onward(c, d)
  PROVE  Core(d) /\ Start(d, sv)
BY DEF Onward, Start

\* 1 ms after the password, in whatever state the page is by then.
LEMMA InitTimeoutKeeps ==
  ASSUME IInv, InitTimeout
  PROVE  IInv'
<1>1. client # NewClient BY NewClientFacts DEF InitTimeout
<1>2. Running(client, server, clean) /\ client \in Clients /\ ServerOK BY <1>1, SessionRuns
<1>3. PICK c : c = [client EXCEPT !.inits = @ - 1] OBVIOUS
<1>4. client.inits - 1 \in Nat BY <1>2 DEF Clients, InitTimeout
<1>5. c \in Clients BY <1>2, <1>3, <1>4 DEF Clients
<1>6. c.held => c.grabbed BY <1>2, <1>3 DEF Clients, Running, Core
<1>7. Quieter(client, c) BY <1>2, <1>3, <1>5, <1>6 DEF Quieter, Clients, InitTimeout
<1>8. Running(c, server, clean) BY <1>2, <1>7, QuieterRuns
<1>9. client' = InitMsg(c) BY <1>3 DEF InitTimeout
<1>10. Core(InitMsg(c)) /\ Start(InitMsg(c), server)
  <2>1. c.rfb_state = "ProtocolVersion" => c.rQ = <<>> BY <1>8 DEF Running, Start
  <2>2. Onward(c, InitMsg(c)) BY <2>1, <1>8, InitOnward DEF Running
  <2> QED BY <2>2, <1>8, OnwardStarts DEF Running
<1>11. ASSUME clean PROVE Session(InitMsg(c), server)
  <2>1. c.rfb_state # "ProtocolVersion"
    BY <1>2, <1>7, <1>11 DEF Running, Session, InitTimeout, Quieter
  <2>2. Settled(c, server) /\ server \in Servers
    BY <1>2, <1>8, <1>11 DEF Running, Settled, ServerOK
  <2> QED BY <2>1, <2>2, CleanInit DEF Settled
<1>12. Running(client', server, clean) BY <1>9, <1>10, <1>11 DEF Running
<1> QED BY <1>2, <1>12, StepKeeps DEF InitTimeout, ServerOK

\* The timer of handle_message, in whatever state the page is by then.
LEMMA MsgTimeoutKeeps ==
  ASSUME IInv, MsgTimeout
  PROVE  IInv'
<1>1. client # NewClient BY NewClientFacts DEF MsgTimeout
<1>2. Running(client, server, clean) /\ client \in Clients /\ ServerOK BY <1>1, SessionRuns
<1>3. PICK c : c = [client EXCEPT !.msgTimer = FALSE] OBVIOUS
<1>4. c \in Clients BY <1>2, <1>3 DEF Clients
<1>5. c.held => c.grabbed BY <1>2, <1>3 DEF Clients, Running, Core
<1>6. Quieter(client, c) BY <1>2, <1>3, <1>4, <1>5 DEF Quieter, Clients
<1>7. Running(c, server, clean) BY <1>2, <1>6, QuieterRuns
<1>8. client' = HandleMessage(c) BY <1>3 DEF MsgTimeout
<1>9. Core(HandleMessage(c)) /\ Start(HandleMessage(c), server)
  <2>1. c.rfb_state = "ProtocolVersion" => c.rQ = <<>> BY <1>7 DEF Running, Start
  <2>2. Onward(c, HandleMessage(c)) BY <2>1, <1>7, HandleOnward DEF Running
  <2> QED BY <2>2, <1>7, OnwardStarts DEF Running
<1>10. ASSUME clean PROVE Session(HandleMessage(c), server)
  <2>1. Settled(c, server) /\ server \in Servers
    BY <1>2, <1>7, <1>10 DEF Running, Settled, ServerOK
  <2> QED BY <2>1, CleanHandle DEF Settled
<1>11. Running(client', server, clean) BY <1>8, <1>9, <1>10 DEF Running
<1> QED BY <1>2, <1>11, StepKeeps DEF MsgTimeout, ServerOK

\* The interval that flushes.
LEMMA SendIntervalKeeps ==
  ASSUME IInv, SendInterval
  PROVE  IInv'
<1>1. client # NewClient BY NewClientFacts DEF SendInterval
<1>2. Running(client, server, clean) /\ client \in Clients /\ ServerOK BY <1>1, SessionRuns
<1>3. PICK d : d = Flush(client) OBVIOUS
<1>4. /\ d \in Clients /\ SameBut(client, d) /\ Pipe(d) = Pipe(client)
      /\ client.socket[client.cur] # "open" => d.wire = client.wire
      /\ client.sQ = <<>> => d.sQ = <<>>
  BY <1>2, <1>3, FlushFacts
<1>5. Core(d) BY <1>2, <1>4, CoreSame DEF Running
<1>6. Start(d, server) BY <1>2, <1>4 DEF Running, Start, SameBut, Same
<1>7. ASSUME clean PROVE Session(d, server)
  <2>1. Session(client, server) BY <1>2, <1>7 DEF Running
  <2>2. Step(d, server)
    <3>1. Step(client, server) BY <2>1 DEF Session
    <3>2. /\ d.rfb_state = client.rfb_state /\ d.rQ = client.rQ /\ d.half = client.half
          /\ d.scheme = client.scheme /\ d.version = client.version
      BY <1>4 DEF SameBut, Same
    <3> QED BY <3>1, <3>2, <1>4 DEF Step, Waits, Part
  <2> QED BY <2>1, <2>2, <1>4 DEF Session, SameBut, Same
<1>8. Running(client', server, clean) BY <1>3, <1>5, <1>6, <1>7 DEF Running, SendInterval
<1> QED BY <1>2, <1>8, StepKeeps DEF SendInterval, ServerOK

\* The buffer of the browser fills up and drains.
LEMMA CongestKeeps ==
  ASSUME IInv, Congest \/ Drain
  PROVE  IInv'
<1>1. client # NewClient BY NewClientFacts DEF Congest, Drain
<1>2. Running(client, server, clean) /\ client \in Clients /\ ServerOK BY <1>1, SessionRuns
<1>3. PICK b \in BOOLEAN : client' = [client EXCEPT !.congested = b] BY DEF Congest, Drain
<1>4. PICK d : d = client' OBVIOUS
<1>5. d \in Clients BY <1>2, <1>3, <1>4 DEF Clients
<1>6. d.held => d.grabbed BY <1>2, <1>3, <1>4 DEF Clients, Running, Core
<1>7. Quieter(client, d) BY <1>2, <1>3, <1>4, <1>5, <1>6 DEF Quieter, Clients
<1>8. Running(client', server, clean) BY <1>2, <1>4, <1>7, QuieterRuns
<1>9. spent' \in [BudgetNames -> Nat]
  BY <1>2, InputIsBudget, SpendFacts DEF Congest, Drain, ServerOK
<1>10. server' = server /\ clean' = clean BY DEF Congest, Drain
<1> QED BY <1>2, <1>8, <1>9, <1>10, StepKeeps DEF ServerOK

-----------------------------------------------------------------------------
(* The network.                                                            *)

\* The socket opens, and the handshake begins.
LEMMA OnOpenKeeps ==
  ASSUME IInv, OnOpen
  PROVE  IInv'
<1>1. client # NewClient BY NewClientFacts DEF OnOpen
<1>2. Running(client, server, clean) /\ client \in Clients /\ ServerOK /\ client.cur \in Sockets
  BY <1>1, SessionRuns
<1>3. Core(client) /\ client.socket[client.cur] = "connecting"
      /\ client.rfb_state \in Talking \cup {"connect"}
  BY <1>2 DEF Running, OnOpen, Core
<1>4. PICK f : f = [client.socket EXCEPT ![client.cur] = "open"] OBVIOUS
<1>5. /\ f \in [Sockets -> {"unused", "connecting", "open", "closing", "closed"}]
      /\ f[client.cur] = "open" /\ \A s \in Sockets \ {client.cur} : f[s] = client.socket[s]
  BY <1>2, <1>4 DEF Clients
<1>6. PICK c : c = [client EXCEPT !.socket[client.cur] = "open"] OBVIOUS
<1>7. c = [client EXCEPT !.socket = f] BY <1>2, <1>4, <1>6 DEF Clients
<1>8. c \in Clients /\ c.socket = f BY <1>2, <1>5, <1>7 DEF Clients
<1>9. /\ c.rfb_state = client.rfb_state /\ c.cur = client.cur /\ c.wire = client.wire
      /\ c.sQ = client.sQ /\ c.rQ = client.rQ /\ c.half = client.half
      /\ c.held = client.held /\ c.grabbed = client.grabbed
      /\ c.shown = client.shown /\ c.button = client.button
      /\ c.failed = client.failed /\ c.flushes = client.flushes /\ c.inits = client.inits
  BY <1>2, <1>7 DEF Clients
<1>10. c.cur # 0 /\ \A s \in Sockets \ {c.cur} : c.socket[s] \notin {"connecting", "open"}
  BY <1>3, <1>5, <1>8, <1>9 DEF Core
<1>11. UNCHANGED <<server, clean, spent>> BY DEF OnOpen
<1>12. CASE c.rfb_state = "connect"
  <2>1. PICK d : d = UpdateState(c, "ProtocolVersion") OBVIOUS
  <2>2. "ProtocolVersion" \in Talking /\ "ProtocolVersion" \in Handshake BY DEF Talking, Handshake
  <2>3. MovedTo(c, d, "ProtocolVersion") BY <2>1, <2>2, <1>8, <1>12, MoveFacts
  <2>4. /\ d \in Clients /\ d.rfb_state = "ProtocolVersion" /\ d.cur = client.cur /\ d.socket = f
        /\ ~d.connTimer /\ ~d.disconnTimer
        /\ d.failed = client.failed /\ d.flushes = client.flushes /\ d.inits = client.inits
        /\ d.sQ = client.sQ /\ d.wire = client.wire /\ d.rQ = client.rQ /\ d.half = client.half
        /\ d.held = client.held /\ d.grabbed = client.grabbed /\ d.shown = "ProtocolVersion"
    BY <2>3, <1>8, <1>9 DEF MovedTo
  <2>5. Core(d) BY <2>2, <2>4, <1>3, <1>8, <1>9, <1>10 DEF Core
  <2>6. d.rQ = <<>> /\ server.stage = "version" BY <2>4, <1>2, <1>9, <1>12 DEF Running, Start
  <2>7. Start(d, server) BY <2>4, <2>6 DEF Start
  <2>8. ASSUME clean PROVE Session(d, server)
    <3>1. Session(client, server) /\ client.rfb_state = "connect"
      BY <2>8, <1>2, <1>9, <1>12 DEF Running
    <3>2. "connect" \notin Ended \cup {"normal", "disconnect"} BY DEF Ended
    <3>3. client.sQ = <<>> /\ client.wire = <<>> BY <3>1, <1>3 DEF Session, Step, Core
    <3>4. Pipe(d) = <<>> BY <3>3, <2>4, <1>5 DEF Pipe
    <3>5. /\ d.failed = 0 /\ d.flushes = 0 /\ d.inits = 0 /\ ~d.grabbed
          /\ \A s \in Sockets \ {d.cur} : d.socket[s] \in {"unused", "closed"}
      <4>1. client.failed \in Nat /\ client.flushes \in Nat /\ client.inits \in Nat
        BY <1>2 DEF Clients
      <4> QED BY <4>1, <3>1, <3>2, <2>4, <1>5 DEF Session
    <3>6. Handshaking(d, server) BY <3>5, <2>2, <2>4, <2>5, <1>2, <1>5 DEF Handshaking, ServerOK
    <3>7. Step(d, server) BY <3>4, <2>4, <2>6 DEF Step, Waits
    <3>8. Fits(server, d.scheme, Pipe(d)) BY <3>4, <2>6 DEF Fits
    <3> QED BY <3>5, <3>6, <3>7, <3>8, ShakeSettles DEF Settled
  <2>9. Running(d, server, clean) BY <2>5, <2>7, <2>8 DEF Running
  <2>10. client' = d BY <2>1, <1>6, <1>12 DEF OnOpen
  <2> QED BY <2>9, <2>10, <1>2, <1>11, StepKeeps DEF ServerOK
<1>13. CASE c.rfb_state # "connect"
  <2>1. Core(c) BY <1>3, <1>8, <1>9, <1>10, <1>13 DEF Core
  <2>2. Start(c, server) BY <1>2, <1>9 DEF Running, Start
  <2>3. ~clean BY <1>2, <1>3, <1>9, <1>13 DEF Running, Session
  <2>4. Running(c, server, clean) BY <2>1, <2>2, <2>3 DEF Running
  <2>5. client' = UpdateState(c, "failed") BY <1>6, <1>13 DEF OnOpen, Fail
  <2>6. Running(client', server, clean)
    BY <2>4, <2>5, <1>2, EndKeeps DEF Ended, ServerOK
  <2> QED BY <2>6, <1>2, <1>11, StepKeeps DEF ServerOK
<1> QED BY <1>12, <1>13

\* A socket closes, the current one or one of an earlier session.
LEMMA OnCloseKeeps ==
  ASSUME IInv, NEW s \in Sockets, OnClose(s)
  PROVE  IInv'
<1>1. client # NewClient BY NewClientFacts DEF OnClose
<1>2. Running(client, server, clean) /\ client \in Clients /\ ServerOK /\ client.cur \in Sockets
  BY <1>1, SessionRuns
<1>3. Core(client) BY <1>2 DEF Running
<1>4. PICK f : f = [client.socket EXCEPT ![s] = "closed"] OBVIOUS
<1>5. /\ f \in [Sockets -> {"unused", "connecting", "open", "closing", "closed"}]
      /\ f[s] = "closed" /\ \A r \in Sockets \ {s} : f[r] = client.socket[r]
  BY <1>2, <1>4 DEF Clients
<1>6. PICK c : c = [client EXCEPT !.socket[s] = "closed"] OBVIOUS
<1>7. c = [client EXCEPT !.socket = f] BY <1>2, <1>4, <1>6 DEF Clients
<1>8. c \in Clients /\ c.socket = f BY <1>2, <1>5, <1>7 DEF Clients
<1>9. /\ c.rfb_state = client.rfb_state /\ c.cur = client.cur /\ c.wire = client.wire
      /\ c.sQ = client.sQ /\ c.rQ = client.rQ /\ c.half = client.half
      /\ c.held = client.held /\ c.grabbed = client.grabbed /\ c.scheme = client.scheme
      /\ c.shown = client.shown /\ c.button = client.button
      /\ c.connTimer = client.connTimer /\ c.disconnTimer = client.disconnTimer
      /\ c.failed = client.failed /\ c.flushes = client.flushes /\ c.inits = client.inits
  BY <1>2, <1>7 DEF Clients
<1>10. Ending(c) BY <1>3, <1>5, <1>8, <1>9 DEF Core, Ending
<1>11. UNCHANGED <<server, clean>> /\ spent' \in [BudgetNames -> Nat]
  BY <1>2, InputIsBudget, SpendFacts DEF OnClose, ServerOK
<1>12. ASSUME clean
       PROVE  /\ \A r \in Sockets \ {c.cur} : c.socket[r] \in {"unused", "closed"}
              /\ Fits(server, c.scheme, Pipe(c)) /\ (c.held => server.stage = "serve")
  <2>1. Session(client, server) BY <1>2, <1>12 DEF Running
  <2>2. \A r \in Sockets \ {c.cur} : c.socket[r] \in {"unused", "closed"}
    BY <2>1, <1>5, <1>8, <1>9 DEF Session
  <2>3. c.held => server.stage = "serve" BY <2>1, <1>3, <1>9 DEF Session, Core, Step
  <2>4. Fits(server, client.scheme, Pipe(client)) BY <2>1 DEF Session
  <2>5. client.wire \in Seq(Words) /\ client.sQ \in Seq(Words) BY <1>2 DEF Clients
  <2>6. CASE client.socket[client.cur] = "open"
    <3>1. Fits(server, client.scheme, client.wire)
      <4>1. Fits(server, client.scheme, client.wire \o client.sQ) BY <2>4, <2>6 DEF Pipe
      <4> QED BY <4>1, <2>5, PrefixFits
    <3>2. Pipe(c) = client.wire \/ Pipe(c) = Pipe(client)
      BY <2>6, <1>9 DEF Pipe
    <3> QED BY <3>1, <3>2, <2>2, <2>3, <2>4, <1>9
  <2>7. CASE client.socket[client.cur] # "open"
    <3>1. c.socket[c.cur] # "open" BY <2>7, <1>2, <1>5, <1>8, <1>9
    <3>2. Pipe(c) = Pipe(client) BY <3>1, <2>7, <1>9 DEF Pipe
    <3> QED BY <3>2, <2>2, <2>3, <2>4, <1>9
  <2> QED BY <2>6, <2>7
<1>13. CASE c.rfb_state \in {"failed", "disconnected"}
  <2>1. client' = c BY <1>6, <1>13 DEF OnClose
  <2>2. c.rfb_state \notin Talking \cup {"connect", "ProtocolVersion"}
    BY <1>13 DEF Talking, Handshake
  <2>3. \A r \in Sockets : c.socket[r] \notin {"connecting", "open"}
    BY <2>2, <1>3, <1>5, <1>8, <1>9 DEF Core
  <2>4. Core(c) BY <2>2, <2>3, <1>3, <1>8, <1>9 DEF Core
  <2>5. Start(c, server) BY <2>2 DEF Start
  <2>6. Step(c, server) BY <1>13 DEF Step
  <2>7. ASSUME clean PROVE Session(c, server)
    <3>1. Session(client, server) BY <1>2, <2>7 DEF Running
    <3> QED BY <3>1, <2>2, <2>6, <2>7, <1>9, <1>12 DEF Session
  <2>8. Running(client', server, clean) BY <2>1, <2>4, <2>5, <2>7 DEF Running
  <2> QED BY <2>8, <1>2, <1>11, StepKeeps DEF ServerOK
<1>14. CASE c.rfb_state \notin {"failed", "disconnected"}
  <2>1. PICK e \in Ended : client' = UpdateState(c, e) /\ c.rfb_state # e
    <3>1. CASE c.rfb_state = "disconnect"
      <4>1. client' = UpdateState(c, "disconnected") BY <3>1, <1>6 DEF OnClose
      <4> QED BY <4>1, <3>1 DEF Ended
    <3>2. CASE c.rfb_state # "disconnect"
      <4>1. client' = UpdateState(c, "failed") BY <3>2, <1>6, <1>14 DEF OnClose, Fail
      <4> QED BY <4>1, <1>14 DEF Ended
    <3> QED BY <3>1, <3>2
  <2>2. PICK d : d = UpdateState(c, e) OBVIOUS
  <2>3. Over(c, d, e) BY <2>1, <2>2, <1>8, EndFacts
  <2>4. Core(d) /\ d.rfb_state \in Ended BY <2>3, <1>10, CoreEnd
  <2>5. Start(d, server) BY <2>4 DEF Start, Ended
  <2>6. clean => Session(d, server) BY <2>1, <2>2, <1>10, <1>12, SessionEnds DEF Settled
  <2>7. Running(client', server, clean) BY <2>1, <2>2, <2>4, <2>5, <2>6 DEF Running
  <2> QED BY <2>7, <1>2, <1>11, StepKeeps DEF ServerOK
<1> QED BY <1>13, <1>14

\* The first message of two queues is the first of the first one.
LEMMA ConcatHeads ==
  ASSUME NEW S, NEW a \in Seq(S), a # <<>>, NEW b \in Seq(S)
  PROVE  /\ a \o b \in Seq(S) /\ a \o b # <<>>
         /\ Head(a \o b) = Head(a) /\ Tail(a \o b) = Tail(a) \o b
<1>1. /\ a \o b \in Seq(S) /\ Len(a \o b) = Len(a) + Len(b)
      /\ \A i \in 1 .. Len(a) + Len(b) :
           (a \o b)[i] = IF i <= Len(a) THEN a[i] ELSE b[i - Len(a)]
  BY ConcatProperties
<1>2. Len(a) \in Nat /\ Len(b) \in Nat /\ Len(a) > 0 OBVIOUS
<1>3. a \o b # <<>> BY <1>1, <1>2
<1>4. Head(a \o b) = Head(a) BY <1>1, <1>2
<1>5. Tail(a \o b) = Tail(a) \o b
  <2>1. /\ Tail(a) \in Seq(S) /\ Len(Tail(a)) = Len(a) - 1
        /\ \A i \in 1 .. Len(Tail(a)) : Tail(a)[i] = a[i + 1]
    BY HeadTailProperties
  <2>2. /\ Tail(a \o b) \in Seq(S) /\ Len(Tail(a \o b)) = Len(a) + Len(b) - 1
        /\ \A i \in 1 .. Len(Tail(a \o b)) : Tail(a \o b)[i] = (a \o b)[i + 1]
    BY <1>1, <1>2, <1>3, HeadTailProperties
  <2>3. /\ Tail(a) \o b \in Seq(S) /\ Len(Tail(a) \o b) = Len(a) - 1 + Len(b)
        /\ \A i \in 1 .. Len(Tail(a)) + Len(b) :
             (Tail(a) \o b)[i] = IF i <= Len(Tail(a)) THEN Tail(a)[i] ELSE b[i - Len(Tail(a))]
    BY <2>1, ConcatProperties
  <2>4. \A i \in 1 .. Len(a) + Len(b) - 1 : Tail(a \o b)[i] = (Tail(a) \o b)[i]
    BY <2>1, <2>2, <2>3, <1>1, <1>2
  <2> QED BY <2>2, <2>3, <2>4, <1>2, SeqEqual
<1> QED BY <1>1, <1>3, <1>4, <1>5

\* The server hears the first message of the wire.
LEMMA ServerHearsKeeps ==
  ASSUME IInv, ServerHears
  PROVE  IInv'
<1>1. client # NewClient BY NewClientFacts DEF ServerHears
<1>2. /\ Running(client, server, clean) /\ client \in Clients /\ ServerOK
      /\ client.cur \in Sockets
  BY <1>1, SessionRuns
<1>3. Core(client) /\ server \in Servers /\ client.scheme \in Said
  BY <1>2 DEF Running, ServerOK, Clients
<1>4. PICK w : w = Tail(client.wire) OBVIOUS
<1>5. /\ client.wire \in Seq(Words) /\ client.sQ \in Seq(Words) /\ client.wire # <<>>
      /\ w \in Seq(Words)
  BY <1>2, <1>4, HeadTailProperties DEF Clients, ServerHears
<1>6. PICK c : c = [client EXCEPT !.wire = w] OBVIOUS
<1>7. c \in Clients /\ c.wire = w BY <1>2, <1>5, <1>6 DEF Clients
<1>8. /\ c.rfb_state = client.rfb_state /\ c.cur = client.cur /\ c.socket = client.socket
      /\ c.sQ = client.sQ /\ c.rQ = client.rQ /\ c.half = client.half
      /\ c.held = client.held /\ c.grabbed = client.grabbed
      /\ c.version = client.version /\ c.scheme = client.scheme
      /\ c.shown = client.shown /\ c.button = client.button
      /\ c.connTimer = client.connTimer /\ c.disconnTimer = client.disconnTimer
      /\ c.failed = client.failed /\ c.flushes = client.flushes /\ c.inits = client.inits
  BY <1>2, <1>6 DEF Clients
<1>9. client.rfb_state # "connect" BY <1>3, <1>5 DEF Core
<1>10. Core(c) BY <1>3, <1>7, <1>8, <1>9 DEF Core
<1>11. PICK m \in Words : m = Head(client.wire) BY <1>5, HeadTailProperties
<1>12. PICK sv : sv = [server EXCEPT !.stage = Hears(@, server.version, m)] OBVIOUS
<1>13. /\ sv \in Servers /\ sv.version = server.version
       /\ sv.stage = Hears(server.stage, server.version, m)
  BY <1>3, <1>12 DEF Servers, Hears, Stages
<1>14. server' = sv /\ client' = c /\ clean' = clean /\ spent' = spent
  BY <1>4, <1>6, <1>11, <1>12 DEF ServerHears
<1>15. Start(c, sv)
  <2>1. ASSUME c.rfb_state = "ProtocolVersion"
        PROVE  c.rQ = <<>> /\ sv.stage \in {"version", "confused"}
    <3>1. c.rQ = <<>> /\ server.stage \in {"version", "hearRepeater", "confused"}
      BY <2>1, <1>2, <1>8 DEF Running, Start
    <3>2. server.stage \in {"hearRepeater", "confused"} BY <3>1 DEF ServerHears
    <3> QED BY <3>1, <3>2, <1>13 DEF Hears
  <2> QED BY <2>1, <1>8, <1>9 DEF Start
<1>16. ASSUME clean PROVE Session(c, sv)
  <2>1. Session(client, server) /\ Step(client, server)
        /\ Fits(server, client.scheme, Pipe(client))
    BY <1>2, <1>16 DEF Running, Session
  <2>2. PICK p : p = Pipe(client) OBVIOUS
  <2>3. p \in Seq(Words) /\ p # <<>> /\ Head(p) = m /\ Tail(p) = Pipe(c)
    <3>1. CASE client.socket[client.cur] = "open"
      <4>1. p = client.wire \o client.sQ BY <3>1, <2>2 DEF Pipe
      <4>2. Pipe(c) = w \o client.sQ BY <3>1, <1>7, <1>8 DEF Pipe
      <4>3. p \in Seq(Words) /\ Head(p) = Head(client.wire)
            /\ Tail(p) = Tail(client.wire) \o client.sQ
        BY <4>1, <1>5, ConcatHeads
      <4>4. p # <<>> BY <4>1, <1>5, ConcatHeads
      <4> QED BY <4>2, <4>3, <4>4, <1>4, <1>11
    <3>2. CASE client.socket[client.cur] # "open"
      BY <3>2, <2>2, <1>4, <1>5, <1>7, <1>8, <1>11 DEF Pipe
    <3> QED BY <3>1, <3>2
  <2>4. Fits(sv, c.scheme, Pipe(c))
    <3>1. sv = [server EXCEPT !.stage = Hears(@, server.version, Head(p))]
      BY <2>3, <1>12
    <3>2. Fits(server, client.scheme, p) BY <2>1, <2>2
    <3>3. Fits(sv, client.scheme, Tail(p)) BY <3>1, <3>2, <2>3, <1>3, HearsFits
    <3> QED BY <3>3, <2>3, <1>8
  <2>5. \A n : p = <<n>> => m = n /\ Pipe(c) = <<>> BY <2>3
  <2>6. p = <<"scheme", "init">> => m = "scheme" /\ Pipe(c) = <<"init">>
    <3>1. \A a, b : Head(<<a, b>>) = a /\ Tail(<<a, b>>) = <<b>> OBVIOUS
    <3> QED BY <3>1, <2>3
  <2>7. Step(c, sv)
    <3>1. CASE c.rfb_state = "ProtocolVersion"
      <4>1. Waits(client, server, "hearRepeater", <<"repeater">>)
        BY <3>1, <2>1, <2>2, <2>3, <1>8 DEF Step, Waits
      <4>2. Waits(c, sv, "version", <<>>)
        BY <4>1, <2>2, <2>5, <1>8, <1>13 DEF Waits, Hears
      <4> QED BY <3>1, <4>2 DEF Step
    <3>2. CASE c.rfb_state = "Security"
      <4>1. /\ client.version = server.version /\ client.version # 0
            /\ Waits(client, server, "hearVersion", <<"version">>)
        BY <3>2, <2>1, <2>2, <2>3, <1>8 DEF Step, Waits, Part
      <4>2. Waits(c, sv, "types", <<>>)
        BY <4>1, <2>2, <2>5, <1>8, <1>13 DEF Waits, Hears
      <4> QED BY <3>2, <4>1, <4>2, <1>8, <1>13 DEF Step
    <3>3. CASE c.rfb_state \in {"Authentication", "password"}
      <4>1. client.scheme = "vnc" /\ Waits(client, server, "hearScheme", <<"scheme">>)
        BY <3>3, <2>1, <2>2, <2>3, <1>8 DEF Step, Waits
      <4>2. Waits(c, sv, "challenge", <<>>)
        BY <4>1, <2>2, <2>5, <1>8, <1>13 DEF Waits, Hears
      <4> QED BY <3>3, <4>1, <4>2, <1>8 DEF Step
    <3>4. CASE c.rfb_state = "SecurityResult"
      <4>1. \/ /\ Waits(client, server, "hearScheme", <<"scheme">>)
               /\ client.scheme = "none" /\ server.version >= 38
            \/ Waits(client, server, "hearResponse", <<"response">>)
        BY <3>4, <2>1, <2>2, <2>3, <1>8 DEF Step, Waits, Part
      <4>2. Waits(c, sv, "result", <<>>)
        BY <4>1, <2>2, <2>5, <1>8, <1>13 DEF Waits, Hears
      <4> QED BY <3>4, <4>2 DEF Step
    <3>5. CASE c.rfb_state = "ServerInitialisation"
      <4>1. \/ /\ Waits(client, server, "hearScheme", <<"scheme", "init">>)
               /\ client.scheme = "none" /\ server.version = 37
            \/ Waits(client, server, "hearInit", <<"init">>)
        BY <3>5, <2>1, <2>2, <2>3, <1>8 DEF Step, Waits, Part
      <4>2. Waits(c, sv, "hearInit", <<"init">>) \/ Waits(c, sv, "init", <<>>)
        BY <4>1, <2>2, <2>5, <2>6, <1>8, <1>13 DEF Waits, Hears
      <4> QED BY <3>5, <4>2 DEF Step
    <3>6. CASE c.rfb_state = "normal"
      <4>1. server.stage = "serve" BY <3>6, <2>1, <1>8 DEF Step
      <4>2. m \in {"setup", "input", "request"}
        <5>1. p \in Seq({"setup", "input", "request"}) BY <4>1, <2>1, <2>2, <2>3 DEF Fits
        <5> QED BY <5>1, <2>3, HeadTailProperties
      <4> QED BY <3>6, <4>1, <4>2, <1>13 DEF Step, Hears
    <3>7. CASE c.rfb_state = "ClientInitialisation"
      BY <3>7, <2>1, <1>8 DEF Step
    <3>8. CASE c.rfb_state \notin {"connect", "ProtocolVersion", "Security", "Authentication",
                                   "password", "SecurityResult", "ServerInitialisation",
                                   "normal", "ClientInitialisation"}
      BY <3>8 DEF Step
    <3> QED BY <3>1, <3>2, <3>3, <3>4, <3>5, <3>6, <3>7, <3>8, <1>8, <1>9
  <2> QED BY <2>1, <2>4, <2>7, <1>8 DEF Session
<1>17. Running(c, sv, clean) BY <1>10, <1>15, <1>16 DEF Running
<1> QED BY <1>2, <1>13, <1>14, <1>17, StepKeeps DEF ServerOK

\* The rest of a message is here.
LEMMA RestArrivesKeeps ==
  ASSUME IInv, RestArrives
  PROVE  IInv'
<1>1. client # NewClient BY NewClientFacts DEF RestArrives
<1>2. /\ Running(client, server, clean) /\ client \in Clients /\ ServerOK
      /\ client.cur \in Sockets /\ client.half /\ client.socket[client.cur] = "open"
  BY <1>1, SessionRuns DEF RestArrives
<1>3. Core(client) /\ client.rQ # <<>> BY <1>2 DEF Running, Core
<1>4. client.rfb_state \in Talking BY <1>2, <1>3 DEF Core
<1>5. PICK c : c = [client EXCEPT !.half = FALSE] OBVIOUS
<1>6. c \in Clients /\ ~c.half BY <1>2, <1>5 DEF Clients
<1>7. /\ c.rfb_state = client.rfb_state /\ c.cur = client.cur /\ c.socket = client.socket
      /\ c.sQ = client.sQ /\ c.wire = client.wire /\ c.rQ = client.rQ
      /\ c.held = client.held /\ c.grabbed = client.grabbed
      /\ c.version = client.version /\ c.scheme = client.scheme
      /\ c.shown = client.shown /\ c.button = client.button
      /\ c.connTimer = client.connTimer /\ c.disconnTimer = client.disconnTimer
      /\ c.failed = client.failed /\ c.flushes = client.flushes /\ c.inits = client.inits
  BY <1>2, <1>5 DEF Clients
<1>8. Core(c) BY <1>3, <1>6, <1>7 DEF Core
<1>9. Start(c, server) /\ c.rfb_state # "ProtocolVersion"
  BY <1>2, <1>3, <1>7 DEF Running, Start
<1>10. client' = HandleMessage(c) /\ UNCHANGED <<server, clean, spent>>
  BY <1>5 DEF RestArrives
<1>11. Core(HandleMessage(c)) /\ Start(HandleMessage(c), server)
  <2>1. Onward(c, HandleMessage(c)) BY <1>8, <1>9, HandleOnward
  <2> QED BY <2>1, <1>9, OnwardStarts
<1>12. ASSUME clean PROVE Session(HandleMessage(c), server)
  <2>1. server \in Servers /\ Settled(client, server)
    BY <1>2, <1>12 DEF Running, Settled, ServerOK
  <2>2. Pipe(c) = Pipe(client) BY <1>7 DEF Pipe
  <2>3. CASE client.rfb_state = "normal"
    <3>1. Serving(client, server) BY <2>1, <2>3, SettledServes
    <3>2. Serving(c, server) BY <3>1, <2>2, <1>7, <1>8 DEF Serving
    <3> QED BY <3>2, CleanArrival DEF Settled
  <2>4. CASE client.rfb_state # "normal"
    <3>1. client.rfb_state \in Handshake BY <2>4, <1>4 DEF Talking
    <3>2. Handshaking(client, server) /\ Step(client, server)
      BY <3>1, <2>1, SettledShakes
    <3>3. Handshaking(c, server) BY <3>2, <1>7, <1>8 DEF Handshaking
    <3>4. Pipe(c) = <<>> /\ \E m : c.rQ = <<m>> /\ Expected(c, server, m)
      <4>1. CASE client.rfb_state = "Security"
        BY <4>1, <3>2, <2>2, <1>3, <1>7 DEF Step, Waits, Part, Expected
      <4>2. CASE client.rfb_state \in {"Authentication", "password"}
        BY <4>2, <3>2, <2>2, <1>3, <1>7 DEF Step, Waits, Expected
      <4>3. CASE client.rfb_state = "SecurityResult"
        BY <4>3, <3>2, <2>2, <1>3, <1>7 DEF Step, Waits, Part, Expected
      <4>4. CASE client.rfb_state = "ServerInitialisation"
        BY <4>4, <3>2, <2>2, <1>3, <1>7 DEF Step, Waits, Part, Expected
      <4>5. CASE client.rfb_state = "ClientInitialisation"
        BY <4>5, <3>2 DEF Step
      <4> QED BY <4>1, <4>2, <4>3, <4>4, <4>5, <3>1, <1>7, <1>9 DEF Handshake
    <3> QED BY <3>3, <3>4, CleanArrival DEF Settled
  <2> QED BY <2>3, <2>4
<1>13. Running(client', server, clean) BY <1>10, <1>11, <1>12 DEF Running
<1> QED BY <1>2, <1>10, <1>13, StepKeeps DEF ServerOK

\* What the server says in its stage.
LEMMA SaysFacts ==
  ASSUME NEW stage, NEW version, NEW say \in Says(stage, version)
  PROVE  /\ say[1] \in Said /\ say[2] \in Stages
         /\ \/ /\ stage = "version" /\ say[2] = "hearVersion"
               /\ say[1] \in Versions \cup {"unknown"}
            \/ stage = "version" /\ say[1] = "repeater" /\ say[2] = "hearRepeater"
            \/ /\ stage = "types" /\ say[1] \notin Versions
               /\ \/ say[1] = "refused" /\ say[2] = "refused"
                  \/ say[1] = "none" /\ say[2] = "hearInit" /\ version < 37
                  \/ say[1] = "vnc" /\ say[2] = "challenge" /\ version < 37
                  \/ say[1] \in {"none", "vnc"} /\ say[2] = "hearScheme" /\ ~(version < 37)
            \/ stage = "challenge" /\ say[1] = "challenge" /\ say[2] = "hearResponse"
            \/ stage = "result" /\ say[1] = "ok" /\ say[2] = "hearInit"
            \/ stage = "result" /\ say[1] = "denied" /\ say[2] = "refused"
            \/ stage = "init" /\ say[1] = "init" /\ say[2] = "serve"
            \/ stage = "serve" /\ say[1] \in {"data", "garbage"} /\ say[2] = "serve"
<1>1. CASE stage = "version" BY <1>1 DEF Says, Said, Stages, Versions
<1>2. CASE stage = "types"
  <2>1. CASE version < 37 BY <2>1, <1>2 DEF Says, Said, Stages, Versions
  <2>2. CASE ~(version < 37) BY <2>2, <1>2 DEF Says, Said, Stages, Versions
  <2> QED BY <2>1, <2>2
<1>3. CASE stage = "challenge" BY <1>3 DEF Says, Said, Stages
<1>4. CASE stage = "result" BY <1>4 DEF Says, Said, Stages
<1>5. CASE stage = "init" BY <1>5 DEF Says, Said, Stages
<1>6. CASE stage = "serve" BY <1>6 DEF Says, Said, Stages
<1>7. CASE stage \notin {"version", "types", "challenge", "result", "init", "serve"}
  BY <1>7 DEF Says
<1> QED BY <1>1, <1>2, <1>3, <1>4, <1>5, <1>6, <1>7

\* What one message, and the next, leave in the queue.
LEMMA ArrivingFacts ==
  ASSUME NEW q \in Seq(Said), NEW m \in Said, NEW more \in {<<>>, <<"data">>}
  PROVE  LET r == q \o (<<m>> \o more)
         IN /\ r \in Seq(Said) /\ r # <<>>
            /\ q = <<>> /\ more = <<>> => r = <<m>>
<1>1. <<m>> \in Seq(Said) /\ more \in Seq(Said)
  <2>1. "data" \in Said BY DEF Said
  <2>2. <<>> \in Seq(Said) /\ <<"data">> \in Seq(Said) /\ <<m>> \in Seq(Said) BY <2>1
  <2> QED BY <2>2
<1>2. PICK n : n = <<m>> \o more OBVIOUS
<1>3. n \in Seq(Said) /\ Len(n) = 1 + Len(more) BY <1>1, <1>2, ConcatProperties
<1>4. q \o n \in Seq(Said) /\ Len(q \o n) = Len(q) + Len(n) BY <1>3, ConcatProperties
<1>5. q \o n # <<>>
  <2>1. Len(more) \in Nat /\ Len(q) \in Nat BY <1>1
  <2>2. \A a, b \in Nat : a + (1 + b) # 0 OBVIOUS
  <2>3. Len(q \o n) # 0 BY <2>1, <2>2, <1>3, <1>4
  <2> QED BY <2>3
<1>6. more = <<>> => n = <<m>> BY <1>1, <1>2, ConcatEmptySeq
<1>7. q = <<>> => q \o n = n BY <1>3, ConcatEmptySeq
<1> QED BY <1>2, <1>4, <1>5, <1>6, <1>7

\* The server says what its stage allows.
LEMMA ServerSaysKeeps ==
  ASSUME IInv, NEW half \in BOOLEAN, ServerSays(half)
  PROVE  IInv'
<1>1. client # NewClient BY NewClientFacts DEF ServerSays
<1>2. /\ Running(client, server, clean) /\ client \in Clients /\ ServerOK
      /\ client.cur \in Sockets /\ ~client.half /\ client.socket[client.cur] = "open"
  BY <1>1, SessionRuns DEF ServerSays
<1>3. Core(client) BY <1>2 DEF Running
<1>4. client.rfb_state \in Talking BY <1>2, <1>3 DEF Core
<1>5. PICK say \in Says(server.stage, server.version),
           more \in {<<>>} \cup (IF server.stage = "serve" THEN {<<"data">>} ELSE {}) :
        /\ Arrive(<<say[1]>> \o more, half)
        /\ server' = [stage |-> say[2],
                      version |-> IF say[1] \in Versions THEN VersionOf(say[1])
                                  ELSE server.version]
  BY DEF ServerSays
<1>6. PICK m : m = say[1] OBVIOUS
<1>7. PICK st : st = say[2] OBVIOUS
<1>8. /\ m \in Said /\ st \in Stages
      /\ \/ /\ server.stage = "version" /\ st = "hearVersion"
            /\ m \in Versions \cup {"unknown"}
         \/ server.stage = "version" /\ m = "repeater" /\ st = "hearRepeater"
         \/ /\ server.stage = "types" /\ m \notin Versions
            /\ \/ m = "refused" /\ st = "refused"
               \/ m = "none" /\ st = "hearInit" /\ server.version < 37
               \/ m = "vnc" /\ st = "challenge" /\ server.version < 37
               \/ m \in {"none", "vnc"} /\ st = "hearScheme" /\ ~(server.version < 37)
         \/ server.stage = "challenge" /\ m = "challenge" /\ st = "hearResponse"
         \/ server.stage = "result" /\ m = "ok" /\ st = "hearInit"
         \/ server.stage = "result" /\ m = "denied" /\ st = "refused"
         \/ server.stage = "init" /\ m = "init" /\ st = "serve"
         \/ server.stage = "serve" /\ m \in {"data", "garbage"} /\ st = "serve"
  BY <1>5, <1>6, <1>7, SaysFacts
<1>9. more \in {<<>>, <<"data">>} /\ (server.stage # "serve" => more = <<>>) BY <1>5
<1>10. PICK v : v = IF m \in Versions THEN VersionOf(m) ELSE server.version OBVIOUS
<1>11. v \in Numbers
  BY <1>2, <1>10, VersionKnown DEF ServerOK, Servers
<1>12. PICK sv : sv = [stage |-> st, version |-> v] OBVIOUS
<1>13. sv \in Servers /\ sv.stage = st /\ sv.version = v BY <1>8, <1>11, <1>12 DEF Servers
<1>14. PICK q : q = client.rQ \o (<<m>> \o more) OBVIOUS
<1>15. /\ q \in Seq(Said) /\ q # <<>>
       /\ client.rQ = <<>> /\ more = <<>> => q = <<m>>
  <2>1. client.rQ \in Seq(Said) BY <1>2 DEF Clients
  <2> QED BY <2>1, <1>8, <1>9, <1>14, ArrivingFacts
<1>16. PICK c : c = [client EXCEPT !.rQ = q, !.half = half] OBVIOUS
<1>17. c \in Clients /\ c.rQ = q /\ c.half = half BY <1>2, <1>15, <1>16 DEF Clients
<1>18. /\ c.rfb_state = client.rfb_state /\ c.cur = client.cur /\ c.socket = client.socket
       /\ c.sQ = client.sQ /\ c.wire = client.wire
       /\ c.held = client.held /\ c.grabbed = client.grabbed
       /\ c.version = client.version /\ c.scheme = client.scheme
       /\ c.shown = client.shown /\ c.button = client.button
       /\ c.connTimer = client.connTimer /\ c.disconnTimer = client.disconnTimer
       /\ c.failed = client.failed /\ c.flushes = client.flushes /\ c.inits = client.inits
  BY <1>2, <1>16 DEF Clients
<1>19. Core(c) BY <1>3, <1>15, <1>17, <1>18 DEF Core
<1>20. client' = HandleMessage(c) /\ server' = sv /\ clean' = clean
  <2>1. client' = HandleMessage([client EXCEPT !.rQ = client.rQ \o (<<m>> \o more), !.half = half])
    BY <1>5, <1>6 DEF Arrive
  <2>2. server' = sv BY <1>5, <1>6, <1>7, <1>10, <1>12
  <2>3. clean' = clean BY DEF ServerSays
  <2> QED BY <2>1, <2>2, <2>3, <1>14, <1>16
<1>21. spent' \in [BudgetNames -> Nat]
  BY <1>2, InputIsBudget, SpendFacts DEF ServerSays, ServerOK
<1>22. c.rfb_state = "ProtocolVersion" =>
         /\ client.rQ = <<>> /\ c.rQ = <<m>> /\ m \in FirstWords
         /\ m = "repeater" => sv.stage = "hearRepeater"
  <2> HAVE c.rfb_state = "ProtocolVersion"
  <2>1. client.rQ = <<>> /\ server.stage \in {"version", "hearRepeater", "confused"}
    BY <1>2, <1>18 DEF Running, Start
  <2>2. "repeater" \notin Versions \cup {"unknown"} BY DEF Versions
  <2>3. /\ server.stage = "version" /\ m \in Versions \cup {"unknown", "repeater"}
        /\ m = "repeater" => st = "hearRepeater"
    BY <2>1, <2>2, <1>8
  <2> QED BY <2>1, <2>3, <1>9, <1>13, <1>15, <1>17 DEF FirstWords
<1>23. Core(HandleMessage(c)) /\ Start(HandleMessage(c), sv)
  <2>1. Onward(c, HandleMessage(c)) BY <1>19, <1>22, HandleOnward
  <2>2. c.rfb_state # "connect" BY <1>4, <1>18 DEF Talking, Handshake
  <2>3. \A n : c.rQ = <<n>> /\ c.rQ = <<m>> => n = m OBVIOUS
  <2> QED BY <2>1, <2>2, <2>3, <1>15, <1>17, <1>22 DEF Onward, Start
<1>24. ASSUME clean PROVE Session(HandleMessage(c), sv)
  <2>1. server \in Servers /\ Settled(client, server)
    BY <1>2, <1>24 DEF Running, Settled, ServerOK
  <2>2. Pipe(c) = Pipe(client) BY <1>18 DEF Pipe
  <2>3. CASE client.rfb_state = "normal"
    <3>1. Serving(client, server) BY <2>1, <2>3, SettledServes
    <3>2. st = "serve" BY <3>1, <1>8 DEF Serving
    <3>3. Serving(c, sv) BY <3>1, <3>2, <2>2, <1>13, <1>18, <1>19 DEF Serving
    <3> QED BY <3>3, CleanArrival DEF Settled
  <2>4. CASE client.rfb_state # "normal"
    <3>1. client.rfb_state \in Handshake BY <2>4, <1>4 DEF Talking
    <3>2. /\ Handshaking(client, server) /\ Step(client, server)
          /\ client.rfb_state = "ProtocolVersion" => client.inits = 0
      BY <3>1, <2>1, SettledShakes
    <3>3. Handshaking(c, sv) BY <3>2, <1>13, <1>18, <1>19 DEF Handshaking
    <3>4. Pipe(c) = <<>> /\ client.rQ = <<>> /\ Expected(c, sv, m)
      <4>1. CASE client.rfb_state = "ProtocolVersion"
        <5>1. server.stage = "version" /\ Pipe(client) = <<>> /\ client.rQ = <<>>
          BY <4>1, <3>2, <1>8 DEF Step, Waits
        <5>2. \/ m \in Versions /\ st = "hearVersion" /\ v = VersionOf(m)
              \/ m = "unknown" /\ st = "hearVersion"
              \/ m = "repeater" /\ st = "hearRepeater"
          BY <5>1, <1>8, <1>10
        <5> QED BY <5>1, <5>2, <4>1, <3>2, <2>2, <1>13, <1>18 DEF Expected
      <4>2. CASE client.rfb_state = "Security"
        <5>1. /\ client.version = server.version /\ client.version # 0
              /\ server.stage = "types" /\ Pipe(client) = <<>> /\ client.rQ = <<>>
          BY <4>2, <3>2, <1>2, <1>8 DEF Step, Waits, Part
        <5>2. m \notin Versions /\ v = server.version BY <5>1, <1>8, <1>10
        <5>3. server.version \in {33, 37, 38}
          BY <5>1, <1>2 DEF ServerOK, Servers, Numbers
        <5>4. ~(server.version < 37) => server.version >= 37 BY <5>3
        <5> QED BY <5>1, <5>2, <5>4, <4>2, <2>2, <1>8, <1>13, <1>18 DEF Expected
      <4>3. CASE client.rfb_state \in {"Authentication", "password"}
        <5>1. /\ client.scheme = "vnc"
              /\ server.stage = "challenge" /\ Pipe(client) = <<>> /\ client.rQ = <<>>
          BY <4>3, <3>2, <1>8 DEF Step, Waits
        <5> QED BY <5>1, <4>3, <2>2, <1>8, <1>13, <1>18 DEF Expected
      <4>4. CASE client.rfb_state = "SecurityResult"
        <5>1. server.stage = "result" /\ Pipe(client) = <<>> /\ client.rQ = <<>>
          BY <4>4, <3>2, <1>2, <1>8 DEF Step, Waits, Part
        <5> QED BY <5>1, <4>4, <2>2, <1>8, <1>13, <1>18 DEF Expected
      <4>5. CASE client.rfb_state = "ServerInitialisation"
        <5>1. server.stage = "init" /\ Pipe(client) = <<>> /\ client.rQ = <<>>
          BY <4>5, <3>2, <1>2, <1>8 DEF Step, Waits, Part
        <5> QED BY <5>1, <4>5, <2>2, <1>8, <1>13, <1>18 DEF Expected
      <4>6. CASE client.rfb_state = "ClientInitialisation"
        BY <4>6, <3>2 DEF Step
      <4> QED BY <4>1, <4>2, <4>3, <4>4, <4>5, <4>6, <3>1 DEF Handshake
    <3>5. more = <<>>
      <4>1. server.stage # "serve" BY <3>1, <3>2, <3>4, <1>2 DEF Step, Waits, Part, Handshake
      <4> QED BY <4>1, <1>9
    <3>6. c.rQ = <<m>> BY <3>4, <3>5, <1>15, <1>17
    <3> QED BY <3>3, <3>4, <3>6, CleanArrival DEF Settled
  <2> QED BY <2>3, <2>4
<1>25. Running(client', sv, clean) BY <1>20, <1>23, <1>24 DEF Running
<1> QED BY <1>2, <1>13, <1>20, <1>21, <1>25, StepKeeps DEF ServerOK

-----------------------------------------------------------------------------
(* Theorems.                                                               *)

\* The invariant holds when the page is loaded.
LEMMA InitKeeps ==
  ASSUME Init
  PROVE  IInv
BY DEF Init, IInv, ServerOK, NewServer, Servers, Stages, Numbers, BudgetNames

\* It is kept by whatever a callback of the page, a timer, the network or the
\* server does.
LEMMA NextKeeps ==
  ASSUME IInv, [Next]_vars
  PROVE  IInv'
<1>1. CASE UserStep
  BY <1>1, ConnectKeeps, SendPasswordKeeps, DisconnectKeeps, KeyKeeps, PasteKeeps,
     MouseButtonKeeps, MouseMoveKeeps DEF UserStep
<1>2. CASE TimerStep
  BY <1>2, ConnectTimeoutKeeps, DisconnectTimeoutKeeps, FailedTimeoutKeeps, FlushTimeoutKeeps,
     InitTimeoutKeeps, SendIntervalKeeps, MsgTimeoutKeeps, CheckEventsKeeps DEF TimerStep
<1>3. CASE NetworkStep
  BY <1>3, OnOpenKeeps, OnCloseKeeps, CongestKeeps, ServerSaysKeeps, RestArrivesKeeps,
     ServerHearsKeeps DEF NetworkStep
<1>4. CASE UNCHANGED vars
  BY <1>4 DEF vars, IInv, ServerOK
<1> QED BY <1>1, <1>2, <1>3, <1>4 DEF Next

\* Every session keeps the invariant, for every number of connections and
\* whatever the user, the network and the server do.
THEOREM SessionsInOrder == Spec => []IInv
<1>1. Init => IInv BY InitKeeps
<1>2. IInv /\ [Next]_vars => IInv' BY NextKeeps
<1> QED BY <1>1, <1>2, PTL DEF Spec

\* NoLeak: a session that is over holds no connection, whatever ended it, no
\* connection but the current one is open, and the disconnect timer and the
\* grabbed keyboard do not outlive their states.
THEOREM NothingLeaks == Spec => []NoLeak
<1>1. IInv => NoLeak
  <2>1. CASE client = NewClient BY <2>1, NewClientFacts DEF NoLeak
  <2>2. CASE IInv /\ client # NewClient
    <3>1. Running(client, server, clean) BY <2>2, SessionRuns
    <3>2. Talking \cup {"connect"} = {"connect", "normal"} \cup Handshake BY DEF Talking
    <3>3. \A s \in Sockets : client.socket[s] \in {"connecting", "open"} =>
            s = client.cur /\ client.rfb_state \in {"connect", "normal"} \cup Handshake
      BY <3>1, <3>2 DEF Running, Core
    <3> QED BY <3>1, <3>3 DEF NoLeak, Running, Session
  <2> QED BY <2>1, <2>2
<1> QED BY <1>1, SessionsInOrder, PTL

\* HandshakeKept: in a session that began with nothing of an earlier one
\* pending, the server never hears what it does not expect in its stage,
\* however the messages of the two sides are cut, delayed and queued.
THEOREM HandshakeIsKept == Spec => []HandshakeKept
<1>1. IInv => HandshakeKept
  <2>1. CASE client = NewClient /\ server = NewServer BY <2>1 DEF HandshakeKept, NewServer
  <2>2. CASE Core(client) /\ Start(client, server) /\ (clean => Session(client, server))
    BY <2>2 DEF HandshakeKept, Session, Fits
  <2> QED BY <2>1, <2>2 DEF IInv
<1> QED BY <1>1, SessionsInOrder, PTL

\* A state that leads to no end.
LEMMA SameState ==
  ASSUME IInv,
         Key \/ Paste \/ MouseButton \/ MouseMove \/ FlushTimeout \/ SendInterval \/ CheckEvents
         \/ Congest \/ Drain \/ ServerHears \/ UNCHANGED vars
  PROVE  client'.rfb_state = client.rfb_state
<1>1. client \in Clients BY NewClientFacts DEF IInv, Core
<1>2. \A c \in Clients : \A m \in Words : Send(c, m).rfb_state = c.rfb_state
  BY SendFacts DEF SameBut, Same
<1>3. "input" \in Words /\ "request" \in Words BY DEF Words
<1>4. CASE Key
  <2>1. PICK d : d = [client EXCEPT !.held = ~@] OBVIOUS
  <2>2. d \in Clients /\ d.rfb_state = client.rfb_state BY <1>1, <2>1 DEF Clients
  <2>3. client' = Send(d, "input") BY <1>4, <2>1 DEF Key
  <2> QED BY <2>2, <2>3, <1>2, <1>3
<1>5. CASE Paste BY <1>5, <1>1, <1>2, <1>3 DEF Paste
<1>6. FlushClient(client).rfb_state = client.rfb_state
  <2>1. PICK d : d = [client EXCEPT !.moved = FALSE, !.flushes = @ + 1] OBVIOUS
  <2>2. client.flushes + 1 \in Nat BY <1>1 DEF Clients
  <2>3. d \in Clients /\ d.rfb_state = client.rfb_state BY <1>1, <2>1, <2>2 DEF Clients
  <2>4. FlushClient(client) = Send(d, "input") BY <2>1 DEF FlushClient
  <2> QED BY <2>3, <2>4, <1>2, <1>3
<1>7. CASE MouseButton BY <1>7, <1>6 DEF MouseButton
<1>8. CASE MouseMove BY <1>8, <1>1 DEF MouseMove, Clients
<1>9. CASE FlushTimeout
  <2>1. PICK d : d = [client EXCEPT !.flushes = @ - 1] OBVIOUS
  <2>2. client.flushes - 1 \in Nat BY <1>1, <1>9 DEF Clients, FlushTimeout
  <2>3. d \in Clients /\ d.rfb_state = client.rfb_state BY <1>1, <2>1, <2>2 DEF Clients
  <2>4. client' = Send(d, "request") BY <1>9, <2>1 DEF FlushTimeout
  <2> QED BY <2>3, <2>4, <1>2, <1>3
<1>10. CASE SendInterval
  BY <1>10, <1>1, FlushFacts DEF SendInterval, SameBut, Same
<1>11. CASE CheckEvents
  <2>1. client' = FlushClient(client) \/ client' = Send(client, "request")
    BY <1>11 DEF CheckEvents
  <2> QED BY <2>1, <1>1, <1>2, <1>3, <1>6
<1>12. CASE Congest \/ Drain BY <1>12, <1>1 DEF Congest, Drain, Clients
<1>13. CASE ServerHears BY <1>13, <1>1 DEF ServerHears, Clients
<1>14. CASE UNCHANGED vars BY <1>14 DEF vars
<1> QED BY <1>4, <1>5, <1>7, <1>8, <1>9, <1>10, <1>11, <1>12, <1>13, <1>14

\* In a session in order, with nothing in the receive queue, a timer of init_msg
\* or of handle_message ends nothing.
LEMMA TimersEndNothing ==
  ASSUME IInv, clean, client # NewClient, client.rQ = <<>>, InitTimeout \/ MsgTimeout
  PROVE  client'.rfb_state \notin Ended \/ client'.rfb_state = client.rfb_state
<1>1. /\ Session(client, server) /\ client \in Clients
  BY SessionRuns DEF Settled
<1>2. CASE MsgTimeout
  <2>1. PICK c : c = [client EXCEPT !.msgTimer = FALSE] OBVIOUS
  <2>2. c.rQ = <<>> /\ c.rfb_state = client.rfb_state BY <1>1, <2>1 DEF Clients
  <2>3. client' = c BY <1>2, <2>1, <2>2 DEF MsgTimeout, HandleMessage
  <2> QED BY <2>2, <2>3
<1>3. CASE InitTimeout
  <2>1. PICK c : c = [client EXCEPT !.inits = @ - 1] OBVIOUS
  <2>2. /\ c.rQ = <<>> /\ c.rfb_state = client.rfb_state /\ c.scheme = client.scheme
        /\ c.password = client.password
    BY <1>1, <2>1 DEF Clients
  <2>3. ~Whole(c) BY <2>2, WholeFacts
  <2>4. c.rfb_state # "ProtocolVersion" BY <1>1, <1>3, <2>2 DEF Session, InitTimeout
  <2>5. client' = InitMsg(c) BY <1>3, <2>1 DEF InitTimeout
  <2>6. CASE c.rfb_state = "Authentication"
    <3>1. c.scheme = "vnc" BY <2>2, <2>6, <1>1 DEF Session, Step
    <3>2. client' = c \/ (client' = UpdateState(c, "password") /\ c.rfb_state # "password")
      BY <3>1, <2>3, <2>5, <2>6, <1>1, <2>2 DEF InitMsg, Authentication, Clients
    <3>3. "password" \in Talking /\ "password" \notin Ended
      BY DEF Talking, Handshake, Ended
    <3>4. c \in Clients
      <4>1. client.inits - 1 \in Nat BY <1>1, <1>3 DEF Clients, InitTimeout
      <4> QED BY <4>1, <1>1, <2>1 DEF Clients
    <3> QED BY <3>2, <3>3, <3>4, <2>2, MoveFacts DEF MovedTo
  <2>7. CASE c.rfb_state # "Authentication"
    <3>1. client' = c
      BY <2>3, <2>4, <2>5, <2>7 DEF InitMsg, Security, SecurityResult, ServerInitialisation
    <3> QED BY <3>1, <2>2
  <2> QED BY <2>6, <2>7
<1> QED BY <1>2, <1>3

\* EndsByItself: a session that began with nothing of an earlier one pending is
\* ended by the user, by its own socket, by its own timer or by a message, and
\* by no timer or socket that is left over.
THEOREM SessionsEndByThemselves == Spec => EndsByItself
<1> DEFINE Goal ==
      clean /\ client.rfb_state \in Handshake \cup {"connect", "normal"}
      /\ client'.rfb_state \in {"failed", "disconnected", "disconnect"}
      => \/ Disconnect
         \/ OnClose(client.cur)
         \/ (client.rfb_state = "connect" /\ ConnectTimeout)
         \/ client.rQ # <<>>
         \/ \E half \in BOOLEAN : ServerSays(half)
<1>1. ASSUME IInv, [Next]_vars PROVE Goal
  <2> SUFFICES ASSUME clean, client.rfb_state \in Handshake \cup {"connect", "normal"},
                      client'.rfb_state \in {"failed", "disconnected", "disconnect"},
                      client.rQ = <<>>
               PROVE  \/ Disconnect
                      \/ OnClose(client.cur)
                      \/ (client.rfb_state = "connect" /\ ConnectTimeout)
                      \/ \E half \in BOOLEAN : ServerSays(half)
    OBVIOUS
  <2>1. client # NewClient BY NewClientFacts DEF Handshake
  <2>2. /\ Session(client, server) /\ Core(client) /\ client \in Clients
        /\ client.cur \in Sockets
    BY <1>1, <2>1, SessionRuns DEF Settled
  <2>3. client.rfb_state \notin Ended /\ client'.rfb_state \in Ended
        /\ client'.rfb_state # client.rfb_state
    BY DEF Ended, Handshake
  <2>4. ~(\/ Key \/ Paste \/ MouseButton \/ MouseMove \/ FlushTimeout \/ SendInterval
          \/ CheckEvents \/ Congest \/ Drain \/ ServerHears \/ UNCHANGED vars)
    BY <1>1, <2>3, SameState
  <2>5. ~(InitTimeout \/ MsgTimeout) BY <1>1, <2>1, <2>3, TimersEndNothing
  <2>6. ~\E p \in BOOLEAN : Connect(p)
    BY <2>2, <2>3 DEF Connect, Offered, Core, Handshake, Ended
  <2>7. ~\E p \in BOOLEAN : SendPassword(p)
    BY <2>2, <2>3 DEF SendPassword, Clients, Ended
  <2>8. ~DisconnectTimeout
    BY <2>2, <2>3 DEF DisconnectTimeout, Session, Ended
  <2>9. ~FailedTimeout BY <2>2, <2>3 DEF FailedTimeout, Session
  <2>10. ConnectTimeout => client.rfb_state = "connect"
    BY <2>2 DEF ConnectTimeout, Session
  <2>11. ~OnOpen
    <3>1. SUFFICES ASSUME OnOpen PROVE FALSE OBVIOUS
    <3>2. client.socket[client.cur] = "connecting" BY <3>1 DEF OnOpen
    <3>3. client.rfb_state = "connect" BY <3>2, <2>2 DEF Session, Talking
    <3>4. PICK c : c = [client EXCEPT !.socket[client.cur] = "open"] OBVIOUS
    <3>5. c \in Clients /\ c.rfb_state = "connect" BY <3>3, <3>4, <2>2 DEF Clients
    <3>6. client' = UpdateState(c, "ProtocolVersion") BY <3>1, <3>4, <3>5 DEF OnOpen
    <3>7. "ProtocolVersion" \in Talking /\ "ProtocolVersion" \notin Ended
      BY DEF Talking, Handshake, Ended
    <3>8. client'.rfb_state = "ProtocolVersion" BY <3>5, <3>6, <3>7, MoveFacts DEF MovedTo
    <3> QED BY <3>7, <3>8, <2>3
  <2>12. \A s \in Sockets : OnClose(s) => s = client.cur
    BY <2>2 DEF OnClose, Session
  <2>13. ~RestArrives BY <2>2 DEF RestArrives, Core
  <2>14. CASE UserStep BY <2>14, <2>4, <2>6, <2>7 DEF UserStep
  <2>15. CASE TimerStep BY <2>15, <2>4, <2>5, <2>8, <2>9, <2>10 DEF TimerStep
  <2>16. CASE NetworkStep BY <2>16, <2>4, <2>11, <2>12, <2>13 DEF NetworkStep
  <2> QED BY <1>1, <2>4, <2>14, <2>15, <2>16 DEF Next
<1>2. IInv /\ [Next]_vars => [Goal]_vars BY <1>1
<1> QED BY <1>2, SessionsInOrder, PTL DEF Spec, EndsByItself

=============================================================================

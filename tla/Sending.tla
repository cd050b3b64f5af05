------------------------------ MODULE Sending ------------------------------
(***************************************************************************)
(* What the console and the VNC server say to each other, as bytes: rfb.js *)
(* writes its messages into the send queue of websock.js, which sends the  *)
(* queue in base64 when the socket has room; a proxy stands between the    *)
(* browser and the server.  A character of base64 is its index in          *)
(* toBase64Table, where 64 is the padding.                                 *)
(***************************************************************************)
EXTENDS Sequences, Integers

CONSTANTS
  Updates,        \* what fbUpdateRequests can return: sequences of requests
  KeySyms, Texts, \* keys and clipboards, a text is a sequence of char codes
  Points,         \* [mask, x, y]: where the mouse is and what it holds
  Chunks,         \* what the server sends at once
  maxBufferedAmount,
  MaxSpoken       \* bound: messages of the console

VARIABLES
  conf,       \* true_color, local_cursor
  normal,     \* rfb_state is "normal"
  sQ,         \* websock.js: the send queue
  wire,       \* frames the socket has taken and not transmitted
  heard,      \* the bytes the server has got
  mouse_arr,  \* pointer events that wait for flushClient
  requests,   \* flushClient's timeouts that still have to ask for updates
  spoken,     \* history: the messages given to ws.send
  rQ, served  \* the receive queue, and history: the bytes the server sent

vars == <<conf, normal, sQ, wire, heard, mouse_arr, requests, spoken, rQ, served>>

-----------------------------------------------------------------------------
(* util.js: push8, push16, push32 write integers of 32 bits.               *)

push8(n) == <<n % 256>>
push16(n) == <<(n \div 256) % 256, n % 256>>
push32(n) == push16(n \div 65536) \o push16(n)

RECURSIVE Concat(_)
Concat(ss) == IF ss = <<>> THEN <<>> ELSE Head(ss) \o Concat(Tail(ss))

-----------------------------------------------------------------------------
(* rfb.js: the messages of the client.                                     *)

BytesPerPixel == IF conf.true_color THEN 4 ELSE 1
BytesOfColour == IF conf.true_color THEN 3 ELSE 1
PixelFormat == [type |-> 0, bpp |-> BytesPerPixel * 8, depth |-> BytesOfColour * 8, true_color |-> conf.true_color]
pixelFormat(m) ==
  <<0, 0, 0, 0>> \o push8(m.bpp) \o push8(m.depth) \o push8(0) \o push8(IF m.true_color THEN 1 ELSE 0)
  \o push16(255) \o push16(255) \o push16(255) \o <<16, 8, 0>> \o <<0, 0, 0>>

TIGHT == 7
Cursor == -239
encodings == <<1, TIGHT, -260, 5, 2, 0, -223, Cursor, -26, -247, -224>>
Encodings ==
  [type |-> 2,
   list |-> SelectSeq(encodings, LAMBDA e : /\ e = Cursor => conf.local_cursor
                                            /\ e = TIGHT => conf.true_color)]
clientEncodings(m) ==
  <<2>> \o push8(0) \o push16(Len(m.list)) \o Concat([i \in DOMAIN m.list |-> push32(m.list[i])])

fbUpdateRequest(m) ==
  <<3>> \o push8(m.incremental) \o push16(m.x) \o push16(m.y) \o push16(m.w) \o push16(m.h)

Key(keysym, down) == [type |-> 4, down |-> down, keysym |-> keysym]
keyEvent(m) == <<4>> \o push8(m.down) \o push16(0) \o push32(m.keysym)

Pointer(p) == [type |-> 5, mask |-> p.mask, x |-> p.x, y |-> p.y]
pointerEvent(m) == <<5>> \o push8(m.mask) \o push16(m.x) \o push16(m.y)

\* The char codes are appended as they are.
CutText(text) == [type |-> 6, text |-> text]
clientCutText(m) == <<6>> \o push8(0) \o push8(0) \o push8(0) \o push32(Len(m.text)) \o m.text

Written(m) ==
  CASE m.type = 0 -> pixelFormat(m)
    [] m.type = 2 -> clientEncodings(m)
    [] m.type = 3 -> fbUpdateRequest(m)
    [] m.type = 4 -> keyEvent(m)
    [] m.type = 5 -> pointerEvent(m)
    [] m.type = 6 -> clientCutText(m)

-----------------------------------------------------------------------------
(* base64.js.                                                              *)

Pad == 64

Rest(a, b) == (a % 4) * 16 + b \div 16
Quad(a, b, c) == <<a \div 4, Rest(a, b), (b % 16) * 4 + c \div 64, c % 64>>
EndUnpadded(data, j, left) ==   \* mutant: one byte left is padded like two
  CASE left = 0 -> <<>>
    [] left = 1 -> <<data[j] \div 4, Rest(data[j], 0), 0, Pad>>
    [] left = 2 -> <<data[j] \div 4, Rest(data[j], data[j + 1]), (data[j + 1] % 16) * 4, Pad>>
\* The one or two bytes after the last group of three.
End(data, j, left) ==
  CASE left = 0 -> <<>>
    [] left = 1 -> <<data[j] \div 4, Rest(data[j], 0), Pad, Pad>>
    [] left = 2 -> <<data[j] \div 4, Rest(data[j], data[j + 1]), (data[j + 1] % 16) * 4, Pad>>
encode(data) ==
  LET groups == Len(data) \div 3
  IN Concat([g \in 1 .. groups |-> Quad(data[3 * g - 2], data[3 * g - 1], data[3 * g])])
     \o End(data, 3 * groups + 1, Len(data) % 3)

\* One turn of the loop: six bits in, a byte out when there are eight, unless
\* the character is padding.
Collect(d, c) ==
  LET data == d.left * 64 + (IF c = Pad THEN 0 ELSE c)
      bits == d.bits + 6
  IN IF bits < 8 THEN [d EXCEPT !.left = data, !.bits = bits]
     ELSE [left |-> data % 2^(bits - 8), bits |-> bits - 8,
           result |-> IF c = Pad THEN d.result ELSE Append(d.result, data \div 2^(bits - 8))]
decode(data) ==
  LET Loop[i \in 0 .. Len(data)] ==
        IF i = 0 THEN [left |-> 0, bits |-> 0, result |-> <<>>] ELSE Collect(Loop[i - 1], data[i])
  IN Loop[Len(data)].result

-----------------------------------------------------------------------------
(* websock.js.                                                             *)

bufferedAmount == Len(Concat(wire))

flush(queue) ==
  IF bufferedAmount < maxBufferedAmount /\ queue # <<>>
  THEN wire' = Append(wire, encode(queue)) /\ sQ' = <<>>
  ELSE wire' = wire /\ sQ' = queue

\* ws.send of some messages in one array.
Send(messages) ==
  /\ Len(spoken) < MaxSpoken
  /\ flush(sQ \o Concat([i \in DOMAIN messages |-> Written(messages[i])]))
  /\ spoken' = spoken \o messages

-----------------------------------------------------------------------------
(* rfb.js: what makes the console speak.                                   *)

Quiet == UNCHANGED <<conf, heard, rQ, served>>

\* The end of init_msg, which has taken everything off the queue.
ServerInitialisation ==
  /\ ~normal /\ normal' = TRUE
  /\ \E u \in Updates : Send(<<PixelFormat, Encodings>> \o u)
  /\ rQ' = <<>> /\ served' = <<>>
  /\ UNCHANGED <<conf, heard, mouse_arr, requests>>

keyPress(keysym, down) ==
  /\ normal
  /\ \E u \in Updates : Send(<<Key(keysym, down)>> \o u)
  /\ Quiet /\ UNCHANGED <<normal, mouse_arr, requests>>

sendCtrlAltDel ==
  /\ normal
  /\ \E u \in Updates :
       Send(<<Key(65507, 1), Key(65513, 1), Key(65535, 1),
              Key(65535, 0), Key(65513, 0), Key(65507, 0)>> \o u)
  /\ Quiet /\ UNCHANGED <<normal, mouse_arr, requests>>

clipboardPasteFrom(text) ==
  /\ normal
  /\ Send(<<CutText(text)>>)
  /\ Quiet /\ UNCHANGED <<normal, mouse_arr, requests>>
clipSend(text) == clipboardPasteFrom(text)
clipClear == clipboardPasteFrom(<<>>)

mouseMove(p) ==
  /\ normal /\ Len(mouse_arr) + Len(spoken) < MaxSpoken
  /\ mouse_arr' = Append(mouse_arr, Pointer(p))
  /\ Quiet /\ UNCHANGED <<normal, sQ, wire, requests, spoken>>

flushClient(arr) ==
  /\ Send(arr)
  /\ mouse_arr' = <<>> /\ requests' = requests + 1
mouseButton(p) ==
  /\ normal
  /\ flushClient(Append(mouse_arr, Pointer(p)))
  /\ Quiet /\ UNCHANGED normal

\* checkEvents: the moves, or a request for updates.
checkEvents ==
  /\ normal
  /\ IF mouse_arr # <<>> THEN flushClient(mouse_arr)
     ELSE (\E u \in Updates : Send(u)) /\ UNCHANGED <<mouse_arr, requests>>
  /\ Quiet /\ UNCHANGED normal

\* 50 ms after flushClient.
Request ==
  /\ requests > 0 /\ requests' = requests - 1
  /\ \E u \in Updates : Send(u)
  /\ Quiet /\ UNCHANGED <<normal, mouse_arr>>

\* sendTimer.
Timer ==
  /\ sQ # <<>> /\ flush(sQ)
  /\ Quiet /\ UNCHANGED <<normal, mouse_arr, requests, spoken>>

-----------------------------------------------------------------------------
(* The proxy and the server.  Base64 as RFC 4648 says: the digits of one   *)
(* number, written with w bits each, are written with u bits each.         *)

Bit(s, w, i) ==
  IF i \div w < Len(s) THEN (s[i \div w + 1] \div 2^(w - 1 - (i % w))) % 2 ELSE 0
Digit(s, w, u, k) ==
  LET Sum[j \in 0 .. u] == IF j = 0 THEN 0 ELSE 2 * Sum[j - 1] + Bit(s, w, (k - 1) * u + j - 1)
  IN Sum[u]
Regroup(s, w, u, n) == [k \in 1 .. n |-> Digit(s, w, u, k)]

Base64(bytes) ==
  LET n == (8 * Len(bytes) + 5) \div 6
  IN Regroup(bytes, 8, 6, n) \o [k \in 1 .. (4 - (n % 4)) % 4 |-> Pad]
Bytes(chars) ==
  LET digits == SelectSeq(chars, LAMBDA c : c # Pad)
  IN Regroup(digits, 6, 8, (6 * Len(digits)) \div 8)
\* The proxy takes groups of four characters, padded at the end only.
IsBase64(chars) ==
  /\ Len(chars) % 4 = 0
  /\ \A i \in DOMAIN chars : chars[i] <= Pad /\ (chars[i] = Pad => i > Len(chars) - 2)

\* A frame that is no base64 stops the proxy.
Transmit ==
  /\ wire # <<>> /\ IsBase64(Head(wire))
  /\ heard' = heard \o Bytes(Head(wire)) /\ wire' = Tail(wire)
  /\ UNCHANGED <<conf, normal, sQ, mouse_arr, requests, spoken, rQ, served>>

\* recv_message.  Bound: only before the console speaks, the two directions
\* share nothing.
Receive(chunk) ==
  /\ ~normal /\ Len(served) < 4
  /\ served' = served \o chunk /\ rQ' = rQ \o decode(Base64(chunk))
  /\ UNCHANGED <<conf, normal, sQ, wire, heard, mouse_arr, requests, spoken>>

\* The server reads messages from the byte i on.
U16(b, i) == 256 * b[i] + b[i + 1]
S32(b, i) == (IF b[i] > 127 THEN b[i] - 256 ELSE b[i]) * 16777216 + 65536 * b[i + 1] + U16(b, i + 2)
Size(b, i) ==
  CASE b[i] = 0 -> 20 [] b[i] = 2 -> 4 + 4 * U16(b, i + 2) [] b[i] = 3 -> 10
    [] b[i] = 4 -> 8 [] b[i] = 5 -> 6 [] b[i] = 6 -> 8 + S32(b, i + 4) [] OTHER -> 1
Read(b, i) ==
  CASE b[i] = 0 -> [type |-> 0, bpp |-> b[i + 4], depth |-> b[i + 5], true_color |-> b[i + 7] = 1]
    [] b[i] = 2 -> [type |-> 2, list |-> [k \in 1 .. U16(b, i + 2) |-> S32(b, i + 4 * k)]]
    [] b[i] = 3 -> [type |-> 3, incremental |-> b[i + 1], x |-> U16(b, i + 2), y |-> U16(b, i + 4),
                    w |-> U16(b, i + 6), h |-> U16(b, i + 8)]
    [] b[i] = 4 -> Key(S32(b, i + 4), b[i + 1])
    [] b[i] = 5 -> Pointer([mask |-> b[i + 1], x |-> U16(b, i + 2), y |-> U16(b, i + 4)])
    [] b[i] = 6 -> CutText(SubSeq(b, i + 8, i + 7 + S32(b, i + 4)))
    [] OTHER -> [type |-> b[i]]
RECURSIVE Understood(_, _)
Understood(b, i) ==
  IF i > Len(b) \/ i + Size(b, i) > Len(b) + 1 THEN <<>>
  ELSE <<Read(b, i)>> \o Understood(b, i + Size(b, i))

-----------------------------------------------------------------------------

Init ==
  /\ conf \in [true_color : BOOLEAN, local_cursor : BOOLEAN]
  /\ normal = FALSE /\ sQ = <<>> /\ wire = <<>> /\ heard = <<>> /\ mouse_arr = <<>>
  /\ requests = 0 /\ spoken = <<>> /\ rQ = <<>> /\ served = <<>>

Next ==
  \/ \E k \in KeySyms, down \in {0, 1} : keyPress(k, down)
  \/ \E text \in Texts : clipSend(text)
  \/ \E p \in Points : mouseMove(p) \/ mouseButton(p)
  \/ \E chunk \in Chunks : Receive(chunk)
  \/ clipClear \/ ServerInitialisation \/ sendCtrlAltDel \/ checkEvents \/ Request \/ Timer \/ Transmit

Spec == Init /\ [][Next]_vars

-----------------------------------------------------------------------------
(* Properties.                                                             *)

\* A text with a character that is no byte makes a frame that is no base64.
Wide == \E i \in DOMAIN spoken : spoken[i].type = 6
                                 /\ \E k \in DOMAIN spoken[i].text : spoken[i].text[k] > 255

\* However the messages share frames and however long the socket was full: what
\* the server has heard, with what is on the wire and what waits, reads as the
\* messages the console meant, in their order, none cut, lost or doubled; and
\* what the server sends arrives as the same bytes.
SameWords ==
  /\ ~Wide => Understood(heard \o Concat([i \in DOMAIN wire |-> Bytes(wire[i])]) \o sQ, 1) = spoken
  /\ rQ = served

=============================================================================

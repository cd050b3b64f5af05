----------------------------- MODULE RfbStream -----------------------------
(***************************************************************************)
(* A session in the state 'normal': the messages of the server arrive in   *)
(* pieces of any size, rfb.js decodes them out of the receive queue of     *)
(* websock.js, returning whenever a piece is missing, and display.js draws *)
(* the rectangles, some at once and some through a queue that waits for    *)
(* images to load.  An action is one callback of the browser.              *)
(*                                                                         *)
(* What is sent is laid out in RfbLayout.  A read that does not get the    *)
(* field it is meant for, or a value that rfb.js fails at, has lost the    *)
(* stream; what happens then is not followed.                              *)
(***************************************************************************)
EXTENDS RfbLayout

CONSTANTS
  Chunks,       \* bound: how many bytes arrive at once, if not all the rest
  RQMax,        \* the length at which websock.js compacts its queue
  MaxSessions   \* bound: sessions after each other

ASSUME RfbStreamAssumption == Chunks \subseteq Nat /\ RQMax \in Nat /\ MaxSessions \in Nat

VARIABLES
  stream,    \* which of Streams the server sends
  client,    \* rfb.js, websock.js and display.js
  sessions

vars == <<stream, client, sessions>>

-----------------------------------------------------------------------------
(* The receive queue of websock.js: the bytes of the stream from number    *)
(* dropped + 1 to number arrived, of which rQi have been read.             *)

rQlen(c) == c.arrived - c.dropped - c.rQi
rQwait(c, n) == rQlen(c) < n
Peek(c, k) == Sent[stream][c.dropped + c.rQi + k]

\* Is the field f with its n bytes there, after the next k bytes?
Next_(c, k, f, n) ==
  \A i \in 1 .. n : Peek(c, k + i).f = f /\ Peek(c, k + i).i = i /\ Peek(c, k + i).n = n

\* rQshift8, rQshift16, rQshift32, rQshiftBytes: they do not look at the end.
rQshift(c, f, n) ==
  IF rQwait(c, n) \/ ~Next_(c, 0, f, n) THEN [c EXCEPT !.lost = TRUE] ELSE [c EXCEPT !.rQi = @ + n]
\* The same for fields that are there or not, and for some of the same length.
ShiftIf(present, c, f, n) == IF present THEN rQshift(c, f, n) ELSE c
ShiftRun(c, f, n, times) ==
  IF rQwait(c, times * n) \/ \E m \in 1 .. times : ~Next_(c, (m - 1) * n, f, n)
  THEN [c EXCEPT !.lost = TRUE] ELSE [c EXCEPT !.rQi = @ + times * n]
rQback(c, n) == [c EXCEPT !.rQi = @ - n]

Done(c) == [c EXCEPT !.ret = TRUE]
MoreData(c) == [c EXCEPT !.ret = FALSE]

-----------------------------------------------------------------------------
(* display.js: what is drawn at once and what goes through renderQ.        *)

DrawNow(c) == [c EXCEPT !.drawn = Append(@, [no |-> c.no, queued |-> FALSE])]

Loaded(a) == a.complete
scan_any(c) ==   \* mutant: whatever is loaded is drawn
  [c EXCEPT !.drawn = @ \o [i \in 1 .. Len(SelectSeq(c.renderQ, Loaded)) |->
                              [no |-> SelectSeq(c.renderQ, Loaded)[i].no, queued |-> TRUE]],
            !.renderQ = SelectSeq(@, LAMBDA a : ~Loaded(a)),
            !.frames = IF SelectSeq(c.renderQ, Loaded) = c.renderQ THEN @ ELSE @ + 1]
\* scan_renderQ: draws up to the first image that is not loaded, and comes
\* back with the next frame when something is left.
scan_renderQ(c) ==
  LET waiting == {i \in DOMAIN c.renderQ : ~Loaded(c.renderQ[i])}
      ready == IF waiting = {} THEN Len(c.renderQ)
               ELSE (CHOOSE i \in waiting : \A j \in waiting : i <= j) - 1
  IN [c EXCEPT !.drawn = @ \o [i \in 1 .. ready |-> [no |-> c.renderQ[i].no, queued |-> TRUE]],
               !.renderQ = SubSeq(@, ready + 1, Len(@)),
               !.frames = IF ready < Len(c.renderQ) THEN @ + 1 ELSE @]

renderQ_push(c, complete) ==
  LET d == [c EXCEPT !.renderQ = Append(@, [no |-> c.no, complete |-> complete])]
  IN IF Len(d.renderQ) = 1 THEN scan_renderQ(d) ELSE d

-----------------------------------------------------------------------------
(* rfb.js: the encodings.                                                  *)

EndOfRect(c) == Done([c EXCEPT !.rects = @ - 1, !.bytes = 0])

Least(a, b) == IF a < b THEN a ELSE b

\* RAW: as many lines as there are.
RawLines(c, n) ==
  [DrawNow(ShiftRun(c, "line", c.bytes, n)) EXCEPT !.lines = @ - n]
RawRest(c) == IF c.lines > 0 THEN Done(c) ELSE EndOfRect(c)
RawDraw(c) ==
  IF rQwait(c, c.bytes) THEN MoreData(c)
  ELSE RawRest(RawLines(c, Least(rQlen(c) \div c.bytes, c.lines)))
RAW(c) ==
  RawDraw([c EXCEPT !.lines = IF @ = 0 THEN c.rect.h ELSE @, !.bytes = c.rect.w * fb_Bpp])

\* COPYRECT returns with FBU.bytes = 0 when its four bytes are not there.
COPYRECT(c) ==
  IF rQwait(c, 4) THEN MoreData([c EXCEPT !.torn = TRUE])
  ELSE EndOfRect(renderQ_push(rQshift(c, "source", 4), TRUE))

\* RRE: the same for its header; after it, as many subrectangles as there are.
RreRects(c, n) ==
  [ShiftRun(c, "subrect", fb_Bpp + 8, n) EXCEPT !.subrects = @ - n]
RreRest(c) ==
  IF c.subrects > 0 THEN Done([c EXCEPT !.bytes = (fb_Bpp + 8) * Least(100, c.subrects)])
  ELSE EndOfRect(c)
RreDraw(c) == RreRest(RreRects(c, Least(rQlen(c) \div (fb_Bpp + 8), c.subrects)))
RRE(c) ==
  IF c.subrects > 0 THEN RreDraw(c)
  ELSE IF rQwait(c, 4 + fb_Bpp) THEN MoreData([c EXCEPT !.torn = TRUE])
  ELSE IF ~Next_(c, 0, "subrects", 4) THEN [c EXCEPT !.lost = TRUE]
  ELSE RreDraw([DrawNow(rQshift(rQshift(c, "subrects", 4), "bg", fb_Bpp))
                  EXCEPT !.subrects = Peek(c, 1).v])

CeilDiv(a, b) == (a + b - 1) \div b
Tiles(r) == CeilDiv(r.w, 16) * CeilDiv(r.h, 16)
TilePixels(r, k) ==
  LET x == 16 * (k % CeilDiv(r.w, 16))
      y == 16 * (k \div CeilDiv(r.w, 16))
  IN Least(r.w - x, 16) * Least(r.h - y, 16)

\* The bytes of a tile that come before its subrectangles, and those of them.
TileHeader(t) ==
  1 + (IF t.bg THEN fb_Bpp ELSE 0) + (IF t.fg THEN fb_Bpp ELSE 0) + (IF t.subs < 0 THEN 0 ELSE 1)
TileSubrects(t) ==
  IF t.subs < 0 THEN 0 ELSE t.subs * (IF t.coloured THEN fb_Bpp + 2 ELSE 2)
ShiftTile(c, t, pixels) ==
  LET sub == rQshift(c, "sub", 1)
      colours == ShiftIf(t.fg, ShiftIf(t.bg, sub, "bg", fb_Bpp), "fg", fb_Bpp)
  IN IF t.raw THEN rQshift(sub, "pixels", pixels * fb_Bpp)
     ELSE ShiftIf(t.subs >= 0, ShiftIf(t.subs >= 0, colours, "nsub", 1), "subrects", TileSubrects(t))
Needs(c, n) == MoreData([c EXCEPT !.bytes = n])

\* HEXTILE peeks at a tile until the whole of it is there, and waits in
\* FBU.bytes for as much of it as it knows about.
TileDone(c) == IF c.tiles > 0 THEN c ELSE EndOfRect(c)
DrawTile(c, t, pixels) ==
  IF ~t.raw /\ rQwait(c, TileHeader(t)) THEN Needs(c, TileHeader(t))
  ELSE IF ~t.raw /\ rQwait(c, TileHeader(t) + TileSubrects(t))
       THEN Needs(c, TileHeader(t) + TileSubrects(t))
  ELSE IF t.raw /\ rQwait(c, 1 + pixels * fb_Bpp) THEN Needs(c, 1 + pixels * fb_Bpp)
  ELSE TileDone([DrawNow(ShiftTile(c, t, pixels)) EXCEPT !.tiles = @ - 1, !.bytes = 0])
NextTile(c) ==
  IF c.lost \/ ~c.ret \/ c.tiles = 0 THEN c
  ELSE IF rQwait(c, 1) THEN Needs(c, 1)
  ELSE IF ~Next_(c, 0, "sub", 1) THEN [c EXCEPT !.lost = TRUE]
  ELSE DrawTile(c, Peek(c, 1).v, TilePixels(c.rect, Tiles(c.rect) - c.tiles))
\* The loop: every turn but the last takes a byte that has arrived.
HEXTILE(c) ==
  LET after[i \in 0 .. c.arrived + 1] ==
        IF i = 0 THEN [c EXCEPT !.tiles = IF @ = 0 THEN Tiles(c.rect) ELSE @]
        ELSE NextTile(after[i - 1])
  IN after[c.arrived + 1]

\* getTightCLength, of the bytes after the first k that have arrived: the
\* length of the length, and the length.
getTightCLength(c, k) ==
  LET b == Peek(c, k + 1)
      seen == IF rQlen(c) - k < b.n THEN rQlen(c) - k ELSE b.n
  IN IF rQwait(c, k + 1) THEN <<1, 0>>
     ELSE IF seen = b.n THEN <<seen, b.v>>
     ELSE <<seen + 1, b.v % (IF seen = 1 THEN 128 ELSE 16384)>>

Image(mode) == mode \in {"jpeg", "png"}

\* The bytes of a rectangle that comes without a length: less than 12 are not
\* compressed.
Row(r, mode, colours) ==
  IF mode = "copy" THEN r.w * fb_depth ELSE (r.w * (IF colours <= 2 THEN 1 ELSE 8) + 7) \div 8
Plain(r, mode, colours) == mode \in {"filter", "copy"} /\ Row(r, mode, colours) * r.h < 12

\* The bytes before the length: the control byte, and the palette of a filter.
TightHead(mode, colours) == IF mode = "filter" THEN 3 + colours * fb_depth ELSE 1
ShiftHead(c, mode, colours) ==
  LET ctl == rQshift(c, "ctl", 1)
  IN IF mode # "filter" THEN ctl
     ELSE rQshift(rQshift(rQshift(ctl, "filter", 1), "ncolours", 1), "palette", colours * fb_depth)
TightData(c, mode, colours, clength) ==
  LET needed == TightHead(mode, colours) + clength[1] + clength[2]
  IN IF rQwait(c, needed) THEN Needs(c, needed)
     ELSE EndOfRect(renderQ_push(
            rQshift(rQshift(ShiftHead(c, mode, colours), "clength", clength[1]), "data", clength[2]),
            ~Image(mode)))
TightPixels(c, mode, colours) ==
  LET head == TightHead(mode, colours)
  IN IF rQwait(c, head) THEN Needs(c, head)
     ELSE TightData(c, mode, colours,
                    IF Plain(c.rect, mode, colours) THEN <<0, Row(c.rect, mode, colours) * c.rect.h>>
                    ELSE getTightCLength(c, head))
TightFixed(mode) ==
  CASE mode = "fill" -> 1 + fb_depth [] mode \in {"jpeg", "png"} -> 4 [] mode = "filter" -> 3
    [] OTHER -> 1
TightMode(c, mode) ==
  IF rQwait(c, TightFixed(mode)) THEN Needs(c, TightFixed(mode))
  ELSE CASE mode = "fill" ->
              EndOfRect(renderQ_push(rQshift(rQshift(c, "ctl", 1), "tpixel", fb_depth), TRUE))
         [] mode = "filter" ->   \* the palette, 1, is the only one that is not thrown at
              IF Peek(c, 2).v = 1 THEN TightPixels(c, mode, Peek(c, 3).v + 1) ELSE [c EXCEPT !.lost = TRUE]
         [] OTHER -> TightPixels(c, mode, 0)
\* TIGHT: everything is decided again when more has arrived.
TIGHT(c) ==
  IF rQwait(c, 1) THEN Needs(c, 1)
  ELSE IF ~Next_(c, 0, "ctl", 1) THEN [c EXCEPT !.lost = TRUE]
  ELSE TightMode(c, Peek(c, 1).v)

CursorPixels(r) == r.w * r.h * fb_Bpp
CursorMask(r) == ((r.w + 7) \div 8) * r.h
Cursor(c) ==
  IF rQwait(c, CursorPixels(c.rect) + CursorMask(c.rect))
  THEN Needs(c, CursorPixels(c.rect) + CursorMask(c.rect))
  ELSE EndOfRect(rQshift(rQshift(c, "cursor", CursorPixels(c.rect)), "mask", CursorMask(c.rect)))

DesktopSize(c) == EndOfRect(c)
last_rect(c) == Done([c EXCEPT !.rects = 0])

Handler(c) ==
  CASE c.lost -> c
    [] ~c.lost /\ c.rect.enc = "RAW" -> RAW(c)
    [] ~c.lost /\ c.rect.enc = "COPYRECT" -> COPYRECT(c)
    [] ~c.lost /\ c.rect.enc = "RRE" -> RRE(c)
    [] ~c.lost /\ c.rect.enc = "HEXTILE" -> HEXTILE(c)
    [] ~c.lost /\ c.rect.enc = "TIGHT" -> TIGHT(c)
    [] ~c.lost /\ c.rect.enc = "Cursor" -> Cursor(c)
    [] ~c.lost /\ c.rect.enc = "DesktopSize" -> DesktopSize(c)
    [] ~c.lost /\ c.rect.enc = "last_rect" -> last_rect(c)
    [] OTHER -> [c EXCEPT !.lost = TRUE]

-----------------------------------------------------------------------------
(* rfb.js: the messages.                                                   *)

Drawn(r) == r.enc \notin {"Cursor", "DesktopSize", "last_rect"}
ReadRect(c, r) ==
  [rQshift(c, "rect", 12) EXCEPT !.rect = r, !.no = IF Drawn(r) THEN @ + 1 ELSE @]
RectHeader(c) ==
  IF ~Next_(c, 0, "rect", 12) THEN [c EXCEPT !.lost = TRUE] ELSE ReadRect(c, Peek(c, 1).v)

\* A turn of the loop of framebufferUpdate.  FBU.bytes = 0 says that the header of a
\* rectangle comes next; otherwise the rectangle goes on.
Turn(c) ==
  IF c.lost \/ ~c.ret \/ c.rects = 0 THEN c
  ELSE IF rQwait(c, c.bytes) \/ (c.bytes = 0 /\ rQwait(c, 12)) THEN MoreData(c)
  ELSE Handler(IF c.bytes = 0 THEN RectHeader(c) ELSE c)
\* A turn that is not the first or the last takes the header of a rectangle.
Rects(c) ==
  LET turns == c.arrived \div 12 + 2
      after[i \in 0 .. turns] == IF i = 0 THEN Done(c) ELSE Turn(after[i - 1])
  IN after[turns]

\* A new update waits for its header and puts its type back.
UpdateHeader(c) ==
  IF c.rects # 0 THEN c
  ELSE [rQshift(rQshift(c, "padding", 1), "rects", 2) EXCEPT !.rects = Peek(c, 2).v, !.bytes = 0]
framebufferUpdate(c) ==
  IF c.rects = 0 /\ rQwait(c, 3) THEN MoreData(rQback(c, 1))
  ELSE IF c.rects = 0 /\ ~Next_(c, 1, "rects", 2) THEN [c EXCEPT !.lost = TRUE]
  ELSE Rects(UpdateHeader(c))

\* SetColourMapEntries does not wait for its header.
Entries(c, count) ==
  IF rQwait(c, count * 6) THEN MoreData(rQback(c, 6)) ELSE Done(rQshift(c, "colour", count * 6))
SetColourMapEntries(c) ==
  IF rQwait(c, 5) THEN [c EXCEPT !.torn = TRUE, !.lost = TRUE]
  ELSE Entries(rQshift(rQshift(rQshift(c, "padding", 1), "first", 2), "count", 2), Peek(c, 4).v)

CutText(c, length) ==
  IF rQwait(c, length) THEN MoreData(rQback(c, 8)) ELSE Done(rQshift(c, "text", length))
ServerCutText(c) ==
  IF rQwait(c, 7) THEN MoreData(rQback(c, 1))
  ELSE CutText(rQshift(rQshift(c, "padding", 3), "length", 4), Peek(c, 4).v)

normal_type(c, type) ==
  CASE type = "update" -> framebufferUpdate(c)
    [] type = "colours" -> SetColourMapEntries(c)
    [] type = "text" -> ServerCutText(c)
    [] type = "bell" -> Done(c)
    [] OTHER -> [c EXCEPT !.lost = TRUE]
\* An update that is not at its end goes on without a type.
msg_type(c) == IF c.rects # 0 THEN "update" ELSE Peek(c, 1).v
normal_msg(c) ==
  IF c.rects = 0 /\ ~Next_(c, 0, "type", 1) THEN [c EXCEPT !.lost = TRUE]
  ELSE normal_type(ShiftIf(c.rects = 0, c, "type", 1), msg_type(c))

handle_once(c) ==   \* mutant: the rest waits for the next arrival
  IF rQlen(c) <= 0 THEN c ELSE normal_msg(c)
\* handle_message: one message, and the rest after a timeout.
handle_rest(c) == [c EXCEPT !.msgTimer = @ \/ (c.ret /\ rQlen(c) > 0)]
handle_message(c) == IF rQlen(c) <= 0 THEN c ELSE handle_rest(normal_msg(c))

Compact(c) ==
  IF c.arrived - c.dropped <= RQMax THEN c ELSE [c EXCEPT !.dropped = @ + c.rQi, !.rQi = 0]

-----------------------------------------------------------------------------
(* Actions.                                                                *)

\* n bytes arrive in one message of the socket: recv_message.
Arrive(n) ==
  /\ ~client.lost
  /\ client' = Compact(handle_message([client EXCEPT !.arrived = @ + n]))
  /\ UNCHANGED <<stream, sessions>>

MsgTimeout ==
  /\ client.msgTimer /\ ~client.lost
  /\ client' = handle_message([client EXCEPT !.msgTimer = FALSE])
  /\ UNCHANGED <<stream, sessions>>

\* An image of the queue is decoded.
ImageLoads ==
  \E i \in DOMAIN client.renderQ :
    /\ ~Loaded(client.renderQ[i])
    /\ client' = [client EXCEPT !.renderQ[i].complete = TRUE]
    /\ UNCHANGED <<stream, sessions>>

\* requestAnimFrame calls scan_renderQ.
Frame ==
  /\ client.frames > 0
  /\ client' = scan_renderQ([client EXCEPT !.frames = @ - 1])
  /\ UNCHANGED <<stream, sessions>>

\* The end of a session clears the display and msgTimer; init_vars of the next
\* one empties the queue and what FBU counts, all but FBU.bytes.
Blank == [arrived |-> 0, dropped |-> 0, rQi |-> 0, rects |-> 0, subrects |-> 0, lines |-> 0, tiles |-> 0,
          bytes |-> 0, rect |-> [enc |-> "none"], ret |-> TRUE, msgTimer |-> FALSE,
          renderQ |-> <<>>, frames |-> 0, no |-> 0, drawn |-> <<>>,
          lost |-> FALSE, torn |-> FALSE]
InitQueue(c) ==   \* mutant: init_vars forgets what FBU counts
  [Blank EXCEPT !.bytes = c.bytes, !.frames = c.frames, !.rect = c.rect,
                !.rects = c.rects, !.lines = c.lines, !.subrects = c.subrects, !.tiles = c.tiles]
InitVars(c) == [Blank EXCEPT !.bytes = c.bytes, !.frames = c.frames, !.rect = c.rect]

Reconnect ==
  /\ sessions < MaxSessions /\ ~client.lost
  /\ sessions' = sessions + 1
  /\ client' = InitVars(client)
  /\ stream' \in DOMAIN Sent

Init ==
  /\ client = Blank
  /\ sessions = 1
  /\ stream \in DOMAIN Sent

\* Bytes that have not arrived.
Rest == Len(Sent[stream]) - client.arrived

Next == (\E n \in (Chunks \cup {Rest}) \cap 1 .. Rest : Arrive(n)) \/ MsgTimeout \/ ImageLoads \/ Frame \/ Reconnect

Spec == Init /\ [][Next]_vars

\* The browser runs its timers and frames and decodes what is in memory.  The
\* second line is WF_vars(MsgTimeout) with its guard written out.
Fairness == /\ []<>~(client.msgTimer /\ ~client.lost) \/ []<><<MsgTimeout>>_vars
            /\ WF_vars(ImageLoads) /\ WF_vars(Frame)
FairSpec == Spec /\ Fairness

-----------------------------------------------------------------------------
(* Properties.                                                             *)

\* However the stream is cut, and whatever an earlier session left behind, no
\* read gets another field than its own - but for the three messages that take
\* something off the queue and then return without it: COPYRECT, RRE and
\* SetColourMapEntries.
StreamKept == client.lost => client.torn

\* rfb.js calls a return of false a wait for more data: the same message goes
\* on when more arrives.  COPYRECT and RRE return false after their header has
\* been taken, and the next call takes what follows for another header.
NeverLost == ~client.lost

\* A rectangle that goes through the queue is drawn after every earlier one of
\* the queue, however the images load; only what is drawn at once overtakes.
InOrder ==
  \A i, j \in DOMAIN client.drawn :
    i < j /\ client.drawn[i].no > client.drawn[j].no => ~client.drawn[i].queued

\* How many rectangles of the stream show something.
IsDrawn(b) == b.f = "rect" /\ b.i = 1 /\ Drawn(b.v)
Total == Len(SelectSeq(Sent[stream], IsDrawn))

\* When everything has arrived, every rectangle is drawn in the end.
Shown ==
  (Rest = 0) ~> \/ client.lost \/ Rest > 0
                \/ {client.drawn[i].no : i \in DOMAIN client.drawn} = 1 .. Total

=============================================================================

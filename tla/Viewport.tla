------------------------------ MODULE Viewport ------------------------------
(***************************************************************************)
(* The part of the screen of the guest that the console shows: display.js  *)
(* keeps a viewport into the frame buffer, moves the pixels it already has *)
(* when the viewport moves, and remembers in cleanRect what need not be    *)
(* asked for again; rfb.js turns that into update requests.                *)
(*                                                                         *)
(* A pixel of the canvas is the position in the frame buffer whose picture *)
(* it shows, or Blank.  The server keeps the region it still owes.         *)
(***************************************************************************)
EXTENDS Integers, Sequences

CONSTANTS
  Sizes,        \* sizes <<w, h>> of the frame buffer
  ClearSize,    \* the size display.clear leaves (640 x 20 in the code)
  Windows,      \* sizes of the browser window below the canvas
  Drags,        \* bound: how far a drag moves at once, in each direction
  MaxPending,   \* bound: requests that wait for their answer
  MaxSizes      \* bound: how often the server starts a frame buffer

ViewportAssumption ==
  /\ Sizes \subseteq Nat \X Nat /\ Windows \subseteq Nat \X Nat /\ ClearSize \in Nat \X Nat
  /\ Drags \subseteq Int

VARIABLES
  v,            \* display.js: the viewport
  cr,           \* display.js: cleanRect
  canvas,       \* the pixels of the canvas
  clip,         \* display.js: conf.viewport, and the setting 'clip' of ui.js
  fb,           \* fb_width and fb_height of display.js and rfb.js
  rfb_state,    \* "normal" or "disconnected"
  pending,      \* requests the server has not answered
  modified,     \* what the server owes to incremental requests
  sizes         \* how many frame buffers there were

vars == <<v, cr, canvas, clip, fb, rfb_state, pending, modified, sizes>>
display == [v |-> v, cr |-> cr, canvas |-> canvas]

Blank == <<-1, -1>>
Box(x, y, w, h) == (x .. x + w - 1) \X (y .. y + h - 1)
View(w) == Box(w.x, w.y, w.w, w.h)
Smaller(a, b) == IF a < b THEN a ELSE b

-----------------------------------------------------------------------------
(* display.js.  A display is a record [v, cr, canvas].                     *)

\* The clean part that a smaller viewport leaves.
Cut(d, width, height) ==
  [d.cr EXCEPT !.x2 = IF width < d.v.w THEN Smaller(@, d.v.x + width - 1) ELSE @,
               !.y2 = IF height < d.v.h THEN Smaller(@, d.v.y + height - 1) ELSE @]

\* "Size change": setting the size of a canvas empties it, what was saved is put back.
SizeChange(d, width, height) ==
  LET saved == Box(0, 0, Smaller(d.v.w, width), Smaller(d.v.h, height))
  IN [v |-> [d.v EXCEPT !.w = width, !.h = height],
      cr |-> Cut(d, width, height),
      canvas |-> [p \in Box(0, 0, width, height) |->
                    IF p \in saved THEN d.canvas[p] ELSE Blank]]

\* How far the viewport can move in one direction.
Clamped(delta, at, length, limit) ==
  LET left == IF at + delta < 0 THEN -at ELSE delta
      last == at + length - 1 + left
  IN IF last >= limit THEN left - (last - limit + 1) ELSE left

\* drawImage of the canvas onto itself, and the white strip that came into view.
Shifted(c, dx, dy, width, height) ==
  [p \in DOMAIN c |->
     LET q == <<p[1] + dx, p[2] + dy>>
     IN IF q \in DOMAIN c THEN c[q]
        ELSE IF (dx < 0 /\ p[1] < -dx) \/ (dx > 0 /\ p[1] >= width - dx)
                \/ (dy < 0 /\ p[2] < -dy) \/ (dy > 0 /\ p[2] >= height - dy)
             THEN Blank ELSE c[p]]

\* Only what was clean and is still in view is clean.
KeptClean(w, clean) ==
  [x1 |-> IF w.x > clean.x1 THEN w.x ELSE clean.x1,
   y1 |-> IF w.y > clean.y1 THEN w.y ELSE clean.y1,
   x2 |-> Smaller(w.x + w.w - 1, clean.x2),
   y2 |-> Smaller(w.y + w.h - 1, clean.y2)]
KeptLeft(w, clean) ==   \* mutant: what leaves on the right or below stays clean
  [KeptClean(w, clean) EXCEPT !.x2 = clean.x2, !.y2 = clean.y2]
UpdatedClean(w, clean) == KeptClean(w, clean)

\* "Position change"
PositionChange(d, dx, dy, size) ==
  LET x == Clamped(dx, d.v.x, d.v.w, size[1])
      y == Clamped(dy, d.v.y, d.v.h, size[2])
      moved == [d.v EXCEPT !.x = @ + x, !.y = @ + y]
  IN IF x = 0 /\ y = 0 THEN d
     ELSE [v |-> moved,
           cr |-> UpdatedClean(moved, d.cr),
           canvas |-> Shifted(Shifted(d.canvas, x, 0, d.v.w, d.v.h), 0, y, d.v.w, d.v.h)]

viewportChange(d, viewport, size, dx, dy, w, h) ==
  LET width == IF viewport THEN Smaller(w, size[1]) ELSE size[1]
      height == IF viewport THEN Smaller(h, size[2]) ELSE size[2]
      sized == IF d.v.w = width /\ d.v.h = height THEN d ELSE SizeChange(d, width, height)
  IN PositionChange(sized, IF viewport THEN dx ELSE -d.v.w,
                           IF viewport THEN dy ELSE -d.v.h, size)

resize(d, viewport, size) == viewportChange(d, viewport, size, 0, 0, d.v.w, d.v.h)

\* clear: a small frame buffer, and an empty canvas.
Empty(d) == [d EXCEPT !.canvas = [p \in DOMAIN @ |-> Blank]]
clear(d, viewport) == Empty(resize(d, viewport, ClearSize))

\* getCleanDirtyReset: what to ask for, and everything is clean from then on.
CleanBox(d) == Box(d.cr.x1, d.cr.y1, d.cr.x2 - d.cr.x1 + 1, d.cr.y2 - d.cr.y1 + 1)
DirtyBoxes(d) ==
  LET c == d.cr
      vx2 == d.v.x + d.v.w - 1
      vy2 == d.v.y + d.v.h - 1
      Side(is, box) == IF is THEN <<box>> ELSE <<>>
  IN IF c.x1 >= c.x2 \/ c.y1 >= c.y2 THEN <<View(d.v)>>
     ELSE Side(d.v.x < c.x1, Box(d.v.x, d.v.y, c.x1 - d.v.x + 1, d.v.h))
          \o Side(vx2 > c.x2, Box(c.x2 + 1, d.v.y, vx2 - c.x2, d.v.h))
          \o Side(d.v.y < c.y1, Box(c.x1, d.v.y, c.x2 - c.x1 + 1, c.y1 - d.v.y))
          \o Side(vy2 > c.y2, Box(c.x1, c.y2 + 1, c.x2 - c.x1 + 1, vy2 - c.y2))
getCleanDirtyReset(d) ==
  [d EXCEPT !.cr = [x1 |-> d.v.x, y1 |-> d.v.y,
                    x2 |-> d.v.x + d.v.w - 1, y2 |-> d.v.y + d.v.h - 1]]

\* A rectangle is drawn where it is seen; the canvas cuts off the rest.
Draw(d, pixels) ==
  [d EXCEPT !.canvas = [p \in DOMAIN @ |->
     LET at == <<p[1] + d.v.x, p[2] + d.v.y>> IN IF at \in pixels THEN at ELSE @[p]]]

-----------------------------------------------------------------------------
(* rfb.js: one incremental request for the clean box, one that is not for  *)
(* every dirty box.                                                        *)

fbUpdateRequests(d) ==
  (IF CleanBox(d) = {} THEN <<>> ELSE <<[incremental |-> TRUE, box |-> CleanBox(d)]>>)
  \o [i \in DOMAIN DirtyBoxes(d) |-> [incremental |-> FALSE, box |-> DirtyBoxes(d)[i]]]

Shows(d) == /\ v' = d.v /\ cr' = d.cr /\ canvas' = d.canvas

\* The pixels of another frame buffer show nothing of this one.
Forget(d) == Empty(d)

\* Asks for what display.js says, after it became d.
Ask(d) ==
  /\ Shows(getCleanDirtyReset(d))
  /\ pending' = pending \o fbUpdateRequests(d)

-----------------------------------------------------------------------------
(* Actions.                                                                *)

\* checkEvents, the end of a drag, a key: a request for the whole viewport.
Request ==
  /\ rfb_state = "normal" /\ Len(pending) < MaxPending
  /\ Ask(display)
  /\ UNCHANGED <<clip, fb, rfb_state, modified, sizes>>

\* mouseMove while the viewport is dragged.
Drag(dx, dy) ==
  /\ rfb_state = "normal" /\ clip
  /\ Shows(viewportChange(display, TRUE, fb, dx, dy, v.w, v.h))
  /\ UNCHANGED <<clip, fb, rfb_state, pending, modified, sizes>>

\* setViewClip: the setting changes, or the window does.
Clipped(d, on, size, window) ==
  LET unclipped == IF clip /\ ~on THEN viewportChange(d, FALSE, size, 0, 0, 0, 0) ELSE d
  IN IF on THEN viewportChange(unclipped, TRUE, size, 0, 0, window[1], window[2])
     ELSE unclipped

SetViewClip(on, window) ==
  /\ clip' = on
  /\ Shows(Clipped(display, on, fb, window))
  /\ UNCHANGED <<fb, rfb_state, pending, modified, sizes>>

\* set_desktopsize: a new size in the middle of the session, and a request.
DesktopSize(size) ==
  /\ rfb_state = "normal" /\ sizes < MaxSizes /\ Len(pending) < MaxPending
  /\ sizes' = sizes + 1
  /\ fb' = size
  /\ modified' = Box(0, 0, size[1], size[2])
  /\ Ask(resize(Forget(display), clip, size))
  /\ UNCHANGED <<clip, rfb_state>>

\* ServerInitialisation: the size, the first request, and setViewClip when ui.js
\* hears of the state 'normal'.
Connected(size, window) ==
  /\ rfb_state = "disconnected" /\ sizes < MaxSizes
  /\ sizes' = sizes + 1
  /\ rfb_state' = "normal" /\ fb' = size
  /\ modified' = Box(0, 0, size[1], size[2])
  /\ LET d == resize(Forget(display), clip, size)
     IN /\ pending' = fbUpdateRequests(d)
        /\ Shows(Clipped(getCleanDirtyReset(d), clip, size, window))
  /\ UNCHANGED clip

\* The session ends: display.clear.
Disconnected ==
  /\ rfb_state = "normal"
  /\ rfb_state' = "disconnected"
  /\ fb' = ClearSize
  /\ Shows(clear(display, clip))
  /\ pending' = <<>> /\ modified' = {}
  /\ UNCHANGED <<clip, sizes>>

\* The server answers a request (external): to an incremental one with what it
\* owes of the box, to another with the whole box.
Answered(request) ==
  request.box \cap (IF request.incremental THEN modified ELSE Box(0, 0, fb[1], fb[2]))
Answer ==
  /\ pending # <<>>
  /\ Shows(Draw(display, Answered(Head(pending))))
  /\ modified' = modified \ Answered(Head(pending))
  /\ pending' = Tail(pending)
  /\ UNCHANGED <<clip, fb, rfb_state, sizes>>

Nothing == [v |-> [x |-> 0, y |-> 0, w |-> 0, h |-> 0],
            cr |-> [x1 |-> 0, y1 |-> 0, x2 |-> -1, y2 |-> -1],
            canvas |-> [p \in {} |-> Blank]]

\* The constructor clears; ui.js then reads the setting.
Init ==
  /\ clip \in BOOLEAN
  /\ fb = ClearSize /\ rfb_state = "disconnected"
  /\ pending = <<>> /\ modified = {} /\ sizes = 0
  /\ \E window \in Windows :
       LET d == clear(Nothing, FALSE)
           e == IF clip THEN viewportChange(d, TRUE, fb, 0, 0, window[1], window[2]) ELSE d
       IN v = e.v /\ cr = e.cr /\ canvas = e.canvas

Next ==
  \/ Request \/ Answer \/ Disconnected
  \/ \E dx \in Drags, dy \in Drags : Drag(dx, dy)
  \/ \E on \in BOOLEAN, window \in Windows : SetViewClip(on, window)
  \/ \E size \in Sizes : DesktopSize(size)
  \/ \E size \in Sizes, window \in Windows : Connected(size, window)

Spec == Init /\ [][Next]_vars

-----------------------------------------------------------------------------
(* Properties.                                                             *)

\* What comes without another move: the dirty boxes of the next request, what
\* the server owes of its clean box, and the requests on their way.
Coming ==
  LET asked == pending \o fbUpdateRequests(display)
  IN UNION {Answered(asked[i]) : i \in DOMAIN asked}

\* However the viewport is dragged, cut, grown and shrunk, between requests and
\* their answers, over frame buffers of several sizes: in a session a pixel of
\* the canvas shows its own place in the frame buffer, or the next request or
\* one before it brings it, and the viewport stays in the frame buffer.
EveryPixelComes ==
  rfb_state = "normal" =>
    /\ View(v) \subseteq Box(0, 0, fb[1], fb[2])
    /\ DOMAIN canvas = Box(0, 0, v.w, v.h)
    /\ \A p \in DOMAIN canvas :
         LET at == <<p[1] + v.x, p[2] + v.y>> IN canvas[p] = at \/ at \in Coming

-----------------------------------------------------------------------------
(* What EveryPixelComes rests on.                                          *)

InView(w, i, j) == w.x <= i /\ i < w.x + w.w /\ w.y <= j /\ j < w.y + w.h
InClean(c, i, j) == c.x1 <= i /\ i <= c.x2 /\ c.y1 <= j /\ j <= c.y2
Degenerate(c) == c.x1 >= c.x2 \/ c.y1 >= c.y2
ShownAt(d, i, j) == d.canvas[<<i - d.v.x, j - d.v.y>>] = <<i, j>>

\* The canvas is as large as the viewport, and what is clean is in it.
Displayed(d) ==
  /\ d = [v |-> d.v, cr |-> d.cr, canvas |-> d.canvas]
  /\ d.v \in [x : Nat, y : Nat, w : Nat, h : Nat]
  /\ d.cr \in [x1 : Int, y1 : Int, x2 : Int, y2 : Int]
  /\ DOMAIN d.canvas = Box(0, 0, d.v.w, d.v.h)
  /\ \A i, j \in Int : InClean(d.cr, i, j) => InView(d.v, i, j)
Fits(w, size) == w.x + w.w <= size[1] /\ w.y + w.h <= size[2]

\* What is clean is shown, or known to come; a clean part that is not wider or
\* higher than a pixel is asked for again.
CleanShown(d, known) ==
  \A i, j \in Int : InView(d.v, i, j) /\ InClean(d.cr, i, j) /\ ~Degenerate(d.cr)
                      => ShownAt(d, i, j) \/ <<i, j>> \in known

\* What the server owes, and what the requests q bring of it.
Owed(request, m, f) ==
  request.box \cap (IF request.incremental THEN m ELSE Box(0, 0, f[1], f[2]))
Brought(q, m, f, at) == \E n \in DOMAIN q : at \in Owed(q[n], m, f)
OnTheWay == modified \cup {at \in Int \X Int : Brought(pending, modified, fb, at)}

Requests == [incremental : BOOLEAN, box : SUBSET (Int \X Int)]
ViewInv ==
  /\ Displayed(display) /\ Fits(v, fb)
  /\ fb \in Nat \X Nat /\ clip \in BOOLEAN
  /\ modified \in SUBSET (Int \X Int)
  /\ pending \in Seq(Requests)
  /\ rfb_state = "normal" => CleanShown(display, OnTheWay)

=============================================================================

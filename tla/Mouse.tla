------------------------------- MODULE Mouse -------------------------------
(***************************************************************************)
(* The buttons of the mouse on their way to the guest: input.js turns      *)
(* events into buttons, rfb.js keeps the mask of the buttons that are      *)
(* down, collects pointer events and sends them, and drags the viewport    *)
(* instead while viewportDrag is on.  A mask is a set of buttons.          *)
(***************************************************************************)
EXTENDS Sequences, Naturals

CONSTANTS
  Buttons,      \* the buttons of the mouse
  Wheel,        \* one of the two that stand for the wheel
  ArrMax        \* bound: length of mouse_arr

MouseAssumption == Wheel \notin Buttons

VARIABLES
  mouse_buttonMask, mouse_arr, viewportDrag, viewportDragging,  \* rfb.js
  focused,      \* input.js: conf.focused
  grabbed,      \* the handlers are installed: the state is normal
  view_only,    \* rfb.js: conf.view_only
  held,         \* buttons that are down on the desk
  serverMask,   \* the last mask the guest has got
  disturbed     \* history: a press or release was not seen in this session, or
                \* the drag mode changed while a button was down

conf == <<viewportDrag, focused, grabbed, view_only>>
vars == <<mouse_buttonMask, mouse_arr, viewportDragging, conf, held, serverMask, disturbed>>

-----------------------------------------------------------------------------
(* rfb.js.  A pointer is [mask, arr, dragging, server].                    *)

pointer == [mask |-> mouse_buttonMask, arr |-> mouse_arr,
            dragging |-> viewportDragging, server |-> serverMask]
Becomes(p) == /\ mouse_buttonMask' = p.mask /\ mouse_arr' = p.arr
              /\ viewportDragging' = p.dragging /\ serverMask' = p.server

\* flushClient: the guest gets all of mouse_arr, and knows the last of it.
flushClient(p) ==
  IF p.arr = <<>> THEN p ELSE [p EXCEPT !.server = p.arr[Len(p.arr)], !.arr = <<>>]
pointerEvent(p) == [p EXCEPT !.arr = Append(@, p.mask)]

\* |= for a press, ^= for a release.
Masked(mask, down, button) ==
  IF down THEN mask \cup {button} ELSE (mask \ {button}) \cup ({button} \ mask)

Dragged(p, down) ==
  IF viewportDrag THEN [p EXCEPT !.dragging = down /\ ~@] ELSE p
mouseButton(p, down, button) ==
  LET d == Dragged([p EXCEPT !.mask = Masked(@, down, button)], down)
  IN IF (viewportDrag /\ d.dragging) \/ view_only THEN d ELSE flushClient(pointerEvent(d))

\* mouseMove: moves the viewport while dragging.
mouseMove(p) == IF p.dragging \/ view_only THEN p ELSE pointerEvent(p)

-----------------------------------------------------------------------------
(* Actions.                                                                *)

Seen == grabbed /\ focused

\* onMouseDown and onMouseUp; inside: the pointer is over the canvas.
Button(button, inside) ==
  /\ held' = IF button \in held THEN held \ {button} ELSE held \cup {button}
  /\ IF Seen /\ inside
     THEN Becomes(mouseButton(pointer, button \notin held, button)) /\ UNCHANGED disturbed
     ELSE Becomes(pointer) /\ disturbed' = TRUE
  /\ UNCHANGED conf

\* onMouseWheel: a press and a release.
onMouseWheel ==
  /\ Seen
  /\ Becomes(mouseButton(mouseButton(pointer, TRUE, Wheel), FALSE, Wheel))
  /\ UNCHANGED <<conf, held, disturbed>>

onMouseMove ==
  /\ Seen /\ Len(mouse_arr) < ArrMax
  /\ Becomes(mouseMove(pointer))
  /\ UNCHANGED <<conf, held, disturbed>>

\* checkEvents sends what the moves have collected, unless the viewport is dragged.
checkEvents ==
  /\ grabbed /\ ~viewportDragging
  /\ Becomes(flushClient(pointer))
  /\ UNCHANGED <<conf, held, disturbed>>

\* setViewDrag of ui.js.  It leaves viewportDragging as it is.
setViewDrag(drag) ==
  /\ viewportDrag' = drag
  /\ disturbed' = (disturbed \/ held # {})
  /\ UNCHANGED <<mouse_buttonMask, mouse_arr, viewportDragging, focused, grabbed, view_only,
                 held, serverMask>>

\* displayBlur and displayFocus of ui.js.
SetFocused(on) ==
  /\ focused' = on
  /\ UNCHANGED <<mouse_buttonMask, mouse_arr, viewportDragging, viewportDrag, grabbed,
                 view_only, held, serverMask, disturbed>>

\* A session ends, whatever button is down: the handlers are removed, and ui.js
\* switches the drag mode off.
Ungrab ==
  /\ grabbed
  /\ grabbed' = FALSE /\ viewportDrag' = FALSE
  /\ UNCHANGED <<mouse_buttonMask, mouse_arr, viewportDragging, focused, view_only, held,
                 serverMask, disturbed>>

\* init_vars, and grab when the handshake is over.  viewportDragging is not
\* among what init_vars resets.
Reset(p) == [p EXCEPT !.mask = {}, !.arr = <<>>, !.server = {}]
KeepMask(p) == [p EXCEPT !.server = {}]   \* mutant: the mask of the last session stays
InitVars(p) == Reset(p)
Grab(only) ==
  /\ ~grabbed
  /\ grabbed' = TRUE /\ view_only' = only
  /\ Becomes(InitVars(pointer))
  /\ disturbed' = (held # {} \/ viewportDragging)
  /\ UNCHANGED <<viewportDrag, focused, held>>

Init ==
  /\ mouse_buttonMask = {} /\ mouse_arr = <<>> /\ viewportDrag = FALSE
  /\ viewportDragging = FALSE /\ focused = TRUE /\ grabbed = FALSE /\ view_only = FALSE
  /\ held = {} /\ serverMask = {} /\ disturbed = FALSE

Next ==
  \/ \E button \in Buttons, inside \in BOOLEAN : Button(button, inside)
  \/ \E on \in BOOLEAN : setViewDrag(on) \/ SetFocused(on) \/ Grab(on)
  \/ onMouseWheel \/ onMouseMove \/ checkEvents \/ Ungrab

Spec == Init /\ [][Next]_vars

-----------------------------------------------------------------------------
(* Properties.                                                             *)

\* The mask the guest has, or will have when mouse_arr is sent.
Told == IF mouse_arr = <<>> THEN serverMask ELSE mouse_arr[Len(mouse_arr)]

\* Except while it drags the viewport, the console tells the guest every change
\* of a button; and when it saw every press and release, what it tells is what
\* is down on the desk, and a drag lasts no longer than its button.
PointerTold ==
  grabbed =>
    /\ ~view_only /\ ~viewportDragging => Told = mouse_buttonMask
    /\ ~disturbed => mouse_buttonMask = held
    /\ ~disturbed /\ viewportDragging => held # {}

-----------------------------------------------------------------------------
(* What PointerTold rests on.                                              *)

Masks == SUBSET (Buttons \cup {Wheel})
Pointers == [mask : Masks, arr : Seq(Masks), dragging : BOOLEAN, server : Masks]

TypeOK ==
  /\ mouse_buttonMask \in Masks /\ mouse_arr \in Seq(Masks) /\ serverMask \in Masks
  /\ viewportDrag \in BOOLEAN /\ viewportDragging \in BOOLEAN /\ focused \in BOOLEAN
  /\ grabbed \in BOOLEAN /\ view_only \in BOOLEAN /\ disturbed \in BOOLEAN
  /\ held \in SUBSET Buttons

DragsInMode == grabbed /\ ~disturbed /\ viewportDragging => viewportDrag

MouseInv == TypeOK /\ DragsInMode /\ PointerTold

=============================================================================

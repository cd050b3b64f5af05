------------------------- MODULE ConsoleProofs -------------------------
(***************************************************************************)
(* What the user of the console has before him keeps what Console promises *)
(* of it, for every value of the constants that ConsoleAssumption allows   *)
(* and without the bounds of a run.  No property is inductive as it        *)
(* stands; each part has an invariant, stated at the end of its module,    *)
(* that implies the property and that each of the part's actions keeps:    *)
(*   ViewInv      what counts as clean is shown or on its way, and is in   *)
(*                the viewport; the canvas is as large as the viewport,    *)
(*                which is within the frame buffer;                        *)
(*   KeysInv      Remembered, and a guest that is only viewed has no key   *)
(*                down, so that what is not sent was not there;            *)
(*   MouseInv     PointerTold, and an undisturbed drag is in drag mode;    *)
(*   PageInv      PanelsAndModes of a page whose settings have values;     *)
(*   ScriptsInv   document and ls have what was asked for in its order,    *)
(*                and for what has not been counted a handler is to come;  *)
(*   SettingsInv  stored, settings, controls and wanted agree, each as far *)
(*                as the page has come;                                    *)
(*   AuthInv      nothing of a challenge is lost or read twice before its  *)
(*                answer, which is that of des.js to all of it.            *)
(* A step of one part changes no variable of another.                      *)
(***************************************************************************)
EXTENDS Console, FiniteNumbers, SequenceTheorems

-----------------------------------------------------------------------------
(* Viewport: every pixel comes.                                            *)

\* Membership of a box, of a viewport.
LEMMA InBox ==
  ASSUME NEW x \in Int, NEW y \in Int, NEW w \in Int, NEW h \in Int, NEW i \in Int, NEW j \in Int
  PROVE  <<i, j>> \in View!Box(x, y, w, h) <=> x <= i /\ i < x + w /\ y <= j /\ j < y + h
<1>1. i \in x .. x + w - 1 <=> x <= i /\ i < x + w OBVIOUS
<1>2. j \in y .. y + h - 1 <=> y <= j /\ j < y + h OBVIOUS
<1> QED BY <1>1, <1>2 DEF View!Box

LEMMA OfBox ==
  ASSUME NEW x \in Int, NEW y \in Int, NEW w \in Int, NEW h \in Int, NEW p \in View!Box(x, y, w, h)
  PROVE  p = <<p[1], p[2]>> /\ p[1] \in Int /\ p[2] \in Int
  BY DEF View!Box

LEMMA ViewIn ==
  ASSUME NEW w \in [x : Nat, y : Nat, w : Nat, h : Nat], NEW i \in Int, NEW j \in Int
  PROVE  <<i, j>> \in View!View(w) <=> View!InView(w, i, j)
<1>1. w.x \in Int /\ w.y \in Int /\ w.w \in Int /\ w.h \in Int OBVIOUS
<1> QED BY <1>1, InBox DEF View!View, View!InView

\* A delta is cut so that the interval stays within its limit.
LEMMA ClampedFits ==
  ASSUME NEW delta \in Int, NEW at \in Nat, NEW length \in Nat, NEW limit \in Nat, length <= limit
  PROVE  /\ View!Clamped(delta, at, length, limit) \in Int
         /\ at + View!Clamped(delta, at, length, limit) \in Nat
         /\ at + View!Clamped(delta, at, length, limit) + length <= limit
<1> DEFINE left == IF at + delta < 0 THEN -at ELSE delta
<1>1. left \in Int /\ at + left >= 0 OBVIOUS
<1>2. View!Clamped(delta, at, length, limit)
        = IF at + length - 1 + left >= limit THEN left - (at + length - 1 + left - limit + 1)
          ELSE left
  BY DEF View!Clamped
<1> HIDE DEF left
<1> QED BY <1>1, <1>2

LEMMA SmallerIs ==
  ASSUME NEW a \in Int, NEW b \in Int
  PROVE  View!Smaller(a, b) \in Int /\ View!Smaller(a, b) <= a /\ View!Smaller(a, b) <= b
         /\ (View!Smaller(a, b) = a \/ View!Smaller(a, b) = b)
  BY DEF View!Smaller

-----------------------------------------------------------------------------

\* A new size of the viewport: what stays clean stays on the canvas.
LEMMA SizeChangeKeeps ==
  ASSUME NEW d, View!Displayed(d), NEW width \in Nat, NEW height \in Nat, NEW known,
         NEW e, e = View!SizeChange(d, width, height)
  PROVE  /\ View!Displayed(e) /\ e.v.x = d.v.x /\ e.v.y = d.v.y
         /\ e.v.w = width /\ e.v.h = height
         /\ View!CleanShown(d, known) => View!CleanShown(e, known)
<1> DEFINE k == View!Box(0, 0, width, height)
           both == View!Box(0, 0, View!Smaller(d.v.w, width), View!Smaller(d.v.h, height))
<1>1. /\ d.v \in [x : Nat, y : Nat, w : Nat, h : Nat]
      /\ d.cr \in [x1 : Int, y1 : Int, x2 : Int, y2 : Int]
      /\ DOMAIN d.canvas = View!Box(0, 0, d.v.w, d.v.h)
      /\ \A i, j \in Int : View!InClean(d.cr, i, j) => View!InView(d.v, i, j)
  BY DEF View!Displayed
<1>2. /\ e.v = [d.v EXCEPT !.w = width, !.h = height] /\ e.cr = View!Cut(d, width, height)
      /\ e.canvas = [p \in k |-> IF p \in both THEN d.canvas[p] ELSE View!Blank]
      /\ e = [v |-> e.v, cr |-> e.cr, canvas |-> e.canvas]
  BY DEF View!SizeChange
<1>3. /\ e.v \in [x : Nat, y : Nat, w : Nat, h : Nat]
      /\ e.v.x = d.v.x /\ e.v.y = d.v.y /\ e.v.w = width /\ e.v.h = height
  BY <1>1, <1>2
<1>4. /\ e.cr \in [x1 : Int, y1 : Int, x2 : Int, y2 : Int]
      /\ e.cr.x1 = d.cr.x1 /\ e.cr.y1 = d.cr.y1 /\ e.cr.x2 <= d.cr.x2 /\ e.cr.y2 <= d.cr.y2
      /\ width < d.v.w => e.cr.x2 <= d.v.x + width - 1
      /\ height < d.v.h => e.cr.y2 <= d.v.y + height - 1
  <2>1. /\ View!Smaller(d.cr.x2, d.v.x + width - 1) \in Int
        /\ View!Smaller(d.cr.x2, d.v.x + width - 1) <= d.cr.x2
        /\ View!Smaller(d.cr.x2, d.v.x + width - 1) <= d.v.x + width - 1
    <3>1. d.cr.x2 \in Int /\ d.v.x + width - 1 \in Int BY <1>1
    <3> QED BY <3>1, SmallerIs
  <2>2. /\ View!Smaller(d.cr.y2, d.v.y + height - 1) \in Int
        /\ View!Smaller(d.cr.y2, d.v.y + height - 1) <= d.cr.y2
        /\ View!Smaller(d.cr.y2, d.v.y + height - 1) <= d.v.y + height - 1
    <3>1. d.cr.y2 \in Int /\ d.v.y + height - 1 \in Int BY <1>1
    <3> QED BY <3>1, SmallerIs
  <2> DEFINE a == View!Smaller(d.cr.x2, d.v.x + width - 1)
             b == View!Smaller(d.cr.y2, d.v.y + height - 1)
  <2>3. e.cr = [d.cr EXCEPT !.x2 = IF width < d.v.w THEN a ELSE @,
                            !.y2 = IF height < d.v.h THEN b ELSE @]
    BY <1>2 DEF View!Cut
  <2>4. /\ a \in Int /\ a <= d.cr.x2 /\ a <= d.v.x + width - 1
        /\ b \in Int /\ b <= d.cr.y2 /\ b <= d.v.y + height - 1
    BY <2>1, <2>2
  <2> HIDE DEF a, b
  <2>5. /\ e.cr.x1 = d.cr.x1 /\ e.cr.y1 = d.cr.y1
        /\ e.cr.x2 = IF width < d.v.w THEN a ELSE d.cr.x2
        /\ e.cr.y2 = IF height < d.v.h THEN b ELSE d.cr.y2
        /\ e.cr \in [x1 : Int, y1 : Int, x2 : Int, y2 : Int]
    BY <1>1, <2>3, <2>4
  <2>6. d.cr.x2 \in Int /\ d.cr.y2 \in Int /\ d.v.w \in Nat /\ d.v.h \in Nat BY <1>1
  <2> QED BY <2>4, <2>5, <2>6
<1>5. ASSUME NEW i \in Int, NEW j \in Int, View!InClean(e.cr, i, j)
      PROVE  View!InClean(d.cr, i, j) /\ View!InView(d.v, i, j) /\ View!InView(e.v, i, j)
  <2>1. View!InClean(d.cr, i, j) BY <1>1, <1>4, <1>5 DEF View!InClean
  <2>2. View!InView(d.v, i, j) BY <1>1, <2>1
  <2>3. i < d.v.x + width /\ j < d.v.y + height
    BY <1>1, <1>4, <1>5, <2>2 DEF View!InClean, View!InView
  <2> QED BY <1>1, <1>3, <2>1, <2>2, <2>3 DEF View!InView
<1>6. View!Displayed(e) BY <1>2, <1>3, <1>4, <1>5 DEF View!Displayed
<1>7. ASSUME View!CleanShown(d, known) PROVE View!CleanShown(e, known)
  <2> SUFFICES ASSUME NEW i \in Int, NEW j \in Int, View!InClean(e.cr, i, j), ~View!Degenerate(e.cr)
               PROVE  View!ShownAt(e, i, j) \/ <<i, j>> \in known
    BY DEF View!CleanShown
  <2>1. View!InClean(d.cr, i, j) /\ View!InView(d.v, i, j) /\ View!InView(e.v, i, j) BY <1>5
  <2>2. ~View!Degenerate(d.cr) BY <1>1, <1>4 DEF View!Degenerate
  <2>3. View!ShownAt(d, i, j) \/ <<i, j>> \in known BY <2>1, <2>2, <1>7 DEF View!CleanShown
  <2> DEFINE a == i - d.v.x
             b == j - d.v.y
             sw == View!Smaller(d.v.w, width)
             sh == View!Smaller(d.v.h, height)
  <2>4. /\ a \in Int /\ b \in Int /\ 0 <= a /\ a < d.v.w /\ a < width
        /\ 0 <= b /\ b < d.v.h /\ b < height
    BY <1>1, <1>3, <2>1 DEF View!InView
  <2>5. sw \in Int /\ sh \in Int /\ (sw = d.v.w \/ sw = width) /\ (sh = d.v.h \/ sh = height)
    <3> DEFINE vw == d.v.w
               vh == d.v.h
    <3>1. vw \in Int /\ vh \in Int /\ width \in Int /\ height \in Int BY <1>1
    <3> HIDE DEF vw, vh
    <3>2. View!Smaller(vw, width) \in Int /\ (View!Smaller(vw, width) = vw \/ View!Smaller(vw, width) = width)
      BY <3>1, SmallerIs
    <3>3. View!Smaller(vh, height) \in Int /\ (View!Smaller(vh, height) = vh \/ View!Smaller(vh, height) = height)
      BY <3>1, SmallerIs
    <3> QED BY <3>2, <3>3 DEF vw, vh
  <2>6. <<a, b>> \in k
    <3> HIDE DEF a, b
    <3>1. 0 <= a /\ a < 0 + width /\ 0 <= b /\ b < 0 + height BY <2>4
    <3>2. 0 \in Int /\ width \in Int /\ height \in Int OBVIOUS
    <3> QED BY <2>4, <3>1, <3>2, InBox
  <2>7. <<a, b>> \in both
    <3> HIDE DEF a, b
    <3>1. 0 <= a /\ a < 0 + sw /\ 0 <= b /\ b < 0 + sh BY <2>4, <2>5
    <3>2. sw \in Int /\ sh \in Int BY <2>5
    <3> HIDE DEF sw, sh
    <3>3. <<a, b>> \in View!Box(0, 0, sw, sh) BY <2>4, <3>1, <3>2, InBox
    <3> QED BY <3>3 DEF sw, sh
  <2>8. e.canvas[<<a, b>>] = d.canvas[<<a, b>>] BY <1>2, <2>6, <2>7
  <2>9. i - e.v.x = a /\ j - e.v.y = b BY <1>3
  <2> HIDE DEF a, b
  <2>10. View!ShownAt(d, i, j) <=> d.canvas[<<a, b>>] = <<i, j>> BY DEF View!ShownAt, a, b
  <2>11. View!ShownAt(e, i, j) <=> e.canvas[<<a, b>>] = <<i, j>> BY <2>9 DEF View!ShownAt
  <2> QED BY <2>3, <2>8, <2>10, <2>11
<1> QED BY <1>3, <1>6, <1>7

\* The pixels move by dx along a line, by dy along a column.
LEMMA ShiftedDomain ==
  ASSUME NEW c, NEW dx, NEW dy, NEW width, NEW height
  PROVE  DOMAIN View!Shifted(c, dx, dy, width, height) = DOMAIN c
  BY DEF View!Shifted

LEMMA ShiftedAlong ==
  ASSUME NEW c, NEW dx \in Int, NEW width, NEW height, NEW a \in Int, NEW b \in Int,
         <<a, b>> \in DOMAIN c, <<a + dx, b>> \in DOMAIN c
  PROVE  View!Shifted(c, dx, 0, width, height)[<<a, b>>] = c[<<a + dx, b>>]
<1>1. b + 0 = b OBVIOUS
<1> QED BY <1>1 DEF View!Shifted

LEMMA ShiftedDown ==
  ASSUME NEW c, NEW dy \in Int, NEW width, NEW height, NEW a \in Int, NEW b \in Int,
         <<a, b>> \in DOMAIN c, <<a, b + dy>> \in DOMAIN c
  PROVE  View!Shifted(c, 0, dy, width, height)[<<a, b>>] = c[<<a, b + dy>>]
<1>1. a + 0 = a OBVIOUS
<1> QED BY <1>1 DEF View!Shifted

\* UpdatedClean is what was clean and is in the viewport, or a degenerate part.
LEMMA KeptCleanIs ==
  ASSUME NEW w \in [x : Nat, y : Nat, w : Nat, h : Nat],
         NEW c \in [x1 : Int, y1 : Int, x2 : Int, y2 : Int]
  PROVE  LET k == View!UpdatedClean(w, c)
         IN /\ k \in [x1 : Int, y1 : Int, x2 : Int, y2 : Int]
            /\ k.x1 >= w.x /\ k.x1 >= c.x1 /\ k.y1 >= w.y /\ k.y1 >= c.y1
            /\ k.x2 <= w.x + w.w - 1 /\ k.x2 <= c.x2 /\ k.y2 <= w.y + w.h - 1 /\ k.y2 <= c.y2
<1>1. /\ View!Smaller(w.x + w.w - 1, c.x2) \in Int
      /\ View!Smaller(w.x + w.w - 1, c.x2) <= w.x + w.w - 1
      /\ View!Smaller(w.x + w.w - 1, c.x2) <= c.x2
  <2>1. c.x2 \in Int /\ w.x + w.w - 1 \in Int OBVIOUS
  <2> QED BY <2>1, SmallerIs
<1>2. /\ View!Smaller(w.y + w.h - 1, c.y2) \in Int
      /\ View!Smaller(w.y + w.h - 1, c.y2) <= w.y + w.h - 1
      /\ View!Smaller(w.y + w.h - 1, c.y2) <= c.y2
  <2>1. c.y2 \in Int /\ w.y + w.h - 1 \in Int OBVIOUS
  <2> QED BY <2>1, SmallerIs
<1> DEFINE a == View!Smaller(w.x + w.w - 1, c.x2)
           b == View!Smaller(w.y + w.h - 1, c.y2)
<1>3. View!UpdatedClean(w, c) = [x1 |-> IF w.x > c.x1 THEN w.x ELSE c.x1,
                                 y1 |-> IF w.y > c.y1 THEN w.y ELSE c.y1, x2 |-> a, y2 |-> b]
  BY DEF View!UpdatedClean, View!KeptClean
<1> HIDE DEF a, b
<1> QED BY <1>1, <1>2, <1>3 DEF a, b

\* A new place: the canvas moves with the viewport, in two steps.
LEMMA PositionChangeKeeps ==
  ASSUME NEW d, View!Displayed(d), NEW dx \in Int, NEW dy \in Int, NEW size \in Nat \X Nat,
         d.v.w <= size[1], d.v.h <= size[2], NEW known,
         NEW e, e = View!PositionChange(d, dx, dy, size)
  PROVE  /\ View!Displayed(e) /\ View!Fits(e.v, size) /\ e.v.w = d.v.w /\ e.v.h = d.v.h
         /\ View!CleanShown(d, known) => View!CleanShown(e, known)
<1> DEFINE x == View!Clamped(dx, d.v.x, d.v.w, size[1])
           y == View!Clamped(dy, d.v.y, d.v.h, size[2])
           moved == [d.v EXCEPT !.x = @ + x, !.y = @ + y]
           half == View!Shifted(d.canvas, x, 0, d.v.w, d.v.h)
<1>1. /\ d.v \in [x : Nat, y : Nat, w : Nat, h : Nat]
      /\ d.v.w \in Nat /\ d.v.h \in Nat
      /\ d.cr \in [x1 : Int, y1 : Int, x2 : Int, y2 : Int]
      /\ DOMAIN d.canvas = View!Box(0, 0, d.v.w, d.v.h)
      /\ \A i, j \in Int : View!InClean(d.cr, i, j) => View!InView(d.v, i, j)
      /\ size[1] \in Nat /\ size[2] \in Nat
  BY DEF View!Displayed
<1>2. /\ x \in Int /\ d.v.x + x \in Nat /\ d.v.x + x + d.v.w <= size[1]
      /\ y \in Int /\ d.v.y + y \in Nat /\ d.v.y + y + d.v.h <= size[2]
  BY <1>1, ClampedFits
<1>3. e = IF x = 0 /\ y = 0 THEN d
          ELSE [v |-> moved, cr |-> View!UpdatedClean(moved, d.cr),
                canvas |-> View!Shifted(half, 0, y, d.v.w, d.v.h)]
  BY DEF View!PositionChange
<1> HIDE DEF x, y
<1>4. CASE x = 0 /\ y = 0
  <2>1. e = d BY <1>3, <1>4
  <2>2. View!Fits(d.v, size) BY <1>1, <1>2, <1>4 DEF View!Fits
  <2> QED BY <2>1, <2>2
<1>5. CASE ~(x = 0 /\ y = 0)
  <2>1. /\ e.v = moved /\ e.cr = View!UpdatedClean(moved, d.cr)
        /\ e.canvas = View!Shifted(half, 0, y, d.v.w, d.v.h)
        /\ e = [v |-> e.v, cr |-> e.cr, canvas |-> e.canvas]
    BY <1>3, <1>5
  <2>2. /\ moved \in [x : Nat, y : Nat, w : Nat, h : Nat]
        /\ moved.x = d.v.x + x /\ moved.y = d.v.y + y /\ moved.w = d.v.w /\ moved.h = d.v.h
    BY <1>1, <1>2
  <2> HIDE DEF moved
  <2>3. /\ e.cr \in [x1 : Int, y1 : Int, x2 : Int, y2 : Int]
        /\ e.cr.x1 >= moved.x /\ e.cr.x1 >= d.cr.x1 /\ e.cr.y1 >= moved.y /\ e.cr.y1 >= d.cr.y1
        /\ e.cr.x2 <= moved.x + moved.w - 1 /\ e.cr.x2 <= d.cr.x2
        /\ e.cr.y2 <= moved.y + moved.h - 1 /\ e.cr.y2 <= d.cr.y2
    BY <1>1, <2>1, <2>2, KeptCleanIs
  <2>4. ASSUME NEW i \in Int, NEW j \in Int, View!InClean(e.cr, i, j)
        PROVE  View!InClean(d.cr, i, j) /\ View!InView(d.v, i, j) /\ View!InView(moved, i, j)
    <3>1. View!InClean(d.cr, i, j) BY <1>1, <2>3, <2>4 DEF View!InClean
    <3>2. View!InView(moved, i, j) BY <2>2, <2>3, <2>4 DEF View!InClean, View!InView
    <3> QED BY <1>1, <3>1, <3>2
  <2>5. DOMAIN half = View!Box(0, 0, d.v.w, d.v.h) BY <1>1, ShiftedDomain
  <2>6. DOMAIN e.canvas = View!Box(0, 0, d.v.w, d.v.h) BY <2>1, <2>5, ShiftedDomain
  <2>7. View!Displayed(e) BY <2>1, <2>2, <2>3, <2>4, <2>6 DEF View!Displayed
  <2>8. View!Fits(e.v, size) BY <1>1, <1>2, <2>1, <2>2 DEF View!Fits
  <2>9. ASSUME View!CleanShown(d, known) PROVE View!CleanShown(e, known)
    <3> SUFFICES ASSUME NEW i \in Int, NEW j \in Int, View!InClean(e.cr, i, j), ~View!Degenerate(e.cr)
                 PROVE  View!ShownAt(e, i, j) \/ <<i, j>> \in known
      BY DEF View!CleanShown
    <3>1. View!InClean(d.cr, i, j) /\ View!InView(d.v, i, j) /\ View!InView(moved, i, j) BY <2>4
    <3>2. ~View!Degenerate(d.cr) BY <1>1, <2>3 DEF View!Degenerate
    <3>3. View!ShownAt(d, i, j) \/ <<i, j>> \in known BY <3>1, <3>2, <2>9 DEF View!CleanShown
    <3> DEFINE a == i - moved.x
               b == j - moved.y
    <3>4. /\ a \in Int /\ b \in Int /\ 0 <= a /\ a < 0 + d.v.w /\ 0 <= b /\ b < 0 + d.v.h
          /\ a + x = i - d.v.x /\ b + y = j - d.v.y /\ a + x \in Int /\ b + y \in Int
          /\ 0 <= a + x /\ a + x < 0 + d.v.w /\ 0 <= b + y /\ b + y < 0 + d.v.h
          /\ a + 0 = a /\ b + y + 0 = b + y
      BY <1>1, <1>2, <2>2, <3>1 DEF View!InView
    <3> HIDE DEF a, b
    <3>12. d.v.w \in Int /\ d.v.h \in Int /\ 0 \in Int BY <1>1
    <3>5. <<a, b>> \in View!Box(0, 0, d.v.w, d.v.h) BY <3>12, <3>4, InBox
    <3>6. <<a, b + y>> \in View!Box(0, 0, d.v.w, d.v.h) BY <3>12, <3>4, InBox
    <3>7. <<a + x, b + y>> \in View!Box(0, 0, d.v.w, d.v.h) BY <3>12, <3>4, InBox
    <3>8. e.canvas[<<a, b>>] = half[<<a, b + y>>]
      <4> HIDE DEF half
      <4>1. b \in Int /\ y \in Int /\ a \in Int BY <3>4, <1>2
      <4> QED BY <2>1, <2>5, <4>1, <3>5, <3>6, ShiftedDown
    <3>9. half[<<a, b + y>>] = d.canvas[<<a + x, b + y>>]
      <4>1. a \in Int /\ b + y \in Int /\ x \in Int BY <3>4, <1>2
      <4>2. <<a, b + y>> \in DOMAIN d.canvas /\ <<a + x, b + y>> \in DOMAIN d.canvas
        BY <1>1, <3>6, <3>7
      <4> DEFINE c == b + y
      <4> HIDE DEF c
      <4>3. View!Shifted(d.canvas, x, 0, d.v.w, d.v.h)[<<a, c>>] = d.canvas[<<a + x, c>>]
        BY <4>1, <4>2, ShiftedAlong DEF c
      <4> QED BY <4>3 DEF c, half
    <3>10. View!ShownAt(d, i, j) <=> d.canvas[<<a + x, b + y>>] = <<i, j>> BY <3>4 DEF View!ShownAt
    <3>11. View!ShownAt(e, i, j) <=> e.canvas[<<a, b>>] = <<i, j>> BY <2>1 DEF View!ShownAt, a, b
    <3> QED BY <3>3, <3>8, <3>9, <3>10, <3>11
  <2> QED BY <2>1, <2>2, <2>7, <2>8, <2>9
<1> QED BY <1>4, <1>5

\* What viewportChange makes of a display.
Changed(d, clips, size, dx, dy, w, h, e) ==
  /\ View!Displayed(d) /\ clips \in BOOLEAN /\ size \in Nat \X Nat
  /\ dx \in Int /\ dy \in Int /\ w \in Nat /\ h \in Nat
  /\ e = View!viewportChange(d, clips, size, dx, dy, w, h)

\* viewportChange is at most a new size and then a new place.
LEMMA viewportChangeKeeps ==
  ASSUME NEW d, NEW clips, NEW size, NEW dx, NEW dy, NEW w, NEW h, NEW known, NEW e,
         Changed(d, clips, size, dx, dy, w, h, e)
  PROVE  /\ View!Displayed(e) /\ View!Fits(e.v, size)
         /\ (View!CleanShown(d, known) => View!CleanShown(e, known))
<1> USE DEF Changed
<1> DEFINE width == IF clips THEN View!Smaller(w, size[1]) ELSE size[1]
           height == IF clips THEN View!Smaller(h, size[2]) ELSE size[2]
           sized == IF d.v.w = width /\ d.v.h = height THEN d ELSE View!SizeChange(d, width, height)
           mx == IF clips THEN dx ELSE -d.v.w
           my == IF clips THEN dy ELSE -d.v.h
<1>1. size[1] \in Nat /\ size[2] \in Nat /\ d.v.w \in Nat /\ d.v.h \in Nat BY DEF View!Displayed
<1>2. width \in Nat /\ height \in Nat /\ width <= size[1] /\ height <= size[2]
  <2>1. View!Smaller(w, size[1]) \in Nat /\ View!Smaller(w, size[1]) <= size[1]
    BY <1>1 DEF View!Smaller
  <2>2. View!Smaller(h, size[2]) \in Nat /\ View!Smaller(h, size[2]) <= size[2]
    BY <1>1 DEF View!Smaller
  <2> QED BY <1>1, <2>1, <2>2
<1>3. mx \in Int /\ my \in Int BY <1>1
<1>4. e = View!PositionChange(sized, mx, my, size) BY DEF View!viewportChange
<1> HIDE DEF width, height, mx, my
<1>5. /\ View!Displayed(sized) /\ sized.v.w = width /\ sized.v.h = height
      /\ View!CleanShown(d, known) => View!CleanShown(sized, known)
  <2>1. CASE d.v.w = width /\ d.v.h = height BY <2>1
  <2>2. CASE ~(d.v.w = width /\ d.v.h = height)
    <3>1. sized = View!SizeChange(d, width, height) BY <2>2
    <3> HIDE DEF sized
    <3> QED BY <1>2, <3>1, SizeChangeKeeps
  <2> QED BY <2>1, <2>2
<1> HIDE DEF sized
<1> QED BY <1>1, <1>2, <1>3, <1>4, <1>5, PositionChangeKeeps

\* resize is a viewportChange without a move.
LEMMA resizeKeeps ==
  ASSUME NEW d, View!Displayed(d), NEW clips \in BOOLEAN, NEW size \in Nat \X Nat,
         NEW e, e = View!resize(d, clips, size)
  PROVE  View!Displayed(e) /\ View!Fits(e.v, size)
<1> DEFINE w == d.v.w
           h == d.v.h
           z == 0
           known == {}
<1>1. w \in Nat /\ h \in Nat /\ z \in Int BY DEF View!Displayed
<1>2. e = View!viewportChange(d, clips, size, z, z, w, h) BY DEF View!resize
<1> HIDE DEF w, h, z, known
<1>3. Changed(d, clips, size, z, z, w, h, e) BY <1>1, <1>2 DEF Changed
<1>4. /\ View!Displayed(e) /\ View!Fits(e.v, size)
      /\ (View!CleanShown(d, known) => View!CleanShown(e, known))
  BY <1>3, viewportChangeKeeps
<1> QED BY <1>4

\* Erasing or forgetting the picture keeps viewport and clean part.
LEMMA EmptyKeeps ==
  ASSUME NEW d, View!Displayed(d), NEW e, e = View!Empty(d) \/ e = View!Forget(d)
  PROVE  View!Displayed(e) /\ e.v = d.v
<1>1. d = [v |-> d.v, cr |-> d.cr, canvas |-> d.canvas] BY DEF View!Displayed
<1>2. e = [d EXCEPT !.canvas = [p \in DOMAIN d.canvas |-> View!Blank]]
  BY <1>1 DEF View!Empty, View!Forget
<1>3. e = [v |-> d.v, cr |-> d.cr, canvas |-> [p \in DOMAIN d.canvas |-> View!Blank]] BY <1>1, <1>2
<1> QED BY <1>3 DEF View!Displayed

\* After getCleanDirtyReset all of the viewport counts as clean.
LEMMA getCleanDirtyResetKeeps ==
  ASSUME NEW d, View!Displayed(d), NEW e, e = View!getCleanDirtyReset(d)
  PROVE  View!Displayed(e) /\ e.v = d.v /\ e.canvas = d.canvas
<1>1. /\ d = [v |-> d.v, cr |-> d.cr, canvas |-> d.canvas]
      /\ d.v \in [x : Nat, y : Nat, w : Nat, h : Nat]
  BY DEF View!Displayed
<1> DEFINE c == [x1 |-> d.v.x, y1 |-> d.v.y, x2 |-> d.v.x + d.v.w - 1, y2 |-> d.v.y + d.v.h - 1]
<1>2. e = [v |-> d.v, cr |-> c, canvas |-> d.canvas] BY <1>1 DEF View!getCleanDirtyReset
<1>3. c \in [x1 : Int, y1 : Int, x2 : Int, y2 : Int] BY <1>1
<1>4. \A i, j \in Int : View!InClean(c, i, j) => View!InView(d.v, i, j)
  BY <1>1 DEF View!InClean, View!InView
<1> HIDE DEF c
<1> QED BY <1>2, <1>3, <1>4 DEF View!Displayed

\* What the server draws is shown; what is left is still known to come.
LEMMA DrawKeeps ==
  ASSUME NEW d, View!Displayed(d), NEW pixels, NEW e, e = View!Draw(d, pixels), NEW known, NEW left,
         View!CleanShown(d, known),
         \A i, j \in Int : <<i, j>> \in known => <<i, j>> \in pixels \/ <<i, j>> \in left
  PROVE  View!Displayed(e) /\ e.v = d.v /\ View!CleanShown(e, left)
<1>1. /\ d = [v |-> d.v, cr |-> d.cr, canvas |-> d.canvas]
      /\ d.v \in [x : Nat, y : Nat, w : Nat, h : Nat]
      /\ DOMAIN d.canvas = View!Box(0, 0, d.v.w, d.v.h)
  BY DEF View!Displayed
<1> DEFINE k == [p \in DOMAIN d.canvas |->
                   IF <<p[1] + d.v.x, p[2] + d.v.y>> \in pixels
                   THEN <<p[1] + d.v.x, p[2] + d.v.y>> ELSE d.canvas[p]]
<1>2. e = [v |-> d.v, cr |-> d.cr, canvas |-> k] BY <1>1 DEF View!Draw
<1>3. DOMAIN k = DOMAIN d.canvas OBVIOUS
<1>4. ASSUME NEW i \in Int, NEW j \in Int, View!InView(d.v, i, j)
      PROVE  k[<<i - d.v.x, j - d.v.y>>]
               = IF <<i, j>> \in pixels THEN <<i, j>> ELSE d.canvas[<<i - d.v.x, j - d.v.y>>]
  <2> DEFINE a == i - d.v.x
             b == j - d.v.y
  <2>1. /\ a \in Int /\ b \in Int /\ a + d.v.x = i /\ b + d.v.y = j
        /\ 0 <= a /\ a < 0 + d.v.w /\ 0 <= b /\ b < 0 + d.v.h
        /\ 0 \in Int /\ d.v.w \in Int /\ d.v.h \in Int
    BY <1>1, <1>4 DEF View!InView
  <2> HIDE DEF a, b
  <2>2. <<a, b>> \in DOMAIN d.canvas BY <1>1, <2>1, InBox
  <2>3. k[<<a, b>>] = IF <<i, j>> \in pixels THEN <<i, j>> ELSE d.canvas[<<a, b>>]
    BY <2>1, <2>2
  <2> QED BY <2>3 DEF a, b
<1> HIDE DEF k
<1>5. View!Displayed(e) BY <1>2, <1>3 DEF View!Displayed
<1>6. View!CleanShown(e, left)
  <2> SUFFICES ASSUME NEW i \in Int, NEW j \in Int, View!InView(d.v, i, j), View!InClean(d.cr, i, j),
                      ~View!Degenerate(d.cr)
               PROVE  View!ShownAt(e, i, j) \/ <<i, j>> \in left
    BY <1>2 DEF View!CleanShown
  <2>1. View!ShownAt(d, i, j) \/ <<i, j>> \in known BY DEF View!CleanShown
  <2>2. View!ShownAt(e, i, j) <=> k[<<i - d.v.x, j - d.v.y>>] = <<i, j>> BY <1>2 DEF View!ShownAt
  <2>3. View!ShownAt(d, i, j) <=> d.canvas[<<i - d.v.x, j - d.v.y>>] = <<i, j>> BY DEF View!ShownAt
  <2>4. <<i, j>> \in known => <<i, j>> \in pixels \/ <<i, j>> \in left OBVIOUS
  <2> QED BY <1>4, <2>1, <2>2, <2>3, <2>4
<1> QED BY <1>2, <1>5, <1>6

-----------------------------------------------------------------------------

\* A sequence of boxes covers a pixel.
In(q, at) == \E n \in DOMAIN q : at \in q[n]

\* What a sequence of boxes covers, its concatenation covers.
LEMMA InJoined ==
  ASSUME NEW S, NEW q \in Seq(S), NEW r \in Seq(S), NEW at
  PROVE  q \o r \in Seq(S) /\ (In(q, at) \/ In(r, at) => In(q \o r, at))
<1> DEFINE t == q \o r
<1>1. /\ t \in Seq(S) /\ Len(t) = Len(q) + Len(r) /\ Len(q) \in Nat /\ Len(r) \in Nat
      /\ \A i \in 1 .. Len(q) : t[i] = q[i]
      /\ \A i \in 1 .. Len(r) : t[Len(q) + i] = r[i]
  OBVIOUS
<1>2. DOMAIN t = 1 .. Len(t) /\ DOMAIN q = 1 .. Len(q) /\ DOMAIN r = 1 .. Len(r) BY <1>1
<1> HIDE DEF t
<1>3. ASSUME In(q, at) PROVE In(t, at)
  <2>1. PICK n \in 1 .. Len(q) : at \in q[n] BY <1>2, <1>3 DEF In
  <2>2. n \in DOMAIN t /\ t[n] = q[n] BY <1>1, <1>2
  <2> QED BY <2>1, <2>2 DEF In
<1>4. ASSUME In(r, at) PROVE In(t, at)
  <2>1. PICK n \in 1 .. Len(r) : at \in r[n] BY <1>2, <1>4 DEF In
  <2>2. Len(q) + n \in DOMAIN t /\ t[Len(q) + n] = r[n] BY <1>1, <1>2
  <2> QED BY <2>1, <2>2 DEF In
<1> QED BY <1>1, <1>3, <1>4 DEF t

LEMMA InSide ==
  ASSUME NEW S, NEW box \in S, NEW is \in BOOLEAN, NEW q, q = IF is THEN <<box>> ELSE <<>>, NEW at
  PROVE  q \in Seq(S) /\ (is /\ at \in box => In(q, at))
<1>1. CASE is
  <2>1. q = <<box>> BY <1>1
  <2>2. q \in Seq(S) /\ 1 \in DOMAIN q /\ q[1] = box BY <2>1
  <2> QED BY <2>2 DEF In
<1>2. CASE ~is
  <2>1. q = <<>> BY <1>2
  <2>2. q \in Seq(S) BY <2>1
  <2> QED BY <2>2, <1>2
<1> QED BY <1>1, <1>2

LEMMA BoxType ==
  ASSUME NEW x \in Int, NEW y \in Int, NEW w \in Int, NEW h \in Int
  PROVE  View!Box(x, y, w, h) \in SUBSET (Int \X Int)
  BY DEF View!Box

LEMMA DirtyType ==
  ASSUME NEW d, View!Displayed(d) PROVE View!DirtyBoxes(d) \in Seq(SUBSET (Int \X Int))
<1> DEFINE S == SUBSET (Int \X Int)
           c == d.cr
           vx2 == d.v.x + d.v.w - 1
           vy2 == d.v.y + d.v.h - 1
           b1 == View!Box(d.v.x, d.v.y, c.x1 - d.v.x + 1, d.v.h)
           b2 == View!Box(c.x2 + 1, d.v.y, vx2 - c.x2, d.v.h)
           b3 == View!Box(c.x1, d.v.y, c.x2 - c.x1 + 1, c.y1 - d.v.y)
           b4 == View!Box(c.x1, c.y2 + 1, c.x2 - c.x1 + 1, vy2 - c.y2)
           b5 == View!View(d.v)
           s1 == IF d.v.x < c.x1 THEN <<b1>> ELSE <<>>
           s2 == IF vx2 > c.x2 THEN <<b2>> ELSE <<>>
           s3 == IF d.v.y < c.y1 THEN <<b3>> ELSE <<>>
           s4 == IF vy2 > c.y2 THEN <<b4>> ELSE <<>>
<1>1. /\ c.x1 \in Int /\ c.y1 \in Int /\ c.x2 \in Int /\ c.y2 \in Int
      /\ d.v.x \in Int /\ d.v.y \in Int /\ d.v.w \in Int /\ d.v.h \in Int
      /\ vx2 \in Int /\ vy2 \in Int
  BY DEF View!Displayed
<1>2. /\ c.x1 - d.v.x + 1 \in Int /\ c.x2 + 1 \in Int /\ vx2 - c.x2 \in Int
      /\ c.x2 - c.x1 + 1 \in Int /\ c.y1 - d.v.y \in Int /\ c.y2 + 1 \in Int
      /\ vy2 - c.y2 \in Int
  BY <1>1
<1>3. View!DirtyBoxes(d) = IF View!Degenerate(c) THEN <<b5>> ELSE s1 \o s2 \o s3 \o s4
  BY DEF View!DirtyBoxes, View!Degenerate
<1> HIDE DEF vx2, vy2
<1>4. b1 \in S /\ b2 \in S /\ b3 \in S /\ b4 \in S
  <2> HIDE DEF c
  <2> QED BY <1>1, <1>2, BoxType
<1>5. b5 \in S BY <1>1, BoxType DEF View!View
<1> HIDE DEF b1, b2, b3, b4, b5, S
<1>6. s1 \in Seq(S) /\ s2 \in Seq(S) /\ s3 \in Seq(S) /\ s4 \in Seq(S) BY <1>4
<1>7. <<b5>> \in Seq(S) BY <1>5
<1> HIDE DEF s1, s2, s3, s4
<1>8. s1 \o s2 \o s3 \o s4 \in Seq(S) BY <1>6
<1> QED BY <1>3, <1>7, <1>8 DEF S

\* The four sides of the clean part cover what is in view and not clean.
LEMMA DirtyCover ==
  ASSUME NEW d, View!Displayed(d), NEW i \in Int, NEW j \in Int, View!InView(d.v, i, j)
  PROVE  In(View!DirtyBoxes(d), <<i, j>>) \/ (View!InClean(d.cr, i, j) /\ ~View!Degenerate(d.cr))
<1> DEFINE S == SUBSET (Int \X Int)
           c == d.cr
           w == d.v
           vx2 == d.v.x + d.v.w - 1
           vy2 == d.v.y + d.v.h - 1
           b1 == View!Box(d.v.x, d.v.y, c.x1 - d.v.x + 1, d.v.h)
           b2 == View!Box(c.x2 + 1, d.v.y, vx2 - c.x2, d.v.h)
           b3 == View!Box(c.x1, d.v.y, c.x2 - c.x1 + 1, c.y1 - d.v.y)
           b4 == View!Box(c.x1, c.y2 + 1, c.x2 - c.x1 + 1, vy2 - c.y2)
           s1 == IF d.v.x < c.x1 THEN <<b1>> ELSE <<>>
           s2 == IF vx2 > c.x2 THEN <<b2>> ELSE <<>>
           s3 == IF d.v.y < c.y1 THEN <<b3>> ELSE <<>>
           s4 == IF vy2 > c.y2 THEN <<b4>> ELSE <<>>
<1>1. /\ d.v \in [x : Nat, y : Nat, w : Nat, h : Nat]
      /\ c \in [x1 : Int, y1 : Int, x2 : Int, y2 : Int]
  BY DEF View!Displayed
<1>2. /\ c.x1 \in Int /\ c.y1 \in Int /\ c.x2 \in Int /\ c.y2 \in Int
      /\ d.v.x \in Int /\ d.v.y \in Int /\ d.v.w \in Int /\ d.v.h \in Int
      /\ vx2 \in Int /\ vy2 \in Int
  BY <1>1
<1>3. View!DirtyBoxes(d) = IF View!Degenerate(c) THEN <<View!View(d.v)>> ELSE s1 \o s2 \o s3 \o s4
  BY DEF View!DirtyBoxes, View!Degenerate
<1>4. CASE View!Degenerate(c)
  <2> DEFINE V == View!View(d.v)
             q == <<V>>
  <2>1. <<i, j>> \in V BY <1>1, ViewIn
  <2>2. V \in S BY <1>2, BoxType DEF View!View
  <2>3. View!DirtyBoxes(d) = q BY <1>3, <1>4
  <2> HIDE DEF V
  <2>4. q \in Seq(S) /\ 1 \in DOMAIN q /\ q[1] = V BY <2>2
  <2> HIDE DEF q
  <2> QED BY <2>1, <2>3, <2>4 DEF In
<1>5. CASE ~View!Degenerate(c)
  <2>1. View!DirtyBoxes(d) = s1 \o s2 \o s3 \o s4 BY <1>3, <1>5
  <2>2. /\ d.v.x <= i /\ i <= vx2 /\ d.v.y <= j /\ j <= vy2 BY <1>2 DEF View!InView
  <2>3. b1 \in S /\ (i < c.x1 => d.v.x < c.x1 /\ <<i, j>> \in b1)
    <3> DEFINE l == c.x1 - d.v.x + 1
    <3>1. l \in Int /\ d.v.x + l = c.x1 + 1 /\ j < d.v.y + d.v.h BY <1>2, <2>2
    <3> HIDE DEF l
    <3>2. View!Box(d.v.x, d.v.y, l, d.v.h) \in S BY <1>2, <3>1, BoxType
    <3>3. i < c.x1 => d.v.x < c.x1 /\ i < d.v.x + l BY <1>2, <2>2, <3>1
    <3>4. i < c.x1 => <<i, j>> \in View!Box(d.v.x, d.v.y, l, d.v.h) BY <1>2, <2>2, <3>1, <3>3, InBox
    <3> QED BY <3>2, <3>3, <3>4 DEF l
  <2>4. b2 \in S /\ (i > c.x2 => vx2 > c.x2 /\ <<i, j>> \in b2)
    <3> DEFINE l == vx2 - c.x2
               s == c.x2 + 1
    <3>1. l \in Int /\ s \in Int /\ s + l = vx2 + 1 /\ j < d.v.y + d.v.h
          /\ (i > c.x2 => s <= i)
      BY <1>2, <2>2
    <3>5. i > c.x2 => vx2 > c.x2 BY <1>2, <2>2
    <3> HIDE DEF l, s
    <3>2. View!Box(s, d.v.y, l, d.v.h) \in S BY <1>2, <3>1, BoxType
    <3>3. i > c.x2 => i < s + l BY <1>2, <2>2, <3>1
    <3>4. i > c.x2 => <<i, j>> \in View!Box(s, d.v.y, l, d.v.h) BY <1>2, <2>2, <3>1, <3>3, InBox
    <3> QED BY <3>2, <3>5, <3>4 DEF l, s
  <2>5. b3 \in S /\ (c.x1 <= i /\ i <= c.x2 /\ j < c.y1 => d.v.y < c.y1 /\ <<i, j>> \in b3)
    <3> DEFINE l == c.y1 - d.v.y
               n == c.x2 - c.x1 + 1
    <3>1. l \in Int /\ n \in Int /\ d.v.y + l = c.y1 /\ c.x1 + n = c.x2 + 1 BY <1>2, <2>2
    <3>5. j < c.y1 => d.v.y < c.y1 BY <1>2, <2>2
    <3> HIDE DEF l, n
    <3>2. View!Box(c.x1, d.v.y, n, l) \in S BY <1>2, <3>1, BoxType
    <3>3. /\ i <= c.x2 => i < c.x1 + n
          /\ j < c.y1 => j < d.v.y + l
      BY <1>2, <2>2, <3>1
    <3>4. c.x1 <= i /\ i <= c.x2 /\ j < c.y1 => <<i, j>> \in View!Box(c.x1, d.v.y, n, l)
      BY <1>2, <2>2, <3>1, <3>3, InBox
    <3> QED BY <3>2, <3>5, <3>4 DEF l, n
  <2>6. b4 \in S /\ (c.x1 <= i /\ i <= c.x2 /\ j > c.y2 => vy2 > c.y2 /\ <<i, j>> \in b4)
    <3> DEFINE l == vy2 - c.y2
               n == c.x2 - c.x1 + 1
               s == c.y2 + 1
    <3>1. /\ l \in Int /\ n \in Int /\ s \in Int /\ s + l = vy2 + 1 /\ c.x1 + n = c.x2 + 1
          /\ (j > c.y2 => s <= j)
      BY <1>2, <2>2
    <3>5. j > c.y2 => vy2 > c.y2 BY <1>2, <2>2
    <3> HIDE DEF l, n, s
    <3>2. View!Box(c.x1, s, n, l) \in S BY <1>2, <3>1, BoxType
    <3>3. /\ i <= c.x2 => i < c.x1 + n
          /\ j > c.y2 => j < s + l
      BY <1>2, <2>2, <3>1
    <3>4. c.x1 <= i /\ i <= c.x2 /\ j > c.y2 => <<i, j>> \in View!Box(c.x1, s, n, l)
      BY <1>2, <2>2, <3>1, <3>3, InBox
    <3> QED BY <3>2, <3>5, <3>4 DEF l, n, s
  <2> HIDE DEF b1, b2, b3, b4, vx2, vy2
  <2>7. s1 \in Seq(S) /\ (i < c.x1 => In(s1, <<i, j>>))
    <3>1. (d.v.x < c.x1) \in BOOLEAN OBVIOUS
    <3> DEFINE is == d.v.x < c.x1
    <3>2. s1 = IF is THEN <<b1>> ELSE <<>> OBVIOUS
    <3>3. is \in BOOLEAN /\ (i < c.x1 => is) BY <3>1, <2>3
    <3> HIDE DEF is, s1
    <3> QED BY <2>3, <3>2, <3>3, InSide
  <2>8. s2 \in Seq(S) /\ (i > c.x2 => In(s2, <<i, j>>))
    <3>1. (vx2 > c.x2) \in BOOLEAN OBVIOUS
    <3> DEFINE is == vx2 > c.x2
    <3>2. s2 = IF is THEN <<b2>> ELSE <<>> OBVIOUS
    <3>3. is \in BOOLEAN /\ (i > c.x2 => is) BY <3>1, <2>4
    <3> HIDE DEF is, s2
    <3> QED BY <2>4, <3>2, <3>3, InSide
  <2>9. s3 \in Seq(S) /\ (c.x1 <= i /\ i <= c.x2 /\ j < c.y1 => In(s3, <<i, j>>))
    <3>1. (d.v.y < c.y1) \in BOOLEAN OBVIOUS
    <3> DEFINE is == d.v.y < c.y1
    <3>2. s3 = IF is THEN <<b3>> ELSE <<>> OBVIOUS
    <3>3. is \in BOOLEAN /\ (c.x1 <= i /\ i <= c.x2 /\ j < c.y1 => is) BY <3>1, <2>5
    <3> HIDE DEF is, s3
    <3> QED BY <2>5, <3>2, <3>3, InSide
  <2>10. s4 \in Seq(S) /\ (c.x1 <= i /\ i <= c.x2 /\ j > c.y2 => In(s4, <<i, j>>))
    <3>1. (vy2 > c.y2) \in BOOLEAN OBVIOUS
    <3> DEFINE is == vy2 > c.y2
    <3>2. s4 = IF is THEN <<b4>> ELSE <<>> OBVIOUS
    <3>3. is \in BOOLEAN /\ (c.x1 <= i /\ i <= c.x2 /\ j > c.y2 => is) BY <3>1, <2>6
    <3> HIDE DEF is, s4
    <3> QED BY <2>6, <3>2, <3>3, InSide
  <2> HIDE DEF s1, s2, s3, s4, S
  <2> DEFINE s12 == s1 \o s2
             s123 == s12 \o s3
             s1234 == s123 \o s4
  <2>11. s12 \in Seq(S) /\ (In(s1, <<i, j>>) \/ In(s2, <<i, j>>) => In(s12, <<i, j>>))
    BY <2>7, <2>8, InJoined
  <2>12. View!DirtyBoxes(d) = s1234 BY <2>1
  <2> HIDE DEF s12
  <2>13. s123 \in Seq(S) /\ (In(s12, <<i, j>>) \/ In(s3, <<i, j>>) => In(s123, <<i, j>>))
    BY <2>9, <2>11, InJoined
  <2> HIDE DEF s123
  <2>14. s1234 \in Seq(S) /\ (In(s123, <<i, j>>) \/ In(s4, <<i, j>>) => In(s1234, <<i, j>>))
    BY <2>10, <2>13, InJoined
  <2> HIDE DEF s1234
  <2>15. i < c.x1 \/ i > c.x2 \/ (c.x1 <= i /\ i <= c.x2 /\ j < c.y1)
         \/ (c.x1 <= i /\ i <= c.x2 /\ j > c.y2) \/ View!InClean(c, i, j)
    BY <1>2 DEF View!InClean
  <2> QED BY <1>5, <2>7, <2>8, <2>9, <2>10, <2>11, <2>12, <2>13, <2>14, <2>15 DEF S
<1> QED BY <1>4, <1>5

-----------------------------------------------------------------------------

\* What requests bring, they bring when others are added.
LEMMA BroughtJoined ==
  ASSUME NEW q \in Seq(View!Requests), NEW r \in Seq(View!Requests), NEW m, NEW f, NEW at
  PROVE  /\ q \o r \in Seq(View!Requests)
         /\ View!Brought(q \o r, m, f, at) <=> View!Brought(q, m, f, at) \/ View!Brought(r, m, f, at)
<1> DEFINE t == q \o r
<1>1. /\ t \in Seq(View!Requests) /\ Len(t) = Len(q) + Len(r) /\ Len(q) \in Nat /\ Len(r) \in Nat
      /\ \A i \in 1 .. Len(q) : t[i] = q[i]
      /\ \A i \in 1 .. Len(r) : t[Len(q) + i] = r[i]
  OBVIOUS
<1>2. DOMAIN t = 1 .. Len(t) /\ DOMAIN q = 1 .. Len(q) /\ DOMAIN r = 1 .. Len(r) BY <1>1
<1> HIDE DEF t
<1>3. ASSUME View!Brought(q, m, f, at) PROVE View!Brought(t, m, f, at)
  <2>1. PICK n \in 1 .. Len(q) : at \in View!Owed(q[n], m, f) BY <1>2, <1>3 DEF View!Brought
  <2>2. n \in DOMAIN t /\ t[n] = q[n] BY <1>1, <1>2
  <2> QED BY <2>1, <2>2 DEF View!Brought
<1>4. ASSUME View!Brought(r, m, f, at) PROVE View!Brought(t, m, f, at)
  <2>1. PICK n \in 1 .. Len(r) : at \in View!Owed(r[n], m, f) BY <1>2, <1>4 DEF View!Brought
  <2>2. Len(q) + n \in DOMAIN t /\ t[Len(q) + n] = r[n] BY <1>1, <1>2
  <2> QED BY <2>1, <2>2 DEF View!Brought
<1>5. ASSUME View!Brought(t, m, f, at) PROVE View!Brought(q, m, f, at) \/ View!Brought(r, m, f, at)
  <2>1. PICK n \in 1 .. Len(t) : at \in View!Owed(t[n], m, f) BY <1>2, <1>5 DEF View!Brought
  <2>2. CASE n \in 1 .. Len(q)
    <3>1. t[n] = q[n] BY <1>1, <2>2
    <3> QED BY <1>2, <2>1, <2>2, <3>1 DEF View!Brought
  <2>3. CASE n \notin 1 .. Len(q)
    <3> DEFINE k == n - Len(q)
    <3>1. k \in 1 .. Len(r) /\ Len(q) + k = n BY <1>1, <2>3
    <3> HIDE DEF k
    <3>2. t[n] = r[k] BY <1>1, <3>1
    <3> QED BY <1>2, <2>1, <3>1, <3>2 DEF View!Brought
  <2> QED BY <2>2, <2>3
<1> QED BY <1>1, <1>3, <1>4, <1>5 DEF t

\* The requests: what is dirty is asked for whole, what is clean if it changes.
LEMMA RequestsType ==
  ASSUME NEW d, View!Displayed(d) PROVE View!fbUpdateRequests(d) \in Seq(View!Requests)
<1> DEFINE S == SUBSET (Int \X Int)
           boxes == View!DirtyBoxes(d)
           clean == View!CleanBox(d)
           r == [incremental |-> TRUE, box |-> clean]
           first == IF clean = {} THEN <<>> ELSE <<r>>
           rest == [n \in DOMAIN boxes |-> [incremental |-> FALSE, box |-> boxes[n]]]
<1>1. boxes \in Seq(S) BY DirtyType
<1>2. clean \in S
  <2>1. /\ d.cr.x1 \in Int /\ d.cr.y1 \in Int /\ d.cr.x2 \in Int /\ d.cr.y2 \in Int
    BY DEF View!Displayed
  <2>2. /\ d.cr.x2 - d.cr.x1 + 1 \in Int /\ d.cr.y2 - d.cr.y1 + 1 \in Int BY <2>1
  <2> QED BY <2>1, <2>2, BoxType DEF View!CleanBox
<1>3. View!fbUpdateRequests(d) = first \o rest BY DEF View!fbUpdateRequests
<1> HIDE DEF boxes, clean, S
<1>4. r \in View!Requests BY <1>2 DEF View!Requests, S
<1>5. first \in Seq(View!Requests)
  <2> HIDE DEF r
  <2> QED BY <1>4
<1>6. rest \in Seq(View!Requests)
  <2>1. DOMAIN boxes = 1 .. Len(boxes) /\ Len(boxes) \in Nat BY <1>1
  <2>2. \A n \in 1 .. Len(boxes) : boxes[n] \in S BY <1>1
  <2>3. \A n \in 1 .. Len(boxes) : [incremental |-> FALSE, box |-> boxes[n]] \in View!Requests
    BY <2>2 DEF View!Requests, S
  <2> QED BY <2>1, <2>3
<1> HIDE DEF first, rest
<1> QED BY <1>3, <1>5, <1>6

LEMMA RequestsFacts ==
  ASSUME NEW d, View!Displayed(d), NEW m, NEW f \in Nat \X Nat, NEW q, q = View!fbUpdateRequests(d),
         NEW i \in Int, NEW j \in Int, View!InView(d.v, i, j), View!Fits(d.v, f)
  PROVE  /\ ~(View!InClean(d.cr, i, j) /\ ~View!Degenerate(d.cr)) => View!Brought(q, m, f, <<i, j>>)
         /\ <<i, j>> \in m => View!Brought(q, m, f, <<i, j>>)
<1> DEFINE S == SUBSET (Int \X Int)
           boxes == View!DirtyBoxes(d)
           clean == View!CleanBox(d)
           first == IF clean = {} THEN <<>> ELSE <<[incremental |-> TRUE, box |-> clean]>>
           rest == [n \in DOMAIN boxes |-> [incremental |-> FALSE, box |-> boxes[n]]]
           at == <<i, j>>
<1>1. /\ boxes \in Seq(S)
      /\ In(boxes, at) \/ (View!InClean(d.cr, i, j) /\ ~View!Degenerate(d.cr))
  BY DirtyCover, DirtyType
<1>2. at \in clean <=> View!InClean(d.cr, i, j)
  <2> DEFINE w == d.cr.x2 - d.cr.x1 + 1
             h == d.cr.y2 - d.cr.y1 + 1
  <2>1. /\ d.cr.x1 \in Int /\ d.cr.y1 \in Int /\ d.cr.x2 \in Int /\ d.cr.y2 \in Int
    BY DEF View!Displayed
  <2>2. /\ w \in Int /\ h \in Int
        /\ (i < d.cr.x1 + w <=> i <= d.cr.x2) /\ (j < d.cr.y1 + h <=> j <= d.cr.y2)
    BY <2>1
  <2> HIDE DEF w, h
  <2>3. at \in View!Box(d.cr.x1, d.cr.y1, w, h)
          <=> d.cr.x1 <= i /\ i < d.cr.x1 + w /\ d.cr.y1 <= j /\ j < d.cr.y1 + h
    BY <2>1, <2>2, InBox
  <2> QED BY <2>2, <2>3 DEF View!CleanBox, View!InClean, w, h
<1>3. at \in View!Box(0, 0, f[1], f[2])
  <2>1. /\ d.v.x \in Nat /\ d.v.y \in Nat /\ d.v.w \in Nat /\ d.v.h \in Nat BY DEF View!Displayed
  <2> DEFINE w == f[1]
             h == f[2]
  <2>2. w \in Nat /\ h \in Nat OBVIOUS
  <2>3. 0 <= i /\ i < 0 + w /\ 0 <= j /\ j < 0 + h BY <2>1, <2>2 DEF View!InView, View!Fits
  <2> HIDE DEF w, h
  <2>4. <<i, j>> \in View!Box(0, 0, w, h) BY <2>2, <2>3, InBox
  <2> QED BY <2>4 DEF w, h
<1>4. q = first \o rest BY DEF View!fbUpdateRequests
<1>5. clean \in S
  <2>1. /\ d.cr.x1 \in Int /\ d.cr.y1 \in Int /\ d.cr.x2 \in Int /\ d.cr.y2 \in Int
    BY DEF View!Displayed
  <2>2. /\ d.cr.x2 - d.cr.x1 + 1 \in Int /\ d.cr.y2 - d.cr.y1 + 1 \in Int BY <2>1
  <2> QED BY <2>1, <2>2, BoxType DEF View!CleanBox
<1> HIDE DEF boxes, clean, S
<1>6. /\ first \in Seq(View!Requests)
      /\ (clean # {} => first = <<[incremental |-> TRUE, box |-> clean]>>)
  <2> DEFINE r == [incremental |-> TRUE, box |-> clean]
  <2>1. r \in View!Requests BY <1>5 DEF View!Requests, S
  <2>2. first = IF clean = {} THEN <<>> ELSE <<r>> OBVIOUS
  <2> HIDE DEF r, first
  <2>3. <<r>> \in Seq(View!Requests) /\ <<>> \in Seq(View!Requests) BY <2>1
  <2>4. first \in Seq(View!Requests) /\ (clean # {} => first = <<r>>) BY <2>2, <2>3
  <2> QED BY <2>4 DEF r
<1>7. rest \in Seq(View!Requests) /\ DOMAIN rest = DOMAIN boxes
  <2>1. DOMAIN boxes = 1 .. Len(boxes) /\ Len(boxes) \in Nat BY <1>1
  <2>2. \A n \in 1 .. Len(boxes) : boxes[n] \in S BY <1>1
  <2>3. \A n \in 1 .. Len(boxes) : [incremental |-> FALSE, box |-> boxes[n]] \in View!Requests
    BY <2>2 DEF View!Requests, S
  <2> QED BY <2>1, <2>3
<1>8. ASSUME In(boxes, at) PROVE View!Brought(rest, m, f, at)
  <2>1. PICK n \in DOMAIN boxes : at \in boxes[n] BY <1>8 DEF In
  <2>2. rest[n].incremental = FALSE /\ rest[n].box = boxes[n] /\ n \in DOMAIN rest BY <2>1
  <2>3. at \in View!Owed(rest[n], m, f) BY <1>3, <2>1, <2>2 DEF View!Owed
  <2> QED BY <2>2, <2>3 DEF View!Brought
<1>9. ASSUME at \in clean, at \in m PROVE View!Brought(first, m, f, at)
  <2>1. first = <<[incremental |-> TRUE, box |-> clean]>> BY <1>6, <1>9
  <2>2. 1 \in DOMAIN first /\ first[1].incremental = TRUE /\ first[1].box = clean BY <2>1
  <2>3. at \in View!Owed(first[1], m, f) BY <1>9, <2>2 DEF View!Owed
  <2> QED BY <2>2, <2>3 DEF View!Brought
<1> HIDE DEF first, rest, at
<1>10. q \in Seq(View!Requests)
       /\ (View!Brought(first, m, f, at) \/ View!Brought(rest, m, f, at) => View!Brought(q, m, f, at))
  BY <1>4, <1>6, <1>7, BroughtJoined
<1> QED BY <1>1, <1>2, <1>8, <1>9, <1>10 DEF at

-----------------------------------------------------------------------------

\* A viewport that fits is within the frame buffer.
LEMMA WholeFits ==
  ASSUME NEW d, View!Displayed(d), NEW size \in Nat \X Nat, View!Fits(d.v, size),
         NEW i \in Int, NEW j \in Int, View!InView(d.v, i, j)
  PROVE  <<i, j>> \in View!Box(0, 0, size[1], size[2])
<1>1. /\ d.v.x \in Nat /\ d.v.y \in Nat /\ d.v.w \in Nat /\ d.v.h \in Nat BY DEF View!Displayed
<1> DEFINE w == size[1]
           h == size[2]
<1>2. w \in Nat /\ h \in Nat OBVIOUS
<1>3. 0 <= i /\ i < 0 + w /\ 0 <= j /\ j < 0 + h BY <1>1, <1>2 DEF View!InView, View!Fits
<1> HIDE DEF w, h
<1>4. <<i, j>> \in View!Box(0, 0, w, h) BY <1>2, <1>3, InBox
<1> QED BY <1>4 DEF w, h

\* setViewClip of ui.js leaves a viewport that fits.
LEMMA ClippedKeeps ==
  ASSUME NEW d, View!Displayed(d), NEW on \in BOOLEAN, NEW size \in Nat \X Nat,
         NEW window \in Nat \X Nat, View!Fits(d.v, size), NEW known, clip \in BOOLEAN,
         NEW e, e = View!Clipped(d, on, size, window)
  PROVE  /\ View!Displayed(e) /\ View!Fits(e.v, size)
         /\ (View!CleanShown(d, known) => View!CleanShown(e, known))
<1> DEFINE z == 0
           a == window[1]
           b == window[2]
           yes == TRUE
           no == FALSE
           u == IF clip /\ ~on THEN View!viewportChange(d, no, size, z, z, z, z) ELSE d
<1>1. z \in Int /\ z \in Nat /\ a \in Nat /\ b \in Nat /\ yes \in BOOLEAN /\ no \in BOOLEAN
  OBVIOUS
<1>2. e = IF on THEN View!viewportChange(u, yes, size, z, z, a, b) ELSE u BY DEF View!Clipped
<1>3. u = View!viewportChange(d, no, size, z, z, z, z) \/ u = d OBVIOUS
<1> HIDE DEF z, a, b, yes, no, u
<1>4. /\ View!Displayed(u) /\ View!Fits(u.v, size)
      /\ (View!CleanShown(d, known) => View!CleanShown(u, known))
  <2>1. CASE u = d BY <2>1
  <2>2. CASE u = View!viewportChange(d, no, size, z, z, z, z)
    <3>1. Changed(d, no, size, z, z, z, z, u) BY <1>1, <2>2 DEF Changed
    <3> QED BY <3>1, viewportChangeKeeps
  <2> QED BY <1>3, <2>1, <2>2
<1>5. CASE on
  <2>1. e = View!viewportChange(u, yes, size, z, z, a, b) BY <1>2, <1>5
  <2>2. /\ View!Displayed(e) /\ View!Fits(e.v, size)
        /\ (View!CleanShown(u, known) => View!CleanShown(e, known))
    <3>1. Changed(u, yes, size, z, z, a, b, e) BY <1>1, <1>4, <2>1 DEF Changed
    <3> QED BY <3>1, viewportChangeKeeps
  <2> QED BY <1>4, <2>2
<1>6. CASE ~on BY <1>2, <1>4, <1>6
<1> QED BY <1>5, <1>6

LEMMA ShowsDisplay ==
  ASSUME NEW d, View!Displayed(d), View!Shows(d)
  PROVE  View!display' = d /\ port' = d.v
<1>1. d = [v |-> d.v, cr |-> d.cr, canvas |-> d.canvas] BY DEF View!Displayed
<1> QED BY <1>1 DEF View!Shows, View!display

\* A request of what is not clean: d before it, e after it; q waits before it,
\* t after it, and all is what t and the changes m bring.
Asking(d, f, m, q, known, e, t, all) ==
  /\ View!Displayed(d) /\ f \in Nat \X Nat /\ View!Fits(d.v, f) /\ m \in SUBSET (Int \X Int)
  /\ q \in Seq(View!Requests)
  /\ \A i, j \in Int : <<i, j>> \in known => <<i, j>> \in m \/ View!Brought(q, m, f, <<i, j>>)
  /\ View!CleanShown(d, known)
  /\ e = View!getCleanDirtyReset(d)
  /\ t = q \o View!fbUpdateRequests(d)
  /\ \A i, j \in Int : <<i, j>> \in m \/ View!Brought(t, m, f, <<i, j>>) => <<i, j>> \in all

\* After a request everything in view is shown or on its way.
LEMMA AskBrings ==
  ASSUME NEW d, NEW f, NEW m, NEW q, NEW known, NEW e, NEW t, NEW all,
         Asking(d, f, m, q, known, e, t, all)
  PROVE  t \in Seq(View!Requests) /\ View!CleanShown(e, all)
<1>0. /\ View!Displayed(d) /\ f \in Nat \X Nat /\ View!Fits(d.v, f) /\ m \in SUBSET (Int \X Int)
      /\ q \in Seq(View!Requests) /\ View!CleanShown(d, known)
      /\ e = View!getCleanDirtyReset(d) /\ t = q \o View!fbUpdateRequests(d)
  BY DEF Asking
<1> DEFINE r == View!fbUpdateRequests(d)
<1>1. r \in Seq(View!Requests) BY <1>0, RequestsType
<1>2. t \in Seq(View!Requests) BY <1>0, <1>1, BroughtJoined
<1>3. View!Displayed(e) /\ e.v = d.v /\ e.canvas = d.canvas BY <1>0, getCleanDirtyResetKeeps
<1>4. ASSUME NEW i \in Int, NEW j \in Int, View!InView(d.v, i, j)
      PROVE  View!ShownAt(e, i, j) \/ <<i, j>> \in all
  <2>1. View!ShownAt(e, i, j) <=> View!ShownAt(d, i, j) BY <1>3 DEF View!ShownAt
  <2>2. ~(View!InClean(d.cr, i, j) /\ ~View!Degenerate(d.cr)) => View!Brought(r, m, f, <<i, j>>)
    BY <1>0, <1>4, RequestsFacts
  <2>3. View!InClean(d.cr, i, j) /\ ~View!Degenerate(d.cr) => View!ShownAt(d, i, j) \/ <<i, j>> \in known
    BY <1>0, <1>4 DEF View!CleanShown
  <2>4. <<i, j>> \in known => <<i, j>> \in m \/ View!Brought(q, m, f, <<i, j>>) BY DEF Asking
  <2>5. View!Brought(t, m, f, <<i, j>>) <=> View!Brought(q, m, f, <<i, j>>) \/ View!Brought(r, m, f, <<i, j>>)
    <3>1. <<i, j>> \in Int \X Int OBVIOUS
    <3> HIDE DEF r
    <3> QED BY <1>0, <1>1, <3>1, BroughtJoined DEF r
  <2>6. <<i, j>> \in m \/ View!Brought(t, m, f, <<i, j>>) => <<i, j>> \in all BY DEF Asking
  <2> HIDE DEF r
  <2> QED BY <2>1, <2>2, <2>3, <2>4, <2>5, <2>6
<1>5. View!CleanShown(e, all) BY <1>0, <1>3, <1>4 DEF View!CleanShown
<1> QED BY <1>2, <1>5

\* What is on its way, pixel by pixel.
LEMMA OnTheWayIs ==
  ASSUME NEW i \in Int, NEW j \in Int
  PROVE  <<i, j>> \in View!OnTheWay <=> <<i, j>> \in modified \/ View!Brought(pending, modified, fb, <<i, j>>)
  BY DEF View!OnTheWay

\* The initial display has nothing clean.
LEMMA ViewInitial == View!Init => View!ViewInv
<1> SUFFICES ASSUME View!Init PROVE View!ViewInv OBVIOUS
<1>1. PICK window \in Windows :
        LET d == View!clear(View!Nothing, FALSE)
            e == IF clip THEN View!viewportChange(d, TRUE, fb, 0, 0, window[1], window[2]) ELSE d
        IN port = e.v /\ cr = e.cr /\ canvas = e.canvas
  BY DEF View!Init
<1> DEFINE n == View!Nothing
           no == FALSE
           yes == TRUE
           z == 0
           a == window[1]
           b == window[2]
           known == {}
           r == View!resize(n, no, ClearSize)
           d == View!clear(n, no)
           e == IF clip THEN View!viewportChange(d, yes, fb, z, z, a, b) ELSE d
<1>2. /\ fb = ClearSize /\ fb \in Nat \X Nat /\ clip \in BOOLEAN /\ z \in Int
      /\ a \in Nat /\ b \in Nat /\ no \in BOOLEAN /\ yes \in BOOLEAN
  BY ConsoleAssumption DEF View!Init, View!ViewportAssumption
<1>3. View!Displayed(n)
  <2>1. /\ n.v = [x |-> 0, y |-> 0, w |-> 0, h |-> 0]
        /\ n.cr = [x1 |-> 0, y1 |-> 0, x2 |-> -1, y2 |-> -1]
        /\ n.canvas = [p \in {} |-> View!Blank] /\ n = [v |-> n.v, cr |-> n.cr, canvas |-> n.canvas]
    BY DEF View!Nothing
  <2>2. View!Box(0, 0, 0, 0) = {} BY DEF View!Box
  <2>3. \A i, j \in Int : ~View!InClean(n.cr, i, j) BY <2>1 DEF View!InClean
  <2> HIDE DEF n
  <2>4. DOMAIN n.canvas = View!Box(0, 0, n.v.w, n.v.h) BY <2>1, <2>2
  <2> QED BY <2>1, <2>3, <2>4 DEF View!Displayed
<1>4. port = e.v /\ cr = e.cr /\ canvas = e.canvas BY <1>1
<1>5. d = View!Empty(r) BY DEF View!clear
<1>6. e = IF clip THEN View!viewportChange(d, yes, fb, z, z, a, b) ELSE d OBVIOUS
<1>7. r = View!resize(n, no, fb) BY <1>2
<1> HIDE DEF n, no, yes, z, a, b, known, r, d, e
<1>8. View!Displayed(r) /\ View!Fits(r.v, fb) BY <1>2, <1>3, <1>7, resizeKeeps
<1>9. View!Displayed(d) /\ d.v = r.v BY <1>5, <1>8, EmptyKeeps
<1>10. View!Displayed(e) /\ View!Fits(e.v, fb)
  <2>1. CASE clip
    <3>1. e = View!viewportChange(d, yes, fb, z, z, a, b) BY <1>6, <2>1
    <3>2. /\ View!Displayed(e) /\ View!Fits(e.v, fb)
          /\ (View!CleanShown(d, known) => View!CleanShown(e, known))
      <4> DEFINE f == fb
      <4>1. View!Displayed(d) /\ f \in Nat \X Nat /\ e = View!viewportChange(d, yes, f, z, z, a, b)
        BY <1>2, <1>9, <3>1
      <4>2. z \in Int /\ a \in Nat /\ b \in Nat /\ yes \in BOOLEAN BY <1>2
      <4> HIDE DEF f
      <4>3. /\ View!Displayed(e) /\ View!Fits(e.v, f)
            /\ (View!CleanShown(d, known) => View!CleanShown(e, known))
        <5>1. Changed(d, yes, f, z, z, a, b, e) BY <4>1, <4>2 DEF Changed
        <5> QED BY <5>1, viewportChangeKeeps
      <4> QED BY <4>3 DEF f
    <3> QED BY <3>2
  <2>2. CASE ~clip BY <1>6, <1>8, <1>9, <2>2
  <2> QED BY <2>1, <2>2
<1>11. e = [v |-> e.v, cr |-> e.cr, canvas |-> e.canvas] BY <1>10 DEF View!Displayed
<1>12. View!display = e BY <1>4, <1>11 DEF View!display
<1>13. pending \in Seq(View!Requests) /\ modified \in SUBSET (Int \X Int) /\ viewState # "normal"
  BY DEF View!Init
<1> QED BY <1>2, <1>4, <1>10, <1>12, <1>13 DEF View!ViewInv

\* Each action of Viewport keeps ViewInv.
LEMMA ViewStep == View!ViewInv /\ [View!Next]_(View!vars) => View!ViewInv'
<1> SUFFICES ASSUME View!ViewInv, [View!Next]_(View!vars) PROVE View!ViewInv' OBVIOUS
<1>1. /\ View!Displayed(View!display) /\ View!Fits(port, fb) /\ View!display.v = port
      /\ fb \in Nat \X Nat /\ clip \in BOOLEAN
      /\ modified \in SUBSET (Int \X Int) /\ pending \in Seq(View!Requests)
      /\ viewState = "normal" => View!CleanShown(View!display, View!OnTheWay)
  BY DEF View!ViewInv, View!display
<1>2. CASE UNCHANGED View!vars
  <2>1. View!display' = View!display BY <1>2 DEF View!vars, View!display
  <2>2. View!OnTheWay' = View!OnTheWay BY <1>2 DEF View!vars, View!OnTheWay, View!Brought, View!Owed
  <2> QED BY <1>1, <1>2, <2>1, <2>2 DEF View!vars, View!ViewInv
<1>3. CASE View!Request
  <2>1. /\ View!Shows(View!getCleanDirtyReset(View!display))
        /\ pending' = pending \o View!fbUpdateRequests(View!display)
        /\ viewState = "normal" /\ UNCHANGED <<clip, fb, viewState, modified, sizes>>
    BY <1>3 DEF View!Request, View!Ask
  <2> DEFINE e == View!getCleanDirtyReset(View!display)
  <2>2. View!Displayed(e) /\ e.v = port BY <1>1, getCleanDirtyResetKeeps
  <2>3. View!display' = e /\ port' = port BY <2>1, <2>2, ShowsDisplay
  <2>4. /\ pending' \in Seq(View!Requests)
        /\ View!CleanShown(e, modified \cup {at \in Int \X Int : View!Brought(pending', modified, fb, at)})
    <3> DEFINE known == View!OnTheWay
    <3>1. View!CleanShown(View!display, known) BY <1>1, <2>1
    <3>2. \A i, j \in Int : <<i, j>> \in known
             => <<i, j>> \in modified \/ View!Brought(pending, modified, fb, <<i, j>>)
      BY OnTheWayIs
    <3> HIDE DEF known, e
    <3>3. e = View!getCleanDirtyReset(View!display) BY DEF e
    <3> DEFINE d == View!display
               f == fb
               m == modified
               q == pending
               t == q \o View!fbUpdateRequests(d)
               all == m \cup {at \in Int \X Int : View!Brought(t, m, f, at)}
    <3>4. \A i, j \in Int : <<i, j>> \in m \/ View!Brought(t, m, f, <<i, j>>) => <<i, j>> \in all
      <4> HIDE DEF t, m, f
      <4> QED BY DEF all
    <3>5. Asking(d, f, m, q, known, e, t, all)
      <4>1. t = q \o View!fbUpdateRequests(d) OBVIOUS
      <4> HIDE DEF t, all
      <4> QED BY <1>1, <3>1, <3>2, <3>3, <3>4, <4>1 DEF Asking
    <3> HIDE DEF d, f, m, q, t, all
    <3>6. t \in Seq(View!Requests) /\ View!CleanShown(e, all) BY <3>5, AskBrings
    <3> QED BY <2>1, <3>6 DEF d, f, m, q, t, all
  <2>5. View!OnTheWay' = modified \cup {at \in Int \X Int : View!Brought(pending', modified, fb, at)}
    BY <2>1 DEF View!OnTheWay, View!Brought, View!Owed
  <2> HIDE DEF e
  <2> QED BY <1>1, <2>1, <2>2, <2>3, <2>4, <2>5 DEF View!ViewInv
<1>4. CASE \E dx \in Drags, dy \in Drags : View!Drag(dx, dy)
  <2>1. PICK dx \in Drags, dy \in Drags : View!Drag(dx, dy) BY <1>4
  <2> DEFINE w == port.w
             h == port.h
             yes == TRUE
             known == View!OnTheWay
             e == View!viewportChange(View!display, yes, fb, dx, dy, w, h)
  <2>2. View!Shows(e) /\ UNCHANGED <<clip, fb, viewState, pending, modified, sizes>>
    BY <2>1 DEF View!Drag
  <2>3. dx \in Int /\ dy \in Int /\ w \in Nat /\ h \in Nat /\ yes \in BOOLEAN
    BY <1>1, ConsoleAssumption DEF View!Displayed, View!ViewportAssumption
  <2>4. e = View!viewportChange(View!display, yes, fb, dx, dy, w, h) OBVIOUS
  <2> HIDE DEF w, h, yes, known, e
  <2>5. /\ View!Displayed(e) /\ View!Fits(e.v, fb)
        /\ (View!CleanShown(View!display, known) => View!CleanShown(e, known))
    <3>1. View!Displayed(View!display) /\ fb \in Nat \X Nat BY <1>1
    <3> DEFINE d == View!display
               f == fb
    <3>2. View!Displayed(d) /\ f \in Nat \X Nat /\ e = View!viewportChange(d, yes, f, dx, dy, w, h)
      BY <3>1, <2>4
    <3> HIDE DEF d, f
    <3>3. /\ View!Displayed(e) /\ View!Fits(e.v, f)
          /\ (View!CleanShown(d, known) => View!CleanShown(e, known))
      <4>1. Changed(d, yes, f, dx, dy, w, h, e) BY <2>3, <3>2 DEF Changed
      <4> QED BY <4>1, viewportChangeKeeps
    <3> QED BY <3>3 DEF d, f
  <2>6. View!display' = e /\ port' = e.v BY <2>2, <2>5, ShowsDisplay
  <2>7. View!OnTheWay' = known BY <2>2 DEF View!OnTheWay, View!Brought, View!Owed, known
  <2> QED BY <1>1, <2>2, <2>5, <2>6, <2>7 DEF View!ViewInv, known
<1>5. CASE \E on \in BOOLEAN, window \in Windows : View!SetViewClip(on, window)
  <2>1. PICK on \in BOOLEAN, window \in Windows : View!SetViewClip(on, window) BY <1>5
  <2> DEFINE known == View!OnTheWay
             e == View!Clipped(View!display, on, fb, window)
  <2>2. View!Shows(e) /\ clip' = on /\ UNCHANGED <<fb, viewState, pending, modified, sizes>>
    BY <2>1 DEF View!SetViewClip
  <2>3. window \in Nat \X Nat BY ConsoleAssumption DEF View!ViewportAssumption
  <2>4. e = View!Clipped(View!display, on, fb, window) /\ View!Fits(View!display.v, fb) BY <1>1
  <2> HIDE DEF known, e
  <2>5. /\ View!Displayed(e) /\ View!Fits(e.v, fb)
        /\ (View!CleanShown(View!display, known) => View!CleanShown(e, known))
    BY <1>1, <2>3, <2>4, ClippedKeeps
  <2>6. View!display' = e /\ port' = e.v BY <2>2, <2>5, ShowsDisplay
  <2>7. View!OnTheWay' = known BY <2>2 DEF View!OnTheWay, View!Brought, View!Owed, known
  <2> QED BY <1>1, <2>2, <2>5, <2>6, <2>7 DEF View!ViewInv, known
<1>6. CASE \E size \in Sizes : View!DesktopSize(size)
  <2>1. PICK size \in Sizes : View!DesktopSize(size) BY <1>6
  <2> DEFINE f == View!Forget(View!display)
             d == View!resize(f, clip, size)
             e == View!getCleanDirtyReset(d)
             W == View!Box(0, 0, size[1], size[2])
  <2>2. /\ fb' = size /\ modified' = W /\ View!Shows(e)
        /\ pending' = pending \o View!fbUpdateRequests(d)
        /\ clip' = clip
    BY <2>1 DEF View!DesktopSize, View!Ask
  <2>3. size \in Nat \X Nat BY ConsoleAssumption DEF View!ViewportAssumption
  <2>4. f = View!Forget(View!display) /\ d = View!resize(f, clip, size) /\ e = View!getCleanDirtyReset(d)
    OBVIOUS
  <2>5. W \in SUBSET (Int \X Int) BY <2>3, BoxType
  <2> HIDE DEF f, d, e, W
  <2>6. View!Displayed(f) BY <1>1, <2>4, EmptyKeeps
  <2>7. View!Displayed(d) /\ View!Fits(d.v, size) BY <1>1, <2>3, <2>4, <2>6, resizeKeeps
  <2>8. View!Displayed(e) /\ e.v = d.v BY <2>4, <2>7, getCleanDirtyResetKeeps
  <2>9. View!display' = e /\ port' = e.v BY <2>2, <2>8, ShowsDisplay
  <2>10. pending' \in Seq(View!Requests) BY <1>1, <2>2, <2>7, RequestsType, BroughtJoined
  <2>11. View!CleanShown(e, View!OnTheWay')
    <3>1. \A i, j \in Int : View!InView(e.v, i, j) => <<i, j>> \in W
      BY <2>3, <2>7, <2>8, WholeFits DEF W
    <3>2. W \subseteq View!OnTheWay' BY <2>2 DEF View!OnTheWay
    <3> QED BY <3>1, <3>2 DEF View!CleanShown
  <2> QED BY <1>1, <2>2, <2>3, <2>5, <2>7, <2>8, <2>9, <2>10, <2>11 DEF View!ViewInv
<1>7. CASE \E size \in Sizes, window \in Windows : View!Connected(size, window)
  <2>1. PICK size \in Sizes, window \in Windows : View!Connected(size, window) BY <1>7
  <2> DEFINE f == View!Forget(View!display)
             d == View!resize(f, clip, size)
             g == View!getCleanDirtyReset(d)
             e == View!Clipped(g, clip, size, window)
             W == View!Box(0, 0, size[1], size[2])
             known == {}
  <2>2. /\ fb' = size /\ modified' = W /\ View!Shows(e) /\ pending' = View!fbUpdateRequests(d)
        /\ clip' = clip
    BY <2>1 DEF View!Connected
  <2>3. size \in Nat \X Nat /\ window \in Nat \X Nat
    BY ConsoleAssumption DEF View!ViewportAssumption
  <2>4. /\ f = View!Forget(View!display) /\ d = View!resize(f, clip, size)
        /\ g = View!getCleanDirtyReset(d)
        /\ e = View!Clipped(g, clip, size, window)
    OBVIOUS
  <2>5. W \in SUBSET (Int \X Int) BY <2>3, BoxType
  <2> HIDE DEF f, d, g, e, W, known
  <2>6. View!Displayed(f) BY <1>1, <2>4, EmptyKeeps
  <2>7. View!Displayed(d) /\ View!Fits(d.v, size) BY <1>1, <2>3, <2>4, <2>6, resizeKeeps
  <2>8. View!Displayed(g) /\ g.v = d.v BY <2>4, <2>7, getCleanDirtyResetKeeps
  <2>9. /\ View!Displayed(e) /\ View!Fits(e.v, size)
        /\ (View!CleanShown(g, known) => View!CleanShown(e, known))
    BY <1>1, <2>3, <2>4, <2>7, <2>8, ClippedKeeps
  <2>10. View!display' = e /\ port' = e.v BY <2>2, <2>9, ShowsDisplay
  <2>11. pending' \in Seq(View!Requests) BY <2>2, <2>7, RequestsType
  <2>12. View!CleanShown(e, View!OnTheWay')
    <3>1. \A i, j \in Int : View!InView(e.v, i, j) => <<i, j>> \in W
      BY <2>3, <2>9, WholeFits DEF W
    <3>2. W \subseteq View!OnTheWay' BY <2>2 DEF View!OnTheWay
    <3> QED BY <3>1, <3>2 DEF View!CleanShown
  <2> QED BY <1>1, <2>2, <2>3, <2>5, <2>9, <2>10, <2>11, <2>12 DEF View!ViewInv
<1>8. CASE View!Disconnected
  <2> DEFINE d == View!resize(View!display, clip, ClearSize)
             e == View!Empty(d)
  <2>1. /\ fb' = ClearSize /\ View!Shows(e) /\ pending' = <<>> /\ modified' = {} /\ clip' = clip
        /\ viewState' = "disconnected"
    BY <1>8 DEF View!Disconnected, View!clear
  <2>2. ClearSize \in Nat \X Nat BY ConsoleAssumption DEF View!ViewportAssumption
  <2>3. d = View!resize(View!display, clip, ClearSize) /\ e = View!Empty(d) OBVIOUS
  <2> HIDE DEF d, e
  <2>4. View!Displayed(d) /\ View!Fits(d.v, ClearSize) BY <1>1, <2>2, <2>3, resizeKeeps
  <2>5. View!Displayed(e) /\ e.v = d.v BY <2>3, <2>4, EmptyKeeps
  <2>6. View!display' = e /\ port' = e.v BY <2>1, <2>5, ShowsDisplay
  <2>7. pending' \in Seq(View!Requests) BY <2>1
  <2> QED BY <1>1, <2>1, <2>2, <2>4, <2>5, <2>6, <2>7 DEF View!ViewInv
<1>9. CASE View!Answer
  <2> DEFINE r == Head(pending)
             A == View!Answered(r)
             e == View!Draw(View!display, A)
             known == View!OnTheWay
             left == View!OnTheWay'
  <2>1. /\ pending # <<>> /\ View!Shows(e) /\ modified' = modified \ A /\ pending' = Tail(pending)
        /\ UNCHANGED <<clip, fb, viewState, sizes>>
    BY <1>9 DEF View!Answer
  <2>2. A = View!Owed(r, modified, fb) BY DEF View!Answered, View!Owed
  <2>3. e = View!Draw(View!display, A) /\ r = Head(pending) OBVIOUS
  <2>4. /\ Len(pending) \in Nat /\ DOMAIN pending = 1 .. Len(pending)
        /\ pending' \in Seq(View!Requests) /\ Len(pending') = Len(pending) - 1
        /\ DOMAIN pending' = 1 .. Len(pending) - 1
        /\ \A n \in 1 .. Len(pending) - 1 : pending'[n] = pending[n + 1]
        /\ r = pending[1]
    BY <1>1, <2>1
  <2> HIDE DEF r, A, e
  <2>5. ASSUME NEW i \in Int, NEW j \in Int, <<i, j>> \in known
        PROVE  <<i, j>> \in A \/ <<i, j>> \in left
    <3>1. CASE <<i, j>> \in A BY <3>1
    <3>2. CASE <<i, j>> \notin A /\ <<i, j>> \in modified BY <2>1, <3>2 DEF View!OnTheWay
    <3>3. CASE <<i, j>> \notin A /\ <<i, j>> \notin modified
      <4>1. View!Brought(pending, modified, fb, <<i, j>>) BY <2>5, <3>3, OnTheWayIs
      <4>2. PICK n \in DOMAIN pending : <<i, j>> \in View!Owed(pending[n], modified, fb)
        BY <4>1 DEF View!Brought
      <4>3. n # 1 BY <2>2, <2>4, <3>3, <4>2
      <4> DEFINE k == n - 1
      <4>4. k \in 1 .. Len(pending) - 1 /\ k + 1 = n BY <2>4, <4>3
      <4> HIDE DEF k
      <4>5. k \in DOMAIN pending' /\ pending'[k] = pending[n] BY <2>4, <4>4
      <4>6. <<i, j>> \in View!Owed(pending'[k], modified', fb')
        BY <2>1, <3>3, <4>2, <4>5 DEF View!Owed
      <4>7. View!Brought(pending', modified', fb', <<i, j>>) BY <4>5, <4>6 DEF View!Brought
      <4> QED BY <4>7 DEF View!OnTheWay
    <3> QED BY <3>1, <3>2, <3>3
  <2>6. viewState = "normal" => View!Displayed(e) /\ e.v = View!display.v /\ View!CleanShown(e, left)
    <3> HIDE DEF known, left
    <3>1. viewState = "normal" => View!CleanShown(View!display, known) BY <1>1 DEF known
    <3> QED BY <1>1, <2>3, <2>5, <3>1, DrawKeeps
  <2>7. View!Displayed(e) /\ e.v = port
    <3> DEFINE none == {}
               all == {<<i, j>> : i \in Int, j \in Int}
    <3>1. View!CleanShown(View!display, all) BY DEF View!CleanShown
    <3>2. \A i, j \in Int : <<i, j>> \in all => <<i, j>> \in A \/ <<i, j>> \in all OBVIOUS
    <3> HIDE DEF all
    <3> QED BY <1>1, <2>3, <3>1, <3>2, DrawKeeps
  <2>8. View!display' = e /\ port' = port BY <2>1, <2>7, ShowsDisplay
  <2>9. modified' \in SUBSET (Int \X Int) BY <1>1, <2>1
  <2> HIDE DEF left, known
  <2>10. viewState' = "normal" => View!CleanShown(View!display', View!OnTheWay')
    BY <2>1, <2>6, <2>8 DEF left
  <2> QED BY <1>1, <2>1, <2>4, <2>7, <2>8, <2>9, <2>10 DEF View!ViewInv
<1> QED BY <1>2, <1>3, <1>4, <1>5, <1>6, <1>7, <1>8, <1>9 DEF View!Next

\* ViewInv says more than EveryPixelComes.
LEMMA ViewComes == View!ViewInv => View!EveryPixelComes
<1> SUFFICES ASSUME View!ViewInv, viewState = "normal"
             PROVE  /\ View!View(port) \subseteq View!Box(0, 0, fb[1], fb[2])
                    /\ DOMAIN canvas = View!Box(0, 0, port.w, port.h)
                    /\ \A p \in DOMAIN canvas :
                         LET at == <<p[1] + port.x, p[2] + port.y>>
                         IN canvas[p] = at \/ at \in View!Coming
  BY DEF View!EveryPixelComes
<1>1. /\ View!Displayed(View!display) /\ View!Fits(port, fb) /\ View!display.v = port
      /\ View!display.canvas = canvas
      /\ fb \in Nat \X Nat /\ modified \in SUBSET (Int \X Int) /\ pending \in Seq(View!Requests)
      /\ View!CleanShown(View!display, View!OnTheWay)
      /\ port \in [x : Nat, y : Nat, w : Nat, h : Nat]
  BY DEF View!ViewInv, View!display, View!Displayed
<1>2. DOMAIN canvas = View!Box(0, 0, port.w, port.h) BY <1>1 DEF View!Displayed
<1>3. View!View(port) \subseteq View!Box(0, 0, fb[1], fb[2])
  <2> SUFFICES ASSUME NEW p \in View!View(port) PROVE p \in View!Box(0, 0, fb[1], fb[2]) OBVIOUS
  <2>1. p = <<p[1], p[2]>> /\ p[1] \in Int /\ p[2] \in Int BY <1>1, OfBox DEF View!View
  <2>2. View!InView(port, p[1], p[2]) BY <1>1, <2>1, ViewIn
  <2> QED BY <1>1, <2>1, <2>2, WholeFits
<1> DEFINE r == View!fbUpdateRequests(View!display)
           t == pending \o r
<1>4. r \in Seq(View!Requests) BY <1>1, RequestsType
<1>5. ASSUME NEW i \in Int, NEW j \in Int, View!Brought(t, modified, fb, <<i, j>>)
      PROVE  <<i, j>> \in View!Coming
  <2>1. PICK n \in DOMAIN t : <<i, j>> \in View!Owed(t[n], modified, fb) BY <1>5 DEF View!Brought
  <2>2. <<i, j>> \in View!Answered(t[n]) BY <2>1 DEF View!Answered, View!Owed
  <2> QED BY <2>1, <2>2 DEF View!Coming
<1>6. ASSUME NEW p \in DOMAIN canvas
      PROVE  canvas[p] = <<p[1] + port.x, p[2] + port.y>> \/ <<p[1] + port.x, p[2] + port.y>> \in View!Coming
  <2> DEFINE i == p[1] + port.x
             j == p[2] + port.y
  <2>1. p = <<p[1], p[2]>> /\ p[1] \in Int /\ p[2] \in Int
    <3>1. port.w \in Int /\ port.h \in Int /\ 0 \in Int BY <1>1
    <3>2. p \in View!Box(0, 0, port.w, port.h) BY <1>2, <1>6
    <3> QED BY <3>1, <3>2, OfBox
  <2>2. i \in Int /\ j \in Int /\ i - port.x = p[1] /\ j - port.y = p[2] BY <1>1, <2>1
  <2>3. View!InView(port, i, j)
    <3> DEFINE a == p[1]
               b == p[2]
    <3>1. /\ port.x \in Int /\ port.y \in Int /\ port.w \in Int /\ port.h \in Int /\ 0 \in Int
          /\ a \in Int /\ b \in Int /\ i = a + port.x /\ j = b + port.y
      BY <1>1, <2>1
    <3>2. <<a, b>> \in View!Box(0, 0, port.w, port.h) BY <1>2, <1>6, <2>1
    <3> HIDE DEF a, b
    <3>3. 0 <= a /\ a < 0 + port.w /\ 0 <= b /\ b < 0 + port.h BY <3>1, <3>2, InBox
    <3> HIDE DEF i, j
    <3> QED BY <3>1, <3>3 DEF View!InView
  <2> HIDE DEF i, j
  <2>4. View!ShownAt(View!display, i, j) <=> canvas[p] = <<i, j>>
    BY <1>1, <2>1, <2>2 DEF View!ShownAt
  <2>5. View!InClean(View!display.cr, i, j) /\ ~View!Degenerate(View!display.cr)
          => View!ShownAt(View!display, i, j) \/ <<i, j>> \in View!OnTheWay
    BY <1>1, <2>2, <2>3 DEF View!CleanShown
  <2>6. <<i, j>> \in View!OnTheWay
          <=> <<i, j>> \in modified \/ View!Brought(pending, modified, fb, <<i, j>>)
    BY <2>2, OnTheWayIs
  <2>7. /\ ~(View!InClean(View!display.cr, i, j) /\ ~View!Degenerate(View!display.cr))
             => View!Brought(r, modified, fb, <<i, j>>)
        /\ <<i, j>> \in modified => View!Brought(r, modified, fb, <<i, j>>)
    BY <1>1, <2>2, <2>3, RequestsFacts
  <2>8. View!Brought(t, modified, fb, <<i, j>>)
          <=> View!Brought(pending, modified, fb, <<i, j>>) \/ View!Brought(r, modified, fb, <<i, j>>)
    BY <1>1, <1>4, BroughtJoined
  <2> HIDE DEF r, t
  <2>9. View!Brought(t, modified, fb, <<i, j>>) => <<i, j>> \in View!Coming BY <1>5, <2>2
  <2>10. canvas[p] = <<i, j>> \/ <<i, j>> \in View!Coming
    BY <2>4, <2>5, <2>6, <2>7, <2>8, <2>9
  <2> QED BY <2>10 DEF i, j
<1> QED BY <1>2, <1>3, <1>6

\* EveryPixelComes holds always, whatever sizes and whatever the window, the
\* drags and the server's answers: no pixel that the user sees is forgotten.
THEOREM PixelsCome == ConsoleSpec => []EveryPixelComes
<1>1. ConsoleInit => View!ViewInv BY ViewInitial DEF ConsoleInit
<1>2. View!ViewInv /\ [ConsoleNext]_consoleVars => View!ViewInv'
  BY ViewStep DEF ConsoleNext, ViewSteps, KeysSteps, MouseSteps, PageSteps, ScriptsSteps,
                 SettingsSteps, AuthSteps, consoleVars, viewVars, View!vars
<1>3. View!ViewInv => EveryPixelComes BY ViewComes DEF EveryPixelComes
<1> QED BY <1>1, <1>2, <1>3, PTL DEF ConsoleSpec

-----------------------------------------------------------------------------
(* Keyboard: what the guest has down is remembered.                        *)

\* A character that is none of the table stays; none becomes 0.
LEMMA RemappedFacts ==
  ASSUME NEW e, e.which \in Nat, e.keyCode \in Nat, e.numpad = FALSE
  PROVE  /\ Keys!Remapped(e) \in Nat
         /\ e.which > 0 => Keys!Remapped(e) > 0
<1> DEFINE c == IF e.which > 0 THEN e.which ELSE e.keyCode
<1> DEFINE y == Keys!Symbol(c, e.gecko)
<1>1. c \in Nat /\ (e.which > 0 => c > 0) OBVIOUS
<1>2. y \in Nat /\ (c > 0 => y > 0) BY <1>1 DEF Keys!Symbol
<1>3. Keys!Remapped(e) = IF e.shift THEN Keys!Shifted(y) ELSE Keys!Unshifted(y, FALSE)
  BY DEF Keys!Remapped
<1> HIDE DEF y
<1>4. Keys!Unshifted(y, FALSE) \in Nat /\ (y > 0 => Keys!Unshifted(y, FALSE) > 0)
  BY <1>2 DEF Keys!Unshifted
<1>5. Keys!Shifted(y) \in Nat /\ (y > 0 => Keys!Shifted(y) > 0)
  <2>1. CASE y \in 48 .. 57
    <3>1. y = 48 \/ y = 49 \/ y = 50 \/ y = 51 \/ y = 52 \/ y = 53 \/ y = 54 \/ y = 55 \/ y = 56 \/ y = 57
      BY <2>1, <1>2
    <3> QED BY <3>1 DEF Keys!Shifted
  <2>2. CASE y \notin 48 .. 57 BY <2>2, <1>2 DEF Keys!Shifted
  <2> QED BY <2>1, <2>2
<1> QED BY <1>1, <1>2, <1>3, <1>4, <1>5

\* The keysyms of the keys that have one of their own are positive.
LEMMA OwnKeysyms ==
  /\ \A k \in DOMAIN Keys!Both : Keys!Both[k] \in Nat /\ Keys!Both[k] > 0 /\ k < 32
  /\ \A k \in DOMAIN Keys!Navigation : Keys!Navigation[k] \in Nat /\ Keys!Navigation[k] > 0
  /\ \A k \in DOMAIN Keys!Others : Keys!Others[k] \in Nat /\ Keys!Others[k] > 0
  /\ \A k \in 112 .. 123 : Keys!Function(k) \in Nat /\ Keys!Function(k) > 0
  /\ DOMAIN Keys!Navigation = 33 .. 40
<1>1. \A k \in DOMAIN Keys!Both : Keys!Both[k] \in Nat /\ Keys!Both[k] > 0 /\ k < 32
  BY DEF Keys!Both
<1>2. \A k \in DOMAIN Keys!Navigation : Keys!Navigation[k] \in Nat /\ Keys!Navigation[k] > 0
  <2> SUFFICES ASSUME NEW k \in 33 .. 40 PROVE Keys!Navigation[k] \in Nat /\ Keys!Navigation[k] > 0
    BY DEF Keys!Navigation
  <2>1. k = 33 \/ k = 34 \/ k = 35 \/ k = 36 \/ k = 37 \/ k = 38 \/ k = 39 \/ k = 40 OBVIOUS
  <2> QED BY <2>1 DEF Keys!Navigation
<1>3. \A k \in DOMAIN Keys!Others : Keys!Others[k] \in Nat /\ Keys!Others[k] > 0
  <2>0. DOMAIN Keys!Others = {16, 17, 18, 27, 45, 46, 91, 93, 225} BY DEF Keys!Others
  <2> SUFFICES ASSUME NEW k \in {16, 17, 18, 27, 45, 46, 91, 93, 225}
               PROVE  Keys!Others[k] \in Nat /\ Keys!Others[k] > 0
    BY <2>0
  <2>1. k = 16 \/ k = 17 \/ k = 18 \/ k = 27 \/ k = 45 \/ k = 46 \/ k = 91 \/ k = 93 \/ k = 225
    OBVIOUS
  <2>2. CASE k = 16 BY <2>2 DEF Keys!Others
  <2>3. CASE k = 17 BY <2>3 DEF Keys!Others
  <2>4. CASE k = 18 BY <2>4 DEF Keys!Others
  <2>5. CASE k = 27 BY <2>5 DEF Keys!Others
  <2>6. CASE k = 45 BY <2>6 DEF Keys!Others
  <2>7. CASE k = 46 BY <2>7 DEF Keys!Others
  <2>8. CASE k = 91 BY <2>8 DEF Keys!Others
  <2>9. CASE k = 93 BY <2>9 DEF Keys!Others
  <2>10. CASE k = 225 BY <2>10 DEF Keys!Others
  <2> QED BY <2>1, <2>2, <2>3, <2>4, <2>5, <2>6, <2>7, <2>8, <2>9, <2>10
<1>4. \A k \in 112 .. 123 : Keys!Function(k) \in Nat /\ Keys!Function(k) > 0 BY DEF Keys!Function
<1> QED BY <1>1, <1>2, <1>3, <1>4 DEF Keys!Navigation

LEMMA SpecialFacts ==
  ASSUME NEW e, e.which \in Nat, e.keyCode \in Nat, e.numpad = FALSE
  PROVE  Keys!getKeysymSpecial(e) \in Nat
<1>1. Keys!Remapped(e) \in Nat BY RemappedFacts
<1> QED BY <1>1, OwnKeysyms DEF Keys!getKeysymSpecial

\* What is remembered of a press
LEMMA NotIgnored ==
  ASSUME NEW k \in KeyCodes, NEW gecko \in BOOLEAN, k # DeadKey,
         ~Keys!Ignored(Keys!getKeysymSpecial(Keys!KeyDownEvent(k, gecko)), Keys!KeyPressEvent(k, gecko))
  PROVE  Keys!getKeysymSpecial(Keys!KeyDownEvent(k, gecko)) = 0
<1> DEFINE down == Keys!KeyDownEvent(k, gecko)
           press == Keys!KeyPressEvent(k, gecko)
           t == Typed(k, Shift \in keysHeld)
<1>0. /\ k \in Nat /\ t \in Nat
      /\ k \in (33 .. 40) \cup DOMAIN Keys!Others \cup (112 .. 123) => t = 0
      /\ k \in DOMAIN Keys!Both => t \in {0} \cup DOMAIN Keys!Both
  <2>1. (Shift \in keysHeld) \in BOOLEAN OBVIOUS
  <2>2. Keys!KeyboardAssumption BY ConsoleAssumption
  <2> DEFINE shift == Shift \in keysHeld
  <2>3. shift \in BOOLEAN BY <2>1
  <2>4. t = Typed(k, shift) OBVIOUS
  <2> HIDE DEF shift, t
  <2> QED BY <2>2, <2>3, <2>4 DEF Keys!KeyboardAssumption
<1>1. /\ down.type = "keydown" /\ down.keyCode = k /\ down.which = k /\ down.numpad = FALSE
      /\ down.ctrl = (Ctrl \in keysHeld)
  BY DEF Keys!KeyDownEvent
<1>2. /\ press.type = "keypress" /\ press.which = t /\ press.numpad = FALSE
      /\ press.ctrl = (Ctrl \in keysHeld) /\ press.gecko = gecko
      /\ press.keyCode = IF gecko /\ t >= 32 THEN 0 ELSE t
  BY DEF Keys!KeyPressEvent
<1>3. press.keyCode \in Nat BY <1>0, <1>2
<1> HIDE DEF down, press, t
<1>4. Keys!getKeysymSpecial(down) \in Nat BY <1>0, <1>1, SpecialFacts
<1>5. Keys!getKeysymSpecial(press) \in Nat BY <1>0, <1>2, <1>3, SpecialFacts
<1>6. /\ Keys!getKeysymSpecial(down) > 0 => gecko
      /\ t > 0
      /\ Keys!getKeysymSpecial(press) = 0
  BY <1>0, <1>2, <1>4, <1>5 DEF Keys!Ignored, down, press
<1>7. k \notin DOMAIN Keys!Both
  <2> SUFFICES ASSUME k \in DOMAIN Keys!Both PROVE FALSE OBVIOUS
  <2>1. t \in DOMAIN Keys!Both BY <1>0, <1>6
  <2>2. press.keyCode \in DOMAIN Keys!Both BY <2>1, <1>0, <1>2, OwnKeysyms
  <2>3. Keys!getKeysymSpecial(press) = Keys!Both[press.keyCode]
    BY <1>2, <2>2 DEF Keys!getKeysymSpecial
  <2>4. Keys!Both[press.keyCode] > 0 BY <2>2, OwnKeysyms
  <2>5. Keys!getKeysymSpecial(press) = 0 BY <1>6
  <2> QED BY <2>3, <2>4, <2>5
<1>8. k \notin DOMAIN Keys!Navigation /\ k \notin DOMAIN Keys!Others /\ k \notin 112 .. 123
  BY <1>0, <1>6, OwnKeysyms
<1>9. Ctrl \notin keysHeld
  <2> SUFFICES ASSUME Ctrl \in keysHeld PROVE FALSE OBVIOUS
  <2>1. Keys!Remapped(press) > 0 /\ Keys!Remapped(press) \in Nat
    BY <1>0, <1>2, <1>3, <1>6, RemappedFacts
  <2>2. Keys!getKeysymSpecial(press) = Keys!Remapped(press) \/ press.keyCode \in DOMAIN Keys!Both
    BY <1>2 DEF Keys!getKeysymSpecial
  <2>3. press.keyCode \in DOMAIN Keys!Both => Keys!getKeysymSpecial(press) = Keys!Both[press.keyCode]
    BY <1>2 DEF Keys!getKeysymSpecial
  <2> QED BY <2>1, <2>2, <2>3, <1>6, OwnKeysyms
<1> QED BY <1>1, <1>7, <1>8, <1>9 DEF Keys!getKeysymSpecial, down

\* The press and the release of a key have one keysym.
LEMMA KeysymFacts ==
  ASSUME NEW e, e.which \in Nat, e.keyCode \in Nat
  PROVE  Keys!getKeysym(e) \in Int
<1>1. Keys!unicodeTable \in [{261, 8364} -> Int] BY DEF Keys!unicodeTable
<1> QED BY <1>1 DEF Keys!getKeysym

LEMMA ListedItem ==
  ASSUME NEW list \in Keys!Listed, NEW i \in 1 .. Len(list)
  PROVE  list[i] \in Keys!Downs /\ list[i].keysym \in Int
<1>1. list[i] \in Keys!Downs BY DEF Keys!Listed
<1> QED BY <1>1 DEF Keys!Downs

\* keyDownList with one entry more, with another keysym in the last one, with
\* one entry less.
LEMMA PushFacts ==
  ASSUME NEW list \in Keys!Listed, NEW k \in Int, NEW s \in Int
  PROVE  /\ Keys!pushKeyEvent(list, k, s) \in Keys!Listed
         /\ Keys!pushKeyEvent(list, k, s) # <<>>
         /\ Keys!Keysyms(Keys!pushKeyEvent(list, k, s)) = Keys!Keysyms(list) \cup {s}
         /\ \A t \in Int : /\ Keys!Noted(Keys!pushKeyEvent(list, k, s), t) \in Keys!Listed
                           /\ Keys!Keysyms(Keys!Noted(Keys!pushKeyEvent(list, k, s), t))
                                 = Keys!Keysyms(list) \cup {t}
<1> DEFINE r == [keyCode |-> k, keysym |-> s]
           l == Append(list, r)
           n == Len(list) + 1
<1>1. r \in Keys!Downs BY DEF Keys!Downs
<1>2. /\ l \in Keys!Listed /\ Len(l) = n /\ n \in Nat /\ l[n] = r
      /\ \A i \in 1 .. Len(list) : l[i] = list[i]
  BY <1>1 DEF Keys!Listed
<1>3. Keys!Keysyms(l) = Keys!Keysyms(list) \cup {s}
  <2>0. r.keysym = s OBVIOUS
  <2> HIDE DEF r, l
  <2>1. \A x \in Keys!Keysyms(l) : x \in Keys!Keysyms(list) \cup {s} BY <1>2, <2>0 DEF Keys!Keysyms
  <2>2. s \in Keys!Keysyms(l) BY <1>2, <2>0 DEF Keys!Keysyms
  <2>3. \A x \in Keys!Keysyms(list) : x \in Keys!Keysyms(l)
    <3> TAKE x \in Keys!Keysyms(list)
    <3>1. PICK i \in 1 .. Len(list) : x = list[i].keysym BY DEF Keys!Keysyms
    <3>2. Len(list) \in Nat BY DEF Keys!Listed
    <3>3. i \in 1 .. Len(l) /\ l[i] = list[i] BY <1>2, <3>1, <3>2
    <3> QED BY <3>1, <3>3 DEF Keys!Keysyms
  <2> QED BY <2>1, <2>2, <2>3
<1>4. ASSUME NEW t \in Int
      PROVE  /\ Keys!Noted(l, t) \in Keys!Listed
             /\ Keys!Keysyms(Keys!Noted(l, t)) = Keys!Keysyms(list) \cup {t}
  <2> DEFINE m == [l EXCEPT ![n] = [l[n] EXCEPT !.keysym = t]]
  <2>1. Keys!Noted(l, t) = m BY <1>2 DEF Keys!Noted, Keys!Last
  <2>2. [l[n] EXCEPT !.keysym = t] = [keyCode |-> k, keysym |-> t] BY <1>2
  <2>3. /\ m \in Keys!Listed /\ Len(m) = n /\ m[n].keysym = t
        /\ \A i \in 1 .. Len(list) : m[i] = list[i]
    <3>1. n \in 1 .. n BY <1>2
    <3>2. [keyCode |-> k, keysym |-> t] \in Keys!Downs BY DEF Keys!Downs
    <3> HIDE DEF l
    <3>3. m \in Keys!Listed /\ Len(m) = n BY <1>2, <2>2, <3>1, <3>2 DEF Keys!Listed
    <3>4. m[n] = [keyCode |-> k, keysym |-> t] BY <1>2, <2>2, <3>1 DEF Keys!Listed
    <3>5. \A i \in 1 .. Len(list) : m[i] = list[i]
      <4>1. \A i \in 1 .. Len(list) : i # n /\ i \in DOMAIN l BY <1>2 DEF Keys!Listed
      <4> QED BY <4>1, <1>2
    <3> QED BY <3>3, <3>4, <3>5
  <2> HIDE DEF m
  <2>4. \A x \in Keys!Keysyms(m) : x \in Keys!Keysyms(list) \cup {t} BY <1>2, <2>3 DEF Keys!Keysyms
  <2>5. t \in Keys!Keysyms(m) BY <1>2, <2>3 DEF Keys!Keysyms
  <2>6. \A x \in Keys!Keysyms(list) : x \in Keys!Keysyms(m)
    <3> TAKE x \in Keys!Keysyms(list)
    <3>1. PICK i \in 1 .. Len(list) : x = list[i].keysym BY DEF Keys!Keysyms
    <3>2. Len(list) \in Nat BY DEF Keys!Listed
    <3>3. i \in 1 .. Len(m) /\ m[i] = list[i] BY <1>2, <2>3, <3>1, <3>2
    <3> QED BY <3>1, <3>3 DEF Keys!Keysyms
  <2> QED BY <2>1, <2>3, <2>4, <2>5, <2>6
<1> HIDE DEF l
<1>5. l # <<>> BY <1>2
<1>6. Keys!pushKeyEvent(list, k, s) = l BY DEF Keys!pushKeyEvent, l
<1> QED BY <1>2, <1>3, <1>4, <1>5, <1>6

\* Taking an entry out of the list leaves the keysyms of the others.
LEMMA SpliceFacts ==
  ASSUME NEW list \in Keys!Listed, NEW i \in 1 .. Len(list)
  PROVE  /\ Keys!Spliced(list, i) \in Keys!Listed
         /\ Keys!Keysyms(list) \ {list[i].keysym} \subseteq Keys!Keysyms(Keys!Spliced(list, i))
<1> DEFINE m == Keys!Spliced(list, i)
           n == Len(list) - 1
<1>1. n \in Nat /\ Len(list) \in Nat BY DEF Keys!Listed
<1>2. \A j \in 1 .. n : (IF j < i THEN list[j] ELSE list[j + 1]) \in Keys!Downs
  <2> TAKE j \in 1 .. n
  <2>1. j \in 1 .. Len(list) /\ j + 1 \in 1 .. Len(list) BY <1>1
  <2> QED BY <2>1, ListedItem
<1>3. /\ m \in Keys!Listed /\ Len(m) = n
      /\ \A j \in 1 .. n : m[j] = IF j < i THEN list[j] ELSE list[j + 1]
  <2>1. m \in [1 .. n -> Keys!Downs] BY <1>2 DEF Keys!Spliced
  <2>2. \A j \in 1 .. n : m[j] = IF j < i THEN list[j] ELSE list[j + 1] BY DEF Keys!Spliced
  <2> HIDE DEF m
  <2> QED BY <1>1, <2>1, <2>2 DEF Keys!Listed
<1> HIDE DEF m
<1>4. ASSUME NEW x \in Keys!Keysyms(list), x # list[i].keysym
      PROVE  x \in Keys!Keysyms(m)
  <2>1. PICK j \in 1 .. Len(list) : x = list[j].keysym BY DEF Keys!Keysyms
  <2>2. j # i BY <2>1, <1>4
  <2>3. CASE j < i
    <3>1. j \in 1 .. n /\ m[j] = list[j] BY <1>1, <1>3, <2>3
    <3> QED BY <3>1, <2>1, <1>3 DEF Keys!Keysyms
  <2>4. CASE j > i
    <3>1. j - 1 \in 1 .. n /\ m[j - 1] = list[j]
      <4>1. j - 1 \in 1 .. n /\ ~(j - 1 < i) /\ (j - 1) + 1 = j BY <1>1, <2>4
      <4> QED BY <4>1, <1>3
    <3> QED BY <3>1, <2>1, <1>3 DEF Keys!Keysyms
  <2> QED BY <2>2, <2>3, <2>4, <1>1
<1> QED BY <1>3, <1>4 DEF m

\* getKeyEvent finds an entry of the key, if there is one.
LEMMA EntryFacts ==
  ASSUME NEW list \in Keys!Listed, NEW k, Keys!Entry(list, k) # 0
  PROVE  Keys!Entry(list, k) \in 1 .. Len(list)
<1> DEFINE at == {i \in 1 .. Len(list) : list[i].keyCode = k}
<1>1. at # {} /\ Keys!Entry(list, k) = CHOOSE i \in at : \A j \in at : j <= i BY DEF Keys!Entry
<1>2. \E i \in at : \A j \in at : j <= i
  <2>1. Len(list) \in Nat BY DEF Keys!Listed
  <2>2. at \in SUBSET Nat /\ IsFiniteSet(at)
    <3>1. at \subseteq 1 .. Len(list) /\ IsFiniteSet(1 .. Len(list)) BY <2>1, FS_Interval
    <3> QED BY <3>1, <2>1, FS_Subset
  <2> HIDE DEF at
  <2> QED BY <1>1, <2>2, Greatest
<1> QED BY <1>1, <1>2

-----------------------------------------------------------------------------

LEMMA SentFacts ==
  ASSUME Keys!KeysInv, NEW T \in SUBSET Int
  PROVE  /\ Keys!Sent(TRUE, T) \in SUBSET Int /\ Keys!Sent(FALSE, T) \in SUBSET Int
         /\ keyViewOnly => Keys!Sent(TRUE, T) = {} /\ Keys!Sent(FALSE, T) = {}
         /\ ~keyViewOnly => Keys!Sent(TRUE, T) = serverDown \cup T /\ Keys!Sent(FALSE, T) = serverDown \ T
  BY DEF Keys!KeysInv, Keys!KeysTypeOK, Keys!Sent

\* A press is noted before it is sent.
LEMMA PressedSafe ==
  ASSUME Keys!KeysInv, NEW k \in KeyCodes, NEW gecko \in BOOLEAN, Keys!Pressed(k, gecko)
  PROVE  /\ keyDownList' \in Keys!Listed /\ serverDown' \in SUBSET Int
         /\ serverDown' \subseteq Keys!Keysyms(keyDownList')
         /\ keyViewOnly => serverDown' = {}
<1> DEFINE down == Keys!KeyDownEvent(k, gecko)
           press == Keys!KeyPressEvent(k, gecko)
           special == Keys!getKeysymSpecial(down)
           pushed == Keys!pushKeyEvent(keyDownList, k, special)
           typed == Keys!getKeysym(press)
<1>0. k \in Int BY ConsoleAssumption DEF Keys!KeyboardAssumption
<1>1. CASE k = DeadKey
  <2>1. Keys!ignoreKeyEvent(down) BY <1>1 DEF Keys!KeyDownEvent, Keys!ignoreKeyEvent
  <2>2. UNCHANGED <<keyDownList, serverDown>> BY <2>1 DEF Keys!Pressed
  <2> QED BY <2>2 DEF Keys!KeysInv, Keys!KeysTypeOK, Keys!Remembered
<1>2. CASE k # DeadKey
  <2>1. special \in Nat
    <3>1. down.which \in Nat /\ down.keyCode \in Nat /\ down.numpad = FALSE
      BY <1>2, ConsoleAssumption DEF Keys!KeyDownEvent, Keys!KeyboardAssumption
    <3> QED BY <3>1, SpecialFacts
  <2>2. typed \in Int
    <3>1. (Shift \in keysHeld) \in BOOLEAN OBVIOUS
    <3>2. press.which \in Nat /\ press.keyCode \in Nat
      BY <3>1, ConsoleAssumption DEF Keys!KeyPressEvent, Keys!KeyboardAssumption
    <3> QED BY <3>2, KeysymFacts
  <2>3. /\ ~Keys!Ignored(special, press) => special = 0
    BY <1>2, NotIgnored
  <2>4. keyDownList \in Keys!Listed BY DEF Keys!KeysInv, Keys!KeysTypeOK
  <2>5. /\ pushed \in Keys!Listed
        /\ Keys!Keysyms(pushed) = Keys!Keysyms(keyDownList) \cup {special}
        /\ Keys!Noted(pushed, typed) \in Keys!Listed
        /\ Keys!Keysyms(Keys!Noted(pushed, typed)) = Keys!Keysyms(keyDownList) \cup {typed}
    BY <1>0, <2>1, <2>2, <2>4, PushFacts
  <2>6. \/ UNCHANGED <<keyDownList, serverDown>>
        \/ keyDownList' = pushed /\ serverDown' = Keys!Sent(TRUE, {special} \ {0})
        \/ /\ ~Keys!Ignored(special, press)
           /\ keyDownList' = Keys!Noted(pushed, typed)
           /\ serverDown' = Keys!Sent(TRUE, {special, typed} \ {0})
    BY DEF Keys!Pressed
  <2> HIDE DEF down, press, special, pushed, typed
  <2>7. CASE UNCHANGED <<keyDownList, serverDown>>
    BY <2>7 DEF Keys!KeysInv, Keys!KeysTypeOK, Keys!Remembered
  <2>8. CASE keyDownList' = pushed /\ serverDown' = Keys!Sent(TRUE, {special} \ {0})
    <3> DEFINE T == {special} \ {0}
    <3>1. T \in SUBSET Int /\ T \subseteq {special} BY <2>1
    <3>2. serverDown \subseteq Keys!Keysyms(keyDownList) BY DEF Keys!KeysInv, Keys!Remembered
    <3>3. serverDown' \in SUBSET Int /\ (keyViewOnly => serverDown' = {})
          /\ serverDown' \subseteq serverDown \cup {special}
      <4>1. serverDown' = Keys!Sent(TRUE, T) BY <2>8
      <4> HIDE DEF T
      <4>2. /\ Keys!Sent(TRUE, T) \in SUBSET Int
            /\ keyViewOnly => Keys!Sent(TRUE, T) = {}
            /\ ~keyViewOnly => Keys!Sent(TRUE, T) = serverDown \cup T
        BY <3>1, SentFacts
      <4> QED BY <3>1, <4>1, <4>2
    <3> QED BY <2>5, <2>8, <3>2, <3>3
  <2>9. CASE /\ ~Keys!Ignored(special, press)
             /\ keyDownList' = Keys!Noted(pushed, typed)
             /\ serverDown' = Keys!Sent(TRUE, {special, typed} \ {0})
    <3> DEFINE T == {special, typed} \ {0}
    <3>1. T \in SUBSET Int BY <2>1, <2>2
    <3>2. serverDown \subseteq Keys!Keysyms(keyDownList) BY DEF Keys!KeysInv, Keys!Remembered
    <3>3. special = 0 BY <2>3, <2>9
    <3>4. serverDown' \in SUBSET Int /\ (keyViewOnly => serverDown' = {})
          /\ serverDown' \subseteq serverDown \cup {typed}
      <4>0. T \subseteq {typed} BY <3>3
      <4>1. serverDown' = Keys!Sent(TRUE, T) BY <2>9
      <4> HIDE DEF T
      <4>2. /\ Keys!Sent(TRUE, T) \in SUBSET Int
            /\ keyViewOnly => Keys!Sent(TRUE, T) = {}
            /\ ~keyViewOnly => Keys!Sent(TRUE, T) = serverDown \cup T
        BY <3>1, SentFacts
      <4> QED BY <4>0, <4>1, <4>2
    <3> QED BY <2>5, <2>9, <3>2, <3>4
  <2> QED BY <2>6, <2>7, <2>8, <2>9
<1> QED BY <1>1, <1>2

\* A release sends up what its entry says that is down.
LEMMA ReleasedSafe ==
  ASSUME Keys!KeysInv, NEW k \in KeyCodes, Keys!Released(k)
  PROVE  /\ keyDownList' \in Keys!Listed /\ serverDown' \in SUBSET Int
         /\ serverDown' \subseteq Keys!Keysyms(keyDownList')
         /\ keyViewOnly => serverDown' = {}
<1> DEFINE i == Keys!Entry(keyDownList, k)
<1>1. CASE i = 0
  <2>1. UNCHANGED <<keyDownList, serverDown>> BY <1>1 DEF Keys!Released
  <2> QED BY <2>1 DEF Keys!KeysInv, Keys!KeysTypeOK, Keys!Remembered
<1>2. CASE i # 0
  <2>1. keyDownList \in Keys!Listed /\ serverDown \subseteq Keys!Keysyms(keyDownList)
    BY DEF Keys!KeysInv, Keys!KeysTypeOK, Keys!Remembered
  <2>2. i \in 1 .. Len(keyDownList) BY <1>2, <2>1, EntryFacts
  <2>3. /\ keyDownList' = Keys!Spliced(keyDownList, i)
        /\ serverDown' = Keys!Sent(FALSE, {keyDownList[i].keysym})
    BY <1>2 DEF Keys!Released
  <2> HIDE DEF i
  <2>4. keyDownList[i].keysym \in Int BY <2>1, <2>2, ListedItem
  <2>5. /\ serverDown' \in SUBSET Int /\ (keyViewOnly => serverDown' = {})
        /\ serverDown' \subseteq serverDown \ {keyDownList[i].keysym}
    <3>1. {keyDownList[i].keysym} \in SUBSET Int BY <2>4
    <3> QED BY <2>3, <3>1, SentFacts
  <2> QED BY <2>1, <2>2, <2>3, <2>5, SpliceFacts
<1> QED BY <1>1, <1>2

\* A blur, or the end of a session, sends up all that is down.
LEMMA NoKeyDown ==
  ASSUME Keys!KeysInv, Keys!AllKeysUp
  PROVE  keyDownList' = <<>> /\ serverDown' = {}
<1>1. Keys!Keysyms(keyDownList) \in SUBSET Int
  BY ListedItem DEF Keys!KeysInv, Keys!KeysTypeOK, Keys!Keysyms
<1>2. serverDown \subseteq Keys!Keysyms(keyDownList) BY DEF Keys!KeysInv, Keys!Remembered
<1> QED BY <1>1, <1>2, SentFacts DEF Keys!AllKeysUp

LEMMA NoKeys == <<>> \in Keys!Listed BY DEF Keys!Listed

\* The initial state has no key down.
LEMMA KeysInitially == Keys!Init => Keys!KeysInv
  BY NoKeys, ConsoleAssumption
  DEF Keys!Init, Keys!KeysInv, Keys!KeysTypeOK, Keys!Remembered, Keys!KeyboardAssumption

\* Each action of Keyboard keeps KeysInv.
LEMMA KeysStep ==
  ASSUME Keys!KeysInv, [Keys!Next]_(Keys!vars)
  PROVE  Keys!KeysInv'
<1> USE DEF Keys!KeysInv, Keys!KeysTypeOK, Keys!Remembered
<1>1. ASSUME NEW k \in KeyCodes, NEW gecko \in BOOLEAN, Keys!Press(k, gecko) PROVE Keys!KeysInv'
  <2>1. CASE keyGrabbed /\ keyFocused
    <3>1. Keys!Pressed(k, gecko) BY <1>1, <2>1 DEF Keys!Press
    <3>2. /\ keyDownList' \in Keys!Listed /\ serverDown' \in SUBSET Int
          /\ serverDown' \subseteq Keys!Keysyms(keyDownList')
          /\ keyViewOnly => serverDown' = {}
      BY <3>1, PressedSafe
    <3> QED BY <1>1, <2>1, <3>2 DEF Keys!Press
  <2>2. CASE ~(keyGrabbed /\ keyFocused) BY <1>1, <2>2 DEF Keys!Press, Keys!Keysyms
  <2> QED BY <2>1, <2>2
<1>2. ASSUME NEW k \in KeyCodes, Keys!Release(k) PROVE Keys!KeysInv'
  <2>1. CASE inWindow /\ keyGrabbed /\ keyFocused
    <3>1. Keys!Released(k) BY <1>2, <2>1 DEF Keys!Release
    <3>2. /\ keyDownList' \in Keys!Listed /\ serverDown' \in SUBSET Int
          /\ serverDown' \subseteq Keys!Keysyms(keyDownList')
          /\ keyViewOnly => serverDown' = {}
      BY <3>1, ReleasedSafe
    <3> QED BY <1>2, <2>1, <3>2 DEF Keys!Release
  <2>2. CASE ~(inWindow /\ keyGrabbed /\ keyFocused) BY <1>2, <2>2 DEF Keys!Release, Keys!Keysyms
  <2> QED BY <2>1, <2>2
<1>3. ASSUME NEW on \in BOOLEAN, Keys!SetFocused(on) PROVE Keys!KeysInv'
  BY <1>3 DEF Keys!SetFocused, Keys!Keysyms
<1>4. ASSUME NEW on \in BOOLEAN, Keys!Grab(on) PROVE Keys!KeysInv'
  BY <1>4 DEF Keys!Grab, Keys!Keysyms
<1>5. ASSUME Keys!Blur PROVE Keys!KeysInv'
  <2>1. CASE keyGrabbed BY <1>5, <2>1, NoKeyDown, NoKeys DEF Keys!Blur
  <2>2. CASE ~keyGrabbed BY <1>5, <2>2 DEF Keys!Blur, Keys!Keysyms
  <2> QED BY <2>1, <2>2
<1>6. ASSUME Keys!Return PROVE Keys!KeysInv' BY <1>6 DEF Keys!Return, Keys!Keysyms
<1>7. ASSUME Keys!SendCtrlAltDel PROVE Keys!KeysInv'
  <2> DEFINE T == {65507, 65513, 65535}
  <2>1. T \in SUBSET Int /\ serverDown' = Keys!Sent(FALSE, T) BY <1>7 DEF Keys!SendCtrlAltDel
  <2> HIDE DEF T
  <2>2. serverDown' \subseteq serverDown BY <2>1, SentFacts
  <2>3. UNCHANGED <<keyDownList, keyGrabbed, keyViewOnly, inWindow>> BY <1>7 DEF Keys!SendCtrlAltDel
  <2> QED BY <2>2, <2>3 DEF Keys!Keysyms
<1>8. ASSUME Keys!Ungrab PROVE Keys!KeysInv' BY <1>8, NoKeyDown, NoKeys DEF Keys!Ungrab
<1>9. ASSUME UNCHANGED Keys!vars PROVE Keys!KeysInv' BY <1>9 DEF Keys!vars, Keys!Keysyms
<1> QED BY <1>1, <1>2, <1>3, <1>4, <1>5, <1>6, <1>7, <1>8, <1>9 DEF Keys!Next

\* Remembered holds always, whatever keys are typed, in whatever order they
\* come up, and whenever focus or session change: what the guest has down is
\* in keyDownList, so that its release is sent.
THEOREM KeysRemembered == ConsoleSpec => []Remembered
<1>1. ConsoleInit => Keys!KeysInv BY KeysInitially DEF ConsoleInit
<1>2. Keys!KeysInv /\ [ConsoleNext]_consoleVars => Keys!KeysInv'
  BY KeysStep DEF ConsoleNext, ViewSteps, KeysSteps, MouseSteps, PageSteps, ScriptsSteps,
                 SettingsSteps, AuthSteps, consoleVars, keyVars, Keys!vars
<1>3. Keys!KeysInv => Remembered BY DEF Keys!KeysInv, Remembered
<1> QED BY <1>1, <1>2, <1>3, PTL DEF ConsoleSpec

-----------------------------------------------------------------------------
(* Mouse: the guest is told every change of a button.                      *)

(* What the functions of rfb.js return.                                    *)

\* flushClient empties the queue and tells the last mask of it.
LEMMA FlushFacts ==
  ASSUME NEW p \in Pointing!Pointers
  PROVE  /\ Pointing!flushClient(p) \in Pointing!Pointers
         /\ Pointing!flushClient(p).mask = p.mask /\ Pointing!flushClient(p).dragging = p.dragging
         /\ Pointing!flushClient(p).arr = <<>>
         /\ Pointing!flushClient(p).server = IF p.arr = <<>> THEN p.server ELSE p.arr[Len(p.arr)]
<1>1. CASE p.arr = <<>> BY <1>1 DEF Pointing!flushClient, Pointing!Pointers
<1>2. CASE p.arr # <<>>
  <2>1. Len(p.arr) \in 1 .. Len(p.arr) BY <1>2 DEF Pointing!Pointers
  <2>2. p.arr[Len(p.arr)] \in Pointing!Masks BY <2>1 DEF Pointing!Pointers
  <2>3. <<>> \in Seq(Pointing!Masks) OBVIOUS
  <2> QED BY <1>2, <2>2, <2>3 DEF Pointing!flushClient, Pointing!Pointers
<1> QED BY <1>1, <1>2

\* pointerEvent puts the mask at the end of the queue.
LEMMA EventFacts ==
  ASSUME NEW p \in Pointing!Pointers
  PROVE  /\ Pointing!pointerEvent(p) \in Pointing!Pointers
         /\ Pointing!pointerEvent(p).mask = p.mask /\ Pointing!pointerEvent(p).dragging = p.dragging
         /\ Pointing!pointerEvent(p).server = p.server
         /\ Pointing!pointerEvent(p).arr # <<>>
         /\ Pointing!pointerEvent(p).arr[Len(Pointing!pointerEvent(p).arr)] = p.mask
<1>1. Append(p.arr, p.mask) \in Seq(Pointing!Masks) BY DEF Pointing!Pointers
<1>2. /\ Len(Append(p.arr, p.mask)) = Len(p.arr) + 1
      /\ Append(p.arr, p.mask)[Len(p.arr) + 1] = p.mask
  BY DEF Pointing!Pointers
<1>3. Append(p.arr, p.mask) # <<>> BY <1>2 DEF Pointing!Pointers
<1> QED BY <1>1, <1>2, <1>3 DEF Pointing!pointerEvent, Pointing!Pointers

\* The drag of a pointer after a button.
DraggedBy(p, down) == IF viewportDrag THEN down /\ ~p.dragging ELSE p.dragging

\* A button changes the mask and, in the drag mode, the drag; a session that is
\* not dragging afterwards tells its mask at once.
LEMMA ButtonFacts ==
  ASSUME NEW p \in Pointing!Pointers, NEW down \in BOOLEAN, NEW b \in Buttons \cup {Wheel},
         viewportDrag \in BOOLEAN, mouseViewOnly \in BOOLEAN
  PROVE  /\ Pointing!mouseButton(p, down, b) \in Pointing!Pointers
         /\ Pointing!mouseButton(p, down, b).mask = Pointing!Masked(p.mask, down, b)
         /\ Pointing!mouseButton(p, down, b).dragging = DraggedBy(p, down)
         /\ ~mouseViewOnly /\ ~DraggedBy(p, down) =>
              /\ Pointing!mouseButton(p, down, b).arr = <<>>
              /\ Pointing!mouseButton(p, down, b).server = Pointing!mouseButton(p, down, b).mask
<1> DEFINE q == [p EXCEPT !.mask = Pointing!Masked(@, down, b)]
           d == Pointing!Dragged(q, down)
<1>1. Pointing!Masked(p.mask, down, b) \in Pointing!Masks
  BY DEF Pointing!Masked, Pointing!Masks, Pointing!Pointers
<1>2. /\ q \in Pointing!Pointers /\ q.mask = Pointing!Masked(p.mask, down, b)
      /\ q.arr = p.arr /\ q.dragging = p.dragging
  BY <1>1 DEF Pointing!Pointers
<1> HIDE DEF q
<1>3. /\ d \in Pointing!Pointers /\ d.mask = q.mask /\ d.dragging = DraggedBy(p, down)
  BY <1>2 DEF Pointing!Dragged, DraggedBy, Pointing!Pointers
<1>4. Pointing!mouseButton(p, down, b) = IF (viewportDrag /\ d.dragging) \/ mouseViewOnly THEN d
                                         ELSE Pointing!flushClient(Pointing!pointerEvent(d))
  BY DEF Pointing!mouseButton, q
<1> HIDE DEF d
<1>5. LET e == Pointing!flushClient(Pointing!pointerEvent(d))
      IN /\ e \in Pointing!Pointers /\ e.mask = d.mask /\ e.dragging = d.dragging
         /\ e.arr = <<>> /\ e.server = d.mask
  BY <1>3, EventFacts, FlushFacts
<1> QED BY <1>2, <1>3, <1>4, <1>5

\* What a variable is told of a pointer.
LEMMA PointerFacts ==
  ASSUME Pointing!TypeOK
  PROVE  /\ Pointing!pointer \in Pointing!Pointers
         /\ Pointing!pointer.mask = mouse_buttonMask /\ Pointing!pointer.arr = mouse_arr
         /\ Pointing!pointer.dragging = viewportDragging /\ Pointing!pointer.server = serverMask
BY DEF Pointing!TypeOK, Pointing!pointer, Pointing!Pointers

LEMMA BecomesPointer ==
  ASSUME NEW p \in Pointing!Pointers, Pointing!Becomes(p)
  PROVE  /\ mouse_buttonMask' \in Pointing!Masks /\ mouse_arr' \in Seq(Pointing!Masks)
         /\ viewportDragging' \in BOOLEAN /\ serverMask' \in Pointing!Masks
         /\ mouse_buttonMask' = p.mask /\ mouse_arr' = p.arr
         /\ viewportDragging' = p.dragging /\ serverMask' = p.server
BY DEF Pointing!Becomes, Pointing!Pointers

-----------------------------------------------------------------------------
(* The steps.                                                              *)

\* A press or a release that the console sees.
LEMMA SeenButton ==
  ASSUME Pointing!MouseInv, NEW b \in Buttons, Pointing!Seen,
         Pointing!Becomes(Pointing!mouseButton(Pointing!pointer, b \notin buttonsHeld, b)),
         buttonsHeld' = IF b \in buttonsHeld THEN buttonsHeld \ {b} ELSE buttonsHeld \cup {b},
         UNCHANGED <<Pointing!conf, disturbed>>
  PROVE  Pointing!MouseInv'
<1> DEFINE down == b \notin buttonsHeld
           q == Pointing!mouseButton(Pointing!pointer, down, b)
<1>1. /\ viewportDrag \in BOOLEAN /\ mouseViewOnly \in BOOLEAN /\ Pointing!TypeOK
      /\ down \in BOOLEAN
  BY DEF Pointing!MouseInv, Pointing!TypeOK
<1>2. /\ q \in Pointing!Pointers /\ q.mask = Pointing!Masked(mouse_buttonMask, down, b)
      /\ q.dragging = DraggedBy(Pointing!pointer, down)
      /\ ~mouseViewOnly /\ ~q.dragging => q.arr = <<>> /\ q.server = q.mask
  <2>1. Pointing!pointer \in Pointing!Pointers /\ Pointing!pointer.mask = mouse_buttonMask
    BY <1>1, PointerFacts
  <2>2. b \in Buttons \cup {Wheel} OBVIOUS
  <2> HIDE DEF down
  <2> QED BY <1>1, <2>1, <2>2, ButtonFacts
<1>3. DraggedBy(Pointing!pointer, down) = IF viewportDrag THEN down /\ ~viewportDragging
                                          ELSE viewportDragging
  BY <1>1, PointerFacts DEF DraggedBy
<1> HIDE DEF q
<1>4. /\ mouse_buttonMask' \in Pointing!Masks /\ mouse_arr' \in Seq(Pointing!Masks)
      /\ viewportDragging' \in BOOLEAN /\ serverMask' \in Pointing!Masks
      /\ mouse_buttonMask' = q.mask /\ mouse_arr' = q.arr
      /\ viewportDragging' = q.dragging /\ serverMask' = q.server
  BY <1>2, BecomesPointer DEF q
<1>5. Pointing!TypeOK' BY <1>1, <1>4 DEF Pointing!TypeOK, Pointing!conf
<1>6. ~disturbed => mouse_buttonMask' = buttonsHeld'
  <2>1. ~disturbed => mouse_buttonMask = buttonsHeld
    BY DEF Pointing!MouseInv, Pointing!PointerTold, Pointing!Seen
  <2>2. mouse_buttonMask' = Pointing!Masked(mouse_buttonMask, down, b) BY <1>2, <1>4
  <2> QED BY <2>1, <2>2 DEF Pointing!Masked
<1>7. ~disturbed /\ viewportDragging' => viewportDrag /\ buttonsHeld' # {}
  BY <1>2, <1>3, <1>4
  DEF Pointing!MouseInv, Pointing!DragsInMode, Pointing!PointerTold, Pointing!Seen, Pointing!conf
<1>8. ~mouseViewOnly /\ ~viewportDragging' => Pointing!Told' = mouse_buttonMask'
  BY <1>2, <1>4 DEF Pointing!Told
<1> QED
  BY <1>5, <1>6, <1>7, <1>8
  DEF Pointing!MouseInv, Pointing!DragsInMode, Pointing!PointerTold, Pointing!conf

\* A press and a release of the wheel leave mask and drag as they were, if the
\* drag is in its mode.
LEMMA WheelStep ==
  ASSUME Pointing!MouseInv, Pointing!onMouseWheel, Wheel \notin Buttons
  PROVE  Pointing!MouseInv'
<1> DEFINE p == Pointing!mouseButton(Pointing!pointer, TRUE, Wheel)
           q == Pointing!mouseButton(p, FALSE, Wheel)
<1>1. /\ viewportDrag \in BOOLEAN /\ mouseViewOnly \in BOOLEAN /\ Pointing!TypeOK
      /\ Wheel \in Buttons \cup {Wheel}
  BY DEF Pointing!MouseInv, Pointing!TypeOK
<1>2. /\ Pointing!pointer \in Pointing!Pointers /\ Pointing!pointer.mask = mouse_buttonMask
      /\ Pointing!pointer.dragging = viewportDragging
  BY <1>1, PointerFacts
<1>3. /\ p \in Pointing!Pointers /\ p.mask = Pointing!Masked(mouse_buttonMask, TRUE, Wheel)
      /\ p.dragging = DraggedBy(Pointing!pointer, TRUE)
  BY <1>1, <1>2, ButtonFacts
<1> HIDE DEF p
<1>4. /\ q \in Pointing!Pointers /\ q.mask = Pointing!Masked(p.mask, FALSE, Wheel)
      /\ q.dragging = DraggedBy(p, FALSE)
      /\ ~mouseViewOnly /\ ~q.dragging => q.arr = <<>> /\ q.server = q.mask
  BY <1>1, <1>3, ButtonFacts
<1>5. q.dragging = IF viewportDrag THEN FALSE ELSE viewportDragging
  BY <1>1, <1>2, <1>3, <1>4 DEF DraggedBy
<1>6. q.mask = mouse_buttonMask \ {Wheel} BY <1>3, <1>4 DEF Pointing!Masked
<1>7. Pointing!Becomes(q) /\ mouseGrabbed /\ UNCHANGED <<Pointing!conf, buttonsHeld, disturbed>>
  BY DEF Pointing!onMouseWheel, Pointing!Seen, q, p
<1> HIDE DEF q
<1>8. /\ mouse_buttonMask' \in Pointing!Masks /\ mouse_arr' \in Seq(Pointing!Masks)
      /\ viewportDragging' \in BOOLEAN /\ serverMask' \in Pointing!Masks
      /\ mouse_buttonMask' = q.mask /\ mouse_arr' = q.arr
      /\ viewportDragging' = q.dragging /\ serverMask' = q.server
  BY <1>4, <1>7, BecomesPointer
<1>9. Pointing!TypeOK' BY <1>1, <1>7, <1>8 DEF Pointing!TypeOK, Pointing!conf
<1>10. ~disturbed => mouse_buttonMask' = buttonsHeld
  <2>1. ~disturbed => mouse_buttonMask = buttonsHeld
    BY <1>7 DEF Pointing!MouseInv, Pointing!PointerTold
  <2>2. buttonsHeld \subseteq Buttons BY <1>1 DEF Pointing!TypeOK
  <2> QED BY <1>6, <1>8, <2>1, <2>2
<1>11. ~viewportDragging' \/ (viewportDragging' = viewportDragging /\ ~viewportDrag)
  BY <1>5, <1>8
<1>12. ~mouseViewOnly /\ ~viewportDragging' => Pointing!Told' = mouse_buttonMask'
  BY <1>4, <1>8 DEF Pointing!Told
<1> QED
  BY <1>7, <1>9, <1>10, <1>11, <1>12
  DEF Pointing!MouseInv, Pointing!DragsInMode, Pointing!PointerTold, Pointing!conf

\* A move is put behind what is told, and sending does not change the last of it.
LEMMA MoveStep ==
  ASSUME Pointing!MouseInv, Pointing!onMouseMove
  PROVE  Pointing!MouseInv'
<1>1. Pointing!TypeOK BY DEF Pointing!MouseInv
<1>2. /\ Pointing!Becomes(Pointing!mouseMove(Pointing!pointer)) /\ mouseGrabbed
      /\ UNCHANGED <<Pointing!conf, buttonsHeld, disturbed>>
  BY DEF Pointing!onMouseMove, Pointing!Seen
<1>3. Pointing!pointer \in Pointing!Pointers /\ Pointing!pointer.dragging = viewportDragging
  BY <1>1, PointerFacts
<1>4. CASE viewportDragging \/ mouseViewOnly
  <2>1. Pointing!Becomes(Pointing!pointer) BY <1>2, <1>3, <1>4 DEF Pointing!mouseMove
  <2>2. UNCHANGED <<mouse_buttonMask, mouse_arr, viewportDragging, serverMask>>
    BY <2>1, <1>1, <1>3, PointerFacts, BecomesPointer
  <2> QED
    BY <1>2, <2>2
    DEF Pointing!MouseInv, Pointing!TypeOK, Pointing!DragsInMode, Pointing!PointerTold,
        Pointing!Told, Pointing!conf
<1>5. CASE ~viewportDragging /\ ~mouseViewOnly
  <2> DEFINE q == Pointing!pointerEvent(Pointing!pointer)
  <2>1. Pointing!Becomes(q) BY <1>2, <1>3, <1>5 DEF Pointing!mouseMove
  <2>2. /\ q \in Pointing!Pointers /\ q.mask = mouse_buttonMask /\ q.dragging = viewportDragging
        /\ q.arr # <<>> /\ q.arr[Len(q.arr)] = mouse_buttonMask
    BY <1>1, PointerFacts, EventFacts
  <2> HIDE DEF q
  <2>3. /\ mouse_buttonMask' \in Pointing!Masks /\ mouse_arr' \in Seq(Pointing!Masks)
        /\ viewportDragging' \in BOOLEAN /\ serverMask' \in Pointing!Masks
        /\ mouse_buttonMask' = q.mask /\ mouse_arr' = q.arr
        /\ viewportDragging' = q.dragging
    BY <2>1, <2>2, BecomesPointer
  <2>4. Pointing!TypeOK' BY <1>1, <1>2, <2>3 DEF Pointing!TypeOK, Pointing!conf
  <2>5. Pointing!Told' = mouse_buttonMask' BY <2>2, <2>3 DEF Pointing!Told
  <2> QED
    BY <1>2, <2>2, <2>3, <2>4, <2>5
    DEF Pointing!MouseInv, Pointing!DragsInMode, Pointing!PointerTold, Pointing!conf
<1> QED BY <1>1, <1>4, <1>5 DEF Pointing!TypeOK

LEMMA CheckStep ==
  ASSUME Pointing!MouseInv, Pointing!checkEvents
  PROVE  Pointing!MouseInv'
<1> DEFINE q == Pointing!flushClient(Pointing!pointer)
<1>1. Pointing!TypeOK BY DEF Pointing!MouseInv
<1>2. Pointing!Becomes(q) /\ mouseGrabbed /\ UNCHANGED <<Pointing!conf, buttonsHeld, disturbed>>
  BY DEF Pointing!checkEvents
<1>3. /\ q \in Pointing!Pointers /\ q.mask = mouse_buttonMask /\ q.dragging = viewportDragging
      /\ q.arr = <<>> /\ q.server = Pointing!Told
  BY <1>1, PointerFacts, FlushFacts DEF Pointing!Told
<1> HIDE DEF q
<1>4. /\ mouse_buttonMask' \in Pointing!Masks /\ mouse_arr' \in Seq(Pointing!Masks)
      /\ viewportDragging' \in BOOLEAN /\ serverMask' \in Pointing!Masks
      /\ mouse_buttonMask' = q.mask /\ mouse_arr' = q.arr
      /\ viewportDragging' = q.dragging /\ serverMask' = q.server
  BY <1>2, <1>3, BecomesPointer
<1>5. Pointing!TypeOK' BY <1>1, <1>2, <1>4 DEF Pointing!TypeOK, Pointing!conf
<1>6. Pointing!Told' = Pointing!Told BY <1>3, <1>4 DEF Pointing!Told
<1> QED
  BY <1>2, <1>3, <1>4, <1>5, <1>6
  DEF Pointing!MouseInv, Pointing!DragsInMode, Pointing!PointerTold, Pointing!conf

\* A new session starts with nothing told, nothing down and no drag - or it is
\* disturbed.
LEMMA GrabStep ==
  ASSUME Pointing!MouseInv, NEW only \in BOOLEAN, Pointing!Grab(only)
  PROVE  Pointing!MouseInv'
<1> DEFINE q == Pointing!InitVars(Pointing!pointer)
<1>1. Pointing!TypeOK BY DEF Pointing!MouseInv
<1>2. /\ Pointing!Becomes(q) /\ mouseViewOnly' = only /\ mouseGrabbed'
      /\ disturbed' = (buttonsHeld # {} \/ viewportDragging)
      /\ UNCHANGED <<viewportDrag, mouseFocused, buttonsHeld>>
  BY DEF Pointing!Grab
<1>3. {} \in Pointing!Masks /\ <<>> \in Seq(Pointing!Masks) BY DEF Pointing!Masks
<1>4. /\ q \in Pointing!Pointers /\ q.mask = {} /\ q.arr = <<>> /\ q.server = {}
      /\ q.dragging = viewportDragging
  BY <1>1, <1>3, PointerFacts DEF Pointing!InitVars, Pointing!Reset, Pointing!Pointers
<1> HIDE DEF q
<1>5. /\ mouse_buttonMask' = {} /\ mouse_arr' = <<>> /\ serverMask' = {}
      /\ viewportDragging' = viewportDragging
  BY <1>2, <1>4, BecomesPointer
<1>6. Pointing!TypeOK' BY <1>1, <1>2, <1>3, <1>5 DEF Pointing!TypeOK, Pointing!Grab
<1> QED
  BY <1>1, <1>2, <1>5, <1>6
  DEF Pointing!MouseInv, Pointing!TypeOK, Pointing!DragsInMode, Pointing!PointerTold, Pointing!Told

LEMMA ButtonStep ==
  ASSUME Pointing!MouseInv, NEW b \in Buttons, NEW inside \in BOOLEAN, Pointing!Button(b, inside)
  PROVE  Pointing!MouseInv'
<1>1. /\ buttonsHeld' = (IF b \in buttonsHeld THEN buttonsHeld \ {b} ELSE buttonsHeld \cup {b})
      /\ UNCHANGED Pointing!conf
  BY DEF Pointing!Button
<1>2. CASE Pointing!Seen /\ inside
  <2>1. /\ Pointing!Becomes(Pointing!mouseButton(Pointing!pointer, b \notin buttonsHeld, b))
        /\ UNCHANGED disturbed
    BY <1>2 DEF Pointing!Button
  <2> QED BY <1>1, <1>2, <2>1, SeenButton
<1>3. CASE ~(Pointing!Seen /\ inside)
  <2>1. Pointing!TypeOK BY DEF Pointing!MouseInv
  <2>2. Pointing!Becomes(Pointing!pointer) /\ disturbed' = TRUE BY <1>3 DEF Pointing!Button
  <2>3. UNCHANGED <<mouse_buttonMask, mouse_arr, viewportDragging, serverMask>>
    BY <2>1, <2>2, PointerFacts, BecomesPointer
  <2>4. Pointing!TypeOK' BY <1>1, <2>1, <2>2, <2>3 DEF Pointing!TypeOK, Pointing!conf
  <2> QED
    BY <1>1, <2>2, <2>3, <2>4
    DEF Pointing!MouseInv, Pointing!DragsInMode, Pointing!PointerTold, Pointing!Told, Pointing!conf
<1> QED BY <1>2, <1>3

\* Switching the drag mode while a button is down disturbs the session.
LEMMA ModeStep ==
  ASSUME Pointing!MouseInv, NEW on \in BOOLEAN,
         Pointing!setViewDrag(on) \/ Pointing!SetFocused(on) \/ Pointing!Ungrab
  PROVE  Pointing!MouseInv'
<1>1. CASE Pointing!setViewDrag(on)
  BY <1>1
  DEF Pointing!setViewDrag, Pointing!MouseInv, Pointing!TypeOK, Pointing!DragsInMode,
      Pointing!PointerTold, Pointing!Told
<1>2. CASE Pointing!SetFocused(on)
  BY <1>2
  DEF Pointing!SetFocused, Pointing!MouseInv, Pointing!TypeOK, Pointing!DragsInMode,
      Pointing!PointerTold, Pointing!Told
<1>3. CASE Pointing!Ungrab
  BY <1>3
  DEF Pointing!Ungrab, Pointing!MouseInv, Pointing!TypeOK, Pointing!DragsInMode,
      Pointing!PointerTold, Pointing!Told
<1> QED BY <1>1, <1>2, <1>3

-----------------------------------------------------------------------------

\* The initial state has no button down.
LEMMA MouseInitially == Pointing!Init => Pointing!MouseInv
<1>1. {} \in Pointing!Masks /\ <<>> \in Seq(Pointing!Masks) BY DEF Pointing!Masks
<1>2. Pointing!Init => Pointing!TypeOK BY <1>1 DEF Pointing!Init, Pointing!TypeOK
<1> QED BY <1>2 DEF Pointing!Init, Pointing!MouseInv, Pointing!DragsInMode, Pointing!PointerTold

\* Each action of Mouse keeps MouseInv.
LEMMA MouseStep == Pointing!MouseInv /\ [Pointing!Next]_(Pointing!vars) => Pointing!MouseInv'
<1> SUFFICES ASSUME Pointing!MouseInv, [Pointing!Next]_(Pointing!vars) PROVE Pointing!MouseInv'
  OBVIOUS
<1>1. ASSUME NEW b \in Buttons, NEW inside \in BOOLEAN, Pointing!Button(b, inside) PROVE Pointing!MouseInv'
  BY <1>1, ButtonStep
<1>2. ASSUME NEW on \in BOOLEAN, Pointing!setViewDrag(on) PROVE Pointing!MouseInv' BY <1>2, ModeStep
<1>3. ASSUME NEW on \in BOOLEAN, Pointing!SetFocused(on) PROVE Pointing!MouseInv' BY <1>3, ModeStep
<1>4. ASSUME NEW on \in BOOLEAN, Pointing!Grab(on) PROVE Pointing!MouseInv' BY <1>4, GrabStep
<1>5. CASE Pointing!onMouseWheel BY <1>5, WheelStep, ConsoleAssumption DEF Pointing!MouseAssumption
<1>6. CASE Pointing!onMouseMove BY <1>6, MoveStep
<1>7. CASE Pointing!checkEvents BY <1>7, CheckStep
<1>8. CASE Pointing!Ungrab BY <1>8, ModeStep
<1>9. CASE UNCHANGED Pointing!vars
  BY <1>9
  DEF Pointing!vars, Pointing!conf, Pointing!MouseInv, Pointing!TypeOK, Pointing!DragsInMode,
      Pointing!PointerTold, Pointing!Told
<1> QED BY <1>1, <1>2, <1>3, <1>4, <1>5, <1>6, <1>7, <1>8, <1>9 DEF Pointing!Next

\* PointerTold holds always, whatever the buttons are and however presses,
\* moves, drags, focus and sessions interleave: the guest has the buttons that
\* are down, but for a drag of the viewport and for what the console never saw.
THEOREM ButtonsTold == ConsoleSpec => []PointerTold
<1>1. ConsoleInit => Pointing!MouseInv BY MouseInitially DEF ConsoleInit
<1>2. Pointing!MouseInv /\ [ConsoleNext]_consoleVars => Pointing!MouseInv'
  BY MouseStep DEF ConsoleNext, ViewSteps, KeysSteps, MouseSteps, PageSteps, ScriptsSteps,
                 SettingsSteps, AuthSteps, consoleVars, mouseVars, Pointing!vars, Pointing!conf
<1>3. Pointing!MouseInv => PointerTold BY DEF Pointing!MouseInv, PointerTold
<1> QED BY <1>1, <1>2, <1>3, PTL DEF ConsoleSpec

-----------------------------------------------------------------------------
(* Page: panels and modes.                                                 *)

\* q differs from p in panels, settings and the display, which clips as before.
Keeps(q, p) == /\ q \in Ui!Pages /\ q.state = p.state /\ q.drag = p.drag
               /\ Ui!Clips(p) => Ui!Clips(q)
\* q differs from p in nothing but settings and the display.
SamePanels(q, p) == /\ q.settings = p.settings /\ q.connect = p.connect
                    /\ q.clipboard = p.clipboard

-----------------------------------------------------------------------------
(* The handlers.                                                           *)

\* The functions of ui.js: which panels, settings and modes they leave.
LEMMA UpdateSettingFacts ==
  ASSUME NEW p \in Ui!Pages, NEW value \in BOOLEAN
  PROVE  /\ Keeps(Ui!updateSetting(p, "cursor", value), p)
         /\ SamePanels(Ui!updateSetting(p, "cursor", value), p)
<1>1. /\ [p.saved EXCEPT !["cursor"] = value] \in [PageSettings -> BOOLEAN]
      /\ [p.control EXCEPT !["cursor"] = value] \in [PageSettings -> BOOLEAN]
      /\ [p.saved EXCEPT !["cursor"] = value]["clip"] = p.saved["clip"]
  BY ConsoleAssumption DEF Ui!Pages, Ui!PageAssumption
<1> QED BY <1>1 DEF Ui!updateSetting, Keeps, SamePanels, Ui!Clips, Ui!Pages

LEMMA SetViewClipFacts ==
  ASSUME NEW p \in Ui!Pages
  PROVE  /\ Ui!setViewClip(p) \in Ui!Pages /\ Ui!setViewClip(p).state = p.state
         /\ Ui!setViewClip(p).drag = p.drag
         /\ Ui!Clips(Ui!setViewClip(p)) /\ SamePanels(Ui!setViewClip(p), p)
<1> DEFINE shown == IF p.saved["clip"] = p.viewport THEN p.control["clip"] ELSE p.saved["clip"]
<1>1. shown \in BOOLEAN /\ p.saved["clip"] \in BOOLEAN
  BY ConsoleAssumption DEF Ui!Pages, Ui!PageAssumption
<1>2. Ui!setViewClip(p) = [p EXCEPT !.viewport = p.saved["clip"],
                                    !.control = [p.control EXCEPT !["clip"] = shown]]
  BY DEF Ui!setViewClip, Ui!Pages
<1> HIDE DEF shown
<1>3. [p.control EXCEPT !["clip"] = shown] \in [PageSettings -> BOOLEAN] BY <1>1 DEF Ui!Pages
<1> QED BY <1>1, <1>2, <1>3 DEF SamePanels, Ui!Clips, Ui!Pages

LEMMA ApplyFacts ==
  ASSUME NEW p \in Ui!Pages
  PROVE  /\ Ui!settingsApply(p) \in Ui!Pages /\ Ui!settingsApply(p).state = p.state
         /\ Ui!settingsApply(p).drag = p.drag
         /\ Ui!Clips(Ui!settingsApply(p)) /\ SamePanels(Ui!settingsApply(p), p)
<1>1. [s \in PageSettings |-> IF s = "cursor" /\ ~CursorUri THEN p.saved[s] ELSE p.control[s]]
        \in [PageSettings -> BOOLEAN]
  BY DEF Ui!Pages
<1>2. /\ Ui!saveSettings(p) \in Ui!Pages /\ Ui!saveSettings(p).state = p.state
      /\ Ui!saveSettings(p).drag = p.drag /\ SamePanels(Ui!saveSettings(p), p)
  BY <1>1 DEF Ui!saveSettings, SamePanels, Ui!Pages
<1> QED BY <1>2, SetViewClipFacts DEF Ui!settingsApply, SamePanels

LEMMA CloseSettingsFacts ==
  ASSUME NEW p \in Ui!Pages
  PROVE  /\ Keeps(Ui!CloseSettings(p), p) /\ Ui!CloseSettings(p).settings = FALSE
         /\ Ui!CloseSettings(p).connect = p.connect /\ Ui!CloseSettings(p).clipboard = p.clipboard
<1>1. CASE p.settings
  <2> DEFINE q == Ui!settingsApply(p)
  <2>1. q \in Ui!Pages /\ q.state = p.state /\ q.drag = p.drag /\ Ui!Clips(q) /\ SamePanels(q, p)
    BY ApplyFacts
  <2>2. Ui!CloseSettings(p) = [q EXCEPT !.settings = FALSE]
    BY <1>1 DEF Ui!CloseSettings, Ui!closeSettingsMenu
  <2> HIDE DEF q
  <2> QED BY <2>1, <2>2 DEF Keeps, SamePanels, Ui!Clips, Ui!Pages
<1>2. CASE ~p.settings BY <1>2 DEF Ui!CloseSettings, Keeps, Ui!Pages
<1> QED BY <1>1, <1>2 DEF Ui!Pages

LEMMA ClipboardFacts ==
  ASSUME NEW p \in Ui!Pages
  PROVE  LET q == Ui!toggleClipboardPanel(p)
         IN /\ Keeps(q, p) /\ q.settings = FALSE /\ q.connect = FALSE
            /\ q.clipboard = ~p.clipboard
<1> DEFINE c == Ui!CloseSettings(p)
           r == IF c.connect THEN [c EXCEPT !.connect = FALSE] ELSE c
<1>1. Keeps(c, p) /\ c.settings = FALSE /\ c.clipboard = p.clipboard
  BY CloseSettingsFacts
<1>2. Ui!toggleClipboardPanel(p) = [r EXCEPT !.clipboard = ~@] BY DEF Ui!toggleClipboardPanel
<1> HIDE DEF c
<1>3. /\ Keeps(r, p) /\ r.settings = FALSE /\ r.connect = FALSE
      /\ r.clipboard = p.clipboard
  BY <1>1 DEF Keeps, Ui!Clips, Ui!Pages
<1> HIDE DEF r
<1> QED BY <1>2, <1>3 DEF Keeps, Ui!Clips, Ui!Pages

LEMMA ConnectPanelFacts ==
  ASSUME NEW p \in Ui!Pages
  PROVE  LET q == Ui!ToggledConnect(p)
         IN /\ Keeps(q, p) /\ q.settings = FALSE /\ q.clipboard = FALSE
            /\ q.connect = ~p.connect
<1> DEFINE c == Ui!CloseSettings(p)
           r == IF c.clipboard THEN [c EXCEPT !.clipboard = FALSE] ELSE c
<1>1. Keeps(c, p) /\ c.settings = FALSE /\ c.connect = p.connect
  BY CloseSettingsFacts
<1>2. Ui!ToggledConnect(p) = [r EXCEPT !.connect = ~@]
  BY DEF Ui!ToggledConnect, Ui!toggleConnectPanel
<1> HIDE DEF c
<1>3. /\ Keeps(r, p) /\ r.settings = FALSE /\ r.clipboard = FALSE
      /\ r.connect = p.connect
  BY <1>1 DEF Keeps, Ui!Clips, Ui!Pages
<1> HIDE DEF r
<1> QED BY <1>2, <1>3 DEF Keeps, Ui!Clips, Ui!Pages

LEMMA OpenSettingsFacts ==
  ASSUME NEW p \in Ui!Pages
  PROVE  Keeps(Ui!openSettingsMenu(p), p) /\ Ui!OnePanel(Ui!openSettingsMenu(p))
<1> DEFINE q == IF p.clipboard THEN Ui!toggleClipboardPanel(p) ELSE p
           r == IF q.connect THEN Ui!ToggledConnect(q) ELSE q
<1>1. Keeps(q, p) /\ q.clipboard = FALSE
  BY ClipboardFacts DEF Keeps, Ui!Pages
<1>2. Ui!openSettingsMenu(p) = [r EXCEPT !.settings = TRUE] BY DEF Ui!openSettingsMenu
<1> HIDE DEF q
<1>3. Keeps(r, q) /\ r.clipboard = FALSE /\ r.connect = FALSE
  BY <1>1, ConnectPanelFacts DEF Keeps, Ui!Pages
<1> HIDE DEF r
<1> QED BY <1>1, <1>2, <1>3 DEF Keeps, Ui!OnePanel, Ui!Clips, Ui!Pages

LEMMA SettingsPanelFacts ==
  ASSUME NEW p \in Ui!Pages, Ui!OnePanel(p)
  PROVE  Keeps(Ui!toggleSettingsPanel(p), p) /\ Ui!OnePanel(Ui!toggleSettingsPanel(p))
<1> DEFINE q == Ui!Refreshed(p, PageSettings)
           r == IF CursorUri THEN q ELSE Ui!updateSetting(q, "cursor", FALSE)
<1>1. CASE p.settings
  BY <1>1, CloseSettingsFacts DEF Ui!toggleSettingsPanel, Ui!OnePanel
<1>2. CASE ~p.settings
  <2>1. [s \in PageSettings |-> IF s \in PageSettings THEN p.saved[s] ELSE p.control[s]]
          \in [PageSettings -> BOOLEAN]
    BY DEF Ui!Pages
  <2>2. Keeps(q, p) BY <2>1 DEF Ui!Refreshed, Keeps, Ui!Clips, Ui!Pages
  <2>3. Ui!toggleSettingsPanel(p) = Ui!openSettingsMenu(r) BY <1>2 DEF Ui!toggleSettingsPanel
  <2> HIDE DEF q
  <2>4. Keeps(r, q) BY <2>2, UpdateSettingFacts DEF Keeps
  <2> HIDE DEF r
  <2>5. Keeps(Ui!openSettingsMenu(r), r) /\ Ui!OnePanel(Ui!openSettingsMenu(r))
    BY <2>4, OpenSettingsFacts DEF Keeps
  <2> QED BY <2>2, <2>3, <2>4, <2>5 DEF Keeps
<1> QED BY <1>1, <1>2

\* updateVisualState ends the drag mode.
LEMMA VisualFacts ==
  ASSUME NEW p \in Ui!Pages
  PROVE  LET q == Ui!updateVisualState(p)
         IN /\ q \in Ui!Pages /\ q.state = p.state /\ q.drag = FALSE
            /\ SamePanels(q, p) /\ (Ui!Clips(p) => Ui!Clips(q))
<1> DEFINE q == IF CursorUri THEN p ELSE Ui!updateSetting(p, "cursor", FALSE)
           r == IF q.state = "normal" THEN Ui!setViewClip(q) ELSE q
<1>1. Keeps(q, p) /\ SamePanels(q, p)
  BY UpdateSettingFacts DEF Keeps, SamePanels
<1>2. Ui!updateVisualState(p) = [r EXCEPT !.drag = FALSE]
  BY DEF Ui!updateVisualState, Ui!setViewDrag
<1> HIDE DEF q
<1>3. Keeps(r, q) /\ SamePanels(r, q)
  BY <1>1, SetViewClipFacts DEF Keeps, SamePanels
<1> HIDE DEF r
<1> QED BY <1>1, <1>2, <1>3 DEF Keeps, SamePanels, Ui!Clips, Ui!Pages

LEMMA StateFacts ==
  ASSUME NEW p \in Ui!Pages, NEW state \in Ui!States, Ui!OnePanel(p)
  PROVE  LET q == Ui!updateState(p, state)
         IN /\ q \in Ui!Pages /\ q.state = state /\ q.drag = FALSE
            /\ Ui!OnePanel(q) /\ (Ui!Clips(p) => Ui!Clips(q))
            /\ q.settings => p.settings
<1> DEFINE q == [p EXCEPT !.state = state]
           r == IF state = "password" THEN [Ui!ToggledConnect(q) EXCEPT !.button = "setPassword"] ELSE q
<1>1. /\ q \in Ui!Pages /\ q.state = state /\ SamePanels(q, p) /\ (Ui!Clips(p) => Ui!Clips(q))
  BY DEF Ui!Pages, SamePanels, Ui!Clips
<1>2. Ui!updateState(p, state) = Ui!updateVisualState(r) BY DEF Ui!updateState
<1> HIDE DEF q
<1>3. CASE state = "password"
  <2> DEFINE t == Ui!ToggledConnect(q)
  <2>1. Keeps(t, q) /\ t.settings = FALSE /\ t.clipboard = FALSE BY <1>1, ConnectPanelFacts
  <2>2. r = [t EXCEPT !.button = "setPassword"] BY <1>3
  <2> HIDE DEF t, r
  <2>3. /\ t \in Ui!Pages /\ t.state = state /\ (Ui!Clips(q) => Ui!Clips(t)) BY <1>1, <2>1 DEF Keeps
  <2>4. /\ r \in Ui!Pages /\ r.state = state /\ r.settings = FALSE /\ r.clipboard = FALSE
        /\ r.viewport = t.viewport /\ r.saved = t.saved
    BY <2>1, <2>2, <2>3 DEF Ui!Pages, Ui!Meanings
  <2>5. Ui!OnePanel(r) /\ (Ui!Clips(q) => Ui!Clips(r)) BY <2>3, <2>4 DEF Ui!OnePanel, Ui!Clips
  <2> QED BY <1>1, <1>2, <2>4, <2>5, VisualFacts DEF Ui!OnePanel, SamePanels
<1>4. CASE state # "password"
  <2>1. r = q /\ Ui!OnePanel(q) BY <1>1, <1>4 DEF Ui!OnePanel, SamePanels
  <2> HIDE DEF r
  <2> QED BY <1>1, <1>2, <2>1, VisualFacts DEF Ui!OnePanel, SamePanels
<1> QED BY <1>3, <1>4

-----------------------------------------------------------------------------
(* The steps.                                                              *)

\* A step that leaves a good page behind keeps the invariant.
LEMMA BecomesPage ==
  ASSUME NEW p \in Ui!Pages, Ui!Becomes(p), Ui!OnePanel(p), p.state # "none" => Ui!Clips(p),
         p.drag => p.state = "normal"
  PROVE  Ui!PageInv'
<1>1. p = [state |-> p.state, settings |-> p.settings, connect |-> p.connect,
           clipboard |-> p.clipboard, button |-> p.button, saved |-> p.saved,
           control |-> p.control, viewport |-> p.viewport, drag |-> p.drag]
  BY DEF Ui!Pages
<1>2. Ui!page' = p BY <1>1 DEF Ui!Becomes, Ui!page
<1> QED BY <1>2 DEF Ui!PageInv

\* A handler that leaves state and drag mode as they are, and one panel at most.
LEMMA HandlerStep ==
  ASSUME Ui!PageInv, NEW p, Keeps(p, Ui!page), Ui!OnePanel(p), Ui!Becomes(p)
  PROVE  Ui!PageInv'
BY BecomesPage DEF Ui!PageInv, Keeps

LEMMA PanelSteps ==
  ASSUME Ui!PageInv, Ui!ClickClipboard \/ Ui!ClickSettings \/ Ui!ClickConnectPanel
  PROVE  Ui!PageInv'
<1>1. Ui!page \in Ui!Pages /\ Ui!OnePanel(Ui!page) BY DEF Ui!PageInv
<1>2. CASE Ui!ClickClipboard
  BY <1>1, <1>2, ClipboardFacts, HandlerStep DEF Ui!ClickClipboard, Ui!OnePanel
<1>3. CASE Ui!ClickSettings
  BY <1>1, <1>3, SettingsPanelFacts, HandlerStep DEF Ui!ClickSettings
<1>4. CASE Ui!ClickConnectPanel
  BY <1>1, <1>4, ConnectPanelFacts, HandlerStep DEF Ui!ClickConnectPanel, Ui!OnePanel
<1> QED BY <1>2, <1>3, <1>4

LEMMA DisplaySteps ==
  ASSUME Ui!PageInv, Ui!ClickDrag \/ Ui!ClickApply \/ Ui!Resize
  PROVE  Ui!PageInv'
<1>1. Ui!page \in Ui!Pages /\ Ui!OnePanel(Ui!page) BY DEF Ui!PageInv
<1>2. CASE Ui!ClickDrag
  <2> DEFINE q == [Ui!page EXCEPT !.drag = ~pageDrag]
  <2>1. pageDrag \in BOOLEAN BY <1>1 DEF Ui!page, Ui!Pages
  <2>2. Ui!page.state = "normal" BY <1>2 DEF Ui!ClickDrag, Ui!Connected, Ui!page
  <2>3. /\ q \in Ui!Pages /\ Ui!OnePanel(q) /\ q.state = "normal"
        /\ (Ui!Clips(Ui!page) => Ui!Clips(q))
    BY <1>1, <2>1, <2>2 DEF Ui!Pages, Ui!OnePanel, Ui!Clips
  <2>4. Ui!Becomes(q) BY <1>2 DEF Ui!ClickDrag, Ui!setViewDrag
  <2> HIDE DEF q
  <2> QED BY <2>2, <2>3, <2>4, BecomesPage DEF Ui!PageInv
<1>3. CASE Ui!ClickApply
  BY <1>1, <1>3, ApplyFacts, HandlerStep DEF Ui!ClickApply, Keeps, SamePanels, Ui!OnePanel
<1>4. CASE Ui!Resize
  BY <1>1, <1>4, SetViewClipFacts, HandlerStep DEF Ui!Resize, Keeps, SamePanels, Ui!OnePanel
<1> QED BY <1>2, <1>3, <1>4

LEMMA EditStep ==
  ASSUME Ui!PageInv, NEW s \in PageSettings, NEW value \in BOOLEAN, Ui!Edit(s, value)
  PROVE  Ui!PageInv'
<1> DEFINE q == [Ui!page EXCEPT !.control = [Ui!page.control EXCEPT ![s] = value]]
<1>1. Ui!page \in Ui!Pages /\ Ui!OnePanel(Ui!page) BY DEF Ui!PageInv
<1>2. [Ui!page.control EXCEPT ![s] = value] \in [PageSettings -> BOOLEAN] BY <1>1 DEF Ui!Pages
<1>3. Ui!Becomes(q) BY <1>1 DEF Ui!Edit, Ui!Pages
<1>4. Keeps(q, Ui!page) /\ Ui!OnePanel(q) BY <1>1, <1>2 DEF Keeps, Ui!OnePanel, Ui!Clips, Ui!Pages
<1> HIDE DEF q
<1> QED BY <1>3, <1>4, HandlerStep

\* UI.connect, UI.setPassword and UI.disconnect close panels and may change the
\* state.
LEMMA ConnectStep ==
  ASSUME Ui!PageInv, NEW host \in BOOLEAN, Ui!Connect(host)
  PROVE  Ui!PageInv'
<1> DEFINE shut == Ui!closeSettingsMenu(Ui!page)
           closed == Ui!ToggledConnect(shut)
<1>1. Ui!page \in Ui!Pages /\ Ui!OnePanel(Ui!page) BY DEF Ui!PageInv
<1>2. shut \in Ui!Pages /\ Keeps(shut, Ui!page) /\ shut.connect = Ui!page.connect
  BY <1>1 DEF Ui!closeSettingsMenu, Keeps, Ui!Clips, Ui!Pages
<1>3. Ui!page.connect /\ Ui!page.state \in Ui!Idle BY DEF Ui!Connect, Ui!page
<1>4. Ui!Becomes(IF host THEN Ui!updateState(closed, "connect") ELSE closed) BY DEF Ui!Connect
<1> HIDE DEF shut
<1>5. Keeps(closed, shut) /\ Ui!OnePanel(closed) BY <1>2, ConnectPanelFacts DEF Ui!OnePanel
<1> HIDE DEF closed
<1>6. Keeps(closed, Ui!page) BY <1>2, <1>5 DEF Keeps
<1>7. CASE ~host BY <1>4, <1>5, <1>6, <1>7, HandlerStep
<1>8. CASE host
  <2> DEFINE q == Ui!updateState(closed, "connect")
  <2>1. "connect" \in Ui!States /\ closed \in Ui!Pages BY <1>6 DEF Keeps, Ui!States
  <2>2. /\ q \in Ui!Pages /\ q.state = "connect" /\ q.drag = FALSE /\ Ui!OnePanel(q)
        /\ (Ui!Clips(closed) => Ui!Clips(q))
    BY <1>5, <2>1, StateFacts
  <2>3. Ui!Becomes(q) BY <1>4, <1>8
  <2>4. Ui!Clips(Ui!page) => Ui!Clips(closed) BY <1>6 DEF Keeps
  <2>5. Ui!page.state # "none" BY <1>3 DEF Ui!Idle
  <2> HIDE DEF q
  <2> QED BY <2>2, <2>3, <2>4, <2>5, BecomesPage DEF Ui!PageInv
<1> QED BY <1>7, <1>8

LEMMA SetPasswordStep ==
  ASSUME Ui!PageInv, Ui!SetPassword
  PROVE  Ui!PageInv'
<1> DEFINE p == [Ui!page EXCEPT !.button = "nothing"]
           q == Ui!ToggledConnect(p)
<1>1. Ui!page \in Ui!Pages BY DEF Ui!PageInv
<1>2. Keeps(p, Ui!page) BY <1>1 DEF Keeps, Ui!Clips, Ui!Pages, Ui!Meanings
<1>3. Ui!Becomes(q) BY DEF Ui!SetPassword
<1> HIDE DEF p
<1>4. Keeps(q, p) /\ Ui!OnePanel(q) BY <1>2, ConnectPanelFacts DEF Keeps, Ui!OnePanel
<1> HIDE DEF q
<1> QED BY <1>2, <1>3, <1>4, HandlerStep DEF Keeps

LEMMA DisconnectStep ==
  ASSUME Ui!PageInv, Ui!Disconnect
  PROVE  Ui!PageInv'
<1> DEFINE shut == Ui!closeSettingsMenu(Ui!page)
           u == Ui!updateState(shut, "disconnect")
           p == [u EXCEPT !.connect = FALSE]
           q == Ui!ToggledConnect(p)
<1>1. Ui!page \in Ui!Pages /\ Ui!OnePanel(Ui!page) BY DEF Ui!PageInv
<1>2. /\ shut \in Ui!Pages /\ Ui!OnePanel(shut) /\ (Ui!Clips(Ui!page) => Ui!Clips(shut))
  BY <1>1 DEF Ui!closeSettingsMenu, Ui!OnePanel, Ui!Clips, Ui!Pages
<1>3. Ui!page.state # "none" BY DEF Ui!Disconnect, Ui!page
<1>4. Ui!Becomes(q) BY DEF Ui!Disconnect, Ui!ToggledConnect
<1>5. "disconnect" \in Ui!States BY DEF Ui!States
<1> HIDE DEF shut
<1>6. /\ u \in Ui!Pages /\ u.state = "disconnect" /\ u.drag = FALSE
      /\ (Ui!Clips(shut) => Ui!Clips(u))
  BY <1>2, <1>5, StateFacts
<1> HIDE DEF u
<1>7. /\ p \in Ui!Pages /\ p.state = "disconnect" /\ p.drag = FALSE
      /\ (Ui!Clips(u) => Ui!Clips(p))
  BY <1>6 DEF Ui!Clips, Ui!Pages
<1> HIDE DEF p
<1>8. Keeps(q, p) /\ Ui!OnePanel(q) BY <1>7, ConnectPanelFacts DEF Ui!OnePanel
<1> HIDE DEF q
<1> QED BY <1>2, <1>3, <1>4, <1>6, <1>7, <1>8, BecomesPage DEF Ui!PageInv, Keeps

\* A state of rfb.js follows another one, so the page is loaded.
LEMMA StateStep ==
  ASSUME Ui!PageInv, NEW state \in Ui!States, Ui!StateChanges(state)
  PROVE  Ui!PageInv'
<1> DEFINE q == Ui!updateState(Ui!page, state)
<1>1. Ui!page \in Ui!Pages /\ Ui!OnePanel(Ui!page) BY DEF Ui!PageInv
<1>2. Ui!page.state # "none" BY DEF Ui!StateChanges, Ui!Follows, Ui!page
<1>3. /\ q \in Ui!Pages /\ q.drag = FALSE /\ Ui!OnePanel(q) /\ (Ui!Clips(Ui!page) => Ui!Clips(q))
  BY <1>1, StateFacts
<1>4. Ui!Becomes(q) BY DEF Ui!StateChanges
<1> HIDE DEF q
<1> QED BY <1>2, <1>3, <1>4, BecomesPage DEF Ui!PageInv

LEMMA LoadStep ==
  ASSUME Ui!PageInv, Ui!Load
  PROVE  Ui!PageInv'
<1> DEFINE less == [saved EXCEPT !["cursor"] = FALSE]
           loaded == [state |-> "loaded", settings |-> FALSE, connect |-> FALSE,
                      clipboard |-> FALSE, button |-> "connect", saved |-> less,
                      control |-> less, viewport |-> FALSE, drag |-> FALSE]
           u == Ui!updateVisualState(loaded)
           p == Ui!setViewClip(u)
           q == Ui!ToggledConnect(p)
<1>1. less \in [PageSettings -> BOOLEAN] BY DEF Ui!PageInv, Ui!page, Ui!Pages
<1>2. Ui!Becomes(q) BY DEF Ui!Load, Ui!ToggledConnect
<1> HIDE DEF less
<1>3. loaded \in Ui!Pages /\ loaded.state = "loaded" BY <1>1 DEF Ui!Pages, Ui!States, Ui!Meanings
<1> HIDE DEF loaded
<1>4. u \in Ui!Pages /\ u.state = "loaded" /\ u.drag = FALSE BY <1>3, VisualFacts
<1> HIDE DEF u
<1>5. p \in Ui!Pages /\ p.drag = FALSE /\ Ui!Clips(p) BY <1>4, SetViewClipFacts
<1> HIDE DEF p
<1>6. Keeps(q, p) /\ Ui!OnePanel(q) BY <1>5, ConnectPanelFacts DEF Ui!OnePanel
<1> HIDE DEF q
<1> QED BY <1>2, <1>5, <1>6, BecomesPage DEF Keeps

-----------------------------------------------------------------------------

\* There is no page to begin with.
LEMMA PageInitially == Ui!Init => Ui!PageInv
  BY DEF Ui!Init, Ui!PageInv, Ui!page, Ui!Pages, Ui!States, Ui!Meanings, Ui!OnePanel

\* Each action of Page keeps PageInv.
LEMMA PageStep == Ui!PageInv /\ [Ui!Next]_(Ui!vars) => Ui!PageInv'
<1> SUFFICES ASSUME Ui!PageInv, [Ui!Next]_(Ui!vars) PROVE Ui!PageInv' OBVIOUS
<1>1. CASE Ui!Load BY <1>1, LoadStep
<1>2. CASE Ui!ClickClipboard \/ Ui!ClickSettings \/ Ui!ClickConnectPanel BY <1>2, PanelSteps
<1>3. CASE Ui!ClickDrag \/ Ui!ClickApply \/ Ui!Resize BY <1>3, DisplaySteps
<1>4. ASSUME NEW host \in BOOLEAN, Ui!Connect(host) PROVE Ui!PageInv' BY <1>4, ConnectStep
<1>5. CASE Ui!SetPassword BY <1>5, SetPasswordStep
<1>6. CASE Ui!Disconnect BY <1>6, DisconnectStep
<1>7. ASSUME NEW s \in PageSettings, NEW value \in BOOLEAN, Ui!Edit(s, value) PROVE Ui!PageInv'
  BY <1>7, EditStep
<1>8. ASSUME NEW state \in Ui!States, Ui!StateChanges(state) PROVE Ui!PageInv' BY <1>8, StateStep
<1>9. CASE UNCHANGED Ui!vars
  <2>1. Ui!page' = Ui!page BY <1>9 DEF Ui!vars, Ui!panels, Ui!modes, Ui!page
  <2> QED BY <2>1 DEF Ui!PageInv
<1> QED BY <1>1, <1>2, <1>3, <1>4, <1>5, <1>6, <1>7, <1>8, <1>9 DEF Ui!Next, Ui!States

\* Whatever settings there are, whatever the user clicks and whenever the state
\* changes: one panel at most, the display clips as the saved setting says, and
\* the viewport is dragged in a session only.
THEOREM PageStaysConsistent == ConsoleSpec => []PanelsAndModes
<1>1. ConsoleInit => Ui!PageInv BY PageInitially DEF ConsoleInit
<1>2. Ui!PageInv /\ [ConsoleNext]_consoleVars => Ui!PageInv'
  BY PageStep DEF ConsoleNext, ViewSteps, KeysSteps, MouseSteps, PageSteps, ScriptsSteps,
                 SettingsSteps, AuthSteps, consoleVars, pageVars, Ui!vars, Ui!panels, Ui!modes
<1>3. Ui!PageInv => PanelsAndModes
  BY DEF Ui!PageInv, Ui!PanelsAndModes, Ui!page, Ui!OnePanel, Ui!Clips, Ui!Connected, PanelsAndModes
<1> QED BY <1>1, <1>2, <1>3, PTL DEF ConsoleSpec

-----------------------------------------------------------------------------
(* Scripts: the page starts once.                                          *)

\* The scripts of the page.
Names == Loader!ToSet(Loader!All)

\* Where a script is among all of them.
LEMMA AllFacts ==
  /\ Loader!All \in Seq(Names) /\ Len(Loader!All) = Len(Files) + Len(Nested)
  /\ Len(Files) \in Nat /\ Len(Nested) \in Nat
  /\ \A i \in 1 .. Len(Files) : Loader!All[i] = Files[i]
  /\ \A i \in 1 .. Len(Nested) : Loader!All[Len(Files) + i] = Nested[i]
  /\ \A i, j \in 1 .. Len(Loader!All) : Loader!All[i] = Loader!All[j] => i = j
  /\ \E i \in 1 .. Len(Files) : Loader!All[i] = Asker
  /\ Loader!ToSet(Files) \subseteq Names /\ Loader!ToSet(Nested) \subseteq Names
  /\ Names = Loader!ToSet(Files) \cup Loader!ToSet(Nested)
  /\ Files \in Seq(Names) /\ Nested \in Seq(Names)
<1> DEFINE T == Loader!ToSet(Files) \cup Loader!ToSet(Nested)
<1>1. Files \in Seq(Loader!ToSet(Files)) /\ Nested \in Seq(Loader!ToSet(Nested))
  BY ConsoleAssumption DEF Loader!ScriptsAssumption
<1>2. Files \in Seq(T) /\ Nested \in Seq(T)
  <2>1. Loader!ToSet(Files) \subseteq T /\ Loader!ToSet(Nested) \subseteq T OBVIOUS
  <2> HIDE DEF T
  <2> QED BY <1>1, <2>1
<1> HIDE DEF T
<1>3. /\ Loader!All \in Seq(T) /\ Len(Loader!All) = Len(Files) + Len(Nested)
      /\ Len(Files) \in Nat /\ Len(Nested) \in Nat
      /\ \A i \in 1 .. Len(Files) : Loader!All[i] = Files[i]
      /\ \A i \in 1 .. Len(Nested) : Loader!All[Len(Files) + i] = Nested[i]
  BY <1>2 DEF Loader!All
<1>4. /\ DOMAIN Loader!All = 1 .. Len(Loader!All) /\ DOMAIN Files = 1 .. Len(Files)
      /\ DOMAIN Nested = 1 .. Len(Nested)
  BY <1>2, <1>3
<1>5. \A i, j \in 1 .. Len(Loader!All) : Loader!All[i] = Loader!All[j] => i = j
  BY <1>4, ConsoleAssumption DEF Loader!ScriptsAssumption
<1>6. \E i \in 1 .. Len(Files) : Loader!All[i] = Asker
  BY <1>3, <1>4, ConsoleAssumption DEF Loader!ToSet, Loader!ScriptsAssumption
<1>7. Loader!ToSet(Files) \subseteq Names
  <2> SUFFICES ASSUME NEW i \in 1 .. Len(Files) PROVE Files[i] \in Names BY <1>4 DEF Loader!ToSet
  <2>1. i \in 1 .. Len(Loader!All) /\ Loader!All[i] = Files[i] BY <1>3
  <2> QED BY <2>1, <1>4 DEF Names, Loader!ToSet
<1>8. Loader!ToSet(Nested) \subseteq Names
  <2> SUFFICES ASSUME NEW i \in 1 .. Len(Nested) PROVE Nested[i] \in Names BY <1>4 DEF Loader!ToSet
  <2>1. Len(Files) + i \in 1 .. Len(Loader!All) /\ Loader!All[Len(Files) + i] = Nested[i] BY <1>3
  <2> QED BY <2>1, <1>4 DEF Names, Loader!ToSet
<1>9. Names \subseteq T
  <2> SUFFICES ASSUME NEW i \in 1 .. Len(Loader!All) PROVE Loader!All[i] \in T
    BY <1>4 DEF Names, Loader!ToSet
  <2> QED BY <1>3
<1>10. T = Names BY <1>7, <1>8, <1>9 DEF T
<1> QED BY <1>2, <1>3, <1>5, <1>6, <1>7, <1>8, <1>10 DEF T

\* The members of a sequence.
LEMMA Members ==
  ASSUME NEW S, NEW q \in Seq(S)
  PROVE  /\ Loader!ToSet(q) = {q[i] : i \in 1 .. Len(q)} /\ Loader!ToSet(q) \subseteq S
         /\ q = <<>> <=> Loader!ToSet(q) = {}
<1>1. DOMAIN q = 1 .. Len(q) /\ Len(q) \in Nat /\ \A i \in 1 .. Len(q) : q[i] \in S OBVIOUS
<1>2. q # <<>> => q[1] \in Loader!ToSet(q)
  <2>1. q # <<>> => 1 \in 1 .. Len(q) BY <1>1
  <2> QED BY <2>1, <1>1 DEF Loader!ToSet
<1>3. q = <<>> => Loader!ToSet(q) = {}
  <2>1. q = <<>> => DOMAIN q = {} BY <1>1
  <2> QED BY <2>1 DEF Loader!ToSet
<1>4. Loader!ToSet(q) = {q[i] : i \in 1 .. Len(q)} BY <1>1 DEF Loader!ToSet
<1>5. Loader!ToSet(q) \subseteq S BY <1>1, <1>4
<1> QED BY <1>2, <1>3, <1>4, <1>5

\* Members, length and type of a concatenation.
LEMMA JoinedMembers ==
  ASSUME NEW S, NEW q \in Seq(S), NEW r \in Seq(S)
  PROVE  q \o r \in Seq(S) /\ Loader!ToSet(q \o r) = Loader!ToSet(q) \cup Loader!ToSet(r)
<1>1. /\ q \o r \in Seq(S) /\ Len(q \o r) = Len(q) + Len(r) /\ Len(q) \in Nat /\ Len(r) \in Nat
      /\ \A i \in 1 .. Len(q) : (q \o r)[i] = q[i]
      /\ \A i \in 1 .. Len(r) : (q \o r)[Len(q) + i] = r[i]
      /\ \A i \in 1 .. Len(q \o r) : i \in 1 .. Len(q) \/ i - Len(q) \in 1 .. Len(r)
  OBVIOUS
<1> DEFINE t == q \o r
<1> HIDE DEF t
<1>2. Loader!ToSet(t) = {t[i] : i \in 1 .. Len(t)} BY <1>1, Members DEF t
<1>3. Loader!ToSet(q) = {q[i] : i \in 1 .. Len(q)} /\ Loader!ToSet(r) = {r[i] : i \in 1 .. Len(r)}
  BY Members
<1>4. ASSUME NEW i \in 1 .. Len(t) PROVE t[i] \in Loader!ToSet(q) \cup Loader!ToSet(r)
  <2>1. CASE i \in 1 .. Len(q) BY <2>1, <1>1, <1>3 DEF t
  <2>2. CASE i - Len(q) \in 1 .. Len(r)
    <3>1. Len(q) + (i - Len(q)) = i BY <1>1, <1>4 DEF t
    <3>2. t[i] = r[i - Len(q)] BY <2>2, <3>1, <1>1 DEF t
    <3> QED BY <2>2, <3>2, <1>3
  <2> QED BY <1>1, <2>1, <2>2 DEF t
<1>5. ASSUME NEW i \in 1 .. Len(q) PROVE q[i] \in Loader!ToSet(t)
  <2>1. i \in 1 .. Len(t) /\ t[i] = q[i] BY <1>1 DEF t
  <2> QED BY <2>1, <1>2
<1>6. ASSUME NEW i \in 1 .. Len(r) PROVE r[i] \in Loader!ToSet(t)
  <2>1. Len(q) + i \in 1 .. Len(t) /\ t[Len(q) + i] = r[i] BY <1>1 DEF t
  <2> QED BY <2>1, <1>2
<1>7. Loader!ToSet(t) = Loader!ToSet(q) \cup Loader!ToSet(r) BY <1>2, <1>3, <1>4, <1>5, <1>6
<1> QED BY <1>1, <1>7 DEF t

\* Where the elements of two sequences are in the joined one.
LEMMA Joined ==
  ASSUME NEW S, NEW q \in Seq(S), NEW r \in Seq(S)
  PROVE  /\ q \o r \in Seq(S) /\ Loader!ToSet(q \o r) = Loader!ToSet(q) \cup Loader!ToSet(r)
         /\ Len(q \o r) = Len(q) + Len(r) /\ Len(q) \in Nat /\ Len(r) \in Nat
         /\ \A i \in 1 .. Len(q) : (q \o r)[i] = q[i]
         /\ \A i \in 1 .. Len(r) : (q \o r)[Len(q) + i] = r[i]
<1>1. q \o r \in Seq(S) /\ Loader!ToSet(q \o r) = Loader!ToSet(q) \cup Loader!ToSet(r)
  BY JoinedMembers
<1>2. /\ Len(q \o r) = Len(q) + Len(r) /\ Len(q) \in Nat /\ Len(r) \in Nat
      /\ \A i \in 1 .. Len(q) : (q \o r)[i] = q[i]
      /\ \A i \in 1 .. Len(r) : (q \o r)[Len(q) + i] = r[i]
  OBVIOUS
<1> QED BY <1>1, <1>2

LEMMA EmptyNames == <<>> \in Seq(Names) /\ Len(<<>>) = 0 /\ Loader!ToSet(<<>>) = {}
<1>1. <<>> \in Seq(Names) /\ Len(<<>>) = 0 OBVIOUS
<1> QED BY <1>1, Members

LEMMA OneMember == ASSUME NEW s PROVE Loader!ToSet(<<s>>) = {s} BY DEF Loader!ToSet

LEMMA TwoMembers == ASSUME NEW s PROVE Loader!ToSet(<<s, s>>) = {s}
<1>1. DOMAIN <<s, s>> = 1 .. 2 /\ <<s, s>>[1] = s /\ <<s, s>>[2] = s OBVIOUS
<1>2. \A i \in 1 .. 2 : i = 1 \/ i = 2 OBVIOUS
<1>3. 1 \in 1 .. 2 OBVIOUS
<1> QED BY <1>1, <1>2, <1>3 DEF Loader!ToSet

LEMMA AppendSet ==
  ASSUME NEW S, NEW q \in Seq(S), NEW s \in S
  PROVE  Loader!ToSet(Append(q, s)) = Loader!ToSet(q) \cup {s}
<1> DEFINE r == <<s>>
<1>1. r \in Seq(S) OBVIOUS
<1>2. Loader!ToSet(r) = {s} BY OneMember
<1>3. Append(q, s) = q \o r OBVIOUS
<1> HIDE DEF r
<1>4. Loader!ToSet(q \o r) = Loader!ToSet(q) \cup Loader!ToSet(r) BY <1>1, JoinedMembers
<1> QED BY <1>2, <1>3, <1>4

\* The type and the length of two sequences joined.
LEMMA JoinedType ==
  ASSUME NEW S, NEW q \in Seq(S), NEW r \in Seq(S) PROVE q \o r \in Seq(S)
  OBVIOUS
LEMMA JoinedLength ==
  ASSUME NEW S, NEW q \in Seq(S), NEW r \in Seq(S) PROVE Len(q \o r) = Len(q) + Len(r)
  OBVIOUS

\* Members of a sequence with one more, or with one less at its front.
LEMMA AppendedMembers ==
  ASSUME NEW S, NEW q \in Seq(S), NEW s \in S
  PROVE  /\ Append(q, s) \in Seq(S) /\ Loader!ToSet(Append(q, s)) = Loader!ToSet(q) \cup {s}
         /\ <<s>> \in Seq(S) /\ Loader!ToSet(<<s>>) = {s}
         /\ <<s, s>> \in Seq(S) /\ Loader!ToSet(<<s, s>>) = {s}
<1>1. <<s>> \in Seq(S) /\ Loader!ToSet(<<s>>) = {s} BY DEF Loader!ToSet
<1>2. <<s, s>> \in Seq(S) /\ Loader!ToSet(<<s, s>>) = {s}
  <2>1. <<s, s>> \in Seq(S) OBVIOUS
  <2> QED BY <2>1, TwoMembers
<1>3. Append(q, s) = q \o <<s>> OBVIOUS
<1>4. q \o <<s>> \in Seq(S) /\ Loader!ToSet(q \o <<s>>) = Loader!ToSet(q) \cup {s}
  <2> DEFINE r == <<s>>
  <2>1. r \in Seq(S) /\ Loader!ToSet(r) = {s} BY <1>1
  <2> HIDE DEF r
  <2>2. q \o r \in Seq(S) /\ Loader!ToSet(q \o r) = Loader!ToSet(q) \cup {s} BY <2>1, JoinedMembers
  <2> QED BY <2>2 DEF r
<1> QED BY <1>1, <1>2, <1>3, <1>4

LEMMA TailMembers ==
  ASSUME NEW S, NEW q \in Seq(S), q # <<>>
  PROVE  /\ Head(q) \in S /\ Head(q) \in Loader!ToSet(q) /\ Tail(q) \in Seq(S)
         /\ Loader!ToSet(q) = {Head(q)} \cup Loader!ToSet(Tail(q))
<1>1. /\ Head(q) \in S /\ Tail(q) \in Seq(S) /\ q = <<Head(q)>> \o Tail(q) OBVIOUS
<1> DEFINE r == <<Head(q)>>
<1>2. r \in Seq(S) /\ Loader!ToSet(r) = {Head(q)} BY <1>1, AppendedMembers
<1>3. q = r \o Tail(q) BY <1>1
<1> HIDE DEF r
<1>4. Loader!ToSet(r \o Tail(q)) = Loader!ToSet(r) \cup Loader!ToSet(Tail(q))
  <2> DEFINE t == Tail(q)
  <2>1. r \in Seq(S) /\ t \in Seq(S) BY <1>1, <1>2
  <2> HIDE DEF t
  <2>2. Loader!ToSet(r \o t) = Loader!ToSet(r) \cup Loader!ToSet(t) BY <2>1, JoinedMembers
  <2> QED BY <2>2 DEF t
<1>5. Loader!ToSet(q) = {Head(q)} \cup Loader!ToSet(Tail(q)) BY <1>2, <1>3, <1>4
<1> QED BY <1>1, <1>5

-----------------------------------------------------------------------------

\* What has been asked for by now is the beginning of all the scripts.
LEMMA RequestedFacts ==
  /\ Loader!Requested \in Seq(Names) /\ Len(Loader!Requested) \in Nat
  /\ Len(Loader!Requested) <= Len(Loader!All)
  /\ \A i \in 1 .. Len(Loader!Requested) : Loader!Requested[i] = Loader!All[i]
  /\ Loader!ToSet(Loader!Requested) = {Loader!All[i] : i \in 1 .. Len(Loader!Requested)}
  /\ Loader!ToSet(Loader!Requested) = IF Asker \in Loader!ToSet(ran) THEN Names ELSE Loader!ToSet(Files)
  /\ Loader!ToSet(Files) \subseteq Loader!ToSet(Loader!Requested)
  /\ Loader!ToSet(Loader!Requested) \subseteq Names
  /\ Len(Loader!Requested) = IF Asker \in Loader!ToSet(ran) THEN Len(Files) + Len(Nested) ELSE Len(Files)
  /\ Asker \in Loader!ToSet(Files)
<1>1. /\ Loader!Requested \in Seq(Names) /\ Len(Loader!Requested) \in Nat
      /\ Len(Loader!Requested) <= Len(Loader!All)
      /\ \A i \in 1 .. Len(Loader!Requested) : Loader!Requested[i] = Loader!All[i]
      /\ Len(Loader!Requested) = IF Asker \in Loader!ToSet(ran) THEN Len(Files) + Len(Nested) ELSE Len(Files)
  <2>1. CASE Asker \in Loader!ToSet(ran)
    <3>1. Loader!Requested = Loader!All BY <2>1 DEF Loader!Requested
    <3> QED BY <2>1, <3>1, AllFacts
  <2>2. CASE Asker \notin Loader!ToSet(ran)
    <3>1. Loader!Requested = Files BY <2>2 DEF Loader!Requested
    <3> QED BY <2>2, <3>1, AllFacts
  <2> QED BY <2>1, <2>2
<1>2. Loader!ToSet(Loader!Requested) = {Loader!Requested[i] : i \in 1 .. Len(Loader!Requested)}
  BY <1>1, Members
<1>3. Loader!ToSet(Loader!Requested) = {Loader!All[i] : i \in 1 .. Len(Loader!Requested)}
  BY <1>1, <1>2
<1>4. Loader!ToSet(Loader!Requested) = IF Asker \in Loader!ToSet(ran) THEN Names ELSE Loader!ToSet(Files)
  BY DEF Loader!Requested, Names
<1>5. Loader!ToSet(Files) \subseteq Names BY AllFacts
<1> QED BY <1>1, <1>3, <1>4, <1>5, ConsoleAssumption DEF Loader!ScriptsAssumption

\* What the invariant says of the state, in sets and numbers.
LEMMA ScriptsFacts ==
  ASSUME Loader!ScriptsInv
  PROVE  /\ Len(ran) \in Nat /\ Len(document) \in Nat /\ Len(ls) \in Nat
         /\ Loader!ToSet(ran) = {Loader!All[i] : i \in 1 .. Len(ran)}
         /\ Loader!ToSet(document) = {Loader!All[i] : i \in 1 .. Len(document)}
         /\ Loader!ToSet(ran) \subseteq Loader!ToSet(Loader!Requested)
         /\ \A i \in 1 .. Len(ls) : ls[i] \notin Loader!ToSet(ran)
         /\ events \in Seq(Names) /\ Loader!ToSet(events) \subseteq Names
<1>1. /\ ran \in Seq(Names) /\ document \in Seq(Names) /\ ls \in Seq(Names) /\ events \in Seq(Names)
  BY DEF Loader!ScriptsInv, Loader!ScriptsTypeOK, Names
<1>2. /\ Len(ran) \in Nat /\ Len(document) \in Nat /\ Len(ls) \in Nat BY <1>1
<1>3. Loader!InOrderAsked BY DEF Loader!ScriptsInv
<1>4. Loader!ToSet(ran) = {Loader!All[i] : i \in 1 .. Len(ran)}
  <2>1. Loader!ToSet(ran) = {ran[i] : i \in 1 .. Len(ran)} BY <1>1, Members
  <2> QED BY <2>1, <1>3 DEF Loader!InOrderAsked
<1>5. Loader!ToSet(document) = {Loader!All[i] : i \in 1 .. Len(document)}
  <2>1. Loader!ToSet(document) = {document[i] : i \in 1 .. Len(document)} BY <1>1, Members
  <2> QED BY <2>1, <1>3 DEF Loader!InOrderAsked
<1>6. Loader!ToSet(ran) \subseteq Loader!ToSet(Loader!Requested)
  <2>1. Len(ran) <= Len(Loader!Requested) BY <1>2, <1>3 DEF Loader!InOrderAsked
  <2>2. \A i \in 1 .. Len(ran) : i \in 1 .. Len(Loader!Requested) BY <1>2, <2>1, RequestedFacts
  <2> QED BY <2>2, <1>4, RequestedFacts
<1>7. ASSUME NEW i \in 1 .. Len(ls), ls[i] \in Loader!ToSet(ran) PROVE FALSE
  <2>1. ls[i] = Loader!All[Len(document) + i] BY <1>3 DEF Loader!InOrderAsked
  <2>2. PICK j \in 1 .. Len(ran) : Loader!All[Len(document) + i] = Loader!All[j] BY <1>4, <1>7, <2>1
  <2>3. /\ Len(document) + i \in 1 .. Len(Loader!All) /\ j \in 1 .. Len(Loader!All)
        /\ j # Len(document) + i
    <3>1. /\ Len(ran) <= Len(document) /\ Len(document) + Len(ls) <= Len(Loader!All)
          /\ Len(Loader!All) \in Nat
      BY <1>3, RequestedFacts, AllFacts DEF Loader!InOrderAsked
    <3> QED BY <1>2, <3>1
  <2> QED BY <2>2, <2>3, AllFacts
<1>8. Loader!ToSet(events) \subseteq Names BY <1>1, Members
<1> QED BY <1>1, <1>2, <1>4, <1>5, <1>6, <1>7, <1>8

\* The invariant is enough.
LEMMA EnoughForStart == ASSUME Loader!ScriptsInv PROVE Loader!StartsOnce
<1> USE ScriptsFacts, RequestedFacts, AllFacts
<1>1. Loader!InOrderAsked /\ Loader!HandlersCome /\ Loader!ScriptsTypeOK BY DEF Loader!ScriptsInv
<1>2. Len(ran) <= Len(Loader!All) BY <1>1 DEF Loader!InOrderAsked
<1>3. Loader!IsPrefix(ran, Loader!All)
  <2>1. ran \in Seq(Names) /\ Loader!All \in Seq(Names) BY <1>1 DEF Loader!ScriptsTypeOK, Names
  <2>2. SubSeq(ran, 1, Len(ran)) = SubSeq(Loader!All, 1, Len(ran))
    BY <1>1, <1>2, <2>1 DEF Loader!InOrderAsked
  <2> QED BY <1>2, <2>2 DEF Loader!IsPrefix
<1>4. ASSUME started = 1 PROVE ran = Loader!All
  <2>1. ps = {} /\ Loader!ToSet(Loader!Requested) \subseteq Loader!ToSet(ran)
    BY <1>1, <1>4 DEF Loader!HandlersCome
  <2>2. Asker \in Loader!ToSet(ran) BY <2>1
  <2>3. Loader!ToSet(ran) = Names BY <2>1, <2>2
  <2>4. Len(Loader!All) \in 1 .. Len(Loader!All) OBVIOUS
  <2>5. Loader!All[Len(Loader!All)] \in Names
    <3>1. Names = {Loader!All[i] : i \in 1 .. Len(Loader!All)}
      <4>1. Loader!All \in Seq(Names) OBVIOUS
      <4>2. Loader!ToSet(Loader!All) = {Loader!All[i] : i \in 1 .. Len(Loader!All)} BY <4>1, Members
      <4> QED BY <4>2 DEF Names
    <3> QED BY <2>4, <3>1
  <2>6. PICK i \in 1 .. Len(ran) : Loader!All[Len(Loader!All)] = Loader!All[i] BY <2>3, <2>5
  <2>7. i = Len(Loader!All)
    <3>1. i \in 1 .. Len(Loader!All) BY <1>2
    <3> QED BY <2>4, <2>6, <3>1
  <2>8. Len(ran) = Len(Loader!All) BY <1>2, <2>6, <2>7
  <2>9. ran \in Seq(Names) /\ Loader!All \in Seq(Names) BY <1>1 DEF Loader!ScriptsTypeOK, Names
  <2> QED BY <1>1, <2>8, <2>9 DEF Loader!InOrderAsked
<1>5. ASSUME arrived = Loader!ToSet(Loader!All), events = <<>>, ran = document PROVE started = 1
  <2>1. Loader!ToSet(events) = {} BY <1>5, Members
  <2>2. ls = <<>>
    <3> SUFFICES ASSUME ls # <<>> PROVE FALSE OBVIOUS
    <3>1. ls \in Seq(Names) BY <1>1 DEF Loader!ScriptsTypeOK, Names
    <3>2. Head(ls) \in Names BY <3>1
    <3> QED BY <1>1, <1>5, <2>1, <3>2 DEF Loader!HandlersCome, Names
  <2>3. Len(ran) = Len(Loader!Requested) BY <1>1, <1>5, <2>2 DEF Loader!InOrderAsked
  <2>4. Loader!ToSet(ran) = Loader!ToSet(Loader!Requested) BY <2>3
  <2>5. ps = {} BY <1>1, <2>1, <2>4 DEF Loader!HandlersCome
  <2> QED BY <1>1, <2>5 DEF Loader!HandlersCome
<1> QED BY <1>1, <1>3, <1>4, <1>5 DEF Loader!StartsOnce, Loader!ScriptsTypeOK

\* The page has asked for its own scripts.
LEMMA ScriptsInitially == Loader!Init => Loader!ScriptsInv
<1> SUFFICES ASSUME Loader!Init PROVE Loader!ScriptsInv OBVIOUS
<1>1. /\ engine \in {"trident", "presto", "webkit"}
      /\ readyState = [s \in Names |-> IF engine = "webkit" THEN "undefined" ELSE "loading"]
      /\ arrived = {} /\ ran = <<>> /\ events = <<>> /\ started = 0 /\ ps = Loader!ToSet(Files)
      /\ ls = (IF engine = "trident" THEN Files ELSE <<>>)
      /\ document = (IF engine = "trident" THEN <<>> ELSE Files)
  BY DEF Loader!Init, Names
<1>2. <<>> \in Seq(Names) /\ Len(<<>>) = 0 OBVIOUS
<1>3. Loader!ToSet(ran) = {} /\ Loader!ToSet(events) = {} BY <1>1, <1>2, Members
<1>4. Loader!Requested = Files BY <1>3 DEF Loader!Requested
<1>5. Loader!ScriptsTypeOK
  <2>1. readyState \in [Names -> Loader!States] BY <1>1 DEF Loader!States
  <2>2. ls \in Seq(Names) /\ document \in Seq(Names) BY <1>1, <1>2, AllFacts
  <2> QED BY <1>1, <1>2, <2>1, <2>2 DEF Loader!ScriptsTypeOK, Names
<1>6. Loader!InOrderAsked
  <2>1. CASE engine = "trident" BY <1>1, <1>2, <1>4, <2>1, AllFacts DEF Loader!InOrderAsked
  <2>2. CASE engine # "trident" BY <1>1, <1>2, <1>4, <2>2, AllFacts DEF Loader!InOrderAsked
  <2> QED BY <2>1, <2>2
<1>7. Loader!ReadyStates BY <1>1, <1>3 DEF Loader!ReadyStates, Names
<1>8. Loader!HandlersCome
  <2>1. ps # {} BY <1>1, RequestedFacts
  <2>2. /\ ps = Loader!ToSet(Loader!Requested) /\ started = 0 /\ events = <<>>
        /\ ran = <<>> /\ arrived = {}
    BY <1>1, <1>4
  <2>3. ls # <<>> /\ Head(ls) \in arrived => Head(ls) \in Loader!ToSet(events) BY <2>2
  <2>4. started = 1 <=> ps = {} BY <2>1, <2>2
  <2>5. /\ arrived \subseteq Loader!ToSet(Loader!Requested) /\ ps \subseteq Loader!ToSet(Loader!Requested)
        /\ Loader!ToSet(Loader!Requested) \ Loader!ToSet(ran) \subseteq ps
    BY <2>2
  <2>6. /\ ps \cap Loader!ToSet(ran) \subseteq Loader!ToSet(events)
        /\ Loader!ToSet(events) \subseteq Loader!ToSet(ran)
    BY <1>3
  <2> QED BY <2>3, <2>4, <2>5, <2>6 DEF Loader!HandlersCome
<1> QED BY <1>5, <1>6, <1>7, <1>8 DEF Loader!ScriptsInv

\* A script that arrives has not been asked for twice; trident tells a handler.
LEMMA FetchSafe ==
  ASSUME Loader!ScriptsInv, NEW s \in Names, Loader!Fetch(s)
  PROVE Loader!ScriptsInv'
<1>1. /\ s \in ps /\ s \notin arrived /\ s \notin Loader!ToSet(ran) /\ arrived' = arrived \cup {s}
      /\ engine = "trident" => readyState' = [readyState EXCEPT ![s] = "loaded"]
                               /\ events' = Append(events, s)
      /\ engine # "trident" => UNCHANGED <<readyState, events>>
      /\ UNCHANGED <<engine, document, ran, ls, ps, started>>
  BY DEF Loader!Fetch
<1>2. Loader!ScriptsTypeOK /\ Loader!InOrderAsked /\ Loader!ReadyStates /\ Loader!HandlersCome
  BY DEF Loader!ScriptsInv
<1>3. events \in Seq(Names) BY <1>2 DEF Loader!ScriptsTypeOK, Names
<1>4. /\ events' \in Seq(Names)
      /\ Loader!ToSet(events') = IF engine = "trident" THEN Loader!ToSet(events) \cup {s}
                                                       ELSE Loader!ToSet(events)
  <2>1. CASE engine = "trident"
    <3>1. events' = Append(events, s) BY <1>1, <2>1
    <3>2. /\ Append(events, s) \in Seq(Names)
          /\ Loader!ToSet(Append(events, s)) = Loader!ToSet(events) \cup {s}
      <4>1. s \in Names OBVIOUS
      <4>2. Append(events, s) \in Seq(Names) BY <4>1, <1>3
      <4>3. Loader!ToSet(Append(events, s)) = Loader!ToSet(events) \cup {s} BY <4>1, <1>3, AppendSet
      <4> QED BY <4>2, <4>3
    <3> QED BY <2>1, <3>1, <3>2
  <2>2. CASE engine # "trident" BY <1>1, <1>3, <2>2
  <2> QED BY <2>1, <2>2
<1>5. Loader!Requested' = Loader!Requested BY <1>1 DEF Loader!Requested
<1>6. Loader!ScriptsTypeOK'
  <2>1. readyState' \in [Names -> Loader!States]
    <3>1. readyState \in [Names -> Loader!States] BY <1>2 DEF Loader!ScriptsTypeOK, Names
    <3>2. "loaded" \in Loader!States BY DEF Loader!States
    <3>3. CASE engine = "trident" BY <1>1, <3>1, <3>2, <3>3
    <3>4. CASE engine # "trident" BY <1>1, <3>1, <3>4
    <3> QED BY <3>3, <3>4
  <2> QED BY <1>1, <1>2, <1>4, <2>1 DEF Loader!ScriptsTypeOK, Names
<1>7. Loader!InOrderAsked' BY <1>1, <1>2, <1>5 DEF Loader!InOrderAsked
<1>8. Loader!ReadyStates'
  <2> SUFFICES ASSUME NEW t \in Names
      PROVE  /\ engine = "trident" => readyState'[t] = IF t \in Loader!ToSet(ran) THEN "complete"
                                               ELSE IF t \in arrived' THEN "loaded" ELSE "loading"
             /\ engine = "presto" => readyState'[t] = IF t \in Loader!ToSet(ran) THEN "loaded" ELSE "loading"
             /\ engine = "webkit" => readyState'[t] = "undefined"
    BY <1>1, <1>2 DEF Loader!ReadyStates, Names, Loader!ScriptsTypeOK
  <2>1. /\ engine = "trident" => readyState[t] = IF t \in Loader!ToSet(ran) THEN "complete"
                                               ELSE IF t \in arrived THEN "loaded" ELSE "loading"
        /\ engine = "presto" => readyState[t] = IF t \in Loader!ToSet(ran) THEN "loaded" ELSE "loading"
        /\ engine = "webkit" => readyState[t] = "undefined"
    BY <1>2 DEF Loader!ReadyStates, Names
  <2>2. engine = "trident" => readyState'[t] = IF t = s THEN "loaded" ELSE readyState[t]
    BY <1>1, <1>2 DEF Loader!ScriptsTypeOK, Names
  <2> QED BY <1>1, <2>1, <2>2
<1>9. Loader!HandlersCome'
  <2>1. s \in Loader!ToSet(Loader!Requested) BY <1>1, <1>2 DEF Loader!HandlersCome
  <2>2. ls # <<>> /\ Head(ls) \in arrived' => Head(ls) \in Loader!ToSet(events')
    <3>1. ls # <<>> => engine = "trident" BY <1>2 DEF Loader!InOrderAsked
    <3> QED BY <1>1, <1>2, <1>4, <3>1 DEF Loader!HandlersCome
  <2> QED BY <1>1, <1>2, <1>4, <1>5, <2>1, <2>2 DEF Loader!HandlersCome
<1> QED BY <1>6, <1>7, <1>8, <1>9 DEF Loader!ScriptsInv

\* The script that runs next.
LEMMA NextFacts ==
  ASSUME Loader!ScriptsInv, Len(ran) < Len(document)
  PROVE  LET s == document[Len(ran) + 1]
         IN /\ s \in Names /\ s = Loader!All[Len(ran) + 1]
             /\ s \in Loader!ToSet(Loader!Requested) /\ s \notin Loader!ToSet(ran)
            /\ \A i \in 1 .. Len(ls) : ls[i] # s
            /\ s = Asker => Len(Loader!Requested) = Len(Files) /\ Loader!Requested = Files
<1> DEFINE s == document[Len(ran) + 1]
<1>1. Loader!ScriptsTypeOK /\ Loader!InOrderAsked /\ Loader!HandlersCome BY DEF Loader!ScriptsInv
<1>2. Len(ran) \in Nat /\ Len(document) \in Nat /\ Len(ls) \in Nat BY ScriptsFacts
<1>3. Len(ran) + 1 \in 1 .. Len(document) BY <1>2
<1>4. s = Loader!All[Len(ran) + 1] BY <1>1, <1>3 DEF Loader!InOrderAsked
<1>5. Len(ran) + 1 \in 1 .. Len(Loader!Requested)
  BY <1>1, <1>2, <1>3, RequestedFacts DEF Loader!InOrderAsked
<1>6. s \in Loader!ToSet(Loader!Requested) /\ s \in Names BY <1>4, <1>5, RequestedFacts
<1>7. s \notin Loader!ToSet(ran)
  <2> SUFFICES ASSUME s \in Loader!ToSet(ran) PROVE FALSE OBVIOUS
  <2>1. PICK i \in 1 .. Len(ran) : s = Loader!All[i] BY ScriptsFacts
  <2>2. /\ i \in 1 .. Len(Loader!All) /\ Len(ran) + 1 \in 1 .. Len(Loader!All) /\ i # Len(ran) + 1
    BY <1>2, <1>5, RequestedFacts, AllFacts
  <2> QED BY <1>4, <2>1, <2>2, AllFacts
<1>8. ASSUME NEW i \in 1 .. Len(ls), ls[i] = s PROVE FALSE
  <2>1. s = Loader!All[Len(document) + i] BY <1>1, <1>8 DEF Loader!InOrderAsked
  <2>2. /\ Len(document) + i \in 1 .. Len(Loader!All) /\ Len(ran) + 1 \in 1 .. Len(Loader!All)
        /\ Len(document) + i # Len(ran) + 1
    <3>1. Len(document) + Len(ls) <= Len(Loader!All) /\ Len(Loader!All) \in Nat
      BY <1>1, RequestedFacts, AllFacts DEF Loader!InOrderAsked
    <3> QED BY <1>2, <1>3, <3>1
  <2> QED BY <1>4, <2>1, <2>2, AllFacts
<1>9. s = Asker => Asker \notin Loader!ToSet(ran) BY <1>7
<1>10. s = Asker => Len(Loader!Requested) = Len(Files) /\ Loader!Requested = Files
  BY <1>9 DEF Loader!Requested
<1> QED BY <1>4, <1>6, <1>7, <1>8, <1>10

\* A script runs when it is next in the document, and may ask for others.
LEMMA RunSafe == ASSUME Loader!ScriptsInv, Loader!Run PROVE Loader!ScriptsInv'
<1> DEFINE s == document[Len(ran) + 1]
           more == Loader!Asks(s)
<1>1. /\ Len(ran) < Len(document) /\ s \in arrived
      /\ ran' = Append(ran, s)
      /\ document' = Loader!InDocument(more) /\ ls' = Loader!Loading(more)
      /\ ps' = ps \cup Loader!ToSet(more)
      /\ readyState' = [readyState EXCEPT ![s] = CASE engine = "trident" -> "complete"
                                                   [] engine = "presto" -> "loaded"
                                                   [] OTHER -> @]
      /\ events' = events \o IF engine = "webkit" THEN <<s>> ELSE <<s, s>>
      /\ UNCHANGED <<engine, arrived, started>>
  BY DEF Loader!Run
<1>2. /\ s \in Names /\ s = Loader!All[Len(ran) + 1] /\ s \in Loader!ToSet(Loader!Requested)
      /\ s \notin Loader!ToSet(ran)
      /\ \A i \in 1 .. Len(ls) : ls[i] # s
      /\ s = Asker => Len(Loader!Requested) = Len(Files) /\ Loader!Requested = Files
  BY <1>1, NextFacts
<1>3. more = IF s = Asker THEN Nested ELSE <<>> BY DEF Loader!Asks
<1> HIDE DEF s
<1>4. Loader!ScriptsTypeOK /\ Loader!InOrderAsked /\ Loader!ReadyStates /\ Loader!HandlersCome
  BY DEF Loader!ScriptsInv
<1>5. ran \in Seq(Names) /\ document \in Seq(Names) /\ ls \in Seq(Names) /\ events \in Seq(Names)
  BY <1>4 DEF Loader!ScriptsTypeOK, Names
<1>6. /\ more \in Seq(Names) /\ Len(more) \in Nat
      /\ Loader!ToSet(more) = IF s = Asker THEN Loader!ToSet(Nested) ELSE {}
      /\ Len(more) = IF s = Asker THEN Len(Nested) ELSE 0
  <2>1. CASE s = Asker BY <1>3, <2>1, AllFacts
  <2>2. CASE s # Asker BY <1>3, <2>2, EmptyNames
  <2> QED BY <2>1, <2>2
<1>7. /\ ran' \in Seq(Names) /\ Loader!ToSet(ran') = Loader!ToSet(ran) \cup {s}
      /\ Len(ran') = Len(ran) + 1
      /\ Len(ran) \in Nat
      /\ \A i \in 1 .. Len(ran) : ran'[i] = ran[i]
      /\ ran'[Len(ran) + 1] = s
  BY <1>1, <1>2, <1>5, AppendedMembers
<1>8. /\ Loader!ToSet(Loader!Requested') = Loader!ToSet(Loader!Requested) \cup Loader!ToSet(more)
      /\ Len(Loader!Requested') = Len(Loader!Requested) + Len(more)
  <2>1. CASE s = Asker
    <3>1. Loader!Requested' = Loader!All /\ Loader!Requested = Files
      BY <1>2, <1>7, <2>1 DEF Loader!Requested
    <3> QED BY <1>6, <2>1, <3>1, AllFacts DEF Names
  <2>2. CASE s # Asker
    <3>1. Loader!Requested' = Loader!Requested BY <1>7, <2>2 DEF Loader!Requested
    <3>2. Loader!ToSet(more) = {} /\ Len(more) = 0 BY <1>6, <2>2
    <3> QED BY <3>1, <3>2, RequestedFacts
  <2> QED BY <2>1, <2>2
<1>9. events' \in Seq(Names) /\ Loader!ToSet(events') = Loader!ToSet(events) \cup {s}
  <2>1. CASE engine = "webkit"
    <3> DEFINE r == <<s>>
    <3>1. r \in Seq(Names) /\ Loader!ToSet(r) = {s}
      <4>1. s \in Names BY <1>2
      <4>2. r \in Seq(Names) BY <4>1
      <4>3. Loader!ToSet(r) = {s} BY OneMember
      <4> QED BY <4>2, <4>3
    <3>2. events' = events \o r BY <1>1, <2>1
    <3> HIDE DEF r
    <3> QED BY <3>1, <3>2, <1>5, JoinedMembers
  <2>2. CASE engine # "webkit"
    <3> DEFINE r == <<s, s>>
    <3>1. r \in Seq(Names) /\ Loader!ToSet(r) = {s}
      <4>1. s \in Names BY <1>2
      <4>2. r \in Seq(Names) BY <4>1
      <4>3. Loader!ToSet(r) = {s} BY TwoMembers
      <4> QED BY <4>2, <4>3
    <3>2. events' = events \o r BY <1>1, <2>2
    <3> HIDE DEF r
    <3> QED BY <3>1, <3>2, <1>5, JoinedMembers
  <2> QED BY <2>1, <2>2
<1>10. /\ engine = "trident" => document' = document /\ ls' = ls \o more
       /\ engine # "trident" => document' = document \o more /\ ls' = ls
  BY <1>1 DEF Loader!InDocument, Loader!Loading
<1>11. document' \in Seq(Names) /\ ls' \in Seq(Names)
  <2> HIDE DEF more
  <2>1. document \o more \in Seq(Names) /\ ls \o more \in Seq(Names) BY <1>5, <1>6, JoinedMembers
  <2> QED BY <1>5, <1>10, <2>1
<1>12. Loader!ScriptsTypeOK'
  <2>1. readyState' \in [Names -> Loader!States]
    <3>1. readyState \in [Names -> Loader!States] BY <1>4 DEF Loader!ScriptsTypeOK, Names
    <3>2. readyState[s] \in Loader!States BY <3>1, <1>2
    <3>3. CASE engine = "trident" BY <1>1, <3>1, <3>3 DEF Loader!States
    <3>4. CASE engine = "presto" BY <1>1, <3>1, <3>4 DEF Loader!States
    <3>5. CASE engine \notin {"trident", "presto"} BY <1>1, <3>1, <3>2, <3>5
    <3> QED BY <3>3, <3>4, <3>5
  <2> QED BY <1>1, <1>4, <1>7, <1>9, <1>11, <2>1 DEF Loader!ScriptsTypeOK, Names
<1>13. \A i \in 1 .. Len(more) : more[i] = Loader!All[Len(Loader!Requested) + i]
  <2>1. CASE s = Asker BY <1>2, <1>3, <2>1, AllFacts
  <2>2. CASE s # Asker BY <1>6, <2>2
  <2> QED BY <2>1, <2>2
<1> HIDE DEF more
<1>14. Loader!InOrderAsked'
  <2>0. Len(Loader!Requested) \in Nat BY RequestedFacts
  <2>1. /\ Len(ran) <= Len(document) /\ Len(document) + Len(ls) = Len(Loader!Requested)
        /\ \A i \in 1 .. Len(ran) : ran[i] = Loader!All[i]
        /\ \A i \in 1 .. Len(document) : document[i] = Loader!All[i]
        /\ \A i \in 1 .. Len(ls) : ls[i] = Loader!All[Len(document) + i]
        /\ engine # "trident" => ls = <<>>
    BY <1>4 DEF Loader!InOrderAsked
  <2>2. \A i \in 1 .. Len(ran') : ran'[i] = Loader!All[i]
    <3> SUFFICES ASSUME NEW i \in 1 .. Len(ran) + 1 PROVE ran'[i] = Loader!All[i] BY <1>7
    <3>1. i \in 1 .. Len(ran) \/ i = Len(ran) + 1 BY <1>7
    <3>2. CASE i \in 1 .. Len(ran) BY <3>2, <1>7, <2>1
    <3>3. CASE i = Len(ran) + 1 BY <3>3, <1>2, <1>7
    <3> QED BY <3>1, <3>2, <3>3
  <2>3. CASE engine = "trident"
    <3>1. document' = document /\ ls' = ls \o more BY <1>10, <2>3
    <3>2. /\ Len(ls') = Len(ls) + Len(more) /\ Len(ls) \in Nat /\ Len(document) \in Nat
          /\ \A i \in 1 .. Len(ls) : ls'[i] = ls[i]
          /\ \A i \in 1 .. Len(more) : ls'[Len(ls) + i] = more[i]
      <4>1. Len(document) \in Nat BY <1>5
      <4> DEFINE d == ls \o more
      <4>2. ls \in Seq(Names) /\ more \in Seq(Names) BY <1>5, <1>6
      <4>3. /\ Len(d) = Len(ls) + Len(more) /\ Len(ls) \in Nat
            /\ \A i \in 1 .. Len(ls) : d[i] = ls[i]
            /\ \A i \in 1 .. Len(more) : d[Len(ls) + i] = more[i]
        BY <4>2, Joined
      <4>4. ls' = d BY <3>1
      <4> HIDE DEF d
      <4> QED BY <4>1, <4>3, <4>4
    <3>3. \A i \in 1 .. Len(ls') : ls'[i] = Loader!All[Len(document) + i]
      <4> SUFFICES ASSUME NEW i \in 1 .. Len(ls) + Len(more) PROVE ls'[i] = Loader!All[Len(document) + i]
        BY <3>2
      <4>1. CASE i \in 1 .. Len(ls) BY <4>1, <2>1, <3>2
      <4>2. CASE i \notin 1 .. Len(ls)
        <5> DEFINE j == i - Len(ls)
        <5>1. j \in 1 .. Len(more) /\ i = Len(ls) + j BY <4>2, <3>2, <1>6
        <5>2. Len(Loader!Requested) + j = Len(document) + i
          <6>1. Len(document) + Len(ls) = Len(Loader!Requested) BY <2>1
          <6>2. Len(ls) \in Nat /\ Len(document) \in Nat /\ j \in Nat BY <3>2, <5>1
          <6>3. i = Len(ls) + j BY <5>1
          <6> HIDE DEF j
          <6> QED BY <2>0, <6>1, <6>2, <6>3
        <5> HIDE DEF j
        <5> QED BY <5>1, <5>2, <3>2, <1>13
      <4> QED BY <4>1, <4>2
    <3>4. Len(ran') <= Len(document')
      BY <1>1, <1>7, <3>1, <3>2
    <3>5. Len(document') + Len(ls') = Len(Loader!Requested')
      <4>1. Len(document') = Len(document) BY <3>1
      <4>2. Len(more) \in Nat /\ Len(Loader!Requested') = Len(Loader!Requested) + Len(more)
        BY <1>6, <1>8
      <4>3. Len(document) + Len(ls) = Len(Loader!Requested) BY <2>1
      <4>4. Len(ls') = Len(ls) + Len(more) /\ Len(ls) \in Nat /\ Len(document) \in Nat BY <3>2
      <4> QED BY <2>0, <4>1, <4>2, <4>3, <4>4
    <3> QED BY <1>1, <2>1, <2>2, <2>3, <3>1, <3>3, <3>4, <3>5 DEF Loader!InOrderAsked
  <2>4. CASE engine # "trident"
    <3>1. document' = document \o more /\ ls' = ls /\ ls = <<>> BY <1>10, <2>1, <2>4
    <3>2. /\ Len(document') = Len(document) + Len(more) /\ Len(ls) = 0 /\ Len(document) \in Nat
          /\ \A i \in 1 .. Len(document) : document'[i] = document[i]
          /\ \A i \in 1 .. Len(more) : document'[Len(document) + i] = more[i]
      <4>1. Len(ls) = 0 BY <3>1
      <4> DEFINE d == document \o more
      <4>2. /\ Len(d) = Len(document) + Len(more) /\ Len(document) \in Nat
            /\ \A i \in 1 .. Len(document) : d[i] = document[i]
            /\ \A i \in 1 .. Len(more) : d[Len(document) + i] = more[i]
        <5>1. document \in Seq(Names) /\ more \in Seq(Names) BY <1>5, <1>6
        <5> QED BY <5>1, Joined
      <4>3. document' = d BY <3>1
      <4> HIDE DEF d
      <4> QED BY <4>1, <4>2, <4>3
    <3>3. \A i \in 1 .. Len(document') : document'[i] = Loader!All[i]
      <4> SUFFICES ASSUME NEW i \in 1 .. Len(document) + Len(more) PROVE document'[i] = Loader!All[i]
        BY <3>2
      <4>1. CASE i \in 1 .. Len(document) BY <4>1, <2>1, <3>2
      <4>2. CASE i \notin 1 .. Len(document)
        <5> DEFINE j == i - Len(document)
        <5>1. j \in 1 .. Len(more) /\ i = Len(document) + j /\ Len(Loader!Requested) = Len(document)
          BY <4>2, <3>2, <2>1, <1>6
        <5> HIDE DEF j
        <5> QED BY <5>1, <3>2, <1>13
      <4> QED BY <4>1, <4>2
    <3>4. Len(ran') <= Len(document')
      BY <1>1, <1>6, <1>7, <3>1, <3>2
    <3>5. Len(document') + Len(ls') = Len(Loader!Requested')
      <4>1. Len(document') = Len(document) + Len(more) /\ Len(document) \in Nat BY <3>2
      <4>2. Len(more) \in Nat /\ Len(Loader!Requested') = Len(Loader!Requested) + Len(more)
        BY <1>6, <1>8
      <4>3. Len(document) + Len(ls) = Len(Loader!Requested) BY <2>1
      <4>4. Len(ls') = Len(ls) /\ Len(ls) = 0 BY <3>1, <3>2
      <4> QED BY <2>0, <4>1, <4>2, <4>3, <4>4
    <3>6. \A i \in 1 .. Len(ls') : ls'[i] = Loader!All[Len(document') + i] BY <3>1, <3>2
    <3> QED BY <1>1, <2>1, <2>2, <2>4, <3>1, <3>3, <3>4, <3>5, <3>6 DEF Loader!InOrderAsked
  <2> QED BY <2>3, <2>4
<1>15. Loader!ReadyStates'
  <2> SUFFICES ASSUME NEW t \in Names
      PROVE  /\ engine = "trident" => readyState'[t] = IF t \in Loader!ToSet(ran') THEN "complete"
                                               ELSE IF t \in arrived THEN "loaded" ELSE "loading"
             /\ engine = "presto" => readyState'[t] = IF t \in Loader!ToSet(ran') THEN "loaded" ELSE "loading"
             /\ engine = "webkit" => readyState'[t] = "undefined"
    BY <1>1, <1>4 DEF Loader!ReadyStates, Names, Loader!ScriptsTypeOK
  <2>1. /\ engine = "trident" => readyState[t] = IF t \in Loader!ToSet(ran) THEN "complete"
                                               ELSE IF t \in arrived THEN "loaded" ELSE "loading"
        /\ engine = "presto" => readyState[t] = IF t \in Loader!ToSet(ran) THEN "loaded" ELSE "loading"
        /\ engine = "webkit" => readyState[t] = "undefined"
    BY <1>4 DEF Loader!ReadyStates, Names
  <2>2. readyState \in [Names -> Loader!States] BY <1>4 DEF Loader!ScriptsTypeOK, Names
  <2>3. /\ engine = "trident" => readyState'[t] = IF t = s THEN "complete" ELSE readyState[t]
        /\ engine = "presto" => readyState'[t] = IF t = s THEN "loaded" ELSE readyState[t]
        /\ engine = "webkit" => readyState'[t] = readyState[t]
    BY <1>1, <2>2
  <2> QED BY <1>7, <2>1, <2>3
<1>16. Loader!HandlersCome'
  <2>1. /\ arrived \subseteq Loader!ToSet(Loader!Requested)
        /\ ps \subseteq Loader!ToSet(Loader!Requested)
        /\ Loader!ToSet(Loader!Requested) \ Loader!ToSet(ran) \subseteq ps
        /\ ps \cap Loader!ToSet(ran) \subseteq Loader!ToSet(events)
        /\ engine # "trident" => Loader!ToSet(events) \subseteq Loader!ToSet(ran)
        /\ ls # <<>> /\ Head(ls) \in arrived => Head(ls) \in Loader!ToSet(events)
        /\ started = 1 <=> ps = {}
    BY <1>4 DEF Loader!HandlersCome
  <2>2. s \in ps BY <1>2, <2>1
  <2>3. ps' # {} /\ started # 1 /\ started' # 1 BY <1>1, <2>1, <2>2
  <2>4. Loader!ToSet(more) \cap Loader!ToSet(ran') = {}
    <3>1. CASE s # Asker BY <3>1, <1>6
    <3>2. CASE s = Asker
      <4> SUFFICES ASSUME NEW i \in 1 .. Len(Nested), Nested[i] \in Loader!ToSet(ran') PROVE FALSE
        <5>1. Loader!ToSet(Nested) = {Nested[i] : i \in 1 .. Len(Nested)} BY AllFacts, Members
        <5> QED BY <5>1, <1>6, <3>2
      <4>1. Nested[i] = Loader!All[Len(Files) + i] BY AllFacts
      <4>2. Loader!ToSet(ran') \subseteq Loader!ToSet(Loader!Requested) BY <1>2, <1>7, ScriptsFacts
      <4>3. PICK j \in 1 .. Len(Files) : Nested[i] = Loader!All[j]
        <5>1. Loader!ToSet(Loader!Requested) = {Loader!All[j] : j \in 1 .. Len(Files)}
          BY <1>2, <3>2, RequestedFacts
        <5> QED BY <5>1, <4>2
      <4>4. Len(Files) + i \in 1 .. Len(Loader!All) /\ j \in 1 .. Len(Loader!All) /\ j # Len(Files) + i
        BY AllFacts
      <4> QED BY <4>1, <4>3, <4>4, AllFacts
    <3> QED BY <3>1, <3>2
  <2>5. ASSUME ls' # <<>>, Head(ls') \in arrived PROVE Head(ls') \in Loader!ToSet(events')
    <3>1. CASE ls # <<>>
      <4>1. Head(ls') = Head(ls)
        <5>1. CASE engine = "trident"
          <6>1. ls' = ls \o more BY <5>1, <1>10
          <6>2. Len(ls) \in Nat /\ Len(ls) # 0 BY <3>1, <1>5
          <6>3. 1 \in 1 .. Len(ls) BY <6>2
          <6>4. ls'[1] = ls[1] BY <6>1, <6>3, <1>5, <1>6, Joined
          <6> QED BY <6>4, <2>5, <3>1
        <5>2. CASE engine # "trident" BY <5>2, <1>10
        <5> QED BY <5>1, <5>2
      <4> QED BY <4>1, <3>1, <2>1, <2>5, <1>9
    <3>2. CASE ls = <<>>
      <4>1. engine = "trident" BY <2>5, <3>2, <1>10
      <4>2. ls' = more BY <4>1, <3>2, <1>5, <1>6, <1>10
      <4>3. Head(ls') \in Loader!ToSet(more) BY <4>2, <1>6, <2>5, TailMembers
      <4>4. s = Asker BY <4>3, <1>6
      <4>5. PICK i \in 1 .. Len(Nested) : Head(ls') = Nested[i]
        <5>1. Loader!ToSet(Nested) = {Nested[i] : i \in 1 .. Len(Nested)} BY AllFacts, Members
        <5> QED BY <5>1, <4>3, <1>6
      <4>6. Head(ls') \in Loader!ToSet(Loader!Requested) BY <2>1, <2>5
      <4>7. PICK j \in 1 .. Len(Files) : Head(ls') = Loader!All[j]
        <5>1. Loader!ToSet(Loader!Requested) = {Loader!All[j] : j \in 1 .. Len(Files)}
          BY <1>2, <4>4, RequestedFacts
        <5> QED BY <5>1, <4>6
      <4>8. Len(Files) + i \in 1 .. Len(Loader!All) /\ j \in 1 .. Len(Loader!All) /\ j # Len(Files) + i
        BY AllFacts
      <4>9. Nested[i] = Loader!All[Len(Files) + i] BY AllFacts
      <4> QED BY <4>5, <4>7, <4>8, <4>9, AllFacts
    <3> QED BY <3>1, <3>2
  <2>6. Loader!ToSet(Loader!Requested') \ Loader!ToSet(ran') \subseteq ps' BY <1>1, <1>7, <1>8, <2>1
  <2>7. ps' \cap Loader!ToSet(ran') \subseteq Loader!ToSet(events') BY <1>1, <1>7, <1>9, <2>1, <2>4
  <2> QED BY <1>1, <1>7, <1>8, <1>9, <2>1, <2>3, <2>5, <2>6, <2>7 DEF Loader!HandlersCome
<1> QED BY <1>12, <1>14, <1>15, <1>16 DEF Loader!ScriptsInv

\* A handler takes its script off ps when it has run, and no earlier.
LEMMA CompleteFacts ==
  ASSUME Loader!ScriptsInv, NEW s \in Names, s \in ps, s \in Loader!ToSet(events)
  PROVE  Loader!Complete(s) <=> s \in Loader!ToSet(ran)
<1>1. Loader!ReadyStates /\ Loader!HandlersCome /\ engine \in {"trident", "presto", "webkit"}
  BY DEF Loader!ScriptsInv, Loader!ScriptsTypeOK
<1>2. CASE engine = "trident" BY <1>1, <1>2 DEF Loader!ReadyStates, Names, Loader!Complete
<1>3. CASE engine = "presto"
  BY <1>1, <1>3 DEF Loader!ReadyStates, Loader!HandlersCome, Names, Loader!Complete
<1>4. CASE engine = "webkit"
  BY <1>1, <1>4 DEF Loader!ReadyStates, Loader!HandlersCome, Names, Loader!Complete
<1> QED BY <1>1, <1>2, <1>3, <1>4

\* A handler counts what is complete and lets trident's next scripts in.
LEMMA HandleSafe == ASSUME Loader!ScriptsInv, Loader!Handle PROVE Loader!ScriptsInv'
<1> DEFINE s == Head(events)
<1>1. /\ events # <<>> /\ events' = Tail(events)
      /\ UNCHANGED <<engine, readyState, arrived, ran>>
      /\ s \in ps => /\ \E n \in 0 .. Len(ls) : /\ Loader!Front_(ls, n)
                                                /\ document' = document \o SubSeq(ls, 1, n)
                                                /\ ls' = SubSeq(ls, n + 1, Len(ls))
                     /\ ps' = IF Loader!Complete(s) THEN ps \ {s} ELSE ps
                     /\ started' = IF ps' = {} THEN started + 1 ELSE started
      /\ s \notin ps => UNCHANGED <<document, ls, ps, started>>
  BY DEF Loader!Handle
<1>2. Loader!ScriptsTypeOK /\ Loader!InOrderAsked /\ Loader!ReadyStates /\ Loader!HandlersCome
  BY DEF Loader!ScriptsInv
<1>3. ran \in Seq(Names) /\ document \in Seq(Names) /\ ls \in Seq(Names) /\ events \in Seq(Names)
      /\ Len(ls) \in Nat /\ Len(document) \in Nat
  BY <1>2 DEF Loader!ScriptsTypeOK, Names
<1>4. /\ s \in Names /\ s \in Loader!ToSet(events) /\ events' \in Seq(Names)
      /\ Loader!ToSet(events) = {s} \cup Loader!ToSet(events')
  BY <1>1, <1>3, TailMembers
<1> HIDE DEF s
<1>5. Loader!Requested' = Loader!Requested BY <1>1 DEF Loader!Requested
<1>6. /\ arrived \subseteq Loader!ToSet(Loader!Requested)
      /\ ps \subseteq Loader!ToSet(Loader!Requested)
      /\ Loader!ToSet(Loader!Requested) \ Loader!ToSet(ran) \subseteq ps
      /\ ps \cap Loader!ToSet(ran) \subseteq Loader!ToSet(events)
      /\ engine # "trident" => Loader!ToSet(events) \subseteq Loader!ToSet(ran)
      /\ ls # <<>> /\ Head(ls) \in arrived => Head(ls) \in Loader!ToSet(events)
      /\ started = 1 <=> ps = {}
  BY <1>2 DEF Loader!HandlersCome
<1>7. Loader!ReadyStates' BY <1>1, <1>2 DEF Loader!ReadyStates
<1>8. CASE s \notin ps
  <2>1. UNCHANGED <<document, ls, ps, started>> BY <1>1, <1>8
  <2>2. Loader!ScriptsTypeOK' BY <1>1, <1>2, <1>4, <2>1 DEF Loader!ScriptsTypeOK, Names
  <2>3. Loader!InOrderAsked' BY <1>1, <1>2, <1>5, <2>1 DEF Loader!InOrderAsked
  <2>4. ls # <<>> => Head(ls) # s
    <3> SUFFICES ASSUME ls # <<>> PROVE Head(ls) # s OBVIOUS
    <3>1. 1 \in 1 .. Len(ls) /\ Head(ls) = ls[1] BY <1>3
    <3>2. ls[1] \notin Loader!ToSet(ran) BY <3>1, ScriptsFacts
    <3>3. ls[1] \in Loader!ToSet(Loader!Requested)
      <4>1. ls[1] = Loader!All[Len(document) + 1] BY <1>2, <3>1 DEF Loader!InOrderAsked
      <4>2. Len(document) + 1 \in 1 .. Len(Loader!Requested)
        BY <1>2, <1>3, <3>1, RequestedFacts DEF Loader!InOrderAsked
      <4> QED BY <4>1, <4>2, RequestedFacts
    <3> QED BY <3>1, <3>2, <3>3, <1>6, <1>8
  <2>5. Loader!HandlersCome' BY <1>1, <1>4, <1>5, <1>6, <1>8, <2>1, <2>4 DEF Loader!HandlersCome
  <2> QED BY <1>7, <2>2, <2>3, <2>5 DEF Loader!ScriptsInv
<1>9. CASE s \in ps
  <2>1. PICK n \in 0 .. Len(ls) : /\ Loader!Front_(ls, n)
                                  /\ document' = document \o SubSeq(ls, 1, n)
                                  /\ ls' = SubSeq(ls, n + 1, Len(ls))
    BY <1>1, <1>9
  <2>2. /\ ps' = IF Loader!Complete(s) THEN ps \ {s} ELSE ps
        /\ started' = IF ps' = {} THEN started + 1 ELSE started
    BY <1>1, <1>9
  <2> DEFINE front == SubSeq(ls, 1, n)
  <2>3. /\ front \in Seq(Names) /\ Len(front) = n
        /\ \A i \in 1 .. n : front[i] = ls[i]
    BY <1>3
  <2>4. /\ ls' \in Seq(Names) /\ Len(ls') = Len(ls) - n
        /\ \A i \in 1 .. Len(ls) - n : ls'[i] = ls[n + i]
    BY <1>3, <2>1
  <2>5. document' = document \o front BY <2>1
  <2> HIDE DEF front
  <2>6. /\ document' \in Seq(Names) /\ Len(document') = Len(document) + n
        /\ \A i \in 1 .. Len(document) : document'[i] = document[i]
        /\ \A i \in 1 .. n : document'[Len(document) + i] = front[i]
    <3> DEFINE d == document \o front
    <3>1. /\ d \in Seq(Names) /\ Len(d) = Len(document) + n
          /\ \A i \in 1 .. Len(document) : d[i] = document[i]
          /\ \A i \in 1 .. n : d[Len(document) + i] = front[i]
      <4>1. /\ d \in Seq(Names) /\ Len(d) = Len(document) + Len(front)
            /\ \A i \in 1 .. Len(document) : d[i] = document[i]
            /\ \A i \in 1 .. Len(front) : d[Len(document) + i] = front[i]
        <5>1. d \in Seq(Names) /\ Len(d) = Len(document) + Len(front)
          <6>1. document \in Seq(Names) /\ front \in Seq(Names) BY <1>3, <2>3
          <6>2. d \in Seq(Names) BY <6>1, JoinedType
          <6>3. Len(d) = Len(document) + Len(front) BY <6>1, JoinedLength
          <6> QED BY <6>2, <6>3
        <5>2. \A i \in 1 .. Len(document) : d[i] = document[i] BY <1>3, <2>3
        <5>3. \A i \in 1 .. Len(front) : d[Len(document) + i] = front[i] BY <1>3, <2>3
        <5> QED BY <5>1, <5>2, <5>3
      <4> HIDE DEF d
      <4> QED BY <4>1, <2>3
    <3>2. document' = d BY <2>5
    <3> HIDE DEF d
    <3> QED BY <3>1, <3>2
  <2>7. Loader!InOrderAsked'
    <3>1. /\ Len(ran) <= Len(document) /\ Len(document) + Len(ls) = Len(Loader!Requested)
          /\ \A i \in 1 .. Len(ran) : ran[i] = Loader!All[i]
          /\ \A i \in 1 .. Len(document) : document[i] = Loader!All[i]
          /\ \A i \in 1 .. Len(ls) : ls[i] = Loader!All[Len(document) + i]
          /\ engine # "trident" => ls = <<>>
      BY <1>2 DEF Loader!InOrderAsked
    <3>2. \A i \in 1 .. Len(document') : document'[i] = Loader!All[i]
      <4> SUFFICES ASSUME NEW i \in 1 .. Len(document) + n PROVE document'[i] = Loader!All[i]
        BY <2>6
      <4>1. CASE i \in 1 .. Len(document) BY <4>1, <3>1, <2>6
      <4>2. CASE i \notin 1 .. Len(document)
        <5> DEFINE j == i - Len(document)
        <5>1. j \in 1 .. n /\ j \in 1 .. Len(ls) /\ i = Len(document) + j BY <4>2, <1>3
        <5> HIDE DEF j
        <5> QED BY <5>1, <2>3, <2>6, <3>1
      <4> QED BY <4>1, <4>2
    <3>3. \A i \in 1 .. Len(ls') : ls'[i] = Loader!All[Len(document') + i]
      <4> SUFFICES ASSUME NEW i \in 1 .. Len(ls) - n PROVE ls'[i] = Loader!All[Len(document') + i]
        BY <2>4
      <4>1. ls'[i] = ls[n + i] /\ n + i \in 1 .. Len(ls) BY <2>4, <1>3
      <4>2. Len(document) + (n + i) = Len(document') + i BY <2>6, <1>3
      <4>3. ls[n + i] = Loader!All[Len(document) + (n + i)] BY <4>1, <3>1
      <4> QED BY <4>1, <4>2, <4>3
    <3>4. engine # "trident" => ls' = <<>>
      <4> SUFFICES ASSUME engine # "trident" PROVE ls' = <<>> OBVIOUS
      <4>1. Len(ls) = 0 BY <3>1
      <4>2. Len(ls') = 0 BY <4>1, <2>4
      <4> QED BY <4>2, <2>4
    <3>5. Len(ran') <= Len(document') /\ Len(document') + Len(ls') = Len(Loader!Requested')
      <4>1. Len(ran) \in Nat /\ n \in Nat BY <1>3
      <4>2. Len(ran') = Len(ran) /\ Len(Loader!Requested') = Len(Loader!Requested) BY <1>1, <1>5
      <4>3. Len(Loader!Requested) \in Nat BY RequestedFacts
      <4>4. Len(ran) <= Len(document') BY <4>1, <1>3, <2>6, <3>1
      <4>5. Len(document') + Len(ls') = Len(Loader!Requested)
        <5>1. Len(document) + Len(ls) = Len(Loader!Requested) BY <3>1
        <5>2. Len(document') = Len(document) + n /\ Len(ls') = Len(ls) - n BY <2>4, <2>6
        <5> DEFINE a == Len(document)
                   b == Len(ls)
                   c == Len(Loader!Requested)
        <5>3. a \in Nat /\ b \in Nat /\ c \in Nat /\ n \in Nat BY <1>3, <4>1, <4>3
        <5>4. a + b = c /\ Len(document') = a + n /\ Len(ls') = b - n BY <5>1, <5>2
        <5> HIDE DEF a, b, c
        <5>5. Len(document') + Len(ls') = c BY <5>3, <5>4
        <5> QED BY <5>5 DEF c
      <4> QED BY <4>2, <4>4, <4>5
    <3> QED BY <1>1, <3>1, <3>2, <3>3, <3>4, <3>5 DEF Loader!InOrderAsked
  <2>8. Loader!Complete(s) <=> s \in Loader!ToSet(ran) BY <1>4, <1>9, CompleteFacts
  <2>9. started # 1 BY <1>6, <1>9
  <2>10. started = 0 BY <1>2, <2>9 DEF Loader!ScriptsTypeOK
  <2>11. started' \in {0, 1} /\ (started' = 1 <=> ps' = {}) BY <2>2, <2>10
  <2>12. Loader!ScriptsTypeOK'
    BY <1>1, <1>2, <1>4, <2>4, <2>6, <2>11 DEF Loader!ScriptsTypeOK, Names
  <2>13. ASSUME ls' # <<>>, Head(ls') \in arrived PROVE FALSE
    <3>1. 1 \in 1 .. Len(ls) - n /\ Head(ls') = ls'[1] BY <2>4, <2>13, <1>3
    <3>2. Head(ls') = ls[n + 1] /\ n + 1 \in 1 .. Len(ls) BY <3>1, <2>4, <1>3
    <3>3. readyState[ls[n + 1]] = "loading" BY <2>1, <3>2, <1>3 DEF Loader!Front_
    <3>4. engine = "trident" BY <1>2, <3>2, <1>3 DEF Loader!InOrderAsked
    <3>5. ls[n + 1] \in Names BY <3>2, <1>3
    <3>6. readyState[ls[n + 1]] # "loading"
      BY <1>2, <2>13, <3>2, <3>4, <3>5 DEF Loader!ReadyStates, Names
    <3> QED BY <3>3, <3>6
  <2>14. Loader!HandlersCome'
    BY <1>1, <1>4, <1>5, <1>6, <2>2, <2>8, <2>11, <2>13 DEF Loader!HandlersCome
  <2> QED BY <1>7, <2>7, <2>12, <2>14 DEF Loader!ScriptsInv
<1> QED BY <1>8, <1>9

\* Each action of Scripts keeps ScriptsInv.
LEMMA ScriptsStep == ASSUME Loader!ScriptsInv, [Loader!Next]_(Loader!vars) PROVE Loader!ScriptsInv'
<1>1. ASSUME UNCHANGED Loader!vars PROVE Loader!ScriptsInv'
  <2>1. UNCHANGED <<engine, readyState, arrived, document, ran, ls, ps, events, started>>
    BY <1>1 DEF Loader!vars
  <2>2. Loader!Requested' = Loader!Requested BY <2>1 DEF Loader!Requested
  <2> QED
    BY <2>1, <2>2
    DEF Loader!ScriptsInv, Loader!ScriptsTypeOK, Loader!InOrderAsked, Loader!ReadyStates,
        Loader!HandlersCome
<1> QED BY <1>1, FetchSafe, RunSafe, HandleSafe DEF Loader!Next, Names

\* StartsOnce holds always, whatever the files, the browser and the order in
\* which they come: the page starts once, after its scripts have run in order.
THEOREM PageStartsOnce == ConsoleSpec => []StartsOnce
<1>1. ConsoleInit => Loader!ScriptsInv BY ScriptsInitially DEF ConsoleInit
<1>2. Loader!ScriptsInv /\ [ConsoleNext]_consoleVars => Loader!ScriptsInv'
  BY ScriptsStep DEF ConsoleNext, ViewSteps, KeysSteps, MouseSteps, PageSteps, ScriptsSteps,
                 SettingsSteps, AuthSteps, consoleVars, scriptVars, Loader!vars
<1>3. Loader!ScriptsInv => StartsOnce BY EnoughForStart DEF StartsOnce
<1> QED BY <1>1, <1>2, <1>3, PTL DEF ConsoleSpec

-----------------------------------------------------------------------------
(* Settings: what RFB works with.                                          *)

\* What a value means is in its text.
LEMMA MeaningFacts ==
  ASSUME NEW s \in Kept!Settings, NEW value
  PROVE  /\ Kept!Meaning(s, value) # Kept!None
         /\ Kept!Meaning(s, Kept!Written(value)) = Kept!Meaning(s, value)
         /\ value # Kept!None => Kept!Written(value) # Kept!None
  BY DEF Kept!Meaning, Kept!Written, Kept!None, Kept!Bool, Kept!Str, Kept!JS

\* What a control says is what it means.
LEMMA ControlMeaning ==
  ASSUME NEW s \in Kept!Settings, NEW value,
         \/ SettingType[s] = "bool" /\ value \in {Kept!Bool(FALSE), Kept!Bool(TRUE)}
         \/ SettingType[s] # "bool" /\ value = Kept!Str(value.text)
  PROVE  Kept!Meaning(s, value) = value /\ value # Kept!None
<1>1. LowerCase("true") \notin Kept!No /\ LowerCase("false") \in Kept!No
  BY ConsoleAssumption DEF Kept!No, Kept!SettingsAssumption
<1> QED BY <1>1 DEF Kept!Meaning, Kept!Bool, Kept!Str, Kept!JS, Kept!None

LEMMA FalseMeaning ==
  ASSUME "cursor" \in Kept!Settings
  PROVE  Kept!Meaning("cursor", Kept!Bool(FALSE)) = Kept!Bool(FALSE) /\ Kept!Bool(FALSE) # Kept!None
<1>1. SettingType["cursor"] = "bool" BY ConsoleAssumption DEF Kept!Settings, Kept!SettingsAssumption
<1> QED BY <1>1, ControlMeaning DEF Kept!None, Kept!Bool, Kept!JS

\* What the control of a setting shows, and what RFB takes of it.
LEMMA ShownFacts ==
  ASSUME NEW st, NEW s \in Kept!Settings, st[s] # Kept!None
  PROVE  /\ Kept!Shown(st, s) = Kept!Meaning(s, st[s])
         /\ Kept!Setter(SettingType[s], Kept!getSetting(st, s))
               = Kept!Setter(SettingType[s], Kept!Meaning(s, st[s]))
<1>1. CASE SettingType[s] = "bool" BY <1>1 DEF Kept!Shown, Kept!getSetting, Kept!Meaning
<1>2. CASE SettingType[s] # "bool"
  BY <1>2 DEF Kept!Shown, Kept!getSetting, Kept!Meaning, Kept!Setter, Kept!Str, Kept!JS
<1> QED BY <1>1, <1>2

LEMMA ShownControls ==
  ASSUME NEW st, NEW s \in Kept!Settings, st[s] # Kept!None
  PROVE  \/ SettingType[s] = "bool" /\ Kept!Shown(st, s) \in {Kept!Bool(FALSE), Kept!Bool(TRUE)}
         \/ SettingType[s] # "bool" /\ Kept!Shown(st, s) = Kept!Str(Kept!Shown(st, s).text)
<1>1. Kept!Shown(st, s) = Kept!Meaning(s, st[s]) BY ShownFacts
<1>2. CASE SettingType[s] = "bool"
  <2>1. Kept!Meaning(s, st[s]) = Kept!Bool(LowerCase(st[s].text) \notin Kept!No)
    BY <1>2 DEF Kept!Meaning
  <2>2. CASE LowerCase(st[s].text) \in Kept!No
    <3>1. Kept!Meaning(s, st[s]) = Kept!Bool(FALSE) BY <2>1, <2>2 DEF Kept!Bool
    <3> QED BY <1>1, <1>2, <3>1
  <2>3. CASE LowerCase(st[s].text) \notin Kept!No
    <3>1. Kept!Meaning(s, st[s]) = Kept!Bool(TRUE) BY <2>1, <2>3 DEF Kept!Bool
    <3> QED BY <1>1, <1>2, <3>1
  <2> QED BY <2>2, <2>3
<1>3. CASE SettingType[s] # "bool"
  <2>1. Kept!Meaning(s, st[s]) = Kept!Str(st[s].text) BY <1>3 DEF Kept!Meaning
  <2>2. Kept!Str(Kept!Str(st[s].text).text) = Kept!Str(st[s].text) BY DEF Kept!Str, Kept!JS
  <2> QED BY <1>1, <1>3, <2>1, <2>2
<1> QED BY <1>2, <1>3

\* initSetting gives every setting a value.
LEMMA StartSafe ==
  ASSUME Kept!SettingsInv, Kept!Start(stored), wanted' = Kept!Asked, UNCHANGED <<chrome, cursorUri>>
  PROVE  Kept!SettingsInv'
<1> DEFINE read == [s \in Kept!Settings |-> Kept!Initial(stored, s)]
           begun == [s \in Kept!Settings |-> IF s = "cursor" THEN Kept!Written(Kept!Bool(FALSE)) ELSE read[s]]
<1>1. /\ stored' = begun /\ settings' = (IF chrome THEN begun ELSE settings)
      /\ controls' = [s \in Kept!Settings |-> Kept!Shown(begun, s)]
      /\ settingsPage' = "ready" /\ menu' = FALSE
  BY DEF Kept!Start, Kept!Save
<1>2. \A s \in Kept!Settings : s # "cursor" => begun[s] = Kept!Initial(stored, s) OBVIOUS
<1>3. "cursor" \in Kept!Settings => begun["cursor"] = Kept!Written(Kept!Bool(FALSE)) OBVIOUS
<1>4. begun = [s \in Kept!Settings |-> begun[s]] OBVIOUS
<1> HIDE DEF begun
<1>5. \A s \in Kept!Settings : begun[s] # Kept!None /\ wanted'[s] = Kept!Meaning(s, begun[s])
  <2> SUFFICES ASSUME NEW s \in Kept!Settings
               PROVE  begun[s] # Kept!None /\ wanted'[s] = Kept!Meaning(s, begun[s])
    OBVIOUS
  <2>1. CASE s = "cursor"
    <3>1. wanted'[s] = Kept!Bool(FALSE) BY <2>1 DEF Kept!Asked
    <3> QED BY <2>1, <3>1, <1>3, FalseMeaning, MeaningFacts
  <2>2. CASE s # "cursor"
    <3> DEFINE value == IF query'[s] # Kept!None THEN query'[s]
                        ELSE Kept!readSetting(stored, s, SettingDefault[s])
    <3>1. begun[s] = Kept!Written(value) BY <2>2, <1>2 DEF Kept!Initial
    <3>2. SettingDefault[s] # Kept!None
      BY ConsoleAssumption DEF Kept!Settings, Kept!None, Kept!JS, Kept!SettingsAssumption
    <3>3. \/ stored[s] = Kept!None /\ wanted[s] = Kept!None
          \/ stored[s] # Kept!None /\ wanted[s] = Kept!Meaning(s, stored[s])
      BY DEF Kept!SettingsInv, Kept!StoredIsWanted
    <3>4. wanted'[s] = IF query'[s] # Kept!None THEN Kept!Meaning(s, query'[s])
                       ELSE IF wanted[s] # Kept!None THEN wanted[s] ELSE Kept!Meaning(s, SettingDefault[s])
      BY <2>2 DEF Kept!Asked
    <3>5. wanted'[s] = Kept!Meaning(s, value) /\ value # Kept!None
      <4>1. CASE query'[s] # Kept!None BY <3>4, <4>1
      <4>2. CASE query'[s] = Kept!None /\ stored[s] = Kept!None
        BY <3>2, <3>3, <3>4, <4>2, MeaningFacts DEF Kept!readSetting
      <4>3. CASE query'[s] = Kept!None /\ stored[s] # Kept!None
        BY <3>3, <3>4, <4>3, MeaningFacts DEF Kept!readSetting
      <4> QED BY <4>1, <4>2, <4>3
    <3> HIDE DEF value
    <3> QED BY <3>1, <3>5, MeaningFacts
  <2> QED BY <2>1, <2>2
<1>6. \A s \in Kept!Settings : controls'[s] = wanted'[s] BY <1>1, <1>5, ShownFacts
<1>7. "cursor" \in Kept!Settings => wanted'["cursor"] = Kept!Bool(FALSE) BY DEF Kept!Asked
<1>8. Kept!StoredIsWanted'
  <2>1. \A s \in Kept!Settings : stored'[s] # Kept!None /\ wanted'[s] = Kept!Meaning(s, stored'[s])
    BY <1>1, <1>5
  <2>2. stored' = [s \in Kept!Settings |-> stored'[s]] BY <1>1, <1>4
  <2> QED BY <2>1, <2>2 DEF Kept!StoredIsWanted, Kept!Meaning
<1>9. Kept!Copied' BY <1>1 DEF Kept!Copied
<1>10. Kept!Begun' BY <1>1, <1>5, <1>7 DEF Kept!Begun
<1>11. Kept!Controlled' BY <1>1 DEF Kept!Controlled
<1>12. Kept!Configured' BY <1>1, <1>6 DEF Kept!Configured
<1> QED BY <1>8, <1>9, <1>10, <1>11, <1>12 DEF Kept!SettingsInv

\* Nothing is stored to begin with.
LEMMA SettingsInitially == Kept!Init => Kept!SettingsInv
  BY DEF Kept!Init, Kept!SettingsInv, Kept!StoredIsWanted, Kept!Copied, Kept!Begun,
         Kept!Controlled, Kept!Configured

\* One lemma for each action of Settings.
LEMMA LoadSafe == ASSUME Kept!SettingsInv, NEW q \in Queries, Kept!Load(q) PROVE Kept!SettingsInv'
<1>1. CASE chrome
  <2>1. /\ settingsPage' = "asking"
        /\ UNCHANGED <<chrome, cursorUri, stored, settings, controls, menu, attributes, wanted>>
    BY <1>1 DEF Kept!Load
  <2>2. Kept!StoredIsWanted' BY <2>1 DEF Kept!SettingsInv, Kept!StoredIsWanted, Kept!Meaning
  <2> QED
    BY <2>1, <2>2 DEF Kept!SettingsInv, Kept!Copied, Kept!Begun, Kept!Controlled, Kept!Configured
<1>2. CASE ~chrome
  <2>1. Kept!Start(stored) /\ wanted' = Kept!Asked /\ UNCHANGED <<chrome, cursorUri>>
    BY <1>2 DEF Kept!Load
  <2> QED BY <2>1, StartSafe
<1> QED BY <1>1, <1>2

LEMMA GotSafe == ASSUME Kept!SettingsInv, Kept!GotSettings PROVE Kept!SettingsInv'
  BY StartSafe DEF Kept!GotSettings

\* In a page that has begun the storage is what is stored.
LEMMA StorageFacts ==
  ASSUME Kept!SettingsInv, settingsPage \in {"ready", "connected"}
  PROVE  /\ Kept!Storage = stored
         /\ \A s \in Kept!Settings : stored[s] # Kept!None /\ wanted[s] = Kept!Meaning(s, stored[s])
  BY DEF Kept!SettingsInv, Kept!Storage, Kept!Copied, Kept!Begun, Kept!StoredIsWanted

LEMMA OpenSafe == ASSUME Kept!SettingsInv, Kept!OpenMenu PROVE Kept!SettingsInv'
<1> DEFINE st == IF cursorUri THEN Kept!Storage
                 ELSE [Kept!Storage EXCEPT !["cursor"] = Kept!Written(Kept!Bool(FALSE))]
<1>1. /\ stored' = st /\ settings' = (IF chrome THEN st ELSE settings)
      /\ controls' = [s \in Kept!Settings |-> Kept!Shown(st, s)] /\ menu' = TRUE
      /\ settingsPage = "ready"
      /\ UNCHANGED <<settingsPage, chrome, cursorUri, query, attributes, wanted>>
  BY DEF Kept!OpenMenu, Kept!Save
<1>2. /\ Kept!Storage = stored
      /\ \A s \in Kept!Settings : stored[s] # Kept!None /\ wanted[s] = Kept!Meaning(s, stored[s])
      /\ stored = [s \in Kept!Settings |-> stored[s]]
  BY <1>1, StorageFacts DEF Kept!SettingsInv, Kept!StoredIsWanted
<1>3. st = [s \in Kept!Settings |-> st[s]] BY <1>2
<1>4. \A s \in Kept!Settings : \/ st[s] = stored[s]
                               \/ (s = "cursor" /\ ~cursorUri /\ st[s] = Kept!Written(Kept!Bool(FALSE)))
  BY <1>2
<1>5. "cursor" \in Kept!Settings /\ ~cursorUri => st["cursor"] = Kept!Written(Kept!Bool(FALSE))
  BY <1>2
<1> HIDE DEF st
<1>6. "cursor" \in Kept!Settings /\ ~cursorUri => wanted["cursor"] = Kept!Bool(FALSE)
  BY <1>1 DEF Kept!SettingsInv, Kept!Begun
<1>7. \A s \in Kept!Settings : st[s] # Kept!None /\ wanted[s] = Kept!Meaning(s, st[s])
  BY <1>2, <1>4, <1>6, FalseMeaning, MeaningFacts
<1>8. Kept!StoredIsWanted'
  <2>1. \A s \in Kept!Settings : stored'[s] # Kept!None /\ wanted'[s] = Kept!Meaning(s, stored'[s])
    BY <1>1, <1>7
  <2>2. stored' = [s \in Kept!Settings |-> stored'[s]] BY <1>1, <1>3
  <2> QED BY <2>1, <2>2 DEF Kept!StoredIsWanted, Kept!Meaning
<1>9. Kept!Copied' BY <1>1 DEF Kept!Copied
<1>10. Kept!Begun' BY <1>1, <1>6, <1>7 DEF Kept!Begun
<1>11. Kept!Controlled'
  <2>1. \A s \in Kept!Settings :
          \/ SettingType[s] = "bool" /\ controls'[s] \in {Kept!Bool(FALSE), Kept!Bool(TRUE)}
          \/ SettingType[s] # "bool" /\ controls'[s] = Kept!Str(controls'[s].text)
    BY <1>1, <1>7, ShownControls
  <2>2. "cursor" \in Kept!Settings /\ ~cursorUri => controls'["cursor"] = Kept!Bool(FALSE)
    <3>1. "cursor" \in Kept!Settings => controls'["cursor"] = wanted["cursor"]
      BY <1>1, <1>7, ShownFacts
    <3> QED BY <1>6, <3>1
  <2>3. controls' = [s \in Kept!Settings |-> controls'[s]] BY <1>1
  <2>4. UNCHANGED cursorUri BY <1>1
  <2> QED BY <2>1, <2>2, <2>3, <2>4 DEF Kept!Controlled
<1>12. Kept!Configured' BY <1>1 DEF Kept!SettingsInv, Kept!Configured
<1> QED BY <1>8, <1>9, <1>10, <1>11, <1>12 DEF Kept!SettingsInv

LEMMA EditSafe ==
  ASSUME Kept!SettingsInv, NEW s \in Kept!Settings, NEW value, Kept!Edit(s, value),
         \/ SettingType[s] = "bool" /\ value \in {Kept!Bool(FALSE), Kept!Bool(TRUE)}
         \/ SettingType[s] # "bool" /\ value = Kept!Str(value.text)
  PROVE  Kept!SettingsInv'
<1>1. /\ settingsPage = "ready" /\ menu /\ (s = "cursor" => cursorUri)
      /\ controls' = [controls EXCEPT ![s] = value]
      /\ UNCHANGED <<settingsPage, chrome, cursorUri, query, stored, settings, menu, attributes, wanted>>
  BY DEF Kept!Edit
<1>2. Kept!Controlled'
  <2>1. Kept!Controlled BY DEF Kept!SettingsInv
  <2>2. controls'[s] = value /\ \A t \in Kept!Settings : t # s => controls'[t] = controls[t]
    BY <1>1, <2>1 DEF Kept!Controlled
  <2>3. controls' = [t \in Kept!Settings |-> controls'[t]] BY <1>1, <2>1 DEF Kept!Controlled
  <2>4. \A t \in Kept!Settings : \/ SettingType[t] = "bool" /\ controls'[t] \in {Kept!Bool(FALSE), Kept!Bool(TRUE)}
                                 \/ SettingType[t] # "bool" /\ controls'[t] = Kept!Str(controls'[t].text)
    BY <1>1, <2>1, <2>2 DEF Kept!Controlled
  <2>5. "cursor" \in Kept!Settings /\ ~cursorUri => controls'["cursor"] = Kept!Bool(FALSE)
    BY <1>1, <2>1, <2>2 DEF Kept!Controlled
  <2> QED BY <1>1, <2>3, <2>4, <2>5 DEF Kept!Controlled
<1>3. Kept!StoredIsWanted' BY <1>1 DEF Kept!SettingsInv, Kept!StoredIsWanted, Kept!Meaning
<1> QED BY <1>1, <1>2, <1>3 DEF Kept!SettingsInv, Kept!Copied, Kept!Begun, Kept!Configured

LEMMA CloseSafe == ASSUME Kept!SettingsInv, Kept!CloseMenu PROVE Kept!SettingsInv'
<1> DEFINE st == [s \in Kept!Settings |-> Kept!saveSetting(s)]
<1>1. /\ settingsPage = "ready" /\ menu /\ menu' = FALSE
      /\ stored' = st /\ settings' = (IF chrome THEN st ELSE settings)
      /\ wanted' = controls
      /\ UNCHANGED <<settingsPage, chrome, cursorUri, query, controls, attributes>>
  BY DEF Kept!CloseMenu, Kept!Save
<1>2. Kept!Controlled BY DEF Kept!SettingsInv
<1>3. /\ Kept!Storage = stored
      /\ \A s \in Kept!Settings : stored[s] # Kept!None /\ wanted[s] = Kept!Meaning(s, stored[s])
  BY <1>1, StorageFacts
<1>4. \A s \in Kept!Settings : st[s] # Kept!None /\ controls[s] = Kept!Meaning(s, st[s])
  <2> SUFFICES ASSUME NEW s \in Kept!Settings PROVE st[s] # Kept!None /\ controls[s] = Kept!Meaning(s, st[s])
    OBVIOUS
  <2>1. Kept!Meaning(s, controls[s]) = controls[s] /\ controls[s] # Kept!None
    <3>1. \/ SettingType[s] = "bool" /\ controls[s] \in {Kept!Bool(FALSE), Kept!Bool(TRUE)}
          \/ SettingType[s] # "bool" /\ controls[s] = Kept!Str(controls[s].text)
      BY <1>1, <1>2 DEF Kept!Controlled
    <3> QED BY <3>1, ControlMeaning
  <2>2. CASE s = "cursor" /\ ~cursorUri
    <3>1. st[s] = stored[s] BY <2>2, <1>3 DEF Kept!saveSetting
    <3>2. controls[s] = Kept!Bool(FALSE) BY <1>1, <1>2, <2>2 DEF Kept!Controlled
    <3>3. wanted[s] = Kept!Bool(FALSE) BY <1>1, <2>2 DEF Kept!SettingsInv, Kept!Begun
    <3> QED BY <3>1, <3>2, <3>3, <1>3
  <2>3. CASE ~(s = "cursor" /\ ~cursorUri)
    <3>1. st[s] = Kept!Written(controls[s]) BY <2>3 DEF Kept!saveSetting
    <3> QED BY <3>1, <2>1, MeaningFacts
  <2> QED BY <2>2, <2>3
<1>5. st = [s \in Kept!Settings |-> st[s]] OBVIOUS
<1> HIDE DEF st
<1>6. Kept!StoredIsWanted'
  <2>1. \A s \in Kept!Settings : stored'[s] # Kept!None /\ wanted'[s] = Kept!Meaning(s, stored'[s])
    BY <1>1, <1>4
  <2>2. stored' = [s \in Kept!Settings |-> stored'[s]] BY <1>1, <1>5
  <2> QED BY <2>1, <2>2 DEF Kept!StoredIsWanted, Kept!Meaning
<1>7. Kept!Copied' BY <1>1 DEF Kept!Copied
<1>8. Kept!Begun' BY <1>1, <1>2, <1>4 DEF Kept!Begun, Kept!Controlled
<1>9. Kept!Controlled' BY <1>1 DEF Kept!Controlled
<1>10. Kept!Configured' BY <1>1 DEF Kept!Configured
<1> QED BY <1>6, <1>7, <1>8, <1>9, <1>10 DEF Kept!SettingsInv

LEMMA ConnectSafe == ASSUME Kept!SettingsInv, Kept!Connect PROVE Kept!SettingsInv'
<1>1. /\ settingsPage = "ready" /\ ~menu /\ settingsPage' = "connected"
      /\ attributes' = [s \in Kept!Settings |-> Kept!set_(s, Kept!getSetting(Kept!Storage, s))]
      /\ UNCHANGED <<chrome, cursorUri, query, stored, settings, controls, menu, wanted>>
  BY DEF Kept!Connect
<1>2. /\ Kept!Storage = stored
      /\ \A s \in Kept!Settings : stored[s] # Kept!None /\ wanted[s] = Kept!Meaning(s, stored[s])
  BY <1>1, StorageFacts
<1>3. ASSUME NEW s \in Kept!Settings PROVE attributes'[s] = Kept!Setter(SettingType[s], wanted[s])
  <2>1. attributes'[s] = Kept!set_(s, Kept!getSetting(stored, s)) BY <1>1, <1>2
  <2>2. Kept!Setter(SettingType[s], Kept!getSetting(stored, s)) = Kept!Setter(SettingType[s], wanted[s])
    BY <1>2, ShownFacts
  <2>3. CASE s = "cursor" /\ ~cursorUri
    <3>1. wanted[s] = Kept!Bool(FALSE) BY <1>1, <2>3 DEF Kept!SettingsInv, Kept!Begun
    <3>2. SettingType[s] = "bool"
      BY <2>3, ConsoleAssumption DEF Kept!Settings, Kept!SettingsAssumption
    <3>3. Kept!Setter("bool", Kept!getSetting(stored, s)) = Kept!Bool(FALSE)
      BY <2>2, <3>1, <3>2 DEF Kept!Setter, Kept!Falsy, Kept!Bool
    <3>4. Kept!Bool(FALSE) # Kept!Bool(TRUE) BY DEF Kept!Bool, Kept!JS
    <3> QED BY <2>1, <2>2, <3>3, <3>4 DEF Kept!set_
  <2>4. CASE ~(s = "cursor" /\ ~cursorUri) BY <2>1, <2>2, <2>4 DEF Kept!set_
  <2> QED BY <2>3, <2>4
<1>4. Kept!Configured' BY <1>1, <1>3 DEF Kept!SettingsInv, Kept!Configured
<1>5. Kept!StoredIsWanted' BY <1>1 DEF Kept!SettingsInv, Kept!StoredIsWanted, Kept!Meaning
<1> QED BY <1>1, <1>4, <1>5 DEF Kept!SettingsInv, Kept!Copied, Kept!Begun, Kept!Controlled

LEMMA AutoSafe ==
  ASSUME Kept!SettingsInv, NEW q \in Queries, Kept!AutoConnect(q)
  PROVE Kept!SettingsInv'
<1>1. /\ settingsPage' = "auto" /\ query' = q
      /\ attributes' = [s \in Kept!Settings |->
                      IF s \notin DOMAIN PageDefault THEN Kept!Constructed[s]
                      ELSE Kept!Setter(SettingType[s], IF q[s] = Kept!None THEN PageDefault[s] ELSE q[s])]
      /\ UNCHANGED <<chrome, cursorUri, stored, settings, controls, menu, wanted>>
  BY DEF Kept!AutoConnect
<1>2. ASSUME NEW s \in DOMAIN PageDefault, q[s] # Kept!None, ~Kept!Misread(s, q[s].text)
      PROVE  attributes'[s] = Kept!Setter(SettingType[s], Kept!Meaning(s, q[s]))
  <2>1. s \in Kept!Settings BY ConsoleAssumption DEF Kept!Settings, Kept!SettingsAssumption
  <2>2. attributes'[s] = Kept!Setter(SettingType[s], q[s]) BY <1>1, <1>2, <2>1
  <2>3. CASE SettingType[s] = "bool"
    <3> DEFINE text == q[s].text
    <3>1. text # "" /\ (LowerCase(text) \in Kept!No <=> text \in Kept!No)
      <4>1. text \in Kept!No => LowerCase(text) = text
        BY ConsoleAssumption DEF Kept!No, Kept!SettingsAssumption
      <4> QED BY <4>1, <1>2, <2>3 DEF Kept!Misread
    <3>2. Kept!Falsy(q[s]) => text \in Kept!No
      <4>1. Kept!Bool(FALSE).text \in Kept!No BY DEF Kept!Bool, Kept!JS, Kept!No
      <4> QED BY <4>1, <1>2, <3>1 DEF Kept!Falsy
    <3>3. Kept!Setter(SettingType[s], q[s]) = Kept!Bool(text \notin Kept!No)
      BY <2>3, <3>2 DEF Kept!Setter, Kept!Bool
    <3>4. Kept!Meaning(s, q[s]) = Kept!Bool(text \notin Kept!No)
      BY <2>3, <3>1 DEF Kept!Meaning, Kept!Bool
    <3>5. /\ Kept!Setter("bool", Kept!Bool(FALSE)) = Kept!Bool(FALSE)
          /\ Kept!Setter("bool", Kept!Bool(TRUE)) = Kept!Bool(TRUE)
      BY DEF Kept!Setter, Kept!Falsy, Kept!Bool, Kept!JS, Kept!No, Kept!None
    <3>6. Kept!Bool(text \notin Kept!No) = Kept!Bool(FALSE) \/ Kept!Bool(text \notin Kept!No) = Kept!Bool(TRUE)
      BY DEF Kept!Bool
    <3> QED BY <2>2, <2>3, <3>3, <3>4, <3>5, <3>6
  <2>4. CASE SettingType[s] # "bool" BY <2>2, <2>4 DEF Kept!Setter, Kept!Meaning, Kept!Str, Kept!JS
  <2> QED BY <2>3, <2>4
<1>3. Kept!Configured' BY <1>1, <1>2 DEF Kept!Configured, Kept!Meaning, Kept!Misread
<1>4. Kept!StoredIsWanted' BY <1>1 DEF Kept!SettingsInv, Kept!StoredIsWanted, Kept!Meaning
<1> QED BY <1>1, <1>3, <1>4 DEF Kept!SettingsInv, Kept!Copied, Kept!Begun, Kept!Controlled

\* Each action of Settings keeps SettingsInv.
LEMMA SettingsStep == ASSUME Kept!SettingsInv, [Kept!Next]_(Kept!vars) PROVE Kept!SettingsInv'
<1>1. ASSUME Kept!Disconnect PROVE Kept!SettingsInv'
  <2>1. /\ settingsPage = "connected" /\ settingsPage' = "ready"
        /\ UNCHANGED <<chrome, cursorUri, query, stored, settings, controls, menu, attributes, wanted>>
    BY <1>1 DEF Kept!Disconnect
  <2>2. Kept!StoredIsWanted' BY <2>1 DEF Kept!SettingsInv, Kept!StoredIsWanted, Kept!Meaning
  <2>3. Kept!Copied' /\ Kept!Begun' BY <2>1 DEF Kept!SettingsInv, Kept!Copied, Kept!Begun
  <2>4. Kept!Controlled' BY <2>1 DEF Kept!SettingsInv, Kept!Controlled
  <2>5. Kept!Configured' BY <2>1 DEF Kept!SettingsInv, Kept!Configured
  <2> QED BY <2>2, <2>3, <2>4, <2>5 DEF Kept!SettingsInv
<1>2. ASSUME Kept!Unload PROVE Kept!SettingsInv'
  <2>1. settingsPage' = "none" /\ UNCHANGED <<stored, wanted>> BY <1>2 DEF Kept!Unload
  <2>2. Kept!StoredIsWanted' BY <2>1 DEF Kept!SettingsInv, Kept!StoredIsWanted, Kept!Meaning
  <2> QED
    BY <2>1, <2>2 DEF Kept!SettingsInv, Kept!Copied, Kept!Begun, Kept!Controlled, Kept!Configured
<1>3. ASSUME UNCHANGED Kept!vars PROVE Kept!SettingsInv'
  BY <1>3
  DEF Kept!vars, Kept!SettingsInv, Kept!StoredIsWanted, Kept!Copied, Kept!Begun, Kept!Controlled,
      Kept!Configured, Kept!Meaning
<1>4. ASSUME NEW s \in Kept!Settings, NEW text \in Texts, SettingType[s] # "bool", Kept!Edit(s, Kept!Str(text))
      PROVE  Kept!SettingsInv'
  <2>1. Kept!Str(text) = Kept!Str(Kept!Str(text).text) BY DEF Kept!Str, Kept!JS
  <2> QED BY <1>4, <2>1, EditSafe
<1>5. ASSUME NEW s \in Kept!Settings, NEW b \in BOOLEAN, SettingType[s] = "bool", Kept!Edit(s, Kept!Bool(b))
      PROVE  Kept!SettingsInv'
  <2>1. Kept!Bool(b) \in {Kept!Bool(FALSE), Kept!Bool(TRUE)} BY DEF Kept!Bool
  <2> QED BY <1>5, <2>1, EditSafe
<1> QED
  BY <1>1, <1>2, <1>3, <1>4, <1>5, LoadSafe, GotSafe, OpenSafe, CloseSafe, ConnectSafe, AutoSafe
  DEF Kept!Next

\* Configured holds always, whatever the settings and texts: what RFB works
\* with is what the user asked for last, but for what a checkbox misreads.
THEOREM SettingsKept == ConsoleSpec => []Configured
<1>1. ConsoleInit => Kept!SettingsInv BY SettingsInitially DEF ConsoleInit
<1>2. Kept!SettingsInv /\ [ConsoleNext]_consoleVars => Kept!SettingsInv'
  BY SettingsStep DEF ConsoleNext, ViewSteps, KeysSteps, MouseSteps, PageSteps, ScriptsSteps,
                 SettingsSteps, AuthSteps, consoleVars, settingVars, Kept!vars
<1>3. Kept!SettingsInv => Configured BY DEF Kept!SettingsInv, Configured
<1> QED BY <1>1, <1>2, <1>3, PTL DEF ConsoleSpec

-----------------------------------------------------------------------------
(* Auth: a challenge is answered once, and all of it.                      *)

\* A sequence is what is read of it and the rest.
LEMMA CutInTwo ==
  ASSUME NEW S, NEW q \in Seq(S), NEW n \in 0 .. Len(q)
  PROVE  /\ SubSeq(q, 1, n) \in Seq(S) /\ SubSeq(q, n + 1, Len(q)) \in Seq(S)
         /\ SubSeq(q, 1, n) \o SubSeq(q, n + 1, Len(q)) = q
<1>1. Len(q) \in Nat /\ n \in Int /\ n + 1 \in Int /\ 1 \in Int OBVIOUS
<1>2. \A i \in 1 .. Len(q) : q[i] \in S OBVIOUS
<1>3. SubSeq(q, 1, n) \in Seq(S)
  <2>1. \A i \in 1 .. n : q[i] \in S BY <1>1, <1>2
  <2> QED BY <1>1, <2>1, SubSeqProperties
<1>4. SubSeq(q, n + 1, Len(q)) \in Seq(S)
  <2> DEFINE m == n + 1
             l == Len(q)
  <2>1. m \in Int /\ l \in Int /\ \A i \in m .. l : q[i] \in S BY <1>1, <1>2
  <2> HIDE DEF m, l
  <2>2. SubSeq(q, m, l) \in Seq(S) BY <2>1, SubSeqProperties
  <2> QED BY <2>2 DEF m, l
<1>5. SubSeq(q, 1, n) \o SubSeq(q, n + 1, Len(q)) = SubSeq(q, 1, Len(q))
  <2>1. 1 \in 1 .. Len(q) + 1 /\ n \in 1 - 1 .. Len(q) /\ Len(q) \in n .. Len(q) BY <1>1
  <2> QED BY <2>1, ConcatAdjacentSubSeq
<1>6. SubSeq(q, 1, Len(q)) = q BY SubSeqFull
<1> QED BY <1>3, <1>4, <1>5, <1>6

\* des.js makes 16 bytes.
LEMMA AnswerNotEmpty == ASSUME NEW p, NEW c PROVE Login!genDES(p, c) # <<>>
<1>1. ASSUME NEW s PROVE Login!Spread(s) # <<>> /\ \E S : Login!Spread(s) \in Seq(S)
  <2> DEFINE f == Login!Spread(s)
             S == {f[i] : i \in 1 .. 8}
  <2>1. f = [i \in 1 .. 8 |-> f[i]] BY DEF Login!Spread
  <2> HIDE DEF f
  <2>2. f \in [1 .. 8 -> S] BY <2>1
  <2>3. f \in Seq(S) BY <2>2, SeqDef
  <2>4. DOMAIN f = 1 .. 8 BY <2>1
  <2>5. f # <<>> BY <2>4
  <2> QED BY <2>3, <2>5 DEF f
<1>2. ASSUME NEW f, NEW g, NEW S, NEW T, f \in Seq(S), g \in Seq(T), f # <<>> PROVE f \o g # <<>>
  <2>1. f \in Seq(S \cup T) /\ g \in Seq(S \cup T)
    <3>1. S \subseteq S \cup T /\ T \subseteq S \cup T OBVIOUS
    <3> QED BY <1>2, <3>1, SeqMonotonic
  <2> QED BY <1>2, <2>1, ConcatEqualIffEmpty
<1>3. ASSUME NEW keys, NEW t PROVE Login!encrypt(keys, t) # <<>>
  <2>1. ASSUME NEW x PROVE Login!enc8(keys, x) # <<>> /\ \E S : Login!enc8(keys, x) \in Seq(S)
    BY <1>1 DEF Login!enc8
  <2>2. Login!encrypt(keys, t) = Login!enc8(keys, SubSeq(t, 1, 8)) \o Login!enc8(keys, SubSeq(t, 9, 16))
    BY DEF Login!encrypt
  <2> QED BY <1>2, <2>1, <2>2
<1> QED BY <1>3 DEF Login!genDES

\* init_msg takes what is on the queue: challenge is queue \o unsent.
LEMMA InitMsgSafe ==
  ASSUME NEW queue \in Seq(Login!Byte), NEW rest \in Seq(Login!Byte),
         Login!init_msg(queue), challenge = queue \o rest, challenge \in Challenges, response = <<>>,
         rfb_password \in Passwords \cup {<<>>},
         authState \in {"Security", "password", "Authentication"}, authState = "Security" => queue = <<>>,
         unsent' = rest, timer' \in BOOLEAN, UNCHANGED <<rfb_password, challenge>>
  PROVE  Login!AuthInv'
<1>1. /\ Len(queue) \in Nat /\ Len(rest) \in Nat /\ Len(challenge) = Len(queue) + Len(rest)
      /\ Len(challenge) = 16
  <2>1. Len(challenge) = 16 BY ConsoleAssumption DEF Login!AuthAssumption
  <2>2. Len(queue) \in Nat /\ Len(rest) \in Nat BY LenProperties
  <2>3. Len(queue \o rest) = Len(queue) + Len(rest) BY ConcatProperties
  <2> QED BY <2>1, <2>2, <2>3
<1>2. CASE authState # "Authentication"
  <2>1. authQueue' = queue /\ UNCHANGED <<authState, response>> BY <1>2 DEF Login!init_msg
  <2> QED BY <1>2, <2>1 DEF Login!AuthInv
<1>3. CASE authState = "Authentication" /\ rfb_password = <<>>
  <2>1. authState' = "password" /\ authQueue' = queue /\ UNCHANGED response
    BY <1>3 DEF Login!init_msg, Login!Authentication
  <2> QED BY <1>3, <2>1 DEF Login!AuthInv
<1>4. CASE authState = "Authentication" /\ rfb_password # <<>> /\ Len(queue) < 16
  <2>1. authQueue' = queue /\ UNCHANGED <<authState, response>>
    BY <1>4 DEF Login!init_msg, Login!Authentication
  <2> QED BY <1>4, <2>1 DEF Login!AuthInv
<1>5. CASE authState = "Authentication" /\ rfb_password # <<>> /\ ~(Len(queue) < 16)
  <2>1. /\ response' = Login!genDES(rfb_password, SubSeq(queue, 1, 16))
        /\ authQueue' = SubSeq(queue, 17, Len(queue)) /\ authState' = "SecurityResult"
    BY <1>5 DEF Login!init_msg, Login!Authentication
  <2>2. Len(queue) = 16 /\ Len(rest) = 0
    <3>1. ~(Len(queue) < 16) BY <1>5
    <3>2. Len(queue) \in Nat /\ Len(rest) \in Nat /\ Len(queue) + Len(rest) = 16 BY <1>1
    <3> DEFINE a == Len(queue)
               b == Len(rest)
    <3>3. a \in Nat /\ b \in Nat /\ a + b = 16 /\ ~(a < 16) BY <3>1, <3>2
    <3> HIDE DEF a, b
    <3>4. a = 16 /\ b = 0 BY <3>3
    <3> QED BY <3>4 DEF a, b
  <2>3. rest = <<>> /\ queue \o rest = queue
    <3>1. rest = <<>> BY <2>2, EmptySeq
    <3> QED BY <3>1, ConcatEmptySeq
  <2>4. SubSeq(queue, 1, 16) = queue BY <2>2, SubSeqFull
  <2>5. SubSeq(queue, 17, Len(queue)) = <<>>
    <3>1. 17 \in Int /\ Len(queue) \in Int /\ Len(queue) < 17 BY <2>2
    <3> QED BY <3>1, SubSeqEmpty
  <2>6. response' = Login!genDES(rfb_password, challenge) BY <2>1, <2>3, <2>4
  <2>7. Login!genDES(rfb_password, challenge) # <<>> BY AnswerNotEmpty
  <2>8. <<>> \in Seq(Login!Byte) OBVIOUS
  <2> QED BY <1>5, <2>1, <2>3, <2>5, <2>6, <2>7, <2>8 DEF Login!AuthInv
<1> QED BY <1>2, <1>3, <1>4, <1>5

\* Nothing has been received to begin with.
LEMMA AuthInitially == Login!Init => Login!AuthInv
<1> SUFFICES ASSUME Login!Init PROVE Login!AuthInv OBVIOUS
<1>1. /\ authState = "Security" /\ rfb_password = <<>> /\ timer = FALSE
      /\ challenge \in Challenges /\ unsent = challenge /\ authQueue = <<>> /\ response = <<>>
  BY DEF Login!Init
<1>2. challenge \in Seq(Login!Byte) BY <1>1, ConsoleAssumption DEF Login!AuthAssumption
<1>3. <<>> \in Seq(Login!Byte) /\ <<>> \o challenge = challenge BY <1>2, EmptySeq, ConcatEmptySeq
<1>4. challenge = authQueue \o unsent BY <1>1, <1>3
<1> QED BY <1>1, <1>2, <1>3, <1>4 DEF Login!AuthInv

\* Each action of Auth keeps AuthInv.
LEMMA AuthStep == ASSUME Login!AuthInv, [Login!Next]_(Login!vars) PROVE Login!AuthInv'
<1>1. ASSUME NEW p \in Passwords, Login!Connect(p) PROVE Login!AuthInv'
  BY <1>1 DEF Login!Connect, Login!AuthInv
<1>2. ASSUME NEW p \in Passwords, Login!sendPassword(p) PROVE Login!AuthInv'
  BY <1>2 DEF Login!sendPassword, Login!AuthInv
<1>3. ASSUME NEW n \in {5, 11, 16}, Login!Receive(n) PROVE Login!AuthInv'
  <2> DEFINE head == SubSeq(unsent, 1, n)
             rest == SubSeq(unsent, n + 1, Len(unsent))
             queue == authQueue \o head
  <2>1. /\ authState # "Security" /\ n <= Len(unsent) /\ unsent' = rest /\ Login!init_msg(queue)
        /\ UNCHANGED <<rfb_password, timer, challenge>>
    BY <1>3 DEF Login!Receive
  <2>2. /\ authQueue \in Seq(Login!Byte) /\ unsent \in Seq(Login!Byte) /\ Len(unsent) \in Nat /\ n \in 0 .. Len(unsent)
    BY <2>1 DEF Login!AuthInv
  <2>3. head \in Seq(Login!Byte) /\ rest \in Seq(Login!Byte) /\ head \o rest = unsent BY <2>2, CutInTwo
  <2>4. authState # "SecurityResult"
    <3>1. authState = "SecurityResult" => Len(unsent) = 0 BY DEF Login!AuthInv
    <3> QED BY <2>1, <3>1
  <2>5. queue \in Seq(Login!Byte) /\ challenge = queue \o rest
    <3>1. challenge = authQueue \o unsent BY <2>4 DEF Login!AuthInv
    <3> HIDE DEF head, rest
    <3>2. (authQueue \o head) \o rest = authQueue \o (head \o rest)
      <4> DEFINE B == Login!Byte
      <4>1. authQueue \in Seq(B) /\ head \in Seq(B) /\ rest \in Seq(B) BY <2>2, <2>3
      <4> HIDE DEF B
      <4> QED BY <4>1, ConcatAssociative
    <3>3. authQueue \o head \in Seq(Login!Byte) BY <2>2, <2>3, ConcatProperties
    <3> QED BY <2>3, <3>1, <3>2, <3>3
  <2> HIDE DEF head, rest, queue
  <2> QED BY <2>1, <2>3, <2>4, <2>5, InitMsgSafe DEF Login!AuthInv
<1>4. ASSUME Login!Timer PROVE Login!AuthInv'
  <2>1. timer' = FALSE /\ Login!init_msg(authQueue) /\ UNCHANGED <<rfb_password, challenge, unsent>>
    BY <1>4 DEF Login!Timer
  <2>2. CASE authState = "SecurityResult"
    <3>1. authQueue' = authQueue /\ UNCHANGED <<authState, response>> BY <2>1, <2>2 DEF Login!init_msg
    <3> QED BY <2>1, <2>2, <3>1 DEF Login!AuthInv
  <2>3. CASE authState # "SecurityResult"
    <3>1. authQueue \in Seq(Login!Byte) /\ unsent \in Seq(Login!Byte) /\ challenge = authQueue \o unsent
      BY <2>3 DEF Login!AuthInv
    <3> QED BY <2>1, <2>3, <3>1, InitMsgSafe DEF Login!AuthInv
  <2> QED BY <2>2, <2>3
<1>5. ASSUME UNCHANGED Login!vars PROVE Login!AuthInv'
  BY <1>5 DEF Login!vars, Login!AuthInv
<1> QED BY <1>1, <1>2, <1>3, <1>4, <1>5 DEF Login!Next

\* AuthInv holds always, for any passwords and challenges and however they come:
\* the console answers a challenge once, after all of it and a password are
\* there, with what des.js makes of the two, and leaves nothing in the queue.
THEOREM AnsweredOnce == ConsoleSpec => []Login!AuthInv
<1>1. ConsoleInit => Login!AuthInv BY AuthInitially DEF ConsoleInit
<1>2. Login!AuthInv /\ [ConsoleNext]_consoleVars => Login!AuthInv'
  BY AuthStep DEF ConsoleNext, ViewSteps, KeysSteps, MouseSteps, PageSteps, ScriptsSteps,
                 SettingsSteps, AuthSteps, consoleVars, authVars, Login!vars
<1> QED BY <1>1, <1>2, PTL DEF ConsoleSpec

\* Accepted holds always if the arithmetic of des.js comes to DES, which is for
\* tables and rounds alone and does not read the state: then every answer is the
\* one that the server expects.
THEOREM PasswordAccepted == Login!ComputesDes => (ConsoleSpec => []Accepted)
<1>1. Login!ComputesDes /\ Login!AuthInv => Accepted
  BY DEF Login!ComputesDes, Login!AuthInv, Accepted, Login!Accepted
<1>2. ASSUME Login!ComputesDes PROVE ConsoleSpec => []Accepted
  <2>1. Login!AuthInv => Accepted BY <1>1, <1>2
  <2> QED BY <2>1, AnsweredOnce, PTL
<1> QED BY <1>2

=============================================================================

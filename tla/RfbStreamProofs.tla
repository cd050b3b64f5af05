-------------------------- MODULE RfbStreamProofs --------------------------
(***************************************************************************)
(* The safety properties of RfbStream are proved of Spec, for every stream *)
(* that LayoutAssumption allows, pieces of any size, any number of         *)
(* sessions and any RQMax: InOrder and StreamKept.                         *)
(*                                                                         *)
(* Shape says that what waits in renderQ is in the order of the            *)
(* rectangles, and not before what has gone through it.  Every function    *)
(* keeps it, whatever it reads (the lemmas ...Keeps).                      *)
(*                                                                         *)
(* Resting says where the queue begins between two callbacks: in front of  *)
(* a message when no rectangle is left, of the header of a rectangle when  *)
(* FBU.bytes is 0, and otherwise of as many lines, subrectangles or tiles  *)
(* as FBU still counts.  So each handler finds the fields it reads, or     *)
(* leaves the queue where it can go on (the lemmas ...Kept); the three     *)
(* messages that cannot are torn.  A handler that reads several fields is  *)
(* followed by Moved: how far it is, with everything else the same.  The   *)
(* loops of HEXTILE and of framebufferUpdate are proved by the turns they  *)
(* take; that of HEXTILE stops because every turn takes a byte.            *)
(***************************************************************************)
EXTENDS RfbStream, FiniteNumbers, SequenceTheorems

-----------------------------------------------------------------------------
(* The invariants.                                                         *)

\* The fields of client.
ClientFields == {"arrived", "dropped", "rQi", "rects", "subrects", "lines", "tiles", "bytes", "rect",
                 "ret", "msgTimer", "renderQ", "frames", "no", "drawn", "lost", "torn"}

\* What is drawn, and what waits to be drawn, in the order of the rectangles.
Order(no, renderQ, drawn) ==
  /\ no \in Nat
  /\ renderQ \in Seq([no : Nat, complete : BOOLEAN])
  /\ drawn \in Seq([no : Nat, queued : BOOLEAN])
  /\ \A j \in 1 .. Len(renderQ) : renderQ[j].no <= no
  /\ \A j, k \in 1 .. Len(renderQ) : j < k => renderQ[j].no <= renderQ[k].no
  /\ \A i \in 1 .. Len(drawn) : drawn[i].no <= no
  /\ \A i \in 1 .. Len(drawn), j \in 1 .. Len(renderQ) : drawn[i].queued => drawn[i].no <= renderQ[j].no
  /\ \A i, j \in 1 .. Len(drawn) : i < j /\ drawn[i].no > drawn[j].no => ~drawn[i].queued

\* What any function of the decoder keeps.
Shape(c) == /\ DOMAIN c = ClientFields /\ c.arrived \in Nat
            /\ Order(c.no, c.renderQ, c.drawn)

\* The bytes of the stream before the one that is read next.
Here(c) == c.dropped + c.rQi
Counts(c) ==
  /\ c.dropped \in Nat /\ c.rQi \in Nat /\ c.arrived \in Nat
  /\ Here(c) <= c.arrived /\ c.arrived <= Len(Sent[stream])
  /\ c.rects \in Nat /\ (c.rects # 0 => c.bytes \in Nat)
  /\ c.lines \in Nat /\ c.subrects \in Nat /\ c.tiles \in Nat

\* The counter of the rectangle that goes on, and the others.
Left(c) == CASE c.rect.enc = "RAW" -> c.lines [] c.rect.enc = "RRE" -> c.subrects
             [] c.rect.enc = "HEXTILE" -> c.tiles [] OTHER -> 0
Others(c) == /\ c.rect.enc # "RAW" => c.lines = 0
             /\ c.rect.enc # "RRE" => c.subrects = 0
             /\ c.rect.enc # "HEXTILE" => c.tiles = 0
NoParts(c) == c.lines = 0 /\ c.subrects = 0 /\ c.tiles = 0

\* Between two callbacks the queue begins where FBU says.
Resting(c) ==
  /\ ~c.lost /\ Counts(c)
  /\ c.rects = 0 => NoParts(c) /\ At(stream, Here(c), Message)
  /\ c.rects # 0 /\ c.bytes = 0 => NoParts(c) /\ At(stream, Here(c), Rectangle(c.rects))
  /\ c.rects # 0 /\ c.bytes # 0 =>
       /\ Others(c) /\ c.rect.enc \in Bodies \ {"COPYRECT"}
       /\ c.rect.enc = "RRE" => c.subrects # 0
       /\ At(stream, Here(c), Body(c.rects, c.rect, Left(c)))
\* A torn stream is not followed.
Sound(c) == c.torn \/ Resting(c)

DecoderInv == Shape(client) /\ Sound(client) /\ stream \in DOMAIN Sent

-----------------------------------------------------------------------------
(* Loops.                                                                  *)

\* What holds of 0 and of the successor of each number it holds of.
LEMMA AllNumbers ==
  ASSUME NEW S, 0 \in S, \A n \in Nat : n \in S => n + 1 \in S
  PROVE  Nat \subseteq S
<1> SUFFICES ASSUME NEW n \in Nat PROVE n \in S OBVIOUS
<1> DEFINE T == {i \in 0 .. n : \A j \in 0 .. i : j \in S}
<1>1. IsFiniteSet(T) /\ T \in SUBSET Nat /\ 0 \in T
  <2>1. IsFiniteSet(0 .. n) BY FS_Interval
  <2> QED BY <2>1, FS_Subset
<1>2. PICK m \in T : \A i \in T : i <= m BY <1>1, Greatest
<1>3. m + 1 \in S BY <1>2
<1>4. m = n
  <2> SUFFICES ASSUME m # n PROVE FALSE OBVIOUS
  <2>1. m + 1 \in T BY <1>2, <1>3
  <2> QED BY <1>2, <2>1
<1> QED BY <1>2, <1>4

\* The turns of the loops of display_hextile and of framebufferUpdate.
LEMMA TileTurns ==
  ASSUME NEW first, NEW turns \in Nat
  PROVE  \E f : f = [i \in 0 .. turns |-> IF i = 0 THEN first ELSE NextTile(f[i - 1])]
<1> DEFINE Is(f, n) == f = [i \in 0 .. n |-> IF i = 0 THEN first ELSE NextTile(f[i - 1])]
           S == {n \in Nat : \E f : Is(f, n)}
<1>1. 0 \in S
  <2>1. Is([i \in 0 .. 0 |-> first], 0) OBVIOUS
  <2> QED BY <2>1
<1>2. ASSUME NEW n \in Nat, n \in S PROVE n + 1 \in S
  <2>1. PICK f : Is(f, n) BY <1>2
  <2> DEFINE g == [i \in 0 .. n + 1 |-> IF i = n + 1 THEN NextTile(f[n]) ELSE f[i]]
  <2>2. ASSUME NEW i \in 0 .. n + 1
        PROVE  g[i] = IF i = 0 THEN first ELSE NextTile(g[i - 1])
    <3>1. CASE i = n + 1 BY <3>1
    <3>2. CASE i # n + 1
      <4>1. i \in 0 .. n BY <3>2
      <4>2. f[i] = IF i = 0 THEN first ELSE NextTile(f[i - 1]) BY <2>1, <4>1
      <4>3. i # 0 => g[i - 1] = f[i - 1] BY <4>1
      <4> QED BY <3>2, <4>2, <4>3
    <3> QED BY <3>1, <3>2
  <2>3. g = [i \in 0 .. n + 1 |-> g[i]] OBVIOUS
  <2> HIDE DEF g
  <2>4. Is(g, n + 1) BY <2>2, <2>3
  <2> QED BY <2>4
<1>3. turns \in S
  <2> HIDE DEF S
  <2> QED BY <1>1, <1>2, AllNumbers
<1> QED BY <1>3

LEMMA HextileTurns ==
  ASSUME NEW c, c.arrived \in Nat
  PROVE  \E after :
    /\ HEXTILE(c) = after[c.arrived + 1]
    /\ after[0] = [c EXCEPT !.tiles = IF @ = 0 THEN Tiles(c.rect) ELSE @]
    /\ \A i \in 1 .. c.arrived + 1 : after[i] = NextTile(after[i - 1])
<1> DEFINE turns == c.arrived + 1
           first == [c EXCEPT !.tiles = IF @ = 0 THEN Tiles(c.rect) ELSE @]
           after == CHOOSE f : f = [i \in 0 .. turns |-> IF i = 0 THEN first ELSE NextTile(f[i - 1])]
<1>1. HEXTILE(c) = after[turns] BY DEF HEXTILE
<1>2. turns \in Nat OBVIOUS
<1>3. after = CHOOSE f : f = [i \in 0 .. turns |-> IF i = 0 THEN first ELSE NextTile(f[i - 1])]
  OBVIOUS
<1> HIDE DEF turns, first, after
<1>4. after = [i \in 0 .. turns |-> IF i = 0 THEN first ELSE NextTile(after[i - 1])]
  <2>1. \E f : f = [i \in 0 .. turns |-> IF i = 0 THEN first ELSE NextTile(f[i - 1])]
    BY <1>2, TileTurns
  <2> QED BY <1>3, <2>1
<1>5. ASSUME NEW i \in 0 .. turns
      PROVE  after[i] = IF i = 0 THEN first ELSE NextTile(after[i - 1])
  BY <1>4
<1> QED BY <1>1, <1>2, <1>5 DEF turns, first

LEMMA RectTurns ==
  ASSUME NEW first, NEW turns \in Nat
  PROVE  \E f : f = [i \in 0 .. turns |-> IF i = 0 THEN first ELSE Turn(f[i - 1])]
<1> DEFINE Is(f, n) == f = [i \in 0 .. n |-> IF i = 0 THEN first ELSE Turn(f[i - 1])]
           S == {n \in Nat : \E f : Is(f, n)}
<1>1. 0 \in S
  <2>1. Is([i \in 0 .. 0 |-> first], 0) OBVIOUS
  <2> QED BY <2>1
<1>2. ASSUME NEW n \in Nat, n \in S PROVE n + 1 \in S
  <2>1. PICK f : Is(f, n) BY <1>2
  <2> DEFINE g == [i \in 0 .. n + 1 |-> IF i = n + 1 THEN Turn(f[n]) ELSE f[i]]
  <2>2. ASSUME NEW i \in 0 .. n + 1
        PROVE  g[i] = IF i = 0 THEN first ELSE Turn(g[i - 1])
    <3>1. CASE i = n + 1 BY <3>1
    <3>2. CASE i # n + 1
      <4>1. i \in 0 .. n BY <3>2
      <4>2. f[i] = IF i = 0 THEN first ELSE Turn(f[i - 1]) BY <2>1, <4>1
      <4>3. i # 0 => g[i - 1] = f[i - 1] BY <4>1
      <4> QED BY <3>2, <4>2, <4>3
    <3> QED BY <3>1, <3>2
  <2>3. g = [i \in 0 .. n + 1 |-> g[i]] OBVIOUS
  <2> HIDE DEF g
  <2>4. Is(g, n + 1) BY <2>2, <2>3
  <2> QED BY <2>4
<1>3. turns \in S
  <2> HIDE DEF S
  <2> QED BY <1>1, <1>2, AllNumbers
<1> QED BY <1>3

LEMMA RectsTurns ==
  ASSUME NEW c, c.arrived \in Nat
  PROVE  \E turns \in Nat : \E after :
    /\ Rects(c) = after[turns]
    /\ after[0] = Done(c)
    /\ \A i \in 1 .. turns : after[i] = Turn(after[i - 1])
<1> DEFINE turns == c.arrived \div 12 + 2
           first == Done(c)
           after == CHOOSE f : f = [i \in 0 .. turns |-> IF i = 0 THEN first ELSE Turn(f[i - 1])]
<1>1. Rects(c) = after[turns] BY DEF Rects
<1>2. turns \in Nat OBVIOUS
<1>3. after = CHOOSE f : f = [i \in 0 .. turns |-> IF i = 0 THEN first ELSE Turn(f[i - 1])]
  OBVIOUS
<1> HIDE DEF turns, first, after
<1>4. after = [i \in 0 .. turns |-> IF i = 0 THEN first ELSE Turn(after[i - 1])]
  <2>1. \E f : f = [i \in 0 .. turns |-> IF i = 0 THEN first ELSE Turn(f[i - 1])]
    BY <1>2, RectTurns
  <2> QED BY <1>3, <2>1
<1>5. ASSUME NEW i \in 0 .. turns
      PROVE  after[i] = IF i = 0 THEN first ELSE Turn(after[i - 1])
  BY <1>4
<1> QED BY <1>1, <1>2, <1>5 DEF turns, first

-----------------------------------------------------------------------------
(* Drawing in order.                                                       *)

Waiting == [no : Nat, complete : BOOLEAN]
OnScreen == [no : Nat, queued : BOOLEAN]

LEMMA OrderElements ==
  ASSUME NEW no, NEW renderQ, NEW drawn, Order(no, renderQ, drawn)
  PROVE  /\ no \in Nat /\ Len(renderQ) \in Nat /\ Len(drawn) \in Nat
         /\ \A j \in 1 .. Len(renderQ) : renderQ[j] \in Waiting /\ renderQ[j].no \in Nat
         /\ \A i \in 1 .. Len(drawn) : drawn[i] \in OnScreen /\ drawn[i].no \in Nat
<1>1. no \in Nat /\ renderQ \in Seq(Waiting) /\ drawn \in Seq(OnScreen)
  BY DEF Order, Waiting, OnScreen
<1>2. /\ \A j \in 1 .. Len(renderQ) : renderQ[j] \in Waiting
      /\ \A i \in 1 .. Len(drawn) : drawn[i] \in OnScreen
  BY <1>1, ElementOfSeq
<1>3. \A r \in Waiting : r.no \in Nat BY DEF Waiting
<1>4. \A r \in OnScreen : r.no \in Nat BY DEF OnScreen
<1> QED BY <1>1, <1>2, <1>3, <1>4, LenProperties

\* Something is drawn at once, or comes after what waits.
LEMMA DrawnAtOnce ==
  ASSUME NEW no, NEW renderQ, NEW drawn, Order(no, renderQ, drawn)
  PROVE  Order(no, renderQ, Append(drawn, [no |-> no, queued |-> FALSE]))
<1> DEFINE rec == [no |-> no, queued |-> FALSE]
           new == Append(drawn, rec)
           n == Len(drawn)
<1>1. rec \in OnScreen /\ drawn \in Seq(OnScreen) BY DEF Order, OnScreen
<1>2. /\ new \in Seq(OnScreen) /\ Len(new) = n + 1
      /\ \A i \in 1 .. n : new[i] = drawn[i]
      /\ new[n + 1] = rec
  BY <1>1, AppendProperties
<1>3. n \in Nat /\ \A i \in 1 .. n : drawn[i].no \in Nat BY OrderElements
<1>4. rec.no = no /\ rec.queued = FALSE OBVIOUS
<1>5. /\ no \in Nat
      /\ \A i \in 1 .. n : drawn[i].no <= no
      /\ \A i \in 1 .. n, j \in 1 .. Len(renderQ) : drawn[i].queued => drawn[i].no <= renderQ[j].no
      /\ \A i, j \in 1 .. n : i < j /\ drawn[i].no > drawn[j].no => ~drawn[i].queued
  BY DEF Order
<1> HIDE DEF rec, new, n
<1>6. /\ \A i \in 1 .. n + 1 : i \in 1 .. n \/ i = n + 1
      /\ \A i \in 1 .. n : new[i].no = drawn[i].no /\ new[i].queued = drawn[i].queued
      /\ new[n + 1].no = no /\ ~new[n + 1].queued
  BY <1>2, <1>3, <1>4
<1>7. \A i \in 1 .. n + 1 : new[i].no <= no BY <1>5, <1>6
<1>8. \A i \in 1 .. n + 1, j \in 1 .. Len(renderQ) : new[i].queued => new[i].no <= renderQ[j].no
  BY <1>5, <1>6
<1>9. ASSUME NEW i \in 1 .. n + 1, NEW j \in 1 .. n + 1, i < j, new[i].no > new[j].no
      PROVE  ~new[i].queued
  <2>1. i \in 1 .. n BY <1>3, <1>9
  <2>2. CASE j = n + 1 
    <3>1. drawn[i].no > no BY <1>6, <1>9, <2>1, <2>2
    <3> QED BY <1>3, <1>5, <2>1, <3>1
  <2>3. CASE j \in 1 .. n
    <3>1. drawn[i].no > drawn[j].no BY <1>6, <1>9, <2>1, <2>3
    <3> QED BY <1>5, <1>6, <1>9, <2>1, <2>3, <3>1
  <2> QED BY <1>6, <2>2, <2>3
<1> QED BY <1>2, <1>7, <1>8, <1>9 DEF Order, rec, new, OnScreen

LEMMA DrawNowShape ==
  ASSUME NEW c, Shape(c)
  PROVE  Shape(DrawNow(c)) /\ (c.torn => DrawNow(c).torn)
<1> DEFINE d == DrawNow(c)
<1>1. DOMAIN c = ClientFields /\ Order(c.no, c.renderQ, c.drawn) BY DEF Shape
<1>2. /\ DOMAIN d = ClientFields /\ d.no = c.no /\ d.renderQ = c.renderQ
      /\ d.drawn = Append(c.drawn, [no |-> c.no, queued |-> FALSE])
      /\ d.torn = c.torn /\ d.arrived = c.arrived
  BY <1>1 DEF DrawNow, ClientFields
<1> HIDE DEF d
<1>3. Order(d.no, d.renderQ, d.drawn) BY <1>1, <1>2, DrawnAtOnce
<1> QED BY <1>2, <1>3 DEF Shape, d

LEMMA Queued ==
  ASSUME NEW no, NEW renderQ, NEW drawn, Order(no, renderQ, drawn), NEW complete \in BOOLEAN
  PROVE  Order(no, Append(renderQ, [no |-> no, complete |-> complete]), drawn)
<1> DEFINE rec == [no |-> no, complete |-> complete]
           new == Append(renderQ, rec)
           n == Len(renderQ)
<1>1. rec \in Waiting /\ renderQ \in Seq(Waiting) BY DEF Order, Waiting
<1>2. /\ new \in Seq(Waiting) /\ Len(new) = n + 1
      /\ \A i \in 1 .. n : new[i] = renderQ[i]
      /\ new[n + 1] = rec
  BY <1>1, AppendProperties
<1>3. n \in Nat /\ \A i \in 1 .. n : renderQ[i].no \in Nat BY OrderElements
<1>4. rec.no = no OBVIOUS
<1>5. /\ no \in Nat
      /\ \A j \in 1 .. n : renderQ[j].no <= no
      /\ \A j, k \in 1 .. n : j < k => renderQ[j].no <= renderQ[k].no
      /\ \A i \in 1 .. Len(drawn) : drawn[i].no <= no
      /\ \A i \in 1 .. Len(drawn), j \in 1 .. n : drawn[i].queued => drawn[i].no <= renderQ[j].no
  BY DEF Order
<1> HIDE DEF rec, new, n
<1>6. ASSUME NEW i \in 1 .. n + 1
      PROVE  (i = n + 1 /\ new[i].no = no) \/ (i \in 1 .. n /\ new[i] = renderQ[i])
  BY <1>2, <1>3, <1>4
<1>7. \A j \in 1 .. n + 1 : new[j].no <= no BY <1>5, <1>6
<1>8. \A j, k \in 1 .. n + 1 : j < k => new[j].no <= new[k].no BY <1>3, <1>5, <1>6
<1>9. \A i \in 1 .. Len(drawn), j \in 1 .. n + 1 : drawn[i].queued => drawn[i].no <= new[j].no
  BY <1>5, <1>6
<1> QED BY <1>2, <1>7, <1>8, <1>9 DEF Order, rec, new, Waiting

\* The first images of the queue that are loaded are drawn.
LEMMA Scanned ==
  ASSUME NEW no, NEW renderQ, NEW drawn, Order(no, renderQ, drawn), NEW ready \in 0 .. Len(renderQ)
  PROVE  Order(no, SubSeq(renderQ, ready + 1, Len(renderQ)),
               drawn \o [i \in 1 .. ready |-> [no |-> renderQ[i].no, queued |-> TRUE]])
<1> DEFINE out == [i \in 1 .. ready |-> [no |-> renderQ[i].no, queued |-> TRUE]]
           new == drawn \o out
           rest == SubSeq(renderQ, ready + 1, Len(renderQ))
           n == Len(drawn)
           m == Len(renderQ)
<1>1. /\ no \in Nat /\ m \in Nat /\ n \in Nat
      /\ \A j \in 1 .. m : renderQ[j].no \in Nat
      /\ \A i \in 1 .. n : drawn[i].no \in Nat
  BY OrderElements
<1>2. renderQ \in Seq(Waiting) /\ drawn \in Seq(OnScreen) BY DEF Order, Waiting, OnScreen
<1>3. ready \in Nat /\ ready <= m BY <1>1
<1>4. out \in Seq(OnScreen) /\ Len(out) = ready
  <2>1. out \in [1 .. ready -> OnScreen] BY <1>1, <1>3 DEF OnScreen
  <2>2. out \in Seq(OnScreen) BY <1>3, <2>1, SeqDef
  <2>3. Len(out) \in Nat /\ 1 .. ready = 1 .. Len(out) BY <2>2, LenProperties
  <2> QED BY <1>3, <2>2, <2>3
<1>5. \A i \in 1 .. ready : out[i].no = renderQ[i].no /\ out[i].queued = TRUE OBVIOUS
<1> HIDE DEF out
<1>6. /\ new \in Seq(OnScreen) /\ Len(new) = n + ready
      /\ \A i \in 1 .. n + ready : new[i] = IF i <= n THEN drawn[i] ELSE out[i - n]
  BY <1>2, <1>4, ConcatProperties
<1>7. /\ rest \in Seq(Waiting) /\ Len(rest) = m - ready
      /\ \A j \in 1 .. m - ready : rest[j] = renderQ[ready + j]
  <2>1. \A i \in ready + 1 .. m : renderQ[i] \in Waiting BY <1>1, <1>2, <1>3, ElementOfSeq
  <2> QED BY <1>1, <1>2, <1>3, <2>1, SubSeqProperties
<1> HIDE DEF new, rest, n, m
<1>8. /\ \A j \in 1 .. m : renderQ[j].no <= no
      /\ \A j, k \in 1 .. m : j < k => renderQ[j].no <= renderQ[k].no
      /\ \A i \in 1 .. n : drawn[i].no <= no
      /\ \A i \in 1 .. n, j \in 1 .. m : drawn[i].queued => drawn[i].no <= renderQ[j].no
      /\ \A i, j \in 1 .. n : i < j /\ drawn[i].no > drawn[j].no => ~drawn[i].queued
  BY DEF Order, m, n
<1>9. ASSUME NEW j \in 1 .. m - ready
      PROVE  ready + j \in 1 .. m /\ rest[j].no = renderQ[ready + j].no
  BY <1>1, <1>3, <1>7
<1>10. ASSUME NEW i \in 1 .. n + ready
       PROVE  \/ i \in 1 .. n /\ new[i] = drawn[i]
              \/ i > n /\ i - n \in 1 .. ready /\ i - n \in 1 .. m
                 /\ new[i].no = renderQ[i - n].no /\ new[i].queued = TRUE
  BY <1>1, <1>3, <1>5, <1>6
<1>11. \A j \in 1 .. m - ready : rest[j].no <= no BY <1>8, <1>9
<1>12. ASSUME NEW j \in 1 .. m - ready, NEW k \in 1 .. m - ready, j < k
       PROVE  rest[j].no <= rest[k].no
  <2>1. ready + j < ready + k BY <1>1, <1>3, <1>12
  <2> QED BY <1>8, <1>9, <2>1
<1>13. \A i \in 1 .. n + ready : new[i].no <= no BY <1>8, <1>10
<1>14. ASSUME NEW i \in 1 .. n + ready, NEW j \in 1 .. m - ready, new[i].queued
       PROVE  new[i].no <= rest[j].no
  <2>1. CASE i \in 1 .. n /\ new[i] = drawn[i] BY <1>8, <1>9, <1>14, <2>1
  <2>2. CASE i > n /\ i - n \in 1 .. ready /\ i - n \in 1 .. m /\ new[i].no = renderQ[i - n].no
    <3>1. i - n < ready + j BY <1>1, <1>3, <2>2
    <3> QED BY <1>8, <1>9, <2>2, <3>1
  <2> QED BY <1>10, <2>1, <2>2
<1>15. ASSUME NEW i \in 1 .. n + ready, NEW j \in 1 .. n + ready, i < j, new[i].no > new[j].no
       PROVE  ~new[i].queued
  <2>1. CASE j \in 1 .. n
    <3>1. i \in 1 .. n BY <1>1, <1>15, <2>1
    <3>2. new[i] = drawn[i] /\ new[j] = drawn[j] BY <1>1, <1>3, <1>6, <2>1, <3>1
    <3> QED BY <1>8, <1>15, <2>1, <3>1, <3>2
  <2>2. CASE j > n /\ j - n \in 1 .. m /\ new[j].no = renderQ[j - n].no
    <3>1. CASE i \in 1 .. n /\ new[i] = drawn[i]
      <4>1. drawn[i].no \in Nat /\ renderQ[j - n].no \in Nat BY <1>1, <2>2, <3>1 DEF n, m
      <4> QED BY <1>8, <1>15, <2>2, <3>1, <4>1
    <3>2. CASE i > n /\ i - n \in 1 .. m /\ new[i].no = renderQ[i - n].no
      <4>1. renderQ[i - n].no \in Nat /\ renderQ[j - n].no \in Nat BY <1>1, <2>2, <3>2 DEF n, m
      <4>2. i - n < j - n BY <1>1, <1>15
      <4> QED BY <1>8, <1>15, <2>2, <3>2, <4>1, <4>2
    <3> QED BY <1>10, <3>1, <3>2
  <2> QED BY <1>10, <2>1, <2>2
<1> QED BY <1>1, <1>2, <1>6, <1>7, <1>11, <1>12, <1>13, <1>14, <1>15
        DEF Order, new, rest, out, Waiting, OnScreen

LEMMA FirstOf ==
  ASSUME NEW n \in Nat, NEW S \in SUBSET (1 .. n), S # {}
  PROVE  \E i \in S : \A j \in S : i <= j
<1> DEFINE T == {k \in 0 .. n : n - k \in S}
<1>1. T \in SUBSET Nat /\ IsFiniteSet(T) /\ T # {}
  <2>1. IsFiniteSet(0 .. n) BY FS_Interval
  <2>2. PICK i \in S : TRUE OBVIOUS
  <2>3. n - i \in 0 .. n /\ n - (n - i) = i OBVIOUS
  <2>4. n - i \in T BY <2>3
  <2>5. T \in SUBSET (0 .. n) OBVIOUS
  <2>6. 0 .. n \in SUBSET Nat OBVIOUS
  <2> HIDE DEF T
  <2>7. IsFiniteSet(T) BY <2>1, <2>5, FS_Subset
  <2> QED BY <2>4, <2>5, <2>6, <2>7
<1>2. PICK k \in T : \A l \in T : l <= k BY <1>1, Greatest
<1>3. ASSUME NEW j \in S PROVE n - k <= j
  <2>1. n - j \in T BY <1>3
  <2> QED BY <1>2, <2>1
<1> QED BY <1>2, <1>3

LEMMA ScanShape ==
  ASSUME NEW c, Shape(c)
  PROVE  Shape(scan_renderQ(c)) /\ (c.torn => scan_renderQ(c).torn)
<1> DEFINE waiting == {i \in DOMAIN c.renderQ : ~Loaded(c.renderQ[i])}
           ready == IF waiting = {} THEN Len(c.renderQ)
                    ELSE (CHOOSE i \in waiting : \A j \in waiting : i <= j) - 1
           d == scan_renderQ(c)
<1>1. DOMAIN c = ClientFields /\ Order(c.no, c.renderQ, c.drawn) BY DEF Shape
<1>2. Len(c.renderQ) \in Nat /\ DOMAIN c.renderQ = 1 .. Len(c.renderQ)
  <2>1. c.renderQ \in Seq(Waiting) BY <1>1 DEF Order, Waiting
  <2> QED BY <2>1, LenProperties
<1>3. ready \in 0 .. Len(c.renderQ)
  <2>1. CASE waiting = {} BY <1>2, <2>1
  <2>2. CASE waiting # {}
    <3>1. waiting \in SUBSET (1 .. Len(c.renderQ)) BY <1>2
    <3> HIDE DEF waiting
    <3>2. \E i \in waiting : \A j \in waiting : i <= j BY <1>2, <2>2, <3>1, FirstOf
    <3>3. (CHOOSE i \in waiting : \A j \in waiting : i <= j) \in waiting BY <3>2
    <3> QED BY <1>2, <2>2, <3>1, <3>3
  <2> QED BY <2>1, <2>2
<1>4. /\ DOMAIN d = ClientFields /\ d.no = c.no /\ d.torn = c.torn /\ d.arrived = c.arrived
      /\ d.renderQ = SubSeq(c.renderQ, ready + 1, Len(c.renderQ))
      /\ d.drawn = c.drawn \o [i \in 1 .. ready |-> [no |-> c.renderQ[i].no, queued |-> TRUE]]
  BY <1>1 DEF scan_renderQ, ClientFields
<1> HIDE DEF d, ready, waiting
<1>5. Order(d.no, d.renderQ, d.drawn) BY <1>1, <1>3, <1>4, Scanned
<1> QED BY <1>4, <1>5 DEF Shape, d

LEMMA PushShape ==
  ASSUME NEW c, Shape(c), NEW complete \in BOOLEAN
  PROVE  Shape(renderQ_push(c, complete)) /\ (c.torn => renderQ_push(c, complete).torn)
<1> DEFINE d == [c EXCEPT !.renderQ = Append(@, [no |-> c.no, complete |-> complete])]
<1>1. DOMAIN c = ClientFields /\ Order(c.no, c.renderQ, c.drawn) /\ c.arrived \in Nat BY DEF Shape
<1>2. /\ DOMAIN d = ClientFields /\ d.no = c.no /\ d.drawn = c.drawn
      /\ d.renderQ = Append(c.renderQ, [no |-> c.no, complete |-> complete])
      /\ d.torn = c.torn /\ d.arrived = c.arrived
  BY <1>1 DEF ClientFields
<1>3. renderQ_push(c, complete) = IF Len(d.renderQ) = 1 THEN scan_renderQ(d) ELSE d
  BY DEF renderQ_push
<1> HIDE DEF d
<1>4. Shape(d) BY <1>1, <1>2, Queued DEF Shape
<1> QED BY <1>2, <1>3, <1>4, ScanShape

-----------------------------------------------------------------------------
(* What every function of the decoder keeps.                               *)

Keeps(c, d) == Shape(d) /\ (c.torn => d.torn)

LEMMA ShapeIs ==
  ASSUME NEW c, NEW d, Shape(c), DOMAIN d = ClientFields, d.arrived = c.arrived,
         d.no = c.no, d.renderQ = c.renderQ, d.drawn = c.drawn, d.torn = c.torn
  PROVE  Keeps(c, d)
  BY DEF Shape, Keeps

LEMMA KeepsOn ==
  ASSUME NEW c, NEW d, NEW e, Keeps(c, d), Keeps(d, e)
  PROVE  Keeps(c, e)
  BY DEF Keeps

LEMMA ShiftKeeps ==
  ASSUME NEW c, Shape(c), NEW f, NEW n
  PROVE  /\ Keeps(c, rQshift(c, f, n)) /\ Keeps(c, rQback(c, n))
         /\ \A times : Keeps(c, ShiftRun(c, f, n, times))
         /\ \A present : Keeps(c, ShiftIf(present, c, f, n))
<1>1. DOMAIN c = ClientFields /\ Shape(c) BY DEF Shape
<1>2. Keeps(c, [c EXCEPT !.lost = TRUE]) BY <1>1, ShapeIs DEF ClientFields
<1>3. ASSUME NEW i PROVE Keeps(c, [c EXCEPT !.rQi = i]) BY <1>1, ShapeIs DEF ClientFields
<1>4. Keeps(c, c) BY DEF Keeps
<1>5. Keeps(c, rQshift(c, f, n)) BY <1>2, <1>3 DEF rQshift
<1>6. Keeps(c, rQback(c, n)) BY <1>3 DEF rQback
<1>7. ASSUME NEW times PROVE Keeps(c, ShiftRun(c, f, n, times)) BY <1>2, <1>3 DEF ShiftRun
<1>8. ASSUME NEW present PROVE Keeps(c, ShiftIf(present, c, f, n)) BY <1>4, <1>5 DEF ShiftIf
<1> QED BY <1>5, <1>6, <1>7, <1>8

\* What a function does to the counters of FBU.
LEMMA FieldKeeps ==
  ASSUME NEW c, Shape(c), NEW v
  PROVE  /\ Keeps(c, [c EXCEPT !.ret = v]) /\ Keeps(c, [c EXCEPT !.bytes = v])
         /\ Keeps(c, [c EXCEPT !.lines = v]) /\ Keeps(c, [c EXCEPT !.subrects = v])
         /\ Keeps(c, [c EXCEPT !.tiles = v]) /\ Keeps(c, [c EXCEPT !.rects = v])
         /\ Keeps(c, [c EXCEPT !.lost = v]) /\ Keeps(c, [c EXCEPT !.torn = TRUE])
         /\ Keeps(c, [c EXCEPT !.rQi = v]) /\ Keeps(c, [c EXCEPT !.dropped = v])
         /\ Keeps(c, [c EXCEPT !.msgTimer = v]) /\ Keeps(c, [c EXCEPT !.rect = v])
<1>1. DOMAIN c = ClientFields /\ Shape(c) BY DEF Shape
<1>2. /\ Keeps(c, [c EXCEPT !.ret = v]) /\ Keeps(c, [c EXCEPT !.bytes = v])
      /\ Keeps(c, [c EXCEPT !.lines = v]) /\ Keeps(c, [c EXCEPT !.subrects = v])
  BY <1>1, ShapeIs DEF ClientFields
<1>3. /\ Keeps(c, [c EXCEPT !.tiles = v]) /\ Keeps(c, [c EXCEPT !.rects = v])
      /\ Keeps(c, [c EXCEPT !.lost = v]) /\ Keeps(c, [c EXCEPT !.rQi = v])
  BY <1>1, ShapeIs DEF ClientFields
<1>4. /\ Keeps(c, [c EXCEPT !.dropped = v]) /\ Keeps(c, [c EXCEPT !.msgTimer = v])
      /\ Keeps(c, [c EXCEPT !.rect = v])
  BY <1>1, ShapeIs DEF ClientFields
<1>5. Keeps(c, [c EXCEPT !.torn = TRUE])
  <2> DEFINE d == [c EXCEPT !.torn = TRUE]
  <2>1. /\ DOMAIN d = ClientFields /\ d.arrived = c.arrived /\ d.no = c.no
        /\ d.renderQ = c.renderQ /\ d.drawn = c.drawn /\ d.torn
    BY <1>1 DEF ClientFields
  <2> HIDE DEF d
  <2> QED BY <1>1, <2>1 DEF Shape, Keeps, d
<1> QED BY <1>2, <1>3, <1>4, <1>5

LEMMA EndKeeps ==
  ASSUME NEW c, Shape(c), NEW n
  PROVE  /\ Keeps(c, Done(c)) /\ Keeps(c, MoreData(c)) /\ Keeps(c, EndOfRect(c)) /\ Keeps(c, Needs(c, n))
<1>1. ASSUME NEW d, Shape(d) PROVE Keeps(d, Done(d)) /\ Keeps(d, MoreData(d))
  BY <1>1, FieldKeeps DEF Done, MoreData
<1>2. Keeps(c, EndOfRect(c))
  <2> DEFINE d == [c EXCEPT !.rects = @ - 1, !.bytes = 0]
  <2>1. Keeps(c, d)
    <3>1. DOMAIN c = ClientFields BY DEF Shape
    <3>2. /\ DOMAIN d = ClientFields /\ d.arrived = c.arrived /\ d.no = c.no
          /\ d.renderQ = c.renderQ /\ d.drawn = c.drawn /\ d.torn = c.torn
      BY <3>1 DEF ClientFields
    <3> HIDE DEF d
    <3> QED BY <3>2, ShapeIs
  <2>2. EndOfRect(c) = Done(d) BY DEF EndOfRect
  <2> HIDE DEF d
  <2> QED BY <1>1, <2>1, <2>2, KeepsOn DEF Keeps
<1>3. Keeps(c, Needs(c, n))
  <2> DEFINE d == [c EXCEPT !.bytes = n]
  <2>1. Keeps(c, d) BY FieldKeeps
  <2>2. Needs(c, n) = MoreData(d) BY DEF Needs
  <2> HIDE DEF d
  <2> QED BY <1>1, <2>1, <2>2, KeepsOn DEF Keeps
<1> QED BY <1>1, <1>2, <1>3

LEMMA DrawKeeps ==
  ASSUME NEW c, Shape(c)
  PROVE  /\ Keeps(c, DrawNow(c)) /\ Keeps(c, scan_renderQ(c))
         /\ \A complete \in BOOLEAN : Keeps(c, renderQ_push(c, complete))
  BY DrawNowShape, ScanShape, PushShape DEF Keeps

LEMMA KeepsShape ==
  ASSUME NEW c, NEW d, Keeps(c, d)
  PROVE  Shape(d)
  BY DEF Keeps

LEMMA RawKeeps ==
  ASSUME NEW c, Shape(c)
  PROVE  Keeps(c, RAW(c))
<1>1. ASSUME NEW d, Shape(d), NEW n PROVE Keeps(d, RawLines(d, n))
  <2> DEFINE e == ShiftRun(d, "line", d.bytes, n)
             g == DrawNow(e)
  <2>1. RawLines(d, n) = [g EXCEPT !.lines = g.lines - n] BY DEF RawLines
  <2>2. Keeps(d, e) BY <1>1, ShiftKeeps
  <2> HIDE DEF e
  <2>3. Keeps(e, g) BY <2>2, KeepsShape, DrawKeeps
  <2> HIDE DEF g
  <2>4. Shape(g) BY <2>3, KeepsShape
  <2>5. Keeps(g, [g EXCEPT !.lines = g.lines - n]) BY <2>4, FieldKeeps
  <2> QED BY <2>1, <2>2, <2>3, <2>5, KeepsOn
<1>2. ASSUME NEW d, Shape(d) PROVE Keeps(d, RawRest(d)) BY <1>2, EndKeeps DEF RawRest
<1>3. ASSUME NEW d, Shape(d) PROVE Keeps(d, RawDraw(d))
  <2> DEFINE e == RawLines(d, Least(rQlen(d) \div d.bytes, d.lines))
  <2>1. Keeps(d, e) BY <1>1, <1>3
  <2>2. RawDraw(d) = IF rQwait(d, d.bytes) THEN MoreData(d) ELSE RawRest(e) BY DEF RawDraw
  <2> HIDE DEF e
  <2>3. Keeps(d, RawRest(e)) BY <1>2, <2>1, KeepsShape, KeepsOn
  <2> QED BY <1>3, <2>2, <2>3, EndKeeps
<1> DEFINE d == [c EXCEPT !.lines = IF c.lines = 0 THEN c.rect.h ELSE c.lines]
           e == [d EXCEPT !.bytes = c.rect.w * fb_Bpp]
<1>4. Keeps(c, d) BY FieldKeeps
<1>5. RAW(c) = RawDraw(e) BY DEF RAW
<1> HIDE DEF d
<1>6. Keeps(d, e) BY <1>4, KeepsShape, FieldKeeps
<1> HIDE DEF e
<1> QED BY <1>3, <1>4, <1>5, <1>6, KeepsShape, KeepsOn

LEMMA CopyKeeps ==
  ASSUME NEW c, Shape(c)
  PROVE  Keeps(c, COPYRECT(c))
<1> DEFINE d == rQshift(c, "source", 4)
           e == renderQ_push(d, TRUE)
           t == [c EXCEPT !.torn = TRUE]
<1>1. COPYRECT(c) = IF rQwait(c, 4) THEN MoreData(t) ELSE EndOfRect(e) BY DEF COPYRECT
<1>2. Keeps(c, t) /\ Keeps(c, d) BY FieldKeeps, ShiftKeeps
<1> HIDE DEF t, d
<1>3. Keeps(d, e) BY <1>2, KeepsShape, DrawKeeps
<1> HIDE DEF e
<1>4. Keeps(t, MoreData(t)) /\ Keeps(e, EndOfRect(e)) BY <1>2, <1>3, KeepsShape, EndKeeps
<1> QED BY <1>1, <1>2, <1>3, <1>4, KeepsOn

LEMMA RreKeeps ==
  ASSUME NEW c, Shape(c)
  PROVE  Keeps(c, RRE(c))
<1>1. ASSUME NEW d, Shape(d), NEW n PROVE Keeps(d, RreRects(d, n))
  <2> DEFINE e == ShiftRun(d, "subrect", fb_Bpp + 8, n)
  <2>1. RreRects(d, n) = [e EXCEPT !.subrects = e.subrects - n] BY DEF RreRects
  <2>2. Keeps(d, e) BY <1>1, ShiftKeeps
  <2> HIDE DEF e
  <2>3. Shape(e) BY <2>2, KeepsShape
  <2>4. Keeps(e, [e EXCEPT !.subrects = e.subrects - n]) BY <2>3, FieldKeeps
  <2> QED BY <2>1, <2>2, <2>4, KeepsOn
<1>2. ASSUME NEW d, Shape(d) PROVE Keeps(d, RreRest(d))
  <2> DEFINE e == [d EXCEPT !.bytes = (fb_Bpp + 8) * Least(100, d.subrects)]
  <2>1. Keeps(d, e) BY <1>2, FieldKeeps
  <2>2. RreRest(d) = IF d.subrects > 0 THEN Done(e) ELSE EndOfRect(d) BY DEF RreRest
  <2> HIDE DEF e
  <2>3. Keeps(d, Done(e)) BY <2>1, EndKeeps, KeepsShape, KeepsOn
  <2> QED BY <1>2, <2>2, <2>3, EndKeeps
<1>3. ASSUME NEW d, Shape(d) PROVE Keeps(d, RreDraw(d))
  <2> DEFINE e == RreRects(d, Least(rQlen(d) \div (fb_Bpp + 8), d.subrects))
  <2>1. Keeps(d, e) /\ RreDraw(d) = RreRest(e) BY <1>1, <1>3 DEF RreDraw
  <2> HIDE DEF e
  <2> QED BY <1>2, <2>1, KeepsShape, KeepsOn
<1> DEFINE d == rQshift(c, "subrects", 4)
           e == rQshift(d, "bg", fb_Bpp)
           g == DrawNow(e)
           h == [g EXCEPT !.subrects = Peek(c, 1).v]
           t == [c EXCEPT !.torn = TRUE]
           l == [c EXCEPT !.lost = TRUE]
<1>4. RRE(c) = IF c.subrects > 0 THEN RreDraw(c)
               ELSE IF rQwait(c, 4 + fb_Bpp) THEN MoreData(t)
               ELSE IF ~Next_(c, 0, "subrects", 4) THEN l ELSE RreDraw(h)
  BY DEF RRE
<1>5. Keeps(c, t) /\ Keeps(c, d) /\ Keeps(c, l) BY FieldKeeps, ShiftKeeps
<1> HIDE DEF t, d, l
<1>6. Keeps(d, e) BY <1>5, KeepsShape, ShiftKeeps
<1> HIDE DEF e
<1>7. Keeps(e, g) BY <1>6, KeepsShape, DrawKeeps
<1> HIDE DEF g
<1>8. Keeps(g, h) BY <1>7, KeepsShape, FieldKeeps
<1> HIDE DEF h
<1>9. Keeps(c, h) BY <1>5, <1>6, <1>7, <1>8, KeepsOn
<1>10. Keeps(c, RreDraw(h)) /\ Keeps(c, RreDraw(c)) BY <1>3, <1>9, KeepsShape, KeepsOn
<1>11. Keeps(c, MoreData(t)) BY <1>5, KeepsShape, EndKeeps, KeepsOn
<1> QED BY <1>4, <1>5, <1>10, <1>11

LEMMA TileKeeps ==
  ASSUME NEW c, Shape(c)
  PROVE  Keeps(c, NextTile(c))
<1>1. ASSUME NEW t, NEW pixels PROVE Keeps(c, ShiftTile(c, t, pixels))
  <2> DEFINE sub == rQshift(c, "sub", 1)
             bg == ShiftIf(t.bg, sub, "bg", fb_Bpp)
             fg == ShiftIf(t.fg, bg, "fg", fb_Bpp)
             nsub == ShiftIf(t.subs >= 0, fg, "nsub", 1)
             raw == rQshift(sub, "pixels", pixels * fb_Bpp)
             rest == ShiftIf(t.subs >= 0, nsub, "subrects", TileSubrects(t))
  <2>1. ShiftTile(c, t, pixels) = IF t.raw THEN raw ELSE rest BY DEF ShiftTile
  <2>2. Keeps(c, sub) BY ShiftKeeps
  <2> HIDE DEF sub
  <2>3. Keeps(sub, bg) /\ Keeps(sub, raw) BY <2>2, KeepsShape, ShiftKeeps
  <2> HIDE DEF bg, raw
  <2>4. Keeps(bg, fg) BY <2>3, KeepsShape, ShiftKeeps
  <2> HIDE DEF fg
  <2>5. Keeps(fg, nsub) BY <2>4, KeepsShape, ShiftKeeps
  <2> HIDE DEF nsub
  <2>6. Keeps(nsub, rest) BY <2>5, KeepsShape, ShiftKeeps
  <2> HIDE DEF rest
  <2>7. Keeps(c, raw) /\ Keeps(c, fg) BY <2>2, <2>3, <2>4, KeepsOn
  <2>8. Keeps(c, rest) BY <2>5, <2>6, <2>7, KeepsOn
  <2> QED BY <2>1, <2>7, <2>8
<1>2. ASSUME NEW d, Shape(d) PROVE Keeps(d, TileDone(d)) BY <1>2, EndKeeps DEF TileDone, Keeps
<1>3. ASSUME NEW t, NEW pixels PROVE Keeps(c, DrawTile(c, t, pixels))
  <2> DEFINE d == ShiftTile(c, t, pixels)
             e == DrawNow(d)
             g == [e EXCEPT !.tiles = e.tiles - 1]
             h == [g EXCEPT !.bytes = 0]
  <2>1. TileDone([DrawNow(ShiftTile(c, t, pixels)) EXCEPT !.tiles = @ - 1, !.bytes = 0]) = TileDone(h)
    OBVIOUS
  <2>2. Keeps(c, d) BY <1>1
  <2> HIDE DEF d
  <2>3. Keeps(d, e) BY <2>2, KeepsShape, DrawKeeps
  <2> HIDE DEF e
  <2>4. Keeps(e, g) BY <2>3, KeepsShape, FieldKeeps
  <2> HIDE DEF g
  <2>5. Keeps(g, h) BY <2>4, KeepsShape, FieldKeeps
  <2> HIDE DEF h
  <2>6. Keeps(h, TileDone(h)) BY <1>2, <2>5, KeepsShape
  <2>7. Keeps(c, TileDone(h)) BY <2>2, <2>3, <2>4, <2>5, <2>6, KeepsOn
  <2> QED BY <2>1, <2>7, EndKeeps DEF DrawTile
<1>4. Keeps(c, c) BY DEF Keeps
<1>5. Keeps(c, Needs(c, 1)) /\ Keeps(c, [c EXCEPT !.lost = TRUE]) BY EndKeeps, FieldKeeps
<1> QED BY <1>3, <1>4, <1>5 DEF NextTile

LEMMA HextileKeeps ==
  ASSUME NEW c, Shape(c)
  PROVE  Keeps(c, HEXTILE(c))
<1>1. c.arrived \in Nat BY DEF Shape
<1>2. PICK after : /\ HEXTILE(c) = after[c.arrived + 1]
                   /\ after[0] = [c EXCEPT !.tiles = IF @ = 0 THEN Tiles(c.rect) ELSE @]
                   /\ \A i \in 1 .. c.arrived + 1 : after[i] = NextTile(after[i - 1])
  BY <1>1, HextileTurns
<1> DEFINE S == {i \in Nat : i \in 0 .. c.arrived + 1 => Keeps(c, after[i])}
<1>3. 0 \in S
  <2> DEFINE v == IF c.tiles = 0 THEN Tiles(c.rect) ELSE c.tiles
  <2>1. after[0] = [c EXCEPT !.tiles = v] BY <1>2
  <2> HIDE DEF v
  <2>2. Keeps(c, [c EXCEPT !.tiles = v]) BY FieldKeeps
  <2> QED BY <2>1, <2>2
<1>4. ASSUME NEW i \in Nat, i \in S PROVE i + 1 \in S
  <2> SUFFICES ASSUME i + 1 \in 0 .. c.arrived + 1 PROVE Keeps(c, after[i + 1]) OBVIOUS
  <2>1. Keeps(c, after[i]) BY <1>1, <1>4
  <2>2. after[i + 1] = NextTile(after[i])
    <3>1. i + 1 \in 1 .. c.arrived + 1 /\ (i + 1) - 1 = i BY <1>1
    <3> QED BY <1>2, <3>1
  <2>3. Keeps(after[i], NextTile(after[i])) BY <2>1, KeepsShape, TileKeeps
  <2> QED BY <2>1, <2>2, <2>3, KeepsOn
<1>5. c.arrived + 1 \in S
  <2> HIDE DEF S
  <2> QED BY <1>1, <1>3, <1>4, AllNumbers
<1> QED BY <1>1, <1>2, <1>5

LEMMA TightKeeps ==
  ASSUME NEW c, Shape(c)
  PROVE  Keeps(c, TIGHT(c))
<1>1. ASSUME NEW mode, NEW colours PROVE Keeps(c, ShiftHead(c, mode, colours))
  <2> DEFINE ctl == rQshift(c, "ctl", 1)
             filter == rQshift(ctl, "filter", 1)
             number == rQshift(filter, "ncolours", 1)
             palette == rQshift(number, "palette", colours * fb_depth)
  <2>1. ShiftHead(c, mode, colours) = IF mode # "filter" THEN ctl ELSE palette BY DEF ShiftHead
  <2>2. Keeps(c, ctl) BY ShiftKeeps
  <2> HIDE DEF ctl
  <2>3. Keeps(ctl, filter) BY <2>2, KeepsShape, ShiftKeeps
  <2> HIDE DEF filter
  <2>4. Keeps(filter, number) BY <2>3, KeepsShape, ShiftKeeps
  <2> HIDE DEF number
  <2>5. Keeps(number, palette) BY <2>4, KeepsShape, ShiftKeeps
  <2> HIDE DEF palette
  <2> QED BY <2>1, <2>2, <2>3, <2>4, <2>5, KeepsOn
<1>2. ASSUME NEW mode, NEW colours, NEW clength PROVE Keeps(c, TightData(c, mode, colours, clength))
  <2> DEFINE head == ShiftHead(c, mode, colours)
             length == rQshift(head, "clength", clength[1])
             data == rQshift(length, "data", clength[2])
             push == renderQ_push(data, ~Image(mode))
             needed == TightHead(mode, colours) + clength[1] + clength[2]
  <2>1. TightData(c, mode, colours, clength)
          = IF rQwait(c, needed) THEN Needs(c, needed) ELSE EndOfRect(push)
    BY DEF TightData
  <2>2. Keeps(c, head) BY <1>1
  <2> HIDE DEF head, needed
  <2>3. Keeps(head, length) BY <2>2, KeepsShape, ShiftKeeps
  <2> HIDE DEF length
  <2>4. Keeps(length, data) BY <2>3, KeepsShape, ShiftKeeps
  <2> HIDE DEF data
  <2>5. Keeps(data, push)
    <3>1. (~Image(mode)) \in BOOLEAN OBVIOUS
    <3>2. Shape(data) BY <2>4, KeepsShape
    <3> QED BY <3>1, <3>2, DrawKeeps
  <2> HIDE DEF push
  <2>6. Keeps(push, EndOfRect(push)) BY <2>5, KeepsShape, EndKeeps
  <2>7. Keeps(c, EndOfRect(push)) BY <2>2, <2>3, <2>4, <2>5, <2>6, KeepsOn
  <2> QED BY <2>1, <2>7, EndKeeps
<1>3. ASSUME NEW mode, NEW colours PROVE Keeps(c, TightPixels(c, mode, colours))
  BY <1>2, EndKeeps DEF TightPixels
<1>4. ASSUME NEW mode PROVE Keeps(c, TightMode(c, mode))
  <2> DEFINE ctl == rQshift(c, "ctl", 1)
             pixel == rQshift(ctl, "tpixel", fb_depth)
             push == renderQ_push(pixel, TRUE)
  <2>1. TightMode(c, mode) \in {Needs(c, TightFixed(mode)), EndOfRect(push),
                               TightPixels(c, mode, Peek(c, 3).v + 1), TightPixels(c, mode, 0),
                               [c EXCEPT !.lost = TRUE]}
    BY DEF TightMode
  <2>2. Keeps(c, ctl) BY ShiftKeeps
  <2> HIDE DEF ctl
  <2>3. Keeps(ctl, pixel) BY <2>2, KeepsShape, ShiftKeeps
  <2> HIDE DEF pixel
  <2>4. Keeps(pixel, push) BY <2>3, KeepsShape, DrawKeeps
  <2> HIDE DEF push
  <2>5. Keeps(push, EndOfRect(push)) BY <2>4, KeepsShape, EndKeeps
  <2>6. Keeps(c, EndOfRect(push)) BY <2>2, <2>3, <2>4, <2>5, KeepsOn
  <2>7. Keeps(c, Needs(c, TightFixed(mode))) BY EndKeeps
  <2>8. Keeps(c, TightPixels(c, mode, Peek(c, 3).v + 1)) /\ Keeps(c, TightPixels(c, mode, 0)) BY <1>3
  <2>9. Keeps(c, [c EXCEPT !.lost = TRUE]) BY FieldKeeps
  <2> QED BY <2>1, <2>6, <2>7, <2>8, <2>9
<1>5. Keeps(c, Needs(c, 1)) /\ Keeps(c, [c EXCEPT !.lost = TRUE]) BY EndKeeps, FieldKeeps
<1> QED BY <1>4, <1>5 DEF TIGHT

LEMMA OtherKeeps ==
  ASSUME NEW c, Shape(c)
  PROVE  Keeps(c, Cursor(c)) /\ Keeps(c, DesktopSize(c)) /\ Keeps(c, last_rect(c))
<1>1. Keeps(c, Cursor(c))
  <2> DEFINE pixels == rQshift(c, "cursor", CursorPixels(c.rect))
             mask == rQshift(pixels, "mask", CursorMask(c.rect))
             needed == CursorPixels(c.rect) + CursorMask(c.rect)
  <2>1. Cursor(c) = IF rQwait(c, needed) THEN Needs(c, needed) ELSE EndOfRect(mask) BY DEF Cursor
  <2>2. Keeps(c, pixels) BY ShiftKeeps
  <2> HIDE DEF pixels, needed
  <2>3. Keeps(pixels, mask) BY <2>2, KeepsShape, ShiftKeeps
  <2> HIDE DEF mask
  <2>4. Keeps(mask, EndOfRect(mask)) BY <2>3, KeepsShape, EndKeeps
  <2>5. Keeps(c, EndOfRect(mask)) BY <2>2, <2>3, <2>4, KeepsOn
  <2> QED BY <2>1, <2>5, EndKeeps
<1>2. Keeps(c, DesktopSize(c)) BY EndKeeps DEF DesktopSize
<1>3. Keeps(c, last_rect(c))
  <2> DEFINE d == [c EXCEPT !.rects = 0]
  <2>1. last_rect(c) = Done(d) BY DEF last_rect
  <2>2. Keeps(c, d) BY FieldKeeps
  <2> HIDE DEF d
  <2> QED BY <2>1, <2>2, KeepsShape, EndKeeps, KeepsOn
<1> QED BY <1>1, <1>2, <1>3

LEMMA TurnKeeps ==
  ASSUME NEW c, Shape(c)
  PROVE  Keeps(c, Turn(c))
<1>1. Keeps(c, c) BY DEF Keeps
<1>2. ASSUME NEW d, Shape(d) PROVE Keeps(d, Handler(d))
  <2>1. Handler(d) \in {d, RAW(d), COPYRECT(d), RRE(d), HEXTILE(d), TIGHT(d), Cursor(d), DesktopSize(d),
                        last_rect(d), [d EXCEPT !.lost = TRUE]}
    BY DEF Handler
  <2>2. Keeps(d, d) /\ Keeps(d, [d EXCEPT !.lost = TRUE]) BY <1>2, FieldKeeps DEF Keeps
  <2>3. Keeps(d, RAW(d)) /\ Keeps(d, COPYRECT(d)) /\ Keeps(d, RRE(d))
    BY <1>2, RawKeeps, CopyKeeps, RreKeeps
  <2>4. Keeps(d, HEXTILE(d)) /\ Keeps(d, TIGHT(d)) BY <1>2, HextileKeeps, TightKeeps
  <2>5. Keeps(d, Cursor(d)) /\ Keeps(d, DesktopSize(d)) /\ Keeps(d, last_rect(d))
    BY <1>2, OtherKeeps
  <2> QED BY <2>1, <2>2, <2>3, <2>4, <2>5
<1>3. ASSUME NEW r PROVE Keeps(c, ReadRect(c, r))
  <2> DEFINE d == rQshift(c, "rect", 12)
             e == [d EXCEPT !.rect = r, !.no = IF Drawn(r) THEN d.no + 1 ELSE d.no]
  <2>1. Keeps(c, d) BY ShiftKeeps
  <2>2. ReadRect(c, r) = e BY DEF ReadRect
  <2>3. Shape(d) BY <2>1, KeepsShape
  <2> HIDE DEF d
  <2>4. DOMAIN d = ClientFields /\ d.arrived \in Nat /\ Order(d.no, d.renderQ, d.drawn)
    BY <2>3 DEF Shape
  <2>5. /\ DOMAIN e = ClientFields /\ e.arrived = d.arrived /\ e.torn = d.torn
        /\ e.renderQ = d.renderQ /\ e.drawn = d.drawn /\ e.no \in {d.no, d.no + 1}
    BY <2>4 DEF ClientFields
  <2> HIDE DEF e
  <2>6. Order(d.no + 1, d.renderQ, d.drawn)
    <3>1. /\ d.no \in Nat
          /\ \A j \in 1 .. Len(d.renderQ) : d.renderQ[j].no \in Nat
          /\ \A i \in 1 .. Len(d.drawn) : d.drawn[i].no \in Nat
      BY <2>4, OrderElements
    <3>2. /\ \A j \in 1 .. Len(d.renderQ) : d.renderQ[j].no <= d.no + 1
          /\ \A i \in 1 .. Len(d.drawn) : d.drawn[i].no <= d.no + 1
      BY SMTT(30), <2>4, <3>1 DEF Order
    <3> QED BY <2>4, <3>1, <3>2 DEF Order
  <2>7. Order(e.no, e.renderQ, e.drawn) BY <2>4, <2>5, <2>6
  <2>8. Keeps(d, e) BY <2>4, <2>5, <2>7 DEF Keeps, Shape
  <2> QED BY <2>1, <2>2, <2>8, KeepsOn
<1>4. Keeps(c, RectHeader(c)) BY <1>3, FieldKeeps DEF RectHeader
<1>5. Keeps(c, Handler(RectHeader(c))) BY <1>2, <1>4, KeepsShape, KeepsOn
<1>6. Turn(c) \in {c, MoreData(c), Handler(RectHeader(c)), Handler(c)} BY DEF Turn
<1> QED BY <1>1, <1>2, <1>5, <1>6, EndKeeps

LEMMA RectsKeeps ==
  ASSUME NEW c, Shape(c)
  PROVE  Keeps(c, Rects(c))
<1>1. c.arrived \in Nat BY DEF Shape
<1>2. PICK turns \in Nat : \E f :
        Rects(c) = f[turns] /\ f[0] = Done(c) /\ \A i \in 1 .. turns : f[i] = Turn(f[i - 1])
  BY <1>1, RectsTurns
<1>3. PICK after :
        /\ Rects(c) = after[turns] /\ after[0] = Done(c)
        /\ \A i \in 1 .. turns : after[i] = Turn(after[i - 1])
  BY <1>2
<1> DEFINE S == {i \in Nat : i \in 0 .. turns => Keeps(c, after[i])}
<1>4. 0 \in S BY <1>3, EndKeeps
<1>5. ASSUME NEW i \in Nat, i \in S PROVE i + 1 \in S
  <2> SUFFICES ASSUME i + 1 \in 0 .. turns PROVE Keeps(c, after[i + 1]) OBVIOUS
  <2>1. Keeps(c, after[i]) BY <1>5
  <2>2. after[i + 1] = Turn(after[i])
    <3>1. i + 1 \in 1 .. turns /\ (i + 1) - 1 = i OBVIOUS
    <3> QED BY <1>3, <3>1
  <2>3. Keeps(after[i], Turn(after[i])) BY <2>1, KeepsShape, TurnKeeps
  <2> QED BY <2>1, <2>2, <2>3, KeepsOn
<1>6. turns \in S
  <2> HIDE DEF S
  <2> QED BY <1>4, <1>5, AllNumbers
<1> QED BY <1>3, <1>6

LEMMA UpdateKeeps ==
  ASSUME NEW c, Shape(c)
  PROVE  Keeps(c, framebufferUpdate(c))
<1> DEFINE back == rQback(c, 1)
           padding == rQshift(c, "padding", 1)
           number == rQshift(padding, "rects", 2)
           begun == [number EXCEPT !.rects = Peek(c, 2).v, !.bytes = 0]
           rects == [number EXCEPT !.rects = Peek(c, 2).v]
           bytes == [rects EXCEPT !.bytes = 0]
           lost == [c EXCEPT !.lost = TRUE]
<1>1. framebufferUpdate(c) \in {Rects(c), MoreData(back), lost, Rects(begun)}
  BY DEF framebufferUpdate, UpdateHeader
<1>2. begun = bytes OBVIOUS
<1>3. Keeps(c, padding) /\ Keeps(c, back) /\ Keeps(c, lost) BY ShiftKeeps, FieldKeeps
<1> HIDE DEF begun, padding, back, lost
<1>4. Keeps(padding, number) BY <1>3, KeepsShape, ShiftKeeps
<1> HIDE DEF number
<1>5. Keeps(number, rects) BY <1>4, KeepsShape, FieldKeeps
<1> HIDE DEF rects
<1>6. Keeps(rects, bytes) BY <1>5, KeepsShape, FieldKeeps
<1> HIDE DEF bytes
<1>7. Keeps(c, bytes) BY <1>3, <1>4, <1>5, <1>6, KeepsOn
<1>8. Keeps(c, Rects(bytes)) BY <1>7, KeepsShape, RectsKeeps, KeepsOn
<1>9. Keeps(c, MoreData(back)) BY <1>3, KeepsShape, EndKeeps, KeepsOn
<1> QED BY <1>1, <1>2, <1>3, <1>8, <1>9, RectsKeeps

LEMMA ColoursKeep ==
  ASSUME NEW c, Shape(c)
  PROVE  Keeps(c, SetColourMapEntries(c))
<1>1. ASSUME NEW d, Shape(d), NEW n PROVE Keeps(d, Entries(d, n))
  <2> DEFINE back == rQback(d, 6)
             colour == rQshift(d, "colour", n * 6)
  <2>1. Entries(d, n) \in {MoreData(back), Done(colour)} BY DEF Entries
  <2>2. Keeps(d, back) /\ Keeps(d, colour) BY <1>1, ShiftKeeps
  <2> HIDE DEF back, colour
  <2> QED BY <2>1, <2>2, KeepsShape, EndKeeps, KeepsOn
<1> DEFINE padding == rQshift(c, "padding", 1)
           first == rQshift(padding, "first", 2)
           count == rQshift(first, "count", 2)
           torn == [c EXCEPT !.torn = TRUE]
           lost == [torn EXCEPT !.lost = TRUE]
<1>2. SetColourMapEntries(c) \in {[c EXCEPT !.torn = TRUE, !.lost = TRUE], Entries(count, Peek(c, 4).v)}
  BY DEF SetColourMapEntries
<1>3. [c EXCEPT !.torn = TRUE, !.lost = TRUE] = lost OBVIOUS
<1>4. Keeps(c, padding) /\ Keeps(c, torn) BY ShiftKeeps, FieldKeeps
<1> HIDE DEF padding, torn
<1>5. Keeps(padding, first) /\ Keeps(torn, lost) BY <1>4, KeepsShape, ShiftKeeps, FieldKeeps
<1> HIDE DEF first, lost
<1>6. Keeps(first, count) BY <1>5, KeepsShape, ShiftKeeps
<1> HIDE DEF count
<1>7. Keeps(count, Entries(count, Peek(c, 4).v)) BY <1>1, <1>6, KeepsShape
<1>8. Keeps(c, lost) /\ Keeps(c, Entries(count, Peek(c, 4).v)) BY <1>4, <1>5, <1>6, <1>7, KeepsOn
<1> QED BY <1>2, <1>3, <1>8

LEMMA TextKeeps ==
  ASSUME NEW c, Shape(c)
  PROVE  Keeps(c, ServerCutText(c))
<1>1. ASSUME NEW d, Shape(d), NEW n PROVE Keeps(d, CutText(d, n))
  <2> DEFINE back == rQback(d, 8)
             text == rQshift(d, "text", n)
  <2>1. CutText(d, n) \in {MoreData(back), Done(text)} BY DEF CutText
  <2>2. Keeps(d, back) /\ Keeps(d, text) BY <1>1, ShiftKeeps
  <2> HIDE DEF back, text
  <2> QED BY <2>1, <2>2, KeepsShape, EndKeeps, KeepsOn
<1> DEFINE padding == rQshift(c, "padding", 3)
           length == rQshift(padding, "length", 4)
           back == rQback(c, 1)
<1>2. ServerCutText(c) \in {MoreData(back), CutText(length, Peek(c, 4).v)} BY DEF ServerCutText
<1>3. Keeps(c, padding) /\ Keeps(c, back) BY ShiftKeeps
<1> HIDE DEF padding, back
<1>4. Keeps(padding, length) /\ Keeps(back, MoreData(back)) BY <1>3, KeepsShape, ShiftKeeps, EndKeeps
<1> HIDE DEF length
<1>5. Keeps(length, CutText(length, Peek(c, 4).v)) BY <1>1, <1>4, KeepsShape
<1> QED BY <1>2, <1>3, <1>4, <1>5, KeepsOn

LEMMA NormalKeeps ==
  ASSUME NEW c, Shape(c)
  PROVE  Keeps(c, normal_msg(c))
<1>1. ASSUME NEW d, Shape(d), NEW type PROVE Keeps(d, normal_type(d, type))
  <2>1. normal_type(d, type) \in {framebufferUpdate(d), SetColourMapEntries(d), ServerCutText(d), Done(d),
                                  [d EXCEPT !.lost = TRUE]}
    BY DEF normal_type
  <2>2. Keeps(d, framebufferUpdate(d)) /\ Keeps(d, SetColourMapEntries(d)) /\ Keeps(d, ServerCutText(d))
    BY <1>1, UpdateKeeps, ColoursKeep, TextKeeps
  <2>3. Keeps(d, Done(d)) BY <1>1, EndKeeps
  <2>4. Keeps(d, [d EXCEPT !.lost = TRUE]) BY <1>1, FieldKeeps
  <2> QED BY <2>1, <2>2, <2>3, <2>4
<1>2. Keeps(c, normal_msg(c))
  <2> DEFINE d == ShiftIf(c.rects = 0, c, "type", 1)
             type == msg_type(c)
  <2>1. normal_msg(c) \in {[c EXCEPT !.lost = TRUE], normal_type(d, type)} BY DEF normal_msg
  <2>2. Keeps(c, d)
    <3>1. d \in {c, rQshift(c, "type", 1)} BY DEF ShiftIf
    <3>2. Keeps(c, c) BY DEF Keeps
    <3> QED BY <3>1, <3>2, ShiftKeeps
  <2> HIDE DEF d, type
  <2>3. Keeps(c, normal_type(d, type)) BY <1>1, <2>2, KeepsShape, KeepsOn
  <2>4. Keeps(c, [c EXCEPT !.lost = TRUE]) BY FieldKeeps
  <2> QED BY <2>1, <2>3, <2>4
<1> QED BY <1>2

LEMMA MessageKeeps ==
  ASSUME NEW c, Shape(c)
  PROVE  Keeps(c, handle_message(c)) /\ Keeps(c, Compact(c))
<1>1. Keeps(c, normal_msg(c)) BY NormalKeeps
<1>2. Keeps(c, handle_message(c))
  <2> DEFINE d == normal_msg(c)
             timer == d.msgTimer \/ (d.ret /\ rQlen(d) > 0)
             e == [d EXCEPT !.msgTimer = timer]
  <2>1. handle_message(c) \in {c, e} BY DEF handle_message, handle_rest
  <2> HIDE DEF timer
  <2>2. Keeps(d, e)
    <3>1. Shape(d) BY <1>1, KeepsShape
    <3> HIDE DEF d
    <3> QED BY <3>1, FieldKeeps
  <2> HIDE DEF d, e
  <2>3. Keeps(c, c) BY DEF Keeps
  <2> QED BY <1>1, <2>1, <2>2, <2>3, KeepsOn DEF d
<1>3. Keeps(c, Compact(c))
  <2> DEFINE d == [c EXCEPT !.dropped = c.dropped + c.rQi]
             e == [d EXCEPT !.rQi = 0]
  <2>1. Compact(c) \in {c, [c EXCEPT !.dropped = @ + c.rQi, !.rQi = 0]} BY DEF Compact
  <2>2. [c EXCEPT !.dropped = @ + c.rQi, !.rQi = 0] = e OBVIOUS
  <2>3. Keeps(c, d) BY FieldKeeps
  <2> HIDE DEF d
  <2>4. Keeps(d, e) BY <2>3, KeepsShape, FieldKeeps
  <2> HIDE DEF e
  <2>5. Keeps(c, c) BY DEF Keeps
  <2> QED BY <2>1, <2>2, <2>3, <2>4, <2>5, KeepsOn
<1> QED BY <1>2, <1>3

-----------------------------------------------------------------------------
(* What is drawn is in order.                                              *)

ShapeInv == Shape(client) /\ stream \in DOMAIN Sent

LEMMA ImageLoaded ==
  ASSUME NEW no, NEW renderQ, NEW drawn, Order(no, renderQ, drawn), NEW i \in DOMAIN renderQ
  PROVE  Order(no, [renderQ EXCEPT ![i].complete = TRUE], drawn)
<1> DEFINE rec == [renderQ[i] EXCEPT !.complete = TRUE]
           new == [renderQ EXCEPT ![i] = rec]
<1>1. renderQ \in Seq(Waiting) BY DEF Order, Waiting
<1>2. i \in 1 .. Len(renderQ) BY <1>1, LenProperties
<1>3. renderQ[i] \in Waiting BY <1>1, <1>2, ElementOfSeq
<1>4. rec \in Waiting /\ rec.no = renderQ[i].no BY <1>3 DEF Waiting
<1>5. [renderQ EXCEPT ![i].complete = TRUE] = new OBVIOUS
<1> HIDE DEF rec
<1>6. /\ new \in Seq(Waiting) /\ Len(new) = Len(renderQ)
      /\ \A j \in 1 .. Len(renderQ) : new[j] = IF j = i THEN rec ELSE renderQ[j]
  BY <1>1, <1>2, <1>4, ExceptSeq
<1> HIDE DEF new
<1>7. \A j \in 1 .. Len(renderQ) : new[j].no = renderQ[j].no BY <1>4, <1>6
<1> QED BY <1>5, <1>6, <1>7 DEF Order, Waiting

LEMMA BlankShape == Shape(Blank) /\ \A c : Shape(InitVars(c))
<1> DEFINE OnScreenSeq == Seq([no : Nat, queued : BOOLEAN])
           WaitingSeq == Seq([no : Nat, complete : BOOLEAN])
<1>1. << >> \in WaitingSeq /\ << >> \in OnScreenSeq /\ Len(<< >>) = 0 BY EmptySeq
<1>2. Order(0, << >>, << >>) BY <1>1 DEF Order
<1>3. /\ DOMAIN Blank = ClientFields /\ Blank.arrived = 0 /\ Blank.no = 0
      /\ Blank.renderQ = << >> /\ Blank.drawn = << >>
  BY DEF Blank, ClientFields
<1>4. ASSUME NEW c PROVE Shape(InitVars(c))
  <2>1. /\ DOMAIN InitVars(c) = ClientFields /\ InitVars(c).arrived = 0 /\ InitVars(c).no = 0
        /\ InitVars(c).renderQ = << >> /\ InitVars(c).drawn = << >>
    BY <1>3 DEF InitVars, ClientFields
  <2> QED BY <1>2, <2>1 DEF Shape
<1> QED BY <1>2, <1>3, <1>4 DEF Shape

LEMMA ArrivedShape ==
  ASSUME NEW c, Shape(c), NEW n \in Nat
  PROVE  Keeps(c, [c EXCEPT !.arrived = @ + n])
<1> DEFINE d == [c EXCEPT !.arrived = @ + n]
<1>1. DOMAIN c = ClientFields /\ c.arrived \in Nat BY DEF Shape
<1>2. /\ DOMAIN d = ClientFields /\ d.arrived = c.arrived + n /\ d.no = c.no
      /\ d.renderQ = c.renderQ /\ d.drawn = c.drawn /\ d.torn = c.torn
  BY <1>1 DEF ClientFields
<1> HIDE DEF d
<1> QED BY <1>1, <1>2 DEF Shape, Keeps

LEMMA Pieces ==
  ASSUME stream \in DOMAIN Sent, client.arrived \in Nat,
         NEW n \in (Chunks \cup {Rest}) \cap 1 .. Rest
  PROVE  n \in Nat /\ n >= 1 /\ client.arrived + n <= Len(Sent[stream]) /\ Len(Sent[stream]) \in Nat
<1>1. Len(Sent[stream]) \in Nat BY LayoutAssumption DEF LaidOut
<1>2. Rest \in Int /\ Rest = Len(Sent[stream]) - client.arrived BY <1>1 DEF Rest
<1> QED BY <1>1, <1>2

LEMMA ShapeKept ==
  ASSUME ShapeInv, [Next]_vars
  PROVE  ShapeInv'
<1>1. Shape(client) /\ stream \in DOMAIN Sent /\ client.arrived \in Nat BY DEF ShapeInv, Shape
<1>2. ASSUME NEW n \in (Chunks \cup {Rest}) \cap 1 .. Rest, Arrive(n) PROVE ShapeInv'
  <2> DEFINE d == [client EXCEPT !.arrived = @ + n]
             e == handle_message(d)
  <2>1. client' = Compact(e) /\ stream' = stream BY <1>2 DEF Arrive
  <2>2. Shape(d) BY <1>1, <1>2, Pieces, ArrivedShape, KeepsShape
  <2> HIDE DEF d
  <2>3. Shape(e) BY <2>2, MessageKeeps, KeepsShape
  <2> HIDE DEF e
  <2>4. Shape(Compact(e)) BY <2>3, MessageKeeps, KeepsShape
  <2> QED BY <1>1, <2>1, <2>4 DEF ShapeInv, Shape
<1>3. CASE MsgTimeout
  <2> DEFINE d == [client EXCEPT !.msgTimer = FALSE]
  <2>1. client' = handle_message(d) /\ stream' = stream BY <1>3 DEF MsgTimeout
  <2>2. Shape(d) BY <1>1, FieldKeeps, KeepsShape
  <2> HIDE DEF d
  <2>3. Shape(handle_message(d)) BY <2>2, MessageKeeps, KeepsShape
  <2> QED BY <1>1, <2>1, <2>3 DEF ShapeInv, Shape
<1>4. CASE ImageLoads
  <2>1. PICK i \in DOMAIN client.renderQ :
          client' = [client EXCEPT !.renderQ[i].complete = TRUE] /\ stream' = stream
    BY <1>4 DEF ImageLoads
  <2> DEFINE d == [client EXCEPT !.renderQ[i].complete = TRUE]
  <2>2. DOMAIN client = ClientFields BY <1>1 DEF Shape
  <2>3. /\ DOMAIN d = ClientFields /\ d.arrived = client.arrived /\ d.no = client.no
        /\ d.renderQ = [client.renderQ EXCEPT ![i].complete = TRUE] /\ d.drawn = client.drawn
    BY <2>2 DEF ClientFields
  <2> HIDE DEF d
  <2>4. Order(d.no, d.renderQ, d.drawn) BY <1>1, <2>3, ImageLoaded DEF Shape
  <2>5. Shape(d) BY <1>1, <2>3, <2>4 DEF Shape
  <2> QED BY <1>1, <2>1, <2>5 DEF ShapeInv, Shape, d
<1>5. CASE Frame
  <2> DEFINE d == [client EXCEPT !.frames = @ - 1]
  <2>1. client' = scan_renderQ(d) /\ stream' = stream BY <1>5 DEF Frame
  <2>2. DOMAIN client = ClientFields BY <1>1 DEF Shape
  <2>3. /\ DOMAIN d = ClientFields /\ d.arrived = client.arrived /\ d.no = client.no
        /\ d.renderQ = client.renderQ /\ d.drawn = client.drawn /\ d.torn = client.torn
    BY <2>2 DEF ClientFields
  <2> HIDE DEF d
  <2>4. Shape(d) BY <1>1, <2>3, ShapeIs, KeepsShape
  <2>5. Shape(scan_renderQ(d)) BY <2>4, DrawKeeps, KeepsShape
  <2> QED BY <1>1, <2>1, <2>5 DEF ShapeInv, Shape
<1>6. CASE Reconnect
  <2>1. client' = InitVars(client) /\ stream' \in DOMAIN Sent BY <1>6 DEF Reconnect
  <2>2. Shape(InitVars(client)) BY BlankShape
  <2> QED BY <2>1, <2>2 DEF ShapeInv, Shape
<1>7. CASE UNCHANGED vars BY <1>1, <1>7 DEF ShapeInv, Shape, vars
<1> QED BY <1>2, <1>3, <1>4, <1>5, <1>6, <1>7 DEF Next

\* Whatever the server sends, however it is cut and whenever images load: what
\* goes through renderQ of display.js is drawn after every earlier rectangle of
\* the queue.
THEOREM DrawnInOrder == Spec => []InOrder
<1>1. Init => ShapeInv BY BlankShape DEF Init, ShapeInv
<1>2. ShapeInv /\ [Next]_vars => ShapeInv' BY ShapeKept
<1>3. ShapeInv => InOrder
  <2> SUFFICES ASSUME ShapeInv PROVE InOrder OBVIOUS
  <2>1. Order(client.no, client.renderQ, client.drawn) BY DEF ShapeInv, Shape
  <2>2. DOMAIN client.drawn = 1 .. Len(client.drawn)
    <3>1. client.drawn \in Seq(OnScreen) BY <2>1 DEF Order, OnScreen
    <3> QED BY <3>1, LenProperties
  <2> QED BY <2>1, <2>2 DEF Order, InOrder
<1> QED BY <1>1, <1>2, <1>3, PTL DEF Spec

-----------------------------------------------------------------------------
(* What is laid out where the queue begins.                                *)

LEMMA MessageLies ==
  ASSUME NEW s \in DOMAIN Sent, NEW p, At(s, p, Message), p # Len(Sent[s])
  PROVE  MessageAt(s, p)
<1>1. LaidOut(s) BY LayoutAssumption
<1>2. p \in 0 .. Len(Sent[s]) - 1 /\ Sent[s][p + 1].at = Message BY <1>1 DEF LaidOut, At
<1>3. Message.at = "message" BY DEF Message, Place
<1> QED BY <1>1, <1>2, <1>3 DEF LaidOut

LEMMA RectangleLies ==
  ASSUME NEW s \in DOMAIN Sent, NEW p, NEW k, At(s, p, Rectangle(k))
  PROVE  RectangleAt(s, p, k)
<1>1. LaidOut(s) BY LayoutAssumption
<1>2. Rectangle(k).at = "rect" /\ Rectangle(k).left = k /\ Message.at = "message"
  BY DEF Rectangle, Message, Place
<1>3. Rectangle(k) # Message BY <1>2
<1>4. p \in 0 .. Len(Sent[s]) - 1 /\ Sent[s][p + 1].at = Rectangle(k) BY <1>1, <1>3 DEF LaidOut, At
<1> QED BY <1>1, <1>2, <1>4 DEF LaidOut

LEMMA BodyLies ==
  ASSUME NEW s \in DOMAIN Sent, NEW p, NEW k, NEW r, NEW parts, At(s, p, Body(k, r, parts))
  PROVE  BodyAt(s, p, k, r, parts)
<1>1. LaidOut(s) BY LayoutAssumption
<1> DEFINE here == Body(k, r, parts)
<1>2. /\ here.at = "body" /\ here.left = k /\ here.rect = r /\ here.parts = parts
      /\ Message.at = "message"
  BY DEF Body, Message, Place
<1>3. here # Message BY <1>2
<1> HIDE DEF here
<1>4. p \in 0 .. Len(Sent[s]) - 1 /\ Sent[s][p + 1].at = here
  BY <1>1, <1>3 DEF LaidOut, At, here
<1> QED BY <1>1, <1>2, <1>4 DEF LaidOut

-----------------------------------------------------------------------------
(* Reading what is laid out.                                               *)

Fit(c) == DOMAIN c = ClientFields /\ ~c.lost /\ Counts(c) /\ stream \in DOMAIN Sent
\* d is c after n more bytes.
Moved(c, d, n) ==
  /\ Fit(d) /\ Here(d) = Here(c) + n /\ rQlen(d) = rQlen(c) - n
  /\ d.rects = c.rects /\ d.subrects = c.subrects /\ d.lines = c.lines /\ d.tiles = c.tiles
  /\ d.bytes = c.bytes /\ d.rect = c.rect /\ d.ret = c.ret /\ d.torn = c.torn
  /\ d.dropped = c.dropped

LEMMA Lengths ==
  ASSUME NEW c, Fit(c)
  PROVE  /\ rQlen(c) \in Nat /\ Here(c) \in Nat /\ c.arrived \in Nat /\ Len(Sent[stream]) \in Nat
         /\ Here(c) + rQlen(c) = c.arrived /\ c.arrived <= Len(Sent[stream])
         /\ fb_Bpp \in Nat \ {0} /\ fb_depth \in Nat \ {0}
<1>1. Len(Sent[stream]) \in Nat /\ fb_Bpp \in Nat \ {0} /\ fb_depth \in Nat \ {0}
  BY LayoutAssumption DEF LaidOut, Fit
<1> QED BY <1>1 DEF Fit, Counts, Here, rQlen

LEMMA IsNext ==
  ASSUME NEW c, Fit(c), NEW k \in Nat, NEW n \in Nat, NEW f, Holds(stream, Here(c) + k, f, n)
  PROVE  Next_(c, k, f, n)
<1> SUFFICES ASSUME NEW i \in 1 .. n
             PROVE  Peek(c, k + i).f = f /\ Peek(c, k + i).i = i /\ Peek(c, k + i).n = n
  BY DEF Next_
<1>1. Peek(c, k + i) = Sent[stream][Here(c) + k + i]
  <2>1. c.dropped + c.rQi + (k + i) = Here(c) + k + i BY DEF Fit, Counts, Here
  <2> QED BY <2>1 DEF Peek
<1> QED BY <1>1 DEF Holds

LEMMA Says_ ==
  ASSUME NEW c, Fit(c), NEW k \in Nat
  PROVE  Peek(c, k + 1) = Sent[stream][Here(c) + k + 1] /\ Peek(c, k + 1).v = Says(stream, Here(c) + k)
<1>1. c.dropped \in Nat /\ c.rQi \in Nat BY DEF Fit, Counts
<1>2. c.dropped + c.rQi + (k + 1) = Here(c) + k + 1 BY <1>1 DEF Here
<1> QED BY <1>2 DEF Peek, Says

LEMMA MovedBy ==
  ASSUME NEW c, Fit(c), NEW n \in Nat, n <= rQlen(c)
  PROVE  Moved(c, [c EXCEPT !.rQi = @ + n], n)
<1> DEFINE d == [c EXCEPT !.rQi = @ + n]
<1>1. DOMAIN c = ClientFields BY DEF Fit
<1>2. /\ DOMAIN d = ClientFields /\ d.rQi = c.rQi + n /\ d.dropped = c.dropped /\ d.lost = c.lost
      /\ d.arrived = c.arrived /\ d.rects = c.rects /\ d.subrects = c.subrects /\ d.lines = c.lines
      /\ d.tiles = c.tiles /\ d.bytes = c.bytes /\ d.rect = c.rect /\ d.ret = c.ret /\ d.torn = c.torn
  BY <1>1 DEF ClientFields
<1> HIDE DEF d
<1>3. Counts(d) BY <1>2 DEF Fit, Counts, Here, rQlen
<1>4. c.arrived \in Nat /\ c.dropped \in Nat /\ c.rQi \in Nat /\ ~c.lost /\ stream \in DOMAIN Sent
  BY DEF Fit, Counts
<1>5. Here(d) = Here(c) + n /\ rQlen(d) = rQlen(c) - n BY <1>2, <1>4 DEF Here, rQlen
<1>6. Moved(c, d, n) BY <1>2, <1>3, <1>4, <1>5 DEF Moved, Fit
<1> QED BY <1>6 DEF d

LEMMA MovedOn ==
  ASSUME NEW c, NEW d, NEW e, NEW m \in Nat, NEW n \in Nat, Fit(c), Moved(c, d, m), Moved(d, e, n)
  PROVE  Moved(c, e, m + n)
<1>1. rQlen(c) \in Nat /\ Here(c) \in Nat BY Lengths
<1> QED BY <1>1 DEF Moved

LEMMA MovedFit ==
  ASSUME NEW c, NEW d, NEW n, Moved(c, d, n)
  PROVE  Fit(d)
  BY DEF Moved

LEMMA Shifted ==
  ASSUME NEW c, Fit(c), NEW n \in Nat, n <= rQlen(c), NEW f, Holds(stream, Here(c), f, n)
  PROVE  Moved(c, rQshift(c, f, n), n)
<1>1. rQlen(c) \in Nat /\ Here(c) \in Nat /\ Here(c) + 0 = Here(c) BY Lengths
<1>2. Next_(c, 0, f, n) BY <1>1, IsNext
<1>3. ~rQwait(c, n) BY <1>1 DEF rQwait
<1> QED BY <1>2, <1>3, MovedBy DEF rQshift

\* The next field, after some.
LEMMA ShiftedOn ==
  ASSUME NEW c, Fit(c), NEW m \in Nat, NEW d, Moved(c, d, m),
         NEW n \in Nat, m + n <= rQlen(c), NEW f, Holds(stream, Here(c) + m, f, n)
  PROVE  Moved(c, rQshift(d, f, n), m + n)
<1>1. Fit(d) /\ Here(d) = Here(c) + m /\ rQlen(d) = rQlen(c) - m BY DEF Moved
<1>2. rQlen(c) \in Nat BY Lengths
<1>3. n <= rQlen(d) BY <1>1, <1>2
<1> QED BY <1>1, <1>3, Shifted, MovedOn

LEMMA RunShifted ==
  ASSUME NEW c, Fit(c), NEW n \in Nat, NEW times \in Nat, times * n <= rQlen(c), NEW f,
         \A m \in 1 .. times : Holds(stream, Here(c) + (m - 1) * n, f, n)
  PROVE  Moved(c, ShiftRun(c, f, n, times), times * n)
<1>1. times * n \in Nat OBVIOUS
<1>2. ASSUME NEW m \in 1 .. times PROVE Next_(c, (m - 1) * n, f, n)
  <2>1. (m - 1) * n \in Nat
    <3>1. m - 1 \in Nat OBVIOUS
    <3> QED BY <3>1
  <2> QED BY <2>1, IsNext
<1>3. ~rQwait(c, times * n)
  <2>1. rQlen(c) \in Nat BY Lengths
  <2> QED BY <1>1, <2>1 DEF rQwait
<1>4. ShiftRun(c, f, n, times) = [c EXCEPT !.rQi = @ + times * n] BY <1>2, <1>3 DEF ShiftRun
<1> QED BY <1>1, <1>4, MovedBy

LEMMA DrawMoves ==
  ASSUME NEW c, Fit(c)
  PROVE  /\ Moved(c, DrawNow(c), 0)
         /\ \A complete : Moved(c, renderQ_push(c, complete), 0)
<1> DEFINE Drew(a, d) ==
             /\ DOMAIN d = DOMAIN a /\ d.rQi = a.rQi /\ d.dropped = a.dropped /\ d.lost = a.lost
             /\ d.arrived = a.arrived /\ d.rects = a.rects /\ d.subrects = a.subrects
             /\ d.lines = a.lines /\ d.tiles = a.tiles /\ d.bytes = a.bytes /\ d.rect = a.rect
             /\ d.ret = a.ret /\ d.torn = a.torn
<1>1. DOMAIN c = ClientFields BY DEF Fit
<1>2. ASSUME NEW d, Drew(c, d) PROVE Moved(c, d, 0)
  <2>1. rQlen(d) = rQlen(c) - 0 /\ Here(d) = Here(c) + 0 BY <1>2 DEF Fit, Counts, rQlen, Here
  <2> QED BY <1>2, <2>1 DEF Moved, Fit, Counts, Here
<1>3. Drew(c, DrawNow(c)) BY <1>1 DEF DrawNow, ClientFields
<1>4. ASSUME NEW a, DOMAIN a = ClientFields PROVE Drew(a, scan_renderQ(a))
  BY <1>4 DEF scan_renderQ, ClientFields
<1>5. ASSUME NEW complete PROVE Drew(c, renderQ_push(c, complete))
  <2> DEFINE d == [c EXCEPT !.renderQ = Append(@, [no |-> c.no, complete |-> complete])]
  <2>1. Drew(c, d) /\ DOMAIN d = ClientFields BY <1>1 DEF ClientFields
  <2>2. renderQ_push(c, complete) = IF Len(d.renderQ) = 1 THEN scan_renderQ(d) ELSE d
    BY DEF renderQ_push
  <2> HIDE DEF d
  <2>3. Drew(d, scan_renderQ(d)) BY <1>4, <2>1
  <2> QED BY <2>1, <2>2, <2>3
<1> HIDE DEF Drew
<1> QED BY <1>2, <1>3, <1>5

-----------------------------------------------------------------------------
(* The ways a handler ends.                                                *)

\* d counts and has read what c does.
Alike(c, d) ==
  /\ DOMAIN d = ClientFields /\ d.lost = c.lost
  /\ d.dropped = c.dropped /\ d.rQi = c.rQi /\ d.arrived = c.arrived
  /\ d.rects = c.rects /\ d.lines = c.lines /\ d.subrects = c.subrects /\ d.tiles = c.tiles
  /\ d.rect = c.rect

\* c is in a rectangle that can go on in a later callback.
Within(c) ==
  /\ Fit(c) /\ c.rects # 0
  /\ Others(c) /\ c.rect.enc \in Bodies \ {"COPYRECT"}
  /\ c.rect.enc = "RRE" => c.subrects # 0
  /\ At(stream, Here(c), Body(c.rects, c.rect, Left(c)))

LEMMA Waits ==
  ASSUME NEW c, Within(c), NEW d, Alike(c, d), d.bytes \in Nat \ {0}
  PROVE  Resting(d)
<1>1. Here(d) = Here(c) /\ Left(d) = Left(c) /\ Others(d)
  BY DEF Alike, Here, Left, Others, Within
<1>2. Counts(d) BY <1>1 DEF Within, Fit, Counts, Alike
<1> QED BY <1>1, <1>2 DEF Within, Fit, Alike, Resting

LEMMA NeedsMore ==
  ASSUME NEW c, Within(c), NEW n \in Nat \ {0}
  PROVE  Resting(Needs(c, n)) /\ Needs(c, n).ret = FALSE
<1> DEFINE d == Needs(c, n)
<1>1. DOMAIN c = ClientFields BY DEF Within, Fit
<1>2. Alike(c, d) /\ d.bytes = n /\ d.ret = FALSE
  BY <1>1 DEF Needs, MoreData, Alike, ClientFields
<1> HIDE DEF d
<1>3. Resting(d) BY <1>2, Waits
<1> QED BY <1>2, <1>3 DEF d

LEMMA RectEnds ==
  ASSUME NEW c, Fit(c), c.rects # 0, NoParts(c), At(stream, Here(c), After(c.rects))
  PROVE  Resting(EndOfRect(c)) /\ EndOfRect(c).ret /\ EndOfRect(c).tiles = 0
<1> DEFINE d == EndOfRect(c)
<1>1. DOMAIN c = ClientFields /\ Counts(c) /\ ~c.lost BY DEF Fit
<1>2. /\ d.rects = c.rects - 1 /\ d.bytes = 0 /\ d.ret /\ d.lost = c.lost
      /\ d.dropped = c.dropped /\ d.rQi = c.rQi /\ d.arrived = c.arrived
      /\ d.lines = c.lines /\ d.subrects = c.subrects /\ d.tiles = c.tiles
  BY <1>1 DEF EndOfRect, Done, ClientFields
<1> HIDE DEF d
<1>3. Here(d) = Here(c) /\ Counts(d) /\ NoParts(d) BY <1>1, <1>2 DEF Here, Counts, NoParts
<1>4. d.rects = 0 => After(c.rects) = Message BY <1>1, <1>2 DEF After, Counts
<1>5. d.rects # 0 => After(c.rects) = Rectangle(d.rects) BY <1>1, <1>2 DEF After, Counts
<1>6. Resting(d) BY <1>1, <1>2, <1>3, <1>4, <1>5 DEF Resting
<1> QED BY <1>2, <1>3, <1>6 DEF d, NoParts

LEMMA StillWithin ==
  ASSUME NEW c, Within(c), NEW d, Alike(c, d), d.bytes \in Nat
  PROVE  Within(d)
<1>1. Here(d) = Here(c) /\ Left(d) = Left(c) /\ Others(d)
  BY DEF Alike, Here, Left, Others, Within
<1>2. Counts(d) BY <1>1 DEF Within, Fit, Counts, Alike
<1> QED BY <1>1, <1>2 DEF Within, Fit, Alike

-----------------------------------------------------------------------------
(* RAW, COPYRECT and RRE.                                                  *)

\* A handler is called at the first of the parts that are left.
Begun(c) ==
  /\ Fit(c) /\ c.ret /\ c.rects # 0
  /\ Others(c) /\ c.rect.enc \in Bodies
  /\ At(stream, Here(c), Body(c.rects, c.rect, IF Left(c) = 0 THEN PartsOf(c.rect) ELSE Left(c)))

\* How many parts of b bytes there are among n bytes, of which k are wanted.
LEMMA Parts ==
  ASSUME NEW n \in Nat, NEW b \in Nat \ {0}, NEW k \in Nat, NEW m, m = Least(n \div b, k)
  PROVE  m \in 0 .. k /\ m * b \in Nat /\ m * b <= n
<1> DEFINE q == n \div b
<1>1. q \in Nat /\ q * b <= n OBVIOUS
<1>2. m = Least(q, k) OBVIOUS
<1> HIDE DEF q
<1>3. m \in 0 .. k /\ m <= q BY <1>1, <1>2 DEF Least
<1>4. (q - m) * b \in Nat
  <2>1. q - m \in Nat BY <1>1, <1>3
  <2> QED BY <2>1
<1>5. q * b = m * b + (q - m) * b BY <1>1, <1>3
<1>6. m * b \in Nat BY <1>3
<1> QED BY <1>1, <1>3, <1>4, <1>5, <1>6

\* After m of the parts of a run comes the next part or the end.
LEMMA RunOn ==
  ASSUME NEW s, NEW p \in Nat, NEW left, NEW r, NEW parts \in Nat, NEW f, NEW n \in Nat,
         parts # 0 => At(s, p, Body(left, r, parts)) /\ Run(s, p, left, r, parts, f, n),
         parts = 0 => At(s, p, After(left)),
         NEW m \in 0 .. parts
  PROVE  At(s, p + m * n, IF m = parts THEN After(left) ELSE Body(left, r, parts - m))
<1>1. CASE m = 0
  <2>1. p + m * n = p /\ parts - m = parts BY <1>1
  <2> QED BY <1>1, <2>1
<1>2. CASE m # 0
  <2>1. m \in 1 .. parts /\ parts # 0 BY <1>2
  <2> QED BY <2>1 DEF Run
<1> QED BY <1>1, <1>2

LEMMA RawKept ==
  ASSUME NEW c, Begun(c), c.rect.enc = "RAW"
  PROVE  Resting(RAW(c))
<1> DEFINE lines == IF c.lines = 0 THEN c.rect.h ELSE c.lines
           b == c.rect.w * fb_Bpp
           d == [c EXCEPT !.lines = IF @ = 0 THEN c.rect.h ELSE @, !.bytes = c.rect.w * fb_Bpp]
<1>1. Fit(c) /\ DOMAIN c = ClientFields /\ c.rects # 0 /\ c.subrects = 0 /\ c.tiles = 0
  BY DEF Begun, Others, Fit
<1>2. /\ Left(c) = c.lines /\ PartsOf(c.rect) = c.rect.h
      /\ At(stream, Here(c), Body(c.rects, c.rect, IF Left(c) = 0 THEN PartsOf(c.rect) ELSE Left(c)))
  BY DEF Left, PartsOf, Begun
<1>3. At(stream, Here(c), Body(c.rects, c.rect, lines)) BY <1>2
<1>4. stream \in DOMAIN Sent BY <1>1 DEF Fit
<1>5. RAW(c) = RawDraw(d) BY DEF RAW
<1>6. /\ DOMAIN d = ClientFields /\ d.lines = lines /\ d.bytes = b /\ d.lost = c.lost
      /\ d.dropped = c.dropped /\ d.rQi = c.rQi /\ d.arrived = c.arrived /\ d.rects = c.rects
      /\ d.subrects = c.subrects /\ d.tiles = c.tiles /\ d.rect = c.rect
  BY <1>1 DEF ClientFields
<1> HIDE DEF lines, d
<1>7. BodyAt(stream, Here(c), c.rects, c.rect, lines) BY <1>3, <1>4, BodyLies
<1>8. /\ lines \in Nat \ {0} /\ c.rect.w \in Nat \ {0}
      /\ Run(stream, Here(c), c.rects, c.rect, lines, "line", b)
  BY <1>7 DEF BodyAt
<1>9. fb_Bpp \in Nat \ {0} /\ rQlen(c) \in Nat /\ Here(c) \in Nat BY <1>1, Lengths
<1>10. b \in Nat \ {0} BY <1>8, <1>9
<1> HIDE DEF b
<1>11. Fit(d) /\ Here(d) = Here(c) /\ rQlen(d) = rQlen(c)
  BY <1>1, <1>6, <1>8, <1>10 DEF Fit, Counts, Here, rQlen
<1>12. Within(d)
  <2>1. Others(d) /\ Left(d) = lines BY <1>1, <1>6 DEF Others, Left
  <2>2. d.rect.enc \in Bodies \ {"COPYRECT"} BY <1>6 DEF Bodies
  <2> QED BY <1>1, <1>3, <1>6, <1>11, <2>1, <2>2 DEF Within
<1>13. CASE rQwait(d, b)
  <2>1. RawDraw(d) = MoreData(d) BY <1>6, <1>13 DEF RawDraw
  <2>2. Alike(d, MoreData(d)) /\ MoreData(d).bytes = b
    BY <1>6 DEF MoreData, Alike, ClientFields
  <2> QED BY <1>5, <1>10, <1>12, <2>1, <2>2, Waits
<1>14. CASE ~rQwait(d, b)
  <2> DEFINE n == Least(rQlen(d) \div b, lines)
             e == ShiftRun(d, "line", b, n)
             g == DrawNow(e)
             k == [g EXCEPT !.lines = @ - n]
  <2>1. RawDraw(d) = RawRest(k) BY <1>6, <1>14 DEF RawDraw, RawLines
  <2>2. n \in 0 .. lines /\ n * b \in Nat /\ n * b <= rQlen(d) BY <1>8, <1>9, <1>10, <1>11, Parts
  <2> HIDE DEF n
  <2>3. Moved(d, e, n * b)
    <3>1. ASSUME NEW m \in 1 .. n PROVE Holds(stream, Here(d) + (m - 1) * b, "line", b)
      BY <1>8, <1>11, <2>2 DEF Run
    <3>2. n \in Nat /\ b \in Nat BY <1>8, <1>10, <2>2
    <3> QED BY <1>11, <2>2, <3>1, <3>2, RunShifted
  <2> HIDE DEF e
  <2>4. Moved(e, g, 0) BY <2>3, MovedFit, DrawMoves
  <2> HIDE DEF g
  <2>5. Moved(d, g, n * b) BY <1>11, <2>2, <2>3, <2>4, MovedOn
  <2>6. /\ Fit(g) /\ DOMAIN g = ClientFields /\ Here(g) = Here(c) + n * b /\ g.rects = c.rects
        /\ g.subrects = 0 /\ g.tiles = 0 /\ g.lines = lines /\ g.bytes = b /\ g.rect = c.rect
    BY <1>1, <1>6, <1>11, <2>5 DEF Moved, Fit
  <2>7. /\ DOMAIN k = ClientFields /\ k.lines = lines - n /\ k.bytes = b /\ k.lost = g.lost
        /\ k.dropped = g.dropped /\ k.rQi = g.rQi /\ k.arrived = g.arrived /\ k.rects = c.rects
        /\ k.subrects = 0 /\ k.tiles = 0 /\ k.rect = c.rect
    BY <2>6 DEF ClientFields
  <2> HIDE DEF k
  <2>8. Fit(k) /\ Here(k) = Here(c) + n * b
    BY <1>8, <2>2, <2>6, <2>7 DEF Fit, Counts, Here
  <2>9. At(stream, Here(k), IF n = lines THEN After(c.rects) ELSE Body(c.rects, c.rect, lines - n))
    <3>1. b \in Nat /\ lines \in Nat /\ lines # 0 /\ Here(c) \in Nat BY <1>8, <1>9, <1>10
    <3>2. At(stream, Here(c) + n * b, IF n = lines THEN After(c.rects) ELSE Body(c.rects, c.rect, lines - n))
      BY <1>3, <1>8, <2>2, <3>1, RunOn
    <3> QED BY <2>8, <3>2
  <2>10. CASE n = lines
    <3>1. RawRest(k) = EndOfRect(k) BY <1>8, <2>7, <2>10 DEF RawRest
    <3>2. NoParts(k) BY <1>8, <2>7, <2>10 DEF NoParts
    <3> QED BY <1>1, <1>5, <2>1, <2>7, <2>8, <2>9, <2>10, <3>1, <3>2, RectEnds
  <2>11. CASE n # lines
    <3>1. RawRest(k) = Done(k) BY <1>8, <2>2, <2>7, <2>11 DEF RawRest
    <3>2. Within(k)
      <4>1. Others(k) /\ Left(k) = lines - n BY <2>7 DEF Others, Left
      <4>2. k.rect.enc \in Bodies \ {"COPYRECT"} BY <2>7 DEF Bodies
      <4> QED BY <1>1, <2>7, <2>8, <2>9, <2>11, <4>1, <4>2 DEF Within
    <3>3. Alike(k, Done(k)) /\ Done(k).bytes = b BY <2>7 DEF Done, Alike, ClientFields
    <3> QED BY <1>5, <1>10, <2>1, <3>1, <3>2, <3>3, Waits
  <2> QED BY <2>10, <2>11
<1> QED BY <1>13, <1>14

LEMMA CopyKept ==
  ASSUME NEW c, Begun(c), c.rect.enc = "COPYRECT"
  PROVE  Sound(COPYRECT(c))
<1> DEFINE t == [c EXCEPT !.torn = TRUE]
           d == rQshift(c, "source", 4)
           e == renderQ_push(d, TRUE)
<1>1. Fit(c) /\ DOMAIN c = ClientFields /\ c.rects # 0 /\ NoParts(c) /\ stream \in DOMAIN Sent
  BY DEF Begun, Others, Fit, NoParts
<1>2. /\ Left(c) = 0 /\ PartsOf(c.rect) = 0
      /\ At(stream, Here(c), Body(c.rects, c.rect, IF Left(c) = 0 THEN PartsOf(c.rect) ELSE Left(c)))
  BY DEF Left, PartsOf, Begun
<1>3. BodyAt(stream, Here(c), c.rects, c.rect, 0) BY <1>1, <1>2, BodyLies
<1>4. Holds(stream, Here(c), "source", 4) /\ At(stream, Here(c) + 4, After(c.rects))
  BY <1>3 DEF BodyAt
<1>5. COPYRECT(c) = IF rQwait(c, 4) THEN MoreData(t) ELSE EndOfRect(e) BY DEF COPYRECT
<1>6. rQlen(c) \in Nat /\ Here(c) \in Nat BY <1>1, Lengths
<1>7. CASE rQwait(c, 4)
  <2>1. t.torn /\ DOMAIN t = ClientFields BY <1>1 DEF ClientFields
  <2> HIDE DEF t
  <2>2. MoreData(t).torn BY <2>1 DEF MoreData, ClientFields
  <2> QED BY <1>5, <1>7, <2>2 DEF Sound
<1>8. CASE ~rQwait(c, 4)
  <2>1. 4 <= rQlen(c) BY <1>6, <1>8 DEF rQwait
  <2>2. Moved(c, d, 4) BY <1>1, <1>4, <2>1, Shifted
  <2> HIDE DEF d
  <2>3. Moved(d, e, 0) BY <2>2, MovedFit, DrawMoves
  <2> HIDE DEF e
  <2>4. Moved(c, e, 4) BY <1>1, <2>2, <2>3, MovedOn
  <2>5. Fit(e) /\ e.rects = c.rects /\ NoParts(e) /\ Here(e) = Here(c) + 4
    BY <1>1, <2>4 DEF Moved, NoParts
  <2>6. Resting(EndOfRect(e)) BY <1>1, <1>4, <2>5, RectEnds
  <2> QED BY <1>5, <1>8, <2>6 DEF Sound
<1> QED BY <1>7, <1>8

\* The subrectangles of RRE.
LEMMA RreDrawKept ==
  ASSUME NEW c, Fit(c), c.rects # 0, c.rect.enc = "RRE", c.lines = 0, c.tiles = 0,
         At(stream, Here(c), IF c.subrects = 0 THEN After(c.rects) ELSE Body(c.rects, c.rect, c.subrects))
  PROVE  Resting(RreDraw(c))
<1> DEFINE b == fb_Bpp + 8
           n == Least(rQlen(c) \div b, c.subrects)
           e == ShiftRun(c, "subrect", fb_Bpp + 8, n)
           k == [e EXCEPT !.subrects = @ - n]
<1>1. stream \in DOMAIN Sent /\ DOMAIN c = ClientFields /\ c.subrects \in Nat BY DEF Fit, Counts
<1>2. fb_Bpp \in Nat \ {0} /\ rQlen(c) \in Nat /\ Here(c) \in Nat BY Lengths
<1>3. b \in Nat \ {0} /\ b \in Nat BY <1>2
<1>4. c.subrects # 0 => Run(stream, Here(c), c.rects, c.rect, c.subrects, "subrect", b)
  <2> SUFFICES ASSUME c.subrects # 0 PROVE Run(stream, Here(c), c.rects, c.rect, c.subrects, "subrect", b)
    OBVIOUS
  <2>1. BodyAt(stream, Here(c), c.rects, c.rect, c.subrects) BY <1>1, BodyLies
  <2> QED BY <2>1 DEF BodyAt
<1>5. RreDraw(c) = RreRest(k) BY DEF RreDraw, RreRects
<1>6. e = ShiftRun(c, "subrect", b, n) OBVIOUS
<1> HIDE DEF e, b
<1>7. n \in 0 .. c.subrects /\ n * b \in Nat /\ n * b <= rQlen(c) BY <1>1, <1>2, <1>3, Parts
<1> HIDE DEF n
<1>8. n \in Nat BY <1>7
<1>9. Moved(c, e, n * b)
  <2>1. ASSUME NEW m \in 1 .. n PROVE Holds(stream, Here(c) + (m - 1) * b, "subrect", b)
    <3>1. c.subrects # 0 /\ m \in 1 .. c.subrects BY <1>1, <1>7
    <3> QED BY <1>4, <3>1 DEF Run
  <2> QED BY <1>3, <1>6, <1>7, <1>8, <2>1, RunShifted
<1>10. /\ Fit(e) /\ DOMAIN e = ClientFields /\ Here(e) = Here(c) + n * b /\ e.rects = c.rects
       /\ e.subrects = c.subrects /\ e.tiles = 0 /\ e.lines = 0 /\ e.rect = c.rect
  BY <1>9 DEF Moved, Fit
<1>11. /\ DOMAIN k = ClientFields /\ k.subrects = c.subrects - n /\ k.lost = e.lost /\ k.bytes = e.bytes
       /\ k.dropped = e.dropped /\ k.rQi = e.rQi /\ k.arrived = e.arrived /\ k.rects = c.rects
       /\ k.lines = 0 /\ k.tiles = 0 /\ k.rect = c.rect
  BY <1>10 DEF ClientFields
<1> HIDE DEF k
<1>12. Fit(k) /\ Here(k) = Here(c) + n * b
  <2>1. Here(k) = Here(e) BY <1>11 DEF Here
  <2>2. k.subrects \in Nat BY <1>1, <1>7, <1>11
  <2>3. Fit(k) BY <1>10, <1>11, <2>1, <2>2 DEF Fit, Counts
  <2> QED BY <1>10, <2>1, <2>3
<1>13. At(stream, Here(c) + n * b,
          IF n = c.subrects THEN After(c.rects) ELSE Body(c.rects, c.rect, c.subrects - n))
  BY <1>1, <1>2, <1>3, <1>4, <1>7, RunOn
<1>14. CASE n = c.subrects
  <2>1. RreRest(k) = EndOfRect(k) BY <1>1, <1>11, <1>14 DEF RreRest
  <2>2. NoParts(k) BY <1>1, <1>11, <1>14 DEF NoParts
  <2> QED BY <1>5, <1>11, <1>12, <1>13, <1>14, <2>1, <2>2, RectEnds
<1>15. CASE n # c.subrects
  <2> DEFINE bytes == (fb_Bpp + 8) * Least(100, k.subrects)
             d == [k EXCEPT !.bytes = bytes]
  <2>1. k.subrects \in Nat \ {0} BY <1>1, <1>7, <1>11, <1>15
  <2>2. RreRest(k) = Done(d) BY <2>1 DEF RreRest
  <2>3. bytes \in Nat \ {0}
    <3>1. Least(100, k.subrects) \in Nat \ {0} BY <2>1 DEF Least
    <3>2. fb_Bpp + 8 \in Nat \ {0} BY <1>2
    <3> QED BY <3>1, <3>2
  <2> HIDE DEF bytes
  <2>4. Within(k)
    <3>1. Others(k) /\ Left(k) = c.subrects - n BY <1>11 DEF Others, Left
    <3>2. k.rect.enc \in Bodies \ {"COPYRECT"} BY <1>11 DEF Bodies
    <3> QED BY <1>11, <1>12, <1>13, <1>15, <2>1, <3>1, <3>2 DEF Within
  <2>5. Alike(k, Done(d)) /\ Done(d).bytes = bytes BY <1>11 DEF Done, Alike, ClientFields
  <2> QED BY <1>5, <2>2, <2>3, <2>4, <2>5, Waits
<1> QED BY <1>14, <1>15

LEMMA RreKept ==
  ASSUME NEW c, Begun(c), c.rect.enc = "RRE"
  PROVE  Sound(RRE(c))
<1>1. /\ Fit(c) /\ DOMAIN c = ClientFields /\ c.rects # 0 /\ c.lines = 0 /\ c.tiles = 0
      /\ stream \in DOMAIN Sent /\ c.subrects \in Nat
  BY DEF Begun, Others, Fit, Counts
<1>2. /\ Left(c) = c.subrects /\ PartsOf(c.rect) = 0
      /\ At(stream, Here(c), Body(c.rects, c.rect, IF Left(c) = 0 THEN PartsOf(c.rect) ELSE Left(c)))
  BY DEF Left, PartsOf, Begun
<1>3. At(stream, Here(c), Body(c.rects, c.rect, c.subrects)) BY <1>2
<1>4. CASE c.subrects > 0
  <2>1. RRE(c) = RreDraw(c) BY <1>4 DEF RRE
  <2> QED BY <1>1, <1>3, <1>4, <2>1, RreDrawKept DEF Sound
<1>5. CASE ~(c.subrects > 0)
  <2> DEFINE t == [c EXCEPT !.torn = TRUE]
             d == rQshift(c, "subrects", 4)
             e == rQshift(d, "bg", fb_Bpp)
             g == DrawNow(e)
             k == [g EXCEPT !.subrects = Peek(c, 1).v]
  <2>1. c.subrects = 0 BY <1>1, <1>5
  <2>2. BodyAt(stream, Here(c), c.rects, c.rect, 0) BY <1>1, <1>3, <2>1, BodyLies
  <2>3. RreHeader(stream, Here(c), c.rects, c.rect) BY <1>5, <2>2 DEF BodyAt
  <2>4. fb_Bpp \in Nat /\ rQlen(c) \in Nat /\ Here(c) \in Nat BY <1>1, Lengths
  <2>5. Next_(c, 0, "subrects", 4)
    <3>1. Here(c) + 0 = Here(c) BY <2>4
    <3> QED BY <1>1, <2>3, <3>1, IsNext DEF RreHeader
  <2>6. RRE(c) = IF rQwait(c, 4 + fb_Bpp) THEN MoreData(t) ELSE RreDraw(k)
    BY <1>5, <2>5 DEF RRE
  <2>7. CASE rQwait(c, 4 + fb_Bpp)
    <3>1. t.torn /\ DOMAIN t = ClientFields BY <1>1 DEF ClientFields
    <3> HIDE DEF t
    <3>2. MoreData(t).torn BY <3>1 DEF MoreData, ClientFields
    <3> QED BY <2>6, <2>7, <3>2 DEF Sound
  <2>8. CASE ~rQwait(c, 4 + fb_Bpp)
    <3> DEFINE number == Says(stream, Here(c))
    <3>1. 4 + fb_Bpp <= rQlen(c) /\ 4 <= rQlen(c) BY <2>4, <2>8 DEF rQwait
    <3>2. /\ Holds(stream, Here(c), "subrects", 4) /\ number \in Nat
          /\ Holds(stream, Here(c) + 4, "bg", fb_Bpp)
          /\ At(stream, Here(c) + 4 + fb_Bpp,
                IF number = 0 THEN After(c.rects) ELSE Body(c.rects, c.rect, number))
      BY <2>3 DEF RreHeader
    <3>3. Peek(c, 1).v = number
      <4>1. Here(c) + 0 = Here(c) /\ 0 + 1 = 1 BY <2>4
      <4> QED BY <1>1, <4>1, Says_
    <3> HIDE DEF number
    <3>4. Moved(c, d, 4) BY <1>1, <3>1, <3>2, Shifted
    <3> HIDE DEF d
    <3>5. Moved(c, e, 4 + fb_Bpp) BY <1>1, <2>4, <3>1, <3>2, <3>4, ShiftedOn
    <3> HIDE DEF e
    <3>6. Moved(e, g, 0) BY <3>5, MovedFit, DrawMoves
    <3> HIDE DEF g
    <3>7. Moved(c, g, 4 + fb_Bpp + 0) /\ 4 + fb_Bpp + 0 = 4 + fb_Bpp
      BY <1>1, <2>4, <3>5, <3>6, MovedOn
    <3>8. /\ Fit(g) /\ DOMAIN g = ClientFields /\ Here(g) = Here(c) + 4 + fb_Bpp /\ g.rects = c.rects
          /\ g.tiles = 0 /\ g.lines = 0 /\ g.rect = c.rect
      BY <1>1, <2>4, <3>7 DEF Moved, Fit
    <3>9. /\ DOMAIN k = ClientFields /\ k.subrects = number /\ k.lost = g.lost /\ k.bytes = g.bytes
          /\ k.dropped = g.dropped /\ k.rQi = g.rQi /\ k.arrived = g.arrived /\ k.rects = c.rects
          /\ k.lines = 0 /\ k.tiles = 0 /\ k.rect = c.rect
      BY <3>3, <3>8 DEF ClientFields
    <3> HIDE DEF k
    <3>10. Fit(k) /\ Here(k) = Here(c) + 4 + fb_Bpp BY <3>2, <3>8, <3>9 DEF Fit, Counts, Here
    <3>11. Resting(RreDraw(k)) BY <1>1, <3>2, <3>9, <3>10, RreDrawKept
    <3> QED BY <2>6, <2>8, <3>11 DEF Sound
  <2> QED BY <2>7, <2>8
<1> QED BY <1>4, <1>5

-----------------------------------------------------------------------------
(* HEXTILE.                                                                *)

LEMMA TileSide ==
  ASSUME NEW length \in Nat \ {0}
  PROVE  /\ CeilDiv(length, 16) = TilesOf(length) /\ TilesOf(length) \in Nat \ {0}
         /\ \A k \in 0 .. TilesOf(length) - 1 :
              Least(length - 16 * k, 16) = TileOf(length, k) /\ TileOf(length, k) \in Nat \ {0}
<1> DEFINE n == (length + 15) \div 16
<1>1. n \in Nat \ {0} /\ 16 * n <= length + 15 /\ length <= 16 * n OBVIOUS
<1>2. TilesOf(length) = n /\ CeilDiv(length, 16) = n
  <2>1. length + 16 - 1 = length + 15 OBVIOUS
  <2> QED BY <2>1 DEF TilesOf, CeilDiv
<1> HIDE DEF n
<1> QED BY <1>1, <1>2 DEF TileOf, Least

LEMMA TileSize ==
  ASSUME NEW r, r.w \in Nat \ {0}, r.h \in Nat \ {0}
  PROVE  /\ Tiles(r) = TilesOf(r.w) * TilesOf(r.h) /\ Tiles(r) \in Nat \ {0}
         /\ \A k \in 0 .. Tiles(r) - 1 :
              /\ TilePixels(r, k) = TileOf(r.w, k % TilesOf(r.w)) * TileOf(r.h, k \div TilesOf(r.w))
              /\ TilePixels(r, k) \in Nat
<1> DEFINE across == TilesOf(r.w)
           down == TilesOf(r.h)
<1>1. /\ CeilDiv(r.w, 16) = across /\ across \in Nat \ {0}
      /\ CeilDiv(r.h, 16) = down /\ down \in Nat \ {0}
      /\ \A k \in 0 .. across - 1 :
           Least(r.w - 16 * k, 16) = TileOf(r.w, k) /\ TileOf(r.w, k) \in Nat \ {0}
      /\ \A k \in 0 .. down - 1 :
           Least(r.h - 16 * k, 16) = TileOf(r.h, k) /\ TileOf(r.h, k) \in Nat \ {0}
  BY TileSide
<1>2. Tiles(r) = across * down BY <1>1 DEF Tiles
<1> HIDE DEF across, down
<1>3. across * down \in Nat \ {0} BY <1>1
<1>4. ASSUME NEW k \in 0 .. across * down - 1
      PROVE  /\ TilePixels(r, k) = TileOf(r.w, k % across) * TileOf(r.h, k \div across)
             /\ TilePixels(r, k) \in Nat
  <2> DEFINE x == k % across
             y == k \div across
  <2>1. k \in Nat /\ k < across * down BY <1>3
  <2>2. x \in 0 .. across - 1 /\ y \in Nat /\ y * across <= k BY <1>1, <2>1
  <2>3. TilePixels(r, k) = Least(r.w - 16 * x, 16) * Least(r.h - 16 * y, 16)
    BY <1>1 DEF TilePixels
  <2> HIDE DEF x, y
  <2>4. y < down
    <3> SUFFICES ASSUME down <= y PROVE FALSE BY <1>1, <2>2
    <3>1. (y - down) * across \in Nat
      <4>1. y - down \in Nat BY <1>1, <2>2
      <4> QED BY <1>1, <4>1
    <3>2. y * across = across * down + (y - down) * across BY <1>1, <2>2
    <3> QED BY <1>3, <2>1, <2>2, <3>1, <3>2
  <2>5. y \in 0 .. down - 1 BY <1>1, <2>2, <2>4
  <2>6. TilePixels(r, k) = TileOf(r.w, x) * TileOf(r.h, y) BY <1>1, <2>2, <2>3, <2>5
  <2>7. TileOf(r.w, x) \in Nat /\ TileOf(r.h, y) \in Nat BY <1>1, <2>2, <2>5
  <2>8. TileOf(r.w, x) * TileOf(r.h, y) \in Nat BY <2>7
  <2> QED BY <2>6, <2>8 DEF x, y
<1> QED BY <1>2, <1>3, <1>4 DEF across, down

\* The bytes of a whole tile.
SizeOf(t, pixels) ==
  IF t.raw THEN 1 + pixels * fb_Bpp ELSE TileHeader(t) + TileSubrects(t)

LEMMA TileShifted ==
  ASSUME NEW c, Fit(c), NEW t \in TileHeads, NEW pixels \in Nat,
         Holds(stream, Here(c), "sub", 1),
         t.raw => Holds(stream, Here(c) + 1, "pixels", pixels * fb_Bpp),
         ~t.raw /\ t.bg => Holds(stream, Here(c) + 1, "bg", fb_Bpp),
         ~t.raw /\ t.fg => Holds(stream, Here(c) + Front(t) - fb_Bpp, "fg", fb_Bpp),
         ~t.raw /\ t.subs # -1 => /\ Holds(stream, Here(c) + Front(t), "nsub", 1)
                                  /\ Holds(stream, Here(c) + Front(t) + 1, "subrects", Subs(t)),
         SizeOf(t, pixels) <= rQlen(c)
  PROVE  Moved(c, ShiftTile(c, t, pixels), SizeOf(t, pixels))
<1> DEFINE sub == rQshift(c, "sub", 1)
           bg == ShiftIf(t.bg, sub, "bg", fb_Bpp)
           fg == ShiftIf(t.fg, bg, "fg", fb_Bpp)
           nsub == ShiftIf(t.subs >= 0, fg, "nsub", 1)
           rest == ShiftIf(t.subs >= 0, nsub, "subrects", TileSubrects(t))
           raw == rQshift(sub, "pixels", pixels * fb_Bpp)
           b == IF t.bg THEN fb_Bpp ELSE 0
           f == IF t.fg THEN fb_Bpp ELSE 0
           s == TileSubrects(t)
<1>1. fb_Bpp \in Nat /\ rQlen(c) \in Nat /\ Here(c) \in Nat BY Lengths
<1>2. /\ t.subs \in Nat \cup {-1} /\ t.raw \in BOOLEAN /\ t.bg \in BOOLEAN /\ t.fg \in BOOLEAN
      /\ t.coloured \in BOOLEAN
  BY DEF TileHeads
<1>3. ShiftTile(c, t, pixels) = IF t.raw THEN raw ELSE rest BY DEF ShiftTile
<1>4. b \in Nat /\ f \in Nat BY <1>1
<1>5. t.subs # -1 => s = Subs(t) BY <1>2 DEF TileSubrects, Subs
<1>6. s \in Nat
  <2>1. t.subs \in Nat => t.subs * (fb_Bpp + 2) \in Nat /\ t.subs * 2 \in Nat BY <1>1
  <2> QED BY <1>2, <2>1 DEF TileSubrects
<1>7. Front(t) = 1 + b + f BY DEF Front
<1>8. TileHeader(t) = 1 + b + f + (IF t.subs < 0 THEN 0 ELSE 1) BY DEF TileHeader
<1>9. t.fg => Here(c) + Front(t) - fb_Bpp = Here(c) + (1 + b) BY <1>1, <1>4, <1>7
<1>10. pixels * fb_Bpp \in Nat BY <1>1
<1>11. t.subs < 0 <=> t.subs = -1 BY <1>2
<1>12. t.subs < 0 => s = 0 BY DEF TileSubrects
<1>13. /\ t.bg => b = fb_Bpp
       /\ ~t.bg => b = 0
       /\ t.fg => f = fb_Bpp
       /\ ~t.fg => f = 0
  OBVIOUS
<1> HIDE DEF b, f, s
<1>14. CASE t.raw
  <2>1. SizeOf(t, pixels) = 1 + pixels * fb_Bpp BY <1>14 DEF SizeOf
  <2> DEFINE n == pixels * fb_Bpp
  <2>2. n \in Nat /\ 1 + n <= rQlen(c) /\ 1 <= rQlen(c) BY <1>1, <1>10, <2>1
  <2>3. Holds(stream, Here(c) + 1, "pixels", n) BY <1>14
  <2>4. raw = rQshift(sub, "pixels", n) OBVIOUS
  <2> HIDE DEF raw, n
  <2>5. Moved(c, sub, 1) BY <2>2, Shifted
  <2> HIDE DEF sub
  <2>6. Moved(c, raw, 1 + n) BY <2>2, <2>3, <2>4, <2>5, ShiftedOn
  <2> QED BY <1>3, <1>14, <2>1, <2>6 DEF n
<1>15. CASE ~t.raw
  <2>1. SizeOf(t, pixels) = TileHeader(t) + s BY <1>15 DEF SizeOf, s
  <2>2. 1 + b + f <= rQlen(c) /\ 1 + b <= rQlen(c) /\ 1 <= rQlen(c)
    BY <1>1, <1>4, <1>6, <1>8, <1>11, <2>1
  <2>3. Moved(c, sub, 1) BY <2>2, Shifted
  <2> HIDE DEF sub
  <2>4. Moved(c, bg, 1 + b)
    <3>1. CASE t.bg
      <4>1. bg = rQshift(sub, "bg", b) BY <1>13, <3>1 DEF ShiftIf
      <4>2. Holds(stream, Here(c) + 1, "bg", b) BY <1>13, <1>15, <3>1
      <4> HIDE DEF bg
      <4> QED BY <1>4, <2>2, <2>3, <4>1, <4>2, ShiftedOn
    <3>2. CASE ~t.bg
      <4>1. bg = sub /\ 1 + b = 1 BY <1>13, <3>2 DEF ShiftIf
      <4> HIDE DEF bg
      <4> QED BY <2>3, <4>1
    <3> QED BY <3>1, <3>2
  <2> HIDE DEF bg
  <2>5. Moved(c, fg, 1 + b + f)
    <3>1. CASE t.fg
      <4>1. fg = rQshift(bg, "fg", f) BY <1>13, <3>1 DEF ShiftIf
      <4>2. Holds(stream, Here(c) + (1 + b), "fg", f) BY <1>9, <1>13, <1>15, <3>1
      <4>3. 1 + b \in Nat BY <1>4
      <4> HIDE DEF fg
      <4> QED BY <1>4, <2>2, <2>4, <4>1, <4>2, <4>3, ShiftedOn
    <3>2. CASE ~t.fg
      <4>1. fg = bg /\ 1 + b + f = 1 + b BY <1>4, <1>13, <3>2 DEF ShiftIf
      <4> HIDE DEF fg
      <4> QED BY <2>4, <4>1
    <3> QED BY <3>1, <3>2
  <2> HIDE DEF fg
  <2> DEFINE n == 1 + b + f
  <2>6. n \in Nat /\ Front(t) = n BY <1>4, <1>7
  <2>7. CASE t.subs < 0
    <3>1. nsub = fg BY <1>2, <2>7 DEF ShiftIf
    <3> HIDE DEF nsub
    <3>2. rest = nsub BY <1>2, <2>7 DEF ShiftIf
    <3> HIDE DEF rest
    <3>3. TileHeader(t) + s = n BY <1>4, <1>8, <1>12, <2>7
    <3> QED BY <1>3, <1>15, <2>1, <2>5, <3>1, <3>2, <3>3
  <2>8. CASE ~(t.subs < 0)
    <3>1. nsub = rQshift(fg, "nsub", 1) BY <1>2, <2>8 DEF ShiftIf
    <3>2. rest = rQshift(nsub, "subrects", s) BY <1>2, <2>8 DEF ShiftIf, s
    <3> HIDE DEF rest
    <3>3. TileHeader(t) + s = n + 1 + s BY <1>8, <2>8
    <3> HIDE DEF n
    <3>4. n + 1 <= rQlen(c) /\ n + 1 + s <= rQlen(c) /\ n + 1 \in Nat BY <1>1, <1>6, <2>1, <2>6, <3>3
    <3>5. Holds(stream, Here(c) + n, "nsub", 1) BY <1>11, <1>15, <2>6, <2>8
    <3>6. Holds(stream, Here(c) + (n + 1), "subrects", s)
      <4>1. Here(c) + n + 1 = Here(c) + (n + 1) BY <1>1, <2>6
      <4> QED BY <1>5, <1>11, <1>15, <2>6, <2>8, <4>1
    <3>7. Moved(c, fg, n) BY <2>5 DEF n
    <3>8. Moved(c, nsub, n + 1) BY <2>6, <3>1, <3>4, <3>5, <3>7, ShiftedOn
    <3> HIDE DEF nsub
    <3>9. Moved(c, rest, n + 1 + s) BY <1>6, <3>2, <3>4, <3>6, <3>8, ShiftedOn
    <3> QED BY <1>3, <1>15, <2>1, <3>3, <3>9
  <2> QED BY <2>7, <2>8
<1> QED BY <1>2, <1>14, <1>15

\* The loop goes on with the next tile, or has stopped.
Running(c) == Within(c) /\ c.ret /\ c.rect.enc = "HEXTILE"
Stopped(c) == Resting(c) /\ (~c.ret \/ c.tiles = 0)

LEMMA TileTaken ==
  ASSUME NEW c, Running(c), NEW t \in TileHeads, NEW pixels \in Nat, NEW n \in Nat \ {0}, n <= rQlen(c),
         Moved(c, ShiftTile(c, t, pixels), n),
         At(stream, Here(c) + n, IF c.tiles = 1 THEN After(c.rects) ELSE Body(c.rects, c.rect, c.tiles - 1)),
         c.tiles \in Nat \ {0},
         NEW d, d = TileDone([DrawNow(ShiftTile(c, t, pixels)) EXCEPT !.tiles = @ - 1, !.bytes = 0])
  PROVE  Stopped(d) \/ (Running(d) /\ rQlen(d) < rQlen(c))
<1> DEFINE e == ShiftTile(c, t, pixels)
           g == DrawNow(e)
           k == [g EXCEPT !.tiles = @ - 1, !.bytes = 0]
<1>1. /\ Fit(c) /\ c.rects # 0 /\ c.lines = 0 /\ c.subrects = 0 /\ c.rect.enc = "HEXTILE" /\ c.ret
      /\ rQlen(c) \in Nat /\ Here(c) \in Nat
  BY Lengths DEF Running, Within, Others
<1>2. Moved(c, e, n) OBVIOUS
<1>3. d = TileDone(k) OBVIOUS
<1> HIDE DEF e
<1>4. Moved(e, g, 0) BY <1>2, MovedFit, DrawMoves
<1> HIDE DEF g
<1>5. Moved(c, g, n + 0) /\ n + 0 = n BY <1>1, <1>2, <1>4, MovedOn
<1>6. /\ Fit(g) /\ DOMAIN g = ClientFields /\ Here(g) = Here(c) + n /\ rQlen(g) = rQlen(c) - n
      /\ g.rects = c.rects /\ g.tiles = c.tiles /\ g.lines = 0 /\ g.subrects = 0 /\ g.rect = c.rect
      /\ g.ret = c.ret
  BY <1>1, <1>5 DEF Moved, Fit
<1>7. /\ DOMAIN k = ClientFields /\ k.tiles = c.tiles - 1 /\ k.lost = g.lost /\ k.bytes = 0
      /\ k.dropped = g.dropped /\ k.rQi = g.rQi /\ k.arrived = g.arrived /\ k.rects = c.rects
      /\ k.lines = 0 /\ k.subrects = 0 /\ k.rect = c.rect /\ k.ret = c.ret
  BY <1>6 DEF ClientFields
<1> HIDE DEF k
<1>8. Here(k) = Here(c) + n /\ rQlen(k) < rQlen(c)
  <2>1. Here(k) = Here(g) /\ rQlen(k) = rQlen(g) BY <1>7 DEF Here, rQlen
  <2> QED BY <1>1, <1>6, <2>1
<1>9. Fit(k)
  <2>1. k.tiles \in Nat BY <1>7
  <2>2. Here(k) = Here(g) BY <1>7 DEF Here
  <2> QED BY <1>6, <1>7, <2>1, <2>2 DEF Fit, Counts
<1>10. CASE c.tiles = 1
  <2>1. d = EndOfRect(k) BY <1>3, <1>7, <1>10 DEF TileDone
  <2>2. NoParts(k) BY <1>7, <1>10 DEF NoParts
  <2> QED BY <1>1, <1>7, <1>8, <1>9, <1>10, <2>1, <2>2, RectEnds DEF Stopped
<1>11. CASE c.tiles # 1
  <2>1. d = k BY <1>3, <1>7, <1>11 DEF TileDone
  <2>2. Within(k)
    <3>1. Others(k) /\ Left(k) = c.tiles - 1 BY <1>1, <1>7 DEF Others, Left
    <3>2. k.rect.enc \in Bodies \ {"COPYRECT"} /\ k.rect.enc # "RRE" BY <1>1, <1>7 DEF Bodies
    <3> QED BY <1>1, <1>7, <1>8, <1>9, <1>11, <3>1, <3>2 DEF Within
  <2> QED BY <1>1, <1>7, <1>8, <2>1, <2>2 DEF Running
<1> QED BY <1>10, <1>11

LEMMA NextTileKept ==
  ASSUME NEW c, Running(c)
  PROVE  Stopped(NextTile(c)) \/ (Running(NextTile(c)) /\ rQlen(NextTile(c)) < rQlen(c))
<1> DEFINE t == Says(stream, Here(c))
           k == Tiles(c.rect) - c.tiles
           pixels == TilePixels(c.rect, k)
           size == SizeOf(t, pixels)
           next == IF c.tiles = 1 THEN After(c.rects) ELSE Body(c.rects, c.rect, c.tiles - 1)
<1>1. /\ Fit(c) /\ Within(c) /\ c.ret /\ ~c.lost /\ stream \in DOMAIN Sent /\ c.rect.enc = "HEXTILE"
      /\ rQlen(c) \in Nat /\ Here(c) \in Nat /\ fb_Bpp \in Nat \ {0}
  BY Lengths DEF Running, Within, Fit
<1>2. BodyAt(stream, Here(c), c.rects, c.rect, c.tiles)
  <2>1. Left(c) = c.tiles BY <1>1 DEF Left
  <2> QED BY <1>1, <2>1, BodyLies DEF Within
<1>3. /\ c.rect.w \in Nat \ {0} /\ c.rect.h \in Nat \ {0} /\ c.tiles \in Nat \ {0}
      /\ TileAt(stream, Here(c), c.rects, c.rect, c.tiles)
  BY <1>1, <1>2 DEF BodyAt
<1>4. Tiles(c.rect) = TilesOf(c.rect.w) * TilesOf(c.rect.h) /\ Tiles(c.rect) \in Nat \ {0}
  BY <1>3, TileSize
<1>5. c.tiles <= Tiles(c.rect) BY <1>3, <1>4 DEF TileAt
<1>6. k \in 0 .. Tiles(c.rect) - 1 BY <1>3, <1>4, <1>5
<1>7. /\ pixels = TileOf(c.rect.w, k % TilesOf(c.rect.w)) * TileOf(c.rect.h, k \div TilesOf(c.rect.w))
      /\ pixels \in Nat
  <2> HIDE DEF k
  <2> QED BY <1>3, <1>6, TileSize
<1>8. /\ Holds(stream, Here(c), "sub", 1) /\ t \in TileHeads
      /\ t.raw => /\ Holds(stream, Here(c) + 1, "pixels", pixels * fb_Bpp)
                  /\ At(stream, Here(c) + 1 + pixels * fb_Bpp, next)
      /\ ~t.raw =>
           /\ t.bg => Holds(stream, Here(c) + 1, "bg", fb_Bpp)
           /\ t.fg => Holds(stream, Here(c) + Front(t) - fb_Bpp, "fg", fb_Bpp)
           /\ t.subs = -1 => At(stream, Here(c) + Front(t), next)
           /\ t.subs # -1 =>
                /\ Holds(stream, Here(c) + Front(t), "nsub", 1)
                /\ Holds(stream, Here(c) + Front(t) + 1, "subrects", Subs(t))
                /\ At(stream, Here(c) + Front(t) + 1 + Subs(t), next)
  <2>1. k = TilesOf(c.rect.w) * TilesOf(c.rect.h) - c.tiles BY <1>4
  <2> HIDE DEF pixels, k
  <2> QED BY <1>3, <1>7, <2>1 DEF TileAt
<1>9. Peek(c, 1).v = t /\ Next_(c, 0, "sub", 1)
  <2>1. Here(c) + 0 = Here(c) /\ 0 + 1 = 1 BY <1>1
  <2> QED BY <1>1, <1>8, <2>1, Says_, IsNext
<1> HIDE DEF pixels, t, k, next
<1>10. NextTile(c) = IF rQwait(c, 1) THEN Needs(c, 1) ELSE DrawTile(c, t, pixels)
  BY <1>1, <1>3, <1>9 DEF NextTile, pixels, k
<1>11. ASSUME NEW n \in Nat \ {0} PROVE Stopped(Needs(c, n))
  BY <1>1, NeedsMore DEF Stopped
<1>12. /\ t.subs \in Nat \cup {-1} /\ t.raw \in BOOLEAN /\ t.bg \in BOOLEAN /\ t.fg \in BOOLEAN
       /\ t.coloured \in BOOLEAN
  BY <1>8 DEF TileHeads
<1>13. Front(t) \in Nat \ {0} /\ TileHeader(t) = Front(t) + (IF t.subs < 0 THEN 0 ELSE 1)
  BY <1>1, <1>12 DEF Front, TileHeader
<1>14. TileSubrects(t) \in Nat /\ (t.subs # -1 => TileSubrects(t) = Subs(t))
       /\ (t.subs = -1 => TileSubrects(t) = 0)
  <2>1. t.subs \in Nat => t.subs * (fb_Bpp + 2) \in Nat /\ t.subs * 2 \in Nat BY <1>1
  <2> QED BY <1>12, <2>1 DEF TileSubrects, Subs
<1>15. TileHeader(t) \in Nat \ {0} /\ TileHeader(t) + TileSubrects(t) \in Nat \ {0} BY <1>12, <1>13, <1>14
<1>16. pixels * fb_Bpp \in Nat /\ 1 + pixels * fb_Bpp \in Nat \ {0}
  <2>1. pixels * fb_Bpp \in Nat BY <1>1, <1>7
  <2> QED BY <2>1
<1>17. size \in Nat \ {0} /\ (t.raw => size = 1 + pixels * fb_Bpp)
       /\ (~t.raw => size = TileHeader(t) + TileSubrects(t))
  BY <1>15, <1>16 DEF SizeOf
<1>18. At(stream, Here(c) + size, next)
  <2>1. CASE t.raw
    <3>1. Here(c) + size = Here(c) + 1 + pixels * fb_Bpp BY <1>1, <1>16, <1>17, <2>1
    <3> HIDE DEF size
    <3> QED BY <1>8, <2>1, <3>1
  <2>2. CASE ~t.raw /\ t.subs = -1
    <3>1. size = Front(t) BY <1>13, <1>14, <1>17, <2>2
    <3> HIDE DEF size
    <3> QED BY <1>8, <2>2, <3>1
  <2>3. CASE ~t.raw /\ t.subs # -1
    <3>1. size = Front(t) + 1 + Subs(t) BY <1>12, <1>13, <1>14, <1>17, <2>3
    <3> HIDE DEF size
    <3>2. Here(c) + size = Here(c) + Front(t) + 1 + Subs(t)
      BY <1>1, <1>13, <1>14, <2>3, <3>1
    <3> QED BY <1>8, <2>3, <3>2
  <2> QED BY <2>1, <2>2, <2>3
<1>19. DrawTile(c, t, pixels) \in
         {Needs(c, TileHeader(t)), Needs(c, TileHeader(t) + TileSubrects(t)), Needs(c, 1 + pixels * fb_Bpp)}
       \/ /\ ~rQwait(c, size)
          /\ DrawTile(c, t, pixels)
             = TileDone([DrawNow(ShiftTile(c, t, pixels)) EXCEPT !.tiles = @ - 1, !.bytes = 0])
  <2> HIDE DEF size
  <2> QED BY <1>12, <1>17 DEF DrawTile
<1>20. CASE rQwait(c, 1) BY <1>10, <1>11, <1>20
<1>21. CASE ~rQwait(c, 1) /\ DrawTile(c, t, pixels) \in
         {Needs(c, TileHeader(t)), Needs(c, TileHeader(t) + TileSubrects(t)), Needs(c, 1 + pixels * fb_Bpp)}
  BY <1>10, <1>11, <1>15, <1>16, <1>21
<1>22. CASE /\ ~rQwait(c, 1) /\ ~rQwait(c, size)
            /\ DrawTile(c, t, pixels)
               = TileDone([DrawNow(ShiftTile(c, t, pixels)) EXCEPT !.tiles = @ - 1, !.bytes = 0])
  <2>1. size <= rQlen(c)
    <3> HIDE DEF size
    <3> QED BY <1>1, <1>17, <1>22 DEF rQwait
  <2>2. Moved(c, ShiftTile(c, t, pixels), size)
    BY <1>1, <1>7, <1>8, <2>1, TileShifted
  <2> HIDE DEF size
  <2>3. NextTile(c) = TileDone([DrawNow(ShiftTile(c, t, pixels)) EXCEPT !.tiles = @ - 1, !.bytes = 0])
    BY <1>10, <1>22
  <2>4. At(stream, Here(c) + size,
           IF c.tiles = 1 THEN After(c.rects) ELSE Body(c.rects, c.rect, c.tiles - 1))
    BY <1>18 DEF next
  <2> QED BY <1>3, <1>7, <1>8, <1>17, <2>1, <2>2, <2>3, <2>4, TileTaken
<1> QED BY <1>19, <1>20, <1>21, <1>22

LEMMA HextileKept ==
  ASSUME NEW c, Begun(c), c.rect.enc = "HEXTILE"
  PROVE  Resting(HEXTILE(c))
<1> DEFINE d == [c EXCEPT !.tiles = IF @ = 0 THEN Tiles(c.rect) ELSE @]
           tiles == IF c.tiles = 0 THEN Tiles(c.rect) ELSE c.tiles
<1>1. /\ Fit(c) /\ DOMAIN c = ClientFields /\ c.rects # 0 /\ c.lines = 0 /\ c.subrects = 0 /\ c.ret
      /\ stream \in DOMAIN Sent /\ c.arrived \in Nat
  BY DEF Begun, Others, Fit, Counts
<1>2. /\ Left(c) = c.tiles /\ PartsOf(c.rect) = TilesOf(c.rect.w) * TilesOf(c.rect.h)
      /\ At(stream, Here(c), Body(c.rects, c.rect, IF Left(c) = 0 THEN PartsOf(c.rect) ELSE Left(c)))
  BY DEF Left, PartsOf, Begun
<1>3. BodyAt(stream, Here(c), c.rects, c.rect, IF Left(c) = 0 THEN PartsOf(c.rect) ELSE Left(c))
  BY <1>1, <1>2, BodyLies
<1>4. c.rect.w \in Nat \ {0} /\ c.rect.h \in Nat \ {0} BY <1>3 DEF BodyAt
<1>5. Tiles(c.rect) = PartsOf(c.rect) /\ Tiles(c.rect) \in Nat BY <1>2, <1>4, TileSize
<1>6. tiles = IF Left(c) = 0 THEN PartsOf(c.rect) ELSE Left(c) BY <1>2, <1>5
<1>7. tiles \in Nat BY <1>1, <1>5 DEF Fit, Counts
<1>8. /\ DOMAIN d = ClientFields /\ d.tiles = tiles /\ d.lost = c.lost /\ d.bytes = c.bytes
      /\ d.dropped = c.dropped /\ d.rQi = c.rQi /\ d.arrived = c.arrived /\ d.rects = c.rects
      /\ d.lines = 0 /\ d.subrects = 0 /\ d.rect = c.rect /\ d.ret = c.ret
  BY <1>1 DEF ClientFields
<1>9. PICK after : /\ HEXTILE(c) = after[c.arrived + 1] /\ after[0] = d
                   /\ \A i \in 1 .. c.arrived + 1 : after[i] = NextTile(after[i - 1])
  BY <1>1, HextileTurns
<1> HIDE DEF d, tiles
<1>10. Running(d) /\ rQlen(d) = rQlen(c)
  <2>1. Here(d) = Here(c) /\ rQlen(d) = rQlen(c) BY <1>8 DEF Here, rQlen
  <2>2. Fit(d) BY <1>1, <1>7, <1>8, <2>1 DEF Fit, Counts
  <2>3. Others(d) /\ Left(d) = tiles BY <1>8 DEF Others, Left
  <2>4. d.rect.enc \in Bodies \ {"COPYRECT"} /\ d.rect.enc # "RRE" BY <1>8 DEF Bodies
  <2> QED BY <1>1, <1>2, <1>6, <1>8, <2>1, <2>2, <2>3, <2>4 DEF Running, Within
<1>11. rQlen(c) \in Nat /\ rQlen(c) <= c.arrived
  <2>1. rQlen(c) \in Nat /\ Here(c) \in Nat /\ Here(c) + rQlen(c) = c.arrived BY <1>1, Lengths
  <2> QED BY <2>1
<1> DEFINE Good(i) == Stopped(after[i]) \/ (Running(after[i]) /\ rQlen(after[i]) + i <= rQlen(c))
           S == {i \in Nat : i <= c.arrived + 1 => Good(i)}
<1>12. 0 \in S BY <1>9, <1>10, <1>11
<1>13. ASSUME NEW i \in Nat, i \in S PROVE i + 1 \in S
  <2> SUFFICES ASSUME i + 1 <= c.arrived + 1 PROVE Good(i + 1) OBVIOUS
  <2>1. Good(i) BY <1>1, <1>13
  <2>2. i + 1 \in 1 .. c.arrived + 1 /\ (i + 1) - 1 = i BY <1>1
  <2>3. after[i + 1] = NextTile(after[i]) BY <1>9, <2>2
  <2>4. CASE Stopped(after[i])
    <3>1. NextTile(after[i]) = after[i] BY <2>4 DEF Stopped, NextTile
    <3> QED BY <2>3, <2>4, <3>1
  <2>5. CASE Running(after[i]) /\ rQlen(after[i]) + i <= rQlen(c)
    <3> DEFINE e == after[i]
               g == after[i + 1]
    <3>1. rQlen(e) \in Nat BY <2>5, Lengths DEF Running, Within
    <3>2. Stopped(g) \/ (Running(g) /\ rQlen(g) < rQlen(e)) BY <2>3, <2>5, NextTileKept
    <3>3. Running(g) => rQlen(g) \in Nat BY Lengths DEF Running, Within
    <3> HIDE DEF e, g
    <3>4. rQlen(e) + i <= rQlen(c) BY <2>5 DEF e
    <3>5. Stopped(g) \/ (Running(g) /\ rQlen(g) + (i + 1) <= rQlen(c)) BY <1>11, <3>1, <3>2, <3>3, <3>4
    <3> QED BY <3>5 DEF g
  <2> QED BY <2>1, <2>4, <2>5
<1>14. c.arrived + 1 \in S
  <2>1. c.arrived + 1 \in Nat BY <1>1
  <2> HIDE DEF S
  <2> QED BY <1>12, <1>13, <2>1, AllNumbers
<1>15. Good(c.arrived + 1) BY <1>1, <1>14
<1>16. Running(after[c.arrived + 1]) => rQlen(after[c.arrived + 1]) \in Nat BY Lengths DEF Running, Within
<1>17. Stopped(after[c.arrived + 1])
  <2> DEFINE l == rQlen(after[c.arrived + 1])
  <2>1. Running(after[c.arrived + 1]) => l \in Nat BY <1>16
  <2>2. Stopped(after[c.arrived + 1]) \/ (Running(after[c.arrived + 1]) /\ l + (c.arrived + 1) <= rQlen(c))
    BY <1>15
  <2> HIDE DEF l
  <2> QED BY <1>1, <1>11, <2>1, <2>2
<1> QED BY <1>9, <1>17 DEF Stopped

-----------------------------------------------------------------------------
(* TIGHT.                                                                  *)

LEMMA PushEnds ==
  ASSUME NEW c, Fit(c), c.rects # 0, NoParts(c), NEW d, NEW n \in Nat, Moved(c, d, n),
         At(stream, Here(c) + n, After(c.rects)), NEW complete
  PROVE  Resting(EndOfRect(renderQ_push(d, complete)))
<1> DEFINE e == renderQ_push(d, complete)
<1>1. Moved(d, e, 0) BY MovedFit, DrawMoves
<1> HIDE DEF e
<1>2. Moved(c, e, n + 0) /\ n + 0 = n BY <1>1, MovedOn
<1>3. Fit(e) /\ e.rects = c.rects /\ NoParts(e) /\ Here(e) = Here(c) + n BY <1>2 DEF Moved, NoParts
<1>4. Resting(EndOfRect(e)) BY <1>3, RectEnds
<1> QED BY <1>4 DEF e

\* A length of which a part is there asks for more than that.
LEMMA LengthOf ==
  ASSUME NEW c, Fit(c), NEW k \in Nat, k <= rQlen(c), NEW left, Packed(stream, Here(c) + k, left),
         NEW n, n = Sent[stream][Here(c) + k + 1].n, NEW v, v = Sent[stream][Here(c) + k + 1].v
  PROVE  /\ getTightCLength(c, k)[1] \in Nat /\ getTightCLength(c, k)[2] \in Nat
         /\ getTightCLength(c, k) = <<getTightCLength(c, k)[1], getTightCLength(c, k)[2]>>
         /\ \/ getTightCLength(c, k) = <<n, v>>
            \/ k + getTightCLength(c, k)[1] + getTightCLength(c, k)[2] > rQlen(c)
<1>1. rQlen(c) \in Nat /\ Here(c) \in Nat BY Lengths
<1>2. Peek(c, k + 1).n = n /\ Peek(c, k + 1).v = v
  <2>1. Peek(c, k + 1) = Sent[stream][Here(c) + k + 1] BY Says_
  <2> QED BY <2>1
<1>3. n \in 1 .. 3 /\ v \in Nat BY DEF Packed
<1> DEFINE seen == IF rQlen(c) - k < n THEN rQlen(c) - k ELSE n
           part == IF seen = 1 THEN 128 ELSE 16384
           l == getTightCLength(c, k)
<1>4. l = IF rQwait(c, k + 1) THEN <<1, 0>>
          ELSE IF seen = n THEN <<seen, v>> ELSE <<seen + 1, v % part>>
  BY <1>2 DEF getTightCLength
<1>5. v % part \in Nat
  <2>1. v % 128 \in Nat /\ v % 16384 \in Nat BY <1>3
  <2> QED BY <2>1
<1> DEFINE rest == v % part
<1>6. rest \in Nat BY <1>5
<1>7. seen \in Nat /\ seen <= n /\ (seen # n => seen = rQlen(c) - k) BY <1>1, <1>3
<1>8. rQwait(c, k + 1) => k + 1 + 0 > rQlen(c) BY <1>1 DEF rQwait
<1>9. seen # n => k + (seen + 1) + rest > rQlen(c) BY <1>1, <1>6, <1>7
<1> HIDE DEF seen, rest
<1>10. l = IF rQwait(c, k + 1) THEN <<1, 0>> ELSE IF seen = n THEN <<seen, v>> ELSE <<seen + 1, rest>>
  BY <1>4 DEF rest
<1> HIDE DEF l
<1>11. CASE rQwait(c, k + 1)
  <2>1. l = <<1, 0>> BY <1>10, <1>11
  <2> QED BY <1>8, <1>11, <2>1 DEF l
<1>12. CASE ~rQwait(c, k + 1) /\ seen = n
  <2>1. l = <<n, v>> BY <1>10, <1>12
  <2> QED BY <1>3, <2>1 DEF l
<1>13. CASE ~rQwait(c, k + 1) /\ seen # n
  <2>1. l = <<seen + 1, rest>> BY <1>10, <1>13
  <2> QED BY <1>6, <1>7, <1>9, <1>13, <2>1 DEF l
<1> QED BY <1>11, <1>12, <1>13

LEMMA HeadShifted ==
  ASSUME NEW c, Fit(c), NEW mode, NEW colours \in Nat, NEW k, k = TightHead(mode, colours), k <= rQlen(c),
         Holds(stream, Here(c), "ctl", 1),
         mode = "filter" => /\ Holds(stream, Here(c) + 1, "filter", 1)
                            /\ Holds(stream, Here(c) + 2, "ncolours", 1)
                            /\ Holds(stream, Here(c) + 3, "palette", colours * fb_depth)
  PROVE  Moved(c, ShiftHead(c, mode, colours), k)
<1> DEFINE ctl == rQshift(c, "ctl", 1)
           filter == rQshift(ctl, "filter", 1)
           number == rQshift(filter, "ncolours", 1)
           n == colours * fb_depth
           palette == rQshift(number, "palette", n)
<1>1. rQlen(c) \in Nat /\ fb_depth \in Nat BY Lengths
<1>2. ShiftHead(c, mode, colours) = IF mode # "filter" THEN ctl ELSE palette BY DEF ShiftHead
<1>3. n \in Nat BY <1>1
<1>4. k = IF mode = "filter" THEN 3 + n ELSE 1 BY DEF TightHead
<1> HIDE DEF n
<1>5. 1 <= rQlen(c) BY <1>1, <1>3, <1>4
<1>6. Moved(c, ctl, 1) BY <1>5, Shifted
<1> HIDE DEF ctl
<1>7. CASE mode # "filter" BY <1>2, <1>4, <1>6, <1>7
<1>8. CASE mode = "filter"
  <2>1. 3 + n <= rQlen(c) /\ 1 + 1 <= rQlen(c) /\ 2 + 1 <= rQlen(c) BY <1>1, <1>3, <1>4, <1>8
  <2>2. Moved(c, filter, 1 + 1) BY <1>6, <1>8, <2>1, ShiftedOn
  <2> HIDE DEF filter
  <2>3. Moved(c, filter, 2) BY <2>2
  <2>4. Moved(c, number, 2 + 1) BY <1>8, <2>1, <2>3, ShiftedOn
  <2> HIDE DEF number
  <2>5. Moved(c, number, 3) BY <2>4
  <2>6. Holds(stream, Here(c) + 3, "palette", n) BY <1>8 DEF n
  <2>7. Moved(c, palette, 3 + n) BY <1>3, <2>1, <2>5, <2>6, ShiftedOn
  <2> QED BY <1>2, <1>4, <1>8, <2>7
<1> QED BY <1>7, <1>8

LEMMA DataKept ==
  ASSUME NEW c, Within(c), c.rect.enc = "TIGHT", NEW mode, NEW colours, NEW k \in Nat \ {0},
         k = TightHead(mode, colours), NEW m \in Nat, NEW n \in Nat,
         NEW clength, clength = <<m, n>>,
         k + m + n <= rQlen(c) => /\ Moved(c, ShiftHead(c, mode, colours), k)
                                  /\ Holds(stream, Here(c) + k, "clength", m)
                                  /\ Holds(stream, Here(c) + k + m, "data", n)
                                  /\ At(stream, Here(c) + k + m + n, After(c.rects))
  PROVE  Resting(TightData(c, mode, colours, clength))
<1> DEFINE head == ShiftHead(c, mode, colours)
           length == rQshift(head, "clength", m)
           data == rQshift(length, "data", n)
<1>1. Fit(c) /\ c.rects # 0 /\ NoParts(c) /\ rQlen(c) \in Nat /\ Here(c) \in Nat
  BY Lengths DEF Within, Others, NoParts
<1>2. TightData(c, mode, colours, clength)
      = IF rQwait(c, k + m + n) THEN Needs(c, k + m + n) ELSE EndOfRect(renderQ_push(data, ~Image(mode)))
  BY DEF TightData
<1>3. k + m + n \in Nat \ {0} /\ k + m \in Nat OBVIOUS
<1>4. CASE rQwait(c, k + m + n) BY <1>2, <1>3, <1>4, NeedsMore
<1>5. CASE ~rQwait(c, k + m + n)
  <2>1. k + m + n <= rQlen(c) /\ k + m <= rQlen(c) BY <1>1, <1>5 DEF rQwait
  <2>2. /\ Moved(c, head, k) /\ Holds(stream, Here(c) + k, "clength", m)
        /\ Holds(stream, Here(c) + (k + m), "data", n) /\ At(stream, Here(c) + (k + m + n), After(c.rects))
    <3>1. Here(c) + k + m = Here(c) + (k + m) /\ Here(c) + k + m + n = Here(c) + (k + m + n) BY <1>1
    <3> QED BY <2>1, <3>1
  <2> HIDE DEF head
  <2>3. Moved(c, length, k + m) BY <1>1, <2>1, <2>2, ShiftedOn
  <2> HIDE DEF length
  <2>4. Moved(c, data, k + m + n) BY <1>1, <1>3, <2>1, <2>2, <2>3, ShiftedOn
  <2> HIDE DEF data
  <2> QED BY <1>1, <1>2, <1>3, <1>5, <2>2, <2>4, PushEnds
<1> QED BY <1>4, <1>5

\* Data with a length before them.
LEMMA PackedKept ==
  ASSUME NEW c, Within(c), c.rect.enc = "TIGHT", NEW mode, NEW colours, NEW k \in Nat \ {0},
         k = TightHead(mode, colours), k <= rQlen(c), Moved(c, ShiftHead(c, mode, colours), k),
         Packed(stream, Here(c) + k, c.rects)
  PROVE  Resting(TightData(c, mode, colours, getTightCLength(c, k)))
<1> DEFINE n == Sent[stream][Here(c) + k + 1].n
           v == Sent[stream][Here(c) + k + 1].v
           l == getTightCLength(c, k)
           l1 == l[1]
           l2 == l[2]
<1>1. Fit(c) /\ k \in Nat BY DEF Within
<1>2. /\ l1 \in Nat /\ l2 \in Nat /\ l = <<l1, l2>>
      /\ l = <<n, v>> \/ k + l1 + l2 > rQlen(c)
  <2> HIDE DEF n, v
  <2> QED BY <1>1, LengthOf DEF n, v
<1>3. /\ Holds(stream, Here(c) + k, "clength", n) /\ Holds(stream, Here(c) + k + n, "data", v)
      /\ At(stream, Here(c) + k + n + v, After(c.rects))
  BY DEF Packed
<1>4. l = <<n, v>> => l1 = n /\ l2 = v OBVIOUS
<1>5. rQlen(c) \in Nat BY <1>1, Lengths
<1> HIDE DEF n, v, l, l1, l2
<1>6. k + l1 + l2 <= rQlen(c) => l = <<n, v>> BY <1>2, <1>5
<1> QED BY <1>2, <1>3, <1>4, <1>6, DataKept DEF l

LEMMA RowIs ==
  ASSUME NEW r, r.w \in Nat \ {0}, NEW mode, NEW colours \in Nat, mode = "copy" <=> colours = 0
  PROVE  Row(r, mode, colours) = RowOf(r, colours)
<1>1. (r.w * 8 + 7) \div 8 = r.w /\ r.w * 1 = r.w
  <2> DEFINE w == r.w
  <2>1. w \in Nat OBVIOUS
  <2> HIDE DEF w
  <2>2. (w * 8 + 7) \div 8 = w /\ w * 1 = w BY <2>1
  <2> QED BY <2>2 DEF w
<1>2. CASE colours = 0 BY <1>2 DEF Row, RowOf
<1>3. CASE colours # 0
  <2>1. colours <= 2 => Row(r, mode, colours) = (r.w + 7) \div 8 BY <1>1, <1>3 DEF Row
  <2>2. ~(colours <= 2) => Row(r, mode, colours) = r.w BY <1>1, <1>3 DEF Row
  <2> QED BY <1>3, <2>1, <2>2 DEF RowOf
<1> QED BY <1>2, <1>3

\* The pixels after the control byte, or after the palette of a filter.
LEMMA PixelsKept ==
  ASSUME NEW c, Within(c), c.rect.enc = "TIGHT", NEW mode, NEW colours \in Nat, NEW k \in Nat \ {0},
         c.rect.w \in Nat \ {0}, c.rect.h \in Nat \ {0}, fb_depth \in Nat,
         mode = "copy" <=> colours = 0, mode \in {"copy", "filter"}, k = TightHead(mode, colours),
         k <= rQlen(c) => Moved(c, ShiftHead(c, mode, colours), k),
         PixelsAt(stream, Here(c) + k, c.rects, c.rect, colours)
  PROVE  Resting(TightPixels(c, mode, colours))
<1> DEFINE n == RowOf(c.rect, colours) * c.rect.h
<1>1. Fit(c) /\ rQlen(c) \in Nat /\ Here(c) \in Nat /\ Len(Sent[stream]) \in Nat
  BY Lengths DEF Within
<1>2. Row(c.rect, mode, colours) = RowOf(c.rect, colours) BY RowIs
<1>3. n \in Nat
  <2>1. RowOf(c.rect, colours) \in Nat
    <3> DEFINE w == c.rect.w
    <3>1. w \in Nat OBVIOUS
    <3> HIDE DEF w
    <3>2. w * fb_depth \in Nat /\ (w + 7) \div 8 \in Nat BY <3>1
    <3> QED BY <3>1, <3>2 DEF RowOf, w
  <2> HIDE DEF n
  <2> QED BY <2>1 DEF n
<1>4. Plain(c.rect, mode, colours) <=> n < 12 BY <1>2 DEF Plain
<1>5. TightPixels(c, mode, colours) =
        IF rQwait(c, k) THEN Needs(c, k)
        ELSE TightData(c, mode, colours, IF n < 12 THEN <<0, n>> ELSE getTightCLength(c, k))
  BY <1>2, <1>4 DEF TightPixels
<1>6. IF n < 12 THEN Holds(stream, Here(c) + k, "data", n) /\ At(stream, Here(c) + k + n, After(c.rects))
      ELSE Packed(stream, Here(c) + k, c.rects)
  BY DEF PixelsAt
<1> HIDE DEF n
<1>7. CASE rQwait(c, k) BY <1>5, <1>7, NeedsMore
<1>8. CASE ~rQwait(c, k) /\ n < 12
  <2>1. k <= rQlen(c) BY <1>1, <1>8 DEF rQwait
  <2>2. Here(c) + k + 0 = Here(c) + k BY <1>1
  <2>3. Holds(stream, Here(c) + k, "clength", 0)
    <3>1. Here(c) + k + n <= Len(Sent[stream]) BY <1>6, <1>8 DEF Holds
    <3>2. Here(c) + k + 0 <= Len(Sent[stream]) BY <1>1, <1>3, <3>1
    <3> QED BY <3>2 DEF Holds
  <2>4. Resting(TightData(c, mode, colours, <<0, n>>)) BY <1>3, <1>6, <1>8, <2>1, <2>2, <2>3, DataKept
  <2> QED BY <1>5, <1>8, <2>4
<1>9. CASE ~rQwait(c, k) /\ ~(n < 12)
  <2>1. k <= rQlen(c) BY <1>1, <1>9 DEF rQwait
  <2> QED BY <1>5, <1>6, <1>9, <2>1, PackedKept
<1> QED BY <1>7, <1>8, <1>9

LEMMA TightKept ==
  ASSUME NEW c, Begun(c), c.rect.enc = "TIGHT"
  PROVE  Resting(TIGHT(c))
<1> DEFINE mode == Says(stream, Here(c))
           colours == Says(stream, Here(c) + 2) + 1
<1>1. /\ Fit(c) /\ c.rects # 0 /\ NoParts(c) /\ stream \in DOMAIN Sent
      /\ rQlen(c) \in Nat /\ Here(c) \in Nat /\ fb_depth \in Nat \ {0} /\ fb_depth \in Nat
  BY Lengths DEF Begun, Others, Fit, NoParts
<1>2. /\ Left(c) = 0 /\ PartsOf(c.rect) = 0
      /\ At(stream, Here(c), Body(c.rects, c.rect, IF Left(c) = 0 THEN PartsOf(c.rect) ELSE Left(c)))
  BY DEF Left, PartsOf, Begun
<1>3. Within(c)
  <2>1. c.rect.enc \in Bodies \ {"COPYRECT"} /\ c.rect.enc # "RRE" BY DEF Bodies
  <2> QED BY <1>1, <1>2, <2>1 DEF Within, Begun
<1>4. BodyAt(stream, Here(c), c.rects, c.rect, 0) BY <1>1, <1>2, BodyLies
<1>5. c.rect.w \in Nat \ {0} /\ c.rect.h \in Nat \ {0} /\ TightAt(stream, Here(c), c.rects, c.rect)
  BY <1>4 DEF BodyAt
<1>6. /\ Holds(stream, Here(c), "ctl", 1)
      /\ mode \in {"fill", "jpeg", "png", "filter", "copy"}
      /\ mode = "fill" => /\ Holds(stream, Here(c) + 1, "tpixel", fb_depth)
                          /\ At(stream, Here(c) + 1 + fb_depth, After(c.rects))
      /\ mode \in {"jpeg", "png"} => Packed(stream, Here(c) + 1, c.rects)
      /\ mode = "filter" =>
           /\ Holds(stream, Here(c) + 1, "filter", 1) /\ Says(stream, Here(c) + 1) = 1
           /\ Holds(stream, Here(c) + 2, "ncolours", 1) /\ Says(stream, Here(c) + 2) \in Nat
           /\ Holds(stream, Here(c) + 3, "palette", colours * fb_depth)
           /\ PixelsAt(stream, Here(c) + 3 + colours * fb_depth, c.rects, c.rect, colours)
      /\ mode = "copy" => PixelsAt(stream, Here(c) + 1, c.rects, c.rect, 0)
  BY <1>5 DEF TightAt
<1>7. Peek(c, 1).v = mode /\ Peek(c, 3).v + 1 = colours /\ Next_(c, 0, "ctl", 1)
  <2>1. Here(c) + 0 = Here(c) /\ 0 + 1 = 1 /\ 2 + 1 = 3 BY <1>1
  <2> QED BY <1>1, <1>6, <2>1, Says_, IsNext
<1>8. TIGHT(c) = IF rQwait(c, 1) THEN Needs(c, 1) ELSE TightMode(c, mode) BY <1>7 DEF TIGHT
<1> HIDE DEF mode, colours
<1>9. TightFixed(mode) \in Nat \ {0} BY <1>1 DEF TightFixed
<1>10. CASE rQwait(c, 1)
  <2>1. 1 \in Nat \ {0} OBVIOUS
  <2>2. Resting(Needs(c, 1)) BY <1>3, <2>1, NeedsMore
  <2> QED BY <1>8, <1>10, <2>2
<1>11. CASE ~rQwait(c, 1) /\ rQwait(c, TightFixed(mode))
  <2>1. TIGHT(c) = Needs(c, TightFixed(mode)) BY <1>8, <1>11 DEF TightMode
  <2> QED BY <1>3, <1>9, <2>1, NeedsMore
<1>12. CASE ~rQwait(c, 1) /\ ~rQwait(c, TightFixed(mode))
  <2>1. CASE mode = "fill"
    <3> DEFINE ctl == rQshift(c, "ctl", 1)
               pixel == rQshift(ctl, "tpixel", fb_depth)
    <3>1. TIGHT(c) = EndOfRect(renderQ_push(pixel, TRUE)) BY <1>8, <1>12, <2>1 DEF TightMode
    <3>2. 1 + fb_depth <= rQlen(c) /\ 1 <= rQlen(c) BY <1>1, <1>12, <2>1 DEF TightFixed, rQwait
    <3>3. Moved(c, ctl, 1) BY <1>1, <1>6, <3>2, Shifted
    <3> HIDE DEF ctl
    <3>4. Moved(c, pixel, 1 + fb_depth) BY <1>1, <1>6, <2>1, <3>2, <3>3, ShiftedOn
    <3> HIDE DEF pixel
    <3>5. At(stream, Here(c) + (1 + fb_depth), After(c.rects))
      <4>1. Here(c) + 1 + fb_depth = Here(c) + (1 + fb_depth) BY <1>1
      <4> QED BY <1>6, <2>1, <4>1
    <3>6. 1 + fb_depth \in Nat BY <1>1
    <3> QED BY <1>1, <3>1, <3>4, <3>5, <3>6, PushEnds
  <2>2. CASE mode \in {"jpeg", "png"}
    <3>1. TightHead(mode, 0) = 1 BY <2>2 DEF TightHead
    <3>2. ~Plain(c.rect, mode, 0) BY <2>2 DEF Plain
    <3>3. TIGHT(c) = TightPixels(c, mode, 0) BY <1>8, <1>12, <2>2 DEF TightMode
    <3>4. TightPixels(c, mode, 0) = TightData(c, mode, 0, getTightCLength(c, 1))
      BY <1>12, <3>1, <3>2 DEF TightPixels
    <3>5. 1 <= rQlen(c) BY <1>1, <1>12 DEF rQwait
    <3>6. Moved(c, ShiftHead(c, mode, 0), 1) BY <1>1, <1>6, <2>2, <3>1, <3>5, HeadShifted
    <3>7. Packed(stream, Here(c) + 1, c.rects) /\ 1 \in Nat \ {0} BY <1>6, <2>2
    <3>8. Resting(TightData(c, mode, 0, getTightCLength(c, 1))) BY <1>3, <3>1, <3>5, <3>6, <3>7, PackedKept
    <3> QED BY <3>3, <3>4, <3>8
  <2>3. CASE mode = "filter"
    <3> DEFINE k == TightHead(mode, colours)
    <3>1. colours \in Nat /\ colours # 0 BY <1>6, <2>3 DEF colours
    <3>2. k = 3 + colours * fb_depth /\ k \in Nat \ {0}
      <4>1. colours * fb_depth \in Nat BY <1>1, <3>1
      <4> QED BY <2>3, <4>1 DEF TightHead
    <3>3. Here(c) + 3 + colours * fb_depth = Here(c) + k
      <4>1. colours * fb_depth \in Nat BY <1>1, <3>1
      <4> QED BY <1>1, <3>2, <4>1
    <3> HIDE DEF k
    <3> Peek(c, 2).v = 1
      <4>1. Here(c) + 1 + 0 = Here(c) + 1 /\ 1 + 1 = 2 BY <1>1
      <4> QED BY <1>1, <1>6, <2>3, <4>1, Says_
    <3>4. TIGHT(c) = TightPixels(c, mode, colours) BY <1>7, <1>8, <1>12, <2>3 DEF TightMode
    <3>5. k = TightHead(mode, colours) BY DEF k
    <3>6. k <= rQlen(c) => Moved(c, ShiftHead(c, mode, colours), k)
      BY <1>1, <1>6, <2>3, <3>1, <3>5, HeadShifted
    <3>7. PixelsAt(stream, Here(c) + k, c.rects, c.rect, colours) BY <1>6, <2>3, <3>3
    <3> QED BY <1>1, <1>3, <1>5, <2>3, <3>1, <3>2, <3>4, <3>5, <3>6, <3>7, PixelsKept
  <2>4. CASE mode = "copy"
    <3>1. TightHead(mode, 0) = 1 BY <2>4 DEF TightHead
    <3>2. TIGHT(c) = TightPixels(c, mode, 0) BY <1>8, <1>12, <2>4 DEF TightMode
    <3>3. 1 <= rQlen(c) => Moved(c, ShiftHead(c, mode, 0), 1) BY <1>1, <1>6, <2>4, <3>1, HeadShifted
    <3>4. PixelsAt(stream, Here(c) + 1, c.rects, c.rect, 0) /\ 1 \in Nat \ {0} /\ 0 \in Nat
      BY <1>6, <2>4
    <3>5. Resting(TightPixels(c, mode, 0)) BY <1>1, <1>3, <1>5, <2>4, <3>1, <3>3, <3>4, PixelsKept
    <3> QED BY <3>2, <3>5
  <2> QED BY <1>6, <2>1, <2>2, <2>3, <2>4
<1> QED BY <1>10, <1>11, <1>12

-----------------------------------------------------------------------------
(* The other encodings, and whichever comes.                               *)

LEMMA CursorKept ==
  ASSUME NEW c, Begun(c), c.rect.enc = "Cursor"
  PROVE  Resting(Cursor(c))
<1> DEFINE m == CursorPixels(c.rect)
           n == CursorMask(c.rect)
           d == rQshift(c, "cursor", m)
           e == rQshift(d, "mask", n)
<1>1. /\ Fit(c) /\ c.rects # 0 /\ NoParts(c) /\ stream \in DOMAIN Sent
      /\ rQlen(c) \in Nat /\ Here(c) \in Nat /\ fb_Bpp \in Nat \ {0}
  BY Lengths DEF Begun, Others, Fit, NoParts
<1>2. /\ Left(c) = 0 /\ PartsOf(c.rect) = 0
      /\ At(stream, Here(c), Body(c.rects, c.rect, IF Left(c) = 0 THEN PartsOf(c.rect) ELSE Left(c)))
  BY DEF Left, PartsOf, Begun
<1>3. Within(c)
  <2>1. c.rect.enc \in Bodies \ {"COPYRECT"} /\ c.rect.enc # "RRE" BY DEF Bodies
  <2> QED BY <1>1, <1>2, <2>1 DEF Within, Begun
<1>4. BodyAt(stream, Here(c), c.rects, c.rect, 0) BY <1>1, <1>2, BodyLies
<1>5. c.rect.w \in Nat \ {0} /\ c.rect.h \in Nat \ {0} /\ CursorAt(stream, Here(c), c.rects, c.rect)
  BY <1>4 DEF BodyAt
<1>6. /\ Holds(stream, Here(c), "cursor", m) /\ Holds(stream, Here(c) + m, "mask", n)
      /\ At(stream, Here(c) + m + n, After(c.rects))
  BY <1>5 DEF CursorAt, CursorPixels, CursorMask
<1>7. m \in Nat \ {0} /\ n \in Nat
  <2> DEFINE w == c.rect.w
             h == c.rect.h
  <2>1. w \in Nat \ {0} /\ h \in Nat \ {0} BY <1>5
  <2>2. m = w * h * fb_Bpp /\ n = ((w + 7) \div 8) * h BY DEF CursorPixels, CursorMask
  <2> HIDE DEF w, h
  <2>3. w * h \in Nat \ {0} /\ (w + 7) \div 8 \in Nat BY <2>1
  <2>4. (w * h) * fb_Bpp \in Nat \ {0} /\ ((w + 7) \div 8) * h \in Nat
    <3> DEFINE area == w * h
               bytes == (w + 7) \div 8
    <3>1. area \in Nat \ {0} /\ bytes \in Nat BY <2>3
    <3> HIDE DEF area, bytes
    <3>2. area * fb_Bpp \in Nat \ {0} /\ bytes * h \in Nat BY <1>1, <2>1, <3>1
    <3> QED BY <3>2 DEF area, bytes
  <2> QED BY <2>2, <2>4
<1>8. Cursor(c) = IF rQwait(c, m + n) THEN Needs(c, m + n) ELSE EndOfRect(e) BY DEF Cursor
<1> HIDE DEF m, n
<1>9. m + n \in Nat \ {0} /\ m \in Nat BY <1>7
<1>10. CASE rQwait(c, m + n) BY <1>3, <1>8, <1>9, <1>10, NeedsMore
<1>11. CASE ~rQwait(c, m + n)
  <2>1. m + n <= rQlen(c) /\ m <= rQlen(c) BY <1>1, <1>7, <1>11 DEF rQwait
  <2>2. Moved(c, d, m) BY <1>1, <1>6, <1>9, <2>1, Shifted
  <2> HIDE DEF d
  <2>3. Moved(c, e, m + n) BY <1>1, <1>6, <1>7, <1>9, <2>1, <2>2, ShiftedOn
  <2> HIDE DEF e
  <2>4. Here(c) + m + n = Here(c) + (m + n) BY <1>1, <1>7
  <2>5. Fit(e) /\ e.rects = c.rects /\ NoParts(e) /\ Here(e) = Here(c) + (m + n)
    BY <1>1, <2>3 DEF Moved, NoParts
  <2> QED BY <1>1, <1>6, <1>8, <1>11, <2>4, <2>5, RectEnds
<1> QED BY <1>10, <1>11

LEMMA HandlerKept ==
  ASSUME NEW c, Begun(c)
  PROVE  Sound(Handler(c))
<1>1. c.rect.enc \in {"RAW", "COPYRECT", "RRE", "HEXTILE", "TIGHT", "Cursor"} /\ ~c.lost
  BY DEF Begun, Bodies, Fit
<1>2. CASE c.rect.enc = "RAW"
  <2>1. Handler(c) = RAW(c) BY <1>1, <1>2 DEF Handler
  <2> QED BY <1>2, <2>1, RawKept DEF Sound
<1>3. CASE c.rect.enc = "COPYRECT"
  <2>1. Handler(c) = COPYRECT(c) BY <1>1, <1>3 DEF Handler
  <2> QED BY <1>3, <2>1, CopyKept
<1>4. CASE c.rect.enc = "RRE"
  <2>1. Handler(c) = RRE(c) BY <1>1, <1>4 DEF Handler
  <2> QED BY <1>4, <2>1, RreKept
<1>5. CASE c.rect.enc = "HEXTILE"
  <2>1. Handler(c) = HEXTILE(c) BY <1>1, <1>5 DEF Handler
  <2> QED BY <1>5, <2>1, HextileKept DEF Sound
<1>6. CASE c.rect.enc = "TIGHT"
  <2>1. Handler(c) = TIGHT(c) BY <1>1, <1>6 DEF Handler
  <2> QED BY <1>6, <2>1, TightKept DEF Sound
<1>7. CASE c.rect.enc = "Cursor"
  <2>1. Handler(c) = Cursor(c) BY <1>1, <1>7 DEF Handler
  <2> QED BY <1>7, <2>1, CursorKept DEF Sound
<1> QED BY <1>1, <1>2, <1>3, <1>4, <1>5, <1>6, <1>7

-----------------------------------------------------------------------------
(* The loop of framebufferUpdate.                                          *)

\* The header of a rectangle comes before its body or is all of it.
LEMMA HeaderKept ==
  ASSUME NEW c, Resting(c), Fit(c), c.ret, c.rects # 0, c.bytes = 0, ~rQwait(c, 12)
  PROVE  Sound(Handler(RectHeader(c)))
<1> DEFINE r == Says(stream, Here(c))
           d == rQshift(c, "rect", 12)
           no == IF Drawn(r) THEN d.no + 1 ELSE d.no
           e == [d EXCEPT !.rect = r, !.no = no]
<1>1. /\ rQlen(c) \in Nat /\ Here(c) \in Nat /\ stream \in DOMAIN Sent /\ 12 <= rQlen(c)
  BY Lengths DEF Fit, rQwait
<1>2. NoParts(c) /\ At(stream, Here(c), Rectangle(c.rects)) BY DEF Resting
<1>3. RectangleAt(stream, Here(c), c.rects) BY <1>1, <1>2, RectangleLies
<1>4. /\ Holds(stream, Here(c), "rect", 12)
      /\ r.enc \in Bodies \cup {"DesktopSize", "last_rect"}
      /\ r.enc = "last_rect" => At(stream, Here(c) + 12, Message)
      /\ r.enc = "DesktopSize" => At(stream, Here(c) + 12, After(c.rects))
      /\ r.enc \in Bodies => At(stream, Here(c) + 12, Body(c.rects, r, PartsOf(r)))
  BY <1>3 DEF RectangleAt
<1>5. Peek(c, 1).v = r /\ Next_(c, 0, "rect", 12)
  <2>1. Here(c) + 0 = Here(c) /\ 0 + 1 = 1 BY <1>1
  <2> QED BY <1>1, <1>4, <2>1, Says_, IsNext
<1> HIDE DEF r
<1>6. RectHeader(c) = e BY <1>5 DEF RectHeader, ReadRect
<1>7. Moved(c, d, 12) BY <1>1, <1>4, Shifted
<1> HIDE DEF d, no
<1>8. /\ Fit(d) /\ DOMAIN d = ClientFields /\ Here(d) = Here(c) + 12 /\ d.rects = c.rects /\ d.ret
      /\ NoParts(d) /\ d.bytes = 0
  BY <1>2, <1>7 DEF Moved, Fit, NoParts
<1>9. /\ DOMAIN e = ClientFields /\ e.rect = r /\ e.lost = d.lost /\ e.bytes = d.bytes
      /\ e.dropped = d.dropped /\ e.rQi = d.rQi /\ e.arrived = d.arrived /\ e.rects = d.rects
      /\ e.lines = d.lines /\ e.subrects = d.subrects /\ e.tiles = d.tiles /\ e.ret = d.ret
  BY <1>8 DEF ClientFields
<1> HIDE DEF e
<1>10. Fit(e) /\ Here(e) = Here(c) + 12 /\ NoParts(e) /\ e.rects = c.rects /\ e.ret /\ ~e.lost
  <2>1. Here(e) = Here(d) BY <1>9 DEF Here
  <2> QED BY <1>8, <1>9, <2>1 DEF Fit, Counts, NoParts
<1>11. CASE r.enc \in Bodies
  <2>1. Others(e) /\ Left(e) = 0 BY <1>10 DEF Others, Left, NoParts
  <2>2. Begun(e) BY <1>4, <1>9, <1>10, <1>11, <2>1 DEF Begun
  <2> QED BY <1>6, <2>2, HandlerKept
<1>12. CASE r.enc = "DesktopSize"
  <2>1. Handler(e) = EndOfRect(e) BY <1>9, <1>10, <1>12 DEF Handler, DesktopSize
  <2> QED BY <1>4, <1>6, <1>10, <1>12, <2>1, RectEnds DEF Sound
<1>13. CASE r.enc = "last_rect"
  <2> DEFINE g == Handler(e)
  <2>1. g = Done([e EXCEPT !.rects = 0]) BY <1>9, <1>10, <1>13 DEF Handler, last_rect
  <2>2. /\ DOMAIN g = ClientFields /\ g.rects = 0 /\ g.lost = e.lost
        /\ g.dropped = e.dropped /\ g.rQi = e.rQi /\ g.arrived = e.arrived
        /\ g.lines = e.lines /\ g.subrects = e.subrects /\ g.tiles = e.tiles
    BY <1>9, <2>1 DEF Done, ClientFields
  <2> HIDE DEF g
  <2>3. Here(g) = Here(e) /\ NoParts(g) BY <1>10, <2>2 DEF Here, NoParts
  <2>4. Counts(g) BY <1>10, <2>2, <2>3 DEF Fit, Counts
  <2>5. Resting(g) BY <1>4, <1>10, <1>13, <2>2, <2>3, <2>4 DEF Resting
  <2> QED BY <1>6, <2>5 DEF Sound, g
<1> QED BY <1>4, <1>11, <1>12, <1>13

\* Whatever the queue rests on, the answer does not matter to it.
LEMMA Answered ==
  ASSUME NEW c, Resting(c), NEW d, Alike(c, d), d.bytes = c.bytes
  PROVE  Resting(d)
<1>1. Here(d) = Here(c) /\ Left(d) = Left(c) /\ (Others(d) <=> Others(c)) /\ (NoParts(d) <=> NoParts(c))
  BY DEF Alike, Here, Left, Others, NoParts
<1>2. Counts(d) BY <1>1 DEF Resting, Counts, Alike
<1> QED BY <1>1, <1>2 DEF Alike, Resting

LEMMA TurnKept ==
  ASSUME NEW c, Shape(c), Sound(c), stream \in DOMAIN Sent
  PROVE  Sound(Turn(c))
<1>1. CASE c.torn
  <2>1. Turn(c).torn BY <1>1, TurnKeeps DEF Keeps
  <2> QED BY <2>1 DEF Sound
<1>2. CASE ~c.torn
  <2>1. Resting(c) /\ Fit(c) BY <1>2 DEF Sound, Resting, Fit, Shape
  <2>2. CASE c.lost \/ ~c.ret \/ c.rects = 0 BY <2>2 DEF Turn
  <2>3. CASE ~(c.lost \/ ~c.ret \/ c.rects = 0) /\ (rQwait(c, c.bytes) \/ (c.bytes = 0 /\ rQwait(c, 12)))
    <3>1. Turn(c) = MoreData(c) BY <2>3 DEF Turn
    <3>2. Alike(c, MoreData(c)) /\ MoreData(c).bytes = c.bytes
      BY <2>1 DEF Fit, MoreData, Alike, ClientFields
    <3> QED BY <2>1, <3>1, <3>2, Answered DEF Sound
  <2>4. CASE ~(c.lost \/ ~c.ret \/ c.rects = 0) /\ ~rQwait(c, c.bytes) /\ c.bytes = 0 /\ ~rQwait(c, 12)
    <3>1. Turn(c) = Handler(RectHeader(c)) BY <2>4 DEF Turn
    <3> QED BY <2>1, <2>4, <3>1, HeaderKept
  <2>5. CASE ~(c.lost \/ ~c.ret \/ c.rects = 0) /\ ~rQwait(c, c.bytes) /\ c.bytes # 0
    <3>1. Turn(c) = Handler(c) BY <2>5 DEF Turn
    <3>2. /\ Others(c) /\ c.rect.enc \in Bodies \ {"COPYRECT"} /\ (c.rect.enc = "RRE" => c.subrects # 0)
          /\ At(stream, Here(c), Body(c.rects, c.rect, Left(c)))
      BY <2>1, <2>5 DEF Resting
    <3>3. BodyAt(stream, Here(c), c.rects, c.rect, Left(c)) BY <3>2, BodyLies
    <3>4. Left(c) = 0 => PartsOf(c.rect) = 0
      <4>1. Left(c) = 0 => c.rect.enc \in {"TIGHT", "Cursor"} BY <3>2, <3>3 DEF BodyAt, Bodies, Left
      <4> QED BY <4>1 DEF PartsOf
    <3>5. (IF Left(c) = 0 THEN PartsOf(c.rect) ELSE Left(c)) = Left(c) BY <3>4
    <3>6. Begun(c) BY <2>1, <2>5, <3>2, <3>5 DEF Begun
    <3> QED BY <3>1, <3>6, HandlerKept
  <2> QED BY <2>2, <2>3, <2>4, <2>5, <2>1 DEF Sound
<1> QED BY <1>1, <1>2

LEMMA RectsKept ==
  ASSUME NEW c, Shape(c), Sound(c), stream \in DOMAIN Sent
  PROVE  Sound(Rects(c))
<1>1. DOMAIN c = ClientFields /\ c.arrived \in Nat BY DEF Shape
<1>2. PICK turns \in Nat : \E f :
        Rects(c) = f[turns] /\ f[0] = Done(c) /\ \A i \in 1 .. turns : f[i] = Turn(f[i - 1])
  BY <1>1, RectsTurns
<1>3. PICK f : Rects(c) = f[turns] /\ f[0] = Done(c) /\ \A i \in 1 .. turns : f[i] = Turn(f[i - 1])
  BY <1>2
<1> DEFINE S == {i \in Nat : i <= turns => Shape(f[i]) /\ Sound(f[i])}
<1>4. Shape(Done(c)) BY EndKeeps, KeepsShape
<1>5. Sound(Done(c))
  <2>1. Alike(c, Done(c)) /\ Done(c).bytes = c.bytes /\ Done(c).torn = c.torn
    BY <1>1 DEF Done, Alike, ClientFields
  <2> QED BY <2>1, Answered DEF Sound
<1>6. 0 \in S BY <1>3, <1>4, <1>5
<1>7. ASSUME NEW i \in Nat, i \in S PROVE i + 1 \in S
  <2> SUFFICES ASSUME i + 1 <= turns PROVE Shape(f[i + 1]) /\ Sound(f[i + 1]) OBVIOUS
  <2>1. Shape(f[i]) /\ Sound(f[i]) BY <1>7
  <2>2. i + 1 \in 1 .. turns /\ (i + 1) - 1 = i OBVIOUS
  <2>3. f[i + 1] = Turn(f[i]) BY <1>3, <2>2
  <2> QED BY <2>1, <2>3, TurnKeeps, TurnKept, KeepsShape
<1>8. turns \in S
  <2> HIDE DEF S
  <2> QED BY <1>6, <1>7, AllNumbers
<1> QED BY <1>3, <1>8

-----------------------------------------------------------------------------
(* The messages.                                                           *)

\* Before a message: no rectangle is left.
Between(c) == Fit(c) /\ c.rects = 0 /\ NoParts(c) /\ At(stream, Here(c), Message)

LEMMA MessageEnds ==
  ASSUME NEW c, Between(c)
  PROVE  Resting(c) /\ Resting(Done(c)) /\ Resting(MoreData(c))
<1>1. DOMAIN c = ClientFields BY DEF Between, Fit
<1>2. Resting(c) BY DEF Between, Fit, Resting
<1>3. /\ Alike(c, Done(c)) /\ Done(c).bytes = c.bytes
      /\ Alike(c, MoreData(c)) /\ MoreData(c).bytes = c.bytes
  BY <1>1 DEF Done, MoreData, Alike, ClientFields
<1> QED BY <1>2, <1>3, Answered

\* n bytes are put back.
LEMMA PutBack ==
  ASSUME NEW c, Between(c), NEW n \in Nat, NEW d, Moved(c, d, n)
  PROVE  Resting(MoreData(rQback(d, n)))
<1> DEFINE e == rQback(d, n)
<1>1. /\ DOMAIN d = ClientFields /\ Fit(d) /\ d.dropped = c.dropped /\ Here(d) = Here(c) + n
      /\ d.rects = 0 /\ NoParts(d)
  BY DEF Moved, Fit, Between, NoParts
<1>2. d.rQi = c.rQi + n
  <2>1. c.dropped \in Nat /\ c.rQi \in Nat /\ d.rQi \in Nat BY <1>1 DEF Between, Fit, Counts
  <2>2. c.dropped + d.rQi = c.dropped + c.rQi + n BY <1>1 DEF Here
  <2> QED BY <2>1, <2>2
<1>3. /\ DOMAIN e = ClientFields /\ e.rQi = d.rQi - n /\ e.dropped = d.dropped /\ e.lost = d.lost
      /\ e.arrived = d.arrived /\ e.rects = d.rects /\ e.lines = d.lines /\ e.subrects = d.subrects
      /\ e.tiles = d.tiles
  BY <1>1 DEF rQback, ClientFields
<1> HIDE DEF e
<1>4. e.rQi = c.rQi /\ Here(e) = Here(c) BY <1>1, <1>2, <1>3 DEF Here, Between, Fit, Counts
<1>5. Counts(e) /\ NoParts(e)
  <2>1. Here(c) <= Here(d) BY <1>1 DEF Between, Fit, Counts, Here
  <2>2. Here(c) \in Nat /\ Here(d) \in Nat /\ d.arrived \in Nat /\ Here(d) <= d.arrived
    BY <1>1 DEF Between, Fit, Counts, Here
  <2>3. Here(e) <= e.arrived BY <1>3, <1>4, <2>1, <2>2
  <2> QED BY <1>1, <1>3, <1>4, <2>3 DEF Fit, Between, Counts, NoParts
<1>6. Between(e) BY <1>1, <1>3, <1>4, <1>5 DEF Between, Fit
<1>7. Resting(MoreData(e)) BY <1>6, MessageEnds
<1> QED BY <1>7 DEF e

\* The end of a message of n bytes.
LEMMA MessageRead ==
  ASSUME NEW c, Between(c), NEW n \in Nat, NEW d, Moved(c, d, n), At(stream, Here(c) + n, Message)
  PROVE  Resting(Done(d))
<1>1. Between(d) BY DEF Moved, Between, NoParts
<1> QED BY <1>1, MessageEnds

LEMMA UpdateKept ==
  ASSUME NEW c, Shape(c), Between(c), NEW d, d = rQshift(c, "type", 1), Shape(d), Moved(c, d, 1),
         Says(stream, Here(c)) = "update", MessageAt(stream, Here(c))
  PROVE  Sound(framebufferUpdate(d))
<1> DEFINE back == rQback(d, 1)
           padding == rQshift(d, "padding", 1)
           number == rQshift(padding, "rects", 2)
           n == Says(stream, Here(c) + 2)
           e == [number EXCEPT !.rects = n, !.bytes = 0]
           f == [number EXCEPT !.rects = n]
           g == [f EXCEPT !.bytes = 0]
<1>1. /\ Fit(c) /\ Fit(d) /\ d.rects = 0 /\ NoParts(d) /\ Here(d) = Here(c) + 1
      /\ rQlen(d) \in Nat /\ Here(c) \in Nat /\ Here(d) \in Nat /\ stream \in DOMAIN Sent
  BY Lengths DEF Between, Moved, NoParts, Fit
<1>2. /\ Holds(stream, Here(c) + 1, "padding", 1) /\ Holds(stream, Here(c) + 2, "rects", 2) /\ n \in Nat
      /\ At(stream, Here(c) + 4, After(n + 1))
  BY DEF MessageAt
<1>3. /\ Holds(stream, Here(d), "padding", 1) /\ Holds(stream, Here(d) + 1, "rects", 2)
      /\ At(stream, Here(d) + 3, After(n + 1))
  <2>1. Here(d) = Here(c) + 1 /\ Here(d) + 1 = Here(c) + 2 /\ Here(d) + 3 = Here(c) + 4 BY <1>1
  <2> QED BY <1>2, <2>1
<1>4. Peek(d, 2).v = n /\ Next_(d, 1, "rects", 2)
  <2>1. 1 + 1 = 2 /\ Here(d) + 1 = Here(c) + 2 BY <1>1
  <2> QED BY <1>1, <1>3, <2>1, Says_, IsNext
<1> HIDE DEF n
<1>5. framebufferUpdate(d) = IF rQwait(d, 3) THEN MoreData(back) ELSE Rects(e)
  <2>1. d.rects = 0 BY <1>1
  <2>2. e = UpdateHeader(d) BY <1>4, <2>1 DEF UpdateHeader
  <2> HIDE DEF e
  <2> QED BY <1>4, <2>1, <2>2 DEF framebufferUpdate
<1>6. CASE rQwait(d, 3) BY <1>5, <1>6, PutBack DEF Sound
<1>7. CASE ~rQwait(d, 3)
  <2>1. 3 <= rQlen(d) /\ 1 <= rQlen(d) /\ 1 + 2 <= rQlen(d) BY <1>1, <1>7 DEF rQwait
  <2>2. Moved(d, padding, 1) /\ Shape(padding) BY <1>1, <1>3, <2>1, Shifted, ShiftKeeps, KeepsShape
  <2> HIDE DEF padding
  <2>3. Moved(d, number, 1 + 2) /\ Shape(number)
    BY <1>1, <1>3, <2>1, <2>2, ShiftedOn, ShiftKeeps, KeepsShape
  <2>4. e = g OBVIOUS
  <2> HIDE DEF number
  <2>5. /\ Fit(number) /\ DOMAIN number = ClientFields /\ Here(number) = Here(d) + 3 /\ NoParts(number)
    BY <1>1, <2>3 DEF Moved, Fit, NoParts
  <2>6. Shape(f) BY <2>3, FieldKeeps, KeepsShape
  <2>7. /\ DOMAIN e = ClientFields /\ e.rects = n /\ e.lost = number.lost /\ e.bytes = 0
        /\ e.dropped = number.dropped /\ e.rQi = number.rQi /\ e.arrived = number.arrived
        /\ e.lines = number.lines /\ e.subrects = number.subrects /\ e.tiles = number.tiles
    BY <2>5 DEF ClientFields
  <2> HIDE DEF f
  <2>8. Shape(e) BY <2>4, <2>6, FieldKeeps, KeepsShape
  <2> HIDE DEF e, g
  <2>9. Here(e) = Here(d) + 3 /\ NoParts(e) BY <2>5, <2>7 DEF Here, NoParts
  <2>10. Counts(e)
    <3>1. Here(e) = Here(number) BY <2>7 DEF Here
    <3> QED BY <1>2, <2>5, <2>7, <3>1 DEF Fit, Counts
  <2>11. e.rects = 0 => After(n + 1) = Message BY <1>2, <2>7 DEF After
  <2>12. e.rects # 0 => After(n + 1) = Rectangle(e.rects)
    <3>1. n # 0 => ~(n + 1 <= 1) BY <1>2
    <3>2. n # 0 => After(n + 1) = Rectangle((n + 1) - 1) BY <3>1 DEF After
    <3>3. (n + 1) - 1 = n BY <1>2
    <3> QED BY <2>7, <3>2, <3>3
  <2>13. Resting(e) BY <1>3, <2>5, <2>7, <2>9, <2>10, <2>11, <2>12 DEF Resting, Fit
  <2>14. Sound(Rects(e)) BY <1>1, <2>8, <2>13, RectsKept DEF Sound
  <2> QED BY <1>5, <1>7, <2>14
<1> QED BY <1>6, <1>7

LEMMA ColoursKept ==
  ASSUME NEW c, Between(c), NEW d, Moved(c, d, 1),
         Says(stream, Here(c)) = "colours", MessageAt(stream, Here(c))
  PROVE  Sound(SetColourMapEntries(d))
<1> DEFINE padding == rQshift(d, "padding", 1)
           first == rQshift(padding, "first", 2)
           count == rQshift(first, "count", 2)
           n == Says(stream, Here(c) + 4)
           torn == [d EXCEPT !.torn = TRUE, !.lost = TRUE]
<1>1. /\ Fit(c) /\ Fit(d) /\ Here(d) = Here(c) + 1 /\ DOMAIN d = ClientFields
      /\ rQlen(c) \in Nat /\ rQlen(d) = rQlen(c) - 1 /\ rQlen(d) \in Nat /\ Here(c) \in Nat
  BY Lengths DEF Between, Moved, Fit
<1>2. /\ Holds(stream, Here(c) + 1, "padding", 1) /\ Holds(stream, Here(c) + 2, "first", 2)
      /\ Holds(stream, Here(c) + 4, "count", 2) /\ n \in Nat
      /\ Holds(stream, Here(c) + 6, "colour", 6 * n) /\ At(stream, Here(c) + 6 + 6 * n, Message)
  BY DEF MessageAt
<1>3. Peek(d, 4).v = n
  <2>1. 3 + 1 = 4 /\ Here(d) + 3 = Here(c) + 4 BY <1>1
  <2> QED BY <1>1, <2>1, Says_
<1> HIDE DEF n
<1>4. SetColourMapEntries(d) = IF rQwait(d, 5) THEN torn ELSE Entries(count, n)
  BY <1>3 DEF SetColourMapEntries
<1>5. CASE rQwait(d, 5)
  <2>1. torn.torn BY <1>1 DEF ClientFields
  <2> QED BY <1>4, <1>5, <2>1 DEF Sound
<1>6. CASE ~rQwait(d, 5)
  <2> DEFINE colour == rQshift(count, "colour", n * 6)
  <2>1. 1 + 1 <= rQlen(c) /\ 2 + 2 <= rQlen(c) /\ 4 + 2 <= rQlen(c) /\ n * 6 \in Nat
    BY <1>1, <1>2, <1>6 DEF rQwait
  <2>2. Moved(c, padding, 1 + 1) BY <1>1, <1>2, <2>1, ShiftedOn
  <2> HIDE DEF padding
  <2>3. Moved(c, padding, 2) BY <2>2
  <2>4. Moved(c, first, 2 + 2) BY <1>1, <1>2, <2>1, <2>3, ShiftedOn
  <2> HIDE DEF first
  <2>5. Moved(c, first, 4) BY <2>4
  <2>6. Moved(c, count, 4 + 2) BY <1>1, <1>2, <2>1, <2>5, ShiftedOn
  <2> HIDE DEF count
  <2>7. Moved(c, count, 6) BY <2>6
  <2>8. Entries(count, n) = IF rQwait(count, n * 6) THEN MoreData(rQback(count, 6)) ELSE Done(colour)
    BY DEF Entries
  <2>9. CASE rQwait(count, n * 6) BY <1>4, <1>6, <2>7, <2>8, <2>9, PutBack DEF Sound
  <2>10. CASE ~rQwait(count, n * 6)
    <3>1. rQlen(count) = rQlen(c) - 6 BY <2>7 DEF Moved
    <3> DEFINE m == n * 6
    <3>2. m \in Nat /\ 6 * n = m BY <1>2, <2>1
    <3>3. Holds(stream, Here(c) + 6, "colour", m) /\ At(stream, Here(c) + 6 + m, Message)
      BY <1>2, <3>2
    <3>4. ~rQwait(count, m) BY <2>10
    <3>5. colour = rQshift(count, "colour", m) OBVIOUS
    <3> HIDE DEF m, colour
    <3>6. 6 + m <= rQlen(c) BY <1>1, <3>1, <3>2, <3>4 DEF rQwait
    <3>7. Moved(c, colour, 6 + m) BY <1>1, <2>7, <3>2, <3>3, <3>5, <3>6, ShiftedOn
    <3>8. Here(c) + 6 + m = Here(c) + (6 + m) /\ 6 + m \in Nat BY <1>1, <3>2
    <3>9. Resting(Done(colour)) BY <3>3, <3>7, <3>8, MessageRead
    <3> QED BY <1>4, <1>6, <2>8, <2>10, <3>9 DEF Sound
  <2> QED BY <2>9, <2>10
<1> QED BY <1>5, <1>6

LEMMA TextKept ==
  ASSUME NEW c, Between(c), NEW d, Moved(c, d, 1),
         Says(stream, Here(c)) = "text", MessageAt(stream, Here(c))
  PROVE  Sound(ServerCutText(d))
<1> DEFINE padding == rQshift(d, "padding", 3)
           length == rQshift(padding, "length", 4)
           n == Says(stream, Here(c) + 4)
<1>1. /\ Fit(c) /\ Fit(d) /\ Here(d) = Here(c) + 1 /\ DOMAIN d = ClientFields
      /\ rQlen(c) \in Nat /\ rQlen(d) = rQlen(c) - 1 /\ rQlen(d) \in Nat /\ Here(c) \in Nat
  BY Lengths DEF Between, Moved, Fit
<1>2. /\ Holds(stream, Here(c) + 1, "padding", 3) /\ Holds(stream, Here(c) + 4, "length", 4)
      /\ n \in Nat /\ Holds(stream, Here(c) + 8, "text", n) /\ At(stream, Here(c) + 8 + n, Message)
  BY DEF MessageAt
<1>3. Peek(d, 4).v = n
  <2>1. 3 + 1 = 4 /\ Here(d) + 3 = Here(c) + 4 BY <1>1
  <2> QED BY <1>1, <2>1, Says_
<1> HIDE DEF n
<1>4. ServerCutText(d) = IF rQwait(d, 7) THEN MoreData(rQback(d, 1)) ELSE CutText(length, n)
  BY <1>3 DEF ServerCutText
<1>5. CASE rQwait(d, 7) BY <1>4, <1>5, PutBack DEF Sound
<1>6. CASE ~rQwait(d, 7)
  <2> DEFINE text == rQshift(length, "text", n)
  <2>1. 1 + 3 <= rQlen(c) /\ 4 + 4 <= rQlen(c) BY <1>1, <1>6 DEF rQwait
  <2>2. Moved(c, padding, 1 + 3) BY <1>1, <1>2, <2>1, ShiftedOn
  <2> HIDE DEF padding
  <2>3. Moved(c, padding, 4) BY <2>2
  <2>4. Moved(c, length, 4 + 4) BY <1>1, <1>2, <2>1, <2>3, ShiftedOn
  <2> HIDE DEF length
  <2>5. Moved(c, length, 8) BY <2>4
  <2>6. CutText(length, n) = IF rQwait(length, n) THEN MoreData(rQback(length, 8)) ELSE Done(text)
    BY DEF CutText
  <2>7. CASE rQwait(length, n) BY <1>4, <1>6, <2>5, <2>6, <2>7, PutBack DEF Sound
  <2>8. CASE ~rQwait(length, n)
    <3>1. rQlen(length) = rQlen(c) - 8 BY <2>5 DEF Moved
    <3>2. 8 + n <= rQlen(c) BY <1>1, <1>2, <2>8, <3>1 DEF rQwait
    <3>3. Moved(c, text, 8 + n) BY <1>1, <1>2, <2>5, <3>2, ShiftedOn
    <3> HIDE DEF text
    <3>4. Here(c) + 8 + n = Here(c) + (8 + n) /\ 8 + n \in Nat BY <1>1, <1>2
    <3>5. Resting(Done(text)) BY <1>2, <3>3, <3>4, MessageRead
    <3> QED BY <1>4, <1>6, <2>6, <2>8, <3>5 DEF Sound
  <2> QED BY <2>7, <2>8
<1> QED BY <1>5, <1>6

LEMMA NormalKept ==
  ASSUME NEW c, Shape(c), Sound(c), stream \in DOMAIN Sent, rQlen(c) > 0
  PROVE  Sound(normal_msg(c))
<1>1. CASE c.torn
  <2>1. Keeps(c, normal_msg(c)) BY NormalKeeps
  <2> QED BY <1>1, <2>1 DEF Keeps, Sound
<1>2. CASE ~c.torn /\ c.rects > 0
  <2>1. c.rects # 0 BY <1>2
  <2>2. normal_msg(c) = normal_type(c, "update") BY <2>1 DEF normal_msg, ShiftIf, msg_type
  <2>3. normal_type(c, "update") = framebufferUpdate(c) BY DEF normal_type
  <2>4. framebufferUpdate(c) = Rects(c) BY <2>1 DEF framebufferUpdate, UpdateHeader
  <2> QED BY <2>2, <2>3, <2>4, RectsKept
<1>3. CASE ~c.torn /\ ~(c.rects > 0)
  <2> DEFINE type == Says(stream, Here(c))
             d == rQshift(c, "type", 1)
  <2>1. Between(c) /\ Fit(c)
    <3>1. Resting(c) BY <1>3 DEF Sound
    <3>2. Fit(c) BY <3>1 DEF Resting, Fit, Shape
    <3>3. c.rects = 0 BY <1>3, <3>2 DEF Fit, Counts
    <3> QED BY <3>1, <3>2, <3>3 DEF Resting, Between
  <2>2. rQlen(c) \in Nat /\ Here(c) \in Nat /\ 1 <= rQlen(c) /\ Here(c) # Len(Sent[stream])
    BY <2>1, Lengths
  <2>3. MessageAt(stream, Here(c)) BY <2>1, <2>2, MessageLies DEF Between
  <2>4. Holds(stream, Here(c), "type", 1) /\ type \in {"update", "colours", "text", "bell"}
    BY <2>3 DEF MessageAt
  <2>5. Peek(c, 1).v = type /\ Next_(c, 0, "type", 1)
    <3>1. Here(c) + 0 = Here(c) /\ 0 + 1 = 1 BY <2>2
    <3> QED BY <2>1, <2>4, <3>1, Says_, IsNext
  <2>6. normal_msg(c) = normal_type(d, type)
    <3>1. c.rects = 0 BY <2>1 DEF Between
    <3> QED BY <2>5, <3>1 DEF normal_msg, ShiftIf, msg_type
  <2>7. Moved(c, d, 1) /\ Shape(d) BY <2>1, <2>2, <2>4, Shifted, ShiftKeeps, KeepsShape
  <2> HIDE DEF d
  <2>8. CASE type = "update"
    <3>1. normal_type(d, type) = framebufferUpdate(d) BY <2>8 DEF normal_type
    <3> QED BY <2>1, <2>3, <2>6, <2>7, <2>8, <3>1, UpdateKept DEF d
  <2>9. CASE type = "colours"
    <3>1. normal_type(d, type) = SetColourMapEntries(d) BY <2>9 DEF normal_type
    <3> QED BY <2>1, <2>3, <2>6, <2>7, <2>9, <3>1, ColoursKept
  <2>10. CASE type = "text"
    <3>1. normal_type(d, type) = ServerCutText(d) BY <2>10 DEF normal_type
    <3> QED BY <2>1, <2>3, <2>6, <2>7, <2>10, <3>1, TextKept
  <2>11. CASE type = "bell"
    <3>1. normal_type(d, type) = Done(d) BY <2>11 DEF normal_type
    <3>2. At(stream, Here(c) + 1, Message) BY <2>3, <2>11 DEF MessageAt
    <3> QED BY <2>1, <2>6, <2>7, <3>1, <3>2, MessageRead DEF Sound
  <2> QED BY <2>4, <2>8, <2>9, <2>10, <2>11
<1> QED BY <1>1, <1>2, <1>3

-----------------------------------------------------------------------------
(* The callbacks.                                                          *)

LEMMA MessageKept ==
  ASSUME NEW c, Shape(c), Sound(c), stream \in DOMAIN Sent
  PROVE  Sound(handle_message(c))
<1>1. rQlen(c) <= 0 \/ ~(rQlen(c) <= 0) OBVIOUS
<1>2. CASE rQlen(c) <= 0 BY <1>2 DEF handle_message
<1>3. CASE ~(rQlen(c) <= 0)
  <2> DEFINE d == normal_msg(c)
             e == handle_rest(d)
  <2>1. handle_message(c) = e BY <1>3 DEF handle_message
  <2>2. Sound(d)
    <3>1. CASE c.torn
      <4>1. Keeps(c, d) BY NormalKeeps
      <4> QED BY <3>1, <4>1 DEF Keeps, Sound
    <3>2. CASE ~c.torn
      <4>1. Counts(c) BY <3>2 DEF Sound, Resting
      <4>2. rQlen(c) \in Int BY <4>1 DEF Counts, rQlen
      <4>3. rQlen(c) > 0 BY <1>3, <4>2
      <4> QED BY <4>3, NormalKept
    <3> QED BY <3>1, <3>2
  <2>3. DOMAIN d = ClientFields BY NormalKeeps, KeepsShape DEF Shape
  <2> HIDE DEF d
  <2>4. Alike(d, e) /\ e.bytes = d.bytes /\ e.torn = d.torn
    BY <2>3 DEF handle_rest, Alike, ClientFields
  <2> HIDE DEF e
  <2> QED BY <2>1, <2>2, <2>4, Answered DEF Sound
<1> QED BY <1>1, <1>2, <1>3

LEMMA CompactKept ==
  ASSUME NEW c, Shape(c), Sound(c)
  PROVE  Sound(Compact(c))
<1> DEFINE d == [c EXCEPT !.dropped = @ + c.rQi, !.rQi = 0]
<1>1. DOMAIN c = ClientFields BY DEF Shape
<1>2. /\ DOMAIN d = ClientFields /\ d.dropped = c.dropped + c.rQi /\ d.rQi = 0 /\ d.lost = c.lost
      /\ d.arrived = c.arrived /\ d.rects = c.rects /\ d.subrects = c.subrects /\ d.lines = c.lines
      /\ d.tiles = c.tiles /\ d.bytes = c.bytes /\ d.rect = c.rect /\ d.torn = c.torn
  BY <1>1 DEF ClientFields
<1>3. Compact(c) \in {c, d} BY DEF Compact
<1> HIDE DEF d
<1>4. Sound(d)
  <2>1. CASE c.torn BY <1>2, <2>1 DEF Sound
  <2>2. CASE ~c.torn
    <3>1. Resting(c) /\ Counts(c) BY <2>2 DEF Sound, Resting
    <3>2. Here(d) = Here(c) BY <1>2, <3>1 DEF Here, Counts
    <3>3. Counts(d) BY <1>2, <3>1, <3>2 DEF Counts
    <3>4. Left(d) = Left(c) /\ (Others(d) <=> Others(c)) /\ (NoParts(d) <=> NoParts(c))
      BY <1>2 DEF Left, Others, NoParts
    <3>5. Resting(d) BY <1>2, <3>1, <3>2, <3>3, <3>4 DEF Resting
    <3> QED BY <3>5 DEF Sound
  <2> QED BY <2>1, <2>2
<1> QED BY <1>3, <1>4

LEMMA ArrivedSound ==
  ASSUME Shape(client), Sound(client), stream \in DOMAIN Sent,
         NEW n \in (Chunks \cup {Rest}) \cap 1 .. Rest
  PROVE  Sound([client EXCEPT !.arrived = @ + n])
<1> DEFINE c == client
           d == [c EXCEPT !.arrived = @ + n]
<1>1. DOMAIN c = ClientFields /\ c.arrived \in Nat BY DEF Shape
<1>2. n \in Nat /\ c.arrived + n <= Len(Sent[stream]) /\ Len(Sent[stream]) \in Nat BY <1>1, Pieces
<1>3. /\ DOMAIN d = ClientFields /\ d.dropped = c.dropped /\ d.rQi = c.rQi /\ d.lost = c.lost
      /\ d.arrived = c.arrived + n /\ d.rects = c.rects /\ d.subrects = c.subrects /\ d.lines = c.lines
      /\ d.tiles = c.tiles /\ d.bytes = c.bytes /\ d.rect = c.rect /\ d.torn = c.torn
  BY <1>1 DEF ClientFields
<1> HIDE DEF d
<1>4. CASE c.torn BY <1>3, <1>4 DEF Sound, d
<1>5. CASE ~c.torn
  <2>1. Resting(c) /\ Counts(c) BY <1>5 DEF Sound, Resting
  <2>2. Here(d) = Here(c) BY <1>3 DEF Here
  <2>3. Counts(d)
    <3>1. Here(c) \in Nat /\ Here(c) <= c.arrived BY <2>1 DEF Here, Counts
    <3>2. Here(d) <= d.arrived /\ d.arrived <= Len(Sent[stream]) /\ d.arrived \in Nat
      BY <1>1, <1>2, <1>3, <2>2, <3>1
    <3> QED BY <1>3, <2>1, <3>2 DEF Counts
  <2>4. Left(d) = Left(c) /\ (Others(d) <=> Others(c)) /\ (NoParts(d) <=> NoParts(c))
    BY <1>3 DEF Left, Others, NoParts
  <2>5. Resting(d) BY <1>3, <2>1, <2>2, <2>3, <2>4 DEF Resting
  <2> QED BY <2>5 DEF Sound, d
<1> QED BY <1>4, <1>5

\* What is drawn or loaded does not move the queue.
LEMMA Untouched ==
  ASSUME NEW c, Sound(c), NEW d, Alike(c, d), d.bytes = c.bytes, d.torn = c.torn
  PROVE  Sound(d)
  BY Answered DEF Sound

LEMMA BlankCounts ==
  ASSUME NEW d, d = Blank \/ \E c : d = InitVars(c)
  PROVE  /\ d.rects = 0 /\ d.dropped = 0 /\ d.rQi = 0 /\ d.lost = FALSE
         /\ d.arrived = 0 /\ d.lines = 0 /\ d.subrects = 0 /\ d.tiles = 0
<1>1. /\ DOMAIN Blank = ClientFields /\ Blank.rects = 0 /\ Blank.dropped = 0 /\ Blank.rQi = 0
      /\ Blank.arrived = 0 /\ Blank.lines = 0 /\ Blank.subrects = 0 /\ Blank.tiles = 0 /\ Blank.lost = FALSE
  BY DEF Blank, ClientFields
<1> QED BY <1>1 DEF InitVars, ClientFields

LEMMA BlankSound ==
  ASSUME stream \in DOMAIN Sent
  PROVE  Sound(Blank)
<1> DEFINE d == Blank
<1>1. /\ d.rects = 0 /\ d.dropped = 0 /\ d.rQi = 0 /\ d.lost = FALSE
      /\ d.arrived = 0 /\ d.lines = 0 /\ d.subrects = 0 /\ d.tiles = 0
  BY BlankCounts
<1> HIDE DEF d
<1>2. Len(Sent[stream]) \in Nat /\ At(stream, 0, Message) BY LayoutAssumption DEF LaidOut
<1>3. Here(d) = 0 BY <1>1 DEF Here
<1>4. Counts(d) /\ NoParts(d) BY <1>1, <1>2, <1>3 DEF Counts, NoParts
<1>5. Resting(d) BY <1>1, <1>2, <1>3, <1>4 DEF Resting
<1> QED BY <1>5 DEF Sound, d

LEMMA DecoderKept ==
  ASSUME DecoderInv, [Next]_vars
  PROVE  DecoderInv'
<1>1. Shape(client) /\ Sound(client) /\ stream \in DOMAIN Sent /\ DOMAIN client = ClientFields
  BY DEF DecoderInv, Shape
<1>2. ShapeInv' BY <1>1, ShapeKept DEF ShapeInv
<1>3. ASSUME NEW c, Sound(c), client' = c, stream' = stream PROVE DecoderInv'
  <2>1. Sound(client)' BY <1>3 DEF Sound, Resting, Counts, Here, Left, Others, NoParts
  <2> QED BY <1>2, <2>1 DEF DecoderInv, ShapeInv
<1>4. ASSUME NEW n \in (Chunks \cup {Rest}) \cap 1 .. Rest, Arrive(n) PROVE DecoderInv'
  <2> DEFINE d == [client EXCEPT !.arrived = @ + n]
             e == handle_message(d)
  <2>1. client' = Compact(e) /\ stream' = stream BY <1>4 DEF Arrive
  <2>2. Shape(d) BY <1>1, <1>4, Pieces, ArrivedShape, KeepsShape DEF Shape
  <2>3. Sound(d) BY <1>1, <1>4, ArrivedSound
  <2> HIDE DEF d
  <2>4. Shape(e) /\ Sound(e) BY <1>1, <2>2, <2>3, MessageKeeps, KeepsShape, MessageKept
  <2> HIDE DEF e
  <2>5. Sound(Compact(e)) BY <2>4, CompactKept
  <2> QED BY <1>3, <2>1, <2>5
<1>5. CASE MsgTimeout
  <2> DEFINE d == [client EXCEPT !.msgTimer = FALSE]
  <2>1. client' = handle_message(d) /\ stream' = stream BY <1>5 DEF MsgTimeout
  <2>2. Shape(d) BY <1>1, FieldKeeps, KeepsShape
  <2>3. Alike(client, d) /\ d.bytes = client.bytes /\ d.torn = client.torn
    BY <1>1 DEF Alike, ClientFields
  <2> HIDE DEF d
  <2>4. Sound(handle_message(d)) BY <1>1, <2>2, <2>3, Untouched, MessageKept
  <2> QED BY <1>3, <2>1, <2>4
<1>6. CASE ImageLoads
  <2>1. PICK i \in DOMAIN client.renderQ :
          client' = [client EXCEPT !.renderQ[i].complete = TRUE] /\ stream' = stream
    BY <1>6 DEF ImageLoads
  <2> DEFINE d == [client EXCEPT !.renderQ[i].complete = TRUE]
  <2>2. Alike(client, d) /\ d.bytes = client.bytes /\ d.torn = client.torn
    BY <1>1 DEF Alike, ClientFields
  <2> HIDE DEF d
  <2>3. client' = d BY <2>1 DEF d
  <2> QED BY <1>1, <1>3, <2>1, <2>2, <2>3, Untouched
<1>7. CASE Frame
  <2> DEFINE d == [client EXCEPT !.frames = @ - 1]
             e == scan_renderQ(d)
  <2>1. client' = e /\ stream' = stream BY <1>7 DEF Frame
  <2>2. Alike(client, d) /\ d.bytes = client.bytes /\ d.torn = client.torn /\ DOMAIN d = ClientFields
    BY <1>1 DEF Alike, ClientFields
  <2> HIDE DEF d
  <2>3. Alike(d, e) /\ e.bytes = d.bytes /\ e.torn = d.torn
    BY <2>2 DEF scan_renderQ, Alike, ClientFields
  <2> HIDE DEF e
  <2> QED BY <1>1, <1>3, <2>1, <2>2, <2>3, Untouched
<1>8. CASE Reconnect
  <2>1. client' = InitVars(client) /\ stream' \in DOMAIN Sent BY <1>8 DEF Reconnect
  <2>2. /\ client'.rects = 0 /\ client'.dropped = 0 /\ client'.rQi = 0 /\ client'.lost = FALSE
        /\ client'.arrived = 0 /\ client'.lines = 0 /\ client'.subrects = 0 /\ client'.tiles = 0
    BY <2>1, BlankCounts
  <2>3. Len(Sent[stream']) \in Nat /\ At(stream', 0, Message) BY <2>1, LayoutAssumption DEF LaidOut
  <2>4. Here(client)' = 0 BY <2>2 DEF Here
  <2>5. Counts(client)' /\ NoParts(client)' BY <2>2, <2>3, <2>4 DEF Counts, NoParts
  <2>6. Resting(client)' BY <2>2, <2>3, <2>4, <2>5 DEF Resting
  <2> QED BY <1>2, <2>6 DEF DecoderInv, ShapeInv, Sound
<1>9. CASE UNCHANGED vars BY <1>1, <1>3, <1>9 DEF vars
<1> QED BY <1>4, <1>5, <1>6, <1>7, <1>8, <1>9 DEF Next

\* Whatever the server sends, cut into whatever pieces, and whatever an earlier
\* session left: a read of rfb.js that does not get its own field comes after
\* one of the three messages that return without what they have taken off the
\* queue.
THEOREM StreamIsKept == Spec => []StreamKept
<1>1. Init => DecoderInv BY BlankShape, BlankSound DEF Init, DecoderInv
<1>2. DecoderInv /\ [Next]_vars => DecoderInv' BY DecoderKept
<1>3. DecoderInv => StreamKept BY DEF DecoderInv, Sound, Resting, StreamKept
<1> QED BY <1>1, <1>2, <1>3, PTL DEF Spec

=============================================================================

----------------------------- MODULE RfbLayout -----------------------------
(***************************************************************************)
(* What a VNC server sends after the handshake: the messages and encodings *)
(* of RFB 3.8, as far as where one field ends and the next one begins.     *)
(*                                                                         *)
(* A byte carries the field it belongs to, its number in the field, how    *)
(* long the field is and what the whole field says; a byte that a message, *)
(* a rectangle or one of its parts begins with carries that place too.     *)
(***************************************************************************)
EXTENDS Integers, Sequences

CONSTANTS
  Streams,      \* what a server may send in a session: a sequence of sequences of bytes
  fb_Bpp,       \* bytes per pixel
  fb_depth      \* bytes per pixel in TIGHT

\* The streams under a name of their own, which TLC evaluates once.
Sent == Streams

\* The field f is the n bytes after the first p bytes of stream s.
Holds(s, p, f, n) ==
  /\ p + n <= Len(Sent[s])
  /\ \A i \in 1 .. n : Sent[s][p + i].f = f /\ Sent[s][p + i].i = i /\ Sent[s][p + i].n = n
Says(s, p) == Sent[s][p + 1].v

-----------------------------------------------------------------------------
(* The places.  left counts the rectangles of an update that have not      *)
(* ended, parts what is left of one: lines, subrectangles or tiles.        *)

NoRect == [enc |-> "none"]
Place(at, left, rect, parts) == [at |-> at, left |-> left, rect |-> rect, parts |-> parts]
Message == Place("message", 0, NoRect, 0)
Rectangle(left) == Place("rect", left, NoRect, 0)
Body(left, rect, parts) == Place("body", left, rect, parts)
\* What follows a rectangle.
After(left) == IF left <= 1 THEN Message ELSE Rectangle(left - 1)

At(s, p, place) ==
  /\ p \in 0 .. Len(Sent[s])
  /\ place = IF p = Len(Sent[s]) THEN Message ELSE Sent[s][p + 1].at

-----------------------------------------------------------------------------
(* What is laid out from a place on.                                       *)

MessageAt(s, p) ==
  /\ Holds(s, p, "type", 1)
  /\ Says(s, p) \in {"update", "colours", "text", "bell"}
  /\ Says(s, p) = "update" =>
       /\ Holds(s, p + 1, "padding", 1)
       /\ Holds(s, p + 2, "rects", 2) /\ Says(s, p + 2) \in Nat
       /\ At(s, p + 4, After(Says(s, p + 2) + 1))
  /\ Says(s, p) = "colours" =>
       /\ Holds(s, p + 1, "padding", 1) /\ Holds(s, p + 2, "first", 2)
       /\ Holds(s, p + 4, "count", 2) /\ Says(s, p + 4) \in Nat
       /\ Holds(s, p + 6, "colour", 6 * Says(s, p + 4))
       /\ At(s, p + 6 + 6 * Says(s, p + 4), Message)
  /\ Says(s, p) = "text" =>
       /\ Holds(s, p + 1, "padding", 3)
       /\ Holds(s, p + 4, "length", 4) /\ Says(s, p + 4) \in Nat
       /\ Holds(s, p + 8, "text", Says(s, p + 4))
       /\ At(s, p + 8 + Says(s, p + 4), Message)
  /\ Says(s, p) = "bell" => At(s, p + 1, Message)

Bodies == {"RAW", "COPYRECT", "RRE", "HEXTILE", "TIGHT", "Cursor"}
\* Across and down, the tiles of 16 by 16 pixels, the last of which is less.
TilesOf(length) == (length + 15) \div 16
TileOf(length, k) ==
  IF k < TilesOf(length) - 1 THEN 16 ELSE length - 16 * (TilesOf(length) - 1)
PartsOf(r) ==
  CASE r.enc = "RAW" -> r.h [] r.enc = "HEXTILE" -> TilesOf(r.w) * TilesOf(r.h) [] OTHER -> 0

RectangleAt(s, p, left) ==
  LET r == Says(s, p)
  IN /\ left \in Nat \ {0}
     /\ Holds(s, p, "rect", 12)
     /\ r.enc \in Bodies \cup {"DesktopSize", "last_rect"}
     /\ r.enc = "last_rect" => At(s, p + 12, Message)
     /\ r.enc = "DesktopSize" => At(s, p + 12, After(left))
     /\ r.enc \in Bodies => At(s, p + 12, Body(left, r, PartsOf(r)))

-----------------------------------------------------------------------------
(* The bodies of the encodings.                                            *)

\* Fields of the same length after each other, up to the end of the rectangle.
Run(s, p, left, r, parts, f, n) ==
  \A m \in 1 .. parts :
    /\ Holds(s, p + (m - 1) * n, f, n)
    /\ At(s, p + m * n, IF m = parts THEN After(left) ELSE Body(left, r, parts - m))

RreHeader(s, p, left, r) ==
  /\ Holds(s, p, "subrects", 4) /\ Says(s, p) \in Nat
  /\ Holds(s, p + 4, "bg", fb_Bpp)
  /\ At(s, p + 4 + fb_Bpp, IF Says(s, p) = 0 THEN After(left) ELSE Body(left, r, Says(s, p)))

\* A tile says whether it is raw, has a background, a foreground, how many
\* subrectangles (-1: none announced), and whether they have colours.
TileHeads == [raw : BOOLEAN, bg : BOOLEAN, fg : BOOLEAN, coloured : BOOLEAN, subs : Nat \cup {-1}]
\* The number of bytes in front of the subrectangles, and of those.
Front(t) == 1 + (IF t.bg THEN fb_Bpp ELSE 0) + (IF t.fg THEN fb_Bpp ELSE 0)
Subs(t) == t.subs * (IF t.coloured THEN fb_Bpp + 2 ELSE 2)
TileAt(s, p, left, r, parts) ==
  LET t == Says(s, p)
      k == TilesOf(r.w) * TilesOf(r.h) - parts
      pixels == TileOf(r.w, k % TilesOf(r.w)) * TileOf(r.h, k \div TilesOf(r.w)) * fb_Bpp
      next == IF parts = 1 THEN After(left) ELSE Body(left, r, parts - 1)
  IN /\ parts <= TilesOf(r.w) * TilesOf(r.h)
     /\ Holds(s, p, "sub", 1) /\ t \in TileHeads
     /\ t.raw => Holds(s, p + 1, "pixels", pixels) /\ At(s, p + 1 + pixels, next)
     /\ ~t.raw =>
          /\ t.bg => Holds(s, p + 1, "bg", fb_Bpp)
          /\ t.fg => Holds(s, p + Front(t) - fb_Bpp, "fg", fb_Bpp)
          /\ t.subs = -1 => At(s, p + Front(t), next)
          /\ t.subs # -1 =>
               /\ Holds(s, p + Front(t), "nsub", 1)
               /\ Holds(s, p + Front(t) + 1, "subrects", Subs(t))
               /\ At(s, p + Front(t) + 1 + Subs(t), next)

\* Less than 12 bytes are not compressed and come without a length.
RowOf(r, colours) == IF colours = 0 THEN r.w * fb_depth ELSE IF colours <= 2 THEN (r.w + 7) \div 8 ELSE r.w
Packed(s, p, left) ==
  LET b == Sent[s][p + 1]
  IN /\ b.n \in 1 .. 3 /\ Holds(s, p, "clength", b.n) /\ b.v \in Nat
     /\ Holds(s, p + b.n, "data", b.v) /\ At(s, p + b.n + b.v, After(left))
PixelsAt(s, p, left, r, colours) ==
  IF RowOf(r, colours) * r.h < 12
  THEN /\ Holds(s, p, "data", RowOf(r, colours) * r.h)
       /\ At(s, p + RowOf(r, colours) * r.h, After(left))
  ELSE Packed(s, p, left)
TightAt(s, p, left, r) ==
  LET mode == Says(s, p)
      colours == Says(s, p + 2) + 1
  IN /\ Holds(s, p, "ctl", 1)
     /\ mode \in {"fill", "jpeg", "png", "filter", "copy"}
     /\ mode = "fill" => Holds(s, p + 1, "tpixel", fb_depth) /\ At(s, p + 1 + fb_depth, After(left))
     /\ mode \in {"jpeg", "png"} => Packed(s, p + 1, left)
     /\ mode = "filter" =>
          /\ Holds(s, p + 1, "filter", 1) /\ Says(s, p + 1) = 1
          /\ Holds(s, p + 2, "ncolours", 1) /\ Says(s, p + 2) \in Nat
          /\ Holds(s, p + 3, "palette", colours * fb_depth)
          /\ PixelsAt(s, p + 3 + colours * fb_depth, left, r, colours)
     /\ mode = "copy" => PixelsAt(s, p + 1, left, r, 0)

CursorAt(s, p, left, r) ==
  LET pixels == r.w * r.h * fb_Bpp
      mask == ((r.w + 7) \div 8) * r.h
  IN /\ Holds(s, p, "cursor", pixels) /\ Holds(s, p + pixels, "mask", mask)
     /\ At(s, p + pixels + mask, After(left))

BodyAt(s, p, left, r, parts) ==
  /\ left \in Nat \ {0} /\ r.enc \in Bodies
  /\ r.w \in Nat \ {0} /\ r.h \in Nat \ {0} /\ parts \in Nat
  /\ r.enc = "RAW" => parts # 0 /\ Run(s, p, left, r, parts, "line", r.w * fb_Bpp)
  /\ r.enc = "COPYRECT" => Holds(s, p, "source", 4) /\ At(s, p + 4, After(left))
  /\ r.enc = "RRE" => IF parts = 0 THEN RreHeader(s, p, left, r)
                      ELSE Run(s, p, left, r, parts, "subrect", fb_Bpp + 8)
  /\ r.enc = "HEXTILE" => parts # 0 /\ TileAt(s, p, left, r, parts)
  /\ r.enc = "TIGHT" => TightAt(s, p, left, r)
  /\ r.enc = "Cursor" => CursorAt(s, p, left, r)

-----------------------------------------------------------------------------

\* A stream begins with a message, and from each of its places on is laid out
\* what begins there.
LaidOut(s) ==
  /\ Len(Sent[s]) \in Nat /\ At(s, 0, Message)
  /\ \A p \in 0 .. Len(Sent[s]) - 1 :
       LET here == Sent[s][p + 1].at
       IN /\ here.at = "message" => MessageAt(s, p)
          /\ here.at = "rect" => RectangleAt(s, p, here.left)
          /\ here.at = "body" => BodyAt(s, p, here.left, here.rect, here.parts)

ASSUME LayoutAssumption ==
  /\ fb_Bpp \in Nat \ {0} /\ fb_depth \in Nat \ {0}
  /\ \A s \in DOMAIN Sent : LaidOut(s)

=============================================================================

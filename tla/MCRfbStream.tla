---------------------------- MODULE MCRfbStream ----------------------------
(* Streams for RfbStream: every encoding, every message, in small sizes.   *)
EXTENDS RfbStream

-----------------------------------------------------------------------------
(* The layout of RFB: a byte for each place of each field.                 *)

Field(f, n, v) ==
  [i \in 1 .. n |-> [f |-> f, i |-> i, n |-> n, v |-> v, at |-> Place("inside", 0, NoRect, 0)]]
Begin(place, bytes) == [bytes EXCEPT ![1].at = place]
Concat(seqs) ==
  LET to[i \in 0 .. Len(seqs)] == IF i = 0 THEN <<>> ELSE to[i - 1] \o seqs[i] IN to[Len(seqs)]

TileBytes(t, pixels) ==
  Field("sub", 1, t) \o
  (IF t.raw THEN Field("pixels", pixels * fb_Bpp, 0)
   ELSE (IF t.bg THEN Field("bg", fb_Bpp, 0) ELSE <<>>)
        \o (IF t.fg THEN Field("fg", fb_Bpp, 0) ELSE <<>>)
        \o (IF t.subs < 0 THEN <<>>
            ELSE Field("nsub", 1, t.subs)
                 \o Field("subrects", t.subs * (IF t.coloured THEN fb_Bpp + 2 ELSE 2), 0)))

TightBytes(r) ==
  Field("ctl", 1, r.mode) \o
  (CASE r.mode = "fill" -> Field("tpixel", fb_depth, 0)
     [] r.mode = "filter" -> Field("filter", 1, 1) \o Field("ncolours", 1, r.colours - 1)
                             \o Field("palette", r.colours * fb_depth, 0)
     [] OTHER -> <<>>) \o
  (IF r.mode = "fill" THEN <<>>
   ELSE Field("clength", r.header, r.size) \o Field("data", r.size, 0))

RectBytes(r, left) ==
  LET parts(f, n, number) ==
        Concat([i \in 1 .. number |-> Begin(Body(left, r, number + 1 - i), Field(f, n, 0))])
      one(bytes) == Begin(Body(left, r, 0), bytes)
  IN Begin(Rectangle(left), Field("rect", 12, r)) \o
     (CASE r.enc = "RAW" -> parts("line", r.w * fb_Bpp, r.h)
        [] r.enc = "COPYRECT" -> one(Field("source", 4, 0))
        [] r.enc = "RRE" -> one(Field("subrects", 4, r.subs) \o Field("bg", fb_Bpp, 0))
                            \o parts("subrect", fb_Bpp + 8, r.subs)
        [] r.enc = "HEXTILE" ->
             Concat([k \in 1 .. Len(r.tiles) |->
                       Begin(Body(left, r, Len(r.tiles) + 1 - k), TileBytes(r.tiles[k], r.pixels[k]))])
        [] r.enc = "TIGHT" -> one(TightBytes(r))
        [] r.enc = "Cursor" -> one(Field("cursor", r.w * r.h * fb_Bpp, 0)
                                   \o Field("mask", ((r.w + 7) \div 8) * r.h, 0))
        [] OTHER -> <<>>)

\* The number of rectangles of an update that ends with last_rect is unknown.
Announced(m) == IF m.rects[Len(m.rects)].enc = "last_rect" THEN 65535 ELSE Len(m.rects)

MessageBytes(m) ==
  Begin(Message, Field("type", 1, m.type)) \o
  (CASE m.type = "update" -> Field("padding", 1, 0) \o Field("rects", 2, Announced(m))
                             \o Concat([i \in DOMAIN m.rects |-> RectBytes(m.rects[i], Announced(m) + 1 - i)])
     [] m.type = "colours" -> Field("padding", 1, 0) \o Field("first", 2, 0)
                              \o Field("count", 2, m.count) \o Field("colour", m.count * 6, 0)
     [] m.type = "text" -> Field("padding", 3, 0) \o Field("length", 4, m.length)
                           \o Field("text", m.length, 0)
     [] OTHER -> <<>>)

StreamBytes(messages) == Concat([i \in DOMAIN messages |-> MessageBytes(messages[i])])

-----------------------------------------------------------------------------
(* The messages.                                                           *)

Update(rects) == [type |-> "update", rects |-> rects]
Bell == [type |-> "bell"]
Text(n) == [type |-> "text", length |-> n]
Colours(n) == [type |-> "colours", count |-> n]

Raw(w, h) == [enc |-> "RAW", w |-> w, h |-> h]
Copy == [enc |-> "COPYRECT", w |-> 2, h |-> 2]
Rre(n) == [enc |-> "RRE", w |-> 2, h |-> 2, subs |-> n]
Tile(raw, bg, fg, subs, coloured) ==
  [raw |-> raw, bg |-> bg, fg |-> fg, subs |-> subs, coloured |-> coloured]
\* 17 pixels in a line are a tile of 16 pixels and one of one pixel.
Hextile(t, u) == [enc |-> "HEXTILE", w |-> 17, h |-> 1, tiles |-> <<t, u>>, pixels |-> <<16, 1>>]
Tight(mode, w, header, size) ==
  [enc |-> "TIGHT", w |-> w, h |-> 2, mode |-> mode, header |-> header, size |-> size, colours |-> 2]
Pointer == [enc |-> "Cursor", w |-> 1, h |-> 2]
Size == [enc |-> "DesktopSize", w |-> 3, h |-> 3]
LastRect == [enc |-> "last_rect", w |-> 0, h |-> 0]

Sessions ==
  << <<Update(<<Raw(1, 3)>>), Text(2), Bell, Update(<<Raw(2, 1), Pointer, LastRect>>)>>,
    <<Update(<<Hextile(Tile(FALSE, TRUE, TRUE, 2, FALSE), Tile(TRUE, FALSE, FALSE, -1, FALSE)),
               Hextile(Tile(FALSE, FALSE, FALSE, 1, TRUE), Tile(FALSE, FALSE, FALSE, -1, FALSE))>>)>>,
    <<Update(<<Tight("jpeg", 2, 2, 5), Tight("fill", 2, 0, 0), Size, Tight("png", 2, 1, 4),
               Raw(1, 1), Tight("filter", 2, 0, 2)>>), Text(0)>>,
    <<Update(<<Tight("copy", 1, 0, 6), Tight("copy", 2, 3, 7), Tight("filter", 50, 1, 3)>>)>>,
    <<Update(<<Copy, Tight("jpeg", 2, 1, 4), Copy>>), Colours(1)>>,
    <<Update(<<Rre(0), Rre(2), Raw(1, 1)>>), Bell>> >>

\* Updates with the two encodings that have a header of their own.
TornSessions == << <<Update(<<Copy, Copy>>), Bell>>, <<Update(<<Rre(1), Rre(0)>>), Bell>> >>

MCStreams == [s \in DOMAIN Sessions |-> StreamBytes(Sessions[s])]
CopyStreams == [s \in DOMAIN TornSessions |-> StreamBytes(TornSessions[s])]

=============================================================================

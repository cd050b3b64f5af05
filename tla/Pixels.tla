------------------------------- MODULE Pixels -------------------------------
(***************************************************************************)
(* From the rectangles of the VNC server to the pixels of the canvas: how  *)
(* rfb.js unpacks an encoding and display.js paints it, with the style it  *)
(* caches, the tile it composes, the palettes, and the cursor.  How the    *)
(* bytes arrive is in RfbStream, which part of the screen is seen moves in *)
(* Viewport; here a rectangle is here to its end.                          *)
(*                                                                         *)
(* A colour is <<blue, green, red>>, a pixel of the canvas <<red, green,   *)
(* blue>>; images are sequences of bytes, row after row.                   *)
(***************************************************************************)
EXTENDS Sequences, Integers

CONSTANTS
  Width, Height,  \* of the frame buffer
  Palette,        \* the colours, a sequence; its index is the colour on the server
  Pictures,       \* what the server may show: functions from pixels to colours
  Boxes,          \* [x, y, w, h]: the rectangles it updates
  Views,          \* widths of the viewport
  Cursors,        \* [w, h, at, mask]: colours and bits of a cursor
  TileSide,       \* the side of a tile (16 in the code)
  MaxUpdates      \* bound

VARIABLES
  true_color, colourMap,  \* display.js
  display,     \* display.js and its canvas: [w, canvas, fillStyle, c_prevStyle, doubtful]
  FBU,         \* rfb.js: what HEXTILE carries on: [background, foreground, raw]
  cursor,      \* the file of the cursor: [w, h, pixels], and the cursor the server sent
  screen,      \* the frame buffer of the server
  updates

vars == <<true_color, colourMap, display, FBU, cursor, screen, updates>>

Colours == DOMAIN Palette
Frame == (0 .. Width - 1) \X (0 .. Height - 1)
View(w) == (0 .. w - 1) \X (0 .. Height - 1)
Pixels(b) == (b.x .. b.x + b.w - 1) \X (b.y .. b.y + b.h - 1)
Black == <<0, 0, 0>>
Blank == <<>>   \* a pixel nothing was painted on
Index(b, p) == (p[2] - b.y) * b.w + p[1] - b.x + 1
CeilDiv(a, n) == (a + n - 1) \div n
Smaller(a, n) == IF a < n THEN a ELSE n

RECURSIVE Concat(_)
Concat(ss) == IF ss = <<>> THEN <<>> ELSE Head(ss) \o Concat(Tail(ss))

-----------------------------------------------------------------------------
(* display.js.                                                             *)

rgb(bgr) == <<bgr[3], bgr[2], bgr[1]>>
\* What the bytes of a pixel mean.
Meaning(pixel) == IF true_color THEN <<pixel[1], pixel[2], pixel[3]>> ELSE colourMap[pixel[1]]

\* The canvas cuts off what is not in view.
Paint(d, pixels, Colour(_)) ==
  [d EXCEPT !.canvas = [p \in DOMAIN @ |-> IF p \in pixels THEN Colour(p) ELSE @[p]],
            !.doubtful = @ \ pixels]

\* The style of the canvas is set when it is not the one that was set last.
setFillColor(d, pixel) ==
  LET newStyle == rgb(Meaning(pixel))
  IN IF newStyle = d.c_prevStyle THEN d
     ELSE [d EXCEPT !.fillStyle = newStyle, !.c_prevStyle = newStyle]
fillRect(d, b, pixel) ==
  LET e == setFillColor(d, pixel)
      filled == Paint(e, Pixels(b), LAMBDA p : e.fillStyle)
  IN IF e.fillStyle = e.c_prevStyle THEN filled
     ELSE [filled EXCEPT !.doubtful = @ \cup Pixels(b)]

\* drawImage of the canvas onto itself: what is not in view is not copied.
copyImage(d, b, dx, dy) ==
  LET From(p) == <<p[1] + dx, p[2] + dy>>
      seen == {p \in Pixels(b) : From(p) \in DOMAIN d.canvas /\ d.canvas[From(p)] # Blank}
      copied == Paint(d, seen, LAMBDA p : d.canvas[From(p)])
  IN [copied EXCEPT !.doubtful =
        @ \cup (Pixels(b) \ seen) \cup {p \in seen : From(p) \in d.doubtful}]

\* A tile is composed in memory (prefer_js) and put on the canvas at its end.
startTile(w, h, pixel) == [w |-> w, data |-> [i \in 0 .. w * h - 1 |-> rgb(Meaning(pixel))]]
subTile(tile, x, y, w, h, pixel) ==
  LET painted == {i + j * tile.w : i \in x .. x + w - 1, j \in y .. y + h - 1}
  IN [tile EXCEPT !.data = [p \in DOMAIN @ |-> IF p \in painted THEN rgb(Meaning(pixel)) ELSE @[p]]]
finishTile(d, b, tile) == Paint(d, Pixels(b), LAMBDA p : tile.data[Index(b, p) - 1])

bgrxImageData(d, b, arr) ==
  Paint(d, Pixels(b), LAMBDA p : LET j == 4 * Index(b, p) - 3 IN <<arr[j + 2], arr[j + 1], arr[j]>>)
cmapImageData(d, b, arr) == Paint(d, Pixels(b), LAMBDA p : rgb(colourMap[arr[Index(b, p)]]))
rgbImageData(d, b, arr) ==
  Paint(d, Pixels(b), LAMBDA p : LET j == 3 * Index(b, p) - 2 IN <<arr[j], arr[j + 1], arr[j + 2]>>)
blitImage(d, b, arr) == IF true_color THEN bgrxImageData(d, b, arr) ELSE cmapImageData(d, b, arr)

-----------------------------------------------------------------------------
(* rfb.js: the encodings.                                                  *)

RRE(d, b, r) ==
  LET to[k \in 0 .. Len(r.subs)] ==
        IF k = 0 THEN fillRect(d, b, r.bg)
        ELSE fillRect(to[k - 1], [x |-> b.x + r.subs[k].x, y |-> b.y + r.subs[k].y,
                                  w |-> r.subs[k].w, h |-> r.subs[k].h], r.subs[k].colour)
  IN to[Len(r.subs)]

TilesIn(b) == CeilDiv(b.w, TileSide) * CeilDiv(b.h, TileSide)
TileBox(b, k) ==
  LET x == b.x + ((k - 1) % CeilDiv(b.w, TileSide)) * TileSide
      y == b.y + ((k - 1) \div CeilDiv(b.w, TileSide)) * TileSide
  IN [x |-> x, y |-> y, w |-> Smaller(TileSide, b.x + b.w - x), h |-> Smaller(TileSide, b.y + b.h - y)]

\* The subrectangles of a tile; one without a colour has the foreground.
Tile(b, t, f) ==
  LET to[s \in 0 .. Len(t.subs)] ==
        IF s = 0 THEN startTile(b.w, b.h, f.background)
        ELSE subTile(to[s - 1], t.subs[s].xy \div 16, t.subs[s].xy % 16,
                     t.subs[s].wh \div 16 + 1, (t.subs[s].wh % 16) + 1,
                     IF t.subs[s].colour = <<>> THEN f.foreground ELSE t.subs[s].colour)
  IN to[Len(t.subs)]
Carried(f, t) ==
  [background |-> IF t.bg = <<>> THEN f.background ELSE t.bg,
   foreground |-> IF t.fg = <<>> THEN f.foreground ELSE t.fg, raw |-> FALSE]
\* One tile: raw, nothing but the background that is carried on (not after a
\* raw tile), or a background with subrectangles.
HexTile(s, b, t) ==
  LET f == Carried(s.f, t)
  IN IF t.pixels # <<>>
     THEN [d |-> blitImage(s.d, b, t.pixels), f |-> [s.f EXCEPT !.raw = TRUE]]
     ELSE IF t.bg = <<>> /\ t.fg = <<>> /\ t.subs = <<>>
     THEN [d |-> IF s.f.raw THEN s.d ELSE fillRect(s.d, b, s.f.background), f |-> f]
     ELSE [d |-> finishTile(s.d, b, Tile(b, t, f)), f |-> f]
HEXTILE(d, f, b, tiles) ==
  LET to[k \in 0 .. Len(tiles)] ==
        IF k = 0 THEN [d |-> d, f |-> f] ELSE HexTile(to[k - 1], TileBox(b, k), tiles[k])
  IN to[Len(tiles)]

RowBytesDown(width) == width \div 8   \* mutant: no byte for the rest of a row
RowBytes(width) == (width + 7) \div 8
\* Two colours: a bit for a pixel, every row starts with a byte of its own.
Sample(data, colours, width, n) ==
  LET x == (n - 1) % width
      y == (n - 1) \div width
  IN IF colours = 2 THEN (data[y * RowBytes(width) + x \div 8 + 1] \div 2^(7 - (x % 8))) % 2
     ELSE data[n]
indexedToRGB(data, colours, palette, b) ==
  Concat([n \in 1 .. b.w * b.h |->
            LET sp == 3 * Sample(data, colours, b.w, n) IN SubSeq(palette, sp + 1, sp + 3)])

TIGHT(d, b, r) ==
  CASE r.mode = "fill" -> fillRect(d, b, <<r.colour[3], r.colour[2], r.colour[1]>>)
    [] r.mode = "filter" -> rgbImageData(d, b, indexedToRGB(r.data, r.colours, r.palette, b))
    [] r.mode = "copy" -> rgbImageData(d, b, r.data)

\* changeCursor: a square, its rows from the last to the first, a colour and
\* an opacity for each pixel.
CursorPixel(c, pixels, x, y) ==
  LET byte == c.mask[y * CeilDiv(c.w, 8) + x \div 8 + 1]
      alpha == IF ((byte * 2^(x % 8)) \div 128) % 2 = 1 THEN 255 ELSE 0
      idx == c.w * y + x
      j == 4 * idx + 1
      bgr == IF true_color THEN <<pixels[j], pixels[j + 1], pixels[j + 2]>>
             ELSE colourMap[pixels[idx + 1]]
  IN IF x >= c.w \/ y >= c.h THEN <<0, 0, 0, 0>> ELSE <<bgr[3], bgr[2], bgr[1], alpha>>
changeCursor(c, pixels) ==
  LET side == IF c.w < c.h THEN c.h ELSE c.w
  IN [w |-> side, h |-> side,
      pixels |-> [n \in 1 .. side * side |->
                    CursorPixel(c, pixels, (n - 1) % side, side - 1 - ((n - 1) \div side))]]

-----------------------------------------------------------------------------
(* The server (external): how it encodes a picture of its colours.         *)

PixelBytes(c) == IF true_color THEN Palette[c] \o <<0>> ELSE <<c>>
TPixel(c) == rgb(Palette[c])
InOrder(b, pic) == [n \in 1 .. b.w * b.h |-> pic[b.x + ((n - 1) % b.w), b.y + ((n - 1) \div b.w)]]
Raw(b, pic) == Concat([n \in 1 .. b.w * b.h |-> PixelBytes(InOrder(b, pic)[n])])
Within(b, pic) == {pic[p] : p \in Pixels(b)}
First(b, pic) == pic[b.x, b.y]

\* Every pixel that is not of the background, one by one.
Others(b, pic, bg) ==
  SelectSeq([n \in 1 .. b.w * b.h |-> <<(n - 1) % b.w, (n - 1) \div b.w, InOrder(b, pic)[n]>>],
            LAMBDA s : s[3] # bg)
RreRect(b, pic) ==
  LET others == Others(b, pic, First(b, pic))
  IN [bg |-> PixelBytes(First(b, pic)),
      subs |-> [k \in DOMAIN others |-> [x |-> others[k][1], y |-> others[k][2], w |-> 1, h |-> 1,
                                         colour |-> PixelBytes(others[k][3])]]]

\* A tile names its background, and its foreground when there are two colours,
\* when they are not those of the tile before it; nothing is carried over a raw
\* tile or into a rectangle.
HexTileOf(b, pic, bg, fg, raw) ==
  LET back == First(b, pic)
      others == Others(b, pic, back)
      two == others # <<>> /\ \A k \in DOMAIN others : others[k][3] = others[1][3]
  IN IF raw THEN [pixels |-> Raw(b, pic), bg |-> <<>>, fg |-> <<>>, subs |-> <<>>]
     ELSE [pixels |-> <<>>,
           bg |-> IF back = bg THEN <<>> ELSE PixelBytes(back),
           fg |-> IF ~two \/ others[1][3] = fg THEN <<>> ELSE PixelBytes(others[1][3]),
           subs |-> [k \in DOMAIN others |->
                       [xy |-> 16 * others[k][1] + others[k][2], wh |-> 0,
                        colour |-> IF two THEN <<>> ELSE PixelBytes(others[k][3])]]]
HexTiles(b, pic, rawTile) ==
  LET Fore(k) == LET o == Others(TileBox(b, k), pic, First(TileBox(b, k), pic))
                 IN IF o # <<>> /\ \A i \in DOMAIN o : o[i][3] = o[1][3] THEN o[1][3] ELSE 0
      Known(k) == k > 1 /\ k - 1 # rawTile
  IN [k \in 1 .. TilesIn(b) |->
        HexTileOf(TileBox(b, k), pic,
                  IF Known(k) THEN First(TileBox(b, k - 1), pic) ELSE 0,
                  IF Known(k) THEN Fore(k - 1) ELSE 0, k = rawTile)]

\* The palette of a rectangle, the bits or the bytes of its pixels.
Sorted(S) == SelectSeq([c \in Colours |-> c], LAMBDA c : c \in S)
Place(c, s) == (CHOOSE i \in DOMAIN s : s[i] = c) - 1
RowBits(b, pic, s, y, k) ==
  LET Sum[j \in 0 .. 8] ==
        IF j = 0 THEN 0
        ELSE 2 * Sum[j - 1] + (LET x == 8 * k + j - 1
                               IN IF x < b.w THEN Place(pic[b.x + x, b.y + y], s) ELSE 0)
  IN Sum[8]
FilterRect(b, pic) ==
  LET s == Sorted(Within(b, pic))
  IN [mode |-> "filter", colours |-> Len(s), palette |-> Concat([i \in DOMAIN s |-> TPixel(s[i])]),
      data |-> IF Len(s) = 2
               THEN Concat([y \in 1 .. b.h |->
                              [k \in 1 .. CeilDiv(b.w, 8) |-> RowBits(b, pic, s, y - 1, k - 1)]])
               ELSE [n \in 1 .. b.w * b.h |-> Place(InOrder(b, pic)[n], s)]]
CopyRect(b, pic) ==
  [mode |-> "copy", data |-> Concat([n \in 1 .. b.w * b.h |-> TPixel(InOrder(b, pic)[n])])]

-----------------------------------------------------------------------------
(* Actions.                                                                *)

Update == updates < MaxUpdates /\ updates' = updates + 1
Still == UNCHANGED <<true_color, colourMap, cursor>>

\* The server shows a picture in a box, and what rfb.js makes of its encoding.
Shows(b, pic, d) ==
  /\ Update
  /\ screen' = [p \in Frame |-> IF p \in Pixels(b) THEN pic[p] ELSE screen[p]]
  /\ display' = d
  /\ Still

DrawRaw(b, pic) == Shows(b, pic, blitImage(display, b, Raw(b, pic))) /\ UNCHANGED FBU
DrawRRE(b, pic) == Shows(b, pic, RRE(display, b, RreRect(b, pic))) /\ UNCHANGED FBU
DrawHextile(b, pic, rawTile) ==
  LET done == HEXTILE(display, FBU, b, HexTiles(b, pic, rawTile))
  IN Shows(b, pic, done.d) /\ FBU' = done.f
DrawTight(b, pic) ==
  /\ true_color
  /\ \/ Shows(b, pic, TIGHT(display, b, CopyRect(b, pic)))
     \/ /\ Within(b, pic) = {First(b, pic)}
        /\ Shows(b, pic, TIGHT(display, b, [mode |-> "fill", colour |-> TPixel(First(b, pic))]))
     \/ /\ Within(b, pic) # {First(b, pic)}
        /\ Shows(b, pic, TIGHT(display, b, FilterRect(b, pic)))
  /\ UNCHANGED FBU

\* COPYRECT: the server moves a part of what it shows.
DrawCopy(b, dx, dy) ==
  LET pic == [p \in Pixels(b) |-> screen[p[1] + dx, p[2] + dy]]
  IN /\ \A p \in Pixels(b) : <<p[1] + dx, p[2] + dy>> \in Frame
     /\ Shows(b, pic, copyImage(display, b, dx, dy)) /\ UNCHANGED FBU

\* Cursor.
SetCursor(c) ==
  LET pixels == Concat([n \in 1 .. c.w * c.h |-> PixelBytes(c.at[n])])
  IN /\ Update
     /\ cursor' = [file |-> changeCursor(c, pixels), sent |-> c]
     /\ UNCHANGED <<true_color, colourMap, display, FBU, screen>>

\* viewportChange: another width of the canvas, which loses its style with it.
viewportChange(w) ==
  /\ w # display.w
  /\ display' = [display EXCEPT
       !.w = w, !.fillStyle = Black,
       !.canvas = [p \in View(w) |-> IF p \in DOMAIN @ THEN @[p] ELSE Blank],
       !.doubtful = @ \cap View(w)]
  /\ UNCHANGED <<true_color, colourMap, FBU, cursor, screen, updates>>

\* SetColourMapEntries: 16 bits for a part of a colour, of which 8 are kept.
SetColourMapEntries(entries) ==
  [c \in DOMAIN entries |-> <<entries[c][3] \div 256, entries[c][2] \div 256, entries[c][1] \div 256>>]

NoCursor == [file |-> [w |-> 0, h |-> 0, pixels |-> <<>>], sent |-> [w |-> 0, h |-> 0, at |-> <<>>, mask |-> <<>>]]
Init ==
  /\ true_color \in BOOLEAN
  /\ colourMap = SetColourMapEntries([c \in Colours |-> [i \in 1 .. 3 |-> Palette[c][4 - i] * 257]])
  /\ display \in {[w |-> w, canvas |-> [p \in View(w) |-> Blank], fillStyle |-> Black,
                   c_prevStyle |-> <<>>, doubtful |-> {}] : w \in Views}
  /\ FBU = [background |-> <<>>, foreground |-> <<>>, raw |-> FALSE]
  /\ cursor = NoCursor
  /\ screen \in Pictures
  /\ updates = 0

Next ==
  \/ \E b \in Boxes, pic \in Pictures :
       \/ DrawRaw(b, pic) \/ DrawRRE(b, pic) \/ DrawTight(b, pic)
       \/ \E k \in 0 .. TilesIn(b) : DrawHextile(b, pic, k)
  \/ \E b \in Boxes, dx \in {-1, 2}, dy \in {0, 1} : DrawCopy(b, dx, dy)
  \/ \E c \in Cursors : SetCursor(c)
  \/ \E w \in Views : viewportChange(w)

Spec == Init /\ [][Next]_vars

-----------------------------------------------------------------------------
(* Properties.                                                             *)

\* The cursor as a browser reads the file.
CursorAt(x, y) == cursor.file.pixels[(cursor.file.h - 1 - y) * cursor.file.w + x + 1]
Opaque(c, x, y) == (c.mask[y * CeilDiv(c.w, 8) + x \div 8 + 1] \div 2^(7 - (x % 8))) % 2 = 1
Sent(c, x, y) == Palette[c.at[c.w * y + x + 1]]

\* Whatever encodings, tiles, palettes and styles come together, and whatever
\* part of the screen is in view: a pixel of the canvas that was painted shows
\* what the server has there.  Doubtful are only fills with a style the canvas
\* lost with its size, and copies of what was not in view.  The cursor has the
\* shape its mask says, and its colours but for red and blue, which changeCursor
\* exchanges.
PixelsAgree ==
  /\ \A p \in DOMAIN display.canvas :
       \/ display.canvas[p] = Blank \/ p \in display.doubtful
       \/ display.canvas[p] = rgb(Palette[screen[p]])
  /\ LET c == cursor.sent
     IN \A x \in 0 .. cursor.file.w - 1, y \in 0 .. cursor.file.h - 1 :
          LET inside == x < c.w /\ y < c.h
          IN /\ (CursorAt(x, y)[4] = 255) <=> (inside /\ Opaque(c, x, y))
             /\ inside => {CursorAt(x, y)[1], CursorAt(x, y)[3]} = {Sent(c, x, y)[1], Sent(c, x, y)[3]}
                          /\ CursorAt(x, y)[2] = Sent(c, x, y)[2]

=============================================================================

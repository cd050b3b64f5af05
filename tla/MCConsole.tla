----------------------------- MODULE MCConsole -----------------------------
(***************************************************************************)
(* The parts of the console in the browser, side by side: those of Console *)
(* and, below them, the stream, zlib, what is sent and heard and the       *)
(* pixels.  They share no state: an execution picks a part and runs it,    *)
(* the others stay in one state that they begin with.                      *)
(***************************************************************************)
EXTENDS MCRfbStream, Console

VARIABLES
  part,                                    \* the part that an execution runs
  zlibs, data, written, compressed, chunks,
  conf, normal, sQ, wire, heard, moves, requests, spoken, rQ, served,
  true_color, colourMap, display, FBU, cursor, screen, updates

MCSizes == {<<4, 2>>, <<2, 2>>}
MCClearSize == <<3, 1>>
MCWindows == {<<2, 1>>, <<3, 2>>}
MCDrags == {-2, 0, 1}

\* The key 13 is return; 65 types a letter that unicodeTable has and one that
\* it lacks.
MCTyped(k, shift) ==
  CASE k = 65 -> IF shift THEN 20013 ELSE 261 [] k = 13 -> 13 [] OTHER -> 0

MCFiles == <<"base64.js", "websock.js", "rfb.js">>
MCFlash == <<"swfobject.js", "web_socket.js">>

\* Two checkboxes, a number and a text; queries that say nothing, that say yes
\* and no in several ways, and a number that is none.
Js(type, text) == [type |-> type, text |-> text]
MCDefault == [encrypt |-> Js("bool", "false"), cursor |-> Js("bool", "false"),
              connectTimeout |-> Js("int", "2"), repeaterID |-> Js("str", "")]
MCType == [s \in DOMAIN MCDefault |-> MCDefault[s].type]
MCRfbDefault == [MCDefault EXCEPT !.connectTimeout = Js("int", "15")]
MCPageDefault == [encrypt |-> Js("bool", "false"), cursor |-> Js("bool", "true"),
                  repeaterID |-> Js("str", "")]
NoQuery == [s \in DOMAIN MCDefault |-> Js("null", "null")]
MCQueries == {
  NoQuery,
  [NoQuery EXCEPT !.encrypt = Js("str", "False"), !.cursor = Js("str", "true")],
  [NoQuery EXCEPT !.encrypt = Js("str", "1"), !.connectTimeout = Js("str", "9"),
                  !.repeaterID = Js("str", "9")],
  [NoQuery EXCEPT !.encrypt = Js("str", "0"), !.connectTimeout = Js("str", "")] }
MCLowerCase(text) == IF text = "False" THEN "false" ELSE text

\* Literals, matches inside a chunk and into earlier ones, matches that overlap
\* themselves, the longest one, and blocks of every type.
Lit(b) == [byte |-> b, dist |-> 0, length |-> 0]
Back(dist, length) == [byte |-> 0, dist |-> dist, length |-> length]
MCChunks == {
  << [type |-> 1, items |-> <<Lit(7), Lit(200), Lit(7), Back(2, 3)>>] >>,
  << [type |-> 0, items |-> <<Lit(1), Lit(2), Lit(3), Lit(4), Lit(5), Lit(6)>>],
     [type |-> 1, items |-> <<Back(6, 20)>>] >>,
  << [type |-> 1, items |-> <<Back(20, 5), Lit(0)>>], [type |-> 0, items |-> <<Lit(255)>>] >>,
  << [type |-> 2, items |-> <<Lit(9), Lit(10), Lit(11), Lit(12), Lit(200), Back(4, 4),
                              Back(1, 258), Back(5, 37)>>] >> }
Zlib == INSTANCE Inflate WITH
  StreamIds <- {0, 1}, Chunks <- MCChunks, WINDOW_SIZE <- 20, MaxChunks <- 3, sent <- compressed

\* Two boxes that are not clean, a key of 16 bits and one of 32, texts in ASCII
\* and not, one with a character that is no byte.
Box(i, x, w) == [type |-> 3, incremental |-> i, x |-> x, y |-> 0, w |-> w, h |-> 2]
Talk == INSTANCE Sending WITH
  Updates <- {<<>>, <<Box(1, 0, 300), Box(0, 300, 7)>>}, KeySyms <- {65, 16777236},
  Texts <- {<<>>, <<65, 233>>, <<8364>>}, Points <- {[mask |-> 1, x |-> 257, y |-> 3]},
  Chunks <- {<<0>>, <<255, 1>>, <<7, 200, 99>>}, maxBufferedAmount <- 100, MaxSpoken <- 4,
  mouse_arr <- moves

\* One colour, two and three; boxes wider than eight pixels and than a tile,
\* and cursors wider and higher than a square.
Area == (0 .. 8) \X (0 .. 1)
MCPictures == {
  [p \in Area |-> 1], [p \in Area |-> IF p[1] < 4 \/ p[2] = 1 THEN 2 ELSE 1],
  [p \in Area |-> ((p[1] + p[2]) % 3) + 1] }
MCBoxes == {[x |-> 0, y |-> 0, w |-> 9, h |-> 2], [x |-> 1, y |-> 0, w |-> 8, h |-> 1],
            [x |-> 3, y |-> 1, w |-> 3, h |-> 1]}
MCCursors == {
  [w |-> 2, h |-> 3, at |-> <<1, 2, 3, 1, 2, 3>>, mask |-> <<64, 192, 128>>],
  [w |-> 9, h |-> 1, at |-> <<1, 2, 3, 1, 2, 3, 1, 1, 2>>, mask |-> <<129, 128>>] }
Canvas == INSTANCE Pixels WITH
  Width <- 9, Height <- 2, Palette <- <<<<0, 50, 200>>, <<100, 0, 30>>, <<7, 8, 9>>>>,
  Pictures <- MCPictures, Boxes <- MCBoxes, Views <- {9, 5}, Cursors <- MCCursors,
  TileSide <- 2, MaxUpdates <- 2

\* No password, a short one, one of eight bytes and one too long.
MCPasswords == {
  <<>>, <<112, 119>>, <<255, 1, 128, 64, 37, 90, 165, 254>>, <<9, 8, 7, 6, 5, 4, 3, 2, 1>> }
MCChallenges == {
  [i \in 1 .. 16 |-> 0], [i \in 1 .. 16 |-> (i * 37) % 256],
  [i \in 1 .. 16 |-> IF i < 9 THEN 255 ELSE i * 15] }

-----------------------------------------------------------------------------

zlibVars == <<zlibs, data, written, compressed, chunks>>
talkVars == <<conf, normal, sQ, wire, heard, moves, requests, spoken, rQ, served>>
pixelVars == <<true_color, colourMap, display, FBU, cursor, screen, updates>>
wireVars == <<vars, zlibVars, talkVars, pixelVars>>

MCParts == {"stream", "view", "keys", "mouse", "page", "zlib", "talk", "pixels", "auth",
            "scripts", "settings"}

MCInit ==
  /\ part \in MCParts
  /\ ConsoleInit
  /\ Init /\ Zlib!Init /\ Talk!Init /\ Canvas!Init
  /\ part # "stream" => stream = 1
  /\ part # "view" => ~clip
  /\ part # "page" => saved = [s \in DOMAIN saved |-> FALSE]
  /\ part # "talk" => ~conf.true_color /\ ~conf.local_cursor
  /\ part # "pixels" => ~true_color /\ display.w = 9 /\ screen = [p \in Area |-> 1]
  /\ part # "auth" => challenge = [i \in 1 .. 16 |-> 0]
  /\ part # "scripts" => engine = "webkit"
  /\ part # "settings" => ~chrome /\ ~cursorUri

MCNext ==
  \/ /\ UNCHANGED <<part, wireVars>>
     /\ \/ part = "view" /\ ViewSteps
        \/ part = "keys" /\ KeysSteps
        \/ part = "mouse" /\ MouseSteps
        \/ part = "page" /\ PageSteps
        \/ part = "scripts" /\ ScriptsSteps
        \/ part = "settings" /\ SettingsSteps
        \/ part = "auth" /\ AuthSteps
  \/ /\ UNCHANGED <<part, consoleVars>>
     /\ \/ part = "stream" /\ Next /\ UNCHANGED <<zlibVars, talkVars, pixelVars>>
        \/ part = "zlib" /\ Zlib!Next /\ UNCHANGED <<vars, talkVars, pixelVars>>
        \/ part = "talk" /\ Talk!Next /\ UNCHANGED <<vars, zlibVars, pixelVars>>
        \/ part = "pixels" /\ Canvas!Next /\ UNCHANGED <<vars, zlibVars, talkVars>>

MCSpec == MCInit /\ [][MCNext]_<<part, consoleVars, wireVars>> /\ Fairness

-----------------------------------------------------------------------------
(* The properties of the parts below; the modules state them.              *)

\* Inflate: what comes out of a chunk is what the server compressed into it.
Inflated == Zlib!Inflated
\* Sending: what the server has heard and what still waits reads as what the
\* console meant, and the console gets the bytes the server sent.
SameWords == Talk!SameWords
\* Pixels: what is painted is what the server shows, in its colours.
PixelsAgree == Canvas!PixelsAgree

=============================================================================

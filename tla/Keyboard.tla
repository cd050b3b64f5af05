------------------------------ MODULE Keyboard ------------------------------
(***************************************************************************)
(* The keys of the browser on their way to the guest: input.js turns       *)
(* keydown, keypress and keyup into keysyms that go down and up, and keeps *)
(* in keyDownList what it has to release when the keyup is not seen.       *)
(*                                                                         *)
(* A keypress is the browser's next event after its keydown, so both are   *)
(* one step here.                                                          *)
(***************************************************************************)
EXTENDS Integers, Sequences

CONSTANTS
  Keys,         \* the keyCodes of the keys of the keyboard
  Shift, Ctrl,  \* the keyCodes of two of them
  DeadKey,      \* a key whose keydown says 229 and that has no keypress
  Typed(_, _),  \* the character code of a key without and with shift, 0: none
  ListMax       \* bound: length of keyDownList

VARIABLES
  keyDownList,  \* input.js: records [keyCode, keysym]
  focused,      \* input.js: conf.focused, which ui.js sets
  grabbed,      \* the handlers are installed
  view_only,    \* rfb.js: conf.view_only
  inWindow,     \* the browser window has the focus of the desktop
  held,         \* keys that are down on the desk
  serverDown    \* keysyms that are down in the guest

vars == <<keyDownList, focused, grabbed, view_only, inWindow, held, serverDown>>

-----------------------------------------------------------------------------
(* getKeysymSpecial: the keysym of a key that must not wait for a keypress, *)
(* or 0.                                                                    *)

\* Keys with the same keysym in both events, and those of a keydown.
Both == [k \in {8, 13, 9} |-> CASE k = 8 -> 65288 [] k = 13 -> 65293 [] k = 9 -> 65289]
Navigation == [k \in 33 .. 40 |->
                 <<65365, 65366, 65367, 65360, 65361, 65362, 65363, 65364>>[k - 32]]
Others == [k \in {16, 17, 18, 27, 45, 46, 91, 93, 225} |->
             CASE k = 16 -> 65505 [] k = 17 -> 65507 [] k = 18 -> 65513 [] k = 27 -> 65307
               [] k = 45 -> 65379 [] k = 46 -> 65535 [] k = 91 -> 65516 [] k = 93 -> 65383
               [] k = 225 -> 65027]
Function(k) == 65470 + (k - 112)

\* "Remap symbols", "Remap shifted and unshifted keys"; gecko: Firefox.
Symbol(code, gecko) ==
  CASE code = 186 -> 59 [] code = 187 -> 61 [] code = 188 -> 44 [] code = 189 -> 45
    [] code = 190 -> 46 [] code = 191 -> 47 [] code = 192 -> 96
    [] code \in 219 .. 221 -> code - 128 [] code = 222 -> 39
    [] code \in {109, 173} /\ gecko -> 45
    [] OTHER -> code
Shifted(sym) ==
  CASE sym \in 48 .. 57 -> <<41, 33, 64, 35, 36, 37, 94, 38, 42, 40>>[sym - 47]
    [] sym = 59 -> 58 [] sym = 61 -> 43 [] sym = 44 -> 60 [] sym = 45 -> 95
    [] sym = 46 -> 62 [] sym = 47 -> 63 [] sym = 96 -> 126
    [] sym \in 91 .. 93 -> sym + 32 [] sym = 39 -> 34
    [] OTHER -> sym
Numpad(sym) ==
  CASE sym \in 96 .. 105 -> sym - 48 [] sym = 109 -> 45 [] sym = 110 -> 46 [] sym = 111 -> 47
    [] OTHER -> sym
Unshifted(sym, numpad) ==
  IF sym \in 65 .. 90 THEN sym + 32 ELSE IF numpad THEN Numpad(sym) ELSE sym

\* An event is [type, keyCode, which, ctrl, shift, numpad, gecko].
Remapped(e) ==
  LET sym == Symbol(IF e.which > 0 THEN e.which ELSE e.keyCode, e.gecko)
  IN IF e.shift THEN Shifted(sym) ELSE Unshifted(sym, e.numpad)
getKeysymSpecial(e) ==
  CASE e.keyCode \in DOMAIN Both -> Both[e.keyCode]
    [] e.type = "keydown" /\ e.keyCode \in DOMAIN Navigation -> Navigation[e.keyCode]
    [] e.type = "keydown" /\ e.keyCode \in DOMAIN Others -> Others[e.keyCode]
    [] e.type = "keydown" /\ e.keyCode \in 112 .. 123 -> Function(e.keyCode)
    [] OTHER -> IF e.ctrl THEN Remapped(e) ELSE 0

\* getKeysym: within Latin 1 the character itself, beyond it what unicodeTable
\* has for it (here two of its entries), or nothing.
unicodeTable == [c \in {261, 8364} |-> IF c = 261 THEN 433 ELSE c]
getKeysym(e) ==
  LET code == IF e.which > 0 THEN e.which ELSE e.keyCode
  IN IF code <= 255 \/ code >= 65280 THEN code
     ELSE IF code \in DOMAIN unicodeTable THEN unicodeTable[code] ELSE 0

ignoreKeyEvent(e) == e.keyCode = 229

\* Keys that print nothing have no character; of those that have a keysym in
\* both events it is, if there is one, one of them.
KeyboardAssumption ==
  /\ Keys \subseteq Nat
  /\ \A k \in Keys, s \in BOOLEAN : Typed(k, s) \in Nat
  /\ \A k \in Keys, s \in BOOLEAN :
       k \in (33 .. 40) \cup DOMAIN Others \cup (112 .. 123) => Typed(k, s) = 0
  /\ \A k \in Keys, s \in BOOLEAN : k \in DOMAIN Both => Typed(k, s) \in {0} \cup DOMAIN Both

\* What the browser says of a key (external).
KeyDownEvent(k, gecko) ==
  [type |-> "keydown", keyCode |-> IF k = DeadKey THEN 229 ELSE k,
   which |-> IF k = DeadKey THEN 229 ELSE k, ctrl |-> Ctrl \in held,
   shift |-> Shift \in held, numpad |-> FALSE, gecko |-> gecko]
KeyPressEvent(k, gecko) ==
  [type |-> "keypress", keyCode |-> IF gecko /\ Typed(k, Shift \in held) >= 32 THEN 0
                                      ELSE Typed(k, Shift \in held),
   which |-> Typed(k, Shift \in held), ctrl |-> Ctrl \in held,
   shift |-> Shift \in held, numpad |-> FALSE, gecko |-> gecko]

-----------------------------------------------------------------------------
(* keyDownList.                                                            *)

pushKeyEvent(list, keyCode, keysym) == Append(list, [keyCode |-> keyCode, keysym |-> keysym])

\* The last entry of the key, as getKeyEvent finds it; 0: none.
Entry(list, k) ==
  LET at == {i \in 1 .. Len(list) : list[i].keyCode = k}
  IN IF at = {} THEN 0 ELSE CHOOSE i \in at : \A j \in at : j <= i
Spliced(list, i) ==
  [j \in 1 .. Len(list) - 1 |-> IF j < i THEN list[j] ELSE list[j + 1]]

\* onKeyPress writes into the entry of the keydown just before it.
Last(list, sym) == [list EXCEPT ![Len(list)].keysym = sym]
NoLast(list, sym) == list   \* mutant: the keypress is not remembered
Noted(list, sym) == Last(list, sym)

\* rfb.js keyPress: what the guest has down after a keysym goes down or up.
Sent(down, syms) ==
  IF view_only THEN serverDown
  ELSE IF down THEN serverDown \cup syms ELSE serverDown \ syms
Keysyms(list) == {list[i].keysym : i \in 1 .. Len(list)}

-----------------------------------------------------------------------------
(* Actions.                                                                *)

\* onKeyPress does not take: Firefox (gecko) fires the keypress of a suppressed
\* key too, and onKeyPress must know it again.
Ignored(special, press) ==
  \/ special > 0 /\ ~press.gecko
  \/ press.which = 0
  \/ getKeysymSpecial(press) > 0

\* onKeyDown, and the onKeyPress that follows it.
Pressed(k, gecko) ==
  LET down == KeyDownEvent(k, gecko)
      press == KeyPressEvent(k, gecko)
      special == getKeysymSpecial(down)
      pushed == pushKeyEvent(keyDownList, k, special)
      typed == getKeysym(press)
  IN IF ignoreKeyEvent(down) THEN UNCHANGED <<keyDownList, serverDown>>
     ELSE IF Ignored(special, press)
     THEN /\ keyDownList' = pushed
          /\ serverDown' = Sent(TRUE, {special} \ {0})
     ELSE /\ keyDownList' = Noted(pushed, typed)
          /\ serverDown' = Sent(TRUE, {special, typed} \ {0})

\* A key goes down, or repeats while it is held.
Press(k, gecko) ==
  /\ inWindow
  /\ held' = held \cup {k}
  /\ IF grabbed /\ focused THEN Len(keyDownList) < ListMax /\ Pressed(k, gecko)
     ELSE UNCHANGED <<keyDownList, serverDown>>
  /\ UNCHANGED <<focused, grabbed, view_only, inWindow>>

\* onKeyUp: the key as it was when it went down.
Released(k) ==
  LET i == Entry(keyDownList, k)
  IN IF i = 0 THEN UNCHANGED <<keyDownList, serverDown>>
     ELSE /\ keyDownList' = Spliced(keyDownList, i)
          /\ serverDown' = Sent(FALSE, {keyDownList[i].keysym})

\* A key is released, in the window or outside of it.
Release(k) ==
  /\ k \in held
  /\ held' = held \ {k}
  /\ IF inWindow /\ grabbed /\ focused THEN Released(k) ELSE UNCHANGED <<keyDownList, serverDown>>
  /\ UNCHANGED <<focused, grabbed, view_only, inWindow>>

\* allKeysUp: every keysym of the list goes up.
AllKeysUp ==
  /\ keyDownList' = <<>>
  /\ serverDown' = Sent(FALSE, Keysyms(keyDownList))

\* The window loses the focus of the desktop, and gets it again.
Blur ==
  /\ inWindow
  /\ inWindow' = FALSE
  /\ IF grabbed THEN AllKeysUp ELSE UNCHANGED <<keyDownList, serverDown>>
  /\ UNCHANGED <<focused, grabbed, view_only, held>>
Return ==
  /\ ~inWindow
  /\ inWindow' = TRUE
  /\ UNCHANGED <<keyDownList, focused, grabbed, view_only, held, serverDown>>

\* displayBlur and displayFocus of ui.js: the field of the clipboard.
SetFocused(on) ==
  /\ focused # on
  /\ focused' = on
  /\ UNCHANGED <<keyDownList, grabbed, view_only, inWindow, held, serverDown>>

\* sendCtrlAltDel: three keysyms down, and up again.
SendCtrlAltDel ==
  /\ grabbed
  /\ serverDown' = Sent(FALSE, {65507, 65513, 65535})
  /\ UNCHANGED <<keyDownList, focused, grabbed, view_only, inWindow, held>>

\* A session begins: a guest with no key down; it ends: ungrab.
Grab(only) ==
  /\ ~grabbed
  /\ grabbed' = TRUE
  /\ view_only' = only
  /\ serverDown' = {}
  /\ UNCHANGED <<keyDownList, focused, inWindow, held>>
Ungrab ==
  /\ grabbed
  /\ grabbed' = FALSE
  /\ AllKeysUp
  /\ UNCHANGED <<focused, view_only, inWindow, held>>

Init ==
  /\ keyDownList = <<>> /\ focused = TRUE /\ grabbed = FALSE /\ view_only = FALSE
  /\ inWindow = TRUE /\ held = {} /\ serverDown = {}

Next ==
  \/ \E k \in Keys, gecko \in BOOLEAN : Press(k, gecko)
  \/ \E k \in Keys : Release(k)
  \/ \E on \in BOOLEAN : SetFocused(on) \/ Grab(on)
  \/ Blur \/ Return \/ SendCtrlAltDel \/ Ungrab

Spec == Init /\ [][Next]_vars

-----------------------------------------------------------------------------
(* Properties.                                                             *)

\* Whatever the guest has down, keyDownList knows: however keys repeat, change
\* their character while they are held, and are released where nobody sees it,
\* the next blur or end of the session releases all of it.
Remembered ==
  /\ serverDown \subseteq Keysyms(keyDownList)
  /\ ~grabbed \/ ~inWindow => keyDownList = <<>> /\ serverDown = {}

-----------------------------------------------------------------------------
(* What Remembered rests on: a guest that is only viewed has no key down.  *)

Downs == [keyCode : Int, keysym : Int]
Listed == Seq(Downs)
KeysTypeOK == keyDownList \in Listed /\ serverDown \in SUBSET Int
KeysInv == KeysTypeOK /\ Remembered /\ (view_only => serverDown = {})

=============================================================================

-------------------------------- MODULE Auth --------------------------------
(***************************************************************************)
(* The VNC authentication of rfb.js: a challenge of 16 bytes is answered   *)
(* with its DES encryption under the password (des.js).  What happens      *)
(* before and after is in Rfb; here the bytes count.  A word of 32 bits is *)
(* the set of its bits, bit 0 is the lowest one.                           *)
(***************************************************************************)
EXTENDS Sequences, Integers, FiniteSets

CONSTANTS
  Passwords,   \* sequences of bytes, the empty one among them
  Challenges   \* sequences of 16 bytes

Byte == 0 .. 255
AuthAssumption ==
  Passwords \subseteq Seq(Byte) /\ \A c \in Challenges : c \in Seq(Byte) /\ Len(c) = 16

VARIABLES
  rfb_state, rfb_password,
  timer,       \* the init_msg of sendPassword is still to run
  challenge,   \* the one the server made
  unsent,      \* what the server has not sent of it
  rQ,          \* the receive queue
  response     \* what the console answered

vars == <<rfb_state, rfb_password, timer, challenge, unsent, rQ, response>>

-----------------------------------------------------------------------------
(* Words.                                                                  *)

Bits == 0 .. 31
Xor(x, y) == (x \ y) \cup (y \ x)
Shl(x, n) == {k + n : k \in x} \cap Bits
Shr(x, n) == {k - n : k \in x} \cap Bits
RotlUnsigned(x, n) == Shl(x, n)   \* mutant: the bits that leave are lost
Rotl(x, n) == Shl(x, n) \cup Shr(x, 32 - n)
Number(x, n) ==
  LET Sum[k \in 0 .. n] == IF k = 0 THEN 0 ELSE Sum[k - 1] + (IF k - 1 \in x THEN 2^(k - 1) ELSE 0)
  IN Sum[n]
\* Four bytes as a word, the first is the highest, and a byte of a word.
Word(b) == {k \in Bits : (b[4 - k \div 8] \div 2^(k % 8)) % 2 = 1}
ByteOf(x, i) == Number({k - 8 * (4 - i) : k \in x}, 8)

-----------------------------------------------------------------------------
(* des.js: its tables.  An entry of SP is 4 * h + l: h picks no bit, a, b  *)
(* or both, l picks no bit, d, e or both.                                  *)

PC2 == <<13, 16, 10, 23, 0, 4, 2, 27, 14, 5, 20, 9, 22, 18, 11, 3, 25, 7, 15, 6, 26, 19, 12, 1,
        40, 51, 30, 36, 46, 54, 29, 39, 50, 44, 32, 47, 43, 48, 38, 55, 33, 52, 45, 41, 49, 35, 28, 31>>
totrot == <<1, 2, 4, 6, 8, 10, 12, 14, 15, 17, 19, 21, 23, 25, 27, 28>>
Places == << \* a, b, d, e
  <<16, 24, 2, 10>>, <<20, 31, 5, 15>>, <<17, 27, 3, 9>>, <<13, 23, 0, 7>>, <<25, 30, 8, 19>>,
  <<22, 29, 4, 14>>, <<21, 26, 1, 11>>, <<18, 28, 6, 12>> >>
SP == <<
  <<14, 0, 4, 15, 13, 7, 1, 4, 2, 14, 15, 2, 11, 13, 8, 1, 3, 10, 10, 6, 6, 12, 12, 11, 5, 9, 9, 5, 0, 3, 7, 8,
    4, 15, 1, 12, 14, 8, 8, 2, 13, 4, 6, 9, 2, 1, 11, 7, 15, 5, 12, 11, 9, 3, 7, 14, 3, 10, 10, 0, 5, 6, 0, 13>>,
  <<15, 10, 2, 7, 4, 1, 13, 11, 9, 15, 14, 8, 10, 4, 1, 13, 6, 5, 11, 0, 8, 2, 7, 12, 5, 9, 0, 6, 3, 14, 12, 3,
    0, 7, 13, 4, 11, 12, 14, 2, 12, 10, 1, 15, 7, 1, 2, 8, 3, 14, 4, 9, 5, 11, 9, 5, 6, 0, 10, 3, 8, 13, 15, 6>>,
  <<3, 14, 0, 13, 10, 0, 7, 10, 5, 9, 9, 4, 15, 5, 12, 3, 8, 1, 14, 2, 6, 12, 13, 7, 11, 6, 4, 11, 1, 15, 2, 8,
    14, 8, 5, 3, 4, 14, 10, 0, 2, 5, 15, 10, 9, 2, 0, 13, 11, 4, 8, 15, 1, 7, 6, 9, 12, 11, 3, 12, 7, 1, 13, 6>>,
  <<13, 7, 7, 2, 14, 11, 9, 5, 0, 12, 12, 15, 3, 0, 10, 9, 1, 4, 8, 13, 2, 8, 5, 6, 11, 1, 6, 10, 4, 14, 15, 3,
    10, 9, 12, 15, 3, 0, 0, 12, 6, 10, 11, 1, 13, 7, 7, 2, 15, 3, 1, 4, 9, 5, 14, 11, 5, 6, 8, 13, 2, 8, 4, 14>>,
  <<1, 7, 6, 13, 2, 1, 8, 6, 11, 2, 5, 11, 13, 14, 3, 8, 4, 10, 10, 0, 9, 15, 15, 5, 14, 9, 0, 12, 7, 4, 12, 3,
    2, 13, 1, 4, 8, 6, 13, 11, 5, 8, 14, 7, 11, 1, 4, 14, 15, 3, 12, 15, 6, 0, 10, 12, 3, 5, 9, 2, 0, 10, 7, 9>>,
  <<9, 12, 2, 15, 12, 1, 15, 4, 10, 7, 4, 9, 5, 10, 8, 3, 0, 5, 11, 2, 6, 11, 1, 13, 13, 0, 7, 14, 3, 6, 14, 8,
    10, 1, 13, 6, 15, 4, 3, 9, 4, 10, 8, 3, 9, 15, 6, 12, 7, 14, 0, 13, 1, 2, 12, 7, 2, 5, 11, 0, 14, 8, 5, 11>>,
  <<4, 13, 11, 0, 2, 11, 7, 14, 15, 4, 0, 9, 1, 8, 13, 3, 10, 7, 5, 10, 9, 12, 14, 5, 12, 2, 3, 15, 6, 1, 8, 6,
    8, 6, 4, 11, 11, 13, 13, 1, 5, 8, 10, 4, 14, 3, 7, 14, 3, 9, 15, 12, 6, 0, 1, 15, 0, 7, 12, 2, 9, 10, 2, 5>>,
  <<11, 2, 4, 15, 8, 11, 1, 8, 5, 12, 15, 6, 14, 7, 2, 1, 12, 9, 10, 3, 6, 5, 13, 14, 3, 0, 0, 13, 9, 10, 7, 4,
    7, 4, 14, 2, 1, 13, 2, 7, 10, 1, 9, 12, 13, 8, 4, 11, 0, 15, 5, 9, 12, 10, 11, 0, 15, 6, 6, 3, 3, 5, 8, 14>> >>
Entry(t, i) ==
  LET h == SP[t][i + 1]
  IN {Places[t][p] : p \in {q \in 1 .. 4 : (h \div <<4, 8, 1, 2>>[q]) % 2 = 1}}

\* setKeys: which bit of the password comes next.
PC1[j \in 0 .. 55] ==
  LET l == PC1[j - 1] - 8
  IN IF j = 0 THEN 56
     ELSE CASE l < -5 -> l + 65 [] l \in {-5, -4} -> l + 31 [] l \in {-3, -2} -> l + 63
            [] l = 27 -> l + 35 [] OTHER -> l
\* A password that is too short has undefined bytes, which have no bits.
KeyBit(keyBlock, l) ==
  l \div 8 < Len(keyBlock) /\ (keyBlock[l \div 8 + 1] \div 2^(l % 8)) % 2 = 1

\* The key of a round: two halves are rotated, 48 bits chosen, and (cookey) put
\* where the tables want them.
Chosen(keyBlock, round, from) ==
  LET Half(j) == IF j < 28 THEN 28 ELSE 56
      Rotated(j) == IF j + totrot[round] < Half(j) THEN j + totrot[round] ELSE j + totrot[round] - 28
  IN {23 - j : j \in {k \in 0 .. 23 : KeyBit(keyBlock, PC1[Rotated(PC2[k + from])])}}
setKeys(keyBlock) ==
  LET Keys(round) ==
        LET raw0 == Chosen(keyBlock, round, 1)
            raw1 == Chosen(keyBlock, round, 25)
        IN << Shl(raw0 \cap 18 .. 23, 6) \cup Shl(raw0 \cap 6 .. 11, 10)
                \cup Shr(raw1 \cap 18 .. 23, 10) \cup Shr(raw1 \cap 6 .. 11, 6),
              Shl(raw0 \cap 12 .. 17, 12) \cup Shl(raw0 \cap 0 .. 5, 16)
                \cup Shr(raw1 \cap 12 .. 17, 4) \cup (raw1 \cap 0 .. 5) >>
  IN <<>> \o [round \in 1 .. 16 |-> Keys(round)]

\* Bits of a and b change places: those of b in the mask with those of a that
\* stand n higher.
Exchange(s, n, mask) ==
  LET x == Xor(Shr(s.a, n), s.b) \cap mask
  IN [a |-> Xor(s.a, Shl(x, n)), b |-> Xor(s.b, x)]
Turned(s) == [a |-> s.b, b |-> s.a]
Mask(period) == {k \in Bits : k % period < period \div 2}
Odd == {k \in Bits : k % 2 = 1}

InitialPermutation(s) ==
  LET lr == Exchange(Exchange(s, 4, Mask(8)), 16, Mask(32))
      rl == Exchange(Exchange(Turned(lr), 2, Mask(4)), 8, Mask(16))
      t == Exchange([a |-> rl.b, b |-> Rotl(rl.a, 1)], 0, Odd)
  IN [a |-> Rotl(t.a, 1), b |-> t.b]
FinalPermutation(s) ==
  LET t == Exchange([s EXCEPT !.b = Rotl(@, 31)], 0, Odd)
      lr == Exchange(Exchange([t EXCEPT !.a = Rotl(@, 31)], 8, Mask(16)), 2, Mask(4))
  IN Exchange(Exchange(Turned(lr), 16, Mask(32)), 4, Mask(8))

Fval(v, key) ==
  LET Six(x, n) == Number({k - n : k \in x}, 6)
      x == Xor(Rotl(v, 28), key[1])
      y == Xor(v, key[2])
  IN Entry(7, Six(x, 0)) \cup Entry(5, Six(x, 8)) \cup Entry(3, Six(x, 16)) \cup Entry(1, Six(x, 24))
       \cup Entry(8, Six(y, 0)) \cup Entry(6, Six(y, 8)) \cup Entry(4, Six(y, 16)) \cup Entry(2, Six(y, 24))
\* The rounds take turns in changing l (a) and r (b).
Rounds(keys, l, r) ==
  LET To[i \in 0 .. 16] ==
        LET s == To[i - 1]
        IN IF i = 0 THEN InitialPermutation([a |-> l, b |-> r])
           ELSE IF i % 2 = 1 THEN [s EXCEPT !.a = Xor(@, Fval(s.b, keys[i]))]
           ELSE [s EXCEPT !.b = Xor(@, Fval(s.a, keys[i]))]
  IN To[16]
Spread(s) == [i \in 1 .. 8 |-> IF i <= 4 THEN ByteOf(s.a, i) ELSE ByteOf(s.b, i - 4)]
enc8(keys, text) ==
  Spread(FinalPermutation(Rounds(keys, Word(SubSeq(text, 1, 4)), Word(SubSeq(text, 5, 8)))))
encrypt(keys, t) == enc8(keys, SubSeq(t, 1, 8)) \o enc8(keys, SubSeq(t, 9, 16))
genDES(password, text) == encrypt(setKeys(password), text)

-----------------------------------------------------------------------------
(* rfb.js.                                                                 *)

\* init_msg with what is on the queue.
Authentication(queue) ==
  IF rfb_password = <<>> THEN rfb_state' = "password" /\ rQ' = queue /\ UNCHANGED response
  ELSE IF Len(queue) < 16 THEN rQ' = queue /\ UNCHANGED <<rfb_state, response>>
  ELSE /\ response' = genDES(rfb_password, SubSeq(queue, 1, 16))
       /\ rQ' = SubSeq(queue, 17, Len(queue))
       /\ rfb_state' = "SecurityResult"
init_msg(queue) ==
  IF rfb_state = "Authentication" THEN Authentication(queue)
  ELSE rQ' = queue /\ UNCHANGED <<rfb_state, response>>

\* The server chose VNC authentication; no challenge is here yet.
Connect(password) ==
  /\ rfb_state = "Security"
  /\ rfb_password' = password
  /\ rfb_state' = (IF password = <<>> THEN "password" ELSE "Authentication")
  /\ UNCHANGED <<timer, challenge, unsent, rQ, response>>

\* The user types a password, which may be empty.
sendPassword(password) ==
  /\ rfb_state = "password"
  /\ rfb_password' = password /\ rfb_state' = "Authentication" /\ timer' = TRUE
  /\ UNCHANGED <<challenge, unsent, rQ, response>>
Timer ==
  /\ timer /\ timer' = FALSE
  /\ init_msg(rQ)
  /\ UNCHANGED <<rfb_password, challenge, unsent>>

Receive(n) ==
  /\ rfb_state # "Security" /\ n <= Len(unsent)
  /\ unsent' = SubSeq(unsent, n + 1, Len(unsent))
  /\ init_msg(rQ \o SubSeq(unsent, 1, n))
  /\ UNCHANGED <<rfb_password, timer, challenge>>

Init ==
  /\ rfb_state = "Security" /\ rfb_password = <<>> /\ timer = FALSE
  /\ challenge \in Challenges /\ unsent = challenge
  /\ rQ = <<>> /\ response = <<>>

Next ==
  \/ \E password \in Passwords : Connect(password) \/ sendPassword(password)
  \/ \E n \in {5, 11, 16} : Receive(n)
  \/ Timer

Spec == Init /\ [][Next]_vars

-----------------------------------------------------------------------------
(* The server (external): DES as FIPS 46 says, bit 1 is the highest one of *)
(* the first byte, and the key has the bits of each byte of the password   *)
(* the other way round.  (The empty sequence in front makes TLC evaluate   *)
(* the elements once.)                                                     *)

Choice(s, places) == <<>> \o [i \in 1 .. Len(places) |-> s[places[i]]]
DesIP == [i \in 1 .. 64 |-> <<58, 60, 62, 64, 57, 59, 61, 63>>[(i - 1) \div 8 + 1] - 8 * ((i - 1) % 8)]
DesE == [i \in 1 .. 48 |-> ((4 * ((i - 1) \div 6) + ((i - 1) % 6) + 31) % 32) + 1]
DesP == <<16, 7, 20, 21, 29, 12, 28, 17, 1, 15, 23, 26, 5, 18, 31, 10, 2, 8, 24, 14, 32, 27, 3, 9, 19, 13, 30, 6, 22, 11, 4, 25>>
DesPC1 == <<57, 49, 41, 33, 25, 17, 9, 1, 58, 50, 42, 34, 26, 18, 10, 2, 59, 51, 43, 35, 27, 19, 11, 3, 60, 52, 44, 36,
           63, 55, 47, 39, 31, 23, 15, 7, 62, 54, 46, 38, 30, 22, 14, 6, 61, 53, 45, 37, 29, 21, 13, 5, 28, 20, 12, 4>>
DesPC2 == <<14, 17, 11, 24, 1, 5, 3, 28, 15, 6, 21, 10, 23, 19, 12, 4, 26, 8, 16, 7, 27, 20, 13, 2,
           41, 52, 31, 37, 47, 55, 30, 40, 51, 45, 33, 48, 44, 49, 39, 56, 34, 53, 46, 42, 50, 36, 29, 32>>
DesShifts == <<1, 1, 2, 2, 2, 2, 2, 2, 1, 2, 2, 2, 2, 2, 2, 1>>
DesS == <<
  <<14, 4, 13, 1, 2, 15, 11, 8, 3, 10, 6, 12, 5, 9, 0, 7, 0, 15, 7, 4, 14, 2, 13, 1, 10, 6, 12, 11, 9, 5, 3, 8,
    4, 1, 14, 8, 13, 6, 2, 11, 15, 12, 9, 7, 3, 10, 5, 0, 15, 12, 8, 2, 4, 9, 1, 7, 5, 11, 3, 14, 10, 0, 6, 13>>,
  <<15, 1, 8, 14, 6, 11, 3, 4, 9, 7, 2, 13, 12, 0, 5, 10, 3, 13, 4, 7, 15, 2, 8, 14, 12, 0, 1, 10, 6, 9, 11, 5,
    0, 14, 7, 11, 10, 4, 13, 1, 5, 8, 12, 6, 9, 3, 2, 15, 13, 8, 10, 1, 3, 15, 4, 2, 11, 6, 7, 12, 0, 5, 14, 9>>,
  <<10, 0, 9, 14, 6, 3, 15, 5, 1, 13, 12, 7, 11, 4, 2, 8, 13, 7, 0, 9, 3, 4, 6, 10, 2, 8, 5, 14, 12, 11, 15, 1,
    13, 6, 4, 9, 8, 15, 3, 0, 11, 1, 2, 12, 5, 10, 14, 7, 1, 10, 13, 0, 6, 9, 8, 7, 4, 15, 14, 3, 11, 5, 2, 12>>,
  <<7, 13, 14, 3, 0, 6, 9, 10, 1, 2, 8, 5, 11, 12, 4, 15, 13, 8, 11, 5, 6, 15, 0, 3, 4, 7, 2, 12, 1, 10, 14, 9,
    10, 6, 9, 0, 12, 11, 7, 13, 15, 1, 3, 14, 5, 2, 8, 4, 3, 15, 0, 6, 10, 1, 13, 8, 9, 4, 5, 11, 12, 7, 2, 14>>,
  <<2, 12, 4, 1, 7, 10, 11, 6, 8, 5, 3, 15, 13, 0, 14, 9, 14, 11, 2, 12, 4, 7, 13, 1, 5, 0, 15, 10, 3, 9, 8, 6,
    4, 2, 1, 11, 10, 13, 7, 8, 15, 9, 12, 5, 6, 3, 0, 14, 11, 8, 12, 7, 1, 14, 2, 13, 6, 15, 0, 9, 10, 4, 5, 3>>,
  <<12, 1, 10, 15, 9, 2, 6, 8, 0, 13, 3, 4, 14, 7, 5, 11, 10, 15, 4, 2, 7, 12, 9, 5, 6, 1, 13, 14, 0, 11, 3, 8,
    9, 14, 15, 5, 2, 8, 12, 3, 7, 0, 4, 10, 1, 13, 11, 6, 4, 3, 2, 12, 9, 5, 15, 10, 11, 14, 1, 7, 6, 0, 8, 13>>,
  <<4, 11, 2, 14, 15, 0, 8, 13, 3, 12, 9, 7, 5, 10, 6, 1, 13, 0, 11, 7, 4, 9, 1, 10, 14, 3, 5, 12, 2, 15, 8, 6,
    1, 4, 11, 13, 12, 3, 7, 14, 10, 15, 6, 8, 0, 5, 9, 2, 6, 11, 13, 8, 1, 4, 10, 7, 9, 5, 0, 15, 14, 2, 3, 12>>,
  <<13, 2, 8, 4, 6, 15, 11, 1, 10, 9, 3, 14, 5, 0, 12, 7, 1, 15, 13, 8, 10, 3, 7, 4, 12, 5, 6, 11, 0, 14, 9, 2,
    7, 11, 4, 1, 9, 12, 14, 2, 0, 6, 10, 13, 15, 3, 5, 8, 2, 1, 14, 7, 4, 10, 8, 13, 15, 12, 9, 0, 3, 5, 6, 11>> >>

ToBits(bytes) ==
  <<>> \o [i \in 1 .. 8 * Len(bytes) |-> (bytes[(i - 1) \div 8 + 1] \div 2^(7 - ((i - 1) % 8))) % 2]
Value(bits) ==
  LET Sum[i \in 0 .. Len(bits)] == IF i = 0 THEN 0 ELSE 2 * Sum[i - 1] + bits[i] IN Sum[Len(bits)]
Mirrored(password) ==
  [i \in 1 .. 64 |-> LET k == (i - 1) \div 8 + 1
                     IN IF k > Len(password) THEN 0 ELSE (password[k] \div 2^((i - 1) % 8)) % 2]
DesSum(s, t) == <<>> \o [i \in 1 .. Len(s) |-> (s[i] + t[i]) % 2]

DesKey(key, round) ==
  LET Left[n \in 0 .. 16] == IF n = 0 THEN 0 ELSE Left[n - 1] + DesShifts[n]
      Turn(half) == [i \in 1 .. 28 |-> half[((i - 1 + Left[round]) % 28) + 1]]
      k == Choice(key, DesPC1)
  IN Choice(Turn(SubSeq(k, 1, 28)) \o Turn(SubSeq(k, 29, 56)), DesPC2)
DesF(r, key) ==
  LET x == DesSum(Choice(r, DesE), key)
      Box(b) == DesS[b][16 * (2 * x[6 * b - 5] + x[6 * b]) + Value(SubSeq(x, 6 * b - 4, 6 * b - 1)) + 1]
  IN Choice([i \in 1 .. 32 |-> (Box((i - 1) \div 4 + 1) \div 2^(3 - ((i - 1) % 4))) % 2], DesP)
Des(key, block) ==
  LET start == Choice(ToBits(block), DesIP)
      To[n \in 0 .. 16] ==
        LET s == To[n - 1]
        IN IF n = 0 THEN [l |-> SubSeq(start, 1, 32), r |-> SubSeq(start, 33, 64)]
           ELSE [l |-> s.r, r |-> DesSum(s.l, DesF(s.r, DesKey(key, n)))]
      out == To[16].r \o To[16].l
      From(i) == CHOOSE j \in 1 .. 64 : DesIP[j] = i
  IN [b \in 1 .. 8 |-> Value([i \in 1 .. 8 |-> out[From(8 * (b - 1) + i)]])]
ExpectedOf(password, text) ==
  Des(Mirrored(password), SubSeq(text, 1, 8)) \o Des(Mirrored(password), SubSeq(text, 9, 16))

-----------------------------------------------------------------------------
(* Properties.                                                             *)

\* However the challenge arrived, before or after the password, in one piece or
\* in two: the console answers once it has both, with what the server of that
\* password expects, byte for byte, and leaves nothing of the challenge behind.
Accepted ==
  /\ (rfb_state = "SecurityResult") <=> (response # <<>>)
  /\ response # <<>> => response = ExpectedOf(rfb_password, challenge) /\ rQ = <<>>
  /\ rfb_state = "Authentication" /\ ~timer => rfb_password # <<>> /\ Len(rQ) < 16

\* What is about bytes alone: the tables and rounds of des.js, looked up and
\* shifted, come to the DES of FIPS 46.
ComputesDes == \A p \in Passwords \ {<<>>}, c \in Challenges : genDES(p, c) = ExpectedOf(p, c)

\* What is about order, and inductive: nothing of the challenge is lost or read
\* twice before the answer, which is that of des.js to all of it.
AuthInv ==
  /\ rfb_state \in {"Security", "password", "Authentication", "SecurityResult"}
  /\ rfb_password \in Passwords \cup {<<>>} /\ timer \in BOOLEAN /\ challenge \in Challenges
  /\ rQ \in Seq(Byte) /\ unsent \in Seq(Byte)
  /\ rfb_state = "Security" => rQ = <<>>
  /\ rfb_state # "SecurityResult" => challenge = rQ \o unsent /\ response = <<>>
  /\ rfb_state = "SecurityResult" =>
       /\ rfb_password # <<>> /\ rQ = <<>> /\ unsent = <<>>
       /\ response = genDES(rfb_password, challenge) /\ response # <<>>
  /\ rfb_state = "Authentication" /\ ~timer => rfb_password # <<>> /\ Len(rQ) < 16

=============================================================================

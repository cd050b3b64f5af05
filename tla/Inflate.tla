------------------------------- MODULE Inflate -------------------------------
(***************************************************************************)
(* jsunzip.js: the zlib streams of TIGHT.  The server keeps up to four     *)
(* streams for a session, compresses the pixels of a rectangle with one of *)
(* them, flushes it to a byte, and sends what came out as one chunk.  rfb  *)
(* hands every chunk to the decoder of its stream, which keeps the history *)
(* for references into earlier chunks.                                     *)
(*                                                                         *)
(* A number that serves as a store of bits is the set of its bits.         *)
(***************************************************************************)
EXTENDS Integers, Sequences, FiniteSets

CONSTANTS
  StreamIds,    \* the streams of a session: four in TIGHT
  Chunks,       \* what a chunk may hold: sequences of blocks
  WINDOW_SIZE,  \* how far back the server may refer
  MaxChunks     \* bound: chunks of a session

VARIABLES
  zlibs,        \* rfb.js FBU.zlibs: the decoders
  data,         \* what the last chunk was decoded to
  written,      \* the server: what each stream has compressed
  sent,         \* the server: what the last chunk was made from
  chunks

vars == <<zlibs, data, written, sent, chunks>>

Bits(n) == {i \in 0 .. 15 : (n \div 2 ^ i) % 2 = 1}
Value(bits) ==
  LET upTo[i \in -1 .. 15] ==
        IF i = -1 THEN 0 ELSE upTo[i - 1] + (IF i \in bits THEN 2 ^ i ELSE 0)
  IN upTo[15]
AtMost(n, limit) == IF n < limit THEN n ELSE limit
Suffix(s, n) == SubSeq(s, Len(s) - AtMost(n, Len(s)) + 1, Len(s))

-----------------------------------------------------------------------------
(* The decoder.  d is TINF.DATA with the header; val is what a step read.  *)

NewData == [source |-> <<>>, sourceIndex |-> 0, tag |-> {}, bitcount |-> 0, dest |-> <<>>,
            history |-> <<>>, header |-> FALSE, val |-> 0]

\* Behind the end of the source the bits are zero.
SourceByte(d, k) == IF k < Len(d.source) THEN Bits(d.source[k + 1]) ELSE {}

\* The bits of the next bytes, until there are as many as wanted.
Prefetch(d, wanted) ==
  LET loads == IF d.bitcount < wanted THEN (wanted - d.bitcount + 7) \div 8 ELSE 0
      loaded == UNION {{i + d.bitcount + 8 * k : i \in SourceByte(d, d.sourceIndex + k)} :
                         k \in 0 .. loads - 1}
  IN [d EXCEPT !.tag = @ \cup loaded, !.bitcount = @ + 8 * loads, !.sourceIndex = @ + loads]
Drop(d, n) ==
  [d EXCEPT !.tag = {i - n : i \in {j \in @ : j >= n}}, !.bitcount = @ - n]

\* getbit fills an empty tag with one byte, whatever is left in it.
getbit(d) ==
  LET e == IF d.bitcount > 0 THEN d
           ELSE [d EXCEPT !.tag = SourceByte(d, d.sourceIndex), !.bitcount = 8,
                          !.sourceIndex = @ + 1]
  IN [Drop(e, 1) EXCEPT !.val = IF 0 \in e.tag THEN 1 ELSE 0]

read_bits(d, num, base) ==
  LET e == Prefetch(d, 24)
  IN IF num = 0 THEN [d EXCEPT !.val = base]
     ELSE [Drop(e, num) EXCEPT !.val = Value(e.tag \cap 0 .. num - 1) + base]

\* A tree: how many codes of each length, and the symbols in the order of their codes.
build_tree(lengths) ==
  LET used == {s \in DOMAIN lengths : lengths[s] > 0}
      table == [len \in 0 .. 15 |-> Cardinality({s \in used : lengths[s] = len})]
      offs[len \in 0 .. 15] == IF len = 0 THEN 0 ELSE offs[len - 1] + table[len - 1]
      Place(s) == offs[lengths[s]] + Cardinality({u \in used : u < s /\ lengths[u] = lengths[s]})
  IN [table |-> table,
      trans |-> [k \in 0 .. Cardinality(used) - 1 |-> CHOOSE s \in used : Place(s) = k]]

sltree ==
  [table |-> [len \in 0 .. 15 |-> CASE len = 7 -> 24 [] len = 8 -> 152 [] len = 9 -> 112
                                    [] OTHER -> 0],
   trans |-> [i \in 0 .. 287 |-> IF i < 24 THEN 256 + i
                                 ELSE IF i < 168 THEN i - 24
                                 ELSE IF i < 176 THEN 280 + i - 168 ELSE 144 + i - 176]]
sdtree == [table |-> [len \in 0 .. 15 |-> IF len = 5 THEN 32 ELSE 0],
           trans |-> [i \in 0 .. 31 |-> i]]

\* Extra bits and bases of the codes of lengths and distances.
ExtraBits(delta) == [i \in 0 .. 29 |-> IF i < delta THEN 0 ELSE (i - delta) \div delta]
build_bits_base(delta, first) ==
  LET bits == ExtraBits(delta)
      base[i \in 0 .. 29] == IF i = 0 THEN first ELSE base[i - 1] + 2 ^ bits[i - 1]
  IN [bits |-> bits, base |-> [i \in 0 .. 29 |-> base[i]]]
length_codes == [build_bits_base(4, 3) EXCEPT !.bits[28] = 0, !.base[28] = 258]
dist_codes == build_bits_base(2, 1)

clcidx == <<16, 17, 18, 0, 8, 7, 9, 6, 10, 5, 11, 4, 12, 3, 13, 2, 14, 1, 15>>

\* One more bit of the code at a time, until it is below the codes of its length.
RECURSIVE Walk(_, _, _, _, _)
Walk(tag, table, len, sum, cur) ==
  LET next == 2 * cur + (IF len \in tag THEN 1 ELSE 0) - table[len + 1]
  IN IF next < 0 THEN <<len + 1, sum + table[len + 1] + next>>
     ELSE Walk(tag, table, len + 1, sum + table[len + 1], next)
decode_symbol(d, t) ==
  LET e == Prefetch(d, 16)
      found == Walk(e.tag, t.table, 0, 0, 0)
  IN [Drop(e, found[1]) EXCEPT !.val = t.trans[found[2]]]

\* Numbers one after the other, each with its bits and its base.
RECURSIVE ReadNumbers(_, _, _)
ReadNumbers(d, fields, got) ==
  IF fields = <<>> THEN <<d, got>>
  ELSE LET e == read_bits(d, Head(fields)[1], Head(fields)[2])
       IN ReadNumbers(e, Tail(fields), Append(got, e.val))

\* Lengths of symbols: 16 repeats the last one, 17 and 18 repeat 0.
Times(n, x) == [i \in 1 .. n |-> x]
RECURSIVE ReadLengths(_, _, _, _)
ReadLengths(d, tree, lengths, num) ==
  IF Len(lengths) >= num THEN <<d, lengths>>
  ELSE LET e == decode_symbol(d, tree)
           r == CASE e.val = 16 -> read_bits(e, 2, 3)
                  [] e.val = 17 -> read_bits(e, 3, 3)
                  [] e.val = 18 -> read_bits(e, 7, 11)
                  [] OTHER -> e
           more == CASE e.val = 16 -> Times(r.val, lengths[Len(lengths)])
                     [] e.val \in {17, 18} -> Times(r.val, 0)
                     [] OTHER -> <<e.val>>
       IN ReadLengths(r, tree, lengths \o more, num)

\* The lengths of the code lengths come in the order of clcidx.
InOrderOfCodes(read) ==
  [i \in 0 .. 18 |-> LET at == {k \in DOMAIN read : clcidx[k] = i}
                     IN IF at = {} THEN 0 ELSE read[CHOOSE k \in at : TRUE]]
Trees(read, hlit, hdist) ==
  <<read[1], build_tree([i \in 0 .. hlit - 1 |-> read[2][i + 1]]),
    build_tree([i \in 0 .. hdist - 1 |-> read[2][hlit + i + 1]])>>
ReadTrees(d, hlit, hdist, hclen) ==
  LET clens == ReadNumbers(d, Times(hclen, <<3, 0>>), <<>>)
      tree == build_tree(InOrderOfCodes(clens[2]))
  IN Trees(ReadLengths(clens[1], tree, <<>>, hlit + hdist), hlit, hdist)
\* <<decoder, tree of literals and lengths, tree of distances>>
decode_trees(d) ==
  LET counts == ReadNumbers(d, <<<<5, 257>>, <<5, 1>>, <<4, 4>>>>, <<>>)
  IN ReadTrees(counts[1], counts[2][1], counts[2][2], counts[2][3])

-----------------------------------------------------------------------------
(* Blocks.                                                                 *)

Out(d, symbols) == [d EXCEPT !.dest = @ \o symbols, !.history = @ \o symbols]

\* The match may run into what it writes itself.
Match(history, dist, length) ==
  [i \in 1 .. length |-> history[Len(history) - dist + 1 + ((i - 1) % dist)]]

ReadLength(d) ==
  read_bits(d, length_codes.bits[d.val - 257], length_codes.base[d.val - 257])
ReadDistance(d, dt) ==
  LET code == decode_symbol(d, dt)
  IN read_bits(code, dist_codes.bits[code.val], dist_codes.base[code.val])

\* <<decoder, OK>>; a match from before the history is thrown.
CopyMatch(d, length) ==
  IF d.val > Len(d.history) THEN <<d, FALSE>>
  ELSE <<Out(d, Match(d.history, d.val, length)), TRUE>>
PutMatch(d, dt) == CopyMatch(ReadDistance(d, dt), d.val)
PutSymbol(d, dt) ==
  IF d.val < 256 THEN <<Out(d, <<d.val>>), TRUE>> ELSE PutMatch(ReadLength(d), dt)
RECURSIVE inflate_block_data(_, _, _)
inflate_block_data(d, lt, dt) ==
  LET sym == decode_symbol(d, lt)
      put == PutSymbol(sym, dt)
  IN IF sym.val = 256 THEN <<sym, TRUE>>
     ELSE IF put[2] THEN inflate_block_data(put[1], lt, dt) ELSE put

\* Whole bytes that were read ahead go back.
Rewind(d) ==
  IF d.bitcount > 7 THEN [d EXCEPT !.sourceIndex = @ - d.bitcount \div 8, !.tag = {}] ELSE d
inflate_uncompressed_block(d) ==
  LET e == Rewind(d)
      Byte(k) == e.source[e.sourceIndex + k]
      length == 256 * Byte(2) + Byte(1)
      invlength == 256 * Byte(4) + Byte(3)
      start == e.sourceIndex + 4
  IN IF length # 65535 - invlength THEN <<e, FALSE>>
     ELSE <<[Out(e, SubSeq(e.source, start + 1, start + length))
               EXCEPT !.sourceIndex = start + length, !.bitcount = 0], TRUE>>

inflate_fixed_block(d) == inflate_block_data(d, sltree, sdtree)
InflateWith(trees) == inflate_block_data(trees[1], trees[2], trees[3])
inflate_dynamic_block(d) == InflateWith(decode_trees(d))

Block(d) ==
  CASE d.val = 0 -> inflate_uncompressed_block(d)
    [] d.val = 1 -> inflate_fixed_block(d)
    [] d.val = 2 -> inflate_dynamic_block(d)
    [] OTHER -> <<d, FALSE>>
RECURSIVE Blocks(_), BlocksBehind(_, _)
BlocksBehind(block, bfinal) ==
  IF block[2] /\ bfinal = 0 /\ block[1].sourceIndex < Len(block[1].source)
  THEN Blocks(block[1]) ELSE block
Blocks(d) ==
  LET bfinal == getbit(d) IN BlocksBehind(Block(read_bits(bfinal, 2, 0)), bfinal.val)

\* mutant: a window that forgets one byte too early.
TrimmedShort(d) == [d EXCEPT !.history = Suffix(@, WINDOW_SIZE - 1)]
\* What is behind the window is forgotten, unless a block was refused.
Trimmed(d) == [d EXCEPT !.history = Suffix(@, WINDOW_SIZE)]
Result(block) == IF block[2] THEN <<Trimmed(block[1]), TRUE>> ELSE block
uncompress(d, source) ==
  LET e == [d EXCEPT !.source = source, !.sourceIndex = 0, !.bitcount = 0, !.dest = <<>>]
  IN Result(Blocks(IF e.header THEN e ELSE [read_bits(e, 16, 0) EXCEPT !.header = TRUE]))

-----------------------------------------------------------------------------
(* The server, external: RFC 1950 and RFC 1951.  A block has a type and    *)
(* items: literal bytes, and matches with a distance and a length.         *)

Literal(b) == [byte |-> b, dist |-> 0, length |-> 0]
MatchOf(dist, length) == [byte |-> 0, dist |-> dist, length |-> length]

LengthBase == <<3, 4, 5, 6, 7, 8, 9, 10, 11, 13, 15, 17, 19, 23, 27, 31, 35, 43, 51, 59, 67, 83,
                99, 115, 131, 163, 195, 227, 258>>
LengthExtra == <<0, 0, 0, 0, 0, 0, 0, 0, 1, 1, 1, 1, 2, 2, 2, 2, 3, 3, 3, 3, 4, 4, 4, 4, 5, 5, 5, 5, 0>>
DistBase == <<1, 2, 3, 4, 5, 7, 9, 13, 17, 25, 33, 49, 65, 97, 129, 193, 257, 385>>
DistExtra == <<0, 0, 0, 0, 1, 1, 2, 2, 3, 3, 4, 4, 5, 5, 6, 6, 7, 7>>
CodeOf(base, n) == CHOOSE k \in DOMAIN base :
  base[k] <= n /\ \A m \in DOMAIN base : m > k => base[m] > n

\* n in so many bits, the lowest first; a code is sent from its highest bit.
LowFirst(n, bits) == [i \in 1 .. bits |-> (n \div 2 ^ (i - 1)) % 2]
HighFirst(n, bits) == [i \in 1 .. bits |-> (n \div 2 ^ (bits - i)) % 2]
Concat(n, Part(_)) ==
  LET upTo[i \in 0 .. n] == IF i = 0 THEN <<>> ELSE upTo[i - 1] \o Part(i) IN upTo[n]

\* Codes from their lengths, by rule: shorter ones first, then by symbol.
Code(lengths, s) ==
  LET Count(b) == Cardinality({u \in DOMAIN lengths : lengths[u] = b})
      first[b \in 0 .. 15] == IF b < 2 THEN 0 ELSE 2 * (first[b - 1] + Count(b - 1))
  IN HighFirst(first[lengths[s]]
                 + Cardinality({u \in DOMAIN lengths : u < s /\ lengths[u] = lengths[s]}),
               lengths[s])
FixedLengths == [s \in 0 .. 287 |-> IF s < 144 \/ s >= 280 THEN 8 ELSE IF s < 256 THEN 9 ELSE 7]
FixedDists == [s \in 0 .. 31 |-> 5]

\* A complete code for the symbols, lengths as equal as they can be.
LengthsFor(used, size) ==
  LET n == Cardinality(used)
      k == CHOOSE b \in 0 .. 8 : 2 ^ b <= n /\ n < 2 ^ (b + 1)
      Short(s) == Cardinality({u \in used : u < s}) < 2 ^ (k + 1) - n
  IN [s \in 0 .. size - 1 |-> IF s \notin used THEN 0 ELSE IF Short(s) THEN k ELSE k + 1]

ItemBits(items, lits, dists) ==
  LET Item(i) ==
        LET item == items[i]
            l == CodeOf(LengthBase, item.length)
            d == CodeOf(DistBase, item.dist)
        IN IF item.length = 0 THEN Code(lits, item.byte)
           ELSE Code(lits, 256 + l) \o LowFirst(item.length - LengthBase[l], LengthExtra[l])
                  \o Code(dists, d - 1) \o LowFirst(item.dist - DistBase[d], DistExtra[d])
  IN Concat(Len(items), Item) \o Code(lits, 256)

\* Runs of lengths: <<symbol, value of the extra bits, their number>>.
RECURSIVE RunLengths(_, _)
RunLengths(lengths, at) ==
  LET x == lengths[at]
      end == CHOOSE e \in at .. Len(lengths) : (\A k \in at .. e : lengths[k] = x)
                       /\ (e < Len(lengths) => lengths[e + 1] # x)
      n == end - at + 1
      again == IF at = 1 THEN FALSE ELSE lengths[at - 1] = x
      Run(symbol, low, most, bits) ==
        <<<<symbol, AtMost(n, most) - low, bits>>>> \o RunLengths(lengths, at + AtMost(n, most))
  IN IF at > Len(lengths) THEN <<>>
     ELSE IF x = 0 /\ n >= 11 THEN Run(18, 11, 138, 7)
     ELSE IF x = 0 /\ n >= 3 THEN Run(17, 3, 10, 3)
     ELSE IF again /\ n >= 3 THEN Run(16, 3, 6, 2)
     ELSE <<<<x, 0, 0>>>> \o RunLengths(lengths, at + 1)

LastUsed(used) == CHOOSE s \in used : \A u \in used : u <= s
DynamicBits(items) ==
  LET codes == {CodeOf(LengthBase, items[i].length) : i \in {j \in DOMAIN items : items[j].length > 0}}
      bytes == {items[i].byte : i \in {j \in DOMAIN items : items[j].length = 0}}
      litsUsed == {256} \cup bytes \cup {256 + l : l \in codes}
      dists == {CodeOf(DistBase, items[i].dist) - 1 : i \in {j \in DOMAIN items : items[j].length > 0}}
      distsUsed == IF Cardinality(dists) > 1 THEN dists ELSE dists \cup {0, 1}
      hlit == LastUsed(litsUsed) + 1
      hdist == LastUsed(distsUsed) + 1
      lits == LengthsFor(litsUsed, hlit)
      ds == LengthsFor(distsUsed, hdist)
      runs == RunLengths([i \in 1 .. hlit + hdist |->
                            IF i <= hlit THEN lits[i - 1] ELSE ds[i - 1 - hlit]], 1)
      clen == LengthsFor({runs[i][1] : i \in DOMAIN runs}, 19)
      hclen == LastUsed({4} \cup {k \in 1 .. 19 : clen[clcidx[k]] > 0})
      CodeLength(k) == LowFirst(clen[clcidx[k]], 3)
      RunBits(i) == Code(clen, runs[i][1]) \o LowFirst(runs[i][2], runs[i][3])
  IN LowFirst(hlit - 257, 5) \o LowFirst(hdist - 1, 5) \o LowFirst(hclen - 4, 4)
       \o Concat(hclen, CodeLength) \o Concat(Len(runs), RunBits) \o ItemBits(items, lits, ds)

Padded(bits) == bits \o Times((-Len(bits)) % 8, 0)
StoredBits(items) ==
  LET Byte(i) == LowFirst(items[i].byte, 8)
  IN LowFirst(Len(items), 16) \o LowFirst(65535 - Len(items), 16) \o Concat(Len(items), Byte)
PutBlock(bits, block) ==
  CASE block.type = 0 -> Padded(bits \o <<0, 0, 0>>) \o StoredBits(block.items)
    [] block.type = 1 -> bits \o <<0, 1, 0>> \o ItemBits(block.items, FixedLengths, FixedDists)
    [] block.type = 2 -> bits \o <<0, 0, 1>> \o DynamicBits(block.items)

\* A chunk ends with an empty stored block: the flush.
ChunkBytes(blocks, header) ==
  LET start == IF header THEN LowFirst(120, 8) \o LowFirst(156, 8) ELSE <<>>
      all == Append(blocks, [type |-> 0, items |-> <<>>])
      put[i \in 0 .. Len(all)] == IF i = 0 THEN start ELSE PutBlock(put[i - 1], all[i])
      bits == put[Len(all)]
      Byte(k) == Value({i \in 0 .. 7 : bits[8 * k + i + 1] = 1})
  IN [k \in 1 .. Len(bits) \div 8 |-> Byte(k - 1)]

\* What the blocks stand for, behind what the stream has compressed so far.
RECURSIVE Meant(_, _)
Meant(text, items) ==
  IF items = <<>> THEN text
  ELSE LET item == Head(items)
       IN Meant(text \o (IF item.length = 0 THEN <<item.byte>>
                         ELSE Match(text, item.dist, item.length)), Tail(items))
Items(blocks) == LET Of(i) == blocks[i].items IN Concat(Len(blocks), Of)

\* A match refers to what is there, at most a window back.
RECURSIVE Reaches(_, _)
Reaches(n, items) ==
  items # <<>> =>
    /\ Head(items).dist <= AtMost(n, WINDOW_SIZE)
    /\ Reaches(n + (IF Head(items).length = 0 THEN 1 ELSE Head(items).length), Tail(items))

-----------------------------------------------------------------------------

init_vars ==
  /\ zlibs' = [i \in StreamIds |-> NewData]
  /\ written' = [i \in StreamIds |-> <<>>]

\* A rectangle's chunk; the streams of resets start again, at both ends.
Decoded(after, streamId, result) ==
  /\ zlibs' = [after EXCEPT ![streamId] = result[1]]
  /\ data' = IF result[2] THEN result[1].dest ELSE <<-1>>
decompress(resets, streamId, source) ==
  LET after == [i \in StreamIds |-> IF i \in resets THEN NewData ELSE zlibs[i]]
  IN Decoded(after, streamId, uncompress(after[streamId], source))

Rectangle(resets, streamId, blocks) ==
  LET before == IF streamId \in resets THEN <<>> ELSE written[streamId]
      text == Meant(before, Items(blocks))
  IN /\ chunks < MaxChunks
     /\ Reaches(Len(before), Items(blocks))
     /\ chunks' = chunks + 1
     /\ sent' = SubSeq(text, Len(before) + 1, Len(text))
     /\ written' = [i \in StreamIds |-> IF i = streamId THEN Suffix(text, WINDOW_SIZE)
                                        ELSE IF i \in resets THEN <<>> ELSE written[i]]
     /\ decompress(resets, streamId, ChunkBytes(blocks, before = <<>>))

NewSession ==
  /\ chunks > 0
  /\ init_vars
  /\ UNCHANGED <<data, sent, chunks>>

Init ==
  /\ zlibs = [i \in StreamIds |-> NewData]
  /\ written = [i \in StreamIds |-> <<>>]
  /\ data = <<>> /\ sent = <<>> /\ chunks = 0

Next ==
  \/ \E resets \in SUBSET StreamIds, streamId \in StreamIds, blocks \in Chunks :
       Rectangle(resets, streamId, blocks)
  \/ NewSession

Spec == Init /\ [][Next]_vars

-----------------------------------------------------------------------------

\* decompress returns what the server compressed, whatever blocks it chose, in
\* whatever stream, with references into earlier chunks, after any resets.
Inflated == data = sent

=============================================================================

-------------------------------- MODULE Xpress --------------------------------
(***************************************************************************)
(* Xpress Huffman decompression (tibread/xpress.py), as it is used for the *)
(* contents of WOF-compressed files.                                       *)
(*                                                                         *)
(* A chunk is a table of code lengths and a stream.  The decoder holds two *)
(* 16-bit words of the stream in a register and takes the next as soon as  *)
(* fewer than 16 bits are left; the long match lengths are whole bytes     *)
(* that stand wherever the decoder's cursor is when it wants them.  The    *)
(* writer must have put them there, so decoder and writer have to agree on *)
(* when a word is taken, to the bit.                                       *)
(*                                                                         *)
(* Sizes are parameters: a byte has B bits, a word 2 B, a code at most     *)
(* 2 B - 1.  The decoder is a function of its state s; a step decodes one  *)
(* symbol.                                                                 *)
(***************************************************************************)
EXTENDS Integers, Sequences, FiniteSets, SequencesExt, FiniteSetsExt, Eager

CONSTANTS B,            \* 8
          Literals,     \* 256
          Nibbles,      \* 16: low part of a match symbol, its highest escapes
          Shifts,       \* 16: high part, the bits of the offset
          ChunkSizes    \* 4096, 8192, 16384

MinMatch  == 3
Word      == 2 * B
MaxCode   == Word - 1
ByteEnd   == 2^B - 1           \* the byte that escapes to a word
Symbols   == 0..(Literals + Nibbles * Shifts - 1)
TableSize == Cardinality(Symbols) \div 2

-----------------------------------------------------------------------------
(* The table: codes in the order of (length, symbol), each as many entries   *)
(* as its length leaves open.                                                *)

Span(lens, x)   == 2^(MaxCode - lens[x])
Before(lens, x) == {y \in Symbols : /\ lens[y] # 0
                                    /\ lens[y] < lens[x] \/ (lens[y] = lens[x] /\ y < x)}
Base(lens, x)   == MapThenSumSet(LAMBDA y : Span(lens, y), Before(lens, x))
Used(lens)      == {x \in Symbols : lens[x] # 0}

OverSubscribed(lens) ==
    MapThenSumSet(LAMBDA x : Span(lens, x), Used(lens)) > 2^MaxCode

(* The symbols an entry may stand for: one, or none.                         *)
BuildDecodeTable(lens) ==
    [v \in 0..(2^MaxCode - 1) |->
        {x \in Used(lens) : Base(lens, x) <= v /\ v < Base(lens, x) + Span(lens, x)}]

(* Two lengths to a byte, the lower half first.                              *)
ReadCodeLengths(src, off) ==
    [x \in Symbols |-> (src[off + (x \div 2) + 1] \div (MaxCode + 1)^(x % 2)) % (MaxCode + 1)]

-----------------------------------------------------------------------------
(* The bit stream.  reg holds nbits bits, left-aligned in two words.         *)

Refill(s) ==
    LET whole == s.cursor + 2 <= s.end
        w == IF whole THEN s.src[s.cursor + 1] + 2^B * s.src[s.cursor + 2] ELSE 0
    IN [s EXCEPT !.cursor = IF whole THEN @ + 2 ELSE s.end,
                 !.reg = (@ + w * 2^(Word - s.nbits)) % 2^(2 * Word),
                 !.nbits = @ + Word]

Peek(s, n) == s.reg \div 2^(2 * Word - n)

Shifted(s, n) == [s EXCEPT !.reg = (@ * 2^n) % 2^(2 * Word), !.nbits = @ - n]

(* A word is taken when only one is left. *)
DropEarly(s, n) == Given(Shifted(s, n), LAMBDA d : IF d.nbits <= Word THEN Refill(d) ELSE d)

(* consume and pop_bits: drop n bits and take a word when fewer are left.    *)
Drop(s, n) == Given(Shifted(s, n), LAMBDA d : IF d.nbits < Word THEN Refill(d) ELSE d)

Fault(s) == [s EXCEPT !.error = TRUE]

-----------------------------------------------------------------------------
(* One symbol of a chunk *)

(* The bytes of the match, which begin again where it overlaps itself.       *)
CopyMatch(out, offset, len) ==
    out \o [i \in 1..len |-> out[Len(out) - offset + 1 + ((i - 1) % offset)]]

(* A length above the nibble's is the next byte, or the word behind that.    *)
MatchLength(s, nibble) ==
    IF nibble < Nibbles - 1 THEN [len |-> nibble + MinMatch, used |-> 0, short |-> FALSE]
    ELSE LET at == s.cursor
             byte == s.src[at + 1]
         IN CASE at >= s.end -> [len |-> 0, used |-> 0, short |-> TRUE]
              [] at < s.end /\ byte < ByteEnd ->
                    [len |-> byte + Nibbles - 1 + MinMatch, used |-> 1, short |-> FALSE]
              [] OTHER ->
                    IF at + 3 > s.end THEN [len |-> 0, used |-> 0, short |-> TRUE]
                    ELSE [len |-> s.src[at + 2] + 2^B * s.src[at + 3] + MinMatch,
                          used |-> 3, short |-> FALSE]

Match(s, m) ==
    LET shift  == m \div Nibbles
        Copied(length) ==
            LET bytes  == [s EXCEPT !.cursor = @ + length.used]
                offset == IF shift = 0 THEN 1 ELSE 2^shift + Peek(bytes, shift)
                next   == IF shift = 0 THEN bytes ELSE Drop(bytes, shift)
            IN IF length.short \/ offset > Len(s.out) \/ Len(s.out) + length.len > s.want
               THEN Fault(s)
               ELSE [next EXCEPT !.out = CopyMatch(@, offset, length.len)]
    IN Given(MatchLength(s, m % Nibbles), Copied)

DecodeSymbol(s) ==
    LET hits == s.table[Peek(s, MaxCode)]
        After(x) == Given(Drop(s, s.lens[x]),
                          LAMBDA c : IF x < Literals THEN [c EXCEPT !.out = Append(@, x)]
                                     ELSE Match(c, x - Literals))
    IN IF hits = {} THEN Fault(s) ELSE After(CHOOSE y \in hits : TRUE)

-----------------------------------------------------------------------------
(* The chunks of a stream: the places of all but the first, then the chunks. *)

Chunks(s)  == (s.size + s.chunk - 1) \div s.chunk
TableLen(s) == Chunks(s) - 1

Start(src, size, chunk) ==
    LET s == [src |-> src, size |-> size, chunk |-> chunk, ci |-> 0,
              plain |-> [k \in 1..size |-> 0], out |-> << >>, want |-> 0,
              lens |-> << >>, table |-> << >>, cursor |-> 0, end |-> 0, reg |-> 0, nbits |-> 0,
              error |-> FALSE]
    IN  [s EXCEPT !.error = chunk \notin ChunkSizes \/ Len(src) < TableLen(s)]

StartOf(s, i) == TableLen(s) + (IF i = 0 THEN 0 ELSE s.src[i])
EndOf(s, i)   == IF i + 1 < Chunks(s) THEN StartOf(s, i + 1) ELSE Len(s.src)
SizeOf(s, i)  == IF i + 1 < Chunks(s) THEN s.chunk ELSE s.size - i * s.chunk

(* What the slice assignment leaves: the result shrinks or grows when the    *)
(* bytes are not as many as the places they are put in.                      *)
Place(s, bytes) ==
    LET from == Min({s.ci * s.chunk, Len(s.plain)})
        to   == Min({s.ci * s.chunk + SizeOf(s, s.ci), Len(s.plain)})
    IN  [s EXCEPT !.ci = @ + 1, !.want = 0, !.out = << >>,
                  !.plain = SubSeq(@, 1, from) \o bytes \o SubSeq(@, to + 1, Len(@))]

Bytes(src, from, to) == SubSeq(src, from + 1, Min({to, Len(src)}))

(* A chunk as long as its contents is stored; any other starts with a table. *)
OpenChunk(s) ==
    LET from == StartOf(s, s.ci)
        to   == EndOf(s, s.ci)
        want == SizeOf(s, s.ci)
        Primed(lens) ==
            Given(Given([s EXCEPT !.lens = lens, !.table = BuildDecodeTable(lens), !.want = want,
                                  !.out = << >>, !.cursor = from + TableSize, !.end = to,
                                  !.reg = 0, !.nbits = 0], Refill), Refill)
    IN IF to - from = want THEN Place(s, Bytes(s.src, from, to))
       ELSE IF to > Len(s.src) \/ to - from < TableSize THEN Fault(s)
       ELSE Given(ReadCodeLengths(s.src, from),
                  LAMBDA lens : IF OverSubscribed(lens) THEN Fault(s) ELSE Primed(lens))

CloseChunk(s) == Place(s, s.out)

Ended(s) == s.error \/ s.ci = Chunks(s)

DecompressStep(s) == CASE s.want = 0              -> OpenChunk(s)
                       [] Len(s.out) < s.want     -> DecodeSymbol(s)
                       [] OTHER                   -> CloseChunk(s)

-----------------------------------------------------------------------------
(* The writer's side ([MS-XCA] 2.1): it keeps the place of two words ahead   *)
(* of what it writes, fills the first when a code does not fit in it, and    *)
(* puts the bytes of long lengths behind the second.                         *)

Code(lens, x) == Base(lens, x) \div Span(lens, x)

PutWord(e, v) == [e EXCEPT !.out = [@ EXCEPT ![e.first] = v % 2^B, ![e.first + 1] = v \div 2^B]]

PutBits(e, n, v) ==
    IF n <= e.free THEN [e EXCEPT !.free = @ - n, !.word = @ * 2^n + v]
    ELSE LET over == n - e.free
         IN [PutWord(e, e.word * 2^e.free + v \div 2^over) EXCEPT !.first = e.second, !.second = Len(e.out) + 1,
                         !.out = @ \o <<0, 0>>, !.free = Word - over, !.word = v % 2^over]

PutBytes(e, bytes) == [e EXCEPT !.out = @ \o bytes]

Log2(n) == CHOOSE k \in 0..n : 2^k <= n /\ n < 2^(k + 1)

PutToken(lens, e, t) ==
    IF t.len = 0 THEN PutBits(e, lens[t.byte], Code(lens, t.byte))
    ELSE LET extra == t.len - MinMatch
             nibble == Min({extra, Nibbles - 1})
             shift == Log2(t.off)
             x == Literals + shift * Nibbles + nibble
             long == IF extra < Nibbles - 1 THEN << >>
                     ELSE IF extra - (Nibbles - 1) < ByteEnd THEN <<extra - (Nibbles - 1)>>
                     ELSE <<ByteEnd, extra % 2^B, extra \div 2^B>>
         IN Given(PutBytes(PutBits(e, lens[x], Code(lens, x)), long),
                  LAMBDA f : PutBits(f, shift, t.off - 2^shift))

Table(lens) == [i \in 1..TableSize |-> lens[2 * (i - 1)] + (MaxCode + 1) * lens[2 * i - 1]]

Encoded(lens, tokens) ==
    LET Blank == [out |-> <<0, 0, 0, 0>>, first |-> 1, second |-> 3, free |-> Word, word |-> 0]
        Put(e, t) == Given(e, LAMBDA f : PutToken(lens, f, t))
    IN Table(lens) \o Given(FoldLeft(Put, Blank, tokens), LAMBDA e : PutWord(e, e.word * 2^e.free).out)

Plain(tokens) ==
    LET Expand(o, t) == Given(o, LAMBDA p : IF t.len = 0 THEN Append(p, t.byte) ELSE CopyMatch(p, t.off, t.len))
    IN FoldLeft(Expand, << >>, tokens)

(* How a chunk is kept: packed, unless it would look like one that is not.   *)
Kept(lens, tokens) == LET packed == Encoded(lens, tokens)
                      IN IF Len(packed) # Len(Plain(tokens)) THEN packed ELSE Plain(tokens)

(* A stream of one or two chunks.                                            *)
Stream(chunks) == LET kept == [i \in DOMAIN chunks |-> Kept(chunks[i].lens, chunks[i].tokens)]
                  IN IF Len(chunks) = 1 THEN kept[1] ELSE <<Len(kept[1])>> \o kept[1] \o kept[2]
=============================================================================

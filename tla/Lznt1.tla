-------------------------------- MODULE Lznt1 --------------------------------
(***************************************************************************)
(* LZNT1 decompression (tibread/lznt1.py), as it is used for the           *)
(* compression units of NTFS.                                              *)
(*                                                                         *)
(* A stream is a row of sub-blocks, each of at most Block bytes of         *)
(* contents behind a header of two bytes.  A compressed one is groups of   *)
(* Group tokens behind a byte of flags, a token a byte or a reference back *)
(* of two bytes.  How the bits of a reference are split between offset and *)
(* length depends on how far into the sub-block it stands.                 *)
(*                                                                         *)
(* Sizes are parameters: a byte has Bits bits, a reference 2 Bits, of      *)
(* which Least .. Most go to the length.  The decoder is a function of its *)
(* state s; a step reads a header, a byte of flags or a token.             *)
(***************************************************************************)
EXTENDS Integers, Sequences, SequencesExt, FiniteSetsExt, Eager

CONSTANTS Bits,     \* 8
          Group,    \* 8
          Least,    \* 4
          Most      \* 12

Byte  == 2^Bits
Block == 2^Most
MinLength == 3

(* A header: the size less one in the low Most bits, then a mark, and the    *)
(* top bit for a compressed sub-block.  The mark is not looked at.           *)
Compressed == 2^(2 * Bits - 1)
Mark       == Block

(* The bits of the length, by the place in the sub-block: more and more.     *)
LengthBits(place) ==
    Min({k \in Least..(Most - 1) : place < 2^k} \cup {Most})

-----------------------------------------------------------------------------

Start(src, expected) ==
    [src |-> src, expected |-> expected, pos |-> 0, out |-> << >>,
     sub |-> << >>, sp |-> 0, flags |-> 0, bit |-> Group, from |-> 0, ended |-> FALSE]

InSub(s)   == s.sp < Len(s.sub)
InGroup(s) == InSub(s) /\ s.bit < Group

(* Zeros up to the expected size.                                            *)
Finish(s) == [s EXCEPT !.ended = TRUE,
                       !.out = @ \o [k \in 1..Max({0, s.expected - Len(@)}) |-> 0]]

ReadHeader(s) ==
    LET header == s.src[s.pos + 1] + Byte * s.src[s.pos + 2]
        size   == (header % Block) + 1
        end    == s.pos + 2 + size
        sub    == SubSeq(s.src, s.pos + 3, end)
    IN CASE s.pos + 2 > Len(s.src) -> Finish(s)
         [] s.pos + 2 <= Len(s.src) /\ (header = 0 \/ end > Len(s.src)) -> Finish(s)
         [] OTHER -> IF header >= Compressed
                     THEN [s EXCEPT !.pos = end, !.sub = sub, !.sp = 0, !.bit = Group,
                                    !.from = Len(s.out)]
                     ELSE [s EXCEPT !.pos = end, !.out = @ \o sub]

ReadFlags(s) == [s EXCEPT !.flags = s.sub[s.sp + 1], !.sp = @ + 1, !.bit = 0]

Literal(s) == [s EXCEPT !.out = Append(@, s.sub[s.sp + 1]), !.sp = @ + 1, !.bit = @ + 1]

(* A reference that reaches behind the sub-block gives zeros.                *)
Reference(s) ==
    LET ref    == s.sub[s.sp + 1] + Byte * s.sub[s.sp + 2]
        split  == LengthBits(Len(s.out) - s.from)
        length == (ref % 2^split) + MinLength
        source == Len(s.out) - (ref \div 2^split + 1)
        copied == [i \in 1..length |-> s.out[source + 1 + ((i - 1) % (Len(s.out) - source))]]
    IN [s EXCEPT !.sp = @ + 2, !.bit = @ + 1,
                 !.out = @ \o IF source < s.from THEN [k \in 1..length |-> 0] ELSE copied]

ReadToken(s) ==
    IF (s.flags \div 2^s.bit) % 2 = 0 THEN Literal(s)
    ELSE IF s.sp + 2 > Len(s.sub) THEN [s EXCEPT !.sp = Len(s.sub)] ELSE Reference(s)

DecompressStep(s) == CASE InGroup(s)                -> ReadToken(s)
                       [] InSub(s) /\ ~ InGroup(s)  -> ReadFlags(s)
                       [] OTHER                     -> ReadHeader(s)

Ended(s) == s.ended

-----------------------------------------------------------------------------
(* The writer's side.  A token is a byte or a pair of an offset and a        *)
(* length; split is the bits of the length at a place.  A sub-block is       *)
(* written packed, or as it is when that is not longer.                      *)

Expand(out, t) ==
    Given(out, LAMBDA o : IF t.len = 0 THEN Append(o, t.byte)
                          ELSE o \o [i \in 1..t.len |-> o[Len(o) - t.off + 1 + ((i - 1) % t.off)]])

Contents(tokens) == FoldLeft(Expand, << >>, tokens)

TokenBytes(split, tokens, k) ==
    LET t == tokens[k]
        ref == (t.off - 1) * 2^split[Len(Contents(SubSeq(tokens, 1, k - 1)))] + t.len - MinLength
    IN IF t.len = 0 THEN <<t.byte>> ELSE <<ref % Byte, ref \div Byte>>

FlagsOf(tokens, g) ==
    MapThenSumSet(LAMBDA k : IF tokens[k].len = 0 THEN 0 ELSE 2^((k - 1) % Group),
                  {k \in DOMAIN tokens : (k - 1) \div Group = g})

Packed(split, tokens) ==
    FoldLeft(LAMBDA o, k : o \o (IF (k - 1) % Group = 0 THEN <<FlagsOf(tokens, (k - 1) \div Group)>>
                                 ELSE << >>)
                             \o TokenBytes(split, tokens, k),
             << >>, [k \in 1..Len(tokens) |-> k])

Header(size, flag) == LET h == size - 1 + Mark + flag IN <<h % Byte, h \div Byte>>

SubBlock(split, tokens) ==
    LET packed == Packed(split, tokens)
        plain  == Contents(tokens)
    IN IF Len(packed) < Len(plain) THEN Header(Len(packed), Compressed) \o packed
       ELSE Header(Len(plain), 0) \o plain

Stream(split, blocks) == FoldLeft(LAMBDA o, b : o \o SubBlock(split, b), << >>, blocks)

(* The split of NTFS ([MS-XCA] 2.5.1.2.3; fs/ntfs3/lznt.c): the offset gets    *)
(* the bits it needs to reach back to the start, the length the others.      *)
NtfsLengthBits(place) ==
    2 * Bits - Min({k \in Least..Most : place <= 2^k})
=============================================================================

------------------------------- MODULE MCOneShot -------------------------------
(* The decoders of OneShot on small inputs: words of 6 bits and codes of up  *)
(* to 5 for Xpress, references of 6 bits for LZNT1, groups of 6 cells, a     *)
(* checksum of 5 bits over a page of 10, records of two sectors.             *)
EXTENDS OneShot

Lit(b)    == [len |-> 0, byte |-> b, off |-> 0]
Ref(o, n) == [len |-> n, byte |-> 0, off |-> o]

UpTo(A, n) == UNION {[1..k -> A] : k \in 0..n}

(* Literals in front, then any two tokens.                                   *)
Fronts(lits, n) == {[i \in 1..k |-> Lit(lits[1 + (i % Len(lits))])] : k \in 1..n}

(* The bytes a list of tokens makes, when every reference has something to   *)
(* refer to; else none.                                                      *)
Made(tokens) == FoldLeft(LAMBDA n, t : IF n < 0 THEN n ELSE IF t.len = 0 THEN n + 1
                                       ELSE IF t.off > n THEN -1 ELSE n + t.len, 0, tokens)

Lists(lits, n, A, m, most) ==
    {t \in {f \o u : f \in Fronts(lits, n), u \in UpTo(A, m)} : Made(t) \in 1..most}

-----------------------------------------------------------------------------
Chunk  == 16
Flats  == <<3, 3, 3, 3, 3, 3, 3, 3>>
Skewed == <<2, 2, 3, 4, 4, 4, 5, 5>>
Lens   == {[x \in 0..7 |-> L0[x + 1]] : L0 \in {Flats, Skewed}}

XTokens == {Lit(0), Ref(1, 3), Ref(2, 3), Ref(3, 4), Ref(1, 11), Ref(3, 12)}
XLists  == Lists(<<1, 3, 2>>, 6, XTokens, 2, Chunk)
Ends    == {<<Lit(2)>>, <<Lit(1), Ref(1, 12)>>}

One(l, t) == <<[lens |-> l, tokens |-> t]>>
XJob(chunks, cut, at, by) ==
    [kind |-> "xpress", chunks |-> chunks, chunk |-> Chunk, cut |-> cut, at |-> at, by |-> by]

Twos == {One(l, t) \o One(l, u) : l \in Lens, t \in {v \in XLists : Made(v) = Chunk}, u \in Ends}

MCXpressJobs ==
    {XJob(One(l, t), 0, 0, 0) : l \in Lens, t \in XLists}
    \cup {XJob(c, cut, 0, 0) : c \in Twos, cut \in {0, 1, 2, 9}}
    \cup {XJob(c, 0, at, by) : c \in Twos, at \in {2, 3, 7}, by \in {0, 5, 7}}
    \cup {XJob(One(l, t), cut, 0, 0) : l \in Lens, t \in {v \in XLists : Made(v) >= 12}, cut \in 1..3}

-----------------------------------------------------------------------------
ZTokens == {Lit(1), Ref(1, 3), Ref(3, 4), Ref(4, 5), Ref(2, 6)}
ZLists  == Lists(<<1, 2, 3>>, 5, ZTokens, 2, 2^4)
Filler  == {<<Lit(3)>>, <<Lit(1), Ref(1, 6), Lit(2)>>}

ZJob(blocks, ntfs, cut, slack) ==
    [kind |-> "lznt1", blocks |-> blocks, ntfs |-> ntfs, cut |-> cut, slack |-> slack]

MCLznt1Jobs ==
    {ZJob(<<t>>, FALSE, 0, k) : t \in ZLists, k \in {0, 2}}
    \cup {ZJob(<<t, f>>, FALSE, cut, 1) : t \in {v \in ZLists : Made(v) >= 9}, f \in Filler, cut \in {0, 1, 4}}

MCNtfsJobs == {ZJob(<<t>>, TRUE, 0, 0) : t \in ZLists}

-----------------------------------------------------------------------------
Cell(k, v, a) == [key |-> k, value |-> v, alive |-> a]

Fixed(n)  == [1..n -> {Cell(<<1, 2>>, <<3>>, TRUE), Cell(<<2, 2>>, << >>, FALSE)}]
Living(n) == [1..n -> {Cell(<<1, 2>>, <<3>>, TRUE), Cell(<<2, 2>>, <<1>>, TRUE)}]
Inner     == [1..2 -> {Cell(<<1, 2>>, <<3, 1>>, TRUE), Cell(<<2, 2>>, <<0, 4>>, TRUE)}]
Free      == UpTo({Cell(<<1>>, <<2, 2, 2, 2, 2>>, TRUE), Cell(<<1, 2, 1, 2>>, << >>, TRUE),
                   Cell(<<3, 3>>, <<1>>, TRUE)}, 2)

CJob(mem, magic, k, v, cells, codec, block, cut) ==
    [kind |-> "cells", mem |-> mem, magic |-> magic, keySize |-> k, valSize |-> v, cells |-> cells,
     count |-> Len(cells), codec |-> codec, block |-> block, cut |-> cut]

(* [codec, block]: raw, in blocks of some bytes, in one block.               *)
Packings == {<<0, 1>>, <<1, 3>>, <<1, 99>>}

MCCellJobs ==
    {CJob(FALSE, "LEAF", 2, 1, c, p[1], p[2], 0) : c \in Fixed(1) \cup Fixed(7), p \in Packings}
    \cup {[CJob(FALSE, "LEAF", 2, 1, c, p[1], p[2], 0) EXCEPT !.count = n] :
              c \in Fixed(3), p \in Packings, n \in 1..2}
    \cup {CJob(TRUE, "LEAF", 2, 1, c, p[1], 99, 0) : c \in Fixed(3), p \in {<<0>>, <<1>>}}
    \cup {CJob(FALSE, "LDIR", 2, 1, c, p[1], p[2], 0) : c \in Inner, p \in Packings}
    \cup {CJob(FALSE, m, 0, 0, c, p[1], p[2], 0) : m \in {"LEAF", "LDIR"}, c \in Free, p \in Packings}
    \cup {CJob(FALSE, "LEAF", 2, 1, c, p[1], p[2], cut) : c \in Fixed(3), p \in Packings, cut \in 1..5}
    \cup {CJob(FALSE, "LEAF", 0, 0, c, p[1], p[2], cut) : c \in Free \ {<< >>}, p \in Packings, cut \in 1..2}
    \cup {CJob(TRUE, "LEAF", 2, 1, c, 1, 99, cut) : c \in Fixed(2), cut \in 1..3}

-----------------------------------------------------------------------------
MCPoly == <<1, 0, 1, 0, 1>>
MCMark == <<1>>

MCPageJobs ==
    {[kind |-> "page", head |-> h, body |-> b, flips |-> f, fec |-> fec] :
        h \in [1..1 -> 0..1], b \in [1..3 -> 0..1],
        f \in {I \in SUBSET (1..10) : Cardinality(I) <= 2}, fec \in BOOLEAN}

-----------------------------------------------------------------------------
MCPriority == [n \in 0..3 |-> CASE n = 1 -> 0 [] n = 3 -> 1 [] n = 0 -> 2 [] n = 2 -> 3]
MCChunkOf  == [a \in {0} |-> Chunk]

Attr(type, flags, name, content) ==
    [type |-> type, flags |-> flags, name |-> name, unit |-> 0, content |-> content, runs |-> << >>, real |-> 0]
Stream(flags, name, unit, runs) ==
    [type |-> NR!Data, flags |-> flags, name |-> name, unit |-> unit, content |-> << >>, runs |-> runs, real |-> 9]

AttrSet ==
    {Attr(NR!Names, 0, 0, <<5, n, 2, 4, n>>) : n \in {1, 2, 3}}
    \cup {Attr(NR!Data, 0, 0, <<1, 2>>), Attr(NR!Data, NR!Encrypted, 0, <<1>>), Attr(NR!Data, 0, 1, << >>),
          Attr(NR!Reparse, 0, 0, <<NR!WofTag, 4, 1, 2, 1, 0>>),
          Stream(0, 0, 0, << <<3, 1>>, <<1, NR!Sparse>>, <<5, -1>> >>),
          Stream(NR!Compressed, 0, 0, << <<1, 8>>, <<2, 7>> >>),
          Stream(NR!Compressed, 1, 3, << <<17, -8>>, <<1, 9>> >>)}

RJob(attrs, older, sectors) == [kind |-> "record", attrs |-> attrs, older |-> older, sectors |-> sectors]

Old == <<Attr(NR!Names, 0, 0, <<5, 0, 1, 6>>), Attr(NR!Data, 0, 0, <<3, 3, 3>>), Attr(NR!Data, 0, 1, <<4>>)>>

MCRecordJobs ==
    {RJob(a, Old, sectors) : a \in UpTo(AttrSet, 3), sectors \in {{1, 2}, {1}, {2}}}

-----------------------------------------------------------------------------
Slice(u, p, f) == [uuid |-> u, parent |-> p, flags |-> f]

MCChainJobs ==
    {[kind |-> "chain", slices |-> [k \in 1..4 |-> Slice(k, p[k], IF k \in F THEN {} ELSE IF k = 3 THEN {"diff", "inc"} ELSE {"inc"})], from |-> u] :
        p \in {q \in [1..4 -> 0..5] : q[4] \in {0, 3}}, F \in {{}, {1}, {2}, {1, 3}}, u \in {1, 4}}
=============================================================================

------------------------------- MODULE LsmCells -------------------------------
(***************************************************************************)
(* The cells of one page of an LSM tree (tibread/tibx/lsm_cells.py) and of *)
(* a tree's mem-tree (_decode_sb_memtree of tibread/tibx/lsm.py, the same  *)
(* as _decode_memtree_cells of tibread/tibx/chains.py).                    *)
(*                                                                         *)
(* The stream of a page is raw or a row of LZ4 blocks, each of which may   *)
(* refer to what the ones before it gave.  What it unpacks to is cells, in *)
(* one of three layouts: two lengths before each key and value; keys and   *)
(* values of fixed size; or groups with a bitmap of the cells that have a  *)
(* value at all.                                                           *)
(*                                                                         *)
(* A number of four bytes counts as one byte.  A byte of a length has      *)
(* Digit values and a mark that another follows; a byte of a bitmap has    *)
(* MapBits bits.  A step unpacks a block or takes a cell.                  *)
(***************************************************************************)
EXTENDS Integers, Sequences, SequencesExt, FiniteSetsExt, Eager

CONSTANTS Digit,       \* 128
          LongestLeb,  \* 5 bytes, see _read_leb128
          MaxLength,   \* 32768
          MapBits,     \* 8
          History,     \* 65536: how far back a block may refer
          ChildSize    \* 8

GroupMax == 3 * MapBits

(* What buf[p:p + n] gives: no more than there is.                           *)
Cut(buf, p, n) == SubSeq(buf, p + 1, Min({p + n, Len(buf)}))

-----------------------------------------------------------------------------
(* LZ4, a library: a block is bytes and references Ref + d to the byte d     *)
(* before in what is unpacked, of which it is given the history.             *)

Ref == 1000

Item(o, b) == IF b < Ref THEN b ELSE IF b - Ref > Len(o) THEN Ref ELSE o[Len(o) + 1 - (b - Ref)]
Unpack(block, history) ==
    FoldLeft(LAMBDA out, b : Given(out, LAMBDA o : Append(o, Item(o, b))), history, block)

Recent(out) == SubSeq(out, Max({1, Len(out) - History + 1}), Len(out))

-----------------------------------------------------------------------------
(* The state of a page that is decoded *)

Fault(s) == [s EXCEPT !.error = TRUE]

Compact(page)  == page.magic = "LEAF" /\ page.keySize # 0
ValSize(page)  == IF page.magic = "LDIR" THEN ChildSize ELSE page.valSize

(* stream[LSM_PAGE_HEADER_LEN:][:on_disk_size], and the checks of the header *)
Start(page) ==
    LET s == [page |-> page, stream |-> Cut(page.stream, 0, page.onDisk), pos |-> 0, buf |-> << >>,
              unpacked |-> FALSE, p |-> 0, left |-> 0, bitmap |-> << >>, cells |-> << >>,
              error |-> FALSE]
        raw == Len(s.stream) = page.size
    IN CASE page.magic \notin {"LEAF", "LDIR"} \/ page.encrypted \/ page.codec \notin {0, 1} -> Fault(s)
         [] page.magic \in {"LEAF", "LDIR"} /\ ~ page.encrypted /\ page.codec = 0 ->
                IF raw THEN [s EXCEPT !.buf = s.stream, !.unpacked = TRUE] ELSE Fault(s)
         [] OTHER -> s

(* The payload of a mem-tree: raw, or one block and nothing after it.        *)
StartMem(page) ==
    LET s == [Start(page) EXCEPT !.stream = page.stream, !.unpacked = TRUE, !.error = FALSE]
        packed == Cut(page.stream, 2, page.stream[1])
    IN CASE page.stream = << >> \/ page.keySize = 0 -> [s EXCEPT !.page.count = 0]
         [] page.stream # << >> /\ page.keySize # 0 /\ (page.encrypted \/ page.codec \notin {0, 1}) -> Fault(s)
         [] page.stream # << >> /\ page.keySize # 0 /\ ~ page.encrypted /\ page.codec = 0 ->
                [s EXCEPT !.buf = page.stream]
         [] OTHER -> IF Len(page.stream) < 2 THEN [s EXCEPT !.page.count = 0]
                     ELSE IF 2 + page.stream[1] > Len(page.stream) THEN Fault(s)
                     ELSE [s EXCEPT !.buf = Unpack(packed, << >>)]

UnpackBlock(s) ==
    LET packedSize == s.stream[s.pos + 1]
        size       == s.stream[s.pos + 2]
        history    == Recent(s.buf)
        Bad(chunk) == Len(chunk) # size \/ \E k \in DOMAIN chunk : chunk[k] >= Ref
        Extended(chunk) == IF Bad(chunk) THEN Fault(s)
                           ELSE [s EXCEPT !.pos = @ + 2 + packedSize, !.buf = @ \o chunk]
    IN IF s.pos = Len(s.stream)
       THEN IF Len(s.buf) = s.page.size THEN [s EXCEPT !.unpacked = TRUE] ELSE Fault(s)
       ELSE IF s.pos + 2 > Len(s.stream) \/ s.pos + 2 + packedSize > Len(s.stream) THEN Fault(s)
       ELSE Given(Unpack(Cut(s.stream, s.pos + 2, packedSize), history),
                  LAMBDA o : Extended(SubSeq(o, Len(history) + 1, Len(o))))

-----------------------------------------------------------------------------
(* Cells *)

(* A length: its bytes up to the first without the mark, the lowest first.   *)
LebEnds(buf, p) == {q \in p..(Len(buf) - 1) : buf[q + 1] < Digit}
LebBad(buf, p)  == LebEnds(buf, p) = {} \/ Min(LebEnds(buf, p)) >= p + LongestLeb
LebNext(buf, p) == Min(LebEnds(buf, p)) + 1
LebValue(buf, p) ==
    MapThenSumSet(LAMBDA q : (buf[q + 1] % Digit) * Digit^(q - p), p..(LebNext(buf, p) - 1))

TakeAt(s, p, keySize, valSize, alive) ==
    [s EXCEPT !.p = p + keySize + valSize,
              !.cells = Append(@, [key |-> Cut(s.buf, p, keySize),
                                   value |-> Cut(s.buf, p + keySize, valSize), alive |-> alive])]

TakeVariable(s) ==
    IF LebBad(s.buf, s.p) THEN Fault(s)
    ELSE LET q == LebNext(s.buf, s.p)
         IN IF LebBad(s.buf, q) THEN Fault(s)
            ELSE LET keySize == LebValue(s.buf, s.p)
                     valSize == LebValue(s.buf, q)
                 IN IF keySize > MaxLength \/ valSize > MaxLength THEN Fault(s)
                    ELSE TakeAt(s, LebNext(s.buf, q), keySize, valSize, TRUE)

TakeFixed(s) == TakeAt(s, s.p, s.page.keySize, ValSize(s.page), TRUE)

(* The group's count, then the bitmap, of which the last byte has the first  *)
(* cells.                                                                    *)
OpenGroup(s) ==
    IF s.p + 4 > Len(s.buf) THEN Fault(s)
    ELSE LET count == s.buf[s.p + 1]
             map   == s.buf[s.p + 4] + 2^MapBits * s.buf[s.p + 3] + 2^(2 * MapBits) * s.buf[s.p + 2]
         IN IF count = 0 \/ count > GroupMax THEN Fault(s)
            ELSE [s EXCEPT !.p = @ + 4, !.left = count,
                           !.bitmap = [j \in 1..count |-> (map \div 2^(j - 1)) % 2 = 1]]

TakeInGroup(s) ==
    LET alive == Head(s.bitmap)
    IN [TakeAt(s, s.p, s.page.keySize, IF alive THEN ValSize(s.page) ELSE 0, alive)
        EXCEPT !.left = @ - 1, !.bitmap = Tail(@)]

TakeCell(s) == CASE ~ Compact(s.page) -> IF s.page.keySize = 0 THEN TakeVariable(s) ELSE TakeFixed(s)
                 [] OTHER -> IF s.left = 0 THEN OpenGroup(s) ELSE TakeInGroup(s)

Ended(s) == s.error \/ (s.unpacked /\ Len(s.cells) = s.page.count)

DecodeStep(s) == IF s.unpacked THEN TakeCell(s) ELSE UnpackBlock(s)

-----------------------------------------------------------------------------
(* The writer's side *)

Leb(n) == IF n < Digit THEN <<n>> ELSE <<Digit + (n % Digit), n \div Digit>>

VariableBytes(cells) ==
    FoldLeft(LAMBDA o, c : o \o Leb(Len(c.key)) \o Leb(Len(c.value)) \o c.key \o c.value, << >>, cells)

FixedBytes(cells) == FoldLeft(LAMBDA o, c : o \o c.key \o c.value, << >>, cells)

MapByte(group, b) ==
    MapThenSumSet(LAMBDA j : 2^(j - 1 - b * MapBits),
                  {j \in DOMAIN group : group[j].alive /\ (j - 1) \div MapBits = b})

CompactBytes(cells) ==
    LET GroupAt(g) == SubSeq(cells, g * GroupMax + 1, Min({(g + 1) * GroupMax, Len(cells)}))
    IN FoldLeft(LAMBDA o, g : LET G == GroupAt(g - 1)
                              IN o \o <<Len(G), MapByte(G, 2), MapByte(G, 1), MapByte(G, 0)>> \o FixedBytes(G),
                << >>, [i \in 1..((Len(cells) + GroupMax - 1) \div GroupMax) |-> i])

(* Blocks of at most n bytes; a byte that occurs within the history is       *)
(* written as a reference to it.                                             *)
Pack(bytes, n) ==
    LET Packed(k) == LET same == {d \in 1..Min({History, k - 1}) : bytes[k - d] = bytes[k]}
                   IN IF same = {} THEN bytes[k] ELSE Ref + Min(same)
        Block(b) == [k \in 1..Min({n, Len(bytes) - b * n}) |-> Packed(b * n + k)]
    IN FoldLeft(LAMBDA o, b : LET B == Block(b - 1) IN o \o <<Len(B), Len(B)>> \o B,
                << >>, [b \in 1..((Len(bytes) + n - 1) \div n) |-> b])
=============================================================================

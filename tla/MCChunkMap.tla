------------------------------ MODULE MCChunkMap ------------------------------
(* Archives of four partition blocks: legacy ones in two or three pieces,     *)
(* also with no whole block between two or with too much filler, modern ones, *)
(* damaged ones, and ones the reader refuses.                                 *)
EXTENDS ChunkMap, TLC

Block(b) == [kind |-> "block", pre |-> 8, z |-> 1 + b, pb |-> b, first |-> None, early |-> None,
             good |-> TRUE, pages |-> TRUE, cpb |-> None]
Piece(l, from, to) == [kind |-> "inline", pre |-> 1 + l, z |-> 4, pb |-> 0, first |-> l, early |-> None,
                       good |-> TRUE, pages |-> FALSE, cpb |-> 64, from |-> from, count |-> to - from]
Other(n) == [kind |-> "other", pre |-> 0, z |-> n, pb |-> 0, good |-> TRUE]

(* Items one after the other.                                                *)
Placed(items) ==
    LET at[i \in 1..Len(items)] ==
            IF i = 1 THEN DataStart ELSE at[i - 1] + items[i - 1].pre + items[i - 1].z
    IN [i \in DOMAIN items |-> [k \in DOMAIN items[i] \cup {"at"} |->
                                   IF k = "at" THEN at[i] ELSE items[i][k]]]

ItemOf(items, b) == LET s == {i \in DOMAIN items : items[i].pb = b}
                    IN IF s = {} THEN 0 ELSE CHOOSE i \in s : TRUE

(* What a map says of each block; the offset it has of a sparse one is 0, or *)
(* the end of the block before in the same piece.                            *)
ToldOf(items, starts, zero) ==
    LET told[b \in 0..4] ==
            LET i == ItemOf(items, b)
            IN IF b = 0 THEN [off |-> 0, len |-> 0]
               ELSE IF i # 0 THEN [off |-> items[i].at - DataStart, len |-> items[i].pre + items[i].z]
               ELSE [off |-> IF zero \/ b \in starts THEN 0 ELSE told[b - 1].off + told[b - 1].len,
                     len |-> 0]
    IN [b \in 1..4 |-> told[b]]

(* The records of blocks from + 1 to `to' as the archive's writer has them.  *)
Encoded(told, from, to) ==
    LET n == to - from
        end(k) == IF k = 0 THEN 0 ELSE told[from + k].off + told[from + k].len
        enc(k) == Zigzag(told[from + k].off - end(k - 1))
        column(c, k) == CASE c = 0 -> enc(k) % Word [] c = 1 -> enc(k) \div Word [] c = 2 -> told[from + k].len
    IN [j \in 1..(3 * n) |-> column((j - 1) \div n, ((j - 1) % n) + 1)]

Archive(items, pieces, told, odd) ==
    [name |-> None, volumes |-> {}, seq |-> 1, magic |-> "sector", version |-> 0, fourK |-> FALSE,
     trailer |-> "sector", bodyLen |-> 10, metaLen |-> 5, cands |-> {}, meta |-> 500,
     trailerAt |-> 600, items |-> items, place |-> [b \in 1..4 |-> ItemOf(items, b)],
     told |-> told, pieces |-> pieces, odd |-> odd]

Blocks(bs) == [k \in DOMAIN bs |-> Block(bs[k])]
Order(S, back) == LET s == SetToSortSeq(S, <) IN IF back THEN Reverse(s) ELSE s

(* Pieces for blocks 1..ends[1], ends[1]+1..ends[2], ..., with filler.       *)
LegacyItems(ends, sparse, back, pad) ==
    LET From0(k) == IF k = 1 THEN 0 ELSE ends[k - 1]
        pads(k)  == IF k = Len(ends) THEN <<Other(30)>> ELSE IF pad = 0 THEN << >> ELSE <<Other(pad)>>
        group(k) == Blocks(Order(((From0(k) + 1)..ends[k]) \ sparse, back))
                    \o <<Piece(IF k = 1 THEN 17 ELSE 19, From0(k), ends[k])>> \o pads(k)
    IN FlattenSeq([k \in DOMAIN ends |-> group(k)])

Filled(raw, ends, zero, damaged) ==
    LET placed == Placed(raw)
        told == ToldOf(placed, {1} \cup {ends[k] + 1 : k \in DOMAIN ends}, zero)
        fill(it) == IF it.kind # "inline" THEN it
                    ELSE it @@ ("plain" :> Encoded(told, it.from, it.from + it.count))
    IN Archive([i \in DOMAIN placed |-> [fill(placed[i]) EXCEPT !.good = (i # damaged)]],
               SetToSortSeq({i \in DOMAIN placed : placed[i].kind = "inline"}, <), told, FALSE)

LegacyArchive(ends, sparse, back, pad, zero, damaged, flagged) ==
    LET flag(it) == IF it.kind = "block" /\ it.pb \in flagged THEN [it EXCEPT !.first = 17] ELSE it
        raw == LegacyItems(ends, sparse, back, pad)
    IN Filled([i \in DOMAIN raw |-> flag(raw[i])], ends, zero, damaged)

LegacyArchives == {LegacyArchive(<<split, 4>>, sparse, back, pad, zero, damaged, {2}) :
                       split \in {1, 2}, sparse \in {{}, {3}, {1, 4}}, back \in BOOLEAN,
                       pad \in {0, 5}, zero \in BOOLEAN, damaged \in 0..7}
                  \cup {LegacyArchive(<<1, 3, 4>>, sparse, back, pad, FALSE, damaged, {2}) :
                            sparse \in {{}, {1}}, back \in BOOLEAN, pad \in {0, 5}, damaged \in 3..4}
                  \cup {LegacyArchive(<<1, 2, 4>>, sparse, back, pad, FALSE, damaged, {}) :
                            sparse \in {{}, {2}, {1}}, back \in BOOLEAN, pad \in {0, 5, 99, 130},
                            damaged \in 0..8}

(* Bitmaps of 16 bytes, which the first piece says.                          *)
WideArchive(sparse) ==
    LET raw == LegacyItems(<<1, 4>>, sparse, FALSE, 5)
        wide(it) == CASE it.kind = "block"  -> [it EXCEPT !.pre = 16]
                      [] it.kind = "inline" -> [it EXCEPT !.cpb = 128]
                      [] OTHER              -> it
    IN Filled([i \in DOMAIN raw |-> wide(raw[i])], <<1, 4>>, FALSE, 0)

MapItem(told) == [kind |-> "map", pre |-> 20, z |-> 6, pb |-> 0, first |-> None,
                  early |-> None, good |-> TRUE, pages |-> FALSE, cpb |-> None,
                  plain |-> told]
Loc(at, V, S) == [at |-> at, V |-> V, S |-> S]

ModernArchive(order, sparse, zero, good, decoys) ==
    LET wide(b) == [Block(b) EXCEPT !.pre = 16]
        blocks == [k \in DOMAIN order |-> wide(order[k])]
        kept == SelectSeq(blocks, LAMBDA m : m.pb \notin sparse)
        placed == Placed(Append(kept, MapItem(<<>>)))
        n == Len(placed)
        told == ToldOf(placed, {1}, zero)
        items == [placed EXCEPT ![n].plain = Encoded(told, 0, 4), ![n].good = good]
    IN [Archive(items, << >>, told, FALSE)
        EXCEPT !.cands = {Loc(590, placed[n].at - DataStart, 26)} \cup decoys]

ModernArchives == {ModernArchive(order, sparse, zero, TRUE, {}) :
                       order \in {<<1, 2, 3, 4>>, <<3, 1, 4, 2>>, <<4, 3, 2, 1>>},
                       sparse \in {{}, {1}, {2, 4}, {1, 2, 3}}, zero \in BOOLEAN}

A0 == LegacyArchive(<<2, 4>>, {}, FALSE, 0, FALSE, 0, {})
M0 == ModernArchive(<<1, 2, 3, 4>>, {}, FALSE, TRUE, {})
With(a, k, f(_)) == [a EXCEPT !.items[k] = f(@), !.odd = TRUE]
BadSize == CHOOSE c \in M0.cands : TRUE

Refused ==
    {[A0 EXCEPT !.magic = "tibx"], [A0 EXCEPT !.version = 1, !.fourK = TRUE],
     [A0 EXCEPT !.version = 1], [A0 EXCEPT !.trailer = "fs"], [A0 EXCEPT !.metaLen = 3],
     [A0 EXCEPT !.metaLen = 8], [A0 EXCEPT !.seq = 2],
     [A0 EXCEPT !.name = 1, !.volumes = {1, 2}], [A0 EXCEPT !.name = 1, !.volumes = {1}],
     [A0 EXCEPT !.name = 1, !.volumes = {1, 3}], [A0 EXCEPT !.name = 2, !.seq = 2, !.volumes = {1, 2}],
     [A0 EXCEPT !.name = 3, !.seq = 3, !.volumes = {1, 3}]}

(* Locators that are not the archive's own, too small, too far or unseen; a  *)
(* damaged map; a bitmap that starts like a piece of the map; other          *)
(* geometries, TLVs and counts.                                              *)
Odd ==
    {[ModernArchive(<<1, 2, 3, 4>>, {}, FALSE, TRUE, {d}) EXCEPT !.odd = d.V < BadSize.V /\ d.V > 1] :
        d \in {Loc(580, BadSize.V + 3, 26), Loc(595, BadSize.V, 25), Loc(595, BadSize.V - 3, 26),
               Loc(580, BadSize.V - 3, 2), Loc(580, 1, 26), Loc(100, BadSize.V - 3, 26)}}
    \cup {ModernArchive(<<1, 2, 3, 4>>, {}, FALSE, FALSE, {}),
          [M0 EXCEPT !.cands = {[BadSize EXCEPT !.S = 25]}, !.odd = TRUE],
          [M0 EXCEPT !.cands = {}, !.odd = TRUE],
          [M0 EXCEPT !.items[5].plain = << >>, !.place = << >>, !.told = << >>, !.odd = TRUE],
          [M0 EXCEPT !.items[5].plain = Tail(@), !.odd = TRUE],
          With(A0, 1, LAMBDA m : [m EXCEPT !.first = 17, !.early = 4]),
          With(A0, 4, LAMBDA m : [m EXCEPT !.first = 17, !.early = 4]),
          [WideArchive({}) EXCEPT !.odd = TRUE], WideArchive({1, 3}),
          With(A0, 3, LAMBDA m : [m EXCEPT !.cpb = None]),
          With(A0, 3, LAMBDA m : [m EXCEPT !.count = None]),
          With(A0, 3, LAMBDA m : [m EXCEPT !.count = 1]),
          With(A0, 3, LAMBDA m : [m EXCEPT !.first = None]),
          [A0 EXCEPT !.items = Front(@)],
          [A0 EXCEPT !.items = <<@[1]>>, !.pieces = << >>, !.place = <<1, 0, 0, 0>>,
                     !.told = [b \in 1..4 |-> IF b = 1 THEN @[1] ELSE [off |-> 0, len |-> 0]], !.odd = TRUE]}

(* Damage to one of the two pieces is also in LegacyArchives.                *)
MCArchives == LegacyArchives \cup ModernArchives \cup Refused \cup Odd
=============================================================================

----------------------------- MODULE MCTibReader -----------------------------
(* A small archive for TibReader: five blocks of sixteen two-byte clusters.  *)
(* Blocks 0 and 1 are sound; block 2 has a corrupt index record; block 3 no  *)
(* longer inflates; block 4 was cut short after its first cluster.           *)
EXTENDS TibReader, TLC, SequencesExt

MCBlockCount == 5
MCClustersPerBlock == 16

(* Bits in the first and in the second byte, and at both ends of each. *)
MCPreamble == [b \in 0..4 |->
    [i \in 0..1 |-> CASE b = 0 /\ i = 0 -> {1, 7}
                      [] b = 0 /\ i = 1 -> {0, 1, 3}
                      [] b # 0 /\ i = 0 -> {0, 1}
                      [] b # 0 /\ i = 1 -> {2}]]

MCStored(b) == {l \in 0..15 : (l % 8) \in MCPreamble[b][l \div 8]}

(* Every byte of the disk differs from every other. *)
MCDisk  == [c \in 0..79 |-> <<2 * c + 1, 2 * c + 2>>]
MCByte  == 0..160

MCFull(b) == LET s == SetToSortSeq(MCStored(b), <)
             IN [k \in 1..Len(s) |-> MCDisk[16 * b + s[k]]]
MCArchive == [b \in 0..4 |-> IF b = 4 THEN SubSeq(MCFull(b), 1, 1) ELSE MCFull(b)]

(* Starting inside cluster 7 of block 0 (three stored clusters either side  *)
(* of a bitmap byte boundary), across the end of block 0 into block 1, in   *)
(* each damaged block, before the start and across the end.                 *)
MCOffsets == {-1, 15, 30, 65, 97, 129, 158}
MCLengths == {0, 5}
=============================================================================

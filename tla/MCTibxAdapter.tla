---------------------------- MODULE MCTibxAdapter ----------------------------
(* A nine-page archive, opened as a slice whose first global page is 6, so   *)
(* that 6, 7 and 8 are global and local pages.                               *)
(* Its pages, one line for each segment headed there:                        *)
(*   1 "one": one page, two bytes          2 "two": pages 2 and 3, two bytes *)
(*   4 "short": one byte, its extent says two                                *)
(*   5 "sealed": encrypted                                                   *)
(*   7 "mixed": one page, one byte, that is page 1's global number           *)
(*   8 "cut": one page; page 2, whose global number it is, heads two         *)
(* "stale" points at a page without a header, "global" names page 4 by its   *)
(* global number, "past" is a global page after the slice, "lost" is not in  *)
(* the index.                                                                *)
EXTENDS TibxAdapter, TLC

MCSegments == {"one", "two", "short", "sealed", "mixed", "cut", "stale", "global", "past", "lost"}

MCKind == 0 :> "other" @@ 1 :> "sg" @@ 2 :> "sg" @@ 3 :> "data" @@ 4 :> "sg"
          @@ 5 :> "sg" @@ 6 :> "other" @@ 7 :> "sg" @@ 8 :> "sg"
MCSpan == [p \in 0..8 |-> IF p = 2 THEN 2 ELSE 1]

MCSegIndex == "one" :> 1 @@ "two" :> 2 @@ "short" :> 4 @@ "sealed" :> 5 @@ "mixed" :> 7
              @@ "cut" :> 8 @@ "stale" :> 3 @@ "global" :> 10 @@ "past" :> 15 @@ "lost" :> NotIndexed

(* A hole before the first extent, one between extents, none at the end of   *)
(* "one", and an extent that shares the offset of "lost" and hides it.       *)
MCExtents == << [off |-> 1, len |-> 2, seg |-> "one"],
                [off |-> 3, len |-> 2, seg |-> "two"],
                [off |-> 7, len |-> 1, seg |-> "lost"],
                [off |-> 7, len |-> 2, seg |-> "short"],
                [off |-> 9, len |-> 1, seg |-> "sealed"],
                [off |-> 10, len |-> 1, seg |-> "cut"],
                [off |-> 11, len |-> 1, seg |-> "stale"],
                [off |-> 12, len |-> 1, seg |-> "global"],
                [off |-> 13, len |-> 1, seg |-> "past"],
                [off |-> 14, len |-> 1, seg |-> "lost"],
                [off |-> 15, len |-> 1, seg |-> "mixed"] >>

(* What the stream at a page holds, every byte different from every other.   *)
MCContent == 1 :> <<"a", "b">> @@ 2 :> <<"c", "d">> @@ 4 :> <<"e">>
             @@ 5 :> <<"f">> @@ 7 :> <<"g">> @@ 8 :> <<"h">>
MCByte == {"a", "b", "c", "d", "e", "f", "g", "h", "x", "y", "zero"}
MCZero == "zero"

(* "one" is stored uncompressed, so the payload of any other one-page        *)
(* segment passes for its own; a compressed segment accepts no other stream. *)
MCInflate(p, r) ==
    CASE r = Payloads(p, p) -> MCContent[p]
      [] r # Payloads(p, p) /\ p = 1 /\ r[1][2] = "payload" -> <<"x", "y">>
      [] OTHER -> Undecodable

(* The first thread reads parts of extents into and out of a hole and at a   *)
(* short segment, each damaged segment, past the end of the volume and       *)
(* before its start; the second reads one of the first's segments, so as to  *)
(* race it for file and cache.                                               *)
CONSTANTS t1, t2
MCRequests ==
    t1 :> ({[off |-> 2, len |-> 4], [off |-> 6, len |-> 3], [off |-> 16, len |-> 1],
            [off |-> -1, len |-> 1]}
           \cup {[off |-> i, len |-> 1] : i \in 9..15})
    @@ t2 :> {[off |-> 3, len |-> 1]}

(* One that begins in the hole before the first extent.                      *)
MCEarly == t1 :> {[off |-> 0, len |-> 4]} @@ t2 :> {[off |-> 0, len |-> 4]}
=============================================================================

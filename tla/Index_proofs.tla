---------------------------- MODULE Index_proofs ----------------------------
(***************************************************************************)
(* The index of an archive, from its making to its use.                    *)
(*                                                                         *)
(* ChunkMap, for any archive that is laid out as its writer lays it out,   *)
(* with any damage and its pieces anywhere among the blocks: the index     *)
(* that is built is that of the archive up to the first piece missed, and  *)
(* that one is missed only for what lies in front of it.                   *)
(*                                                                         *)
(* Sidecar, for any number of processes, versions and records.  The        *)
(* invariant: a file that no two processes wrote side by side is a prefix  *)
(* of one index, a proper one only while its writer is at work or when it  *)
(* stopped in the middle; what a process has read of it is where it begins,*)
(* unless it was begun anew since.                                         *)
(***************************************************************************)
EXTENDS ChunkMap, Sidecar, Lemmas, TLAPS

-----------------------------------------------------------------------------
(* Chunk maps: the inductive invariant                                       *)

Phases == {"header", "trailer", "locate", "map", "walk", "skip", "decode", "write", "done", "error"}

(* The walk took something else for a piece: decoding will find out.         *)
NoPieceAt(a, p) == \A i \in DOMAIN a.items : a.items[i].at = p => a.items[i].kind # "inline"
Doomed(a, m) == \E k \in 1..Len(m) : NoPieceAt(a, m[k])

MapTypes == /\ arch \in Archives /\ numpy \in BOOLEAN /\ phase \in Phases
            /\ cur \in Nat /\ mds \in Seq(Nat) /\ cpb \in Nat /\ plen \in Nat /\ locked \in BOOLEAN

(* Before the walk, and before the map is read.                              *)
EarlyInv ==
    /\ phase \in {"header", "trailer", "locate"} =>
          cur = DataStart /\ cpb = 8 * Legacy /\ plen = Legacy /\ ~locked
    /\ phase \in {"header", "trailer", "locate", "map"} => mds = << >>
    /\ phase \in {"header", "trailer", "locate", "map", "walk", "skip"} => recs = << >>

AtMapInv == phase = "map" => /\ Candidates(arch) # {} /\ cur \in At(DataStart + Chosen.V)
                             /\ Item(cur).kind = "map"

(* What is found are the first pieces.                                       *)
Tracked(a, m) == /\ Len(m) <= Len(a.pieces)
                 /\ \A k \in 1..Len(m) : m[k] = a.items[a.pieces[k]].at

PieceAt(a, n) == a.items[a.pieces[n]]

GeometryKnown(a, m, p, c, l) == IF m = << >> THEN ~l /\ p = Legacy /\ c = 8 * Legacy
                                ELSE l /\ p = Geometry(a)

(* No piece is behind c that is not found: while the n-th is to come, the    *)
(* walk stands where an item in front of it begins.                          *)
StandsBefore(a, n, c) == \E j \in 1..a.pieces[n] : /\ c = a.items[j].at
                                                   /\ a.items[j].kind \in {"block", "inline"}
AheadInv(a, m, c, ph) ==
    /\ m # << >> => c >= EndOf(PieceAt(a, Len(m)))
    /\ Len(m) < Len(a.pieces) =>
          /\ ph = "walk" => StandsBefore(a, Len(m) + 1, c)
          /\ ph = "skip" => m # << >> /\ c = EndOf(PieceAt(a, Len(m)))

(* The first n pieces are found; if there are more, the next one is missed,  *)
(* for a cause.                                                              *)
Reached(a, m, n) == /\ n \in 1..Len(a.pieces) /\ n <= Len(m)
                    /\ \A k \in 1..n : m[k] = PieceAt(a, k).at
                    /\ \A k \in (n + 1)..Len(m) : n < Len(a.pieces) /\ PieceAt(a, n + 1).at < m[k]
                    /\ n < Len(a.pieces) => Cause(a, n)

(* The walk is past a piece that it did not find.                            *)
Lost(a, m, c, p, l) == /\ p = Geometry(a) /\ l
                       /\ \E n \in 1..(Len(a.pieces) - 1) : Reached(a, m, n) /\ PieceAt(a, n + 1).at < c

WalkInv == phase \in {"walk", "skip"} /\ ~Doomed(arch, mds) /\ ~Lost(arch, mds, cur, plen, locked) =>
              /\ Tracked(arch, mds) /\ GeometryKnown(arch, mds, plen, cpb, locked)
              /\ AheadInv(arch, mds, cur, phase)

RecsTold(a, r) == /\ r \in Seq([off : Nat, len : Nat]) /\ Len(r) <= Len(a.told)
                  /\ \A b \in 1..Len(r) : r[b] = a.told[b]

(* The records of the pieces before the c-th: those of the first n as they   *)
(* are written, whatever comes behind them.                                  *)
Partly(a, r, c, n) ==
    /\ c <= n + 1 => RecsTold(a, r) /\ Len(r) = From(a, c)
    /\ c > n + 1 => /\ r \in Seq([off : Nat, len : Nat]) /\ From(a, n + 1) <= Len(r)
                    /\ \A b \in 1..From(a, n + 1) : r[b] = a.told[b]

DecodeInv ==
    phase = "decode" =>
        /\ cur \in 1..(Len(mds) + 1)
        /\ \A k \in 1..(cur - 1) : ~NoPieceAt(arch, mds[k])
        /\ ~Doomed(arch, mds) =>
              /\ plen = Geometry(arch)
              /\ \E n \in 1..Len(arch.pieces) : Reached(arch, mds, n) /\ Partly(arch, recs, cur, n)

WriteInv == phase = "write" =>
               /\ plen = Geometry(arch)
               /\ \/ arch.pieces = << >> /\ RecsTold(arch, recs) /\ Len(recs) = Len(arch.told)
                  \/ \E n \in 1..Len(arch.pieces) :
                        Reached(arch, mds, n) /\ Partly(arch, recs, Len(mds) + 1, n)

OrdinaryInv == Ordinary => /\ phase # "error"
                           /\ phase \in {"walk", "skip", "decode"} =>
                                 ~Doomed(arch, mds) /\ Candidates(arch) = {}

DoneInv == EntriesAreExact /\ MissedForCause

MapInv == /\ MapTypes /\ EarlyInv /\ AtMapInv /\ WalkInv /\ DecodeInv /\ WriteInv /\ OrdinaryInv
          /\ DoneInv

-----------------------------------------------------------------------------
(* Offsets: sums and deltas in 64 bits                                       *)

LEMMA WideFacts == Wide \in Nat \ {0} /\ Word \in Nat \ {0} /\ Word % 2 = 0
<1>1. Word \in Nat \ {0} /\ Word % 2 = 0  BY ChunkMapAssumption DEF ChunkMapAssumption
<1>2. Word * Word > 0  BY <1>1
<1> QED BY <1>1, <1>2 DEF Wide

LEMMA ModIs ==
    ASSUME NEW W \in Nat \ {0}, NEW q \in Int, NEW r \in 0..(W - 1), NEW x \in Int, x = W * q + r
    PROVE  x % W = r
<1>1. x = W * (x \div W) + (x % W) /\ x \div W \in Int /\ x % W \in 0..(W - 1)  BY Division
<1> QED BY <1>1, DivisionUnique

LEMMA ModSmall == ASSUME NEW W \in Nat \ {0}, NEW x \in 0..(W - 1) PROVE x % W = x
<1>1. x = W * 0 + x /\ 0 \in Int /\ x \in Int  OBVIOUS
<1> QED BY <1>1, ModIs

LEMMA ModLess == ASSUME NEW W \in Nat \ {0}, NEW x \in Int PROVE x % W \in 0..(W - 1)
  BY Division

(* A remainder may be taken before a number is added, or after.              *)
LEMMA ModCarry ==
    ASSUME NEW W \in Nat \ {0}, NEW a \in Int, NEW b \in Int
    PROVE  ((a % W) + b) % W = (a + b) % W
<1>1. a = W * (a \div W) + (a % W) /\ a \div W \in Int /\ a % W \in 0..(W - 1)  BY Division
<1>2. PICK q \in Int, r \in 0..(W - 1) : a = W * q + r /\ r = a % W  BY <1>1
<1>3. PICK y \in Int : y = r + b  BY <1>2
<1>4. PICK p \in Int, s \in 0..(W - 1) : y = W * p + s  BY Division
<1>5. y % W = s  BY <1>4, ModIs
<1>6. PICK x \in Int : x = a + b  BY <1>2
<1>7. PICK t \in Int : t = q + p  BY <1>2, <1>4
<1>8. W * t = W * q + W * p  BY <1>7
<1>9. x = W * t + s
  <2>1. PICK u \in Int : u = W * q  BY <1>2
  <2>2. PICK v \in Int : v = W * p  BY <1>4
  <2>3. a = u + r  BY <1>2, <2>1, Zenon
  <2>4. y = v + s  BY <1>4, <2>2, Zenon
  <2>5. x = u + v + s  BY <1>3, <1>6, <2>3, <2>4
  <2>6. W * t = u + v  BY <1>8, <2>1, <2>2, Zenon
  <2> QED BY <2>5, <2>6
<1>10. x % W = s  BY <1>9, ModIs
<1> QED BY <1>2, <1>3, <1>5, <1>6, <1>10

LEMMA ModWrap == ASSUME NEW W \in Nat \ {0}, NEW x \in 0..(W - 1) PROVE (x + W) % W = x
<1>1. x + W = W * 1 + x /\ x + W \in Int  OBVIOUS
<1> QED BY <1>1, ModIs

(* The two words of a delta, put together again.                             *)
LEMMA DeltaIs ==
    ASSUME NEW lo \in 0..(Word - 1), NEW hi \in 0..(Word - 1), NEW d \in Int,
           lo + Word * hi = Zigzag(d)
    PROVE  Delta(lo, hi) = IF d < 0 THEN (Wide + d) % Wide ELSE d
<1> DEFINE H == Word \div 2  l == lo \div 2  s == lo % 2  h == hi \div 2  r == hi % 2
           mag == h * Word + l + r * H
<1>1. Word = 2 * H /\ H \in Nat /\ lo = 2 * l + s /\ l \in Nat /\ s \in {0, 1}
      /\ hi = 2 * h + r /\ h \in Nat /\ r \in {0, 1} /\ Word \in Nat
  BY WideFacts
<1>2. mag = h * Word + l + r * H /\ Delta(lo, hi) = IF s = 1 THEN (Wide - mag) % Wide ELSE mag
  BY DEF Delta
<1> HIDE DEF H, l, s, h, r, mag
<1>3. mag \in Nat
  <2>1. h * Word \in Nat /\ r * H \in Nat  BY <1>1
  <2> QED BY <1>1, <1>2, <2>1
<1>4. lo + Word * hi = 2 * mag + s
  <2>1. PICK a \in Int : a = h * Word  BY <1>1
  <2>2. PICK b \in Int : b = r * H  BY <1>1
  <2>3. Word * hi = 2 * a + 2 * b
    <3>1. Word * hi = Word * (2 * h) + Word * r  BY <1>1
    <3>2. Word * (2 * h) = 2 * (h * Word)  BY <1>1
    <3>3. Word * r = 2 * (r * H)
      <4>1. CASE r = 0  BY <1>1, <4>1
      <4>2. CASE r = 1  BY <1>1, <4>2
      <4> QED BY <1>1, <4>1, <4>2
    <3> QED BY <3>1, <3>2, <3>3, <2>1, <2>2
  <2> QED BY <1>1, <1>2, <2>1, <2>2, <2>3
<1>5. CASE d < 0
  <2>1. 2 * (-d) + 1 = 2 * mag + s  BY <1>4, <1>5 DEF Zigzag
  <2>2. s = 1 /\ mag = -d  BY <2>1, <1>1, <1>3
  <2>3. Wide - mag = Wide + d  BY <2>2, WideFacts
  <2> QED BY <1>2, <1>5, <2>2, <2>3
<1>6. CASE ~ (d < 0)
  <2>1. 2 * d = 2 * mag + s  BY <1>4, <1>6 DEF Zigzag
  <2>2. s = 0 /\ mag = d  BY <2>1, <1>1, <1>3
  <2> QED BY <1>2, <1>6, <2>2
<1> QED BY <1>5, <1>6

(* From the end of the block before, an offset is found again.               *)
LEMMA OffsetFound ==
    ASSUME NEW lo \in 0..(Word - 1), NEW hi \in 0..(Word - 1), NEW end \in 0..(Wide - 1),
           NEW off \in 0..(Wide - 1), lo + Word * hi = Zigzag(off - end)
    PROVE  (end + Delta(lo, hi)) % Wide = off
<1> DEFINE d == off - end
<1>0. d \in Int /\ Wide \in Nat \ {0} /\ d = off - end  BY WideFacts
<1>1. Delta(lo, hi) = IF d < 0 THEN (Wide + d) % Wide ELSE d
  <2> HIDE DEF d
  <2> QED BY <1>0, DeltaIs
<1> HIDE DEF d
<1>2. CASE d < 0
  <2>1. Wide + d \in 0..(Wide - 1)  BY <1>0, <1>2
  <2>2. (Wide + d) % Wide = Wide + d  BY <1>0, <2>1, ModSmall
  <2>3. end + (Wide + d) = off + Wide  BY <1>0
  <2> QED BY <1>0, <1>1, <1>2, <2>2, <2>3, ModWrap
<1>3. CASE ~ (d < 0)
  <2>1. end + d = off  BY <1>0
  <2> QED BY <1>0, <1>1, <1>3, <2>1, ModSmall
<1> QED BY <1>2, <1>3

-----------------------------------------------------------------------------
(* Rows of three words. *)

Words(rows, count) == \A i \in 1..count : \A c \in 1..3 : Row(rows, i)[c] \in 0..(Word - 1)

LEMMA DeltaType ==
    ASSUME NEW lo \in 0..(Word - 1), NEW hi \in 0..(Word - 1)
    PROVE  Delta(lo, hi) \in Int
<1> DEFINE mag == (hi \div 2) * Word + (lo \div 2) + (hi % 2) * (Word \div 2)
<1>1. mag \in Int
  <2>1. hi \div 2 \in Int /\ lo \div 2 \in Int /\ hi % 2 \in Int /\ Word \div 2 \in Int /\ Word \in Int
    BY WideFacts
  <2>2. (hi \div 2) * Word \in Int /\ (hi % 2) * (Word \div 2) \in Int  BY <2>1
  <2> QED BY <2>1, <2>2
<1>2. Delta(lo, hi) = IF lo % 2 = 1 THEN (Wide - mag) % Wide ELSE mag  BY DEF Delta
<1> HIDE DEF mag
<1>3. Wide - mag \in Int /\ Wide \in Nat \ {0}  BY <1>1, WideFacts
<1>4. (Wide - mag) % Wide \in 0..(Wide - 1)  BY <1>3, ModLess
<1> QED BY <1>1, <1>2, <1>4

LEMMA RowFacts ==
    ASSUME NEW count \in Nat, NEW rows, Words(rows, count), NEW i \in 1..count
    PROVE  /\ Delta(Row(rows, i)[1], Row(rows, i)[2]) \in Int
           /\ Row(rows, i)[3] \in Nat
           /\ i # 1 => Row(rows, i - 1)[3] \in Nat
<1>1. \A j \in 1..count : Row(rows, j)[1] \in 0..(Word - 1) /\ Row(rows, j)[2] \in 0..(Word - 1)
                          /\ Row(rows, j)[3] \in 0..(Word - 1)
  <2>1. 1 \in 1..3 /\ 2 \in 1..3 /\ 3 \in 1..3  OBVIOUS
  <2> QED BY <2>1 DEF Words
<1>2. Delta(Row(rows, i)[1], Row(rows, i)[2]) \in Int  BY <1>1, DeltaType
<1>3. i # 1 => i - 1 \in 1..count  OBVIOUS
<1>4. 0..(Word - 1) \subseteq Nat  BY WideFacts
<1> QED BY <1>1, <1>2, <1>3, <1>4

LEMMA LoopIs ==
    ASSUME NEW count \in Nat, NEW rows, Words(rows, count)
    PROVE  \E ends \in [0..count -> 0..(Wide - 1)] :
              /\ ends[0] = 0
              /\ \A i \in 1..count :
                    ends[i] = (OffsetFrom(ends[i - 1], Row(rows, i)) + Row(rows, i)[3]) % Wide
              /\ DecodeLoop(rows, count) =
                    [i \in 1..count |-> [off |-> OffsetFrom(ends[i - 1], Row(rows, i)), len |-> Row(rows, i)[3]]]
<1> DEFINE S == 0..(Wide - 1)
           G(x, i) == (OffsetFrom(x, Row(rows, i)) + Row(rows, i)[3]) % Wide
           g == [i \in 1..count |-> [x \in S |-> G(x, i)]]
           Eq(z) == z = [i \in 0..count |-> IF i = 0 THEN 0 ELSE G(z[i - 1], i)]
<1>1. ASSUME NEW x \in S, NEW i \in 1..count PROVE G(x, i) \in S
  <2>1. x \in Int /\ Wide \in Nat \ {0}  BY WideFacts
  <2>2. Delta(Row(rows, i)[1], Row(rows, i)[2]) \in Int /\ Row(rows, i)[3] \in Nat  BY RowFacts
  <2>3. x + Delta(Row(rows, i)[1], Row(rows, i)[2]) \in Int  BY <2>1, <2>2
  <2>4. OffsetFrom(x, Row(rows, i)) \in 0..(Wide - 1)  BY <2>1, <2>3, ModLess DEF OffsetFrom
  <2>5. OffsetFrom(x, Row(rows, i)) + Row(rows, i)[3] \in Int  BY <2>1, <2>2, <2>4
  <2> QED BY <2>1, <2>5, ModLess
<1>2. 0 \in S  BY WideFacts
<1>3. g \in [1..count -> [S -> S]]
  <2> HIDE DEF S, G
  <2> QED BY <1>1
<1>4. PICK f : Steps(f, count, S, 0, g)
  <2> HIDE DEF g, S
  <2> QED BY <1>2, <1>3, Recursion
<1> HIDE DEF S, G
<1>5. f \in [0..count -> S] /\ Eq(f)
  <2>1. f \in [0..count -> S] /\ f = [i \in 0..count |-> IF i = 0 THEN 0 ELSE g[i][f[i - 1]]]
    BY <1>4 DEF Steps
  <2>2. \A i \in 1..count : i - 1 \in 0..count  OBVIOUS
  <2>3. \A i \in 1..count : f[i - 1] \in S  BY <2>1, <2>2
  <2>4. \A i \in 1..count : g[i][f[i - 1]] = G(f[i - 1], i)  BY <2>3
  <2>5. \A i \in 0..count : i = 0 \/ i \in 1..count  OBVIOUS
  <2> HIDE DEF g
  <2> QED BY <2>1, <2>4, <2>5
<1> DEFINE c == CHOOSE z : Eq(z)
<1>6. Eq(c)
  <2> HIDE DEF Eq
  <2> QED BY <1>5
<1>7. DecodeLoop(rows, count) =
        [i \in 1..count |-> [off |-> OffsetFrom(c[i - 1], Row(rows, i)), len |-> Row(rows, i)[3]]]
  BY DEF DecodeLoop, G
<1> HIDE DEF c
<1>8. c[0] = 0 /\ \A i \in 1..count : c[i] = G(c[i - 1], i)
  <2>1. \A i \in 0..count : c[i] = IF i = 0 THEN 0 ELSE G(c[i - 1], i)  BY <1>6, Zenon
  <2>2. 0 \in 0..count /\ \A i \in 1..count : i \in 0..count /\ i # 0  OBVIOUS
  <2> QED BY <2>1, <2>2
<1> DEFINE T == {i \in 0..count : c[i] \in S}
<1>9. 0..count \subseteq T
  <2>1. 0 \in T  BY <1>2, <1>8
  <2>2. ASSUME NEW i \in 0..(count - 1), i \in T PROVE i + 1 \in T
    <3>1. i + 1 \in 1..count /\ (i + 1) - 1 = i /\ i + 1 \in 0..count  OBVIOUS
    <3>2. c[i + 1] = G(c[i], i + 1)  BY <1>8, <3>1
    <3> QED BY <1>1, <2>2, <3>1, <3>2
  <2> HIDE DEF T
  <2> QED BY <2>1, <2>2, AllUpTo
<1>10. c \in [0..count -> S]
  <2>1. DOMAIN c = 0..count  BY <1>6, Zenon
  <2>2. c = [i \in 0..count |-> c[i]]  BY <1>6, <2>1, Zenon
  <2> QED BY <1>9, <2>2
<1> QED BY <1>7, <1>8, <1>10 DEF S, G

LEMMA StepType ==
    ASSUME NEW count \in Nat, NEW rows, Words(rows, count), NEW i \in 1..count
    PROVE  StepTo(rows, i) \in 0..(Wide - 1)
<1> DEFINE carry == IF i = 1 THEN 0 ELSE Row(rows, i - 1)[3]
           delta == Delta(Row(rows, i)[1], Row(rows, i)[2])
<1>1. carry \in Int /\ delta \in Int  BY RowFacts
<1>2. StepTo(rows, i) = (delta + carry) % Wide  BY DEF StepTo
<1> HIDE DEF carry, delta
<1>3. delta + carry \in Int /\ Wide \in Nat \ {0}  BY <1>1, WideFacts
<1> QED BY <1>2, <1>3, ModLess

LEMMA NumpyIs ==
    ASSUME NEW count \in Nat, NEW rows, Words(rows, count)
    PROVE  \E offs \in [0..count -> 0..(Wide - 1)] :
              /\ offs[0] = 0
              /\ \A i \in 1..count : offs[i] = (offs[i - 1] + StepTo(rows, i)) % Wide
              /\ DecodeNumpy(rows, count) =
                    [i \in 1..count |-> [off |-> offs[i], len |-> Row(rows, i)[3]]]
<1> DEFINE S == 0..(Wide - 1)
           G(x, i) == (x + StepTo(rows, i)) % Wide
           g == [i \in 1..count |-> [x \in S |-> G(x, i)]]
           Eq(z) == z = [i \in 0..count |-> IF i = 0 THEN 0 ELSE G(z[i - 1], i)]
<1>1. ASSUME NEW x \in S, NEW i \in 1..count PROVE G(x, i) \in S
  <2>1. x \in Int /\ Wide \in Nat \ {0}  BY WideFacts
  <2>2. StepTo(rows, i) \in Int  BY StepType
  <2>3. x + StepTo(rows, i) \in Int  BY <2>1, <2>2
  <2> QED BY <2>1, <2>3, ModLess
<1>2. 0 \in S  BY WideFacts
<1>3. g \in [1..count -> [S -> S]]
  <2> HIDE DEF S, G
  <2> QED BY <1>1
<1>4. PICK f : Steps(f, count, S, 0, g)
  <2> HIDE DEF g, S
  <2> QED BY <1>2, <1>3, Recursion
<1> HIDE DEF S, G
<1>5. f \in [0..count -> S] /\ Eq(f)
  <2>1. f \in [0..count -> S] /\ f = [i \in 0..count |-> IF i = 0 THEN 0 ELSE g[i][f[i - 1]]]
    BY <1>4 DEF Steps
  <2>2. \A i \in 1..count : i - 1 \in 0..count  OBVIOUS
  <2>3. \A i \in 1..count : f[i - 1] \in S  BY <2>1, <2>2
  <2>4. \A i \in 1..count : g[i][f[i - 1]] = G(f[i - 1], i)  BY <2>3
  <2>5. \A i \in 0..count : i = 0 \/ i \in 1..count  OBVIOUS
  <2> HIDE DEF g
  <2> QED BY <2>1, <2>4, <2>5
<1> DEFINE c == CHOOSE z : Eq(z)
<1>6. Eq(c)
  <2> HIDE DEF Eq
  <2> QED BY <1>5
<1>7. DecodeNumpy(rows, count) = [i \in 1..count |-> [off |-> c[i], len |-> Row(rows, i)[3]]]
  BY DEF DecodeNumpy, G
<1> HIDE DEF c
<1>8. c[0] = 0 /\ \A i \in 1..count : c[i] = G(c[i - 1], i)
  <2>1. \A i \in 0..count : c[i] = IF i = 0 THEN 0 ELSE G(c[i - 1], i)  BY <1>6, Zenon
  <2>2. 0 \in 0..count /\ \A i \in 1..count : i \in 0..count /\ i # 0  OBVIOUS
  <2> QED BY <2>1, <2>2
<1> DEFINE T == {i \in 0..count : c[i] \in S}
<1>9. 0..count \subseteq T
  <2>1. 0 \in T  BY <1>2, <1>8
  <2>2. ASSUME NEW i \in 0..(count - 1), i \in T PROVE i + 1 \in T
    <3>1. i + 1 \in 1..count /\ (i + 1) - 1 = i /\ i + 1 \in 0..count  OBVIOUS
    <3>2. c[i + 1] = G(c[i], i + 1)  BY <1>8, <3>1
    <3> QED BY <1>1, <2>2, <3>1, <3>2
  <2> HIDE DEF T
  <2> QED BY <2>1, <2>2, AllUpTo
<1>10. c \in [0..count -> S]
  <2>1. DOMAIN c = 0..count  BY <1>6, Zenon
  <2>2. c = [i \in 0..count |-> c[i]]  BY <1>6, <2>1, Zenon
  <2> QED BY <1>9, <2>2
<1> QED BY <1>7, <1>8, <1>10 DEF S, G

-----------------------------------------------------------------------------
(* The two decoders                                                          *)

LEMMA ModTwo ==
    ASSUME NEW W \in Nat \ {0}, NEW a \in Int, NEW b \in Int, NEW d \in Int
    PROVE  (a + ((d + b) % W)) % W = (((a + b) % W) + d) % W
<1>1. PICK x \in Int : x = d + b  OBVIOUS
<1>2. PICK y \in Int : y = a + b  OBVIOUS
<1>3. ((x % W) + a) % W = (x + a) % W  BY ModCarry
<1>4. ((y % W) + d) % W = (y + d) % W  BY ModCarry
<1>5. x + a = y + d  BY <1>1, <1>2
<1>6. PICK z \in Int : z = x % W  BY ModLess
<1>7. a + z = z + a  OBVIOUS
<1> QED BY <1>1, <1>2, <1>3, <1>4, <1>5, <1>6, <1>7, Zenon

(* With numpy or without, records decode to the same: adding up the steps,   *)
(* each reduced, gives the offsets that carrying the end along gives         *)
(* (decode_records).                                                         *)
THEOREM DecodersAgree ==
    ASSUME NEW count \in Nat, NEW rows, Words(rows, count)
    PROVE  DecodeNumpy(rows, count) = DecodeLoop(rows, count)
<1> DEFINE D(i) == Delta(Row(rows, i)[1], Row(rows, i)[2])
           L(i) == Row(rows, i)[3]
<1>1. PICK ends \in [0..count -> 0..(Wide - 1)] :
         /\ ends[0] = 0
         /\ \A i \in 1..count : ends[i] = (OffsetFrom(ends[i - 1], Row(rows, i)) + L(i)) % Wide
         /\ DecodeLoop(rows, count) =
               [i \in 1..count |-> [off |-> OffsetFrom(ends[i - 1], Row(rows, i)), len |-> L(i)]]
  BY LoopIs
<1>2. PICK offs \in [0..count -> 0..(Wide - 1)] :
         /\ offs[0] = 0
         /\ \A i \in 1..count : offs[i] = (offs[i - 1] + StepTo(rows, i)) % Wide
         /\ DecodeNumpy(rows, count) = [i \in 1..count |-> [off |-> offs[i], len |-> L(i)]]
  BY NumpyIs
<1>3. Wide \in Nat \ {0}  BY WideFacts
<1>4. \A i \in 1..count : D(i) \in Int /\ L(i) \in Nat  BY RowFacts
<1>5. \A i \in 1..count : \A x : OffsetFrom(x, Row(rows, i)) = (x + D(i)) % Wide  BY DEF OffsetFrom
<1>6. \A i \in 1..count : StepTo(rows, i) = (D(i) + (IF i = 1 THEN 0 ELSE L(i - 1))) % Wide
  BY DEF StepTo
<1> HIDE DEF D, L
<1> DEFINE T == {i \in 0..count : i = 0 \/ offs[i] = OffsetFrom(ends[i - 1], Row(rows, i))}
<1>7. ASSUME NEW i \in 0..(count - 1), i \in T PROVE i + 1 \in T
  <2>0. i + 1 \in 1..count /\ (i + 1) - 1 = i /\ i + 1 \in 0..count /\ i \in 0..count
        /\ (i # 0 => i \in 1..count)
    OBVIOUS
  <2>1. PICK d \in Int : d = D(i + 1)  BY <1>4, <2>0
  <2>2. OffsetFrom(ends[i], Row(rows, i + 1)) = (ends[i] + d) % Wide  BY <1>5, <2>0, <2>1
  <2>3. offs[i + 1] = (offs[i] + StepTo(rows, i + 1)) % Wide  BY <1>2, <2>0
  <2>4. CASE i = 0
    <3>1. StepTo(rows, i + 1) = (d + 0) % Wide  BY <1>6, <2>0, <2>1, <2>4
    <3>2. (0 + ((d + 0) % Wide)) % Wide = (((0 + 0) % Wide) + d) % Wide
      <4>1. 0 \in Int  OBVIOUS
      <4> QED BY <1>3, <4>1, ModTwo, Zenon, Zenon
    <3>3. (0 + 0) % Wide = 0  BY <1>3, ModSmall
    <3> QED BY <1>1, <1>2, <2>0, <2>2, <2>3, <2>4, <3>1, <3>2, <3>3
  <2>5. CASE i # 0
    <3>1. PICK l \in Nat : l = L(i)  BY <1>4, <2>0, <2>5
    <3>2. i + 1 # 1  BY <2>5
    <3>3. StepTo(rows, i + 1) = (d + l) % Wide  BY <1>6, <2>0, <2>1, <3>1, <3>2
    <3>4. offs[i] \in Int  BY <1>2, <1>3, <2>0
    <3>5. (offs[i] + ((d + l) % Wide)) % Wide = (((offs[i] + l) % Wide) + d) % Wide
      <4>1. l \in Int  OBVIOUS
      <4> QED BY <1>3, <3>4, <4>1, ModTwo, Zenon
    <3>6. offs[i] = OffsetFrom(ends[i - 1], Row(rows, i))  BY <1>7, <2>5
    <3>7. ends[i] = (offs[i] + l) % Wide  BY <1>1, <2>0, <2>5, <3>1, <3>6
    <3> QED BY <2>0, <2>2, <2>3, <3>3, <3>5, <3>7
  <2> QED BY <2>4, <2>5
<1>8. 0..count \subseteq T
  <2>1. 0 \in T  OBVIOUS
  <2> HIDE DEF T
  <2> QED BY <1>7, <2>1, AllUpTo
<1>9. \A i \in 1..count : offs[i] = OffsetFrom(ends[i - 1], Row(rows, i))
  <2>1. \A i \in 1..count : i \in 0..count /\ i # 0  OBVIOUS
  <2> QED BY <1>8, <2>1
<1> QED BY <1>1, <1>2, <1>9

-----------------------------------------------------------------------------
(* What was written is what is decoded. *)

LEMMA RowOfTransposed ==
    ASSUME NEW A, NEW count \in Nat, NEW buf \in Seq(A), Len(buf) = 3 * count,
           NEW i \in 1..count, NEW c \in 1..3
    PROVE  Row(Transpose(buf, count, 3), i)[c] = buf[(c - 1) * count + i]
<1> DEFINE k == 3 * i - 3 + c
           rows == Transpose(buf, count, 3)
<1>1. k \in 1..(count * 3) /\ (k - 1) % 3 = c - 1 /\ (k - 1) \div 3 = i - 1
  <2>1. k - 1 = 3 * (i - 1) + (c - 1) /\ c - 1 \in 0..2 /\ i - 1 \in Nat  OBVIOUS
  <2> QED BY <2>1
<1>2. rows[k] = buf[(c - 1) * count + (i - 1) + 1]
  <2>1. rows = [x \in 1..(count * 3) |-> buf[((x - 1) % 3) * count + ((x - 1) \div 3) + 1]]
    BY DEF Transpose
  <2> HIDE DEF k, rows
  <2> QED BY <1>1, <2>1
<1>3. rows \in [1..(3 * count) -> {buf[x] : x \in Int}]
  <2>1. rows = [x \in 1..(count * 3) |-> buf[((x - 1) % 3) * count + ((x - 1) \div 3) + 1]]
    BY DEF Transpose
  <2>2. \A x \in 1..(count * 3) : ((x - 1) % 3) * count + ((x - 1) \div 3) + 1 \in Int  OBVIOUS
  <2>3. count * 3 = 3 * count  OBVIOUS
  <2> HIDE DEF rows
  <2> QED BY <2>1, <2>2, <2>3
<1>4. Row(rows, i)[c] = rows[k]
  <2>1. 3 * i - 2 \in 1..(3 * count) /\ 3 * i \in 1..(3 * count)  OBVIOUS
  <2>2. rows \in Seq({buf[x] : x \in Int}) /\ Len(rows) = 3 * count
    <3>1. 3 * count \in Nat  OBVIOUS
    <3> HIDE DEF rows
    <3> QED BY <1>3, <3>1, FunctionIsSeq
  <2> HIDE DEF rows
  <2>3. SubSeq(rows, 3 * i - 2, 3 * i) = [x \in 1..3 |-> rows[(3 * i - 2) + x - 1]]
    <3>1. 3 * i - (3 * i - 2) + 1 = 3  OBVIOUS
    <3> QED BY <2>1, <2>2, <3>1
  <2>4. (3 * i - 2) + c - 1 = k  OBVIOUS
  <2> QED BY <2>3, <2>4 DEF Row
<1>5. (c - 1) * count + (i - 1) + 1 = (c - 1) * count + i
  <2>1. (c - 1) * count \in Int  OBVIOUS
  <2> QED BY <2>1
<1> QED BY <1>2, <1>4, <1>5

ToldType(told) == /\ told \in Seq([off : Nat, len : Nat])
                  /\ \A b \in 1..Len(told) : told[b].off + told[b].len < Wide

RowsOf(plain, n) == Transpose(plain, n, 3)

RowsAre(plain, n) == \A k \in 1..n : /\ Row(RowsOf(plain, n), k)[1] = plain[k]
                                    /\ Row(RowsOf(plain, n), k)[2] = plain[n + k]
                                    /\ Row(RowsOf(plain, n), k)[3] = plain[2 * n + k]

LEMMA WordsWritten ==
    ASSUME NEW told, NEW from \in Nat, NEW plain, NEW n \in Nat,
           Writes(plain, told, from, n)
    PROVE  /\ Len(plain) = 3 * n /\ Words(RowsOf(plain, n), n)
           /\ RowsAre(plain, n)
<1>1. n \in Nat /\ Len(plain) = 3 * n /\ plain \in Seq(0..(Word - 1))  BY DEF Writes
<1>2. \A k \in 1..n : \A c \in 1..3 : Row(RowsOf(plain, n), k)[c] = plain[(c - 1) * n + k]
  <2> SUFFICES ASSUME NEW k \in 1..n, NEW c \in 1..3 PROVE Row(RowsOf(plain, n), k)[c] = plain[(c - 1) * n + k]
    OBVIOUS
  <2>1. Row(Transpose(plain, n, 3), k)[c] = plain[(c - 1) * n + k]
    BY <1>1, RowOfTransposed, Zenon
  <2> QED BY <2>1 DEF RowsOf
<1>3. \A k \in 1..n : /\ Row(RowsOf(plain, n), k)[1] = plain[k] /\ Row(RowsOf(plain, n), k)[2] = plain[n + k]
                      /\ Row(RowsOf(plain, n), k)[3] = plain[2 * n + k]
  <2>1. \A k \in 1..n : (1 - 1) * n + k = k /\ (2 - 1) * n + k = n + k /\ (3 - 1) * n + k = 2 * n + k
    BY <1>1
  <2>2. 1 \in 1..3 /\ 2 \in 1..3 /\ 3 \in 1..3  OBVIOUS
  <2> QED BY <1>2, <2>1, <2>2
<1>4. \A j \in 1..(3 * n) : plain[j] \in 0..(Word - 1)  BY <1>1, ElementOfSeq
<1>5. Words(RowsOf(plain, n), n)
  <2>1. ASSUME NEW k \in 1..n PROVE k \in 1..(3 * n) /\ n + k \in 1..(3 * n) /\ 2 * n + k \in 1..(3 * n)
    BY <1>1
  <2>2. ASSUME NEW k \in 1..n, NEW c \in 1..3 PROVE Row(RowsOf(plain, n), k)[c] \in 0..(Word - 1)
    <3>1. c = 1 \/ c = 2 \/ c = 3  OBVIOUS
    <3> QED BY <1>3, <1>4, <2>1, <3>1
  <2> QED BY <2>2 DEF Words
<1>6. RowsAre(plain, n)  BY <1>3, Zenon DEF RowsAre
<1> QED BY <1>1, <1>5, <1>6

(* Both decoders undo what the writer of the records does (decode_records,   *)
(* transpose).                                                               *)
THEOREM RecordsDecode ==
    ASSUME NEW told, ToldType(told), NEW from \in Nat, NEW n \in Nat, from + n <= Len(told), NEW plain,
           Writes(plain, told, from, n), numpy \in BOOLEAN
    PROVE  /\ Len(plain) \div 3 = n
           /\ Decoded(plain) = [k \in 1..n |-> told[from + k]]
<1>0. Len(plain) = 3 * n /\ Words(RowsOf(plain, n), n) /\ RowsAre(plain, n)
  BY WordsWritten, Zenon
<1> DEFINE before(k) == IF k = 1 THEN 0 ELSE told[from + k - 1].off + told[from + k - 1].len
<1> DEFINE rows == RowsOf(plain, n)
<1>1. /\ Len(plain) = 3 * n /\ Words(rows, n)
      /\ \A k \in 1..n : /\ Row(rows, k)[1] = plain[k]
                         /\ Row(rows, k)[2] = plain[n + k]
                         /\ Row(rows, k)[3] = plain[2 * n + k]
  BY <1>0, Zenon DEF RowsAre
<1> HIDE DEF rows
<1>2. \A k \in 1..n : /\ plain[k] + Word * plain[n + k] = Zigzag(told[from + k].off - before(k))
                      /\ plain[2 * n + k] = told[from + k].len
  BY DEF Writes
<1>3. \A k \in 1..n : from + k \in 1..Len(told)
  <2>1. Len(told) \in Nat  BY LenProperties DEF ToldType
  <2> QED BY <2>1
<1>4. \A k \in 1..n : /\ told[from + k] \in [off : Nat, len : Nat]
                      /\ told[from + k].off + told[from + k].len < Wide
  BY <1>3, ElementOfSeq DEF ToldType
<1>5. Len(plain) \div 3 = n  BY <1>1
<1>6. PICK ends \in [0..n -> 0..(Wide - 1)] :
         /\ ends[0] = 0
         /\ \A i \in 1..n : ends[i] = (OffsetFrom(ends[i - 1], Row(rows, i)) + Row(rows, i)[3]) % Wide
         /\ DecodeLoop(rows, n) =
               [i \in 1..n |-> [off |-> OffsetFrom(ends[i - 1], Row(rows, i)), len |-> Row(rows, i)[3]]]
  BY <1>1, LoopIs
<1>7. Decoded(plain) = DecodeLoop(rows, n)
  <2>1. Decoded(plain) = DecodeRecords(rows, n)  BY <1>5 DEF Decoded, rows, RowsOf
  <2>2. DecodeNumpy(rows, n) = DecodeLoop(rows, n)  BY <1>1, DecodersAgree
  <2> QED BY <2>1, <2>2 DEF DecodeRecords
<1> DEFINE T == {i \in 0..n : /\ ends[i] = IF i = 0 THEN 0 ELSE told[from + i].off + told[from + i].len
                              /\ i # 0 => OffsetFrom(ends[i - 1], Row(rows, i)) = told[from + i].off}
<1>8. ASSUME NEW i \in 0..(n - 1), i \in T PROVE i + 1 \in T
  <2>0. i + 1 \in 1..n /\ (i + 1) - 1 = i /\ i + 1 \in 0..n /\ i \in 0..n /\ n \in Nat
        /\ from + (i + 1) - 1 = from + i
    BY <1>1
  <2>1. before(i + 1) = ends[i]  BY <1>8, <2>0
  <2>2. told[from + (i + 1)] \in [off : Nat, len : Nat]
        /\ told[from + (i + 1)].off + told[from + (i + 1)].len < Wide
    BY <1>4, <2>0
  <2>3. Row(rows, i + 1)[1] \in 0..(Word - 1) /\ Row(rows, i + 1)[2] \in 0..(Word - 1)
    <3>1. 1 \in 1..3 /\ 2 \in 1..3  OBVIOUS
    <3> QED BY <1>1, <2>0, <3>1 DEF Words
  <2>4. PICK lo \in 0..(Word - 1), hi \in 0..(Word - 1), off \in Nat, len \in Nat, end \in 0..(Wide - 1) :
           /\ lo = Row(rows, i + 1)[1] /\ hi = Row(rows, i + 1)[2] /\ end = ends[i]
           /\ off = told[from + (i + 1)].off /\ len = told[from + (i + 1)].len
    BY <1>6, <2>0, <2>2, <2>3
  <2>5. lo + Word * hi = Zigzag(off - end)
    BY <1>1, <1>2, <2>0, <2>1, <2>4
  <2>6. off + len < Wide /\ Wide \in Nat \ {0}  BY <2>2, <2>4, WideFacts
  <2>7. off \in 0..(Wide - 1) /\ off + len \in 0..(Wide - 1)
    <3>1. PICK W \in Nat \ {0} : W = Wide  BY <2>6
    <3>2. off + len < W  BY <2>6, <3>1
    <3>3. off \in 0..(W - 1) /\ off + len \in 0..(W - 1)  BY <3>2
    <3> QED BY <3>1, <3>3
  <2>8. (end + Delta(lo, hi)) % Wide = off  BY <2>5, <2>7, OffsetFound
  <2>9. OffsetFrom(ends[i], Row(rows, i + 1)) = off  BY <2>4, <2>8 DEF OffsetFrom
  <2>10. Row(rows, i + 1)[3] = len  BY <1>1, <1>2, <2>0, <2>4
  <2>11. ends[i + 1] = (off + len) % Wide  BY <1>6, <2>0, <2>9, <2>10
  <2>12. (off + len) % Wide = off + len  BY <2>6, <2>7, ModSmall
  <2>13. i + 1 # 0  BY <2>0
  <2> QED BY <2>0, <2>4, <2>9, <2>11, <2>12, <2>13
<1>9. 0..n \subseteq T
  <2>1. 0 \in T  BY <1>1, <1>6
  <2> HIDE DEF T
  <2> QED BY <1>1, <1>8, <2>1, AllUpTo
<1>10. \A i \in 1..n : [off |-> OffsetFrom(ends[i - 1], Row(rows, i)), len |-> Row(rows, i)[3]]
                       = told[from + i]
  <2>1. ASSUME NEW i \in 1..n
        PROVE  OffsetFrom(ends[i - 1], Row(rows, i)) = told[from + i].off
               /\ Row(rows, i)[3] = told[from + i].len
    <3>1. i \in 0..n /\ i # 0  BY <1>1
    <3> QED BY <1>1, <1>2, <1>9, <3>1
  <2>2. \A i \in 1..n : told[from + i] = [off |-> told[from + i].off, len |-> told[from + i].len]
    BY <1>4
  <2> QED BY <2>1, <2>2
<1>11. Decoded(plain) = [i \in 1..n |-> told[from + i]]  BY <1>6, <1>7, <1>10
<1> QED BY <1>5, <1>11

-----------------------------------------------------------------------------
(* The items of a file                                                       *)

LEMMA ItemTypes ==
    ASSUME NEW a \in Archives
    PROVE  /\ Len(a.items) \in Nat \ {0} /\ DOMAIN a.items = 1..Len(a.items)
           /\ a.items[1].at = DataStart
           /\ \A i \in 1..Len(a.items) : /\ a.items[i].at \in Nat /\ a.items[i].pre \in Nat
                                         /\ a.items[i].z \in Nat \ {0}
           /\ \A i \in 1..(Len(a.items) - 1) : a.items[i + 1].at = EndOf(a.items[i])
<1>1. LaidOut(a)  BY ArchivesAssumption DEF ArchivesAssumption
<1>2. PICK S : a.items \in Seq(S)  BY <1>1 DEF LaidOut
<1>3. Len(a.items) \in Nat /\ DOMAIN a.items = 1..Len(a.items)  BY <1>2, LenProperties
<1>4. Len(a.items) # 0
  <2>1. a.items # << >>  BY <1>1 DEF LaidOut
  <2> QED BY <1>2, <2>1, EmptySeq
<1>5. \A i \in 1..(Len(a.items) - 1) : i \in 1..Len(a.items) /\ i + 1 \in 1..Len(a.items)
  BY <1>3
<1>6. a.items[1].at = DataStart  BY <1>1 DEF LaidOut
<1>7. ASSUME NEW i \in 1..Len(a.items)
      PROVE  /\ a.items[i].at \in Nat /\ a.items[i].pre \in Nat /\ a.items[i].z \in Nat \ {0}
  <2>1. i \in DOMAIN a.items  BY <1>3
  <2> QED BY <1>1, <2>1 DEF LaidOut
<1>8. ASSUME NEW i \in 1..(Len(a.items) - 1) PROVE a.items[i + 1].at = EndOf(a.items[i])
  <2>1. i \in DOMAIN a.items /\ i + 1 \in DOMAIN a.items  BY <1>3, <1>5
  <2> QED BY <1>1, <2>1 DEF LaidOut
<1>9. Len(a.items) \in Nat \ {0}  BY <1>3, <1>4
<1> QED BY <1>3, <1>6, <1>7, <1>8, <1>9, Zenon

LEMMA KindFacts ==
    ASSUME NEW a \in Archives, NEW i \in 1..Len(a.items)
    PROVE  /\ a.items[i].kind \in {"block", "inline", "map", "other"}
           /\ a.items[i].kind = "block" => a.items[i].pre = Geometry(a)
           /\ a.items[i].kind = "map" => a.pieces = << >>
<1>1. LaidOut(a)  BY ArchivesAssumption DEF ArchivesAssumption
<1>2. i \in DOMAIN a.items  BY ItemTypes
<1> QED BY <1>1, <1>2 DEF LaidOut

LEMMA StreamFacts ==
    ASSUME NEW a \in Archives, NEW i \in 1..Len(a.items), a.items[i].kind # "other"
    PROVE  /\ a.items[i].first \in Nat \cup {None} /\ a.items[i].early \in Nat \cup {None}
           /\ a.items[i].cpb \in Nat \cup {None}
           /\ a.items[i].pages => a.items[i].kind = "block"
<1>1. LaidOut(a)  BY ArchivesAssumption DEF ArchivesAssumption
<1>2. i \in DOMAIN a.items  BY ItemTypes
<1> QED BY <1>1, <1>2 DEF LaidOut

LEMMA InOrder ==
    ASSUME NEW a \in Archives, NEW i \in 1..Len(a.items), NEW j \in 1..Len(a.items), i < j
    PROVE  EndOf(a.items[i]) <= a.items[j].at
<1> DEFINE N == Len(a.items)
           T == {k \in 0..(j - i - 1) : EndOf(a.items[i]) <= a.items[i + 1 + k].at}
<1>0. N \in Nat  BY ItemTypes
<1>1. \A k \in 1..N : /\ a.items[k].at \in Nat /\ a.items[k].pre \in Nat /\ a.items[k].z \in Nat
                      /\ EndOf(a.items[k]) \in Nat /\ a.items[k].at <= EndOf(a.items[k])
  <2> TAKE k \in 1..N
  <2>1. PICK x \in Nat, y \in Nat, w \in Nat :
           x = a.items[k].at /\ y = a.items[k].pre /\ w = a.items[k].z
    BY ItemTypes
  <2>2. EndOf(a.items[k]) = x + y + w  BY <2>1 DEF EndOf
  <2>3. x + y + w \in Nat /\ x <= x + y + w  OBVIOUS
  <2> QED BY <2>1, <2>2, <2>3
<1>2. \A k \in 1..(N - 1) : a.items[k + 1].at = EndOf(a.items[k])  BY ItemTypes
<1>3. j - i - 1 \in Nat  BY <1>0
<1>4. 0 \in T
  <2>1. i \in 1..(N - 1) /\ i + 1 + 0 = i + 1  BY <1>0
  <2> QED BY <1>1, <1>2, <1>3, <2>1
<1>5. ASSUME NEW k \in 0..((j - i - 1) - 1), k \in T PROVE k + 1 \in T
  <2>1. /\ i + 1 + k \in 1..(N - 1) /\ i + 1 + (k + 1) = (i + 1 + k) + 1
        /\ k + 1 \in 0..(j - i - 1) /\ i + 1 + k \in 1..N
    BY <1>0
  <2>2. a.items[i + 1 + (k + 1)].at = EndOf(a.items[i + 1 + k])  BY <1>2, <2>1
  <2>3. EndOf(a.items[i]) <= a.items[i + 1 + k].at  BY <1>5
  <2>4. a.items[i + 1 + k].at <= EndOf(a.items[i + 1 + k]) /\ a.items[i + 1 + k].at \in Nat
        /\ EndOf(a.items[i + 1 + k]) \in Nat /\ EndOf(a.items[i]) \in Nat
    BY <1>1, <2>1
  <2>5. EndOf(a.items[i]) <= a.items[i + 1 + (k + 1)].at
    <3>1. PICK x \in Nat, y \in Nat, w \in Nat :
             x = EndOf(a.items[i]) /\ y = a.items[i + 1 + k].at /\ w = EndOf(a.items[i + 1 + k])
      BY <2>4
    <3>2. x <= w  BY <2>3, <2>4, <3>1
    <3> QED BY <2>2, <3>1, <3>2, Zenon
  <2> QED BY <2>1, <2>5
<1>6. 0..(j - i - 1) \subseteq T
  <2> HIDE DEF T
  <2> QED BY <1>3, <1>4, <1>5, AllUpTo
<1>7. j - i - 1 \in T /\ i + 1 + (j - i - 1) = j
  <2>1. i + 1 + (j - i - 1) = j /\ j - i - 1 \in 0..(j - i - 1)  BY <1>0, <1>3
  <2> HIDE DEF T
  <2> QED BY <1>6, <2>1
<1> QED BY <1>7

(* The first byte of a stream lies in its item.                              *)
LEMMA StreamInside ==
    ASSUME NEW a \in Archives, NEW i \in 1..Len(a.items)
    PROVE  /\ a.items[i].at \in Nat /\ a.items[i].pre \in Nat /\ a.items[i].z \in Nat \ {0}
           /\ a.items[i].at <= a.items[i].at + a.items[i].pre
           /\ a.items[i].at + a.items[i].pre < EndOf(a.items[i])
           /\ EndOf(a.items[i]) = a.items[i].at + a.items[i].pre + a.items[i].z
           /\ EndOf(a.items[i]) \in Nat
<1>1. PICK x \in Nat, y \in Nat, w \in Nat \ {0} :
         x = a.items[i].at /\ y = a.items[i].pre /\ w = a.items[i].z
  BY ItemTypes
<1>2. EndOf(a.items[i]) = x + y + w  BY <1>1 DEF EndOf
<1>3. x + y + w \in Nat /\ x <= x + y /\ x + y < x + y + w  OBVIOUS
<1>4. EndOf(a.items[i]) \in Nat /\ a.items[i].at <= a.items[i].at + a.items[i].pre
  BY <1>1, <1>2, <1>3
<1>5. a.items[i].at + a.items[i].pre = x + y  BY <1>1
<1>6. a.items[i].at + a.items[i].pre < EndOf(a.items[i])  BY <1>2, <1>3, <1>5
<1>7. EndOf(a.items[i]) = a.items[i].at + a.items[i].pre + a.items[i].z  BY <1>1, <1>2
<1> QED BY <1>1, <1>4, <1>6, <1>7, Zenon

LEMMA OneItem ==
    ASSUME NEW a \in Archives, NEW i \in 1..Len(a.items), NEW j \in 1..Len(a.items)
    PROVE  /\ a.items[i].at = a.items[j].at => i = j
           /\ a.items[i].at + a.items[i].pre = a.items[j].at + a.items[j].pre => i = j
           /\ a.items[i].at < a.items[j].at <=> i < j
<1>0. i \in Nat /\ j \in Nat  BY ItemTypes
<1>1. ASSUME NEW k \in 1..Len(a.items), NEW l \in 1..Len(a.items), k < l
      PROVE  /\ a.items[k].at < a.items[l].at
             /\ a.items[k].at + a.items[k].pre < a.items[l].at + a.items[l].pre
  <2>1. EndOf(a.items[k]) <= a.items[l].at  BY <1>1, InOrder
  <2>2. /\ a.items[k].at <= a.items[k].at + a.items[k].pre
        /\ a.items[k].at + a.items[k].pre < EndOf(a.items[k]) /\ EndOf(a.items[k]) \in Nat
        /\ a.items[k].at \in Nat /\ a.items[k].pre \in Nat
    BY StreamInside
  <2>3. a.items[l].at \in Nat /\ a.items[l].pre \in Nat  BY StreamInside
  <2>4. PICK x \in Nat, y \in Nat, w \in Nat, u \in Nat, v \in Nat :
           /\ x = a.items[k].at /\ y = a.items[k].pre /\ w = EndOf(a.items[k])
           /\ u = a.items[l].at /\ v = a.items[l].pre
    BY <2>2, <2>3
  <2>5. x + y < w /\ w <= u  BY <2>1, <2>2, <2>4
  <2>6. x < u /\ x + y < u + v  BY <2>5
  <2> QED BY <2>4, <2>6
<1>2. a.items[i].at \in Nat /\ a.items[j].at \in Nat /\ a.items[i].pre \in Nat /\ a.items[j].pre \in Nat
  BY StreamInside
<1>3. i < j \/ i = j \/ j < i  BY <1>0
<1>4. CASE i < j
  <2>1. a.items[i].at < a.items[j].at
        /\ a.items[i].at + a.items[i].pre < a.items[j].at + a.items[j].pre
    BY <1>1, <1>4
  <2> QED BY <1>0, <1>2, <1>4, <2>1
<1>5. CASE i = j  BY <1>0, <1>2, <1>5
<1>6. CASE j < i
  <2>1. a.items[j].at < a.items[i].at
        /\ a.items[j].at + a.items[j].pre < a.items[i].at + a.items[i].pre
    BY <1>1, <1>6
  <2> QED BY <1>0, <1>2, <1>6, <2>1
<1> QED BY <1>3, <1>4, <1>5, <1>6

LEMMA FileEndIs ==
    ASSUME arch \in Archives, NEW i \in 1..Len(arch.items)
    PROVE  FileEnd \in Nat /\ EndOf(arch.items[i]) <= FileEnd
<1> DEFINE N == Len(arch.items)
<1>0. N \in Nat \ {0} /\ N \in 1..Len(arch.items)  BY ItemTypes
<1>1. FileEnd = EndOf(arch.items[N])  
  <2>1. arch.items[N].at \in Nat /\ arch.items[N].pre \in Nat /\ arch.items[N].z \in Nat
    BY <1>0, StreamInside
  <2> QED BY <2>1 DEF FileEnd, Item, Size, EndOf
<1>2. EndOf(arch.items[N]) \in Nat /\ arch.items[N].at <= EndOf(arch.items[N])
      /\ arch.items[N].at \in Nat /\ EndOf(arch.items[i]) \in Nat
  <2>1. /\ arch.items[N].at <= arch.items[N].at + arch.items[N].pre
        /\ arch.items[N].at + arch.items[N].pre < EndOf(arch.items[N])
        /\ EndOf(arch.items[N]) \in Nat /\ arch.items[N].at \in Nat /\ arch.items[N].pre \in Nat
    BY <1>0, StreamInside
  <2>2. EndOf(arch.items[i]) \in Nat  BY StreamInside
  <2> HIDE DEF N
  <2> QED BY <2>1, <2>2
<1>3. CASE i = N  BY <1>1, <1>2, <1>3
<1>4. CASE i # N
  <2>1. i < N  BY <1>0, <1>4
  <2>2. EndOf(arch.items[i]) <= arch.items[N].at  BY <1>0, <2>1, InOrder
  <2> HIDE DEF N
  <2> QED BY <1>1, <1>2, <2>2
<1> QED BY <1>3, <1>4

(* At a place there is one item, and one stream.                             *)
LEMMA AtIs ==
    ASSUME arch \in Archives, NEW i \in 1..Len(arch.items)
    PROVE  /\ At(arch.items[i].at) = {i}
           /\ arch.items[i].kind # "other" => Zlib(arch.items[i].at + arch.items[i].pre) = {i}
<1>1. Items = 1..Len(arch.items)  BY ItemTypes DEF Items
<1>2. ASSUME NEW j \in 1..Len(arch.items)
      PROVE  /\ arch.items[j].at = arch.items[i].at => j = i
             /\ arch.items[j].at + arch.items[j].pre = arch.items[i].at + arch.items[i].pre => j = i
  BY OneItem
<1>3. At(arch.items[i].at) = {i}  BY <1>1, <1>2 DEF At, Item
<1>4. ASSUME arch.items[i].kind # "other"
      PROVE  Zlib(arch.items[i].at + arch.items[i].pre) = {i}
  BY <1>1, <1>2, <1>4 DEF Zlib, ZlibAt, Item
<1> QED BY <1>3, <1>4

LEMMA PieceTypes ==
    ASSUME NEW a \in Archives
    PROVE  /\ Len(a.pieces) \in Nat /\ DOMAIN a.pieces = 1..Len(a.pieces)
           /\ a.pieces = << >> <=> Len(a.pieces) = 0
           /\ \A k \in 1..Len(a.pieces) : a.pieces[k] \in 1..Len(a.items)
           /\ \A k \in 1..Len(a.pieces) : a.items[a.pieces[k]].kind = "inline"
           /\ \A i \in 1..Len(a.items) :
                 a.items[i].kind = "inline" => \E k \in 1..Len(a.pieces) : i = a.pieces[k]
           /\ \A k, l \in 1..Len(a.pieces) : k < l => a.pieces[k] < a.pieces[l]
           /\ \A k \in 1..Len(a.pieces) :
                 a.items[a.pieces[k]].first \in {None, a.items[a.pieces[k]].pre - 1}
           /\ \A k \in 1..Len(a.pieces) : \A i \in 1..a.pieces[k] :
                 a.items[i].kind = "other" => i > 1 /\ a.items[i - 1].kind \in {"inline", "other"}
           /\ a.pieces # << >> => Legacy <= Geometry(a) /\ Legacy < a.items[a.pieces[1]].pre
<1>1. PiecesAmidBlocks(a)  BY ArchivesAssumption DEF ArchivesAssumption
<1>2. a.pieces \in Seq(DOMAIN a.items)  BY <1>1 DEF PiecesAmidBlocks
<1>3. DOMAIN a.items = 1..Len(a.items)  BY ItemTypes
<1>4. /\ Len(a.pieces) \in Nat /\ DOMAIN a.pieces = 1..Len(a.pieces)
      /\ a.pieces = << >> <=> Len(a.pieces) = 0
  BY <1>2, LenProperties, EmptySeq
<1>5. \A k \in 1..Len(a.pieces) : a.pieces[k] \in 1..Len(a.items)  BY <1>2, <1>3, ElementOfSeq
<1>6. {a.pieces[k] : k \in 1..Len(a.pieces)} = {i \in 1..Len(a.items) : a.items[i].kind = "inline"}
  BY <1>1, <1>3, <1>4 DEF PiecesAmidBlocks
<1>7. \A k \in 1..Len(a.pieces) : a.items[a.pieces[k]].kind = "inline"
  <2>1. \A k \in 1..Len(a.pieces) : a.pieces[k] \in {a.pieces[l] : l \in 1..Len(a.pieces)}  OBVIOUS
  <2> QED BY <1>6, <2>1
<1>8. \A i \in 1..Len(a.items) :
                 a.items[i].kind = "inline" => \E k \in 1..Len(a.pieces) : i = a.pieces[k]
  BY <1>6
<1> QED BY <1>1, <1>4, <1>5, <1>7, <1>8 DEF PiecesAmidBlocks

-----------------------------------------------------------------------------
(* Pieces of the map, and the blocks before them                             *)

(* Pieces in the order of their places. *)
LEMMA PieceOrder ==
    ASSUME NEW a \in Archives, NEW k \in 1..Len(a.pieces), NEW n \in 1..Len(a.pieces)
    PROVE  /\ a.pieces[k] <= a.pieces[n] => k <= n
           /\ a.pieces[k] > a.pieces[n] => k > n
           /\ k <= n => a.pieces[k] <= a.pieces[n]
           /\ PieceAt(a, k).at >= EndOf(PieceAt(a, n)) => k > n
<1>1. Len(a.pieces) \in Nat /\ Len(a.items) \in Nat  BY PieceTypes, ItemTypes
<1>2. \A i, l \in 1..Len(a.pieces) : i < l => a.pieces[i] < a.pieces[l]  BY PieceTypes
<1>3. a.pieces[k] \in 1..Len(a.items) /\ a.pieces[n] \in 1..Len(a.items)  BY PieceTypes
<1>4. PICK x \in Nat, y \in Nat : x = a.pieces[k] /\ y = a.pieces[n]  BY <1>1, <1>3
<1>5. (k < n => x < y) /\ (n < k => y < x) /\ (k = n => x = y)  BY <1>2, <1>4
<1>6. k \in Nat /\ n \in Nat  BY <1>1
<1>7. (x <= y => k <= n) /\ (x > y => k > n) /\ (k <= n => x <= y)  BY <1>4, <1>5, <1>6
<1>8. ASSUME PieceAt(a, k).at >= EndOf(PieceAt(a, n)) PROVE x > y
  <2>1. PICK u \in Nat, v \in Nat, w \in Nat :
           u = a.items[x].at /\ v = a.items[y].at /\ w = EndOf(a.items[y]) /\ v < w
    <3>1. a.items[x].at \in Nat  BY <1>3, <1>4, StreamInside
    <3>2. /\ a.items[y].at \in Nat /\ a.items[y].pre \in Nat /\ EndOf(a.items[y]) \in Nat
          /\ a.items[y].at + a.items[y].pre < EndOf(a.items[y])
      BY <1>3, <1>4, StreamInside
    <3>3. PICK u \in Nat, v \in Nat, w \in Nat, q \in Nat :
             u = a.items[x].at /\ v = a.items[y].at /\ w = EndOf(a.items[y]) /\ q = a.items[y].pre
      BY <3>1, <3>2
    <3>4. v + q < w  BY <3>2, <3>3
    <3>5. v < w  BY <3>4
    <3> QED BY <3>3, <3>5
  <2>2. u >= w  BY <1>4, <1>8, <2>1 DEF PieceAt
  <2>3. v < u  BY <2>1, <2>2
  <2>4. a.items[y].at < a.items[x].at <=> y < x  BY <1>3, <1>4, OneItem
  <2> QED BY <2>1, <2>3, <2>4
<1> QED BY <1>4, <1>7, <1>8

(* Nothing but the item itself has a stream up to where its own begins.      *)
LEMMA NoStreamBefore ==
    ASSUME arch \in Archives, NEW j \in 1..Len(arch.items), NEW n \in Nat, n <= arch.items[j].pre,
           NEW i \in Zlib(arch.items[j].at + n)
    PROVE  i = j /\ arch.items[j].pre = n /\ arch.items[j].kind # "other"
<1>1. /\ i \in 1..Len(arch.items) /\ arch.items[i].kind # "other"
      /\ arch.items[i].at + arch.items[i].pre = arch.items[j].at + n
  BY ItemTypes DEF Zlib, Items, ZlibAt, Item
<1>2. PICK x \in Nat, y \in Nat, e \in Nat :
         /\ x = arch.items[i].at /\ y = arch.items[i].pre /\ e = EndOf(arch.items[i]) /\ x + y < e
  BY <1>1, StreamInside
<1>3. PICK u \in Nat, v \in Nat, f \in Nat :
         /\ u = arch.items[j].at /\ v = arch.items[j].pre /\ f = EndOf(arch.items[j]) /\ u + v < f
  BY StreamInside
<1>4. x + y = u + n /\ n <= v  BY <1>1, <1>2, <1>3
<1>5. ~ (i < j)
  <2> SUFFICES ASSUME i < j PROVE FALSE  OBVIOUS
  <2>1. EndOf(arch.items[i]) <= arch.items[j].at  BY <1>1, InOrder
  <2>2. e <= u  BY <1>2, <1>3, <2>1
  <2>3. x + y < e /\ x + y = u + n  BY <1>2, <1>4
  <2>4. x \in Nat /\ y \in Nat /\ e \in Nat /\ u \in Nat /\ n \in Nat  OBVIOUS
  <2> QED BY ONLY <2>2, <2>3, <2>4
<1>6. ~ (j < i)
  <2> SUFFICES ASSUME j < i PROVE FALSE  OBVIOUS
  <2>1. EndOf(arch.items[j]) <= arch.items[i].at  BY <1>1, InOrder
  <2>2. f <= x  BY <1>2, <1>3, <2>1
  <2>3. u + v < f /\ x + y = u + n /\ n <= v  BY <1>3, <1>4
  <2>4. x \in Nat /\ y \in Nat /\ f \in Nat /\ u \in Nat /\ v \in Nat /\ n \in Nat  OBVIOUS
  <2> QED BY ONLY <2>2, <2>3, <2>4
<1>7. i = j
  <2>1. i \in Int /\ j \in Int  BY <1>1
  <2> QED BY <1>5, <1>6, <2>1
<1>8. x = u /\ y = v  BY <1>2, <1>3, <1>7
<1>9. v = n  BY <1>4, <1>8
<1> QED BY <1>1, <1>3, <1>7, <1>9

LEMMA MinOne == ASSUME NEW x \in Int PROVE Min({x}) = x
  BY DEF Min

LEMMA MinOfTwo ==
    ASSUME NEW x \in Int, NEW y \in Int
    PROVE  Min({x, y}) = IF x <= y THEN x ELSE y
<1>1. \E m \in {x, y} : \A z \in {x, y} : m <= z  OBVIOUS
<1>2. Min({x, y}) \in {x, y} /\ \A z \in {x, y} : Min({x, y}) <= z  BY <1>1 DEF Min
<1> QED BY <1>2

LEMMA ConstTypes ==
    /\ {DataStart, Modern, Legacy, Window, MaxSkip} \subseteq Nat /\ None \notin Nat
  BY ChunkMapAssumption DEF ChunkMapAssumption

(* A piece is recognized where the walk stands on it.                        *)
LEMMA RecognizedThere ==
    ASSUME arch \in Archives, NEW i \in 1..Len(arch.items), arch.items[i].kind # "other",
           plen \in Nat, Recognizable(arch.items[i], plen), cur = arch.items[i].at
    PROVE  InlineAt = {i} /\ cur < FileEnd /\ ~(FileEnd - cur < plen + 2)
<1>1. PICK x \in Nat, y \in Nat, z \in Nat \ {0}, e \in Nat :
         /\ x = arch.items[i].at /\ y = arch.items[i].pre /\ z = arch.items[i].z
         /\ e = x + y + z /\ e = EndOf(arch.items[i])
  BY StreamInside
<1>2. FileEnd \in Nat /\ e <= FileEnd  BY <1>1, FileEndIs
<1>3. /\ arch.items[i].first = y - 1 /\ arch.items[i].early = None
      /\ plen < y /\ y < Window /\ z > 1
  BY <1>1 DEF Recognizable
<1>4. cur = x /\ cur < FileEnd /\ FileEnd - cur - 1 > y /\ FileEnd - cur - 1 \in Int
      /\ ~(FileEnd - cur < plen + 2)
  <2>1. PICK f \in Nat, l \in Nat : f = FileEnd /\ l = plen  BY <1>2
  <2>2. x + y + z <= f /\ z > 1 /\ l < y  BY <1>1, <1>2, <1>3, <2>1
  <2>3. x < f /\ f - x - 1 > y /\ f - x - 1 \in Int /\ ~(f - x < l + 2)  BY <2>2
  <2>4. cur = x  BY <1>1
  <2> QED BY <2>1, <2>3, <2>4, Zenon
<1>5. Magics(i) = {y} /\ Min(Magics(i)) = y
  <2>1. y # None  BY ConstTypes
  <2>2. Magics(i) = {y}  BY <1>1, <1>3, <2>1 DEF Magics, Item
  <2> QED BY <2>2, MinOne
<1>6. y < Min({Window, FileEnd - cur - 1})
  <2>1. Window \in Int  BY ConstTypes
  <2>2. Min({Window, FileEnd - cur - 1}) = IF Window <= FileEnd - cur - 1 THEN Window ELSE FileEnd - cur - 1
    BY <1>4, <2>1, MinOfTwo
  <2> QED BY <1>3, <1>4, <2>1, <2>2
<1>7. arch.items[i].first # None
  <2>1. y - 1 \in Nat  BY <1>3
  <2> QED BY <1>3, <2>1, ConstTypes
<1>8. At(cur) = {i}  BY AtIs
<1>9. y # plen  BY <1>3
<1>10. InlineAt = {i}
  <2>1. InlineAt = {k \in {i} : /\ Item(k).kind # "other" /\ Item(k).first # None
                                /\ Min(Magics(k)) < Min({Window, FileEnd - cur - 1})
                                /\ Min(Magics(k)) # plen}
    BY <1>8 DEF InlineAt
  <2>2. Item(i).kind # "other" /\ Item(i).first # None  BY <1>7 DEF Item
  <2>3. Min(Magics(i)) < Min({Window, FileEnd - cur - 1}) /\ Min(Magics(i)) # plen
    BY <1>5, <1>6, <1>9, Zenon
  <2> QED BY <2>1, <2>2, <2>3, Zenon
<1> QED BY <1>4, <1>10

(* A block that is not disguised is not taken for a piece.                   *)
LEMMA BlockNotInline ==
    ASSUME arch \in Archives, NEW i \in 1..Len(arch.items), arch.items[i].kind = "block",
           plen = arch.items[i].pre,
           None \in {arch.items[i].first, arch.items[i].early} \/ arch.items[i].early >= arch.items[i].pre
    PROVE  i \notin InlineAt
<1>1. arch.items[i].pre \in Nat /\ arch.items[i].early \in Nat \cup {None}
  <2>1. arch.items[i].kind # "other"  OBVIOUS
  <2> QED BY <2>1, ItemTypes, StreamFacts, Zenon
<1>2. CASE arch.items[i].first = None  BY <1>2 DEF InlineAt, Item
<1>3. CASE arch.items[i].early = None
  <2>1. Magics(i) = {arch.items[i].pre}  BY <1>1, <1>3, ConstTypes DEF Magics, Item
  <2>2. Min(Magics(i)) = plen  BY <1>1, <2>1, MinOne
  <2> QED BY <2>2, Zenon DEF InlineAt
<1>4. CASE arch.items[i].early # None /\ arch.items[i].early >= arch.items[i].pre
  <2>1. Magics(i) = {arch.items[i].pre, arch.items[i].early}
    BY <1>1, <1>4, ConstTypes DEF Magics, Item
  <2>2. Min(Magics(i)) = plen
    <3>1. arch.items[i].early \in Int /\ arch.items[i].pre \in Int  BY <1>1, <1>4
    <3>2. Min({arch.items[i].pre, arch.items[i].early})
             = IF arch.items[i].pre <= arch.items[i].early THEN arch.items[i].pre ELSE arch.items[i].early
      BY <3>1, MinOfTwo
    <3> QED BY <1>4, <2>1, <3>1, <3>2
  <2> QED BY <2>2, Zenon DEF InlineAt
<1> QED BY <1>2, <1>3, <1>4

(* Bitmaps have a length.                                                    *)
LEMMA GeometryType ==
    ASSUME NEW a \in Archives, a.pieces # << >>
    PROVE  Geometry(a) \in Nat
<1>1. ~ \E k \in DOMAIN a.items : a.items[k].kind = "map"
  <2> SUFFICES ASSUME NEW k \in DOMAIN a.items, a.items[k].kind = "map" PROVE FALSE
    OBVIOUS
  <2>1. k \in 1..Len(a.items)  BY ItemTypes
  <2> QED BY <2>1, KindFacts
<1>2. Geometry(a) = IF a.items[a.pieces[1]].cpb # None
                    THEN a.items[a.pieces[1]].cpb \div 8 ELSE Legacy
  BY <1>1, Zenon DEF Geometry
<1>3. a.items[a.pieces[1]].cpb \in Nat \cup {None}
  <2>1. Len(a.pieces) \in Nat /\ Len(a.pieces) # 0  BY PieceTypes
  <2>2. 1 \in 1..Len(a.pieces)  BY <2>1
  <2>3. a.pieces[1] \in 1..Len(a.items) /\ a.items[a.pieces[1]].kind # "other"
    BY <2>2, PieceTypes
  <2> QED BY <2>3, StreamFacts
<1>4. Legacy \in Nat  BY ConstTypes
<1>5. CASE a.items[a.pieces[1]].cpb = None  BY <1>2, <1>4, <1>5
<1>6. CASE a.items[a.pieces[1]].cpb # None
  <2>1. PICK c \in Nat : c = a.items[a.pieces[1]].cpb  BY <1>3, <1>6
  <2>2. Geometry(a) = c \div 8  BY <1>2, <1>6, <2>1
  <2> QED BY <2>2
<1> QED BY <1>5, <1>6

(* Behind the first piece each has the form the walk looks for.              *)
LEMMA LaterPieces ==
    ASSUME NEW a \in Archives, NEW n \in 1..(Len(a.pieces) - 1)
    PROVE  Recognizable(a.items[a.pieces[n + 1]], Geometry(a))
<1>1. PiecesAmidBlocks(a)  BY ArchivesAssumption DEF ArchivesAssumption
<1>2. n + 1 \in DOMAIN a.pieces \ {1}  BY PieceTypes
<1> QED BY <1>1, <1>2, Zenon DEF PiecesAmidBlocks

(* The n-th piece is still to come, and an item in front of it, or it.       *)
LEMMA PlenBefore ==
    ASSUME NEW a \in Archives, NEW n \in 0..(Len(a.pieces) - 1), NEW j \in 1..a.pieces[n + 1],
           a.items[j].kind \in {"block", "inline"}, n > 0 => a.pieces[n] < j,
           NEW p, p = IF n = 0 THEN Legacy ELSE Geometry(a)
    PROVE  /\ j \in 1..Len(a.items) /\ p \in Nat /\ p <= a.items[j].pre
           /\ a.items[j].kind = "inline" => j = a.pieces[n + 1] /\ p < a.items[j].pre
           /\ a.items[j].kind = "block" => j < a.pieces[n + 1] /\ a.items[j].pre = Geometry(a)
<1>1. /\ Len(a.pieces) \in Nat /\ n + 1 \in 1..Len(a.pieces) /\ Len(a.items) \in Nat
      /\ a.pieces[n + 1] \in 1..Len(a.items)
  BY PieceTypes, ItemTypes
<1>2. j \in 1..Len(a.items)  BY <1>1
<1>3. a.items[a.pieces[n + 1]].kind = "inline"  BY <1>1, PieceTypes
<1>4. Legacy \in Nat /\ a.items[j].pre \in Nat  BY <1>2, ConstTypes, ItemTypes
<1>5. a.pieces # << >> /\ Legacy <= Geometry(a) /\ Legacy < a.items[a.pieces[1]].pre
  <2>1. Len(a.pieces) # 0  BY <1>1
  <2> QED BY <2>1, PieceTypes
<1>6. CASE a.items[j].kind = "block"
  <2>1. a.items[j].pre = Geometry(a)  BY <1>2, <1>6, KindFacts
  <2>2. j # a.pieces[n + 1]  BY <1>3, <1>6
  <2>3. j < a.pieces[n + 1]
    <3>1. a.pieces[n + 1] \in Nat  BY <1>1
    <3> QED BY <2>2, <3>1
  <2>4. p \in Nat /\ p <= a.items[j].pre  BY <1>4, <1>5, <2>1
  <2> QED BY <1>2, <1>6, <2>1, <2>3, <2>4
<1>7. CASE a.items[j].kind = "inline"
  <2>1. PICK l \in 1..Len(a.pieces) : j = a.pieces[l]  BY <1>2, <1>7, PieceTypes
  <2>2. l <= n + 1
    <3>1. a.pieces[l] <= a.pieces[n + 1]  BY <2>1
    <3> QED BY <1>1, <3>1, PieceOrder
  <2>3. l > n
    <3>1. CASE n = 0  BY <2>1, <3>1
    <3>2. CASE n # 0
      <4>1. n \in 1..Len(a.pieces)  BY <1>1, <3>2
      <4>2. a.pieces[n] \in Nat /\ a.pieces[l] \in Nat  BY <1>1, <4>1, PieceTypes
      <4>3. a.pieces[l] > a.pieces[n]  BY <2>1, <3>2, <4>2
      <4> QED BY <4>1, <4>3, PieceOrder
    <3> QED BY <3>1, <3>2
  <2>4. l = n + 1  BY <1>1, <2>2, <2>3
  <2>5. p \in Nat /\ p < a.items[j].pre
    <3>1. CASE n = 0  BY <1>4, <1>5, <2>1, <2>4, <3>1
    <3>2. CASE n # 0
      <4>1. n \in 1..(Len(a.pieces) - 1)  BY <1>1, <3>2
      <4>2. Recognizable(a.items[j], Geometry(a))  BY <2>1, <2>4, <4>1, LaterPieces, Zenon
      <4>3. Geometry(a) < a.items[j].pre  BY <4>2 DEF Recognizable
      <4>4. Geometry(a) \in Nat  BY <1>5, GeometryType
      <4> QED BY <3>2, <4>3, <4>4
    <3> QED BY <3>1, <3>2
  <2>6. p <= a.items[j].pre  BY <1>4, <2>5
  <2> QED BY <1>2, <1>7, <2>1, <2>4, <2>5, <2>6
<1> QED BY <1>6, <1>7

-----------------------------------------------------------------------------
(* Where the walk stands                                                     *)

(* An item that begins behind another comes after it.                        *)
LEMMA ComesAfter ==
    ASSUME NEW a \in Archives, NEW i \in 1..Len(a.items), NEW j \in 1..Len(a.items),
           a.items[j].at >= EndOf(a.items[i])
    PROVE  i < j /\ a.items[i].at < a.items[j].at
<1>1. PICK x \in Nat, y \in Nat, e \in Nat, w \in Nat :
         x = a.items[i].at /\ y = a.items[i].pre /\ e = EndOf(a.items[i]) /\ w = a.items[j].at
  BY StreamInside
<1>2. x + y < e  BY <1>1, StreamInside
<1>3. e <= w  BY <1>1
<1>4. x < w  BY <1>2, <1>3
<1> QED BY <1>1, <1>4, OneItem

LEMMA WalkFacts ==
    ASSUME MapTypes, WalkInv, phase \in {"walk", "skip"}, ~Doomed(arch, mds),
           ~Lost(arch, mds, cur, plen, locked)
    PROVE  /\ arch \in Archives /\ cur \in Nat /\ plen \in Nat /\ Len(mds) \in 0..Len(arch.pieces)
           /\ Len(arch.pieces) \in Nat /\ mds \in Seq(Nat)
           /\ mds = << >> <=> Len(mds) = 0
           /\ Len(mds) = 0 => ~locked /\ plen = Legacy /\ cpb = 8 * Legacy
           /\ Len(mds) # 0 => /\ locked /\ plen = Geometry(arch)
                              /\ Len(mds) \in 1..Len(arch.pieces)
                              /\ cur >= EndOf(arch.items[arch.pieces[Len(mds)]])
                              /\ Last(mds) = arch.items[arch.pieces[Len(mds)]].at
<1>1. /\ arch \in Archives /\ cur \in Nat /\ plen \in Nat /\ mds \in Seq(Nat)
  BY DEF MapTypes
<1>2. Len(mds) \in Nat /\ (mds = << >> <=> Len(mds) = 0)  BY <1>1, LenProperties, EmptySeq
<1>3. Tracked(arch, mds) /\ GeometryKnown(arch, mds, plen, cpb, locked)
      /\ (mds # << >> => cur >= EndOf(PieceAt(arch, Len(mds))))
  BY Zenon DEF WalkInv, AheadInv
<1>4. Len(arch.pieces) \in Nat  BY <1>1, PieceTypes
<1>5. Len(mds) <= Len(arch.pieces) /\ \A k \in 1..Len(mds) : mds[k] = arch.items[arch.pieces[k]].at
  BY <1>3 DEF Tracked
<1>6. Len(mds) \in 0..Len(arch.pieces)  BY <1>2, <1>4, <1>5
<1>7. Len(mds) = 0 => ~locked /\ plen = Legacy /\ cpb = 8 * Legacy
  BY <1>2, <1>3 DEF GeometryKnown
<1>8. ASSUME Len(mds) # 0
      PROVE  /\ locked /\ plen = Geometry(arch) /\ Len(mds) \in 1..Len(arch.pieces)
             /\ cur >= EndOf(arch.items[arch.pieces[Len(mds)]])
             /\ Last(mds) = arch.items[arch.pieces[Len(mds)]].at
  <2>1. mds # << >>  BY <1>2, <1>8
  <2>2. locked /\ plen = Geometry(arch)  BY <1>3, <2>1 DEF GeometryKnown
  <2>3. Len(mds) \in 1..Len(arch.pieces) /\ Len(mds) \in 1..Len(mds)  BY <1>2, <1>6, <1>8
  <2>4. cur >= EndOf(arch.items[arch.pieces[Len(mds)]])  BY <1>3, <2>1 DEF PieceAt
  <2>5. Last(mds) = arch.items[arch.pieces[Len(mds)]].at  BY <1>5, <2>3 DEF Last
  <2> QED BY <2>2, <2>3, <2>4, <2>5
<1> QED BY <1>1, <1>2, <1>4, <1>6, <1>7, <1>8

(* While a piece is to come, the walk stands where a block or that piece     *)
(* begins.                                                                   *)
LEMMA Standing ==
    ASSUME MapTypes, WalkInv, phase = "walk", ~Doomed(arch, mds), ~Lost(arch, mds, cur, plen, locked),
           Len(mds) < Len(arch.pieces)
    PROVE  \E j \in 1..Len(arch.items) :
              /\ cur = arch.items[j].at /\ j <= arch.pieces[Len(mds) + 1]
              /\ arch.items[j].kind \in {"block", "inline"} /\ plen <= arch.items[j].pre
              /\ arch.items[j].kind = "inline" =>
                    j = arch.pieces[Len(mds) + 1] /\ plen < arch.items[j].pre
              /\ arch.items[j].kind = "block" =>
                    j < arch.pieces[Len(mds) + 1] /\ arch.items[j].pre = Geometry(arch)
<1> DEFINE n == Len(mds)
<1>1. /\ arch \in Archives /\ n \in 0..Len(arch.pieces) /\ Len(arch.pieces) \in Nat
      /\ n = 0 => plen = Legacy
      /\ n # 0 => /\ plen = Geometry(arch) /\ n \in 1..Len(arch.pieces)
                  /\ cur >= EndOf(arch.items[arch.pieces[n]])
  BY WalkFacts
<1>2. n \in 0..(Len(arch.pieces) - 1)  BY <1>1
<1>3. StandsBefore(arch, n + 1, cur)  BY Zenon DEF WalkInv, AheadInv
<1>4. PICK j \in 1..arch.pieces[n + 1] :
         cur = arch.items[j].at /\ arch.items[j].kind \in {"block", "inline"}
  BY <1>3 DEF StandsBefore
<1>5. n + 1 \in 1..Len(arch.pieces) /\ Len(arch.items) \in Nat  BY <1>1, <1>2, ItemTypes
<1>6. arch.pieces[n + 1] \in 1..Len(arch.items)  BY <1>1, <1>5, PieceTypes
<1>7. j \in 1..Len(arch.items) /\ j <= arch.pieces[n + 1]  BY <1>5, <1>6
<1>8. n > 0 => arch.pieces[n] < j
  <2> SUFFICES ASSUME n > 0 PROVE arch.pieces[n] < j  OBVIOUS
  <2>1. n \in 1..Len(arch.pieces) /\ cur >= EndOf(arch.items[arch.pieces[n]])  BY <1>1
  <2>2. arch.pieces[n] \in 1..Len(arch.items)  BY <1>1, <2>1, PieceTypes
  <2> QED BY <1>1, <1>4, <1>7, <2>1, <2>2, ComesAfter
<1>9. plen = IF n = 0 THEN Legacy ELSE Geometry(arch)  BY <1>1
<1> HIDE DEF n
<1>10. /\ plen <= arch.items[j].pre
       /\ arch.items[j].kind = "inline" => j = arch.pieces[n + 1] /\ plen < arch.items[j].pre
       /\ arch.items[j].kind = "block" => j < arch.pieces[n + 1] /\ arch.items[j].pre = Geometry(arch)
  BY <1>1, <1>2, <1>4, <1>8, <1>9, PlenBefore
<1>11. \E k \in 1..Len(arch.items) :
              /\ cur = arch.items[k].at /\ k <= arch.pieces[n + 1]
              /\ arch.items[k].kind \in {"block", "inline"} /\ plen <= arch.items[k].pre
              /\ arch.items[k].kind = "inline" => k = arch.pieces[n + 1] /\ plen < arch.items[k].pre
              /\ arch.items[k].kind = "block" =>
                    k < arch.pieces[n + 1] /\ arch.items[k].pre = Geometry(arch)
  BY <1>4, <1>7, <1>10, Zenon
<1> USE DEF n
<1> QED BY <1>11

(* Behind a block in front of a piece there is a block, or that piece.       *)
LEMMA NextStands ==
    ASSUME NEW a \in Archives, NEW n \in 1..Len(a.pieces), NEW j \in 1..Len(a.items),
           a.items[j].kind = "block", j < a.pieces[n]
    PROVE  StandsBefore(a, n, EndOf(a.items[j]))
<1>1. /\ Len(a.pieces) \in Nat /\ a.pieces[n] \in 1..Len(a.items) /\ Len(a.items) \in Nat
  BY PieceTypes, ItemTypes
<1>2. PICK m \in Nat : m = a.pieces[n]  BY <1>1
<1>3. j + 1 \in 1..m /\ j \in 1..(Len(a.items) - 1) /\ j + 1 \in 1..Len(a.items) /\ (j + 1) - 1 = j
  BY <1>1, <1>2
<1>4. a.items[j + 1].at = EndOf(a.items[j])  BY <1>3, ItemTypes
<1>5. a.items[j + 1].kind # "other"
  <2>1. \A i \in 1..a.pieces[n] :
           a.items[i].kind = "other" => i > 1 /\ a.items[i - 1].kind \in {"inline", "other"}
    BY PieceTypes
  <2>2. a.items[j + 1].kind = "other" => a.items[(j + 1) - 1].kind \in {"inline", "other"}
    BY <1>2, <1>3, <2>1
  <2>3. a.items[(j + 1) - 1].kind = "block"  BY <1>3
  <2> QED BY <2>2, <2>3
<1>6. a.items[j + 1].kind # "map"
  <2>1. a.pieces # << >>
    <3>1. Len(a.pieces) # 0  BY <1>1
    <3> QED BY <3>1, PieceTypes
  <2> QED BY <1>3, <2>1, KindFacts
<1>7. a.items[j + 1].kind \in {"block", "inline"}  BY <1>3, <1>5, <1>6, KindFacts
<1> QED BY <1>2, <1>3, <1>4, <1>7 DEF StandsBefore

-----------------------------------------------------------------------------
(* A piece is taken (WalkInline)                                             *)

(* What is taken for a piece and is one is the next one.                     *)
LEMMA TakesNext ==
    ASSUME MapTypes, WalkInv, phase = "walk", ~Doomed(arch, mds), ~Lost(arch, mds, cur, plen, locked),
           NEW i \in At(cur), arch.items[i].kind = "inline"
    PROVE  /\ i \in 1..Len(arch.items) /\ cur = arch.items[i].at
           /\ Len(mds) < Len(arch.pieces) /\ i = arch.pieces[Len(mds) + 1]
<1> DEFINE n == Len(mds)
<1>1. /\ arch \in Archives /\ n \in 0..Len(arch.pieces) /\ Len(arch.pieces) \in Nat
      /\ n # 0 => /\ n \in 1..Len(arch.pieces)
                  /\ cur >= EndOf(arch.items[arch.pieces[n]])
  BY WalkFacts
<1>2. i \in 1..Len(arch.items) /\ cur = arch.items[i].at
  BY <1>1, ItemTypes DEF At, Items, Item
<1>3. PICK l \in 1..Len(arch.pieces) : i = arch.pieces[l]  BY <1>1, <1>2, PieceTypes
<1>4. n < Len(arch.pieces)
  <2> SUFFICES ASSUME n = Len(arch.pieces) PROVE FALSE  BY <1>1
  <2>1. n \in 1..Len(arch.pieces) /\ l <= n  BY <1>1, <1>3
  <2>2. cur >= EndOf(arch.items[arch.pieces[n]])  BY <1>1, <2>1
  <2>3. PieceAt(arch, l).at >= EndOf(PieceAt(arch, n))  BY <1>2, <1>3, <2>2 DEF PieceAt
  <2>4. l > n  BY <1>1, <2>1, <2>3, PieceOrder
  <2> QED BY <1>1, <2>1, <2>4
<1>5. PICK j \in 1..Len(arch.items) : /\ cur = arch.items[j].at
                                      /\ arch.items[j].kind = "inline" => j = arch.pieces[n + 1]
  BY <1>4, Standing
<1>6. i = j  BY <1>1, <1>2, <1>5, OneItem
<1> QED BY <1>2, <1>4, <1>5, <1>6

LEMMA AppendIs ==
    ASSUME NEW m \in Seq(Nat), NEW c \in Nat
    PROVE  /\ Append(m, c) \in Seq(Nat) /\ Len(Append(m, c)) = Len(m) + 1 /\ Len(m) \in Nat
           /\ Append(m, c)[Len(m) + 1] = c /\ \A k \in 1..Len(m) : Append(m, c)[k] = m[k]
           /\ Append(m, c) # << >>
<1>1. /\ Append(m, c) \in Seq(Nat) /\ Len(Append(m, c)) = Len(m) + 1 /\ Len(m) \in Nat
      /\ Append(m, c)[Len(m) + 1] = c /\ \A k \in 1..Len(m) : Append(m, c)[k] = m[k]
  BY AppendProperties, LenProperties
<1>2. Append(m, c) # << >>
  <2>1. Len(Append(m, c)) # 0  BY <1>1
  <2> QED BY <1>1, <2>1, EmptySeq
<1> QED BY <1>1, <1>2, Zenon

(* A walk that is past a piece stays so.                                     *)
LEMMA LostOn ==
    ASSUME NEW a \in Archives, NEW m, NEW c \in Nat, NEW p, NEW l, Lost(a, m, c, p, l),
           NEW d \in Nat, c <= d
    PROVE  Lost(a, m, d, p, l)
<1>1. PICK n \in 1..(Len(a.pieces) - 1) : Reached(a, m, n) /\ PieceAt(a, n + 1).at < c
  BY DEF Lost
<1>2. PieceAt(a, n + 1).at \in Nat
  <2>1. n + 1 \in 1..Len(a.pieces)  BY PieceTypes
  <2>2. a.pieces[n + 1] \in 1..Len(a.items)  BY <2>1, PieceTypes
  <2> QED BY <2>2, StreamInside DEF PieceAt
<1>3. PieceAt(a, n + 1).at < d  BY <1>1, <1>2
<1> QED BY <1>1, <1>3 DEF Lost

LEMMA LostTakes ==
    ASSUME NEW a \in Archives, NEW m \in Seq(Nat), NEW c \in Nat, NEW p, Lost(a, m, c, p, TRUE),
           NEW d \in Nat, c <= d
    PROVE  Lost(a, Append(m, c), d, p, TRUE)
<1>1. PICK n \in 1..(Len(a.pieces) - 1) : Reached(a, m, n) /\ PieceAt(a, n + 1).at < c
  BY DEF Lost
<1>2. /\ Len(Append(m, c)) = Len(m) + 1 /\ Len(m) \in Nat
      /\ Append(m, c)[Len(m) + 1] = c /\ \A k \in 1..Len(m) : Append(m, c)[k] = m[k]
  BY AppendIs
<1>3. n \in 1..Len(a.pieces) /\ n < Len(a.pieces) /\ n \in Nat  BY PieceTypes
<1>4. /\ n <= Len(m) /\ \A k \in 1..n : m[k] = PieceAt(a, k).at
      /\ \A k \in (n + 1)..Len(m) : PieceAt(a, n + 1).at < m[k]
      /\ Cause(a, n)
  BY <1>1, <1>3 DEF Reached
<1>5. n <= Len(Append(m, c)) /\ \A k \in 1..n : Append(m, c)[k] = PieceAt(a, k).at
  BY <1>2, <1>3, <1>4
<1>6. ASSUME NEW k \in (n + 1)..Len(Append(m, c)) PROVE PieceAt(a, n + 1).at < Append(m, c)[k]
  <2>1. CASE k = Len(m) + 1  BY <1>1, <1>2, <2>1
  <2>2. CASE k # Len(m) + 1
    <3>1. k \in (n + 1)..Len(m) /\ k \in 1..Len(m)  BY <1>2, <1>3, <2>2
    <3> QED BY <1>2, <1>4, <3>1
  <2> QED BY <2>1, <2>2
<1>7. Reached(a, Append(m, c), n)  BY <1>3, <1>4, <1>5, <1>6 DEF Reached
<1>8. Lost(a, Append(m, c), c, p, TRUE)  BY <1>1, <1>7 DEF Lost
<1> QED BY <1>8, LostOn, AppendIs

LEMMA LostInline ==
    ASSUME MapTypes, WalkInline, phase' # "error", Lost(arch, mds, cur, plen, locked)
    PROVE  Lost(arch', mds', cur', plen', locked')
<1>1. PICK i \in InlineAt :
         \E j \in {k \in Zlib(cur + 1 + Item(i).first) : Item(k).good} :
                /\ plen' = IF locked THEN plen ELSE cpb' \div 8
                /\ locked' = TRUE
                /\ mds' = Append(mds, cur)
                /\ cur' = Item(j).at + Size(j)
                /\ arch' = arch
  BY DEF WalkInline, Refuse
<1>2. PICK j \in Zlib(cur + 1 + Item(i).first) :
                /\ plen' = IF locked THEN plen ELSE cpb' \div 8
                /\ locked' = TRUE
                /\ mds' = Append(mds, cur)
                /\ cur' = Item(j).at + Size(j)
                /\ arch' = arch
  BY <1>1
<1>3. /\ mds \in Seq(Nat) /\ cur \in Nat /\ arch \in Archives /\ locked \in BOOLEAN
  BY DEF MapTypes
<1>4. locked = TRUE /\ plen' = plen  BY <1>2, <1>3 DEF Lost
<1>5. /\ i \in 1..Len(arch.items) /\ arch.items[i].kind # "other" /\ arch.items[i].first # None
      /\ j \in 1..Len(arch.items) /\ arch.items[j].at + arch.items[j].pre = cur + 1 + arch.items[i].first
  BY <1>3, ItemTypes DEF InlineAt, At, Zlib, ZlibAt, Items, Item
<1>6. arch.items[i].first \in Nat  BY <1>3, <1>5, StreamFacts
<1>7. PICK x \in Nat, y \in Nat, z \in Nat, f \in Nat :
         /\ x = arch.items[j].at /\ y = arch.items[j].pre /\ z = arch.items[j].z
         /\ f = arch.items[i].first
  BY <1>3, <1>5, <1>6, StreamInside
<1>8. cur' = x + (y + z) /\ x + y = cur + 1 + f  BY <1>2, <1>5, <1>7 DEF Item, Size
<1>9. cur' \in Nat /\ cur <= cur'  BY <1>3, <1>8
<1>10. Lost(arch, Append(mds, cur), cur', plen, TRUE)  BY <1>3, <1>4, <1>9, LostTakes
<1> QED BY <1>2, <1>4, <1>10

LEMMA InlineKeepsWalk ==
    ASSUME MapTypes, WalkInv, WalkInline, phase' # "error"
    PROVE  WalkInv'
<1> SUFFICES ASSUME phase' \in {"walk", "skip"}, ~Doomed(arch', mds'), ~Lost(arch', mds', cur', plen', locked')
             PROVE  /\ Tracked(arch', mds')
                    /\ GeometryKnown(arch', mds', plen', cpb', locked')
                    /\ AheadInv(arch', mds', cur', phase')
  BY Zenon DEF WalkInv
<1>0. ~Lost(arch, mds, cur, plen, locked)  BY LostInline
<1> DEFINE n == Len(mds)
<1>1. PICK i \in InlineAt :
         LET stream == {j \in Zlib(cur + 1 + Item(i).first) : Item(j).good} IN
         \E j \in stream :
                /\ cpb' = IF ~locked /\ Item(i).cpb # None THEN Item(i).cpb ELSE cpb
                /\ plen' = IF locked THEN plen ELSE cpb' \div 8
                /\ locked' = TRUE
                /\ mds' = Append(mds, cur)
                /\ cur' = Item(j).at + Size(j)
                /\ phase' = IF cur' >= FileEnd THEN "walk" ELSE "skip"
                /\ UNCHANGED <<arch, numpy, recs, index, error>>
  BY DEF WalkInline, Refuse
<1>2. PICK j \in Zlib(cur + 1 + Item(i).first) :
                /\ cpb' = IF ~locked /\ Item(i).cpb # None THEN Item(i).cpb ELSE cpb
                /\ plen' = IF locked THEN plen ELSE cpb' \div 8
                /\ locked' = TRUE
                /\ mds' = Append(mds, cur)
                /\ cur' = Item(j).at + Size(j)
                /\ phase' = IF cur' >= FileEnd THEN "walk" ELSE "skip"
                /\ arch' = arch
  BY <1>1
<1>3. /\ mds \in Seq(Nat) /\ cur \in Nat /\ arch \in Archives /\ phase = "walk"
  BY Zenon DEF MapTypes, WalkInline
<1>4. /\ mds' \in Seq(Nat) /\ Len(mds') = n + 1 /\ n \in Nat /\ mds'[n + 1] = cur
      /\ mds' # << >> /\ \A k \in 1..n : mds'[k] = mds[k]
  BY <1>2, <1>3, AppendIs
<1>5. ~Doomed(arch, mds)
  <2> SUFFICES ASSUME NEW k \in 1..n, NoPieceAt(arch, mds[k]) PROVE FALSE  BY DEF Doomed
  <2>1. k \in 1..Len(mds') /\ NoPieceAt(arch', mds'[k])  BY <1>2, <1>4
  <2> QED BY <2>1 DEF Doomed
<1>6. ~NoPieceAt(arch, cur)
  <2>1. n + 1 \in 1..Len(mds')  BY <1>4
  <2> QED BY <1>2, <1>4, <2>1 DEF Doomed
<1>7. /\ i \in 1..Len(arch.items) /\ cur = arch.items[i].at /\ i \in At(cur)
      /\ arch.items[i].first # None
  BY <1>3, ItemTypes DEF InlineAt, At, Items, Item
<1>8. arch.items[i].kind = "inline"
  <2>1. PICK k \in DOMAIN arch.items : arch.items[k].at = cur /\ arch.items[k].kind = "inline"
    BY <1>6 DEF NoPieceAt
  <2>2. k \in 1..Len(arch.items)  BY <1>3, ItemTypes
  <2>3. k = i  BY <1>3, <1>7, <2>1, <2>2, OneItem
  <2> QED BY <2>1, <2>3
<1>9. n < Len(arch.pieces) /\ i = arch.pieces[n + 1]
  BY <1>0, <1>3, <1>5, <1>7, <1>8, TakesNext
<1>10. /\ n \in 0..Len(arch.pieces) /\ Len(arch.pieces) \in Nat
       /\ n = 0 => ~locked /\ plen = Legacy /\ cpb = 8 * Legacy
       /\ n # 0 => locked /\ plen = Geometry(arch)
  BY <1>0, <1>3, <1>5, WalkFacts
<1>11. n + 1 \in 1..Len(arch.pieces) /\ arch.pieces # << >>
  <2>1. n + 1 \in 1..Len(arch.pieces) /\ Len(arch.pieces) # 0  BY <1>9, <1>10
  <2> QED BY <1>3, <2>1, PieceTypes
<1>12. arch.items[i].first = arch.items[i].pre - 1
  BY <1>3, <1>7, <1>9, <1>11, PieceTypes
<1>13. j = i /\ cur' = EndOf(arch.items[i]) /\ cur' \in Nat
  <2>1. PICK x \in Nat, y \in Nat, w \in Nat :
           x = arch.items[i].at /\ y = arch.items[i].pre /\ w = arch.items[i].z
    BY <1>3, <1>7, StreamInside
  <2>2. cur + 1 + Item(i).first = x + 1 + (y - 1)  BY <1>7, <1>12, <2>1 DEF Item
  <2>3. x + 1 + (y - 1) = x + y  OBVIOUS
  <2>4. cur + 1 + Item(i).first = arch.items[i].at + arch.items[i].pre  BY <2>1, <2>2, <2>3
  <2>5. Zlib(arch.items[i].at + arch.items[i].pre) = {i}  BY <1>3, <1>7, <1>8, AtIs
  <2>6. j = i  BY <1>2, <2>4, <2>5
  <2>7. cur' = x + (y + w)  BY <1>2, <2>1, <2>6 DEF Item, Size
  <2>8. EndOf(arch.items[i]) = x + y + w  BY <2>1 DEF EndOf
  <2> QED BY <2>6, <2>7, <2>8
<1>14. Tracked(arch', mds')
  <2>1. \A k \in 1..n : mds[k] = arch.items[arch.pieces[k]].at
    BY <1>0, <1>3, <1>5 DEF WalkInv, Tracked
  <2>2. ASSUME NEW k \in 1..Len(mds') PROVE mds'[k] = arch.items[arch.pieces[k]].at
    <3>1. k \in 1..n \/ k = n + 1  BY <1>4
    <3> QED BY <1>4, <1>7, <1>9, <2>1, <3>1
  <2>3. Len(mds') <= Len(arch.pieces)  BY <1>4, <1>9, <1>10
  <2> QED BY <1>2, <2>2, <2>3 DEF Tracked
<1>15. plen' = Geometry(arch)
  <2>1. CASE n # 0  BY <1>2, <1>10, <2>1
  <2>2. CASE n = 0
    <3>1. i = arch.pieces[1] /\ ~locked /\ cpb = 8 * Legacy  BY <1>9, <1>10, <2>2
    <3>2. plen' = (IF arch.items[i].cpb # None THEN arch.items[i].cpb ELSE 8 * Legacy) \div 8
      BY <1>2, <3>1 DEF Item
    <3>3. (8 * Legacy) \div 8 = Legacy  BY ConstTypes
    <3>4. ~ \E k \in DOMAIN arch.items : arch.items[k].kind = "map"
      <4> SUFFICES ASSUME NEW k \in DOMAIN arch.items, arch.items[k].kind = "map" PROVE FALSE
        OBVIOUS
      <4>1. k \in 1..Len(arch.items)  BY <1>3, ItemTypes
      <4> QED BY <1>3, <1>11, <4>1, KindFacts
    <3>5. Geometry(arch) = IF arch.items[arch.pieces[1]].cpb # None
                           THEN arch.items[arch.pieces[1]].cpb \div 8 ELSE Legacy
      BY <1>11, <3>4, Zenon DEF Geometry
    <3>6. CASE arch.items[i].cpb # None  BY <3>1, <3>2, <3>5, <3>6
    <3>7. CASE arch.items[i].cpb = None  BY <3>1, <3>2, <3>3, <3>5, <3>7
    <3> QED BY <3>6, <3>7
  <2> QED BY <2>1, <2>2
<1>16. GeometryKnown(arch', mds', plen', cpb', locked')
  BY <1>2, <1>4, <1>15 DEF GeometryKnown
<1>17. ASSUME Len(mds') < Len(arch'.pieces)
       PROVE  phase' = "skip" /\ mds' # << >> /\ cur' = EndOf(PieceAt(arch', Len(mds')))
  <2>1. cur' = EndOf(PieceAt(arch', Len(mds')))  BY <1>2, <1>4, <1>9, <1>13 DEF PieceAt
  <2>2. n + 2 \in 1..Len(arch.pieces) /\ n + 1 < n + 2  BY <1>2, <1>4, <1>10, <1>17
  <2>3. i < arch.pieces[n + 2] /\ arch.pieces[n + 2] \in 1..Len(arch.items)
    BY <1>3, <1>9, <1>11, <2>2, PieceTypes
  <2>4. EndOf(arch.items[i]) <= arch.items[arch.pieces[n + 2]].at
    BY <1>3, <1>7, <2>3, InOrder
  <2>5. EndOf(arch.items[arch.pieces[n + 2]]) <= FileEnd /\ FileEnd \in Nat  BY <1>3, <2>3, FileEndIs
  <2>6. PICK x \in Nat, y \in Nat, e \in Nat, f \in Nat :
           /\ x = arch.items[arch.pieces[n + 2]].at /\ y = arch.items[arch.pieces[n + 2]].pre
           /\ e = EndOf(arch.items[arch.pieces[n + 2]]) /\ f = FileEnd
    BY <1>3, <2>3, <2>5, StreamInside
  <2>7. x + y < e  BY <1>3, <2>3, <2>6, StreamInside
  <2>8. cur' <= x /\ e <= f  BY <1>13, <2>4, <2>5, <2>6
  <2>9. ~(cur' >= FileEnd)
    <3>1. cur' < f  BY <1>13, <2>7, <2>8
    <3> QED BY <1>13, <2>6, <3>1
  <2> QED BY <1>2, <1>4, <2>1, <2>9
<1>18. AheadInv(arch', mds', cur', phase')
  <2>1. mds' # << >> => cur' >= EndOf(PieceAt(arch', Len(mds')))
    <3>1. cur' = EndOf(PieceAt(arch', Len(mds')))  BY <1>2, <1>4, <1>9, <1>13 DEF PieceAt
    <3>2. cur' >= cur'  BY <1>13
    <3> QED BY <3>1, <3>2
  <2> QED BY <1>17, <2>1, Zenon DEF AheadInv
<1> QED BY <1>14, <1>16, <1>18

-----------------------------------------------------------------------------
(* A block is passed (WalkBlock), and the search behind a piece              *)

(* A stream where the walk looks for the one of a block is that of the block *)
(* it stands on.                                                             *)
LEMMA BlockRead ==
    ASSUME MapTypes, WalkInv, phase = "walk", ~Doomed(arch, mds), ~Lost(arch, mds, cur, plen, locked),
           InlineAt = {} \/ Len(mds) = 0, Len(mds) < Len(arch.pieces), NEW i \in Zlib(cur + plen)
    PROVE  /\ i \in 1..Len(arch.items) /\ cur = arch.items[i].at /\ arch.items[i].kind = "block"
           /\ arch.items[i].pre = plen /\ i < arch.pieces[Len(mds) + 1]
<1>1. PICK j \in 1..Len(arch.items) :
              /\ cur = arch.items[j].at
              /\ arch.items[j].kind \in {"block", "inline"} /\ plen <= arch.items[j].pre
              /\ arch.items[j].kind = "inline" => plen < arch.items[j].pre
              /\ arch.items[j].kind = "block" => j < arch.pieces[Len(mds) + 1]
  BY Standing
<1>2. arch \in Archives /\ plen \in Nat  BY WalkFacts
<1>3. i = j /\ arch.items[j].pre = plen
  <2>1. i \in Zlib(arch.items[j].at + plen)  BY <1>1
  <2> QED BY <1>1, <1>2, <2>1, NoStreamBefore
<1>4. arch.items[j].kind # "inline"  BY <1>1, <1>2, <1>3
<1> QED BY <1>1, <1>3, <1>4

LEMMA BlockKeepsWalk ==
    ASSUME MapTypes, WalkInv, WalkBlock, phase' = "walk"
    PROVE  WalkInv'
<1> SUFFICES ASSUME ~Doomed(arch', mds'), ~Lost(arch', mds', cur', plen', locked')
             PROVE  /\ Tracked(arch', mds')
                    /\ GeometryKnown(arch', mds', plen', cpb', locked')
                    /\ AheadInv(arch', mds', cur', phase')
  BY Zenon DEF WalkInv
<1>1. phase = "walk" /\ InlineAt = {}  BY DEF WalkBlock
<1>2. PICK i \in Zlib(cur + plen) :
             /\ cur' = ZlibAt(i) + Item(i).z
             /\ arch' = arch /\ mds' = mds /\ cpb' = cpb /\ plen' = plen /\ locked' = locked
  BY DEF WalkBlock, WalkEnd, Refuse
<1>3. /\ arch \in Archives /\ plen \in Nat /\ cur \in Nat
      /\ i \in 1..Len(arch.items) /\ arch.items[i].at + arch.items[i].pre = cur + plen
  BY ItemTypes DEF MapTypes, Zlib, ZlibAt, Item, Items
<1>4. cur' = cur + plen + arch.items[i].z /\ arch.items[i].z \in Nat
  <2>1. PICK z \in Nat : z = arch.items[i].z  BY <1>3, StreamInside
  <2> QED BY <1>2, <1>3, <2>1 DEF ZlibAt, Item
<1>5. ~Lost(arch, mds, cur, plen, locked)
  <2> SUFFICES ASSUME Lost(arch, mds, cur, plen, locked) PROVE FALSE  OBVIOUS
  <2>1. cur' \in Nat /\ cur <= cur'
    <3>1. PICK z \in Nat : z = arch.items[i].z  BY <1>4
    <3> QED BY <1>3, <1>4, <3>1
  <2>2. Lost(arch, mds, cur', plen, locked)  BY <1>3, <2>1, LostOn
  <2> QED BY <1>2, <2>2
<1>6. ~Doomed(arch, mds) /\ Tracked(arch, mds) /\ GeometryKnown(arch, mds, plen, cpb, locked)
      /\ AheadInv(arch, mds, cur, phase)
  BY <1>1, <1>2, <1>5, Zenon DEF WalkInv
<1>7. Len(mds) \in 0..Len(arch.pieces) /\ Len(arch.pieces) \in Nat
  BY <1>1, <1>6, <1>5, WalkFacts
<1>8. mds # << >> => cur' >= EndOf(PieceAt(arch, Len(mds)))
  <2> SUFFICES ASSUME mds # << >> PROVE cur' >= EndOf(PieceAt(arch, Len(mds)))  OBVIOUS
  <2>1. cur >= EndOf(PieceAt(arch, Len(mds)))  BY <1>6 DEF AheadInv
  <2>2. EndOf(PieceAt(arch, Len(mds))) \in Nat
    <3>1. Len(mds) # 0  BY <1>1, <1>6, <1>5, WalkFacts
    <3>2. Len(mds) \in 1..Len(arch.pieces)  BY <1>7, <3>1
    <3>3. arch.pieces[Len(mds)] \in 1..Len(arch.items)  BY <1>3, <3>2, PieceTypes
    <3> QED BY <1>3, <3>3, StreamInside DEF PieceAt
  <2>3. PICK e \in Nat, z \in Nat : e = EndOf(PieceAt(arch, Len(mds))) /\ z = arch.items[i].z
    BY <1>4, <2>2
  <2> QED BY <1>3, <1>4, <2>1, <2>3
<1>9. Len(mds) < Len(arch.pieces) => StandsBefore(arch, Len(mds) + 1, cur')
  <2> SUFFICES ASSUME Len(mds) < Len(arch.pieces) PROVE StandsBefore(arch, Len(mds) + 1, cur')
    OBVIOUS
  <2>1. /\ cur = arch.items[i].at /\ arch.items[i].kind = "block"
        /\ arch.items[i].pre = plen /\ i < arch.pieces[Len(mds) + 1]
    BY <1>1, <1>6, <1>5, BlockRead
  <2>2. cur' = EndOf(arch.items[i])  BY <1>3, <1>4, <2>1 DEF EndOf
  <2>3. Len(mds) + 1 \in 1..Len(arch.pieces)  BY <1>7
  <2> QED BY <1>3, <2>1, <2>2, <2>3, NextStands
<1>10. AheadInv(arch', mds', cur', phase')  BY <1>2, <1>8, <1>9, Zenon DEF AheadInv
<1> QED BY <1>2, <1>6, <1>10

(* A block in front of a piece has two bytes behind its bitmap.              *)
LEMMA RoomFor ==
    ASSUME arch \in Archives, NEW i \in 1..Len(arch.items), NEW n \in 1..Len(arch.pieces),
           i < arch.pieces[n]
    PROVE  /\ FileEnd \in Nat
           /\ arch.items[i].at + arch.items[i].pre + 2 <= FileEnd
<1>1. arch.pieces[n] \in 1..Len(arch.items)  BY PieceTypes
<1>2. PICK x \in Nat, y \in Nat, z \in Nat \ {0}, e \in Nat :
         /\ x = arch.items[i].at /\ y = arch.items[i].pre /\ z = arch.items[i].z
         /\ e = x + y + z /\ e = EndOf(arch.items[i])
  BY StreamInside
<1>3. PICK u \in Nat, v \in Nat, w \in Nat \ {0}, f \in Nat :
         /\ u = arch.items[arch.pieces[n]].at /\ v = arch.items[arch.pieces[n]].pre
         /\ w = arch.items[arch.pieces[n]].z
         /\ f = u + v + w /\ f = EndOf(arch.items[arch.pieces[n]])
  BY <1>1, StreamInside
<1>4. EndOf(arch.items[i]) <= arch.items[arch.pieces[n]].at  BY <1>1, InOrder
<1>5. FileEnd \in Nat /\ EndOf(arch.items[arch.pieces[n]]) <= FileEnd  BY <1>1, FileEndIs
<1>6. e <= u /\ f <= FileEnd  BY <1>2, <1>3, <1>4, <1>5
<1>7. x + y + 2 <= FileEnd
  <2>1. e = x + y + z /\ f = u + v + w /\ FileEnd \in Nat  BY <1>2, <1>3, <1>5
  <2>2. PICK g \in Nat : g = FileEnd  BY <2>1
  <2>3. f <= g  BY <1>6, <2>2
  <2> QED BY ONLY <1>6, <2>1, <2>2, <2>3, x \in Nat, y \in Nat, z \in Nat \ {0}, e \in Nat, u \in Nat, v \in Nat, w \in Nat \ {0}, f \in Nat
<1> QED BY <1>2, <1>5, <1>7

(* What the search behind a piece may find.                                  *)
LEMMA NextBlockIs ==
    ASSUME arch \in Archives, plen \in Nat, cur \in Nat,
           NEW b \in 1..Len(arch.items), Found(arch.items[b]), arch.items[b].pre = plen,
           cur <= arch.items[b].at,
           arch.items[b].at + plen + 2 <= cur + MaxSkip, arch.items[b].at + plen + 2 <= FileEnd
    PROVE  arch.items[b].at \in NextBlocks
<1>1. FileEnd \in Nat  BY FileEndIs
<1>2. PICK x \in Nat, y \in Nat, f \in Nat, s \in Nat :
         x = arch.items[b].at /\ y = plen /\ f = FileEnd /\ s = MaxSkip
  BY <1>1, StreamInside, ConstTypes
<1>3. Min({cur + MaxSkip, FileEnd}) = IF cur + s <= f THEN cur + s ELSE f
  <2>1. cur + s \in Int /\ f \in Int  OBVIOUS
  <2> QED BY <1>2, <2>1, MinOfTwo
<1>4. x + y + 2 <= cur + s /\ x + y + 2 <= f /\ cur <= x  BY <1>2
<1>5. x \in cur..((IF cur + s <= f THEN cur + s ELSE f) - y - 2)  BY <1>4
<1>6. arch.items[b].at \in cur..(Min({cur + MaxSkip, FileEnd}) - plen - 2)  BY <1>2, <1>3, <1>5
<1>7. b \in Zlib(arch.items[b].at + plen) /\ Item(b).good /\ Item(b).pages
  BY AtIs DEF Found, Item
<1> QED BY <1>6, <1>7 DEF NextBlocks

LEMMA NextBlocksMin ==
    ASSUME arch \in Archives, plen \in Nat, cur \in Nat, NextBlocks # {}
    PROVE  /\ Min(NextBlocks) \in NextBlocks /\ Min(NextBlocks) \in Nat /\ Min(NextBlocks) >= cur
           /\ Min(NextBlocks) + plen + 2 <= cur + MaxSkip
           /\ \A p \in NextBlocks : Min(NextBlocks) <= p
<1>1. FileEnd \in Nat
  <2>1. 1 \in 1..Len(arch.items)  BY ItemTypes
  <2> QED BY <2>1, FileEndIs
<1>2. PICK f \in Nat, s \in Nat : f = FileEnd /\ s = MaxSkip  BY <1>1, ConstTypes
<1>3. Min({cur + MaxSkip, FileEnd}) = IF cur + s <= f THEN cur + s ELSE f
  <2>1. cur + s \in Int /\ f \in Int  OBVIOUS
  <2> QED BY <1>2, <2>1, MinOfTwo
<1>4. PICK h \in Int : h = Min({cur + MaxSkip, FileEnd}) /\ h <= cur + s  BY <1>3
<1>5. NextBlocks \subseteq cur..(h - plen - 2)  BY <1>4 DEF NextBlocks
<1>6. NextBlocks \subseteq Nat /\ \A p \in NextBlocks : cur <= p /\ p + plen + 2 <= cur + s
  BY <1>4, <1>5
<1>7. PICK m \in NextBlocks : \A p \in NextBlocks : m <= p
  <2> HIDE DEF NextBlocks
  <2>1. PICK q \in NextBlocks : TRUE  OBVIOUS
  <2>2. q \in NextBlocks /\ NextBlocks \subseteq Nat  BY <1>6
  <2> QED BY <2>2, LeastNat
<1>8. Min(NextBlocks) \in NextBlocks /\ \A p \in NextBlocks : Min(NextBlocks) <= p
  BY <1>7 DEF Min
<1> QED BY <1>2, <1>6, <1>8

-----------------------------------------------------------------------------
(* The search (FindNextBlock), and the ends of the walk                      *)

(* All that is found, and what comes next for a cause.                       *)
LEMMA TrackedReaches ==
    ASSUME NEW a \in Archives, NEW m, Tracked(a, m), Len(m) \in 1..Len(a.pieces),
           Len(m) < Len(a.pieces) => Cause(a, Len(m))
    PROVE  Reached(a, m, Len(m))
<1>1. Len(m) \in Nat /\ Len(m) <= Len(m)  BY PieceTypes
<1>2. (Len(m) + 1)..Len(m) = {}  BY <1>1
<1>3. \A k \in 1..Len(m) : m[k] = PieceAt(a, k).at  BY DEF Tracked, PieceAt
<1> QED BY <1>1, <1>2, <1>3 DEF Reached

(* Behind a piece, what the search finds lies in front of the next one; or   *)
(* no block between the two could have been found.                           *)
LEMMA FoundBefore ==
    ASSUME MapTypes, WalkInv, phase = "skip", ~Doomed(arch, mds), ~Lost(arch, mds, cur, plen, locked),
           Len(mds) < Len(arch.pieces), NextBlocks # {}
    PROVE  /\ Len(mds) \in 1..(Len(arch.pieces) - 1)
           /\ \/ StandsBefore(arch, Len(mds) + 1, Min(NextBlocks))
              \/ /\ Cause(arch, Len(mds))
                 /\ PieceAt(arch, Len(mds) + 1).at < Min(NextBlocks)
<1> DEFINE n == Len(mds)
           p == Min(NextBlocks)
<1>1. AheadInv(arch, mds, cur, phase)  BY Zenon DEF WalkInv
<1>2. mds # << >> /\ cur = EndOf(PieceAt(arch, n))  BY <1>1, Zenon DEF AheadInv
<1>3. /\ arch \in Archives /\ cur \in Nat /\ plen \in Nat /\ Len(arch.pieces) \in Nat
      /\ n \in 1..Len(arch.pieces) /\ plen = Geometry(arch)
  <2>1. Len(mds) # 0  BY <1>2, WalkFacts
  <2> QED BY <2>1, WalkFacts
<1>4. n \in 1..(Len(arch.pieces) - 1) /\ n + 1 \in 1..Len(arch.pieces)  BY <1>3
<1>5. /\ arch.pieces[n] \in 1..Len(arch.items) /\ arch.pieces[n + 1] \in 1..Len(arch.items)
      /\ Len(arch.items) \in Nat
  BY <1>3, <1>4, PieceTypes, ItemTypes
<1>6. /\ p \in NextBlocks /\ p \in Nat /\ p >= cur /\ p + plen + 2 <= cur + MaxSkip
      /\ \A q \in NextBlocks : p <= q
  BY <1>3, NextBlocksMin
<1>7. PICK j \in Zlib(p + plen) : Item(j).good /\ Item(j).pages
  BY <1>6 DEF NextBlocks
<1>8. j \in 1..Len(arch.items) /\ arch.items[j].kind # "other"
      /\ arch.items[j].at + arch.items[j].pre = p + plen
  BY <1>3, ItemTypes DEF Zlib, ZlibAt, Item, Items
<1>9. arch.items[j].kind = "block" /\ arch.items[j].pre = plen
  <2>1. arch.items[j].kind = "block"  BY <1>3, <1>7, <1>8, StreamFacts DEF Item
  <2> QED BY <1>3, <1>8, <2>1, KindFacts
<1>10. arch.items[j].at = p
  <2>1. PICK x \in Nat : x = arch.items[j].at  BY <1>3, <1>8, StreamInside
  <2>2. x + plen = p + plen  BY <1>8, <1>9, <2>1
  <2> QED BY <1>3, <1>6, <2>1, <2>2
<1>11. ASSUME arch.pieces[n + 1] <= j
       PROVE  Cause(arch, n) /\ PieceAt(arch, n + 1).at < p
  <2>1. arch.items[arch.pieces[n + 1]].kind = "inline"  BY <1>3, <1>4, PieceTypes
  <2>2. arch.pieces[n + 1] < j
    <3>1. arch.pieces[n + 1] # j  BY <1>9, <2>1
    <3> QED BY <1>5, <1>8, <1>11, <3>1
  <2>3. PieceAt(arch, n + 1).at < p
    BY <1>3, <1>5, <1>8, <1>10, <2>2, OneItem DEF PieceAt
  <2>4. ASSUME NEW b \in Between(arch, n), Found(arch.items[b]), InReach(arch, arch.pieces[n], b)
        PROVE  FALSE
    <3>1. b \in 1..Len(arch.items) /\ arch.pieces[n] < b /\ b < arch.pieces[n + 1]
      BY <1>5 DEF Between
    <3>2. arch.items[b].kind = "block" /\ arch.items[b].pre = plen
      BY <1>3, <2>4, <3>1, KindFacts DEF Found
    <3>3. b < j  BY <1>5, <1>8, <1>11, <3>1
    <3>4. arch.items[b].at < p /\ arch.items[b].at \in Nat
      BY <1>3, <1>8, <1>10, <3>1, <3>3, OneItem, StreamInside
    <3>5. EndOf(arch.items[arch.pieces[n]]) = cur  BY <1>2 DEF PieceAt
    <3>6. cur <= arch.items[b].at
      <4>1. EndOf(arch.items[arch.pieces[n]]) <= arch.items[b].at
        BY <1>3, <1>5, <3>1, InOrder
      <4> QED BY <3>5, <4>1
    <3>7. arch.items[b].at + plen + 2 <= cur + MaxSkip
      BY <2>4, <3>2, <3>5 DEF InReach
    <3>8. arch.items[b].at + plen + 2 <= FileEnd
      <4>1. arch.items[b].at + arch.items[b].pre + 2 <= FileEnd  BY <1>3, <1>4, <3>1, RoomFor
      <4> QED BY <3>2, <4>1
    <3>9. arch.items[b].at \in NextBlocks
      BY <1>3, <2>4, <3>1, <3>2, <3>6, <3>7, <3>8, NextBlockIs
    <3>10. p <= arch.items[b].at  BY <1>6, <3>9
    <3> QED BY <1>6, <3>4, <3>10
  <2>5. Cause(arch, n)  BY <2>4, Zenon DEF Cause
  <2> QED BY <2>3, <2>5
<1>12. CASE arch.pieces[n + 1] <= j  BY <1>4, <1>11, <1>12
<1>13. CASE ~(arch.pieces[n + 1] <= j)
  <2>1. j \in 1..arch.pieces[n + 1]  BY <1>5, <1>8, <1>13
  <2>2. StandsBefore(arch, n + 1, p)  BY <1>9, <1>10, <2>1 DEF StandsBefore
  <2> QED BY <1>4, <2>2
<1> QED BY <1>12, <1>13

LEMMA FindKeepsWalk ==
    ASSUME MapTypes, WalkInv, FindNextBlock, phase' = "walk"
    PROVE  WalkInv'
<1> SUFFICES ASSUME ~Doomed(arch', mds'), ~Lost(arch', mds', cur', plen', locked')
             PROVE  /\ Tracked(arch', mds')
                    /\ GeometryKnown(arch', mds', plen', cpb', locked')
                    /\ AheadInv(arch', mds', cur', phase')
  BY Zenon DEF WalkInv
<1>0. phase = "skip"  BY DEF FindNextBlock
<1>1. /\ NextBlocks # {} /\ cur' = Min(NextBlocks)
      /\ arch' = arch /\ mds' = mds /\ cpb' = cpb /\ plen' = plen /\ locked' = locked
  BY DEF FindNextBlock, WalkEnd, Refuse
<1>2. arch \in Archives /\ plen \in Nat /\ cur \in Nat /\ mds \in Seq(Nat)  BY DEF MapTypes
<1>3. Min(NextBlocks) \in Nat /\ Min(NextBlocks) >= cur  BY <1>1, <1>2, NextBlocksMin
<1>4. ~Lost(arch, mds, cur, plen, locked)
  <2> SUFFICES ASSUME Lost(arch, mds, cur, plen, locked) PROVE FALSE  OBVIOUS
  <2>1. Min(NextBlocks) \in Nat /\ cur <= Min(NextBlocks)  BY <1>2, <1>3
  <2>2. Lost(arch, mds, cur', plen, locked)  BY <1>1, <1>2, <2>1, LostOn
  <2> QED BY <1>1, <2>2
<1>5. ~Doomed(arch, mds) /\ Tracked(arch, mds) /\ GeometryKnown(arch, mds, plen, cpb, locked)
      /\ AheadInv(arch, mds, cur, phase)
  BY <1>0, <1>1, <1>4, Zenon DEF WalkInv
<1>6. /\ Len(arch.pieces) \in Nat /\ (mds = << >> <=> Len(mds) = 0)
      /\ Len(mds) # 0 => Len(mds) \in 1..Len(arch.pieces) /\ locked /\ plen = Geometry(arch)
  BY <1>0, <1>4, <1>5, WalkFacts
<1>7. mds # << >> => cur' >= EndOf(PieceAt(arch, Len(mds)))
  <2> SUFFICES ASSUME mds # << >> PROVE cur' >= EndOf(PieceAt(arch, Len(mds)))  OBVIOUS
  <2>1. cur >= EndOf(PieceAt(arch, Len(mds)))  BY <1>5 DEF AheadInv
  <2>2. arch.pieces[Len(mds)] \in 1..Len(arch.items)  BY <1>2, <1>6, PieceTypes
  <2>3. EndOf(PieceAt(arch, Len(mds))) \in Nat  BY <1>2, <2>2, StreamInside DEF PieceAt
  <2> QED BY <1>1, <1>2, <1>3, <2>1, <2>3
<1>8. ASSUME Len(mds) < Len(arch.pieces) PROVE StandsBefore(arch, Len(mds) + 1, cur')
  <2>1. /\ Len(mds) \in 1..(Len(arch.pieces) - 1)
        /\ \/ StandsBefore(arch, Len(mds) + 1, cur')
           \/ Cause(arch, Len(mds)) /\ PieceAt(arch, Len(mds) + 1).at < cur'
    BY <1>0, <1>1, <1>4, <1>5, <1>8, FoundBefore
  <2>2. ASSUME Cause(arch, Len(mds)), PieceAt(arch, Len(mds) + 1).at < cur' PROVE FALSE
    <3>1. Len(mds) \in 1..Len(arch.pieces) /\ Len(mds) # 0  BY <1>6, <2>1
    <3>2. Reached(arch, mds, Len(mds))  BY <1>2, <1>5, <2>2, <3>1, TrackedReaches
    <3>3. Lost(arch, mds, cur', plen, locked)  BY <1>6, <2>1, <2>2, <3>1, <3>2 DEF Lost
    <3> QED BY <1>1, <3>3
  <2> QED BY <2>1, <2>2
<1>9. AheadInv(arch', mds', cur', phase')  BY <1>1, <1>7, <1>8, Zenon DEF AheadInv
<1> QED BY <1>1, <1>5, <1>9

(* The ends of the walk.                                                     *)
Ends == WalkStop \/ (WalkBlock /\ phase' # "walk") \/ (FindNextBlock /\ phase' # "walk")

(* With a piece still to come, the walk ends only at a block that is damaged,*)
(* or for want of one to go on from.                                         *)
LEMMA StopsForCause ==
    ASSUME MapTypes, WalkInv, Ends, ~Doomed(arch, mds), ~Lost(arch, mds, cur, plen, locked),
           Len(mds) < Len(arch.pieces)
    PROVE  \/ /\ Len(mds) = 0 /\ phase = "walk"
              /\ \/ Geometry(arch) # Legacy /\ arch.pieces[1] > 1
                 \/ ~Recognizable(PieceAt(arch, 1), Legacy)
                 \/ \E i \in Items : arch.items[i].kind = "block" /\ ~arch.items[i].good
           \/ Len(mds) # 0 /\ Cause(arch, Len(mds))
<1> DEFINE n == Len(mds)
<1>0. phase \in {"walk", "skip"}  BY DEF Ends, WalkStop, WalkBlock, FindNextBlock
<1>1. /\ arch \in Archives /\ cur \in Nat /\ plen \in Nat /\ n \in 0..Len(arch.pieces)
      /\ Len(arch.pieces) \in Nat /\ (mds = << >> <=> Len(mds) = 0)
      /\ n = 0 => plen = Legacy
      /\ n # 0 => /\ plen = Geometry(arch) /\ n \in 1..Len(arch.pieces)
                  /\ cur >= EndOf(arch.items[arch.pieces[n]])
                  /\ Last(mds) = arch.items[arch.pieces[n]].at
  BY <1>0, WalkFacts
<1>2. n + 1 \in 1..Len(arch.pieces)  BY <1>1
<1>3. /\ arch.pieces[n + 1] \in 1..Len(arch.items) /\ Len(arch.items) \in Nat
      /\ DOMAIN arch.items = 1..Len(arch.items) /\ arch.items[arch.pieces[n + 1]].kind = "inline"
  BY <1>1, <1>2, PieceTypes, ItemTypes
<1>4. ASSUME NEW b \in 1..Len(arch.items), arch.items[b].kind = "block", ~arch.items[b].good,
             n # 0, cur <= arch.items[b].at, b < arch.pieces[n + 1]
      PROVE  Cause(arch, n)
  <2>1. /\ arch.pieces[n] \in 1..Len(arch.items) /\ cur >= EndOf(arch.items[arch.pieces[n]])
        /\ EndOf(arch.items[arch.pieces[n]]) \in Nat /\ arch.items[b].at \in Nat
    BY <1>1, <1>4, PieceTypes, StreamInside
  <2>2. arch.items[b].at >= EndOf(arch.items[arch.pieces[n]])  BY <1>1, <1>4, <2>1
  <2>3. arch.pieces[n] < b  BY <1>1, <1>4, <2>1, <2>2, ComesAfter
  <2>4. b \in Between(arch, n)  BY <1>3, <1>4, <2>1, <2>3 DEF Between
  <2> QED BY <1>4, <2>4, Zenon DEF Cause
<1> DEFINE Begins == /\ Geometry(arch) = Legacy \/ ~(arch.pieces[1] > 1)
                     /\ Recognizable(PieceAt(arch, 1), Legacy)
<1>5. ASSUME phase = "walk", n # 0 \/ Begins
      PROVE  WalkBlock
  <2>1. PICK j \in 1..Len(arch.items) :
              /\ cur = arch.items[j].at
              /\ arch.items[j].kind \in {"block", "inline"} /\ plen <= arch.items[j].pre
              /\ arch.items[j].kind = "inline" => j = arch.pieces[n + 1]
              /\ arch.items[j].kind = "block" =>
                    j < arch.pieces[n + 1] /\ arch.items[j].pre = Geometry(arch)
    BY <1>5, Standing
  <2>3. CASE arch.items[j].kind = "inline"
    <3>1. Recognizable(arch.items[j], plen)
      <4>1. CASE n = 0  BY <1>1, <1>5, <2>1, <2>3, <4>1 DEF PieceAt
      <4>2. CASE n # 0
        <5>1. n \in 1..(Len(arch.pieces) - 1)  BY <1>1, <4>2
        <5>2. Recognizable(PieceAt(arch, n + 1), Geometry(arch))
          BY <1>1, <5>1, LaterPieces, Zenon DEF PieceAt
        <5> QED BY <1>1, <2>1, <2>3, <4>2, <5>2 DEF PieceAt
      <4> QED BY <4>1, <4>2
    <3>2. InlineAt = {j} /\ cur < FileEnd /\ ~(FileEnd - cur < plen + 2)
      BY <1>1, <2>1, <2>3, <3>1, RecognizedThere
    <3>3. ~WalkStop
      <4>1. FileEnd \in Nat  BY <1>1, <2>1, FileEndIs
      <4>2. ~(cur >= FileEnd) /\ InlineAt # {}  BY <1>1, <3>2, <4>1
      <4> QED BY <3>2, <4>2, Zenon DEF WalkStop
    <3>4. ~FindNextBlock /\ ~WalkBlock  BY <1>5, <3>2 DEF FindNextBlock, WalkBlock
    <3> QED BY <3>3, <3>4, Zenon DEF Ends
  <2>4. CASE arch.items[j].kind = "block"
    <3>1. j < arch.pieces[n + 1] /\ arch.items[j].pre = Geometry(arch)  BY <2>1, <2>4
    <3>2. arch.items[j].pre = plen
      <4>1. CASE n # 0  BY <1>1, <3>1, <4>1
      <4>2. CASE n = 0
        <5>1. arch.pieces[1] > 1  BY <1>3, <3>1, <4>2
        <5> QED BY <1>1, <1>5, <3>1, <4>2, <5>1
      <4> QED BY <4>1, <4>2
    <3>3. /\ FileEnd \in Nat
          /\ arch.items[j].at + arch.items[j].pre + 2 <= FileEnd
      BY <1>1, <1>2, <2>1, <3>1, RoomFor
    <3>4. cur + plen + 2 <= FileEnd  BY <2>1, <3>2, <3>3
    <3>5. cur < FileEnd /\ ~(FileEnd - cur < plen + 2)  BY <1>1, <3>3, <3>4
    <3>6. Zlib(cur + plen) = {j}  BY <1>1, <2>1, <2>4, <3>2, AtIs
    <3>7. ~WalkStop
      <4>1. ~(cur >= FileEnd)  BY <1>1, <3>3, <3>5
      <4>2. Zlib(cur + plen) # {}  BY <3>6, Zenon
      <4> QED BY <3>5, <4>1, <4>2, Zenon DEF WalkStop
    <3>8. ~FindNextBlock  BY <1>5 DEF FindNextBlock
    <3> QED BY <3>7, <3>8, Zenon DEF Ends
  <2> QED BY <2>1, <2>3, <2>4
<1>6. ASSUME WalkBlock, phase' # "walk"
      PROVE  \E i \in 1..Len(arch.items) :
                /\ cur = arch.items[i].at /\ arch.items[i].kind = "block" /\ ~arch.items[i].good
                /\ i < arch.pieces[n + 1]
  <2>1. phase = "walk" /\ InlineAt = {}  BY <1>6 DEF WalkBlock
  <2>2. PICK i \in Zlib(cur + plen) : ~Item(i).good  BY <1>6, <2>1 DEF WalkBlock
  <2>3. /\ i \in 1..Len(arch.items) /\ cur = arch.items[i].at /\ arch.items[i].kind = "block"
        /\ i < arch.pieces[n + 1]
    BY <2>1, BlockRead
  <2> QED BY <2>2, <2>3 DEF Item
<1>7. CASE phase = "walk"
  <2>1. SUFFICES ASSUME n # 0 \/ Begins
                 PROVE  \/ n = 0 /\ \E i \in Items : arch.items[i].kind = "block" /\ ~arch.items[i].good
                        \/ n # 0 /\ Cause(arch, n)
    BY <1>7, Zenon
  <2>2. WalkBlock  BY <1>5, <1>7, <2>1
  <2>3. phase' # "walk"
    <3>1. ~WalkStop \/ phase' # "walk"  BY DEF WalkStop, WalkEnd, Refuse
    <3>2. ~FindNextBlock  BY <1>7 DEF FindNextBlock
    <3> QED BY <3>1, <3>2 DEF Ends
  <2>4. PICK i \in 1..Len(arch.items) :
                /\ cur = arch.items[i].at /\ arch.items[i].kind = "block" /\ ~arch.items[i].good
                /\ i < arch.pieces[n + 1]
    BY <1>6, <2>2, <2>3
  <2>5. CASE n = 0  BY <1>3, <2>4, <2>5 DEF Items
  <2>6. CASE n # 0
    <3>1. cur <= arch.items[i].at  BY <1>1, <2>4
    <3> QED BY <1>4, <2>4, <2>6, <3>1
  <2> QED BY <2>5, <2>6
<1>8. CASE phase = "skip"
  <2>1. FindNextBlock /\ phase' # "walk"  BY <1>8 DEF Ends, WalkStop, WalkBlock
  <2>2. NextBlocks = {}  BY <2>1 DEF FindNextBlock
  <2>3. mds # << >> /\ cur = EndOf(arch.items[arch.pieces[n]])
    BY <1>8, Zenon DEF WalkInv, AheadInv, PieceAt
  <2>4. n # 0 /\ n \in 1..(Len(arch.pieces) - 1) /\ plen = Geometry(arch)  BY <1>1, <2>3
  <2>5. ASSUME NEW b \in Between(arch, n), Found(arch.items[b]), InReach(arch, arch.pieces[n], b)
        PROVE  FALSE
    <3>1. arch.pieces[n] \in 1..Len(arch.items)  BY <1>1, <2>4, PieceTypes
    <3>2. b \in 1..Len(arch.items) /\ arch.pieces[n] < b /\ b < arch.pieces[n + 1]
      BY <1>3, <3>1 DEF Between
    <3>3. arch.items[b].pre = plen  BY <1>1, <2>4, <2>5, <3>2, KindFacts DEF Found
    <3>4. cur <= arch.items[b].at
      <4>1. EndOf(arch.items[arch.pieces[n]]) <= arch.items[b].at  BY <1>1, <3>1, <3>2, InOrder
      <4> QED BY <2>3, <4>1
    <3>5. arch.items[b].at + plen + 2 <= cur + MaxSkip  BY <2>3, <2>5, <3>3 DEF InReach
    <3>6. arch.items[b].at + plen + 2 <= FileEnd
      <4>1. arch.items[b].at + arch.items[b].pre + 2 <= FileEnd  BY <1>1, <1>2, <3>2, RoomFor
      <4> QED BY <3>3, <4>1
    <3>7. arch.items[b].at \in NextBlocks
      BY <1>1, <2>5, <3>2, <3>3, <3>4, <3>5, <3>6, NextBlockIs
    <3> QED BY <2>2, <3>7
  <2>6. Cause(arch, n)  BY <2>5, Zenon DEF Cause
  <2> QED BY <2>4, <2>6
<1> QED BY <1>0, <1>7, <1>8

-----------------------------------------------------------------------------
(* What records tell, and what is asked of an archive that is not odd        *)

LEMMA TellsFacts ==
    ASSUME NEW a \in Archives
    PROVE  /\ ToldType(a.told) /\ Len(a.told) \in Nat /\ Len(a.told) = Len(a.place)
           /\ \A k \in 1..(Len(a.pieces) + 1) : From(a, k) \in 0..Len(a.told)
           /\ From(a, Len(a.pieces) + 1) = Len(a.told)
           /\ a.pieces # << >> => From(a, 1) = 0
<1>1. Tells(a)  BY ArchivesAssumption DEF ArchivesAssumption
<1>2. a.told \in Seq([off : Nat, len : Nat]) /\ Len(a.told) = Len(a.place)  BY <1>1 DEF Tells
<1>3. Len(a.told) \in Nat /\ DOMAIN a.told = 1..Len(a.told)  BY <1>2, LenProperties
<1>4. ToldType(a.told)  BY <1>1, <1>2, <1>3 DEF Tells, ToldType
<1>5. DOMAIN a.pieces = 1..Len(a.pieces) /\ Len(a.pieces) \in Nat  BY PieceTypes
<1>6. From(a, Len(a.pieces) + 1) = Len(a.told)
  <2>1. Len(a.pieces) + 1 \notin DOMAIN a.pieces  BY <1>5
  <2> QED BY <2>1 DEF From
<1>7. ASSUME NEW k \in 1..(Len(a.pieces) + 1) PROVE From(a, k) \in 0..Len(a.told)
  <2>1. k \in DOMAIN a.pieces \/ k = Len(a.pieces) + 1  BY <1>5
  <2>2. CASE k \in DOMAIN a.pieces  BY <1>1, <2>2 DEF Tells
  <2>3. CASE k = Len(a.pieces) + 1  BY <1>3, <1>6, <2>3
  <2> QED BY <2>1, <2>2, <2>3
<1>8. a.pieces # << >> => From(a, 1) = 0  BY <1>1 DEF Tells
<1> QED BY <1>2, <1>3, <1>4, <1>6, <1>7, <1>8

LEMMA PieceWrites ==
    ASSUME NEW a \in Archives, NEW k \in 1..Len(a.pieces)
    PROVE  Writes(a.items[a.pieces[k]].plain, a.told, From(a, k), From(a, k + 1) - From(a, k))
<1>1. Tells(a)  BY ArchivesAssumption DEF ArchivesAssumption
<1>2. k \in DOMAIN a.pieces  BY PieceTypes
<1> QED BY <1>1, <1>2, Zenon DEF Tells

LEMMA MapWrites ==
    ASSUME NEW a \in Archives, NEW i \in 1..Len(a.items), a.items[i].kind = "map",
           Len(a.items[i].plain) % 3 = 0
    PROVE  Writes(a.items[i].plain, a.told, 0, Len(a.told))
<1>1. Tells(a)  BY ArchivesAssumption DEF ArchivesAssumption
<1>2. i \in DOMAIN a.items  BY ItemTypes
<1> QED BY <1>1, <1>2, Zenon DEF Tells

(* Where the walk ends, and finds something, decoding begins.                *)
LEMMA EndIs ==
    ASSUME Ends
    PROVE  /\ phase \in {"walk", "skip"} /\ phase' \in {"decode", "error"} /\ arch' = arch
           /\ mds' = mds /\ plen' = plen /\ cpb' = cpb /\ recs' = recs /\ numpy' = numpy
           /\ locked' = locked /\ index' = index
           /\ phase' = "decode" => mds # << >> /\ cur' = 1
           /\ phase' = "error" => mds = << >> /\ cur' = cur
<1>1. WalkEnd
  <2>1. WalkStop => WalkEnd  BY DEF WalkStop
  <2>2. WalkBlock /\ phase' # "walk" => WalkEnd  BY DEF WalkBlock
  <2>3. FindNextBlock /\ phase' # "walk" => WalkEnd  BY DEF FindNextBlock
  <2> QED BY <2>1, <2>2, <2>3 DEF Ends
<1>2. phase \in {"walk", "skip"}  BY DEF Ends, WalkStop, WalkBlock, FindNextBlock
<1> QED BY <1>1, <1>2 DEF WalkEnd, Refuse

LEMMA EndsDecode ==
    ASSUME MapTypes, EarlyInv, WalkInv, Ends
    PROVE  DecodeInv'
<1> SUFFICES ASSUME phase' = "decode"
             PROVE  /\ cur' \in 1..(Len(mds') + 1)
                    /\ \A k \in 1..(cur' - 1) : ~NoPieceAt(arch', mds'[k])
                    /\ ~Doomed(arch', mds') =>
                          /\ plen' = Geometry(arch')
                          /\ \E n \in 1..Len(arch'.pieces) :
                                Reached(arch', mds', n) /\ Partly(arch', recs', cur', n)
  BY Zenon DEF DecodeInv
<1>1. /\ phase \in {"walk", "skip"} /\ arch' = arch /\ mds' = mds /\ plen' = plen /\ recs' = recs
      /\ mds # << >> /\ cur' = 1
  BY EndIs
<1>2. arch \in Archives /\ mds \in Seq(Nat) /\ Len(mds) \in Nat  BY LenProperties DEF MapTypes
<1>3. recs = << >>  BY <1>1 DEF EarlyInv
<1>4. cur' \in 1..(Len(mds') + 1) /\ 1..(cur' - 1) = {}  BY <1>1, <1>2
<1>5. ASSUME NEW n \in 1..Len(arch.pieces) PROVE Partly(arch, << >>, 1, n)
  <2>1. Len(arch.pieces) \in Nat /\ arch.pieces # << >>
    <3>1. Len(arch.pieces) \in Nat /\ Len(arch.pieces) # 0  BY <1>2, PieceTypes
    <3> QED BY <1>2, <3>1, PieceTypes
  <2>2. From(arch, 1) = 0 /\ Len(arch.told) \in Nat  BY <1>2, <2>1, TellsFacts
  <2>3. RecsTold(arch, << >>) /\ Len(<< >>) = From(arch, 1)
    <3>1. << >> \in Seq([off : Nat, len : Nat]) /\ Len(<< >>) = 0  OBVIOUS
    <3> QED BY <2>2, <3>1 DEF RecsTold
  <2>4. ~(1 > n + 1)  BY <2>1
  <2> QED BY <2>3, <2>4, Zenon DEF Partly
<1>6. ASSUME ~Doomed(arch, mds)
      PROVE  plen = Geometry(arch) /\ \E n \in 1..Len(arch.pieces) : Reached(arch, mds, n)
  <2>1. CASE Lost(arch, mds, cur, plen, locked)
    <3>1. PICK n \in 1..(Len(arch.pieces) - 1) : Reached(arch, mds, n)  BY <2>1 DEF Lost
    <3>2. n \in 1..Len(arch.pieces)  BY <1>2, PieceTypes
    <3> QED BY <2>1, <3>1, <3>2 DEF Lost
  <2>2. CASE ~Lost(arch, mds, cur, plen, locked)
    <3>1. /\ Len(mds) # 0 /\ plen = Geometry(arch) /\ Len(mds) \in 1..Len(arch.pieces)
          /\ Len(arch.pieces) \in Nat
      BY <1>1, <1>6, <2>2, WalkFacts
    <3>2. Tracked(arch, mds)  BY <1>1, <1>6, <2>2 DEF WalkInv
    <3>3. Len(mds) < Len(arch.pieces) => Cause(arch, Len(mds))
      BY <1>6, <2>2, <3>1, StopsForCause
    <3>4. Reached(arch, mds, Len(mds))  BY <1>2, <3>1, <3>2, <3>3, TrackedReaches
    <3> QED BY <3>1, <3>4
  <2> QED BY <2>1, <2>2
<1> QED BY <1>1, <1>3, <1>4, <1>5, <1>6, Zenon

(* What an archive is that is not refused.                                   *)
LEMMA OrdinaryFacts ==
    ASSUME arch \in Archives, Ordinary
    PROVE  /\ HeaderError = None /\ TrailerError = None /\ Usual(arch)
           /\ \A i \in 1..Len(arch.items) : arch.items[i].kind # "other" => arch.items[i].good
<1>1. HeaderError = None /\ TrailerError = None /\ Damaged = {} /\ ~arch.odd  BY DEF Ordinary
<1>2. Usual(arch)  BY <1>1, ArchivesAssumption DEF ArchivesAssumption
<1>3. ASSUME NEW i \in 1..Len(arch.items), arch.items[i].kind # "other" PROVE arch.items[i].good
  <2>1. i \in Items  BY ItemTypes DEF Items
  <2> QED BY <1>1, <1>3, <2>1 DEF Damaged, Item
<1> QED BY <1>1, <1>2, <1>3

LEMMA LegacyFacts ==
    ASSUME arch \in Archives, Ordinary, Candidates(arch) = {}
    PROVE  /\ arch.pieces # << >> /\ 0 < Len(arch.pieces)
           /\ Recognizable(PieceAt(arch, 1), Legacy)
           /\ arch.pieces[1] > 1 => Geometry(arch) = Legacy
           /\ \A k \in 1..Len(arch.pieces) :
                 /\ PieceAt(arch, k).first \in 8..64
                 /\ PieceAt(arch, k).count = From(arch, k + 1) - From(arch, k)
                 /\ PieceAt(arch, k).count > 0
           /\ \A i \in 1..Len(arch.items) : arch.items[i].kind = "block" =>
                 None \in {arch.items[i].first, arch.items[i].early}
                     \/ arch.items[i].early >= arch.items[i].pre
<1>1. Usual(arch)  BY OrdinaryFacts
<1>2. DOMAIN arch.items = 1..Len(arch.items) /\ DOMAIN arch.pieces = 1..Len(arch.pieces)
      /\ Len(arch.pieces) \in Nat /\ (arch.pieces = << >> <=> Len(arch.pieces) = 0)
  BY ItemTypes, PieceTypes
<1>3. /\ arch.pieces # << >>
      /\ Recognizable(arch.items[arch.pieces[1]], Legacy)
      /\ arch.pieces[1] > 1 => Geometry(arch) = Legacy
      /\ \A k \in DOMAIN arch.pieces :
            LET it == arch.items[arch.pieces[k]]
            IN it.first \in 8..64 /\ it.count = From(arch, k + 1) - From(arch, k) /\ it.count > 0
      /\ \A i \in DOMAIN arch.items : arch.items[i].kind = "block" =>
            None \in {arch.items[i].first, arch.items[i].early}
               \/ arch.items[i].early >= arch.items[i].pre
  BY <1>1, Zenon DEF Usual
<1>4. 0 < Len(arch.pieces)
  <2>1. Len(arch.pieces) \in Nat /\ Len(arch.pieces) # 0  BY <1>2, <1>3, Zenon
  <2> QED BY <2>1
<1>5. ASSUME NEW k \in 1..Len(arch.pieces)
      PROVE  /\ PieceAt(arch, k).first \in 8..64
             /\ PieceAt(arch, k).count = From(arch, k + 1) - From(arch, k)
             /\ PieceAt(arch, k).count > 0
  <2>1. k \in DOMAIN arch.pieces  BY <1>2
  <2> QED BY <1>3, <2>1, Zenon DEF PieceAt
<1>6. ASSUME NEW i \in 1..Len(arch.items), arch.items[i].kind = "block"
      PROVE  None \in {arch.items[i].first, arch.items[i].early}
                \/ arch.items[i].early >= arch.items[i].pre
  <2>1. i \in DOMAIN arch.items  BY <1>2
  <2> QED BY <1>3, <1>6, <2>1, Zenon
<1>7. Recognizable(PieceAt(arch, 1), Legacy)  BY <1>3, Zenon DEF PieceAt
<1> QED BY <1>3, <1>4, <1>5, <1>6, <1>7, Zenon

-----------------------------------------------------------------------------
(* Such an archive on the walk                                               *)

(* In a whole archive that is not odd the walk takes nothing but pieces for  *)
(* pieces, and their streams inflate.                                        *)
LEMMA OrdinaryTakes ==
    ASSUME MapTypes, WalkInv, Ordinary, phase = "walk", ~Doomed(arch, mds), Candidates(arch) = {},
           NEW i \in InlineAt
    PROVE  /\ arch.items[i].kind = "inline"
           /\ \E j \in Zlib(cur + 1 + Item(i).first) : Item(j).good
<1> DEFINE n == Len(mds)
<1>1. arch \in Archives /\ cur \in Nat /\ plen \in Nat /\ Len(arch.pieces) \in Nat
  BY PieceTypes DEF MapTypes
<1>2. /\ i \in 1..Len(arch.items) /\ cur = arch.items[i].at /\ i \in At(cur)
      /\ arch.items[i].first # None /\ arch.items[i].kind # "other"
  BY <1>1, ItemTypes DEF InlineAt, At, Items, Item
<1>3. /\ arch.pieces # << >> /\ 0 < Len(arch.pieces)
      /\ arch.pieces[1] > 1 => Geometry(arch) = Legacy
      /\ arch.items[i].kind = "block" =>
            None \in {arch.items[i].first, arch.items[i].early}
               \/ arch.items[i].early >= arch.items[i].pre
  BY <1>1, <1>2, LegacyFacts
<1>4. arch.items[i].kind # "block"
  <2> SUFFICES ASSUME arch.items[i].kind = "block" PROVE FALSE  OBVIOUS
  <2>1. arch.items[i].pre = Geometry(arch)  BY <1>1, <1>2, KindFacts
  <2>2. plen = arch.items[i].pre
    <3>1. CASE Lost(arch, mds, cur, plen, locked)  BY <2>1, <3>1 DEF Lost
    <3>2. CASE ~Lost(arch, mds, cur, plen, locked) /\ n # 0
      <4>1. plen = Geometry(arch)  BY <3>2, WalkFacts
      <4> QED BY <2>1, <4>1
    <3>3. CASE ~Lost(arch, mds, cur, plen, locked) /\ n = 0
      <4>0. plen = Legacy  BY <3>3, WalkFacts
      <4>1. PICK j \in 1..Len(arch.items) :
               cur = arch.items[j].at /\ (arch.items[j].kind = "block" => j < arch.pieces[n + 1])
        BY <1>3, <3>3, Standing
      <4>2. j = i  BY <1>1, <1>2, <4>1, OneItem
      <4>3. i < arch.pieces[1] /\ arch.pieces[1] \in 1..Len(arch.items) /\ Len(arch.items) \in Nat
        BY <1>1, <1>3, <3>3, <4>1, <4>2, PieceTypes, ItemTypes
      <4>4. arch.pieces[1] > 1  BY <1>2, <4>3
      <4> QED BY <1>3, <2>1, <4>0, <4>4
    <3> QED BY <3>1, <3>2, <3>3
  <2> QED BY <1>1, <1>2, <1>3, <2>2, BlockNotInline
<1>5. arch.items[i].kind = "inline"  BY <1>1, <1>2, <1>3, <1>4, KindFacts
<1>6. arch.items[i].first = arch.items[i].pre - 1
  <2>1. PICK l \in 1..Len(arch.pieces) : i = arch.pieces[l]  BY <1>1, <1>2, <1>5, PieceTypes
  <2> QED BY <1>1, <1>2, <2>1, PieceTypes
<1>7. cur + 1 + Item(i).first = arch.items[i].at + arch.items[i].pre
  <2>1. PICK x \in Nat, y \in Nat : x = arch.items[i].at /\ y = arch.items[i].pre
    BY <1>1, <1>2, StreamInside
  <2>2. x + 1 + (y - 1) = x + y  OBVIOUS
  <2> QED BY <1>2, <1>6, <2>1, <2>2 DEF Item
<1>8. i \in Zlib(cur + 1 + Item(i).first)
  <2>1. Zlib(arch.items[i].at + arch.items[i].pre) = {i}  BY <1>1, <1>2, AtIs
  <2> QED BY <1>7, <2>1
<1>9. Item(i).good  BY <1>1, <1>2, OrdinaryFacts DEF Item
<1> QED BY <1>5, <1>8, <1>9

LEMMA InlineStaysOrdinary ==
    ASSUME MapTypes, WalkInv, Ordinary, WalkInline, ~Doomed(arch, mds), Candidates(arch) = {}
    PROVE  phase' # "error" /\ ~Doomed(arch', mds') /\ arch' = arch
<1>1. phase = "walk"  BY DEF WalkInline
<1>2. PICK i \in InlineAt :
         LET stream == {j \in Zlib(cur + 1 + Item(i).first) : Item(j).good} IN
          \/ stream = {} /\ Refuse("zlib")
          \/ \E j \in stream :
                /\ cpb' = IF ~locked /\ Item(i).cpb # None THEN Item(i).cpb ELSE cpb
                /\ plen' = IF locked THEN plen ELSE cpb' \div 8
                /\ locked' = TRUE
                /\ mds' = Append(mds, cur)
                /\ cur' = Item(j).at + Size(j)
                /\ phase' = IF cur' >= FileEnd THEN "walk" ELSE "skip"
                /\ UNCHANGED <<arch, numpy, recs, index, error>>
  BY Zenon DEF WalkInline
<1>3. /\ arch.items[i].kind = "inline"
      /\ \E j \in Zlib(cur + 1 + Item(i).first) : Item(j).good
  BY <1>1, OrdinaryTakes
<1>4. mds' = Append(mds, cur) /\ arch' = arch /\ phase' \in {"walk", "skip"}
  BY <1>2, <1>3
<1>5. mds \in Seq(Nat) /\ cur \in Nat /\ arch \in Archives  BY DEF MapTypes
<1>6. ~NoPieceAt(arch, cur)
  <2>1. i \in DOMAIN arch.items /\ arch.items[i].at = cur  BY DEF InlineAt, At, Items, Item
  <2> QED BY <1>3, <2>1 DEF NoPieceAt
<1>7. ~Doomed(arch', mds')
  <2>1. /\ Len(mds') = Len(mds) + 1 /\ Len(mds) \in Nat /\ mds'[Len(mds) + 1] = cur
        /\ \A k \in 1..Len(mds) : mds'[k] = mds[k]
    BY <1>4, <1>5, AppendIs
  <2>2. ASSUME NEW k \in 1..Len(mds') PROVE ~NoPieceAt(arch, mds'[k])
    <3>1. k \in 1..Len(mds) \/ k = Len(mds) + 1  BY <2>1
    <3>2. CASE k \in 1..Len(mds)  BY <2>1, <3>2 DEF Doomed
    <3>3. CASE k = Len(mds) + 1  BY <1>6, <2>1, <3>3
    <3> QED BY <3>1, <3>2, <3>3
  <2> QED BY <1>4, <2>2 DEF Doomed
<1> QED BY <1>4, <1>7

LEMMA EndsStayOrdinary ==
    ASSUME MapTypes, WalkInv, Ordinary, Ends, ~Doomed(arch, mds), Candidates(arch) = {}
    PROVE  phase' = "decode"
<1>1. /\ phase \in {"walk", "skip"} /\ phase' \in {"decode", "error"} /\ arch' = arch /\ mds' = mds
      /\ phase' = "error" => mds = << >>
  BY EndIs
<1> SUFFICES ASSUME phase' = "error" PROVE FALSE  BY <1>1
<1>2. mds = << >> /\ Len(mds) = 0 /\ arch \in Archives  BY <1>1 DEF MapTypes
<1>3. /\ 0 < Len(arch.pieces) /\ Recognizable(PieceAt(arch, 1), Legacy)
      /\ arch.pieces[1] > 1 => Geometry(arch) = Legacy
  BY <1>2, LegacyFacts
<1>4. \E i \in Items : arch.items[i].kind = "block" /\ ~arch.items[i].good
  <2>1. ~Lost(arch, mds, cur, plen, locked)
    <3> SUFFICES ASSUME Lost(arch, mds, cur, plen, locked) PROVE FALSE  OBVIOUS
    <3>1. PICK n \in 1..(Len(arch.pieces) - 1) : n <= Len(mds)  BY DEF Lost, Reached
    <3>2. ~(n <= 0)  BY <1>2, PieceTypes
    <3> QED BY <1>2, <3>1, <3>2
  <2> QED BY <1>2, <1>3, <2>1, StopsForCause
<1>5. Items = 1..Len(arch.items)  BY <1>2, ItemTypes DEF Items
<1>6. \A i \in 1..Len(arch.items) : arch.items[i].kind # "other" => arch.items[i].good
  BY <1>2, OrdinaryFacts
<1> QED BY <1>4, <1>5, <1>6

-----------------------------------------------------------------------------
(* Decoding.                                                                 *)

ToldFrom(a, from, n) == [k \in 1..n |-> a.told[from + k]]

LEMMA RecordType ==
    ASSUME NEW a \in Archives, NEW from \in Nat, NEW n \in Nat, from + n <= Len(a.told)
    PROVE  /\ ToldFrom(a, from, n) \in Seq([off : Nat, len : Nat])
           /\ Len(ToldFrom(a, from, n)) = n
           /\ \A k \in 1..n : from + k \in 1..Len(a.told)
<1>1. a.told \in Seq([off : Nat, len : Nat]) /\ Len(a.told) \in Nat
  BY TellsFacts DEF ToldType
<1>2. \A k \in 1..n : from + k \in 1..Len(a.told)  BY <1>1
<1>3. \A k \in 1..n : a.told[from + k] \in [off : Nat, len : Nat]  BY <1>1, <1>2, ElementOfSeq
<1> DEFINE S == [off : Nat, len : Nat]
           v(k) == a.told[from + k]
<1>4. \A k \in 1..n : v(k) \in S  BY <1>3
<1> HIDE DEF S, v
<1>5. [k \in 1..n |-> v(k)] \in Seq(S) /\ Len([k \in 1..n |-> v(k)]) = n
  BY <1>4, LenProperties
<1> USE DEF S, v
<1> QED BY <1>2, <1>5 DEF ToldFrom

(* The records of the next piece continue those of the pieces before it.     *)
LEMMA MoreTold ==
    ASSUME NEW a \in Archives, NEW r, RecsTold(a, r), NEW k \in 1..Len(a.pieces),
           Len(r) = From(a, k), NEW d,
           d = ToldFrom(a, From(a, k), From(a, k + 1) - From(a, k)),
           From(a, k + 1) - From(a, k) \in Nat
    PROVE  RecsTold(a, r \o d) /\ Len(r \o d) = From(a, k + 1)
<1>1. /\ From(a, k) \in 0..Len(a.told) /\ From(a, k + 1) \in 0..Len(a.told)
      /\ Len(a.told) \in Nat /\ Len(a.pieces) \in Nat
  <2>1. Len(a.pieces) \in Nat  BY PieceTypes
  <2>2. k \in 1..(Len(a.pieces) + 1) /\ k + 1 \in 1..(Len(a.pieces) + 1)  BY <2>1
  <2> QED BY <2>1, <2>2, TellsFacts
<1>2. PICK f \in Nat, n \in Nat :
         f = From(a, k) /\ n = From(a, k + 1) - From(a, k) /\ f + n = From(a, k + 1)
  BY <1>1
<1>3. d = ToldFrom(a, f, n) /\ f + n <= Len(a.told)  BY <1>1, <1>2
<1>4. d \in Seq([off : Nat, len : Nat]) /\ Len(d) = n  BY <1>3, RecordType
<1>5. r \in Seq([off : Nat, len : Nat]) /\ Len(r) = f /\ \A b \in 1..Len(r) : r[b] = a.told[b]
  BY <1>2 DEF RecsTold
<1>6. /\ r \o d \in Seq([off : Nat, len : Nat]) /\ Len(r \o d) = f + n
      /\ \A b \in 1..(Len(r) + Len(d)) : (r \o d)[b] = IF b <= Len(r) THEN r[b] ELSE d[b - Len(r)]
  BY <1>4, <1>5, ConcatProperties
<1>7. ASSUME NEW b \in 1..(f + n) PROVE (r \o d)[b] = a.told[b]
  <2>1. (r \o d)[b] = IF b <= f THEN r[b] ELSE d[b - f]  BY <1>4, <1>5, <1>6
  <2>2. CASE b <= f  BY <1>5, <2>1, <2>2
  <2>3. CASE ~(b <= f)
    <3>1. b - f \in 1..n /\ f + (b - f) = b  BY <2>3
    <3>2. d[b - f] = a.told[f + (b - f)]  BY <1>3, <3>1 DEF ToldFrom
    <3> QED BY <2>1, <2>3, <3>1, <3>2
  <2> QED BY <2>2, <2>3
<1> QED BY <1>2, <1>3, <1>6, <1>7 DEF RecsTold

-----------------------------------------------------------------------------
(* Pieces and maps decoded                                                   *)

LEMMA RecordsRead ==
    ASSUME arch \in Archives, numpy \in BOOLEAN, NEW f \in Nat, NEW n \in Nat, NEW plain,
           f + n <= Len(arch.told), Writes(plain, arch.told, f, n)
    PROVE  Decoded(plain) = ToldFrom(arch, f, n)
<1>1. Len(arch.told) \in Nat /\ ToldType(arch.told)  BY TellsFacts
<1>2. n \in Nat /\ Len(plain) = 3 * n  BY DEF Writes
<1>3. Decoded(plain) = [b \in 1..n |-> arch.told[f + b]]
  BY <1>1, <1>2, RecordsDecode
<1> QED BY <1>3 DEF ToldFrom

LEMMA PieceDecoded ==
    ASSUME arch \in Archives, numpy \in BOOLEAN, NEW k \in 1..Len(arch.pieces)
    PROVE  /\ From(arch, k + 1) - From(arch, k) \in Nat
           /\ Len(PieceAt(arch, k).plain) = 3 * (From(arch, k + 1) - From(arch, k))
           /\ Decoded(PieceAt(arch, k).plain)
                 = ToldFrom(arch, From(arch, k), From(arch, k + 1) - From(arch, k))
<1>1. /\ From(arch, k) \in 0..Len(arch.told) /\ From(arch, k + 1) \in 0..Len(arch.told)
      /\ Len(arch.told) \in Nat /\ Len(arch.pieces) \in Nat /\ ToldType(arch.told)
  <2>1. Len(arch.pieces) \in Nat  BY PieceTypes
  <2>2. k \in 1..(Len(arch.pieces) + 1) /\ k + 1 \in 1..(Len(arch.pieces) + 1)  BY <2>1
  <2> QED BY <2>1, <2>2, TellsFacts
<1>2. PICK plain : plain = PieceAt(arch, k).plain  OBVIOUS
<1>3. Writes(plain, arch.told, From(arch, k), From(arch, k + 1) - From(arch, k))
  BY <1>2, PieceWrites, Zenon DEF PieceAt
<1>4. PICK f \in Nat, n \in Int : f = From(arch, k) /\ n = From(arch, k + 1) - From(arch, k)
                                  /\ f + n = From(arch, k + 1)
  BY <1>1
<1>5. Writes(plain, arch.told, f, n)  BY <1>3, <1>4, Zenon
<1>6. n \in Nat /\ Len(plain) = 3 * n  BY <1>5 DEF Writes
<1>7. f + n <= Len(arch.told)  BY <1>1, <1>4
<1>8. Decoded(plain) = ToldFrom(arch, f, n)  BY <1>5, <1>6, <1>7, RecordsRead, Zenon
<1> QED BY <1>2, <1>4, <1>6, <1>8, Zenon

LEMMA MapDecoded ==
    ASSUME arch \in Archives, numpy \in BOOLEAN, NEW i \in 1..Len(arch.items),
           arch.items[i].kind = "map", Len(arch.items[i].plain) % 3 = 0
    PROVE  Decoded(arch.items[i].plain) = ToldFrom(arch, 0, Len(arch.told))
<1>1. PICK plain : plain = arch.items[i].plain  OBVIOUS
<1>2. Len(arch.told) \in Nat /\ ToldType(arch.told)  BY TellsFacts
<1>3. PICK n \in Nat : n = Len(arch.told)  BY <1>2
<1>4. PICK f \in Nat : f = 0  OBVIOUS
<1>5. Writes(plain, arch.told, f, n)  BY <1>1, <1>3, <1>4, MapWrites, Zenon
<1>6. f + n <= Len(arch.told)  BY <1>3, <1>4
<1>7. Decoded(plain) = ToldFrom(arch, f, n)  BY <1>5, <1>6, RecordsRead, Zenon
<1> QED BY <1>1, <1>3, <1>4, <1>7, Zenon

LEMMA InlineKeepsDecode ==
    ASSUME MapTypes, DecodeInv, DecodeInline, phase' # "error"
    PROVE  DecodeInv' /\ phase' = "decode" /\ arch' = arch /\ mds' = mds
<1>1. PICK i \in At(mds[cur]) :
         LET m == Item(i) IN
          IF m.kind # "inline" \/ m.first \notin 8..64 \/ m.count = None THEN Refuse("no count")
          ELSE IF Len(m.plain) # 3 * m.count \/ ~CanDecode(m.count) THEN Refuse("records")
          ELSE /\ recs' = recs \o Decoded(m.plain)
               /\ cur' = cur + 1
               /\ UNCHANGED <<arch, numpy, phase, mds, cpb, plen, locked, index, error>>
  BY Zenon DEF DecodeInline
<1>2. ~Refuse("no count") /\ ~Refuse("records")  BY Zenon DEF Refuse
<1>3. /\ arch.items[i].kind = "inline" /\ recs' = recs \o Decoded(arch.items[i].plain)
      /\ cur' = cur + 1 /\ arch' = arch /\ phase' = phase /\ mds' = mds /\ plen' = plen
  BY <1>1, <1>2, Zenon DEF Item
<1>4. /\ phase = "decode" /\ cur <= Len(mds) /\ arch \in Archives /\ numpy \in BOOLEAN
      /\ mds \in Seq(Nat) /\ Len(mds) \in Nat /\ cur \in Nat
  BY LenProperties DEF DecodeInline, MapTypes
<1>5. /\ cur \in 1..(Len(mds) + 1)
      /\ \A k \in 1..(cur - 1) : ~NoPieceAt(arch, mds[k])
      /\ ~Doomed(arch, mds) =>
              /\ plen = Geometry(arch)
              /\ \E n \in 1..Len(arch.pieces) : Reached(arch, mds, n) /\ Partly(arch, recs, cur, n)
  BY <1>4, Zenon DEF DecodeInv
<1>6. /\ cur' \in 1..(Len(mds') + 1) /\ cur \in 1..Len(mds)
      /\ \A k \in 1..(cur' - 1) : k \in 1..(cur - 1) \/ k = cur
  BY <1>3, <1>4, <1>5
<1>7. i \in 1..Len(arch.items) /\ i \in DOMAIN arch.items /\ arch.items[i].at = mds[cur]
  BY <1>4, ItemTypes DEF At, Items, Item
<1>8. ~NoPieceAt(arch, mds[cur])  BY <1>3, <1>7 DEF NoPieceAt
<1>9. \A k \in 1..(cur' - 1) : ~NoPieceAt(arch', mds'[k])  BY <1>3, <1>5, <1>6, <1>8
<1>10. ASSUME NEW n \in 1..Len(arch.pieces), Reached(arch, mds, n), Partly(arch, recs, cur, n)
       PROVE  Partly(arch, recs', cur', n)
  <2>1. PICK l \in 1..Len(arch.pieces) : i = arch.pieces[l]  BY <1>3, <1>4, <1>7, PieceTypes
  <2>2. PICK d : d = ToldFrom(arch, From(arch, l), From(arch, l + 1) - From(arch, l))
    OBVIOUS
  <2>3. From(arch, l + 1) - From(arch, l) \in Nat /\ recs' = recs \o d
    <3>1. /\ From(arch, l + 1) - From(arch, l) \in Nat /\ Decoded(PieceAt(arch, l).plain) = d
      BY <1>4, <2>2, PieceDecoded
    <3> QED BY <1>3, <2>1, <3>1, Zenon DEF PieceAt
  <2>4. Len(arch.pieces) \in Nat /\ n \in Nat  BY <1>4, PieceTypes
  <2>5. CASE cur <= n
    <3>1. cur \in 1..Len(arch.pieces) /\ cur \in 1..n  BY <1>6, <2>4, <2>5
    <3>2. l = cur
      <4>1. mds[cur] = arch.items[arch.pieces[cur]].at  BY <1>10, <3>1 DEF Reached, PieceAt
      <4>2. arch.pieces[cur] \in 1..Len(arch.items)  BY <1>4, <3>1, PieceTypes
      <4>3. i = arch.pieces[cur]  BY <1>4, <1>7, <4>1, <4>2, OneItem
      <4>4. arch.pieces[l] <= arch.pieces[cur] /\ arch.pieces[cur] <= arch.pieces[l]
        BY <2>1, <4>2, <4>3
      <4>5. PICK x \in Nat : x = arch.pieces[l] /\ x = arch.pieces[cur]  BY <2>1, <4>2, <4>3
      <4>6. l < cur => x < x  BY <1>4, <2>1, <3>1, <4>5, PieceTypes, Zenon
      <4>7. cur < l => x < x  BY <1>4, <2>1, <3>1, <4>5, PieceTypes, Zenon
      <4> QED BY <1>4, <2>4, <4>6, <4>7
    <3>3. RecsTold(arch, recs) /\ Len(recs) = From(arch, cur)
      <4>1. cur <= n + 1  BY <1>4, <2>4, <2>5
      <4> QED BY <1>10, <4>1 DEF Partly
    <3>4. RecsTold(arch, recs \o d) /\ Len(recs \o d) = From(arch, cur + 1)
      BY <1>4, <2>2, <2>3, <3>1, <3>2, <3>3, MoreTold
    <3>5. ~(cur + 1 > n + 1)  BY <1>4, <2>4, <2>5
    <3> QED BY <1>3, <2>3, <3>4, <3>5, Zenon DEF Partly
  <2>6. CASE ~(cur <= n)
    <3>1. /\ recs \in Seq([off : Nat, len : Nat]) /\ From(arch, n + 1) <= Len(recs)
          /\ \A b \in 1..From(arch, n + 1) : recs[b] = arch.told[b]
          /\ Len(recs) \in Nat /\ From(arch, n + 1) \in Nat
      <4>0. n + 1 \in 1..(Len(arch.pieces) + 1)  BY <2>4
      <4>1. From(arch, n + 1) \in Nat
        <5>1. From(arch, n + 1) \in 0..Len(arch.told)  BY <1>4, <4>0, TellsFacts
        <5> QED BY <5>1
      <4>2. CASE cur = n + 1
        <5>1. RecsTold(arch, recs) /\ Len(recs) = From(arch, n + 1)
          BY <1>10, <2>4, <4>2 DEF Partly
        <5> QED BY <4>1, <5>1 DEF RecsTold
      <4>3. CASE cur # n + 1
        <5>1. cur > n + 1  BY <1>4, <2>4, <2>6, <4>3
        <5>2. recs \in Seq([off : Nat, len : Nat])  BY <1>10, <5>1 DEF Partly
        <5> QED BY <1>10, <4>1, <5>1, <5>2, LenProperties DEF Partly
      <4> QED BY <4>2, <4>3
    <3>2. d \in Seq([off : Nat, len : Nat])
      <4>1. l \in 1..(Len(arch.pieces) + 1) /\ l + 1 \in 1..(Len(arch.pieces) + 1)  BY <2>4
      <4>2. /\ From(arch, l) \in 0..Len(arch.told) /\ From(arch, l + 1) \in 0..Len(arch.told)
            /\ Len(arch.told) \in Nat
        BY <1>4, <4>1, TellsFacts
      <4>3. PICK f \in Nat, g \in Nat :
               /\ f = From(arch, l) /\ g = From(arch, l + 1) - From(arch, l)
               /\ f + g = From(arch, l + 1)
        BY <2>3, <4>2
      <4>4. d = ToldFrom(arch, f, g) /\ f + g <= Len(arch.told)  BY <2>2, <4>2, <4>3
      <4> QED BY <1>4, <4>4, RecordType
    <3>3. /\ recs \o d \in Seq([off : Nat, len : Nat])
          /\ Len(recs \o d) = Len(recs) + Len(d) /\ Len(d) \in Nat
          /\ \A b \in 1..(Len(recs) + Len(d)) :
                (recs \o d)[b] = IF b <= Len(recs) THEN recs[b] ELSE d[b - Len(recs)]
      BY <3>1, <3>2, ConcatProperties, LenProperties
    <3>4. From(arch, n + 1) <= Len(recs \o d)  BY <3>1, <3>3
    <3>5. ASSUME NEW b \in 1..From(arch, n + 1) PROVE (recs \o d)[b] = arch.told[b]
      <4>1. b \in 1..(Len(recs) + Len(d)) /\ b <= Len(recs)  BY <3>1, <3>3
      <4> QED BY <3>1, <3>3, <4>1
    <3>6. cur + 1 > n + 1 /\ ~(cur + 1 <= n + 1)  BY <1>4, <2>4, <2>6
    <3> QED BY <1>3, <2>3, <3>3, <3>4, <3>5, <3>6, Zenon DEF Partly
  <2> QED BY <2>5, <2>6
<1>11. ~Doomed(arch', mds') =>
           /\ plen' = Geometry(arch')
           /\ \E n \in 1..Len(arch'.pieces) : Reached(arch', mds', n) /\ Partly(arch', recs', cur', n)
  BY <1>3, <1>5, <1>10, Zenon
<1>12. DecodeInv'  BY <1>6, <1>9, <1>11, Zenon DEF DecodeInv
<1> QED BY <1>3, <1>4, <1>12, Zenon

(* Of a whole archive every piece can be decoded.                            *)
LEMMA InlineDecodesOrdinary ==
    ASSUME MapTypes, DecodeInv, DecodeInline, Ordinary, ~Doomed(arch, mds), Candidates(arch) = {}
    PROVE  phase' # "error"
<1> SUFFICES ASSUME phase' = "error" PROVE FALSE  OBVIOUS
<1>1. PICK i \in At(mds[cur]) :
         LET m == Item(i) IN
          IF m.kind # "inline" \/ m.first \notin 8..64 \/ m.count = None THEN Refuse("no count")
          ELSE IF Len(m.plain) # 3 * m.count \/ ~CanDecode(m.count) THEN Refuse("records")
          ELSE /\ recs' = recs \o Decoded(m.plain)
               /\ cur' = cur + 1
               /\ UNCHANGED <<arch, numpy, phase, mds, cpb, plen, locked, index, error>>
  BY Zenon DEF DecodeInline
<1>2. phase = "decode" /\ cur <= Len(mds)  BY DEF DecodeInline
<1>3. PICK m : m = arch.items[i]  OBVIOUS
<1>4. \/ m.kind # "inline" \/ m.first \notin 8..64 \/ m.count = None
      \/ Len(m.plain) # 3 * m.count \/ ~CanDecode(m.count)
  BY <1>1, <1>2, <1>3 DEF Item
<1>5. /\ arch \in Archives /\ numpy \in BOOLEAN /\ mds \in Seq(Nat) /\ Len(mds) \in Nat /\ cur \in Nat
  BY LenProperties DEF MapTypes
<1>6. cur \in 1..Len(mds)
  <2>1. cur \in 1..(Len(mds) + 1)  BY <1>2, Zenon DEF DecodeInv
  <2> QED BY <1>2, <1>5, <2>1
<1>7. i \in 1..Len(arch.items) /\ arch.items[i].at = mds[cur]
  BY <1>5, ItemTypes DEF At, Items, Item
<1>8. arch.items[i].kind = "inline"
  <2>1. ~NoPieceAt(arch, mds[cur])  BY <1>6 DEF Doomed
  <2>2. PICK j \in DOMAIN arch.items : arch.items[j].at = mds[cur] /\ arch.items[j].kind = "inline"
    BY <2>1 DEF NoPieceAt
  <2>3. j \in 1..Len(arch.items)  BY <1>5, ItemTypes
  <2>4. j = i  BY <1>5, <1>7, <2>2, <2>3, OneItem
  <2> QED BY <2>2, <2>4
<1>9. PICK l \in 1..Len(arch.pieces) : i = arch.pieces[l]  BY <1>5, <1>7, <1>8, PieceTypes
<1>10. /\ m.first \in 8..64 /\ m.count = From(arch, l + 1) - From(arch, l) /\ m.count > 0
  BY <1>3, <1>5, <1>9, LegacyFacts DEF PieceAt
<1>11. /\ From(arch, l + 1) - From(arch, l) \in Nat
       /\ Len(m.plain) = 3 * (From(arch, l + 1) - From(arch, l))
  BY <1>3, <1>5, <1>9, PieceDecoded, Zenon DEF PieceAt
<1>12. m.count \in Nat /\ m.count # 0 /\ m.count # None
  <2>1. m.count \in Nat /\ m.count # 0  BY <1>10, <1>11
  <2> QED BY <2>1, ConstTypes
<1>13. CanDecode(m.count)  BY <1>12 DEF CanDecode
<1> QED BY <1>3, <1>4, <1>8, <1>10, <1>11, <1>12, <1>13

LEMMA DecodeEndWrites ==
    ASSUME MapTypes, DecodeInv, DecodeEnd
    PROVE  /\ WriteInv' /\ phase' = "write" /\ arch' = arch
<1>1. /\ phase = "decode" /\ cur > Len(mds) /\ phase' = "write" /\ arch' = arch /\ mds' = mds
      /\ plen' = plen /\ recs' = recs
  BY DEF DecodeEnd, GoOn
<1>2. /\ arch \in Archives /\ mds \in Seq(Nat) /\ Len(mds) \in Nat /\ cur \in Nat
  BY LenProperties DEF MapTypes
<1>3. /\ cur \in 1..(Len(mds) + 1)
      /\ \A k \in 1..(cur - 1) : ~NoPieceAt(arch, mds[k])
      /\ ~Doomed(arch, mds) =>
              /\ plen = Geometry(arch)
              /\ \E n \in 1..Len(arch.pieces) : Reached(arch, mds, n) /\ Partly(arch, recs, cur, n)
  BY <1>1, Zenon DEF DecodeInv
<1>4. cur = Len(mds) + 1 /\ \A k \in 1..Len(mds) : k \in 1..(cur - 1)  BY <1>1, <1>2, <1>3
<1>5. ~Doomed(arch, mds)  BY <1>3, <1>4 DEF Doomed
<1>6. /\ plen = Geometry(arch)
      /\ \E n \in 1..Len(arch.pieces) :
            Reached(arch, mds, n) /\ Partly(arch, recs, Len(mds) + 1, n)
  BY <1>3, <1>4, <1>5
<1> QED BY <1>1, <1>6, Zenon DEF WriteInv

-----------------------------------------------------------------------------
(* The locator                                                               *)

(* The locator chosen is one of the foremost.                                *)
LEMMA ChosenIsForemost ==
    ASSUME arch \in Archives, Candidates(arch) # {}
    PROVE  /\ Chosen \in Candidates(arch) /\ Foremost(arch, Chosen)
           /\ Chosen.V \in Nat /\ Chosen.S \in Nat
<1> DEFINE C == Candidates(arch)
           Vs == {c.V : c \in C}
<1>1. \A c \in C : c.at \in Nat /\ c.V \in Nat /\ c.S \in Nat
  BY ArchivesAssumption DEF ArchivesAssumption, Candidates
<1> HIDE DEF C
<1>2. PICK v \in Vs : \A w \in Vs : v <= w
  <2>1. Vs \subseteq Nat /\ Vs # {}  BY <1>1 DEF C
  <2> HIDE DEF Vs
  <2> QED BY <2>1, LeastNat
<1> DEFINE As == {c.at : c \in {d \in C : d.V = v}}
<1>3. PICK p \in As : \A q \in As : p <= q
  <2>1. As \subseteq Nat /\ As # {}  BY <1>1, <1>2
  <2> HIDE DEF As
  <2> QED BY <2>1, LeastNat
<1>4. PICK c \in C : c.V = v /\ c.at = p  BY <1>3
<1>5. ASSUME NEW d \in C PROVE c.V < d.V \/ (c.V = d.V /\ c.at <= d.at)
  <2>1. v <= d.V /\ v \in Nat /\ d.V \in Nat  BY <1>1, <1>2
  <2>2. CASE d.V = v
    <3>1. d.at \in As  BY <2>2
    <3>2. p <= d.at  BY <1>3, <3>1
    <3> QED BY <1>4, <2>2, <3>2
  <2>3. CASE d.V # v  BY <1>4, <2>1, <2>3
  <2> QED BY <2>2, <2>3
<1>6. c \in Candidates(arch) /\ Foremost(arch, c)  BY <1>5, Zenon DEF Foremost, C
<1>7. Chosen \in Candidates(arch) /\ Foremost(arch, Chosen)  BY <1>6, Zenon DEF Chosen
<1> QED BY <1>1, <1>7 DEF C

(* Of a whole archive with a locator the map is found and can be read.       *)
LEMMA OrdinaryMap ==
    ASSUME arch \in Archives, Ordinary, Candidates(arch) # {}
    PROVE  \E i \in 1..Len(arch.items) :
              /\ At(DataStart + Chosen.V) = {i} /\ arch.items[i].kind = "map"
              /\ arch.items[i].good /\ ~(Chosen.S - arch.items[i].pre < arch.items[i].z)
              /\ Len(arch.items[i].plain) % 3 = 0 /\ CanDecode(Len(arch.items[i].plain) \div 3)
<1>1. Usual(arch) /\ \A i \in 1..Len(arch.items) : arch.items[i].kind # "other" => arch.items[i].good
  BY OrdinaryFacts
<1>2. Chosen \in Candidates(arch) /\ Foremost(arch, Chosen)  BY ChosenIsForemost
<1>3. PICK i \in DOMAIN arch.items :
                 /\ arch.items[i].kind = "map" /\ arch.items[i].at = DataStart + Chosen.V
                 /\ arch.items[i].z <= Chosen.S - arch.items[i].pre
                 /\ arch.items[i].plain # << >> /\ Len(arch.items[i].plain) % 3 = 0
  BY <1>1, <1>2, Zenon DEF Usual
<1>4. i \in 1..Len(arch.items)  BY ItemTypes
<1>5. At(DataStart + Chosen.V) = {i}  BY <1>3, <1>4, AtIs, Zenon
<1>6. Len(arch.told) \in Nat /\ Writes(arch.items[i].plain, arch.told, 0, Len(arch.told))
  BY <1>3, <1>4, MapWrites, TellsFacts
<1>7. /\ arch.items[i].plain \in Seq(0..(Word - 1))
      /\ Len(arch.items[i].plain) = 3 * Len(arch.told)
  BY <1>6 DEF Writes
<1>8. Len(arch.items[i].plain) # 0  BY <1>3, <1>7, EmptySeq
<1>9. CanDecode(Len(arch.items[i].plain) \div 3)
  <2>1. PICK n \in Nat : n = Len(arch.told)  BY <1>6
  <2>2. Len(arch.items[i].plain) = 3 * n /\ n # 0  BY <1>7, <1>8, <2>1
  <2>3. (3 * n) \div 3 = n  OBVIOUS
  <2>4. Len(arch.items[i].plain) \div 3 # 0  BY <2>2, <2>3
  <2> QED BY <2>4 DEF CanDecode
<1>10. arch.items[i].good  BY <1>1, <1>3, <1>4
<1>11. ~(Chosen.S - arch.items[i].pre < arch.items[i].z)
  <2>1. PICK s \in Nat, x \in Nat, z \in Nat :
           s = Chosen.S /\ x = arch.items[i].pre /\ z = arch.items[i].z
    BY <1>4, ChosenIsForemost, StreamInside
  <2>2. z <= s - x  BY <1>3, <2>1
  <2> QED BY <2>1, <2>2
<1> QED BY <1>3, <1>4, <1>5, <1>9, <1>10, <1>11

-----------------------------------------------------------------------------
(* The phases, and what each step leaves alone                               *)

LEMMA HeaderStep ==
    ASSUME ReadHeader
    PROVE  /\ phase = "header" /\ phase' \in {"trailer", "error"} /\ arch' = arch /\ numpy' = numpy
           /\ UNCHANGED <<cur, mds, cpb, plen, locked, recs, index>>
           /\ phase' = "error" => HeaderError # None
  BY DEF ReadHeader, Refuse, GoOn

LEMMA TrailerStep ==
    ASSUME ReadTrailer
    PROVE  /\ phase = "trailer" /\ phase' \in {"locate", "error"} /\ arch' = arch /\ numpy' = numpy
           /\ UNCHANGED <<cur, mds, cpb, plen, locked, recs, index>>
           /\ phase' = "error" => TrailerError # None
  BY DEF ReadTrailer, Refuse, GoOn

LEMMA LocateStep ==
    ASSUME Locate
    PROVE  /\ phase = "locate" /\ phase' \in {"walk", "map", "error"} /\ arch' = arch
           /\ UNCHANGED <<numpy, mds, cpb, plen, locked, recs, index>>
           /\ phase' = "walk" => cur' = cur /\ Candidates(arch) = {}
           /\ phase' = "map" => /\ Candidates(arch) # {} /\ cur' \in At(DataStart + Chosen.V)
                                /\ Item(cur').kind = "map"
           /\ phase' = "error" => /\ cur' = cur /\ Candidates(arch) # {}
                                  /\ \/ At(DataStart + Chosen.V) = {}
                                     \/ \E i \in At(DataStart + Chosen.V) : Item(i).kind # "map"
<1>1. phase = "locate"  BY DEF Locate
<1>2. CASE Candidates(arch) = {} /\ GoOn("walk")  BY <1>1, <1>2 DEF GoOn
<1>3. CASE Candidates(arch) # {} /\ At(DataStart + Chosen.V) = {} /\ Refuse("zlib offset")
  BY <1>1, <1>3 DEF Refuse
<1>4. ASSUME Candidates(arch) # {}, NEW i \in At(DataStart + Chosen.V),
             IF Item(i).kind = "map"
             THEN /\ cur' = i
                  /\ phase' = "map"
                  /\ UNCHANGED <<arch, numpy, mds, cpb, plen, locked, recs, index, error>>
             ELSE Refuse("zlib offset")
      PROVE  /\ phase' \in {"walk", "map", "error"} /\ arch' = arch
             /\ UNCHANGED <<numpy, mds, cpb, plen, locked, recs, index>>
             /\ phase' = "walk" => cur' = cur /\ Candidates(arch) = {}
             /\ phase' = "map" => /\ Candidates(arch) # {} /\ cur' \in At(DataStart + Chosen.V)
                                  /\ Item(cur').kind = "map"
             /\ phase' = "error" => /\ cur' = cur /\ Candidates(arch) # {}
                                    /\ \/ At(DataStart + Chosen.V) = {}
                                       \/ \E k \in At(DataStart + Chosen.V) : Item(k).kind # "map"
  <2>1. CASE Item(i).kind = "map"  BY <1>4, <2>1
  <2>2. CASE Item(i).kind # "map"
    <3>1. Refuse("zlib offset")  BY <1>4, <2>2
    <3>2. phase' = "error" /\ UNCHANGED <<arch, numpy, cur, mds, cpb, plen, locked, recs, index>>
      BY <3>1 DEF Refuse
    <3> QED BY <1>4, <2>2, <3>2
  <2> QED BY <2>1, <2>2
<1>5. \/ Candidates(arch) = {} /\ GoOn("walk")
      \/ /\ Candidates(arch) # {}
         /\ \/ At(DataStart + Chosen.V) = {} /\ Refuse("zlib offset")
            \/ \E i \in At(DataStart + Chosen.V) :
                  IF Item(i).kind = "map"
                  THEN /\ cur' = i
                       /\ phase' = "map"
                       /\ UNCHANGED <<arch, numpy, mds, cpb, plen, locked, recs, index, error>>
                  ELSE Refuse("zlib offset")
  BY Zenon DEF Locate
<1> QED BY <1>1, <1>2, <1>3, <1>4, <1>5, Zenon

LEMMA MapStep ==
    ASSUME DecodeChunkMap
    PROVE  /\ phase = "map" /\ phase' \in {"write", "error"} /\ arch' = arch
           /\ UNCHANGED <<numpy, mds, locked, index>>
           /\ phase' = "write" => /\ recs' = Decoded(Item(cur).plain) /\ plen' = Modern
                                  /\ cpb' = 8 * Modern /\ cur' = ZlibAt(cur)
                                  /\ Len(Item(cur).plain) % 3 = 0
           /\ phase' = "error" =>
                 /\ UNCHANGED <<cur, cpb, plen, recs>>
                 /\ \/ ~Item(cur).good \/ Chosen.S - Item(cur).pre < Item(cur).z
                    \/ Len(Item(cur).plain) % 3 # 0 \/ ~CanDecode(Len(Item(cur).plain) \div 3)
<1> DEFINE m == Item(cur)
           Bad == ~m.good \/ Chosen.S - m.pre < m.z
           Odd == Len(m.plain) % 3 # 0 \/ ~CanDecode(Len(m.plain) \div 3)
<1>1. phase = "map"  BY DEF DecodeChunkMap
<1>2. IF Bad THEN Refuse("zlib")
      ELSE IF Odd THEN Refuse("records")
      ELSE /\ recs' = Decoded(m.plain)
           /\ plen' = Modern
           /\ cpb' = 8 * Modern
           /\ cur' = ZlibAt(cur)
           /\ phase' = "write"
           /\ UNCHANGED <<arch, numpy, mds, locked, index, error>>
  BY Zenon DEF DecodeChunkMap
<1>3. CASE Bad \/ Odd
  <2>1. Refuse("zlib") \/ Refuse("records")  BY <1>2, <1>3, Zenon
  <2>2. phase' = "error" /\ UNCHANGED <<arch, numpy, cur, mds, cpb, plen, locked, recs, index>>
    BY <2>1, Zenon DEF Refuse
  <2> QED BY <1>1, <1>3, <2>2
<1>4. CASE ~(Bad \/ Odd)
  <2>1. /\ recs' = Decoded(m.plain) /\ plen' = Modern /\ cpb' = 8 * Modern
        /\ cur' = ZlibAt(cur) /\ phase' = "write"
        /\ UNCHANGED <<arch, numpy, mds, locked, index, error>>
    BY <1>2, <1>4, Zenon
  <2>2. Len(m.plain) % 3 = 0  BY <1>4, Zenon
  <2> QED BY <1>1, <2>1, <2>2
<1> QED BY <1>3, <1>4

LEMMA InlineStep ==
    ASSUME MapTypes, WalkInline
    PROVE  /\ phase = "walk" /\ phase' \in {"walk", "skip", "error"} /\ arch' = arch
           /\ UNCHANGED <<numpy, recs, index>>
           /\ cur' \in Nat /\ cpb' \in Nat /\ plen' \in Nat /\ locked' \in BOOLEAN /\ mds' \in Seq(Nat)
           /\ phase' = "error" => UNCHANGED <<cur, mds, cpb, plen, locked>>
<1>1. phase = "walk"  BY DEF WalkInline
<1>2. /\ arch \in Archives /\ cur \in Nat /\ cpb \in Nat /\ plen \in Nat /\ locked \in BOOLEAN
      /\ mds \in Seq(Nat)
  BY DEF MapTypes
<1>3. PICK i \in InlineAt :
         LET stream == {j \in Zlib(cur + 1 + Item(i).first) : Item(j).good} IN
          \/ stream = {} /\ Refuse("zlib")
          \/ \E j \in stream :
                /\ cpb' = IF ~locked /\ Item(i).cpb # None THEN Item(i).cpb ELSE cpb
                /\ plen' = IF locked THEN plen ELSE cpb' \div 8
                /\ locked' = TRUE
                /\ mds' = Append(mds, cur)
                /\ cur' = Item(j).at + Size(j)
                /\ phase' = IF cur' >= FileEnd THEN "walk" ELSE "skip"
                /\ UNCHANGED <<arch, numpy, recs, index, error>>
  BY Zenon DEF WalkInline
<1>4. CASE Refuse("zlib")  BY <1>1, <1>2, <1>4 DEF Refuse
<1>5. CASE ~Refuse("zlib")
  <2>1. PICK j \in Zlib(cur + 1 + Item(i).first) :
                /\ cpb' = IF ~locked /\ Item(i).cpb # None THEN Item(i).cpb ELSE cpb
                /\ plen' = IF locked THEN plen ELSE cpb' \div 8
                /\ locked' = TRUE
                /\ mds' = Append(mds, cur)
                /\ cur' = Item(j).at + Size(j)
                /\ phase' = IF cur' >= FileEnd THEN "walk" ELSE "skip"
                /\ UNCHANGED <<arch, numpy, recs, index, error>>
    BY <1>3, <1>5
  <2>2. i \in 1..Len(arch.items) /\ j \in 1..Len(arch.items) /\ arch.items[i].kind # "other"
    BY <1>2, ItemTypes DEF InlineAt, At, Zlib, Items, Item
  <2>3. cur' \in Nat
    <3>1. PICK x \in Nat, y \in Nat, z \in Nat :
             x = arch.items[j].at /\ y = arch.items[j].pre /\ z = arch.items[j].z
      BY <1>2, <2>2, StreamInside
    <3>2. cur' = x + (y + z)  BY <2>1, <3>1 DEF Item, Size
    <3> QED BY <3>2
  <2>4. cpb' \in Nat
    <3>1. arch.items[i].cpb \in Nat \cup {None}  BY <1>2, <2>2, StreamFacts
    <3>2. arch.items[i].cpb # None => arch.items[i].cpb \in Nat  BY <3>1
    <3> QED BY <1>2, <2>1, <3>2 DEF Item
  <2>5. plen' \in Nat  BY <1>2, <2>1, <2>4
  <2>6. mds' \in Seq(Nat)  BY <1>2, <2>1, AppendIs
  <2>7. phase' \in {"walk", "skip"}  BY <2>1
  <2> QED BY <1>1, <2>1, <2>3, <2>4, <2>5, <2>6, <2>7
<1> QED BY <1>4, <1>5

LEMMA BlockStep ==
    ASSUME MapTypes, WalkBlock
    PROVE  \/ Ends
           \/ /\ phase = "walk" /\ phase' = "walk" /\ arch' = arch /\ cur' \in Nat
              /\ UNCHANGED <<numpy, mds, cpb, plen, locked, recs, index>>
<1>1. phase = "walk"  BY DEF WalkBlock
<1>2. CASE phase' # "walk"  BY <1>2 DEF Ends
<1>3. CASE phase' = "walk"
  <2>1. PICK i \in Zlib(cur + plen) :
             /\ cur' = ZlibAt(i) + Item(i).z
             /\ UNCHANGED <<arch, numpy, phase, mds, cpb, plen, locked, recs, index, error>>
    BY <1>3 DEF WalkBlock, WalkEnd, Refuse
  <2>2. arch \in Archives  BY DEF MapTypes
  <2>3. i \in 1..Len(arch.items)  BY <2>2, ItemTypes DEF Zlib, Items
  <2>4. PICK x \in Nat, y \in Nat, z \in Nat :
             x = arch.items[i].at /\ y = arch.items[i].pre /\ z = arch.items[i].z
    BY <2>2, <2>3, StreamInside
  <2>5. cur' = x + y + z  BY <2>1, <2>4 DEF ZlibAt, Item
  <2>6. cur' \in Nat  BY <2>5
  <2> QED BY <1>1, <1>3, <2>1, <2>6
<1> QED BY <1>2, <1>3

LEMMA FindStep ==
    ASSUME MapTypes, FindNextBlock
    PROVE  \/ Ends
           \/ /\ phase = "skip" /\ phase' = "walk" /\ arch' = arch /\ cur' \in Nat
              /\ UNCHANGED <<numpy, mds, cpb, plen, locked, recs, index>>
<1>1. phase = "skip"  BY DEF FindNextBlock
<1>2. CASE phase' # "walk"  BY <1>2 DEF Ends
<1>3. CASE phase' = "walk"
  <2>1. /\ NextBlocks # {} /\ cur' = Min(NextBlocks)
        /\ UNCHANGED <<arch, numpy, mds, cpb, plen, locked, recs, index, error>>
    BY <1>3 DEF FindNextBlock, WalkEnd, Refuse
  <2>2. arch \in Archives /\ plen \in Nat /\ cur \in Nat  BY DEF MapTypes
  <2>3. cur' \in Nat  BY <2>1, <2>2, NextBlocksMin
  <2> QED BY <1>1, <1>3, <2>1, <2>3
<1> QED BY <1>2, <1>3

LEMMA DecodeStep ==
    ASSUME MapTypes, DecodeInline
    PROVE  /\ phase = "decode" /\ phase' \in {"decode", "error"} /\ arch' = arch /\ cur' \in Nat
           /\ UNCHANGED <<numpy, mds, cpb, plen, locked, index>>
<1>1. PICK i \in At(mds[cur]) :
         LET m == Item(i) IN
          IF m.kind # "inline" \/ m.first \notin 8..64 \/ m.count = None THEN Refuse("no count")
          ELSE IF Len(m.plain) # 3 * m.count \/ ~CanDecode(m.count) THEN Refuse("records")
          ELSE /\ recs' = recs \o Decoded(m.plain)
               /\ cur' = cur + 1
               /\ UNCHANGED <<arch, numpy, phase, mds, cpb, plen, locked, index, error>>
  BY Zenon DEF DecodeInline
<1>2. phase = "decode" /\ cur \in Nat /\ cur + 1 \in Nat
  <2>1. phase = "decode"  BY Zenon DEF DecodeInline
  <2>2. cur \in Nat  BY Zenon DEF MapTypes
  <2> QED BY <2>1, <2>2
<1>3. CASE Refuse("no count") \/ Refuse("records")  BY <1>2, <1>3 DEF Refuse
<1>4. CASE ~(Refuse("no count") \/ Refuse("records"))
  <2>1. cur' = cur + 1 /\ UNCHANGED <<arch, numpy, phase, mds, cpb, plen, locked, index, error>>
    BY <1>1, <1>4, Zenon
  <2> QED BY <1>2, <2>1
<1> QED BY <1>3, <1>4

LEMMA BuildStep ==
    ASSUME BuildIndex
    PROVE  /\ phase = "write" /\ phase' = "done" /\ arch' = arch
           /\ UNCHANGED <<numpy, cur, mds, cpb, plen, locked, recs>>
           /\ index' = [end |-> DataEnd, cpb |-> cpb, plen |-> plen,
                        blocks |-> [b \in DOMAIN recs |-> Entry(recs[b])]]
  BY DEF BuildIndex

LEMMA EndStep ==
    ASSUME DecodeEnd
    PROVE  /\ phase = "decode" /\ phase' = "write" /\ arch' = arch
           /\ UNCHANGED <<numpy, cur, mds, cpb, plen, locked, recs, index>>
  BY DEF DecodeEnd, GoOn

-----------------------------------------------------------------------------
(* Entries                                                                   *)

LEMMA ToldBlock ==
    ASSUME NEW a \in Archives, NEW b \in 1..Len(a.told)
    PROVE  /\ a.told[b].off \in Nat /\ a.told[b].len \in Nat
           /\ \/ a.place[b] = 0 /\ a.told[b].len = 0
              \/ /\ a.place[b] \in 1..Len(a.items) /\ a.items[a.place[b]].kind = "block"
                 /\ a.items[a.place[b]].pb = b
                 /\ a.told[b].off = a.items[a.place[b]].at - DataStart
                 /\ a.told[b].len = a.items[a.place[b]].pre + a.items[a.place[b]].z
<1>1. Tells(a)  BY ArchivesAssumption DEF ArchivesAssumption
<1>2. a.told \in Seq([off : Nat, len : Nat]) /\ DOMAIN a.told = 1..Len(a.told)
  BY <1>1, LenProperties DEF Tells
<1>3. a.told[b] \in [off : Nat, len : Nat]  BY <1>2, ElementOfSeq
<1>4. \/ a.place[b] = 0 /\ a.told[b].len = 0
      \/ /\ a.place[b] \in DOMAIN a.items /\ a.items[a.place[b]].kind = "block"
         /\ a.items[a.place[b]].pb = b
         /\ a.told[b].off = a.items[a.place[b]].at - DataStart
         /\ a.told[b].len = a.items[a.place[b]].pre + a.items[a.place[b]].z
  <2>1. b \in DOMAIN a.told  BY <1>2
  <2> QED BY <1>1, <2>1, Zenon DEF Tells
<1>5. DOMAIN a.items = 1..Len(a.items)  BY ItemTypes
<1>6. a.told[b].off \in Nat /\ a.told[b].len \in Nat  BY <1>3
<1> QED BY <1>4, <1>5, <1>6, Zenon

(* The entry made of a block's record is that of the block.                  *)
LEMMA EntryExact ==
    ASSUME arch \in Archives, plen = Geometry(arch), NEW b \in 1..Len(arch.told)
    PROVE  Entry(arch.told[b]) = Expected(b)
<1>1. PICK r, i : r = arch.told[b] /\ i = arch.place[b]  OBVIOUS
<1>2. r.off \in Nat /\ r.len \in Nat  BY <1>1, ToldBlock
<1>3. CASE i = 0 /\ r.len = 0
  <2>1. ~(r.len > 0)  BY <1>3
  <2> QED BY <1>1, <1>3, <2>1 DEF Entry, Expected
<1>4. CASE /\ i \in 1..Len(arch.items) /\ arch.items[i].kind = "block" /\ arch.items[i].pb = b
           /\ r.off = arch.items[i].at - DataStart
           /\ r.len = arch.items[i].pre + arch.items[i].z
  <2>1. PICK x \in Nat, y \in Nat, z \in Nat \ {0} :
           x = arch.items[i].at /\ y = arch.items[i].pre /\ z = arch.items[i].z
    BY <1>4, StreamInside
  <2>2. r.len = y + z /\ r.len > 0 /\ i # 0
    <3>1. Len(arch.items) \in Nat  BY ItemTypes
    <3> QED BY <1>4, <2>1, <3>1
  <2>3. r.off + DataStart = x
    <3>1. DataStart \in Nat  BY ConstTypes
    <3>2. r.off = x - DataStart  BY <1>4, <2>1
    <3> QED BY <3>1, <3>2
  <2>4. BitmapAt(x) = {b}
    <3>1. At(x) = {i}  BY <1>4, <2>1, AtIs
    <3>2. arch.items[i].pre = plen  BY <1>4, KindFacts
    <3>3. {j \in At(x) : Item(j).kind = "block" /\ Item(j).pre = plen} = {i}
      BY <1>4, <3>1, <3>2 DEF Item
    <3>4. Item(i).pb = b  BY <1>4 DEF Item
    <3> QED BY <3>3, <3>4 DEF BitmapAt
  <2>5. Entry(r) = [off |-> x, len |-> r.len, pre |-> {b}]  BY <2>2, <2>3, <2>4 DEF Entry
  <2>6. Expected(b) = [off |-> x, len |-> y + z, pre |-> {b}]
    BY <1>1, <2>1, <2>2 DEF Expected, Item, Size
  <2> QED BY <1>1, <2>2, <2>5, <2>6
<1> QED BY <1>1, <1>3, <1>4, ToldBlock

(* What is missed when the first n pieces are found.                         *)
LEMMA MissedIs ==
    ASSUME arch \in Archives, NEW n \in 1..Len(arch.pieces), Reached(arch, mds, n), mds \in Seq(Nat)
    PROVE  /\ n = Len(arch.pieces) => Missed = {} /\ Len(mds) = n
           /\ n < Len(arch.pieces) =>
                 Missed # {} /\ n + 1 \in Missed /\ Min(Missed) = n + 1 /\ Cause(arch, n)
<1>1. /\ Len(arch.pieces) \in Nat /\ DOMAIN arch.pieces = 1..Len(arch.pieces) /\ n \in Nat
      /\ Len(mds) \in Nat /\ DOMAIN mds = 1..Len(mds)
  BY PieceTypes, LenProperties
<1>2. /\ n <= Len(mds) /\ \A k \in 1..n : mds[k] = PieceAt(arch, k).at
      /\ \A k \in (n + 1)..Len(mds) : n < Len(arch.pieces) /\ PieceAt(arch, n + 1).at < mds[k]
      /\ n < Len(arch.pieces) => Cause(arch, n)
  BY DEF Reached
<1>3. \A x : x \in Range(mds) <=> \E k \in 1..Len(mds) : x = mds[k]  BY <1>1 DEF Range
<1>4. ASSUME NEW k \in 1..n PROVE k \notin Missed
  <2>1. k \in 1..Len(mds)  BY <1>1, <1>2
  <2>2. Item(arch.pieces[k]).at = mds[k]  BY <1>2 DEF Item, PieceAt
  <2>3. Item(arch.pieces[k]).at \in Range(mds)  BY <1>3, <2>1, <2>2
  <2> QED BY <2>3, Zenon DEF Missed
<1>5. Missed \subseteq 1..Len(arch.pieces)  BY <1>1 DEF Missed
<1>6. ASSUME n = Len(arch.pieces) PROVE Missed = {} /\ Len(mds) = n
  <2>1. Missed = {}  BY <1>4, <1>5, <1>6
  <2>2. Len(mds) = n
    <3> SUFFICES ASSUME Len(mds) # n PROVE FALSE  OBVIOUS
    <3>0. n <= Len(mds)  BY <1>2
    <3>1. n + 1 \in (n + 1)..Len(mds)
      <4>1. PICK m \in Nat, c \in Nat : m = Len(mds) /\ c = n  BY <1>1
      <4>2. c <= m /\ m # c  BY <3>0, <4>1
      <4>3. c + 1 \in (c + 1)..m  BY <4>2
      <4> QED BY <4>1, <4>3
    <3>2. n < Len(arch.pieces)  BY <1>2, <3>1, Zenon
    <3> QED BY <1>1, <1>6, <3>2
  <2> QED BY <2>1, <2>2
<1>7. ASSUME n < Len(arch.pieces)
      PROVE  Missed # {} /\ n + 1 \in Missed /\ Min(Missed) = n + 1 /\ Cause(arch, n)
  <2>1. n + 1 \in 1..Len(arch.pieces)  BY <1>1, <1>7
  <2>2. PICK x \in Nat : x = PieceAt(arch, n + 1).at
    <3>1. arch.pieces[n + 1] \in 1..Len(arch.items)  BY <2>1, PieceTypes
    <3> QED BY <3>1, StreamInside DEF PieceAt
  <2>3. ASSUME NEW k \in 1..Len(mds) PROVE mds[k] # x
    <3>1. CASE k \in 1..n
      <4>1. k \in 1..Len(arch.pieces) /\ k < n + 1  BY <1>1, <1>7, <3>1
      <4>2. /\ arch.pieces[k] \in 1..Len(arch.items) /\ arch.pieces[n + 1] \in 1..Len(arch.items)
            /\ arch.pieces[k] < arch.pieces[n + 1]
        BY <2>1, <4>1, PieceTypes
      <4>3. arch.items[arch.pieces[k]].at < arch.items[arch.pieces[n + 1]].at
        BY <4>2, OneItem
      <4>4. mds[k] < x  BY <1>2, <2>2, <3>1, <4>3 DEF PieceAt
      <4> QED BY <2>2, <4>4
    <3>2. CASE k \notin 1..n
      <4>1. k \in (n + 1)..Len(mds)  BY <1>1, <3>2
      <4>2. x < mds[k]  BY <1>2, <2>2, <4>1
      <4> QED BY <2>2, <4>2
    <3> QED BY <3>1, <3>2
  <2>4. Item(arch.pieces[n + 1]).at \notin Range(mds)
    BY <1>3, <2>2, <2>3 DEF Item, PieceAt
  <2>5. n + 1 \in Missed  BY <1>1, <2>1, <2>4 DEF Missed
  <2>6. ASSUME NEW y \in Missed PROVE n + 1 <= y
    <3>1. y \in 1..Len(arch.pieces)  BY <1>5
    <3>2. y \notin 1..n  BY <1>4
    <3> QED BY <1>1, <3>1, <3>2
  <2>7. Min(Missed) = n + 1
    <3>0. Missed \subseteq Nat  BY <1>1, <1>5
    <3> HIDE DEF Missed
    <3>1. Min(Missed) \in Missed /\ \A y \in Missed : Min(Missed) <= y
      <4>1. \E v \in Missed : \A y \in Missed : v <= y  BY <2>5, <2>6
      <4> QED BY <4>1, Zenon DEF Min
    <3>2. PICK v \in Nat : v = Min(Missed) /\ v <= n + 1 /\ n + 1 <= v
      BY <2>5, <2>6, <3>0, <3>1
    <3> QED BY <1>1, <3>2
  <2> QED BY <1>2, <1>7, <2>5, <2>7
<1> QED BY <1>6, <1>7

LEMMA BuildsExact ==
    ASSUME MapTypes, WriteInv, BuildIndex
    PROVE  DoneInv'
<1>1. /\ phase = "write" /\ arch' = arch /\ mds' = mds
      /\ index' = [end |-> DataEnd, cpb |-> cpb, plen |-> plen,
                   blocks |-> [b \in DOMAIN recs |-> Entry(recs[b])]]
  BY BuildStep
<1>2. /\ plen = Geometry(arch)
      /\ \/ arch.pieces = << >> /\ RecsTold(arch, recs) /\ Len(recs) = Len(arch.told)
         \/ \E n \in 1..Len(arch.pieces) :
               Reached(arch, mds, n) /\ Partly(arch, recs, Len(mds) + 1, n)
  BY <1>1, Zenon DEF WriteInv
<1>3. /\ arch \in Archives /\ Len(arch.told) = Len(arch.place) /\ Len(arch.told) \in Nat
      /\ Len(arch.pieces) \in Nat /\ DOMAIN arch.pieces = 1..Len(arch.pieces)
      /\ mds \in Seq(Nat) /\ Len(mds) \in Nat
  BY TellsFacts, PieceTypes, LenProperties DEF MapTypes
<1>4. /\ \A b : Expected(b)' = Expected(b)
      /\ Missed' = Missed /\ Known' = Known
  BY <1>1 DEF Expected, Missed, Known, Item, Size
(* The first g records are those that were written. *)
<1> DEFINE RecsUpTo(g) == /\ g \in 0..Len(arch.told) /\ g <= Len(recs) /\ Len(recs) \in Nat
                          /\ recs \in Seq([off : Nat, len : Nat])
                          /\ \A b \in 1..g : recs[b] = arch.told[b]
<1>5. /\ RecsUpTo(Known)
      /\ Len(recs) > Known => \E k \in Missed : Item(arch.pieces[k]).at < index'.end
      /\ Missed # {} => Min(Missed) > 1 /\ Cause(arch, Min(Missed) - 1)
  <2>1. ASSUME RecsTold(arch, recs), Len(recs) = Len(arch.told)
        PROVE  RecsUpTo(Len(arch.told)) /\ Len(recs) = Len(arch.told)
    BY <1>3, <2>1 DEF RecsTold
  <2>2. CASE arch.pieces = << >> /\ RecsTold(arch, recs) /\ Len(recs) = Len(arch.told)
    <3>1. Len(arch.pieces) = 0  BY <1>3, <2>2, PieceTypes
    <3>2. Missed = {}  BY <1>3, <3>1 DEF Missed
    <3>3. Known = Len(arch.told)  BY <1>3, <3>2 DEF Known
    <3>4. ~(Len(recs) > Known)  BY <1>3, <2>2, <3>3
    <3> HIDE DEF RecsUpTo
    <3> QED BY <2>1, <2>2, <3>2, <3>3, <3>4
  <2>3. ASSUME NEW n \in 1..Len(arch.pieces), Reached(arch, mds, n),
               Partly(arch, recs, Len(mds) + 1, n)
        PROVE  /\ RecsUpTo(Known)
               /\ Len(recs) > Known => \E k \in Missed : Item(arch.pieces[k]).at < index'.end
               /\ Missed # {} => Min(Missed) > 1 /\ Cause(arch, Min(Missed) - 1)
    <3>1. /\ n \in Nat /\ n <= Len(mds)
          /\ n = Len(arch.pieces) => Missed = {} /\ Len(mds) = n
          /\ n < Len(arch.pieces) =>
                Missed # {} /\ n + 1 \in Missed /\ Min(Missed) = n + 1 /\ Cause(arch, n)
      <4>1. n \in Nat  BY <1>3
      <4>2. n <= Len(mds)  BY <2>3, Zenon DEF Reached
      <4> QED BY <1>3, <2>3, <4>1, <4>2, MissedIs, Zenon
    <3>2. n + 1 \in 1..(Len(arch.pieces) + 1) /\ (n = Len(arch.pieces) \/ n < Len(arch.pieces))
      BY <1>3
    <3>3. From(arch, n + 1) \in 0..Len(arch.told)  BY <1>3, <3>2, TellsFacts
    <3>4. Known = From(arch, n + 1)
      <4>1. CASE n = Len(arch.pieces)
        <5>1. From(arch, Len(arch.pieces) + 1) = Len(arch.told)  BY <1>3, TellsFacts
        <5> QED BY <1>3, <3>1, <4>1, <5>1 DEF Known
      <4>2. CASE n < Len(arch.pieces)  BY <3>1, <4>2, Zenon DEF Known
      <4> QED BY <3>2, <4>1, <4>2
    <3>5. CASE Len(mds) = n
      <4>1. RecsTold(arch, recs) /\ Len(recs) = From(arch, n + 1)
        BY <2>3, <3>1, <3>5 DEF Partly
      <4>2. RecsUpTo(Known) /\ ~(Len(recs) > Known)  BY <1>3, <3>3, <3>4, <4>1 DEF RecsTold
      <4>3. Missed # {} => Min(Missed) > 1 /\ Cause(arch, Min(Missed) - 1)
        <5> SUFFICES ASSUME Missed # {} PROVE Min(Missed) > 1 /\ Cause(arch, Min(Missed) - 1)
          OBVIOUS
        <5>1. Min(Missed) = n + 1 /\ Cause(arch, n)  BY <3>1, <3>2
        <5>2. n + 1 > 1 /\ (n + 1) - 1 = n  BY <3>1
        <5> QED BY <5>1, <5>2
      <4> HIDE DEF RecsUpTo
      <4> QED BY <4>2, <4>3
    <3>6. CASE Len(mds) # n
      <4>1. n < Len(arch.pieces) /\ Len(mds) > n  BY <1>3, <3>1, <3>2, <3>6
      <4>2. /\ recs \in Seq([off : Nat, len : Nat]) /\ From(arch, n + 1) <= Len(recs)
            /\ \A b \in 1..From(arch, n + 1) : recs[b] = arch.told[b]
        <5>1. Len(mds) + 1 > n + 1  BY <1>3, <3>1, <4>1
        <5> QED BY <2>3, <5>1, Zenon DEF Partly
      <4>3. RecsUpTo(Known)  BY <3>3, <3>4, <4>2, LenProperties
      <4>4. PieceAt(arch, n + 1).at < Last(mds) /\ mds # << >>
        <5>1. Len(mds) \in (n + 1)..Len(mds)  BY <1>3, <3>1, <4>1
        <5>2. PieceAt(arch, n + 1).at < mds[Len(mds)]  BY <2>3, <5>1 DEF Reached
        <5>3. mds # << >>
          <6>1. Len(mds) # 0  BY <1>3, <3>1, <4>1
          <6> QED BY <6>1, <1>3, EmptySeq
        <5> QED BY <5>2, <5>3 DEF Last
      <4>5. index'.end = Last(mds)  BY <1>1, <4>4 DEF DataEnd
      <4>6. \E k \in Missed : Item(arch.pieces[k]).at < index'.end
        BY <3>1, <4>1, <4>4, <4>5 DEF PieceAt, Item
      <4>7. Min(Missed) > 1 /\ Cause(arch, Min(Missed) - 1)
        <5>1. n + 1 > 1 /\ (n + 1) - 1 = n  BY <3>1
        <5> QED BY <3>1, <4>1, <5>1
      <4> HIDE DEF RecsUpTo
      <4> QED BY <4>3, <4>6, <4>7
    <3> QED BY <3>5, <3>6
  <2> HIDE DEF RecsUpTo
  <2> QED BY <1>2, <2>2, <2>3
<1>6. /\ index'.blocks = [b \in 1..Len(recs) |-> Entry(recs[b])]
      /\ DOMAIN index'.blocks = 1..Len(recs) /\ Len(index'.blocks) = Len(recs)
  <2>0. DOMAIN recs = 1..Len(recs) /\ Len(recs) \in Nat  BY <1>5, LenProperties
  <2>1. index'.blocks = [b \in 1..Len(recs) |-> Entry(recs[b])]  BY <1>1, <2>0
  <2>2. PICK n \in Nat : n = Len(recs)  BY <2>0
  <2>3. Len([b \in 1..n |-> Entry(recs[b])]) = n  BY LenProperties
  <2> QED BY <2>1, <2>2, <2>3
<1>7. ASSUME NEW b \in 1..Known
      PROVE  b \in DOMAIN index'.blocks /\ index'.blocks[b] = Expected(b)
  <2>1. b \in 1..Len(recs) /\ b \in 1..Len(arch.told) /\ recs[b] = arch.told[b]
    BY <1>3, <1>5
  <2>2. index'.blocks[b] = Entry(arch.told[b])  BY <1>6, <2>1
  <2> QED BY <1>2, <1>3, <1>6, <2>1, <2>2, EntryExact
<1>8. EntriesAreExact'
  <2>1. \A b \in 1..Known' : b \in DOMAIN index'.blocks /\ index'.blocks[b] = Expected(b)'
    BY <1>4, <1>7
  <2>2. Len(index'.blocks) > Known' => \E k \in Missed' : Item(arch.pieces[k])'.at < index'.end
    <3>1. \A k : Item(arch.pieces[k])' = Item(arch.pieces[k])  BY <1>1 DEF Item
    <3> QED BY <1>4, <1>5, <1>6, <3>1
  <2> QED BY <2>1, <2>2, Zenon DEF EntriesAreExact
<1>9. MissedForCause'  BY <1>1, <1>4, <1>5 DEF MissedForCause
<1> QED BY <1>8, <1>9 DEF DoneInv

LEMMA MapWritesAll ==
    ASSUME MapTypes, AtMapInv, EarlyInv, DecodeChunkMap, phase' # "error"
    PROVE  WriteInv'
<1>1. /\ phase = "map" /\ arch' = arch /\ mds' = mds
      /\ recs' = Decoded(Item(cur).plain) /\ plen' = Modern /\ Len(Item(cur).plain) % 3 = 0
  BY MapStep
<1>2. arch \in Archives /\ numpy \in BOOLEAN  BY DEF MapTypes
<1>3. cur \in 1..Len(arch.items) /\ arch.items[cur].kind = "map"
  BY <1>1, <1>2, ItemTypes DEF AtMapInv, At, Items, Item
<1>4. recs' = ToldFrom(arch, 0, Len(arch.told))  BY <1>1, <1>2, <1>3, MapDecoded DEF Item
<1>5. Len(arch.told) \in Nat  BY <1>2, TellsFacts
<1>6. RecsTold(arch, recs') /\ Len(recs') = Len(arch.told)
  <2>1. PICK f \in Nat, n \in Nat : f = 0 /\ n = Len(arch.told)  BY <1>5
  <2>2. recs' = ToldFrom(arch, f, n) /\ f + n <= Len(arch.told)  BY <1>4, <2>1
  <2>3. /\ ToldFrom(arch, f, n) \in Seq([off : Nat, len : Nat]) /\ Len(ToldFrom(arch, f, n)) = n
    BY <1>2, <2>2, RecordType
  <2>4. \A b \in 1..n : recs'[b] = arch.told[f + b] /\ f + b = b  BY <2>1, <2>2 DEF ToldFrom
  <2>5. \A b \in 1..n : recs'[b] = arch.told[b]  BY <2>4
  <2> QED BY <2>1, <2>2, <2>3, <2>5 DEF RecsTold
<1>7. arch.pieces = << >>  BY <1>2, <1>3, KindFacts
<1>8. Geometry(arch) = Modern
  <2>1. cur \in DOMAIN arch.items  BY <1>2, <1>3, ItemTypes
  <2> QED BY <1>3, <1>7, <2>1, Zenon DEF Geometry
<1> QED BY <1>1, <1>6, <1>7, <1>8, Zenon DEF WriteInv

-----------------------------------------------------------------------------
(* The invariant is one                                                      *)

LEMMA MapInitHolds == MapInit => MapInv
<1> SUFFICES ASSUME MapInit PROVE MapInv  OBVIOUS
<1>1. /\ arch \in Archives /\ numpy \in BOOLEAN /\ phase = "header" /\ cur = DataStart /\ mds = << >>
      /\ cpb = 8 * Legacy /\ plen = Legacy /\ locked = FALSE /\ recs = << >>
  BY DEF MapInit
<1>2. DataStart \in Nat /\ Legacy \in Nat /\ 8 * Legacy \in Nat  BY ConstTypes
<1>3. << >> \in Seq(Nat)  OBVIOUS
<1>4. MapTypes  BY <1>1, <1>2, <1>3 DEF MapTypes, Phases
<1>5. EarlyInv /\ AtMapInv  BY <1>1 DEF EarlyInv, AtMapInv
<1>6. WalkInv /\ DecodeInv /\ WriteInv  BY <1>1 DEF WalkInv, DecodeInv, WriteInv
<1>7. OrdinaryInv /\ DoneInv  BY <1>1 DEF OrdinaryInv, DoneInv, EntriesAreExact, MissedForCause
<1> QED BY <1>4, <1>5, <1>6, <1>7 DEF MapInv

(* The steps, those of the walk by where they lead.                          *)
LEMMA StepSplit ==
    ASSUME MapTypes, MapNext
    PROVE  \/ ReadHeader \/ ReadTrailer \/ Locate \/ DecodeChunkMap
           \/ Ends \/ WalkInline \/ (WalkBlock /\ phase' = "walk") \/ (FindNextBlock /\ phase' = "walk")
           \/ DecodeInline \/ DecodeEnd \/ BuildIndex \/ UNCHANGED mapVars
  BY DEF MapNext, Walk, Ends, BuildOver

LEMMA WalkGoesOn ==
    ASSUME MapTypes, (WalkBlock \/ FindNextBlock) /\ phase' = "walk"
    PROVE  /\ phase \in {"walk", "skip"} /\ arch' = arch /\ cur' \in Nat
           /\ UNCHANGED <<numpy, mds, cpb, plen, locked, recs, index>>
  BY BlockStep, FindStep, EndIs

LEMMA ArchKept == ASSUME MapTypes, MapNext PROVE arch' = arch
<1>1. CASE ReadHeader \/ ReadTrailer \/ Locate \/ DecodeChunkMap
  BY <1>1, HeaderStep, TrailerStep, LocateStep, MapStep
<1>2. CASE Ends \/ WalkInline \/ ((WalkBlock \/ FindNextBlock) /\ phase' = "walk")
  BY <1>2, EndIs, InlineStep, WalkGoesOn
<1>3. CASE DecodeInline \/ DecodeEnd \/ BuildIndex
  BY <1>3, DecodeStep, EndStep, BuildStep
<1>4. CASE UNCHANGED mapVars  BY <1>4 DEF mapVars
<1> QED BY <1>1, <1>2, <1>3, <1>4, StepSplit

LEMMA OrdinaryKept == ASSUME arch' = arch PROVE Ordinary' <=> Ordinary
<1>1. HeaderError' = HeaderError
  BY DEF HeaderError, FindLastVolume, LastVolume
<1>2. TrailerError' = TrailerError  BY DEF TrailerError
<1>3. Damaged' = Damaged  BY DEF Damaged, Items, Item
<1> QED BY <1>1, <1>2, <1>3 DEF Ordinary

LEMMA TypesKept ==
    ASSUME MapTypes, AtMapInv, MapNext
    PROVE  MapTypes'
<1>0. /\ arch \in Archives /\ numpy \in BOOLEAN /\ phase \in Phases
      /\ cur \in Nat /\ mds \in Seq(Nat) /\ cpb \in Nat /\ plen \in Nat /\ locked \in BOOLEAN
  BY DEF MapTypes
<1> USE <1>0 DEF MapTypes, Phases
<1>1. CASE ReadHeader  BY <1>1, HeaderStep
<1>2. CASE ReadTrailer  BY <1>2, TrailerStep
<1>3. CASE Locate
  <2>1. cur' \in Nat
    <3>1. CASE phase' = "map"
      <4>1. cur' \in At(DataStart + Chosen.V)  BY <1>3, <3>1, LocateStep
      <4>2. cur' \in 1..Len(arch.items) /\ Len(arch.items) \in Nat
        BY <4>1, ItemTypes DEF At, Items
      <4> QED BY <4>2
    <3>2. CASE phase' # "map"  BY <1>3, <3>2, LocateStep
    <3> QED BY <3>1, <3>2
  <2> QED BY <1>3, <2>1, LocateStep
<1>4. CASE DecodeChunkMap
  <2>1. CASE phase' = "error"  BY <1>4, <2>1, MapStep
  <2>2. CASE phase' = "write"
    <3>1. phase = "map" /\ cur' = ZlibAt(cur) /\ plen' = Modern /\ cpb' = 8 * Modern
      BY <1>4, <2>2, MapStep
    <3>2. cur \in 1..Len(arch.items)  BY <3>1, ItemTypes DEF AtMapInv, At, Items
    <3>3. PICK x \in Nat, y \in Nat : x = arch.items[cur].at /\ y = arch.items[cur].pre
      BY <3>2, StreamInside
    <3>4. cur' = x + y  BY <3>1, <3>3 DEF ZlibAt, Item
    <3>5. cur' \in Nat /\ plen' \in Nat /\ cpb' \in Nat  BY <3>1, <3>4, ConstTypes
    <3> QED BY <1>4, <2>2, <3>5, MapStep
  <2> QED BY <1>4, <2>1, <2>2, MapStep
<1>5. CASE Ends
  <2>1. cur' \in Nat  BY <1>5, EndIs
  <2> QED BY <1>5, <2>1, EndIs
<1>6. CASE WalkInline  BY <1>6, InlineStep
<1>7. CASE (WalkBlock \/ FindNextBlock) /\ phase' = "walk"  BY <1>7, WalkGoesOn
<1>8. CASE DecodeInline  BY <1>8, DecodeStep
<1>9. CASE DecodeEnd  BY <1>9, EndStep
<1>10. CASE BuildIndex  BY <1>10, BuildStep
<1>11. CASE UNCHANGED mapVars  BY <1>11 DEF mapVars
<1> QED BY <1>1, <1>2, <1>3, <1>4, <1>5, <1>6, <1>7, <1>8, <1>9, <1>10, <1>11, StepSplit, Zenon

LEMMA EarlyKept ==
    ASSUME MapTypes, EarlyInv, MapNext
    PROVE  EarlyInv'
<1> USE DEF EarlyInv
<1>1. CASE ReadHeader  BY <1>1, HeaderStep
<1>2. CASE ReadTrailer  BY <1>2, TrailerStep
<1>3. CASE Locate  BY <1>3, LocateStep
<1>4. CASE DecodeChunkMap  BY <1>4, MapStep
<1>5. CASE Ends  BY <1>5, EndIs
<1>6. CASE WalkInline  BY <1>6, InlineStep
<1>7. CASE (WalkBlock \/ FindNextBlock) /\ phase' = "walk"  BY <1>7, WalkGoesOn
<1>8. CASE DecodeInline  BY <1>8, DecodeStep
<1>9. CASE DecodeEnd  BY <1>9, EndStep
<1>10. CASE BuildIndex  BY <1>10, BuildStep
<1>11. CASE UNCHANGED mapVars  BY <1>11 DEF mapVars
<1> QED BY <1>1, <1>2, <1>3, <1>4, <1>5, <1>6, <1>7, <1>8, <1>9, <1>10, <1>11, StepSplit, Zenon

LEMMA AtMapKept ==
    ASSUME MapTypes, AtMapInv, MapNext
    PROVE  AtMapInv'
<1>0. arch' = arch  BY ArchKept
<1>1. \A p, i : At(p)' = At(p) /\ Item(i)' = Item(i)  BY <1>0 DEF At, Items, Item
<1>2. Chosen' = Chosen  BY <1>0 DEF Chosen
<1>3. SUFFICES ASSUME phase' = "map"
               PROVE  /\ Candidates(arch) # {} /\ cur' \in At(DataStart + Chosen.V)
                      /\ Item(cur').kind = "map"
  <2>1. At(DataStart + Chosen.V)' = At(DataStart + Chosen.V)  BY <1>0, <1>2 DEF At, Items, Item
  <2>2. Item(cur)' = Item(cur')  BY <1>0 DEF Item
  <2> QED BY <1>0, <2>1, <2>2 DEF AtMapInv
<1>4. CASE Locate  BY <1>3, <1>4, LocateStep
<1>5. CASE UNCHANGED mapVars  BY <1>3, <1>5 DEF AtMapInv, mapVars
<1>6. CASE ReadHeader \/ ReadTrailer \/ DecodeChunkMap
  BY <1>3, <1>6, HeaderStep, TrailerStep, MapStep
<1>7. CASE Ends \/ WalkInline \/ ((WalkBlock \/ FindNextBlock) /\ phase' = "walk")
  BY <1>3, <1>7, EndIs, InlineStep
<1>8. CASE DecodeInline \/ DecodeEnd \/ BuildIndex
  BY <1>3, <1>8, DecodeStep, EndStep, BuildStep
<1> QED BY <1>4, <1>5, <1>6, <1>7, <1>8, StepSplit, Zenon

LEMMA WalkKept ==
    ASSUME MapTypes, EarlyInv, WalkInv, MapNext
    PROVE  WalkInv'
<1>1. CASE Locate
  <2> SUFFICES ASSUME phase' \in {"walk", "skip"}, ~Doomed(arch', mds'), ~Lost(arch', mds', cur', plen', locked')
             PROVE  /\ Tracked(arch', mds')
                    /\ GeometryKnown(arch', mds', plen', cpb', locked')
                    /\ AheadInv(arch', mds', cur', phase')
    BY Zenon DEF WalkInv
  <2>1. /\ phase = "locate" /\ phase' = "walk" /\ arch' = arch /\ mds' = mds /\ cpb' = cpb
        /\ plen' = plen /\ locked' = locked /\ cur' = cur
    BY <1>1, LocateStep
  <2>2. mds = << >> /\ Len(mds) = 0 /\ cur = DataStart /\ cpb = 8 * Legacy /\ plen = Legacy /\ ~locked
    BY <2>1 DEF EarlyInv
  <2>3. arch \in Archives /\ Len(arch.pieces) \in Nat  BY PieceTypes DEF MapTypes
  <2>4. Tracked(arch, mds)  BY <2>2, <2>3 DEF Tracked
  <2>5. GeometryKnown(arch, mds, plen, cpb, locked)  BY <2>2 DEF GeometryKnown
  <2>6. ASSUME Len(mds) < Len(arch.pieces) PROVE StandsBefore(arch, Len(mds) + 1, cur)
    <3>1. /\ Len(mds) + 1 = 1 /\ 1 \in 1..Len(arch.pieces)  BY <2>2, <2>3, <2>6
    <3>2. arch.pieces[1] \in 1..Len(arch.items) /\ Len(arch.items) \in Nat \ {0}
          /\ arch.pieces # << >>
      <4>1. Len(arch.pieces) # 0  BY <3>1
      <4> QED BY <2>3, <3>1, <4>1, PieceTypes, ItemTypes
    <3>3. 1 \in 1..arch.pieces[1] /\ 1 \in 1..Len(arch.items)  BY <3>2
    <3>4. arch.items[1].at = cur  BY <2>2, <2>3, ItemTypes
    <3>5. arch.items[1].kind # "other"
      <4>1. \A i \in 1..arch.pieces[1] :
               arch.items[i].kind = "other" => i > 1 /\ arch.items[i - 1].kind \in {"inline", "other"}
        BY <2>3, <3>1, PieceTypes
      <4>2. ~(1 > 1)  OBVIOUS
      <4> QED BY <3>3, <4>1, <4>2
    <3>6. arch.items[1].kind \in {"block", "inline"}  BY <2>3, <3>2, <3>3, <3>5, KindFacts
    <3> QED BY <3>1, <3>3, <3>4, <3>6 DEF StandsBefore
  <2>7. AheadInv(arch, mds, cur, "walk")  BY <2>2, <2>6, Zenon DEF AheadInv
  <2> QED BY <2>1, <2>4, <2>5, <2>7
<1>2. CASE WalkInline
  <2>1. CASE phase' = "error"  BY <2>1 DEF WalkInv
  <2>2. CASE phase' # "error"  BY <1>2, <2>2, InlineKeepsWalk
  <2> QED BY <2>1, <2>2
<1>3. CASE WalkBlock /\ phase' = "walk"  BY <1>3, BlockKeepsWalk
<1>4. CASE FindNextBlock /\ phase' = "walk"  BY <1>4, FindKeepsWalk
<1>5. CASE UNCHANGED mapVars  BY <1>5, Zenon DEF WalkInv, mapVars
<1>6. CASE ReadHeader \/ ReadTrailer \/ DecodeChunkMap \/ Ends \/ DecodeInline \/ DecodeEnd \/ BuildIndex
  <2>1. phase' \notin {"walk", "skip"}
    BY <1>6, HeaderStep, TrailerStep, MapStep, EndIs, DecodeStep, EndStep, BuildStep
  <2> QED BY <2>1, Zenon DEF WalkInv
<1> QED BY <1>1, <1>2, <1>3, <1>4, <1>5, <1>6, StepSplit, Zenon

LEMMA DecodeKept ==
    ASSUME MapTypes, EarlyInv, WalkInv, DecodeInv, MapNext
    PROVE  DecodeInv'
<1>1. CASE Ends  BY <1>1, EndsDecode
<1>2. CASE DecodeInline
  <2>1. CASE phase' = "error"  BY <2>1 DEF DecodeInv
  <2>2. CASE phase' # "error"  BY <1>2, <2>2, InlineKeepsDecode
  <2> QED BY <2>1, <2>2
<1>3. CASE UNCHANGED mapVars  BY <1>3, Zenon DEF DecodeInv, mapVars
<1>4. CASE ReadHeader \/ ReadTrailer \/ Locate \/ DecodeChunkMap \/ WalkInline
           \/ ((WalkBlock \/ FindNextBlock) /\ phase' = "walk") \/ DecodeEnd \/ BuildIndex
  <2>1. phase' # "decode"
    BY <1>4, HeaderStep, TrailerStep, LocateStep, MapStep, InlineStep, EndStep, BuildStep
  <2> QED BY <2>1, Zenon DEF DecodeInv
<1> QED BY <1>1, <1>2, <1>3, <1>4, StepSplit, Zenon

LEMMA WriteKept ==
    ASSUME MapTypes, EarlyInv, AtMapInv, DecodeInv, WriteInv, MapNext
    PROVE  WriteInv'
<1>1. CASE DecodeEnd  BY <1>1, DecodeEndWrites
<1>2. CASE DecodeChunkMap
  <2>1. CASE phase' = "error"  BY <2>1 DEF WriteInv
  <2>2. CASE phase' # "error"  BY <1>2, <2>2, MapWritesAll
  <2> QED BY <2>1, <2>2
<1>3. CASE UNCHANGED mapVars  BY <1>3, Zenon DEF WriteInv, mapVars
<1>4. CASE ReadHeader \/ ReadTrailer \/ Locate \/ Ends \/ WalkInline
           \/ ((WalkBlock \/ FindNextBlock) /\ phase' = "walk") \/ DecodeInline \/ BuildIndex
  <2>1. phase' # "write"
    BY <1>4, HeaderStep, TrailerStep, LocateStep, EndIs, InlineStep, DecodeStep, BuildStep
  <2> QED BY <2>1, Zenon DEF WriteInv
<1> QED BY <1>1, <1>2, <1>3, <1>4, StepSplit, Zenon

LEMMA DoneKept ==
    ASSUME MapTypes, WriteInv, DoneInv, MapNext
    PROVE  DoneInv'
<1>1. CASE BuildIndex  BY <1>1, BuildsExact
<1>2. CASE UNCHANGED mapVars
  BY <1>2, Zenon
     DEF DoneInv, EntriesAreExact, MissedForCause, Expected, Missed, Known, Item, Size, mapVars
<1>3. CASE ReadHeader \/ ReadTrailer \/ Locate \/ DecodeChunkMap \/ Ends \/ WalkInline
           \/ ((WalkBlock \/ FindNextBlock) /\ phase' = "walk") \/ DecodeInline \/ DecodeEnd
  <2>1. phase' # "done"
    BY <1>3, HeaderStep, TrailerStep, LocateStep, MapStep, EndIs, InlineStep, DecodeStep, EndStep
  <2> QED BY <2>1, Zenon DEF DoneInv, EntriesAreExact, MissedForCause
<1> QED BY <1>1, <1>2, <1>3, StepSplit, Zenon

LEMMA OrdinaryStays ==
    ASSUME MapTypes, EarlyInv, AtMapInv, WalkInv, DecodeInv, OrdinaryInv, MapNext
    PROVE  OrdinaryInv'
<1>0. arch' = arch /\ arch \in Archives  BY ArchKept DEF MapTypes
<1>1. SUFFICES ASSUME Ordinary
               PROVE  /\ phase' # "error"
                      /\ phase' \in {"walk", "skip", "decode"} =>
                             ~Doomed(arch', mds') /\ Candidates(arch') = {}
  BY <1>0, OrdinaryKept, Zenon DEF OrdinaryInv
<1>2. /\ phase # "error"
      /\ phase \in {"walk", "skip", "decode"} => ~Doomed(arch, mds) /\ Candidates(arch) = {}
  BY <1>1, Zenon DEF OrdinaryInv
<1>3. CASE ReadHeader  BY <1>0, <1>1, <1>3, HeaderStep, OrdinaryFacts
<1>4. CASE ReadTrailer  BY <1>0, <1>1, <1>4, TrailerStep, OrdinaryFacts
<1>5. CASE Locate
  <2>1. phase' # "error"
    <3> SUFFICES ASSUME phase' = "error" PROVE FALSE  OBVIOUS
    <3>1. /\ Candidates(arch) # {}
          /\ \/ At(DataStart + Chosen.V) = {}
             \/ \E i \in At(DataStart + Chosen.V) : Item(i).kind # "map"
      BY <1>5, LocateStep
    <3>2. PICK i : At(DataStart + Chosen.V) = {i} /\ arch.items[i].kind = "map"
      BY <1>0, <1>1, <3>1, OrdinaryMap
    <3> QED BY <3>1, <3>2 DEF Item
  <2>2. phase' \in {"walk", "map"} /\ (phase' = "walk" => Candidates(arch) = {})
        /\ phase = "locate" /\ mds' = mds
    BY <1>5, <2>1, LocateStep
  <2>3. ~Doomed(arch, mds)
    <3>1. mds = << >> /\ 1..Len(mds) = {}  BY <2>2 DEF EarlyInv
    <3> QED BY <3>1 DEF Doomed
  <2> QED BY <1>0, <2>2, <2>3
<1>6. CASE DecodeChunkMap
  <2>1. phase = "map" /\ phase' \in {"write", "error"}  BY <1>6, MapStep
  <2>2. phase' # "error"
    <3> SUFFICES ASSUME phase' = "error" PROVE FALSE  OBVIOUS
    <3>1. \/ ~Item(cur).good \/ Chosen.S - Item(cur).pre < Item(cur).z
          \/ Len(Item(cur).plain) % 3 # 0 \/ ~CanDecode(Len(Item(cur).plain) \div 3)
      BY <1>6, MapStep
    <3>2. Candidates(arch) # {} /\ cur \in At(DataStart + Chosen.V)  BY <2>1 DEF AtMapInv
    <3>3. PICK i \in 1..Len(arch.items) :
              /\ At(DataStart + Chosen.V) = {i} /\ arch.items[i].kind = "map"
              /\ arch.items[i].good /\ ~(Chosen.S - arch.items[i].pre < arch.items[i].z)
              /\ Len(arch.items[i].plain) % 3 = 0 /\ CanDecode(Len(arch.items[i].plain) \div 3)
      BY <1>0, <1>1, <3>2, OrdinaryMap, Zenon
    <3>4. cur = i  BY <3>2, <3>3, Zenon
    <3> QED BY <3>1, <3>3, <3>4, Zenon DEF Item
  <2> QED BY <2>1, <2>2
<1>7. CASE Ends
  <2>1. phase' = "decode" /\ mds' = mds /\ phase \in {"walk", "skip"}
    BY <1>1, <1>2, <1>7, EndIs, EndsStayOrdinary
  <2> QED BY <1>0, <1>2, <2>1
<1>8. CASE WalkInline
  <2>1. phase = "walk"  BY <1>8, InlineStep
  <2> QED BY <1>0, <1>1, <1>2, <1>8, <2>1, InlineStaysOrdinary
<1>9. CASE (WalkBlock \/ FindNextBlock) /\ phase' = "walk"
  BY <1>0, <1>2, <1>9, WalkGoesOn
<1>10. CASE DecodeInline
  <2>1. phase = "decode" /\ phase' \in {"decode", "error"} /\ mds' = mds  BY <1>10, DecodeStep
  <2>2. phase' # "error"  BY <1>1, <1>2, <1>10, <2>1, InlineDecodesOrdinary
  <2> QED BY <1>0, <1>2, <2>1, <2>2
<1>11. CASE DecodeEnd  BY <1>11, EndStep
<1>12. CASE BuildIndex  BY <1>12, BuildStep
<1>13. CASE UNCHANGED mapVars  BY <1>0, <1>2, <1>13 DEF mapVars
<1> QED BY <1>3, <1>4, <1>5, <1>6, <1>7, <1>8, <1>9, <1>10, <1>11, <1>12, <1>13, StepSplit, Zenon

(* Whatever is damaged and however the pieces lie: the walk finds the first  *)
(* pieces of the map, each where it is; it misses the next one only for what *)
(* lies in front of it (Cause), or it has taken something for a piece that   *)
(* decode_inline_chunkmap then refuses; the records decoded are those that   *)
(* were written, in their order, up to the first piece missed; a whole       *)
(* archive is not refused (discover_inline_chunkmaps_legacy, build_index).   *)
THEOREM MapInvariant == MapSpec => []MapInv
<1>1. MapInit => MapInv  BY MapInitHolds
<1>2. MapInv /\ [MapNext]_mapVars => MapInv'
  <2> SUFFICES ASSUME MapInv, [MapNext]_mapVars PROVE MapInv'  OBVIOUS
  <2>1. /\ MapTypes /\ EarlyInv /\ AtMapInv /\ WalkInv /\ DecodeInv /\ WriteInv /\ OrdinaryInv
        /\ DoneInv
    BY Zenon DEF MapInv
  <2>2. CASE MapNext
    <3>1. MapTypes' /\ EarlyInv' /\ AtMapInv'  BY <2>1, <2>2, TypesKept, EarlyKept, AtMapKept
    <3>2. WalkInv' /\ DecodeInv' /\ WriteInv'  BY <2>1, <2>2, WalkKept, DecodeKept, WriteKept
    <3>3. OrdinaryInv' /\ DoneInv'  BY <2>1, <2>2, OrdinaryStays, DoneKept
    <3> QED BY <3>1, <3>2, <3>3, Zenon DEF MapInv
  <2>3. CASE UNCHANGED mapVars
    <3>1. BuildOver \/ UNCHANGED mapVars  BY <2>3
    <3>2. MapTypes'  BY <2>1, <2>3 DEF MapTypes, mapVars
    <3>3. EarlyInv'  BY <2>1, <2>3 DEF EarlyInv, mapVars
    <3>4. AtMapInv'  BY <2>1, <2>3, Zenon DEF AtMapInv, Chosen, At, Items, Item, mapVars
    <3>5. WalkInv' /\ DecodeInv' /\ WriteInv'
      BY <2>1, <2>3, Zenon DEF WalkInv, DecodeInv, WriteInv, mapVars
    <3>6. OrdinaryInv'
      <4>1. arch' = arch /\ phase' = phase /\ mds' = mds  BY <2>3 DEF mapVars
      <4>2. Ordinary' <=> Ordinary  BY <4>1, OrdinaryKept
      <4> QED BY <2>1, <4>1, <4>2, Zenon DEF OrdinaryInv
    <3>7. DoneInv'
      BY <2>1, <2>3, Zenon
         DEF DoneInv, EntriesAreExact, MissedForCause, Expected, Missed, Known, Item, Size, mapVars
    <3> QED BY <3>2, <3>3, <3>4, <3>5, <3>6, <3>7, Zenon DEF MapInv
  <2> QED BY <2>2, <2>3
<1> QED BY <1>1, <1>2, PTL DEF MapSpec

(* Up to the first piece of the map that the walk missed each entry of a     *)
(* finished index is there and has the place, the length and the bitmap of   *)
(* its own block, with either decoder and whatever is damaged; it has others *)
(* only where a piece was stepped over (decode_records, _build_index_modern, *)
(* _build_index_legacy, _find_next_block).                                   *)
THEOREM EntriesForAll == MapSpec => []EntriesAreExact
<1>1. MapInv => EntriesAreExact  BY DEF MapInv, DoneInv
<1> QED BY <1>1, MapInvariant, PTL

(* Whatever is damaged, the first piece missed has one before it that was    *)
(* found, and between the two a damaged block, or no block that could have   *)
(* been found (the breaks of discover_inline_chunkmaps_legacy).              *)
THEOREM MissedForAll == MapSpec => []MissedForCause
<1>1. MapInv => MissedForCause  BY DEF MapInv, DoneInv
<1> QED BY <1>1, MapInvariant, PTL

(* No archive that is whole and usual ends in an error, wherever its blocks, *)
(* its pieces and its locators lie (_modern_chunkmap_offset,                 *)
(* _looks_like_inline_metadata, _find_next_block).                           *)
THEOREM WholeForAll == MapSpec => []WholeIsIndexed
<1>1. MapInv => WholeIsIndexed  BY DEF MapInv, OrdinaryInv, WholeIsIndexed
<1> QED BY <1>1, MapInvariant, PTL

-----------------------------------------------------------------------------
(* Index files: a file is a prefix of an index                               *)

(* The first n parts of an index. *)
Prefix(b, n) == [i \in 1..n |-> Part(b, i)]

LEMMA LengthType ==
    ASSUME NEW v \in Versions
    PROVE  Length(v) \in Nat /\ Length(v) >= 2
  BY SidecarAssumption DEF Length, Versions

LEMMA PartType ==
    ASSUME NEW b \in Builds, NEW i \in 1..Length(b.of)
    PROVE  Part(b, i) \in Parts
  BY DEF Parts

LEMMA PrefixFacts ==
    ASSUME NEW b \in Builds, NEW n \in 0..Length(b.of)
    PROVE  /\ Prefix(b, n) \in Seq(Parts) /\ Len(Prefix(b, n)) = n
           /\ \A i \in 1..n : Prefix(b, n)[i] = Part(b, i)
           /\ Prefix(b, Length(b.of)) = Whole(b)
<1>1. Length(b.of) \in Nat  BY LengthType DEF Builds
<1>2. \A i \in 1..n : Part(b, i) \in Parts  BY <1>1, PartType
<1>3. n \in Nat  BY <1>1
<1> QED BY <1>2, <1>3 DEF Prefix, Whole

LEMMA WholeFacts ==
    ASSUME NEW b \in Builds
    PROVE  /\ Whole(b) \in Seq(Parts) /\ Len(Whole(b)) = Length(b.of)
           /\ Whole(b) # << >> /\ Whole(b)[1] = Part(b, 1)
<1>1. Length(b.of) \in Nat /\ Length(b.of) >= 2  BY LengthType DEF Builds
<1>2. Length(b.of) \in 0..Length(b.of)  BY <1>1
<1>3. Prefix(b, Length(b.of)) = Whole(b)  BY <1>2, PrefixFacts
<1>4. /\ Whole(b) \in Seq(Parts) /\ Len(Whole(b)) = Length(b.of)
      /\ \A i \in 1..Length(b.of) : Whole(b)[i] = Part(b, i)
  BY <1>2, <1>3, PrefixFacts
<1> QED BY <1>1, <1>4
-----------------------------------------------------------------------------
(* The inductive invariant *)

ControlInv ==
    /\ kind \in Kinds /\ archive \in Versions
    /\ file # Missing => file \in Seq(Parts)
    /\ pc \in [Processes -> Labels] /\ DOMAIN call = Processes
    /\ built \in [Processes -> Builds] /\ written \in [Processes -> Nat]
    /\ DOMAIN result = Processes
    /\ shared \in BOOLEAN /\ torn \in BOOLEAN
    /\ \A p \in Processes :
          /\ call[p].at \in Nat /\ call[p].at <= archive
          /\ written[p] <= Length(built[p].of)
          /\ pc[p] \notin {"write", "read"} => written[p] = 0
          /\ Writing(p) \/ Reading(p) => file # Missing
          /\ Reading(p) /\ kind # "sector" => written[p] = 0

(* The versions walked were there since the call began. *)
BuiltInv ==
    \A p \in Processes :
       pc[p] \in {"stat", "open", "write"} => built[p].of >= call[p].at

FileInv ==
    ~ shared =>
       /\ \A p, q \in Processes : Writing(p) /\ Writing(q) => p = q
       /\ \A p \in Processes : Writing(p) => file = Prefix(built[p], written[p])
       /\ file # Missing =>
             \E b \in Builds : \E n \in 0..Length(b.of) :
                /\ file = Prefix(b, n)
                /\ n = Length(b.of) \/ torn \/ \E p \in Processes : Writing(p)

IInv == ControlInv /\ BuiltInv /\ FileInv /\ FilesAreCurrent

(* What a process has read is where the file begins, unless the file was     *)
(* begun anew since.                                                         *)
ReadInv ==
    /\ fetched \in [Processes -> Seq(Parts)] /\ overtaken \in [Processes -> BOOLEAN]
    /\ \A p \in Processes : ~ Reading(p) => fetched[p] = << >> /\ ~ overtaken[p]
    /\ ~ shared => \A p \in Processes : Reading(p) /\ ~ overtaken[p] =>
          /\ Len(fetched[p]) <= Len(file)
          /\ \A i \in 1..Len(fetched[p]) : fetched[p][i] = file[i]

LEMMA NotBuiltType == NotBuilt \in Builds /\ 0 <= Length(NotBuilt.of)
<1>1. 0 \in Versions  BY SidecarAssumption DEF Versions
<1>2. NotBuilt \in Builds /\ NotBuilt.of = 0  BY <1>1 DEF NotBuilt, Builds
<1>3. Length(0) \in Nat  BY <1>1, LengthType
<1> QED BY <1>2, <1>3

LEMMA InitHolds == Init => IInv
<1> SUFFICES ASSUME Init PROVE IInv  OBVIOUS
<1>1. 0 \in Versions  BY SidecarAssumption DEF Versions
<1>2. ControlInv
  <2>1. /\ kind \in Kinds /\ archive = 0 /\ archive \in Versions /\ file = Missing
        /\ DOMAIN call = Processes /\ DOMAIN result = Processes
        /\ shared \in BOOLEAN /\ torn \in BOOLEAN
    BY <1>1 DEF Init
  <2>2. pc \in [Processes -> Labels]  BY DEF Init, Labels
  <2>3. built \in [Processes -> Builds]  BY NotBuiltType DEF Init
  <2>4. written \in [Processes -> Nat]  BY DEF Init
  <2>5. ASSUME NEW p \in Processes
        PROVE  /\ call[p].at \in Nat /\ call[p].at <= archive
               /\ written[p] <= Length(built[p].of) /\ written[p] = 0
               /\ ~ Writing(p) /\ ~ Reading(p)
    <3>1. call[p].at = 0 /\ written[p] = 0 /\ built[p] = NotBuilt /\ pc[p] = "idle"
      BY DEF Init
    <3> QED BY <2>1, <3>1, NotBuiltType DEF Writing, Reading
  <2> QED BY <2>1, <2>2, <2>3, <2>4, <2>5 DEF ControlInv
<1>3. BuiltInv /\ FileInv /\ FilesAreCurrent
  BY DEF Init, BuiltInv, FileInv, FilesAreCurrent, Writing
<1> QED BY <1>2, <1>3 DEF IInv

(* A step that leaves the file alone, starts no writer, and marks the file  *)
(* when a writer leaves before its last part.                               *)
LEMMA FileFrame ==
    ASSUME ControlInv, FileInv, UNCHANGED <<file, shared>>, torn => torn',
           \A p \in Processes : (Writing(p))' =>
              Writing(p) /\ built'[p] = built[p] /\ written'[p] = written[p],
           \A p \in Processes : Writing(p) /\ ~ (Writing(p))' =>
              torn' \/ written[p] = Length(built[p].of)
    PROVE  FileInv'
<1> SUFFICES ASSUME ~ shared
             PROVE  /\ \A p, q \in Processes : (Writing(p))' /\ (Writing(q))' => p = q
                    /\ \A p \in Processes : (Writing(p))' => file' = Prefix(built'[p], written'[p])
                    /\ file' # Missing =>
                         \E b \in Builds : \E n \in 0..Length(b.of) :
                            /\ file' = Prefix(b, n)
                            /\ n = Length(b.of) \/ torn' \/ \E p \in Processes : (Writing(p))'
  BY DEF FileInv
<1>1. \A p, q \in Processes : (Writing(p))' /\ (Writing(q))' => p = q  BY DEF FileInv
<1>2. \A p \in Processes : (Writing(p))' => file' = Prefix(built'[p], written'[p])
  BY DEF FileInv
<1>3. ASSUME file' # Missing
      PROVE  \E b \in Builds : \E n \in 0..Length(b.of) :
                /\ file' = Prefix(b, n)
                /\ n = Length(b.of) \/ torn' \/ \E p \in Processes : (Writing(p))'
  <2>1. CASE \E p \in Processes : Writing(p) /\ ~ (Writing(p))'
    <3>1. PICK p \in Processes : Writing(p) /\ ~ (Writing(p))'  BY <2>1
    <3>2. /\ built[p] \in Builds /\ written[p] \in Nat /\ written[p] <= Length(built[p].of)
          /\ file = Prefix(built[p], written[p])
      BY <3>1 DEF ControlInv, FileInv
    <3>3. Length(built[p].of) \in Nat  BY <3>2, LengthType DEF Builds
    <3>4. written[p] \in 0..Length(built[p].of)  BY <3>2, <3>3
    <3> QED BY <3>1, <3>2, <3>4
  <2>2. CASE \A p \in Processes : Writing(p) => (Writing(p))'
    BY <1>3, <2>2 DEF FileInv
  <2> QED BY <2>1, <2>2
<1> QED BY <1>1, <1>2, <1>3
-----------------------------------------------------------------------------
(* A call that ends, and one that goes on without building *)

Still == UNCHANGED <<kind, archive, file, call, shared>>

LEMMA LeaveKeeps ==
    ASSUME IInv, NEW p \in Processes, NEW l \in {"idle", "done"}, Leave(p, l),
           Still, torn' \in BOOLEAN, torn => torn',
           Writing(p) => torn' \/ written[p] = Length(built[p].of),
           DOMAIN result' = Processes, \A q \in Processes \ {p} : result'[q] = result[q],
           l = "done" /\ kind = "files" /\ IsIndex(result'[p]) =>
              (result'[p][1].of = result'[p][1].stamp => result'[p][1].of >= call[p].at)
    PROVE  IInv'
<1> USE DEF Leave, Goto, Still
<1>1. /\ pc' \in [Processes -> Labels] /\ pc'[p] = l
      /\ \A q \in Processes \ {p} : pc'[q] = pc[q]
  BY DEF IInv, ControlInv, Labels
<1>2. /\ built' \in [Processes -> Builds] /\ written' \in [Processes -> Nat]
      /\ built'[p] = NotBuilt /\ written'[p] = 0
      /\ \A q \in Processes \ {p} : built'[q] = built[q] /\ written'[q] = written[q]
  BY NotBuiltType DEF IInv, ControlInv
<1> HIDE DEF Leave, Goto
<1>3. ControlInv'
  <2>1. ASSUME NEW q \in Processes
        PROVE  /\ call'[q].at \in Nat /\ call'[q].at <= archive'
               /\ written'[q] <= Length(built'[q].of)
               /\ pc'[q] \notin {"write", "read"} => written'[q] = 0
               /\ (Writing(q))' \/ (Reading(q))' => file' # Missing
               /\ (Reading(q))' /\ kind' # "sector" => written'[q] = 0
    <3>1. CASE q = p  BY <1>1, <1>2, <3>1, NotBuiltType DEF IInv, ControlInv, Writing, Reading
    <3>2. CASE q # p  BY <1>1, <1>2, <3>2 DEF IInv, ControlInv, Writing, Reading
    <3> QED BY <3>1, <3>2
  <2> QED BY <1>1, <1>2, <2>1 DEF IInv, ControlInv
<1>4. BuiltInv'  BY <1>1, <1>2 DEF IInv, BuiltInv
<1>5. FileInv'
  <2>1. ControlInv /\ FileInv /\ UNCHANGED <<file, shared>>  BY DEF IInv
  <2>2. \A q \in Processes : (Writing(q))' =>
           Writing(q) /\ built'[q] = built[q] /\ written'[q] = written[q]
    BY <1>1, <1>2 DEF Writing
  <2>3. \A q \in Processes : Writing(q) /\ ~ (Writing(q))' =>
           torn' \/ written[q] = Length(built[q].of)
    BY <1>1 DEF Writing
  <2> QED BY <2>1, <2>2, <2>3, FileFrame
<1>6. FilesAreCurrent'
  BY <1>1 DEF IInv, FilesAreCurrent, IsIndex
<1> QED BY <1>3, <1>4, <1>5, <1>6 DEF IInv

LEMMA EndKeeps ==
    ASSUME IInv, NEW p \in Processes, NEW r, End(p, r), Still, torn' \in BOOLEAN,
           kind = "files" /\ IsIndex(r) => (r[1].of = r[1].stamp => r[1].of >= call[p].at),
           torn => torn',
           Writing(p) => torn' \/ written[p] = Length(built[p].of)
    PROVE  IInv'
<1>1. Leave(p, "done")  BY DEF End
<1>2. /\ DOMAIN result' = Processes /\ result'[p] = r
      /\ \A q \in Processes \ {p} : result'[q] = result[q]
  BY DEF End, IInv, ControlInv
<1> QED BY <1>1, <1>2, LeaveKeeps

LEMMA GoKeeps ==
    ASSUME IInv, NEW p \in Processes, NEW l \in Labels \ {"stat", "open", "write", "done"},
           Go(p, l), l = "read" => file # Missing,
           (l = "read" /\ kind = "sector") \/ written[p] = 0,
           Still, torn' = torn,
           Writing(p) => written[p] = Length(built[p].of)
    PROVE  IInv'
<1>1. /\ pc' \in [Processes -> Labels] /\ pc'[p] = l
      /\ \A q \in Processes \ {p} : pc'[q] = pc[q]
      /\ UNCHANGED <<built, written, result>>
  BY DEF IInv, ControlInv, Go, Goto
<1> USE DEF Still
<1>2. ControlInv'  BY <1>1 DEF IInv, ControlInv, Writing, Reading
<1>3. BuiltInv'  BY <1>1 DEF IInv, BuiltInv
<1>4. FileInv'
  <2>1. ControlInv /\ FileInv /\ UNCHANGED <<file, shared>> /\ (torn => torn')  BY DEF IInv
  <2>2. \A q \in Processes : (Writing(q))' =>
           Writing(q) /\ built'[q] = built[q] /\ written'[q] = written[q]
    BY <1>1 DEF Writing
  <2>3. \A q \in Processes : Writing(q) /\ ~ (Writing(q))' =>
           torn' \/ written[q] = Length(built[q].of)
    BY <1>1 DEF Writing
  <2> QED BY <2>1, <2>2, <2>3, FileFrame
<1>5. FilesAreCurrent'  BY <1>1 DEF IInv, FilesAreCurrent, IsIndex
<1> QED BY <1>2, <1>3, <1>4, <1>5 DEF IInv
-----------------------------------------------------------------------------
(* One lemma for each action *)

LEMMA WholeHead ==
    ASSUME NEW b \in Builds
    PROVE  Whole(b)[1].of = b.of
<1>1. Whole(b)[1] = Part(b, 1)  BY WholeFacts
<1> QED BY <1>1 DEF Part

LEMMA BeginKeeps ==
    ASSUME IInv, NEW p \in Processes, Begin(p)
    PROVE  IInv'
<1>1. PICK l \in {"build", "load"} : Goto(p, l)  BY DEF Begin
<1>2. /\ pc' \in [Processes -> Labels] /\ pc'[p] \in {"build", "load"}
      /\ \A q \in Processes \ {p} : pc'[q] = pc[q]
      /\ ~ Writing(p) /\ ~ Reading(p)
  BY <1>1 DEF IInv, ControlInv, Goto, Labels, Begin, Writing, Reading
<1>3. /\ DOMAIN call' = Processes /\ call'[p].at = archive
      /\ \A q \in Processes \ {p} : call'[q] = call[q]
      /\ DOMAIN result' = Processes
      /\ \A q \in Processes \ {p} : result'[q] = result[q]
      /\ UNCHANGED <<kind, archive, file, built, written, shared, torn>>
  BY DEF IInv, ControlInv, Begin
<1>4. archive \in Nat  BY DEF IInv, ControlInv, Versions
<1>5. ControlInv'
  <2>1. ASSUME NEW q \in Processes
        PROVE  /\ call'[q].at \in Nat /\ call'[q].at <= archive'
               /\ written'[q] <= Length(built'[q].of)
               /\ pc'[q] \notin {"write", "read"} => written'[q] = 0
               /\ (Writing(q))' \/ (Reading(q))' => file' # Missing
               /\ (Reading(q))' /\ kind' # "sector" => written'[q] = 0
    <3>1. CASE q = p  BY <1>2, <1>3, <1>4, <3>1 DEF IInv, ControlInv, Writing, Reading
    <3>2. CASE q # p  BY <1>2, <1>3, <3>2 DEF IInv, ControlInv, Writing, Reading
    <3> QED BY <3>1, <3>2
  <2> QED BY <1>2, <1>3, <2>1 DEF IInv, ControlInv
<1>6. BuiltInv'  BY <1>2, <1>3 DEF IInv, BuiltInv
<1>7. FileInv'
  <2>1. ControlInv /\ FileInv /\ UNCHANGED <<file, shared>> /\ (torn => torn')
    BY <1>3 DEF IInv
  <2>2. \A q \in Processes : (Writing(q))' =>
           Writing(q) /\ built'[q] = built[q] /\ written'[q] = written[q]
    BY <1>2, <1>3 DEF Writing
  <2>3. \A q \in Processes : Writing(q) /\ ~ (Writing(q))' =>
           torn' \/ written[q] = Length(built[q].of)
    BY <1>2 DEF Writing
  <2> QED BY <2>1, <2>2, <2>3, FileFrame
<1>8. FilesAreCurrent'  BY <1>2, <1>3 DEF IInv, FilesAreCurrent, IsIndex
<1> QED BY <1>5, <1>6, <1>7, <1>8 DEF IInv

LEMMA LoadKeeps ==
    ASSUME IInv, NEW p \in Processes, Load(p)
    PROVE  IInv'
<1>1. Still /\ torn' = torn /\ ~ Writing(p) /\ written[p] = 0
  BY DEF Load, Still, Writing, IInv, ControlInv
<1>2. CASE file = Missing  BY <1>1, <1>2, GoKeeps DEF Load, Labels
<1>3. CASE file # Missing  BY <1>1, <1>3, GoKeeps DEF Load, Labels
<1> QED BY <1>2, <1>3

LEMMA FetchKeeps ==
    ASSUME IInv, NEW p \in Processes, Fetch(p)
    PROVE  IInv'
<1>1. UNCHANGED <<kind, archive, file, pc, call, built, written, result, shared, torn>>
  BY DEF Fetch
<1>2. ControlInv' /\ BuiltInv'  BY <1>1 DEF IInv, ControlInv, BuiltInv, Writing, Reading
<1>3. FileInv' /\ FilesAreCurrent'
  BY <1>1 DEF IInv, FileInv, FilesAreCurrent, IsIndex, Writing
<1> QED BY <1>2, <1>3 DEF IInv

LEMMA AcceptKeeps ==
    ASSUME IInv, NEW p \in Processes, Accept(p)
    PROVE  IInv'
<1>1. /\ Still /\ torn' = torn /\ ~ Writing(p) /\ torn' \in BOOLEAN /\ (torn => torn')
      /\ kind # "sector" => written[p] = 0
  BY DEF Accept, Still, Writing, Reading, IInv, ControlInv
<1>2. CASE kind = "sector" /\ Construct(p)
  <2>1. PICK r : End(p, r)  BY <1>2 DEF Construct
  <2> QED BY <1>1, <1>2, <2>1, EndKeeps
<1>3. CASE kind = "files" /\ LoadFiles(p)
  <2>1. CASE Go(p, "build")  BY <1>1, <1>3, <2>1, GoKeeps DEF Labels
  <2>2. CASE End(p, fetched[p]) /\ fetched[p][1].stamp = archive
    <3>1. call[p].at \in Nat /\ call[p].at <= archive  BY DEF IInv, ControlInv
    <3>2. fetched[p][1].of = fetched[p][1].stamp => fetched[p][1].of >= call[p].at
      BY <2>2, <3>1 DEF IInv, ControlInv, Versions
    <3> QED BY <1>1, <2>2, <3>2, EndKeeps
  <2> QED BY <1>3, <2>1, <2>2 DEF LoadFiles
<1>4. CASE kind = "segments" /\ LoadSegments(p)
  <2>1. CASE Go(p, "build")  BY <1>1, <1>4, <2>1, GoKeeps DEF Labels
  <2>2. CASE End(p, Taken(fetched[p]))  BY <1>1, <1>4, <2>2, EndKeeps
  <2> QED BY <1>4, <2>1, <2>2 DEF LoadSegments
<1> QED BY <1>2, <1>3, <1>4 DEF Accept

(* A call that has walked the archive, or has size and mtime of it. *)
LEMMA BuiltKeeps ==
    ASSUME IInv, NEW p \in Processes, NEW b \in Builds, NEW l \in {"stat", "open"},
           built' = [built EXCEPT ![p] = b], Goto(p, l), UNCHANGED <<written, result>>,
           Still, torn' = torn, b.of >= call[p].at, pc[p] \in {"build", "stat"}
    PROVE  IInv'
<1>1. /\ pc' \in [Processes -> Labels] /\ pc'[p] = l
      /\ \A q \in Processes \ {p} : pc'[q] = pc[q]
  BY DEF IInv, ControlInv, Goto, Labels
<1>2. /\ built' \in [Processes -> Builds] /\ built'[p] = b
      /\ \A q \in Processes \ {p} : built'[q] = built[q]
  BY DEF IInv, ControlInv
<1>3. written[p] = 0 /\ 0 <= Length(b.of)
  <2>1. Length(b.of) \in Nat  BY LengthType DEF Builds
  <2> QED BY <2>1 DEF IInv, ControlInv
<1> USE DEF Still
<1>4. ControlInv'
  <2>1. ASSUME NEW q \in Processes
        PROVE  /\ call'[q].at \in Nat /\ call'[q].at <= archive'
               /\ written'[q] <= Length(built'[q].of)
               /\ pc'[q] \notin {"write", "read"} => written'[q] = 0
               /\ (Writing(q))' \/ (Reading(q))' => file' # Missing
               /\ (Reading(q))' /\ kind' # "sector" => written'[q] = 0
    <3>1. CASE q = p  BY <1>1, <1>2, <1>3, <3>1 DEF IInv, ControlInv, Writing, Reading
    <3>2. CASE q # p  BY <1>1, <1>2, <3>2 DEF IInv, ControlInv, Writing, Reading
    <3> QED BY <3>1, <3>2
  <2> QED BY <1>1, <1>2, <2>1 DEF IInv, ControlInv
<1>5. BuiltInv'  BY <1>1, <1>2 DEF IInv, BuiltInv
<1>6. FileInv'
  <2>1. ControlInv /\ FileInv /\ UNCHANGED <<file, shared>> /\ (torn => torn')
    BY DEF IInv
  <2>2. \A q \in Processes : (Writing(q))' =>
           Writing(q) /\ built'[q] = built[q] /\ written'[q] = written[q]
    BY <1>1, <1>2 DEF Writing
  <2>3. \A q \in Processes : Writing(q) /\ ~ (Writing(q))' =>
           torn' \/ written[q] = Length(built[q].of)
    BY <1>1 DEF Writing
  <2> QED BY <2>1, <2>2, <2>3, FileFrame
<1>7. FilesAreCurrent'  BY <1>1 DEF IInv, FilesAreCurrent, IsIndex
<1> QED BY <1>4, <1>5, <1>6, <1>7 DEF IInv

LEMMA BuildKeeps ==
    ASSUME IInv, NEW p \in Processes, Build(p)
    PROVE  IInv'
<1> DEFINE b == [of |-> archive, stamp |-> archive]
<1>1. /\ Still /\ torn' = torn /\ ~ Writing(p) /\ pc[p] = "build"
      /\ torn' \in BOOLEAN /\ (torn => torn') /\ b \in Builds /\ b.of >= call[p].at
  BY DEF Build, Still, Writing, IInv, ControlInv, Builds, Versions
<1>2. CASE kind = "files" \/ Saves(p)
  <2>1. PICK l \in {"stat", "open"} : Goto(p, l)  BY <1>2 DEF Build
  <2>2. built' = [built EXCEPT ![p] = b] /\ UNCHANGED <<written, result>>
    BY <1>2 DEF Build
  <2> HIDE DEF b
  <2> QED BY <1>1, <2>1, <2>2, BuiltKeeps
<1>3. CASE ~ (kind = "files" \/ Saves(p))
  <2>1. kind # "files" /\ End(p, Whole(b))  BY <1>3 DEF Build
  <2> HIDE DEF b
  <2> QED BY <1>1, <2>1, EndKeeps
<1> QED BY <1>2, <1>3

LEMMA StatKeeps ==
    ASSUME IInv, NEW p \in Processes, Stat(p)
    PROVE  IInv'
<1> DEFINE b == [built[p] EXCEPT !.stamp = archive]
<1>1. /\ Still /\ torn' = torn /\ ~ Writing(p) /\ pc[p] = "stat"
      /\ torn' \in BOOLEAN /\ (torn => torn') /\ b \in Builds /\ b.of >= call[p].at
  BY DEF Stat, Still, Writing, IInv, ControlInv, BuiltInv, Builds
<1>2. CASE Saves(p)
  <2>1. /\ built' = [built EXCEPT ![p] = b] /\ Goto(p, "open")
        /\ UNCHANGED <<written, result>>
    BY <1>2 DEF Stat
  <2> HIDE DEF b
  <2> QED BY <1>1, <2>1, BuiltKeeps
<1>3. CASE ~ Saves(p)
  <2>1. End(p, Whole(b))  BY <1>3 DEF Stat
  <2> HIDE DEF b
  <2>2. Whole(b)[1].of = b.of  BY <1>1, WholeHead
  <2> QED BY <1>1, <2>1, <2>2, EndKeeps
<1> QED BY <1>2, <1>3

LEMMA OpenKeeps ==
    ASSUME IInv, NEW p \in Processes, Open(p)
    PROVE  IInv'
<1>1. /\ pc' \in [Processes -> Labels] /\ pc'[p] = "write" /\ pc[p] = "open"
      /\ \A q \in Processes \ {p} : pc'[q] = pc[q]
      /\ UNCHANGED <<kind, archive, call, built, result>>
      /\ file' \in Seq(Parts) /\ file' # Missing
  <2>1. file' = << >> /\ << >> \in Seq(Parts)  BY DEF Open
  <2>2. file' \in Seq(Parts) /\ file' # Missing  BY <2>1, ErrorsAssumption
  <2> QED BY <2>2 DEF IInv, ControlInv, Goto, Labels, Open
<1>0. file' = << >> /\ shared' = ~ Alone(p) /\ torn' = FALSE  BY DEF Open
<1>2. /\ written' \in [Processes -> Nat] /\ written'[p] = 0
      /\ \A q \in Processes \ {p} : written'[q] = written[q]
  BY DEF IInv, ControlInv, Open
<1>3. built[p] \in Builds /\ 0 \in 0..Length(built[p].of) /\ 0 <= Length(built[p].of)
  <2>1. built[p] \in Builds  BY DEF IInv, ControlInv
  <2>2. Length(built[p].of) \in Nat  BY <2>1, LengthType DEF Builds
  <2> QED BY <2>1, <2>2
<1>4. ControlInv'
  <2>1. ASSUME NEW q \in Processes
        PROVE  /\ call'[q].at \in Nat /\ call'[q].at <= archive'
               /\ written'[q] <= Length(built'[q].of)
               /\ pc'[q] \notin {"write", "read"} => written'[q] = 0
               /\ (Writing(q))' \/ (Reading(q))' => file' # Missing
               /\ (Reading(q))' /\ kind' # "sector" => written'[q] = 0
    <3>1. CASE q = p  BY <1>1, <1>2, <1>3, <3>1 DEF IInv, ControlInv, Reading
    <3>2. CASE q # p  BY <1>1, <1>2, <3>2 DEF IInv, ControlInv, Reading
    <3> QED BY <3>1, <3>2
  <2>2. shared' \in BOOLEAN /\ torn' \in BOOLEAN  BY <1>0
  <2> QED BY <1>1, <1>2, <2>1, <2>2 DEF IInv, ControlInv
<1>5. BuiltInv'  BY <1>1 DEF IInv, BuiltInv
<1>6. FileInv'
  <2> SUFFICES ASSUME Alone(p) PROVE FileInv'  BY <1>0 DEF FileInv
  <2>1. \A q \in Processes : (Writing(q))' <=> q = p
    BY <1>1 DEF Alone, Writing
  <2>2. file' = Prefix(built[p], 0)  BY <1>0 DEF Prefix
  <2>3. built'[p] = built[p]  BY <1>1
  <2> QED BY <1>2, <1>3, <2>1, <2>2, <2>3 DEF FileInv
<1>7. FilesAreCurrent'  BY <1>1 DEF IInv, FilesAreCurrent, IsIndex
<1> QED BY <1>4, <1>5, <1>6, <1>7 DEF IInv

LEMMA WriteKeeps ==
    ASSUME IInv, NEW p \in Processes, Write(p)
    PROVE  IInv'
<1> DEFINE i == written[p] + 1
           n == IF Len(file) > i THEN Len(file) ELSE i
<1>1. /\ UNCHANGED <<kind, archive, pc, call, built, result, torn>>
      /\ Writing(p) /\ written[p] < Length(built[p].of)
      /\ file' = [j \in 1..n |-> IF j = i THEN Part(built[p], i)
                                 ELSE IF j <= Len(file) THEN file[j] ELSE Gap]
      /\ written' = [written EXCEPT ![p] = i]
  BY DEF Write
<1>2. shared' = (shared \/ ~ Alone(p))  BY DEF Write
<1>3. /\ built[p] \in Builds /\ written[p] \in Nat /\ i \in 1..Length(built[p].of)
      /\ Length(built[p].of) \in Nat /\ file \in Seq(Parts)
  <2>1. /\ built[p] \in Builds /\ written[p] \in Nat /\ file \in Seq(Parts)
    BY <1>1 DEF IInv, ControlInv
  <2>2. Length(built[p].of) \in Nat  BY <2>1, LengthType DEF Builds
  <2> QED BY <1>1, <2>1, <2>2
<1>4. file' \in Seq(Parts)
  <2>1. Part(built[p], i) \in Parts /\ Gap \in Parts
    <3> HIDE DEF i
    <3> QED BY <1>3, PartType DEF Parts
  <2>2. n \in Nat /\ \A j \in 1..Len(file) : file[j] \in Parts  BY <1>3
  <2> HIDE DEF i, n
  <2>3. \A j \in 1..n : (IF j = i THEN Part(built[p], i)
                         ELSE IF j <= Len(file) THEN file[j] ELSE Gap) \in Parts
    BY <1>3, <2>1, <2>2
  <2> QED BY <1>1, <2>2, <2>3
<1>5. file' # Missing  BY <1>4, ErrorsAssumption
<1>6. /\ written' \in [Processes -> Nat] /\ written'[p] = i
      /\ \A q \in Processes \ {p} : written'[q] = written[q]
  BY <1>1, <1>3 DEF IInv, ControlInv
<1>7. ControlInv'
  <2>1. ASSUME NEW q \in Processes
        PROVE  /\ call'[q].at \in Nat /\ call'[q].at <= archive'
               /\ written'[q] <= Length(built'[q].of)
               /\ pc'[q] \notin {"write", "read"} => written'[q] = 0
               /\ (Writing(q))' \/ (Reading(q))' => file' # Missing
               /\ (Reading(q))' /\ kind' # "sector" => written'[q] = 0
    <3> HIDE DEF n
    <3>1. CASE q = p  BY <1>1, <1>3, <1>5, <1>6, <3>1 DEF IInv, ControlInv, Writing, Reading
    <3>2. CASE q # p  BY <1>1, <1>5, <1>6, <3>2 DEF IInv, ControlInv, Writing, Reading
    <3> QED BY <3>1, <3>2
  <2>2. shared' \in BOOLEAN  BY <1>2
  <2> HIDE DEF i, n
  <2> QED BY <1>1, <1>4, <1>6, <2>1, <2>2 DEF IInv, ControlInv
<1>8. BuiltInv' /\ FilesAreCurrent'
  BY <1>1 DEF IInv, BuiltInv, FilesAreCurrent, IsIndex
<1>9. FileInv'
  <2> SUFFICES ASSUME ~ shared, Alone(p) PROVE FileInv'  BY <1>2 DEF FileInv
  <2>1. \A q \in Processes : (Writing(q))' <=> q = p
    BY <1>1 DEF Alone, Writing
  <2>2. file = Prefix(built[p], written[p])  BY <1>1 DEF IInv, FileInv
  <2>3. Len(file) = written[p] /\ \A j \in 1..written[p] : file[j] = Part(built[p], j)
    <3>1. written[p] \in 0..Length(built[p].of)  BY <1>3
    <3> QED BY <1>3, <2>2, <3>1, PrefixFacts
  <2>4. file' = Prefix(built[p], i)
    <3>1. n = i  BY <1>3, <2>3
    <3>2. \A j \in 1..i : (IF j = i THEN Part(built[p], i)
                           ELSE IF j <= Len(file) THEN file[j] ELSE Gap) = Part(built[p], j)
      BY <1>3, <2>3
    <3> HIDE DEF i, n
    <3> QED BY <1>1, <3>1, <3>2 DEF Prefix
  <2>5. built'[p] = built[p] /\ i \in 0..Length(built[p].of)  BY <1>1, <1>3
  <2> HIDE DEF i, n
  <2> QED BY <1>3, <1>6, <2>1, <2>4, <2>5 DEF FileInv
<1> QED BY <1>7, <1>8, <1>9 DEF IInv

LEMMA CloseKeeps ==
    ASSUME IInv, NEW p \in Processes, Close(p)
    PROVE  IInv'
<1>1. /\ Still /\ torn' = torn /\ Writing(p) /\ written[p] = Length(built[p].of)
      /\ torn' \in BOOLEAN /\ (torn => torn') /\ built[p] \in Builds
      /\ built[p].of >= call[p].at /\ file # Missing
  BY DEF Close, Still, Writing, IInv, ControlInv, BuiltInv
<1>2. CASE kind = "sector" /\ call[p].mode = "open"
  BY <1>1, <1>2, GoKeeps DEF Close, Labels
<1>3. CASE ~ (kind = "sector" /\ call[p].mode = "open")
  <2>1. CASE End(p, NoIndex)
    <3>1. ~ IsIndex(NoIndex)  BY DEF IsIndex
    <3> QED BY <1>1, <2>1, <3>1, EndKeeps
  <2>2. CASE End(p, Whole(built[p]))
    <3>1. Whole(built[p])[1].of = built[p].of  BY <1>1, WholeHead
    <3> QED BY <1>1, <2>2, <3>1, EndKeeps
  <2> QED BY <1>3, <2>1, <2>2 DEF Close
<1> QED BY <1>2, <1>3

LEMMA FailKeeps ==
    ASSUME IInv, NEW p \in Processes, Fail(p)
    PROVE  IInv'
<1>1. /\ Still /\ torn' \in BOOLEAN /\ (torn => torn') /\ (Writing(p) => torn')
      /\ built[p] \in Builds /\ built[p].of >= call[p].at
  BY DEF Fail, Still, Writing, IInv, ControlInv, BuiltInv
<1>2. CASE End(p, NotSaved)
  <2>1. ~ IsIndex(NotSaved)  BY DEF IsIndex, Errors
  <2> QED BY <1>1, <1>2, <2>1, EndKeeps
<1>3. CASE End(p, Whole(built[p]))
  <2>1. Whole(built[p])[1].of = built[p].of  BY <1>1, WholeHead
  <2> QED BY <1>1, <1>3, <2>1, EndKeeps
<1> QED BY <1>2, <1>3 DEF Fail

LEMMA CrashKeeps ==
    ASSUME IInv, NEW p \in Processes, Crash(p)
    PROVE  IInv'
<1>1. /\ Still /\ torn' \in BOOLEAN /\ (torn => torn') /\ (Writing(p) => torn')
      /\ Leave(p, "idle") /\ result' = result /\ DOMAIN result = Processes
  BY DEF Crash, Still, Writing, IInv, ControlInv
<1> QED BY <1>1, LeaveKeeps

LEMMA ReplaceKeeps ==
    ASSUME IInv, Replace
    PROVE  IInv'
<1>1. /\ UNCHANGED <<kind, file, pc, call, built, written, result, shared, torn>>
      /\ archive \in Nat /\ archive' = archive + 1 /\ archive' \in Versions
  BY SidecarAssumption DEF Replace, IInv, ControlInv, Versions
<1>2. ControlInv'  BY <1>1 DEF IInv, ControlInv, Writing, Reading
<1>3. BuiltInv' /\ FilesAreCurrent'
  BY <1>1 DEF IInv, BuiltInv, FilesAreCurrent, IsIndex
<1>4. FileInv'  BY <1>1 DEF IInv, FileInv, Writing
<1> QED BY <1>2, <1>3, <1>4 DEF IInv

LEMMA NextKeeps == IInv /\ [Next]_vars => IInv'
<1> SUFFICES ASSUME IInv, [Next]_vars PROVE IInv'  OBVIOUS
<1>1. CASE Replace  BY <1>1, ReplaceKeeps
<1>2. ASSUME NEW p \in Processes, Begin(p) \/ Step(p) \/ Fail(p) \/ Crash(p)
      PROVE  IInv'
  BY <1>2, BeginKeeps, LoadKeeps, FetchKeeps, AcceptKeeps, BuildKeeps, StatKeeps, OpenKeeps,
     WriteKeeps, CloseKeeps, FailKeeps, CrashKeeps DEF Step
<1>3. CASE UNCHANGED vars
  BY <1>3 DEF vars, IInv, ControlInv, BuiltInv, FileInv, FilesAreCurrent, IsIndex, Writing, Reading
<1> QED BY <1>1, <1>2, <1>3 DEF Next

-----------------------------------------------------------------------------
(* What has been read *)

(* Steps that leave the file alone and take up no reader's place in it. *)
LEMMA ReadsStay ==
    ASSUME ReadInv, IInv', UNCHANGED <<file, shared, reading>>,
           \A q \in Processes : Reading(q) => (Reading(q))'
    PROVE  ReadInv'
<1>1. fetched' = fetched /\ overtaken' = overtaken /\ file' = file /\ shared' = shared
  BY DEF reading
<1>2. ASSUME NEW q \in Processes, (Reading(q))', ~ shared, ~ overtaken[q]
      PROVE  Len(fetched[q]) <= Len(file) /\ \A i \in 1..Len(fetched[q]) : fetched[q][i] = file[i]
  <2>1. CASE Reading(q)  BY <1>2, <2>1 DEF ReadInv
  <2>2. CASE ~ Reading(q)
    <3>1. fetched[q] = << >>  BY <2>2 DEF ReadInv
    <3>2. file \in Seq(Parts)  BY <1>1, <1>2 DEF IInv, ControlInv
    <3> QED BY <3>1, <3>2
  <2> QED BY <2>1, <2>2
<1> QED BY <1>1, <1>2 DEF ReadInv

LEMMA ReadsEnd ==
    ASSUME ReadInv, NEW p \in Processes, UNCHANGED <<file, shared>>, StopReading(p),
           (~ Reading(p))', \A q \in Processes \ {p} : (Reading(q))' = Reading(q)
    PROVE  ReadInv'
<1>1. << >> \in Seq(Parts) /\ Len(<< >>) = 0  OBVIOUS
<1>2. /\ fetched' \in [Processes -> Seq(Parts)] /\ fetched'[p] = << >>
      /\ overtaken' \in [Processes -> BOOLEAN] /\ ~ overtaken'[p]
      /\ \A q \in Processes \ {p} : fetched'[q] = fetched[q] /\ overtaken'[q] = overtaken[q]
  BY <1>1 DEF ReadInv, StopReading
<1>3. \A q \in Processes : (~ Reading(q))' => fetched'[q] = << >> /\ ~ overtaken'[q]
  BY <1>2 DEF ReadInv
<1>4. ASSUME ~ shared, NEW q \in Processes, (Reading(q))', ~ overtaken'[q]
      PROVE  /\ Len(fetched'[q]) <= Len(file')
             /\ \A i \in 1..Len(fetched'[q]) : fetched'[q][i] = file'[i]
  <2>1. q # p /\ Reading(q) /\ fetched'[q] = fetched[q] /\ ~ overtaken[q]  BY <1>2, <1>4
  <2> QED BY <1>4, <2>1 DEF ReadInv
<1> QED BY <1>2, <1>3, <1>4 DEF ReadInv

LEMMA FetchReads ==
    ASSUME ReadInv, IInv, NEW p \in Processes, Fetch(p)
    PROVE  ReadInv'
<1>1. /\ Reading(p) /\ UNCHANGED <<file, pc, shared, overtaken>>
      /\ fetched' = [fetched EXCEPT ![p] = Append(fetched[p], file[Len(fetched[p]) + 1])]
      /\ ~ (Len(fetched[p]) >= Len(file))
  BY DEF Fetch, Ended
<1>2. file \in Seq(Parts) /\ fetched[p] \in Seq(Parts)
  BY <1>1 DEF IInv, ControlInv, ReadInv
<1> DEFINE n == Len(fetched[p])
           new == Append(fetched[p], file[n + 1])
<1>3. n \in Nat /\ n + 1 \in 1..Len(file) /\ file[n + 1] \in Parts
  BY <1>1, <1>2
<1>4. /\ new \in Seq(Parts) /\ Len(new) = n + 1 /\ new[n + 1] = file[n + 1]
      /\ \A i \in 1..n : new[i] = fetched[p][i]
  BY <1>2, <1>3
<1>5. /\ fetched' \in [Processes -> Seq(Parts)] /\ fetched'[p] = new
      /\ \A q \in Processes \ {p} : fetched'[q] = fetched[q]
  BY <1>1, <1>4 DEF ReadInv
<1>6. ASSUME ~ shared, ~ overtaken[p]
      PROVE  Len(new) <= Len(file) /\ \A i \in 1..Len(new) : new[i] = file[i]
  <2>1. \A i \in 1..n : fetched[p][i] = file[i]  BY <1>1, <1>6 DEF ReadInv
  <2>2. \A i \in 1..(n + 1) : i \in 1..n \/ i = n + 1  BY <1>3
  <2> HIDE DEF new, n
  <2>3. \A i \in 1..(n + 1) : new[i] = file[i]  BY <1>4, <2>1, <2>2
  <2>4. n + 1 <= Len(file)  BY <1>2, <1>3
  <2> QED BY <1>4, <2>3, <2>4
<1> HIDE DEF new, n
<1>7. \A q \in Processes : (Reading(q))' = Reading(q)  BY <1>1 DEF Reading
<1> QED BY <1>1, <1>5, <1>6, <1>7 DEF ReadInv

LEMMA OpenReads ==
    ASSUME ReadInv, IInv, NEW p \in Processes, Open(p)
    PROVE  ReadInv'
<1>1. /\ \A q \in Processes : (Reading(q))' = Reading(q)
      /\ overtaken' = [q \in Processes |-> overtaken[q] \/ Reading(q)] /\ fetched' = fetched
  BY DEF Open, Goto, Reading, IInv, ControlInv
<1> QED BY <1>1 DEF ReadInv

LEMMA WriteReads ==
    ASSUME ReadInv, IInv, NEW p \in Processes, Write(p)
    PROVE  ReadInv'
<1>1. /\ UNCHANGED <<pc, fetched, overtaken>> /\ Writing(p) /\ shared' = (shared \/ ~ Alone(p))
  BY DEF Write, reading
<1>2. \A q \in Processes : (Reading(q))' = Reading(q)  BY <1>1 DEF Reading
<1>3. ASSUME ~ shared
      PROVE  /\ Len(file) \in Nat /\ Len(file) <= Len(file')
             /\ \A i \in 1..Len(file) : file'[i] = file[i]
  <2>1. /\ file = Prefix(built[p], written[p]) /\ built[p] \in Builds /\ written[p] \in Nat
        /\ written[p] < Length(built[p].of) /\ Length(built[p].of) \in Nat
    BY <1>1, <1>3, LengthType DEF Write, IInv, ControlInv, FileInv, Builds
  <2>2. Len(file) = written[p]
    <3>1. written[p] \in 0..Length(built[p].of)  BY <2>1
    <3> QED BY <2>1, <3>1, PrefixFacts
  <2>3. PICK k \in Nat : k = written[p]  BY <2>1
  <2>4. file' = [j \in 1..(k + 1) |-> IF j = k + 1 THEN Part(built[p], k + 1)
                                      ELSE IF j <= k THEN file[j] ELSE Gap]
    <3>1. ~ (Len(file) > k + 1)  BY <2>2, <2>3
    <3> QED BY <2>2, <2>3, <3>1 DEF Write
  <2>5. Len(file') = k + 1  BY <2>3, <2>4
  <2>6. \A i \in 1..k : file'[i] = file[i]  BY <2>3, <2>4
  <2> QED BY <2>2, <2>3, <2>5, <2>6
<1>4. ASSUME NEW q \in Processes, Reading(q), ~ overtaken[q], ~ shared
      PROVE  Len(fetched[q]) <= Len(file') /\ \A i \in 1..Len(fetched[q]) : fetched[q][i] = file'[i]
  <2>1. /\ Len(fetched[q]) <= Len(file) /\ Len(fetched[q]) \in Nat /\ Len(file') \in Nat
        /\ \A i \in 1..Len(fetched[q]) : fetched[q][i] = file[i]
    <3>1. fetched[q] \in Seq(Parts)  BY DEF ReadInv
    <3>2. Len(file') \in Nat
      <4>1. IInv'  BY WriteKeeps
      <4>2. Writing(p)'  BY <1>1 DEF Writing
      <4>3. file' \in Seq(Parts)  BY <4>1, <4>2 DEF IInv, ControlInv
      <4> QED BY <4>3
    <3> QED BY <1>4, <3>1, <3>2 DEF ReadInv
  <2>2. PICK m \in Nat, k \in Nat : m = Len(fetched[q]) /\ k = Len(file)
    BY <1>3, <1>4, <2>1
  <2>3. \A i \in 1..m : i \in 1..k  BY <2>1, <2>2
  <2> QED BY <1>3, <1>4, <2>1, <2>2, <2>3
<1> QED BY <1>1, <1>2, <1>4 DEF ReadInv

LEMMA ReadKeeps == IInv /\ ReadInv /\ [Next]_vars => ReadInv'
<1> SUFFICES ASSUME IInv, ReadInv, [Next]_vars PROVE ReadInv'  OBVIOUS
<1>0. IInv' /\ pc \in [Processes -> Labels]  BY NextKeeps DEF IInv, ControlInv
<1>1. CASE Replace \/ UNCHANGED vars
  <2>1. UNCHANGED <<pc, file, shared, reading>>  BY <1>1 DEF Replace, vars, reading
  <2> QED BY <1>0, <2>1, ReadsStay DEF Reading
<1>2. ASSUME NEW p \in Processes, Begin(p) \/ Step(p) \/ Fail(p) \/ Crash(p)
      PROVE  ReadInv'
  <2>1. CASE Begin(p) \/ Load(p) \/ Build(p) \/ Stat(p) \/ Close(p) \/ Fail(p)
    <3>1. UNCHANGED <<file, shared, reading>> /\ ~ Reading(p) /\ \E l : Goto(p, l)
      BY <2>1 DEF Begin, Load, Build, Stat, Close, Fail, End, Leave, Go, Reading, Writing
    <3>2. \A q \in Processes : Reading(q) => (Reading(q))'  BY <1>0, <3>1 DEF Goto, Reading
    <3> QED BY <1>0, <3>1, <3>2, ReadsStay
  <2>2. CASE Accept(p) \/ Crash(p)
    <3>1. UNCHANGED <<file, shared>> /\ StopReading(p) /\ \E l : Goto(p, l)
      BY <2>2 DEF Accept, Crash, Construct, LoadFiles, LoadSegments, End, Leave, Go
    <3>2. \A q \in Processes \ {p} : (Reading(q))' = Reading(q)  BY <1>0, <3>1 DEF Goto, Reading
    <3>3. pc'[p] # "read"
      BY <1>0, <2>2 DEF Accept, Crash, Construct, LoadFiles, LoadSegments, End, Leave, Go, Goto
    <3> QED BY <3>1, <3>2, <3>3, ReadsEnd DEF Reading
  <2> QED BY <1>2, <2>1, <2>2, FetchReads, OpenReads, WriteReads DEF Step
<1> QED BY <1>1, <1>2 DEF Next

LEMMA InitReads == Init => ReadInv
<1>1. << >> \in Seq(Parts) /\ Len(<< >>) = 0  OBVIOUS
<1> QED BY <1>1 DEF Init, ReadInv, Reading

LEMMA Inductive == Spec => [](IInv /\ ReadInv)
  BY InitHolds, NextKeeps, InitReads, ReadKeeps, PTL DEF Spec
-----------------------------------------------------------------------------
(* What follows *)

(* An index of a file-mode archive is of a version that was there during the *)
(* call (load_index, build_index).                                           *)
THEOREM CurrentForAll == Spec => []FilesAreCurrent
  BY Inductive, PTL DEF IInv

LEMMA WholeIsSound ==
    ASSUME NEW b \in Builds
    PROVE  Complete(Whole(b)) /\ Uniform(Whole(b)) /\ Enough(Whole(b)) /\ Taken(Whole(b)) = Whole(b)
<1>1. /\ Whole(b) \in Seq(Parts) /\ Len(Whole(b)) = Length(b.of) /\ Whole(b) # << >>
      /\ Whole(b)[1] = Part(b, 1) /\ Length(b.of) \in Nat
  BY WholeFacts, LengthType DEF Builds
<1>2. \A i \in 1..Length(b.of) : Whole(b)[i] = Part(b, i) /\ Part(b, i) # Gap
  BY ErrorsAssumption DEF Whole
<1>3. Whole(b)[1].of = b.of  BY WholeHead
<1>4. Headed(Whole(b)) /\ 1 \in 1..Length(b.of)
  <2>1. 1 \in 1..Length(b.of)  BY LengthType DEF Builds
  <2> QED BY <1>1, <1>2, <2>1 DEF Headed
<1>5. Complete(Whole(b)) /\ Enough(Whole(b))
  BY <1>1, <1>2, <1>3, <1>4 DEF Complete, Enough
<1>6. Uniform(Whole(b))
  <2>1. \A i \in 1..Length(b.of) : Part(b, i) = [Part(b, 1) EXCEPT !.at = i]  BY DEF Part
  <2> QED BY <1>1, <1>2, <2>1 DEF Uniform
<1>7. Taken(Whole(b)) = Whole(b)
  BY <1>1, <1>3 DEF Taken
<1> QED BY <1>5, <1>6, <1>7

(* A save that nobody disturbs leaves an index that the next open accepts    *)
(* (save_index, save_seg_index, build_index).                                *)
THEOREM SavedForAll == Spec => []SavedIsFound
<1>1. IInv => SavedIsFound
  <2> SUFFICES ASSUME IInv, file # Missing, ~ torn, ~ shared, \A p \in Processes : ~ Writing(p)
               PROVE  Complete(file) /\ Uniform(file)
    BY DEF SavedIsFound
  <2>1. PICK b \in Builds : file = Prefix(b, Length(b.of))  BY DEF IInv, FileInv
  <2>2. Length(b.of) \in 0..Length(b.of)  BY LengthType DEF Builds
  <2>3. file = Whole(b)  BY <2>1, <2>2, PrefixFacts
  <2> QED BY <2>3, WholeIsSound
<1> QED BY <1>1, Inductive, PTL

(* Only the decision on what was read ends a call that reads. *)
LEMMA EndsByReading ==
    ASSUME IInv, [Next]_vars, NEW p \in Processes, Reading(p), pc'[p] = "done"
    PROVE  Accept(p)
<1>0. pc \in [Processes -> Labels] /\ pc[p] = "read"  BY DEF IInv, ControlInv, Reading
<1>1. CASE UNCHANGED vars \/ Replace  BY <1>0, <1>1 DEF vars, Replace
<1>2. ASSUME NEW q \in Processes, Begin(q) \/ Step(q) \/ Fail(q) \/ Crash(q), q # p
      PROVE  pc'[p] = pc[p]
  <2>1. (\E l : Goto(q, l)) \/ pc' = pc
    BY <1>2 DEF Begin, Step, Fail, Crash, Load, Fetch, Accept, LoadFiles, LoadSegments,
       Construct, Build, Stat, Open, Write, Close, End, Leave, Go
  <2> QED BY <1>0, <1>2, <2>1 DEF Goto
<1>3. ASSUME Begin(p) \/ Step(p) \/ Fail(p) \/ Crash(p)
      PROVE  Accept(p)
  <2>1. /\ ~ Begin(p) /\ ~ Load(p) /\ ~ Build(p) /\ ~ Stat(p) /\ ~ Open(p) /\ ~ Write(p)
        /\ ~ Close(p) /\ ~ Fail(p)
    BY <1>0 DEF Begin, Load, Build, Stat, Open, Write, Close, Fail, Writing
  <2>2. ~ Crash(p) /\ ~ Fetch(p)  BY <1>0 DEF Crash, Leave, Goto, Fetch
  <2> QED BY <1>3, <2>1, <2>2 DEF Step
<1> QED BY <1>0, <1>1, <1>2, <1>3 DEF Next

(* What was read, of a file not begun anew meanwhile. *)
LEMMA FetchedIsPrefix ==
    ASSUME IInv, ReadInv, NEW p \in Processes, Reading(p), ~ shared, ~ overtaken[p]
    PROVE  \E b \in Builds : \E n \in 0..Length(b.of) : \E m \in 0..n :
              /\ file = Prefix(b, n) /\ fetched[p] = Prefix(b, m)
              /\ Len(file) = n /\ Len(fetched[p]) = m
              /\ n = Length(b.of) \/ torn \/ \E q \in Processes : Writing(q)
<1>1. file # Missing  BY DEF IInv, ControlInv
<1>b. PICK b \in Builds : \E n \in 0..Length(b.of) :
         /\ file = Prefix(b, n)
         /\ n = Length(b.of) \/ torn \/ \E q \in Processes : Writing(q)
  BY <1>1 DEF IInv, FileInv
<1>2. PICK n \in 0..Length(b.of) :
         /\ file = Prefix(b, n)
         /\ n = Length(b.of) \/ torn \/ \E q \in Processes : Writing(q)
  BY <1>b
<1>3. Len(file) = n /\ (\A i \in 1..n : file[i] = Part(b, i)) /\ n \in Nat /\ Length(b.of) \in Nat
  BY <1>2, PrefixFacts, LengthType DEF Builds
<1>4. /\ fetched[p] \in Seq(Parts) /\ Len(fetched[p]) <= Len(file)
      /\ \A i \in 1..Len(fetched[p]) : fetched[p][i] = file[i]
  BY DEF ReadInv
<1>5. PICK m \in Nat : m = Len(fetched[p])  BY <1>4
<1>6. m \in 0..n /\ m \in 0..Length(b.of)  BY <1>2, <1>3, <1>4, <1>5
<1>7. \A i \in 1..m : fetched[p][i] = Part(b, i)
  <2>1. \A i \in 1..m : i \in 1..n  BY <1>3, <1>6
  <2> QED BY <1>3, <1>4, <1>5, <2>1
<1>8. fetched[p] = [i \in 1..m |-> fetched[p][i]]  BY <1>4, <1>5
<1>9. fetched[p] = Prefix(b, m)  BY <1>7, <1>8 DEF Prefix
<1> QED BY <1>2, <1>3, <1>5, <1>6, <1>9

LEMMA PrefixIsWhole ==
    ASSUME NEW b \in Builds, NEW n \in 0..Length(b.of), NEW f, f = Prefix(b, n),
           Headed(f), Len(f) >= Length(f[1].of)
    PROVE  f = Whole(b)
<1>1. f \in Seq(Parts) /\ Len(f) = n /\ \A i \in 1..n : f[i] = Part(b, i)
  BY PrefixFacts
<1>2. n \in Nat /\ n > 0 /\ Length(b.of) \in Nat
  BY <1>1, LengthType DEF Headed, Builds
<1>3. f[1].of = b.of  BY <1>1, <1>2 DEF Part
<1>4. n = Length(b.of)  BY <1>1, <1>2, <1>3
<1> QED BY <1>4, PrefixFacts

(* A process that takes an index from the file takes the whole of one        *)
(* unless the file was written by two, or begun anew while it was read       *)
(* (load_index, load_seg_index_cache, TibReader's constructor).              *)
THEOREM AcceptedForAll == Spec => AcceptedIsWhole
<1>1. ASSUME IInv, ReadInv, [Next]_vars
      PROVE  [\A p \in Processes :
                 Reading(p) /\ pc'[p] = "done" /\ ~ shared /\ ~ overtaken[p]
                 /\ IsIndex(result'[p])
                 => \E b \in Builds : result'[p] = Whole(b)]_vars
  <2> SUFFICES ASSUME NEW p \in Processes, Reading(p), pc'[p] = "done",
                      ~ shared, ~ overtaken[p], IsIndex(result'[p])
               PROVE  \E b \in Builds : result'[p] = Whole(b)
    OBVIOUS
  <2>1. /\ Accept(p)
        /\ \A r : End(p, r) => result'[p] = r
        /\ \A l : Go(p, l) => pc'[p] = l
    BY <1>1, EndsByReading DEF End, Go, Goto, IInv, ControlInv
  <2>2. PICK f : f = fetched[p]  OBVIOUS
  <2>3. /\ Headed(f) /\ Len(f) >= Length(f[1].of)
        /\ result'[p] = f \/ result'[p] = Taken(f)
    <3>1. CASE Construct(p)
      <4>1. result'[p] \notin Errors  BY DEF IsIndex
      <4> QED BY <2>1, <2>2, <3>1, <4>1 DEF Construct, Errors, Enough
    <3>2. CASE LoadFiles(p)
      <4>1. Complete(f) /\ result'[p] = f
        BY <2>1, <2>2, <3>2 DEF LoadFiles, Parsed
      <4>2. Len(f) \in Int
        BY <1>1, <2>2 DEF ReadInv
      <4> QED BY <4>1, <4>2 DEF Complete
    <3>3. CASE LoadSegments(p)
      BY <2>1, <2>2, <3>3 DEF LoadSegments, Enough
    <3> QED BY <2>1, <3>1, <3>2, <3>3 DEF Accept
  <2>b. PICK b \in Builds : \E n \in 0..Length(b.of) : \E m \in 0..n : f = Prefix(b, m)
    BY <1>1, <2>2, FetchedIsPrefix
  <2>4. PICK m \in 0..Length(b.of) : f = Prefix(b, m)
    <3>1. PICK n \in 0..Length(b.of) : \E m \in 0..n : f = Prefix(b, m)  BY <2>b
    <3>2. PICK m \in 0..n : f = Prefix(b, m)  BY <3>1
    <3>3. Length(b.of) \in Nat  BY LengthType DEF Builds
    <3>4. m \in 0..Length(b.of)  BY <3>3
    <3> QED BY <3>2, <3>4
  <2>5. f = Whole(b)  BY <2>3, <2>4, PrefixIsWhole
  <2> QED BY <2>3, <2>5, WholeIsSound
<1> QED BY <1>1, Inductive, PTL DEF Spec, AcceptedIsWhole

(* An open of a sector-mode archive is refused its index only when a writer  *)
(* stopped in the middle, is there, was not alone, or began the index anew   *)
(* while it was read (build_index).                                          *)
THEOREM RejectedForAll == Spec => RejectedForCause
<1>1. ASSUME IInv, ReadInv, [Next]_vars
      PROVE  [\A p \in Processes :
                 Reading(p) /\ pc'[p] = "done" /\ result'[p] \in {BadMagic, Truncated}
                 => torn \/ shared \/ overtaken[p] \/ ~ Alone(p)]_vars
  <2> SUFFICES ASSUME NEW p \in Processes, Reading(p), pc'[p] = "done",
                      result'[p] \in {BadMagic, Truncated}, ~ torn, ~ shared,
                      ~ overtaken[p], Alone(p)
               PROVE  FALSE
    OBVIOUS
  <2>1. /\ Accept(p) /\ Ended(p)
        /\ \A r : End(p, r) => result'[p] = r
        /\ \A l : Go(p, l) => pc'[p] = l
    BY <1>1, EndsByReading DEF Accept, End, Go, Goto, IInv, ControlInv
  <2>2. PICK f : f = fetched[p]  OBVIOUS
  <2>3. \A q \in Processes : ~ Writing(q)  BY DEF Alone, Writing, Reading
  <2>b. PICK b \in Builds : \E n \in 0..Length(b.of) : \E m \in 0..n :
           f = Prefix(b, m) /\ Len(f) = m /\ Len(file) = n /\ n = Length(b.of)
    BY <1>1, <2>2, <2>3, FetchedIsPrefix
  <2>4. PICK m \in 0..Length(b.of) : f = Prefix(b, m) /\ Len(f) = m /\ Len(file) = Length(b.of)
    BY <2>b
  <2>5. Length(b.of) \in Nat /\ m \in Nat /\ f \in Seq(Parts) /\ \A i \in 1..m : f[i] = Part(b, i)
    BY <2>4, LengthType, PrefixFacts DEF Builds
  <2>6. CASE Construct(p)
    <3>1. Headed(f) /\ Enough(f)
      <4>1. CASE Len(f) >= Len(file)
        <5>1. m = Length(b.of)  BY <2>4, <2>5, <4>1
        <5>2. f = Whole(b)  BY <2>4, <5>1, PrefixFacts
        <5> QED BY <5>2, WholeIsSound DEF Complete
      <4>2. CASE f # << >> /\ (Headed(f) => Enough(f))
        <5>1. 1 \in 1..m  BY <2>4, <2>5, <4>2
        <5>2. 1 \in 1..Length(b.of)  BY LengthType DEF Builds
        <5>3. f[1] = Part(b, 1) /\ Part(b, 1) # Gap  BY <2>5, <5>1, <5>2, ErrorsAssumption
        <5> QED BY <4>2, <5>3 DEF Headed
      <4> QED BY <2>1, <2>2, <4>1, <4>2 DEF Ended
    <3>2. result'[p] = f  BY <2>1, <2>2, <2>6, <3>1 DEF Construct
    <3> QED BY <2>5, <3>2, ErrorsAssumption DEF Errors
  <2>7. CASE LoadFiles(p) \/ LoadSegments(p)
    <3>1. result'[p] = f \/ result'[p] = Taken(f)
      BY <2>1, <2>2, <2>7 DEF LoadFiles, LoadSegments
    <3>2. CASE result'[p] = f  BY <2>5, <3>2, ErrorsAssumption DEF Errors
    <3>3. CASE result'[p] # f
      <4>1. LoadSegments(p) /\ Headed(f) /\ Enough(f) /\ result'[p] = Taken(f)
        BY <2>1, <2>2, <2>7, <3>3 DEF LoadFiles, LoadSegments
      <4>2. f = Whole(b)  BY <2>4, <4>1, PrefixIsWhole DEF Enough
      <4> QED BY <3>3, <4>1, <4>2, WholeIsSound
    <3> QED BY <3>1, <3>2, <3>3
  <2> QED BY <2>1, <2>6, <2>7 DEF Accept
<1> QED BY <1>1, Inductive, PTL DEF Spec, RejectedForCause
=============================================================================

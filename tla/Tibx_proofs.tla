----------------------------- MODULE Tibx_proofs -----------------------------
(***************************************************************************)
(* Machine-checked proofs about a .tibx.  TibxPages: a page is read as     *)
(* itself, whatever the slices, the ones that were pruned, and the one     *)
(* whose header is unreadable; and the walk of a tree yields its leaves.   *)
(* TibxLsm: what is found in the trees that the pages hold.  TibxAdapter:  *)
(* reads of a partition, for every archive, volume, cache size and number  *)
(* of threads.                                                             *)
(***************************************************************************)
EXTENDS TibxPages, TibxLsm, TibxAdapter, Lemmas, FiniteSetTheorems

-----------------------------------------------------------------------------
(* Slices *)

LEMMA SliceTypes ==
    ASSUME archive \in Archives
    PROVE  /\ Len(archive.slices) \in Nat
           /\ \A s \in Slices : Start(s) \in Nat /\ Pages(s) \in Nat \ {0}
<1>1. archive.slices \in Seq([start : Nat, pages : Nat \ {0}])  BY SlicesAssumption
<1>2. Len(archive.slices) \in Nat  BY <1>1
<1>3. ASSUME NEW s \in Slices PROVE archive.slices[s] \in [start : Nat, pages : Nat \ {0}]
  BY <1>1, ElementOfSeq DEF Slices
<1> QED BY <1>2, <1>3 DEF Start, Pages

(* A later slice begins where an earlier one has ended, or further on: a    *)
(* first slice that did not would begin behind one that does.               *)
LEMMA SlicesInOrder ==
    ASSUME archive \in Archives, NEW r \in Slices, NEW s \in Slices, r < s
    PROVE  Start(r) + Pages(r) <= Start(s)
<1> DEFINE n == Len(archive.slices)
           S == {k \in 1..n : r < k /\ ~ (Start(r) + Pages(r) <= Start(k))}
<1>1. n \in Nat /\ r \in 1..n /\ s \in 1..n  BY SliceTypes DEF Slices
<1>2. ASSUME NEW k \in 1..n PROVE Start(k) \in Nat /\ Pages(k) \in Nat \ {0}
  BY SliceTypes DEF Slices
<1>3. ASSUME NEW k \in 1..(n - 1) PROVE Start(k + 1) = Start(k) + Pages(k)
  BY SlicesAssumption DEF Start, Pages
<1>4. SUFFICES ASSUME S # {} PROVE FALSE  BY <1>1
<1>5. S \subseteq Nat  BY <1>1
<1>6. PICK k \in S : \A x \in S : k <= x  BY <1>4, <1>5, LeastNat
<1>7. k \in 1..n /\ r < k /\ ~ (Start(r) + Pages(r) <= Start(k))  OBVIOUS
<1>8. k - 1 \in 1..(n - 1) /\ k - 1 \in 1..n /\ r <= k - 1  BY <1>1, <1>7
<1>9. Start(k) = Start(k - 1) + Pages(k - 1)
  <2>1. Start((k - 1) + 1) = Start(k - 1) + Pages(k - 1)  BY <1>3, <1>8
  <2>2. (k - 1) + 1 = k  BY <1>7, <1>1
  <2> QED BY <2>1, <2>2
<1>10. k - 1 \notin S  BY <1>6, <1>7, <1>1
<1>11. r = k - 1 \/ Start(r) + Pages(r) <= Start(k - 1)  BY <1>8, <1>10, <1>1
<1> HIDE DEF S, n
<1>12. /\ Start(k) \in Nat /\ Start(k - 1) \in Nat /\ Pages(k - 1) \in Nat
       /\ Start(r) \in Nat /\ Pages(r) \in Nat
  BY <1>1, <1>2, <1>7, <1>8
<1>13. CASE r = k - 1  BY <1>7, <1>9, <1>12, <1>13
<1>14. CASE Start(r) + Pages(r) <= Start(k - 1)  BY <1>7, <1>9, <1>12, <1>14
<1> QED BY <1>11, <1>13, <1>14

-----------------------------------------------------------------------------
(* Reading from slices that lie apart *)

Covers(s, g) == base[s] <= g /\ g < End(s)

(* Slices have a place each, no two have the same, and there is a last page.*)
LaidOut ==
    /\ archive \in Archives /\ alone = 0
    /\ DOMAIN base \subseteq Slices /\ DOMAIN base # {}
    /\ \A s \in DOMAIN base : base[s] \in Nat
    /\ \A r, s \in DOMAIN base : r # s => End(r) <= base[s] \/ End(s) <= base[r]
    /\ \E b \in Nat : \A s \in DOMAIN base : End(s) <= b

LEMMA EndTypes ==
    ASSUME archive \in Archives, DOMAIN base \subseteq Slices, NEW s \in DOMAIN base,
           base[s] \in Nat
    PROVE  Start(s) \in Nat /\ Pages(s) \in Nat \ {0} /\ End(s) \in Nat /\ base[s] < End(s)
<1>1. Start(s) \in Nat /\ Pages(s) \in Nat \ {0}  BY SliceTypes
<1> QED BY <1>1 DEF End

(* The pages are numbered up to the end of some slice. *)
LEMMA PageCountIsEnd ==
    ASSUME LaidOut
    PROVE  /\ PageCount \in Nat
           /\ \E m \in DOMAIN base : PageCount = End(m)
           /\ \A s \in DOMAIN base : End(s) <= PageCount
<1> DEFINE S == {End(s) : s \in DOMAIN base}
<1>1. PICK b \in Nat : \A s \in DOMAIN base : End(s) <= b  BY DEF LaidOut
<1>2. ASSUME NEW s \in DOMAIN base PROVE End(s) \in 1..b
  <2>1. End(s) \in Nat /\ base[s] < End(s) /\ base[s] \in Nat  BY EndTypes DEF LaidOut
  <2> QED BY <1>1, <2>1
<1>3. S \subseteq 1..b  BY <1>2
<1>4. S # {}  BY DEF LaidOut
<1>5. PICK m \in S : \A x \in S : x <= m  BY <1>3, <1>4, GreatestUpTo
<1>6. Max(S) \in S /\ \A x \in S : Max(S) >= x
  <2>1. \A x \in S : m >= x  BY <1>3, <1>5
  <2> QED BY <2>1 DEF Max
<1>7. PageCount = Max(S)  BY DEF PageCount, LaidOut
<1>8. Max(S) \in Nat  BY <1>3, <1>6
<1>9. ASSUME NEW s \in DOMAIN base PROVE End(s) <= Max(S)
  <2>1. End(s) \in S  OBVIOUS
  <2>2. Max(S) >= End(s)  BY <1>6, <2>1
  <2>3. End(s) \in Nat  BY <1>2
  <2> HIDE DEF S
  <2> QED BY <1>8, <2>2, <2>3
<1>10. \E k \in DOMAIN base : Max(S) = End(k)  BY <1>6
<1> HIDE DEF S
<1> QED BY <1>7, <1>8, <1>9, <1>10

(* The slice that begins first is the lowest, since no two begin at once.   *)
LEMMA LowestIsFirst ==
    ASSUME LaidOut, NEW S, S \subseteq DOMAIN base, S # {}
    PROVE  Lowest(S) \in S /\ \A r \in S : base[Lowest(S)] <= base[r]
<1> DEFINE B == {base[s] : s \in S}
<1>1. ASSUME NEW s \in S PROVE base[s] \in Nat /\ Pages(s) \in Nat \ {0} /\ End(s) \in Nat
                               /\ base[s] < End(s)
  BY EndTypes DEF LaidOut
<1>2. B \subseteq Nat /\ B # {}  BY <1>1
<1>3. PICK b \in B : \A x \in B : b <= x  BY <1>2, LeastNat
<1>4. PICK m \in S : b = base[m]  OBVIOUS
<1>5. ASSUME NEW r \in S PROVE base[m] <= base[r]  BY <1>3, <1>4
<1>6. ASSUME NEW r \in S PROVE Before(m, r)
  <2>1. CASE r = m
    <3>1. base[m] \in Nat /\ Pages(m) \in Nat  BY <1>1
    <3>2. m \in Int  BY SliceTypes DEF LaidOut, Slices
    <3> QED BY <2>1, <3>1, <3>2 DEF Before
  <2>2. CASE r # m
    <3>1. End(r) <= base[m] \/ End(m) <= base[r]  BY <2>2 DEF LaidOut
    <3>2. base[m] < base[r]  BY <1>1, <1>5, <3>1
    <3> QED BY <3>2 DEF Before
  <2> QED BY <2>1, <2>2
<1>7. Lowest(S) \in S /\ \A r \in S : Before(Lowest(S), r)  BY <1>6 DEF Lowest
<1>8. ASSUME NEW r \in S PROVE base[Lowest(S)] <= base[r]
  <2>1. Before(Lowest(S), r)  BY <1>7
  <2>2. base[Lowest(S)] \in Nat /\ base[r] \in Nat  BY <1>1, <1>7
  <2> QED BY <2>1, <2>2 DEF Before
<1> QED BY <1>7, <1>8

(* A page inside a slice is read from it. *)
LEMMA ReadInside ==
    ASSUME LaidOut, NEW s \in DOMAIN base, NEW g \in Nat, Covers(s, g)
    PROVE  ReadPage(g) = Start(s) + g - base[s]
<1> DEFINE behind == {r \in DOMAIN base : End(r) > g}
<1>1. Local(g) = g  BY DEF Local, LaidOut
<1>2. /\ base[s] \in Nat /\ End(s) \in Nat /\ Start(s) \in Nat /\ base[s] <= g /\ g < End(s)
  BY EndTypes DEF LaidOut, Covers
<1>3. s \in behind  BY <1>2
<1>4. g \in 0..(PageCount - 1)
  <2>1. PageCount \in Nat /\ End(s) <= PageCount  BY PageCountIsEnd
  <2> QED BY <1>2, <2>1
<1>5. Lowest(behind) \in behind /\ base[Lowest(behind)] <= base[s]  BY <1>3, LowestIsFirst
<1>6. Lowest(behind) = s
  <2> DEFINE l == Lowest(behind)
  <2>1. l \in DOMAIN base /\ End(l) > g /\ base[l] <= base[s]  BY <1>5
  <2>2. l # s => End(l) <= base[s] \/ End(s) <= base[l]  BY <2>1 DEF LaidOut
  <2>3. base[l] \in Nat /\ End(l) \in Nat  BY <2>1, EndTypes DEF LaidOut
  <2> HIDE DEF l, behind
  <2>4. l = s  BY <1>2, <2>1, <2>2, <2>3
  <2> QED BY <2>4 DEF l, behind
<1>7. ReadPage(g) = IF base[Lowest(behind)] > g THEN NoPage
                    ELSE Start(Lowest(behind)) + g - base[Lowest(behind)]
  BY <1>1, <1>4 DEF ReadPage, LaidOut
<1> HIDE DEF behind
<1> QED BY <1>2, <1>6, <1>7

(* A page in no slice is not read. *)
LEMMA ReadOutside ==
    ASSUME LaidOut, NEW g \in Nat, \A s \in DOMAIN base : ~ Covers(s, g)
    PROVE  ReadPage(g) = NoPage
<1> DEFINE behind == {r \in DOMAIN base : End(r) > g}
<1>1. Local(g) = g  BY DEF Local, LaidOut
<1>2. CASE g \notin 0..(PageCount - 1)  BY <1>1, <1>2 DEF ReadPage
<1>3. CASE g \in 0..(PageCount - 1)
  <2>1. PICK m \in DOMAIN base : PageCount = End(m)  BY PageCountIsEnd
  <2>2. PageCount \in Nat  BY PageCountIsEnd
  <2>3. End(m) > g  BY <1>3, <2>1, <2>2
  <2>4. m \in behind  BY <2>3
  <2>5. Lowest(behind) \in behind  BY <2>4, LowestIsFirst
  <2>6. PICK l \in DOMAIN base : l = Lowest(behind) /\ End(l) > g  BY <2>5
  <2>7. base[l] \in Nat /\ End(l) \in Nat  BY <2>6, EndTypes DEF LaidOut
  <2>8. base[l] > g  BY <2>6, <2>7 DEF Covers
  <2>9. ReadPage(g) = IF base[Lowest(behind)] > g THEN NoPage
                      ELSE Start(Lowest(behind)) + g - base[Lowest(behind)]
    BY <1>1, <1>3 DEF ReadPage, LaidOut
  <2> HIDE DEF behind
  <2> QED BY <2>6, <2>8, <2>9
<1> QED BY <1>2, <1>3

-----------------------------------------------------------------------------
(* Slices at the places their headers tell *)

SplitTypes == /\ archive \in Archives
              /\ present \subseteq Slices /\ told \subseteq present
              /\ alone \in {0} \cup present

AsTold == base = [s \in Known |-> Start(s)]

LEMMA KnownTypes ==
    ASSUME SplitTypes, NEW s \in Known
    PROVE  /\ s \in present /\ s \in Slices /\ s \in 1..Len(archive.slices)
           /\ Start(s) \in Nat /\ Pages(s) \in Nat \ {0}
           /\ GlobalBase(s) = Start(s)
<1>1. s \in present /\ GlobalBase(s) # 0  BY DEF Known
<1>2. s \in Slices  BY <1>1 DEF SplitTypes
<1> QED BY <1>1, <1>2, SliceTypes DEF SplitTypes, GlobalBase, Slices

LEMMA AsToldIsLaidOut ==
    ASSUME SplitTypes, AsTold, alone = 0, Known # {}
    PROVE  LaidOut
<1> DEFINE n == Len(archive.slices)
<1>1. /\ DOMAIN base = Known
      /\ \A s \in Known : base[s] = Start(s) /\ End(s) = Start(s) + Pages(s)
  BY DEF AsTold, End
<1>2. n \in Nat /\ Known \subseteq 1..n  BY KnownTypes, SliceTypes DEF SplitTypes
<1>3. ASSUME NEW r \in Known, NEW s \in Known, r < s PROVE End(r) <= base[s]
  BY <1>1, <1>3, KnownTypes, SlicesInOrder DEF SplitTypes
<1>4. ASSUME NEW r \in Known, NEW s \in Known, r # s
      PROVE  End(r) <= base[s] \/ End(s) <= base[r]
  <2>1. r \in Int /\ s \in Int  BY <1>2
  <2> QED BY <1>3, <1>4, <2>1
<1>5. PICK m \in Known : \A s \in Known : s <= m  BY <1>2, GreatestUpTo
<1>6. End(m) \in Nat  BY <1>1, KnownTypes
<1>7. ASSUME NEW s \in Known PROVE End(s) <= End(m)
  <2>1. CASE s = m  BY <1>6, <2>1
  <2>2. CASE s # m
    <3>1. s < m  BY <1>2, <1>5, <2>2
    <3>2. End(s) <= base[m]  BY <1>3, <3>1
    <3>3. /\ base[m] = Start(m) /\ End(m) = Start(m) + Pages(m) /\ End(s) = Start(s) + Pages(s)
          /\ Start(m) \in Nat /\ Pages(m) \in Nat /\ Start(s) \in Nat /\ Pages(s) \in Nat
      BY <1>1, KnownTypes
    <3> QED BY <3>2, <3>3
  <2> QED BY <2>1, <2>2
<1>8. \A s \in Known : s \in Slices /\ base[s] \in Nat  BY <1>1, KnownTypes
<1> QED BY <1>1, <1>4, <1>6, <1>7, <1>8 DEF LaidOut, SplitTypes

-----------------------------------------------------------------------------
(* The place of one slice that has no header *)

(* The place found for u: behind the last slice, or the first gap that is   *)
(* as long.                                                                 *)
LEMMA PlaceBehindLast ==
    ASSUME SplitTypes, AsTold, alone = 0, Known # {}
    PROVE  LET h == Highest(DOMAIN base) IN
           h \in Known /\ \A s \in Known : base[s] <= base[h]
<1>1. DOMAIN base = Known /\ \A s \in Known : base[s] = Start(s)  BY DEF AsTold
<1>2. Len(archive.slices) \in Nat /\ Known \subseteq 1..Len(archive.slices)
  BY KnownTypes, SliceTypes DEF SplitTypes
<1>3. PICK m \in Known : \A s \in Known : s <= m  BY <1>2, GreatestUpTo
<1>4. ASSUME NEW s \in Known PROVE Before(s, m)
  <2>1. base[s] = Start(s) /\ base[m] = Start(m)  BY <1>1
  <2>2. s <= m /\ s \in Int /\ m \in Int  BY <1>2, <1>3
  <2>3. CASE s = m
    <3>1. base[m] \in Nat /\ Pages(m) \in Nat  BY <2>1, KnownTypes
    <3> QED BY <2>2, <2>3, <3>1 DEF Before
  <2>4. CASE s < m
    <3>1. Start(s) + Pages(s) <= Start(m)  BY <2>4, KnownTypes, SlicesInOrder DEF SplitTypes
    <3>2. Start(s) \in Nat /\ Pages(s) \in Nat \ {0} /\ Start(m) \in Nat  BY KnownTypes
    <3>3. base[s] < base[m]  BY <2>1, <3>1, <3>2
    <3> QED BY <3>3 DEF Before
  <2> QED BY <2>2, <2>3, <2>4
<1> DEFINE h == Highest(DOMAIN base)
<1>5. h \in Known /\ \A s \in Known : Before(s, h)  BY <1>1, <1>4 DEF Highest
<1>6. ASSUME NEW s \in Known PROVE base[s] <= base[h]
  <2>1. Before(s, h)  BY <1>5
  <2>2. base[s] \in Nat /\ base[h] \in Nat  BY <1>1, <1>5, KnownTypes
  <2> QED BY <2>1, <2>2 DEF Before
<1> QED BY <1>5, <1>6

LEMMA GapIsFree ==
    ASSUME SplitTypes, AsTold, NEW s \in Known, NEW n \in Nat \ {0}, GapBehind(s, n)
    PROVE  \E r \in Known : /\ base[r] = End(s) + n
                            /\ \A q \in Known : End(s) < base[q] => base[r] <= base[q]
<1> DEFINE nexts == {base[r] : r \in DOMAIN base} \ 0..End(s)
<1>1. DOMAIN base = Known /\ \A q \in Known : base[q] \in Nat  BY KnownTypes DEF AsTold
<1>2. End(s) \in Nat  BY <1>1, KnownTypes DEF End
<1>3. nexts \subseteq Nat  BY <1>1
<1>4. nexts # {} /\ Min(nexts) - End(s) = n  BY DEF GapBehind
<1>5. Min(nexts) \in nexts /\ \A x \in nexts : Min(nexts) <= x
  BY <1>3, <1>4, LeastNat DEF Min
<1>6. PICK r \in Known : base[r] = Min(nexts)  BY <1>1, <1>5
<1>7. base[r] = End(s) + n  BY <1>1, <1>2, <1>4, <1>6
<1>8. ASSUME NEW q \in Known, End(s) < base[q] PROVE base[r] <= base[q]
  <2>1. base[q] \notin 0..End(s)  BY <1>1, <1>2, <1>8
  <2>2. base[q] \in nexts  BY <1>1, <2>1
  <2> QED BY <1>5, <1>6, <2>2
<1> QED BY <1>7, <1>8

LEMMA FreeIsGap ==
    ASSUME SplitTypes, AsTold, NEW s \in Known, NEW n \in Nat \ {0}, NEW r \in Known,
           base[r] = End(s) + n, \A q \in Known : End(s) < base[q] => base[r] <= base[q]
    PROVE  GapBehind(s, n)
<1> DEFINE nexts == {base[q] : q \in DOMAIN base} \ 0..End(s)
<1>1. DOMAIN base = Known /\ \A q \in Known : base[q] \in Nat  BY KnownTypes DEF AsTold
<1>2. End(s) \in Nat  BY <1>1, KnownTypes DEF End
<1>3. base[r] \in nexts  BY <1>1, <1>2
<1>4. ASSUME NEW x \in nexts PROVE base[r] <= x
  <2>1. PICK q \in Known : x = base[q]  BY <1>1
  <2>2. base[q] \notin 0..End(s)  BY <2>1
  <2>3. base[q] \in Nat  BY <1>1
  <2>4. End(s) < base[q]  BY <1>2, <2>2, <2>3
  <2> QED BY <2>1, <2>4
<1>5. nexts \subseteq Nat  BY <1>1
<1>6. Min(nexts) \in nexts /\ \A x \in nexts : Min(nexts) <= x  BY <1>3, <1>4 DEF Min
<1>7. Min(nexts) = base[r]
  <2>1. Min(nexts) <= base[r] /\ base[r] <= Min(nexts)  BY <1>3, <1>4, <1>6
  <2>2. Min(nexts) \in Nat /\ base[r] \in Nat  BY <1>1, <1>5, <1>6
  <2> HIDE DEF nexts
  <2> QED BY <2>1, <2>2
<1>8. Min(nexts) - End(s) = n  BY <1>1, <1>2, <1>7
<1> QED BY <1>3, <1>8 DEF GapBehind

(* Where u may be put: clear of the others, and in its own place when that  *)
(* is the only one it fits.                                                 *)
GoodPlace(u, p) ==
    /\ p \in Nat
    /\ \A s \in Known : p + Pages(u) <= Start(s) \/ Start(s) + Pages(s) <= p
    /\ Placeable(u) => p = Start(u)

LEMMA OneMissing ==
    ASSUME SplitTypes, NEW u \in present, Known = present \ {u}
    PROVE  /\ u \in 1..Len(archive.slices) /\ Len(archive.slices) \in Nat /\ u \in Slices
           /\ Start(u) \in Nat /\ Pages(u) \in Nat \ {0}
           /\ Placeable(u) => u - 1 \in Known /\ Start(u) = Start(u - 1) + Pages(u - 1)
           /\ \A s \in Known : s < u \/ u < s
<1>1. u \in 1..Len(archive.slices) /\ Len(archive.slices) \in Nat /\ u \in Slices
  BY SliceTypes DEF SplitTypes, Slices
<1>2. Start(u) \in Nat /\ Pages(u) \in Nat \ {0}  BY <1>1, SliceTypes DEF SplitTypes
<1>3. ASSUME Placeable(u) PROVE u - 1 \in Known /\ Start(u) = Start(u - 1) + Pages(u - 1)
  <2>1. u - 1 \in present /\ u - 1 # u  BY <1>1, <1>3 DEF Placeable
  <2>2. u - 1 \in Known  BY <2>1
  <2>3. u - 1 \in 1..Len(archive.slices)  BY <2>2, KnownTypes
  <2>4. u - 1 \in 1..(Len(archive.slices) - 1) /\ (u - 1) + 1 = u  BY <1>1, <2>3
  <2>5. Start((u - 1) + 1) = Start(u - 1) + Pages(u - 1)
    BY <2>4, SlicesAssumption DEF SplitTypes, Start, Pages
  <2> QED BY <2>2, <2>4, <2>5
<1>4. ASSUME NEW s \in Known PROVE s < u \/ u < s
  <2>1. s # u /\ s \in Int /\ u \in Int  BY <1>1, KnownTypes
  <2> QED BY <2>1
<1> QED BY <1>1, <1>2, <1>3, <1>4

LEMMA PlaceInGap ==
    ASSUME SplitTypes, AsTold, alone = 0, ~ Adjoin, NEW u \in present, Known = present \ {u},
           NEW l \in Known, GapBehind(l, Pages(u))
    PROVE  GoodPlace(u, End(l)) /\ (Placeable(u) => l = u - 1)
<1> DEFINE n == Pages(u)
<1>0. n \in Nat \ {0}  BY OneMissing
<1>1. \A s \in Known : /\ base[s] = Start(s) /\ End(s) = Start(s) + Pages(s)
                       /\ Start(s) \in Nat /\ Pages(s) \in Nat \ {0} /\ s \in Int
  BY KnownTypes DEF AsTold, End
<1>2. PICK r \in Known : /\ base[r] = End(l) + n
                         /\ \A q \in Known : End(l) < base[q] => base[r] <= base[q]
  BY <1>0, GapIsFree
<1>3. ASSUME NEW s \in Known, NEW t \in Known, s < t PROVE End(s) <= base[t]
  BY <1>1, <1>3, KnownTypes, SlicesInOrder DEF SplitTypes
<1>4. ASSUME NEW s \in Known, l < s PROVE End(l) + n <= base[s]
  <2>1. End(l) <= base[s]  BY <1>3, <1>4
  <2>2. base[s] # End(l)  BY <1>1 DEF Adjoin
  <2>3. End(l) < base[s]  BY <1>1, <2>1, <2>2
  <2> QED BY <1>2, <2>3
<1>5. End(l) \in Nat  BY <1>1
<1>6. ASSUME NEW s \in Known PROVE End(l) + n <= Start(s) \/ Start(s) + Pages(s) <= End(l)
  <2>1. CASE l < s  BY <1>1, <1>4, <2>1
  <2>2. CASE s = l  BY <1>1, <2>2
  <2>3. CASE s < l
    <3>1. End(s) <= base[l]  BY <1>3, <2>3
    <3>2. /\ End(s) = Start(s) + Pages(s) /\ base[l] = Start(l) /\ End(l) = Start(l) + Pages(l)
          /\ Start(l) \in Nat /\ Pages(l) \in Nat /\ Start(s) \in Nat /\ Pages(s) \in Nat
      BY <1>1
    <3> QED BY <3>1, <3>2
  <2> QED BY <1>1, <2>1, <2>2, <2>3
<1>7. ASSUME Placeable(u) PROVE l = u - 1 /\ End(l) = Start(u)
  <2>1. l < r
    <3>1. CASE r = l
      <4>1. base[r] = Start(l) /\ End(l) = Start(l) + Pages(l)  BY <1>1, <3>1
      <4> QED BY <1>0, <1>1, <1>2, <4>1
    <3>2. CASE r < l
      <4>1. End(r) <= base[l]  BY <1>3, <3>2
      <4>2. /\ base[r] = Start(r) /\ End(r) = Start(r) + Pages(r) /\ base[l] = Start(l)
            /\ End(l) = Start(l) + Pages(l)
            /\ Start(l) \in Nat /\ Pages(l) \in Nat /\ Start(r) \in Nat /\ Pages(r) \in Nat \ {0}
        BY <1>1
      <4>3. base[r] = End(l) + n  BY <1>2
      <4> HIDE DEF n
      <4> QED BY <1>0, <4>1, <4>2, <4>3
    <3> QED BY <1>1, <3>1, <3>2
  <2>2. Gap(l, r)
    <3>1. ASSUME NEW q \in Known, l < q, q < r PROVE FALSE
      <4>1. End(l) + n <= base[q] /\ End(q) <= base[r]  BY <1>3, <1>4, <3>1
      <4>2. /\ base[q] = Start(q) /\ End(q) = Start(q) + Pages(q)
            /\ Start(q) \in Nat /\ Pages(q) \in Nat \ {0}
        BY <1>1
      <4>3. base[r] = End(l) + n  BY <1>2
      <4> HIDE DEF n
      <4> QED BY <1>0, <1>5, <4>1, <4>2, <4>3
    <3>2. \A q \in Known : q <= l \/ r <= q  BY <1>1, <3>1
    <3> QED BY <2>1, <3>2 DEF Gap
  <2>3. Room(l, r) = Pages(u)
    <3>1. Start(r) = End(l) + n /\ End(l) = Start(l) + Pages(l)  BY <1>1, <1>2
    <3>2. Start(r) \in Nat /\ Start(l) \in Nat /\ Pages(l) \in Nat  BY <1>1
    <3>3. Room(l, r) = n
      <4> HIDE DEF n
      <4> QED BY <1>0, <3>1, <3>2 DEF Room
    <3> QED BY <3>3
  <2>4. l = u - 1  BY <1>7, <2>2, <2>3 DEF Placeable
  <2>5. Start(u) = Start(u - 1) + Pages(u - 1)  BY <1>7, OneMissing
  <2> QED BY <1>1, <2>4, <2>5
<1> QED BY <1>5, <1>6, <1>7 DEF GoodPlace

LEMMA PlaceIsGood ==
    ASSUME SplitTypes, AsTold, alone = 0, ~ Adjoin, NEW u \in present, Known = present \ {u},
           Known # {}
    PROVE  GoodPlace(u, Place(u))
<1> DEFINE gaps == {s \in DOMAIN base : GapBehind(s, Pages(u))}
<1>1. DOMAIN base = Known  BY DEF AsTold
<1>2. LaidOut  BY AsToldIsLaidOut
<1>3. CASE gaps # {}
  <2>1. Lowest(gaps) \in gaps  BY <1>2, <1>3, LowestIsFirst
  <2>2. Place(u) = End(Lowest(gaps))  BY <1>3 DEF Place
  <2> QED BY <1>1, <2>1, <2>2, PlaceInGap
<1>4. CASE gaps = {}
  <2> DEFINE h == Highest(DOMAIN base)
  <2>1. h \in Known /\ \A s \in Known : base[s] <= base[h]  BY PlaceBehindLast
  <2>2. Place(u) = End(h)  BY <1>4 DEF Place
  <2>3. \A s \in Known : /\ base[s] = Start(s) /\ End(s) = Start(s) + Pages(s)
                         /\ Start(s) \in Nat /\ Pages(s) \in Nat \ {0} /\ s \in Int
                         /\ s \in 1..Len(archive.slices)
    BY KnownTypes DEF AsTold, End
  <2>4. ASSUME NEW s \in Known, NEW t \in Slices, s < t PROVE End(s) <= Start(t)
    BY <2>3, <2>4, KnownTypes, SlicesInOrder DEF SplitTypes
  <2> HIDE DEF h
  <2>5. ASSUME NEW s \in Known PROVE Start(s) + Pages(s) <= End(h)
    <3>1. s = h \/ End(s) <= base[h] \/ End(h) <= base[s]  BY <1>1, <1>2, <2>1 DEF LaidOut
    <3>2. base[s] <= base[h]  BY <2>1
    <3>3. /\ base[h] = Start(h) /\ End(h) = Start(h) + Pages(h)
          /\ Start(h) \in Nat /\ Pages(h) \in Nat \ {0}
          /\ base[s] = Start(s) /\ End(s) = Start(s) + Pages(s)
          /\ Start(s) \in Nat /\ Pages(s) \in Nat
      BY <2>1, <2>3
    <3> QED BY <3>1, <3>2, <3>3
  <2>6. ASSUME Placeable(u) PROVE End(h) = Start(u)
    <3>1. u - 1 \in Known /\ Start(u) = Start(u - 1) + Pages(u - 1)  BY <2>6, OneMissing
    <3>2. CASE u + 1 \in present
      <4>1. u + 1 # u /\ u \in Int  BY OneMissing
      <4>2. u + 1 \in Known  BY <3>2, <4>1
      <4>3. u \in 1..(Len(archive.slices) - 1)
        <5>1. u + 1 \in 1..Len(archive.slices)  BY <2>3, <4>2
        <5>2. u \in 1..Len(archive.slices) /\ Len(archive.slices) \in Nat  BY OneMissing
        <5> QED BY <5>1, <5>2
      <4>4. Start(u + 1) = Start(u) + Pages(u)
        BY <4>3, SlicesAssumption DEF SplitTypes, Start, Pages
      <4>5. base[u + 1] = End(u - 1) + Pages(u)  BY <2>3, <3>1, <4>2, <4>4
      <4>6. ASSUME NEW q \in Known, End(u - 1) < base[q] PROVE base[u + 1] <= base[q]
        <5>1. CASE q < u
          <6>1. End(q) <= Start(u)  BY <2>4, <5>1, OneMissing
          <6>2. Start(u) = End(u - 1)  BY <2>3, <3>1
          <6>3. base[q] \in Nat /\ End(q) \in Nat /\ base[q] < End(q) /\ End(u - 1) \in Nat
            BY <2>3, <3>1
          <6> QED BY <4>6, <6>1, <6>2, <6>3
        <5>2. CASE q = u + 1  BY <2>3, <5>2
        <5>3. CASE q > u + 1
          <6>1. End(u + 1) <= Start(q)  BY <2>4, <4>2, <5>3, KnownTypes
          <6>2. /\ base[u + 1] = Start(u + 1) /\ End(u + 1) = Start(u + 1) + Pages(u + 1)
                /\ base[q] = Start(q) /\ Start(q) \in Nat
                /\ Start(u + 1) \in Nat /\ Pages(u + 1) \in Nat
            BY <2>3, <4>2
          <6> QED BY <6>1, <6>2
        <5>4. q < u \/ u < q  BY OneMissing
        <5>5. q \in Int /\ u \in Int  BY <2>3, <4>1
        <5> QED BY <5>1, <5>2, <5>3, <5>4, <5>5
      <4>7. Pages(u) \in Nat \ {0}  BY OneMissing
      <4>8. GapBehind(u - 1, Pages(u))  BY <3>1, <4>2, <4>5, <4>6, <4>7, FreeIsGap
      <4> QED BY <1>1, <1>4, <3>1, <4>8
    <3>3. CASE u = Len(archive.slices)
      <4>1. h \in 1..u /\ h # u /\ u \in Nat  BY <2>1, <2>3, <3>3, OneMissing
      <4>2. h <= u - 1  BY <4>1
      <4>3. ASSUME h < u - 1 PROVE FALSE
        <5>1. End(h) <= Start(u - 1)  BY <2>1, <2>4, <3>1, <4>3, KnownTypes
        <5>2. base[u - 1] <= base[h]  BY <2>1, <3>1
        <5>3. /\ base[h] = Start(h) /\ End(h) = Start(h) + Pages(h)
              /\ Start(h) \in Nat /\ Pages(h) \in Nat \ {0}
              /\ base[u - 1] = Start(u - 1) /\ Start(u - 1) \in Nat
          BY <2>1, <2>3, <3>1
        <5> QED BY <5>1, <5>2, <5>3
      <4>4. h = u - 1  BY <4>1, <4>2, <4>3
      <4> QED BY <2>3, <3>1, <4>4
    <3> QED BY <2>6, <3>2, <3>3 DEF Placeable
  <2>7. End(h) \in Nat  BY <2>1, <2>3
  <2>8. \A s \in Known : End(h) + Pages(u) <= Start(s) \/ Start(s) + Pages(s) <= End(h)
    BY <2>5
  <2> QED BY <2>2, <2>6, <2>7, <2>8 DEF GoodPlace
<1> QED BY <1>3, <1>4

-----------------------------------------------------------------------------
(* The inductive invariant *)

(* Once all slices are opened, those with a header are where it says, and a *)
(* single one without is in a good place, or still to be put in one.        *)
GuessedWell(u) ==
    /\ DOMAIN base = present
    /\ \A s \in Known : base[s] = Start(s)
    /\ GoodPlace(u, base[u])

TogetherInv ==
    alone = 0 /\ phase \in {"resolve", "walk", "done", "raised"} =>
        /\ Known # {}
        /\ AllTold => todo = {} /\ AsTold
        /\ \A u \in present : ~ Adjoin /\ Known = present \ {u} =>
              \/ phase = "resolve" /\ todo = {u} /\ AsTold
              \/ todo = {} /\ GuessedWell(u)

AloneInv ==
    alone # 0 =>
        /\ phase \in {"open", "walk", "done", "raised"}
        /\ Opened => base = [s \in {alone} |-> GlobalBase(alone)]

PlacesInv == /\ SplitTypes /\ TogetherInv /\ AloneInv
             /\ phase \in {"open", "resolve", "walk", "done", "raised", "failed"}

LEMMA KnownIsPresent == ASSUME AllTold PROVE Known = present
  BY DEF AllTold, Known

LEMMA PlacesInit == Init => PlacesInv
<1> SUFFICES ASSUME Init PROVE PlacesInv  OBVIOUS
<1>1. SplitTypes  BY DEF Init, SplitTypes
<1>2. phase = "open"  BY DEF Init
<1> QED BY <1>1, <1>2 DEF PlacesInv, TogetherInv, AloneInv, Opened

(* What a step that moves no slice keeps: all after the opening are such.   *)
LEMMA PlacesKept ==
    ASSUME PlacesInv, UNCHANGED <<archive, present, told, alone, todo, base>>,
           \/ phase' = phase
           \/ phase = "resolve" /\ todo = {} /\ phase' = "walk"
           \/ phase = "walk" /\ phase' \in {"done", "raised"}
    PROVE  PlacesInv'
<1>1. SplitTypes'  BY DEF PlacesInv, SplitTypes, Slices
<1>2. /\ Known' = Known /\ AllTold' = AllTold /\ Adjoin' = Adjoin /\ AsTold' = AsTold
      /\ \A u : GuessedWell(u)' = GuessedWell(u)
  BY DEF Known, AllTold, Adjoin, AsTold, GuessedWell, GoodPlace, Placeable, Gap, Room, GlobalBase,
         Start, Pages
<1>3. phase' \in {"open", "resolve", "walk", "done", "raised", "failed"}  BY DEF PlacesInv
<1>4. TogetherInv'
  <2> SUFFICES ASSUME alone' = 0, phase' \in {"resolve", "walk", "done", "raised"}
               PROVE  /\ Known # {}
                      /\ AllTold => todo = {} /\ AsTold
                      /\ \A u \in present : ~ Adjoin /\ Known = present \ {u} =>
                            \/ phase' = "resolve" /\ todo = {u} /\ AsTold
                            \/ todo = {} /\ GuessedWell(u)
    BY <1>2 DEF TogetherInv
  <2>1. alone = 0 /\ phase \in {"resolve", "walk", "done", "raised"}  OBVIOUS
  <2>2. Known # {} /\ (AllTold => todo = {} /\ AsTold)  BY <2>1 DEF PlacesInv, TogetherInv
  <2>3. ASSUME NEW u \in present, ~ Adjoin, Known = present \ {u}
        PROVE  \/ phase' = "resolve" /\ todo = {u} /\ AsTold
               \/ todo = {} /\ GuessedWell(u)
    <3>1. \/ phase = "resolve" /\ todo = {u} /\ AsTold
          \/ todo = {} /\ GuessedWell(u)
      BY <2>1, <2>3 DEF PlacesInv, TogetherInv
    <3>2. todo = {u} => todo # {}  OBVIOUS
    <3> QED BY <3>1, <3>2
  <2> QED BY <2>2, <2>3
<1>5. AloneInv'
  <2>1. /\ GlobalBase(alone)' = GlobalBase(alone)
        /\ Opened' => Opened \/ phase = "resolve"
    BY DEF GlobalBase, Start, Opened
  <2> QED BY <2>1 DEF PlacesInv, AloneInv, Opened
<1> QED BY <1>1, <1>3, <1>4, <1>5 DEF PlacesInv

LEMMA OpenAloneKeeps == PlacesInv /\ OpenAlone => PlacesInv'
<1> SUFFICES ASSUME PlacesInv, OpenAlone PROVE PlacesInv'  OBVIOUS
<1>1. UNCHANGED <<archive, present, told, alone>> /\ alone # 0 /\ phase' = "walk"
  BY DEF OpenAlone, Opening, Walking
<1>2. base' = [s \in {alone} |-> GlobalBase(alone)]  BY DEF OpenAlone
<1>3. SplitTypes'  BY <1>1 DEF PlacesInv, SplitTypes, Slices
<1>4. GlobalBase(alone)' = GlobalBase(alone)  BY <1>1 DEF GlobalBase, Start
<1> QED BY <1>1, <1>2, <1>3, <1>4 DEF PlacesInv, TogetherInv, AloneInv

LEMMA OpenAllKeeps == PlacesInv /\ OpenAll => PlacesInv'
<1> SUFFICES ASSUME PlacesInv, OpenAll PROVE PlacesInv'  OBVIOUS
<1>1. UNCHANGED <<archive, present, told, alone>> /\ alone = 0  BY DEF OpenAll, Opening
<1>2. /\ phase' = IF Known = {} THEN "failed" ELSE "resolve"
      /\ base' = [s \in Known |-> GlobalBase(s)]
      /\ todo' = present \ Known
  BY DEF OpenAll, Known
<1>3. SplitTypes /\ SplitTypes'  BY <1>1 DEF PlacesInv, SplitTypes, Slices
<1>4. Known' = Known /\ AllTold' = AllTold /\ Adjoin' = Adjoin
  BY <1>1 DEF Known, AllTold, Adjoin, GlobalBase, Start, Pages
<1>5. AsTold'
  <2>1. base' = [s \in Known |-> Start(s)]  BY <1>2, <1>3, KnownTypes
  <2>2. \A s : Start(s)' = Start(s)  BY <1>1 DEF Start
  <2> QED BY <1>4, <2>1, <2>2 DEF AsTold
<1>6. ASSUME phase' # "failed"
      PROVE  /\ Known # {}
             /\ AllTold => todo' = {}
             /\ \A u \in present : Known = present \ {u} => phase' = "resolve" /\ todo' = {u}
  BY <1>2, <1>6, KnownIsPresent
<1>7. TogetherInv'  BY <1>1, <1>4, <1>5, <1>6 DEF TogetherInv
<1> QED BY <1>1, <1>2, <1>3, <1>7 DEF PlacesInv, AloneInv

LEMMA ResolveKeeps == PlacesInv /\ Resolve => PlacesInv'
<1> SUFFICES ASSUME PlacesInv, Resolve PROVE PlacesInv'  OBVIOUS
<1>1. UNCHANGED <<archive, present, told, alone, phase>> /\ phase = "resolve" /\ todo # {}
  BY DEF Resolve, Opening
<1>2. PICK m : m = Min(todo) /\ todo' = todo \ {m}
             /\ base' = [s \in DOMAIN base \cup {m} |-> IF s = m THEN Place(m) ELSE base[s]]
  BY DEF Resolve
<1>3. SplitTypes /\ SplitTypes'  BY <1>1 DEF PlacesInv, SplitTypes, Slices
<1>4. alone = 0  BY <1>1 DEF PlacesInv, AloneInv
<1>5. Known # {} /\ ~ AllTold  BY <1>1, <1>4 DEF PlacesInv, TogetherInv
<1>6. /\ Known' = Known /\ AllTold' = AllTold /\ Adjoin' = Adjoin
      /\ \A u, p : GoodPlace(u, p)' = GoodPlace(u, p)
      /\ \A s : Start(s)' = Start(s)
  BY <1>1 DEF Known, AllTold, Adjoin, GoodPlace, Placeable, Gap, Room, GlobalBase, Start, Pages
<1>7. ASSUME NEW u \in present, ~ Adjoin, Known = present \ {u}
      PROVE  todo' = {} /\ GuessedWell(u)'
  <2>1. todo = {u} /\ AsTold  BY <1>1, <1>4, <1>7 DEF PlacesInv, TogetherInv
  <2>2. u \in Nat
    <3>1. u \in 1..Len(archive.slices) /\ Len(archive.slices) \in Nat  BY <1>3, <1>7, OneMissing
    <3> QED BY <3>1
  <2>3. m = u
    <3>1. \E x \in todo : \A y \in todo : x <= y  BY <2>1, <2>2
    <3>2. Min(todo) \in todo  BY <3>1 DEF Min
    <3> QED BY <1>2, <2>1, <3>2
  <2>4. base' = [s \in present |-> IF s = u THEN Place(u) ELSE Start(s)]
    <3>1. DOMAIN base = Known /\ u \notin Known  BY <1>7, <2>1 DEF AsTold
    <3>2. base' = [s \in Known \cup {u} |-> IF s = u THEN Place(u) ELSE base[s]]
      BY <1>2, <2>3, <3>1
    <3>3. \A s \in Known : base[s] = Start(s)  BY <2>1 DEF AsTold
    <3>4. Known \cup {u} = present  BY <1>7
    <3>5. \A s \in present : s # u => s \in Known  BY <1>7
    <3> QED BY <3>2, <3>3, <3>4, <3>5
  <2>5. GoodPlace(u, Place(u))  BY <1>3, <1>4, <1>5, <1>7, <2>1, PlaceIsGood
  <2>6. base'[u] = Place(u) /\ \A s \in Known : base'[s] = Start(s)
    <3>1. \A s \in Known : s \in present /\ s # u  BY <1>7
    <3> QED BY <2>4, <3>1
  <2>7. GoodPlace(u, base'[u])  BY <2>5, <2>6
  <2>8. DOMAIN base' = present  BY <2>4
  <2>9. GuessedWell(u)'
    <3>1. (\A s \in Known : base[s] = Start(s))'  BY <1>6, <2>6
    <3>2. GoodPlace(u, base[u])'
      <4>1. PICK p : p = base'[u]  OBVIOUS
      <4>2. GoodPlace(u, p)'  BY <1>6, <2>7, <4>1
      <4> QED BY <4>1, <4>2
    <3> QED BY <1>1, <2>8, <3>1, <3>2 DEF GuessedWell
  <2> QED BY <1>2, <2>1, <2>3, <2>9
<1>8. TogetherInv'  BY <1>1, <1>5, <1>6, <1>7 DEF TogetherInv
<1> QED BY <1>1, <1>3, <1>4, <1>8 DEF PlacesInv, AloneInv

LEMMA NextKeepsPlaces == PlacesInv /\ [Next]_vars => PlacesInv'
<1> SUFFICES ASSUME PlacesInv, [Next]_vars PROVE PlacesInv'  OBVIOUS
<1>1. CASE UNCHANGED vars  BY <1>1, PlacesKept DEF vars
<1>2. CASE OpenAlone  BY <1>2, OpenAloneKeeps
<1>3. CASE OpenAll  BY <1>3, OpenAllKeeps
<1>4. CASE Resolve  BY <1>4, ResolveKeeps
<1>5. CASE Concatenate  BY <1>5, PlacesKept DEF Concatenate, Opening, Walking
<1>6. CASE VisitNone  BY <1>6, PlacesKept DEF VisitNone, Fixed
<1>7. CASE VisitUnread  BY <1>7, PlacesKept DEF VisitUnread, Fixed
<1>8. CASE VisitDir  BY <1>8, PlacesKept DEF VisitDir, Fixed
<1>9. CASE VisitLeaf  BY <1>9, PlacesKept DEF VisitLeaf, Fixed
<1>10. CASE VisitRaise  BY <1>10, PlacesKept DEF VisitRaise, Visiting, Fixed
<1>11. CASE Finish  BY <1>11, PlacesKept DEF Finish, Fixed
<1> QED BY <1>1, <1>2, <1>3, <1>4, <1>5, <1>6, <1>7, <1>8, <1>9, <1>10, <1>11 DEF Next

LEMMA PlacesAlways == Spec => []PlacesInv
  BY PlacesInit, NextKeepsPlaces, PTL DEF Spec

-----------------------------------------------------------------------------
(* The theorems *)

LEMMA WindowOf ==
    ASSUME SplitTypes, NEW s \in Slices, NEW g \in Window(s)
    PROVE  g \in Nat /\ Start(s) <= g /\ g < Start(s) + Pages(s)
<1>1. Start(s) \in Nat /\ Pages(s) \in Nat  BY SliceTypes DEF SplitTypes
<1> QED BY <1>1 DEF Window

LEMMA InWindow ==
    ASSUME SplitTypes, NEW s \in Slices, NEW g \in Nat,
           Start(s) <= g, g < Start(s) + Pages(s)
    PROVE  g \in Window(s)
<1>1. Start(s) \in Nat /\ Pages(s) \in Nat  BY SliceTypes DEF SplitTypes
<1> QED BY <1>1 DEF Window

LEMMA TogetherReads ==
    ASSUME PlacesInv, Opened, AllTold, alone = 0, NEW g \in Nat
    PROVE  ReadPage(g) = IF \E s \in present : g \in Window(s) THEN g ELSE NoPage
<1>1. SplitTypes /\ Known # {} /\ AsTold /\ Known = present
  BY KnownIsPresent DEF PlacesInv, TogetherInv, Opened
<1>2. LaidOut  BY <1>1, AsToldIsLaidOut
<1>4. \A s \in present : /\ s \in DOMAIN base /\ base[s] = Start(s) /\ s \in Slices
                         /\ End(s) = Start(s) + Pages(s) /\ Start(s) \in Nat
  BY <1>1, KnownTypes DEF AsTold, End
<1>5. CASE \E s \in present : g \in Window(s)
  <2>1. PICK s \in present : g \in Window(s)  BY <1>5
  <2>2. Covers(s, g)  BY <1>1, <1>4, <2>1, WindowOf DEF Covers
  <2>3. ReadPage(g) = Start(s) + g - base[s]  BY <1>2, <1>4, <2>2, ReadInside
  <2>4. ReadPage(g) = g  BY <1>4, <2>3
  <2> QED BY <1>5, <2>4
<1>6. CASE ~ \E s \in present : g \in Window(s)
  <2>1. ASSUME NEW s \in DOMAIN base PROVE ~ Covers(s, g)
    <3>1. s \in present  BY <1>1 DEF AsTold
    <3>2. Covers(s, g) => g \in Window(s)  BY <1>1, <1>4, <3>1, InWindow DEF Covers
    <3> QED BY <1>6, <3>1, <3>2
  <2>2. ReadPage(g) = NoPage  BY <1>2, <2>1, ReadOutside
  <2> QED BY <1>6, <2>2
<1> QED BY <1>5, <1>6

LEMMA AloneReads ==
    ASSUME PlacesInv, Opened, AllTold, alone # 0, NEW g \in Nat, g >= base[alone]
    PROVE  ReadPage(g) = IF g \in Window(alone) THEN g ELSE NoPage
<1>1. SplitTypes /\ alone \in present /\ alone \in Slices
  BY DEF PlacesInv, SplitTypes
<1>2. Known = present /\ alone \in Known  BY <1>1, KnownIsPresent
<1>3. /\ Start(alone) \in Nat /\ Pages(alone) \in Nat \ {0} /\ GlobalBase(alone) = Start(alone)
      /\ GlobalBase(alone) # 0
  BY <1>1, <1>2, KnownTypes DEF Known
<1>4. base[alone] = Start(alone)  BY <1>3 DEF PlacesInv, AloneInv
<1>6. Local(g) = g - Start(alone) /\ PageCount = Pages(alone)  BY <1>3, <1>4 DEF Local, PageCount
<1>7. ReadPage(g) = IF g - Start(alone) \notin 0..(Pages(alone) - 1) THEN NoPage
                    ELSE Start(alone) + (g - Start(alone))
  BY <1>6 DEF ReadPage
<1>8. g - Start(alone) \in 0..(Pages(alone) - 1) <=> g \in Window(alone)
  BY <1>3, <1>4 DEF Window
<1>9. Start(alone) + (g - Start(alone)) = g  BY <1>3
<1> QED BY <1>7, <1>8, <1>9

LEMMA OwnFromInv == PlacesInv => ReadIsOwn
<1> SUFFICES ASSUME PlacesInv, Opened, AllTold, NEW g \in UNION {Window(s) : s \in Slices}
             PROVE  IF alone = 0
                    THEN ReadPage(g) = IF \E s \in present : g \in Window(s) THEN g ELSE NoPage
                    ELSE g >= base[alone] =>
                            ReadPage(g) = IF g \in Window(alone) THEN g ELSE NoPage
  BY DEF ReadIsOwn
<1>1. g \in Nat
  <2>1. PICK x \in Slices : g \in Window(x)  OBVIOUS
  <2> QED BY <2>1, WindowOf DEF PlacesInv
<1>2. CASE alone = 0  BY <1>1, <1>2, TogetherReads
<1>3. CASE alone # 0  BY <1>1, <1>3, AloneReads
<1> QED BY <1>2, <1>3

(* Slices that are put where the others are not.                            *)
LEMMA GuessedIsLaidOut ==
    ASSUME SplitTypes, alone = 0, Known # {}, NEW u \in present, Known = present \ {u},
           GuessedWell(u)
    PROVE  LaidOut
<1> DEFINE p == base[u]
<1>1. DOMAIN base = present /\ GoodPlace(u, p) /\ p \in Nat  BY DEF GuessedWell, GoodPlace
<1>2. \A s \in Known : base[s] = Start(s) /\ End(s) = Start(s) + Pages(s)  BY DEF GuessedWell, End
<1>3. End(u) = p + Pages(u) /\ Pages(u) \in Nat \ {0}  BY OneMissing DEF End
<1>4. Known \subseteq 1..Len(archive.slices) /\ Len(archive.slices) \in Nat
  BY KnownTypes, SliceTypes DEF SplitTypes
<1>5. ASSUME NEW r \in Known, NEW s \in Known, r < s PROVE End(r) <= base[s]
  BY <1>2, <1>5, KnownTypes, SlicesInOrder DEF SplitTypes
<1>6. ASSUME NEW r \in Known, NEW s \in Known, r # s
      PROVE  End(r) <= base[s] \/ End(s) <= base[r]
  <2>1. r \in Int /\ s \in Int  BY <1>4
  <2> QED BY <1>5, <1>6, <2>1
<1>7. ASSUME NEW s \in Known PROVE End(u) <= base[s] \/ End(s) <= base[u]
  BY <1>1, <1>2, <1>3 DEF GoodPlace
<1>8. ASSUME NEW r \in present, NEW s \in present, r # s
      PROVE  End(r) <= base[s] \/ End(s) <= base[r]
  <2>1. CASE r = u
    <3>1. s \in Known  BY <1>8, <2>1
    <3> QED BY <1>7, <2>1, <3>1
  <2>2. CASE s = u
    <3>1. r \in Known  BY <1>8, <2>2
    <3> QED BY <1>7, <2>2, <3>1
  <2>3. CASE r # u /\ s # u
    <3>1. r \in Known /\ s \in Known  BY <2>3
    <3> QED BY <1>6, <1>8, <3>1
  <2> QED BY <2>1, <2>2, <2>3
<1>9. PICK m \in Known : \A s \in Known : s <= m  BY <1>4, GreatestUpTo
<1>10. End(m) \in Nat /\ End(u) \in Nat
  BY <1>1, <1>2, <1>3, KnownTypes
<1>11. ASSUME NEW s \in present PROVE End(s) <= End(m) + End(u)
  <2>1. CASE s = u  BY <1>10, <2>1
  <2>2. CASE s = m  BY <1>10, <2>2
  <2>3. CASE s # u /\ s # m
    <3>1. s \in Known  BY <2>3
    <3>2. s < m  BY <1>4, <1>9, <2>3, <3>1
    <3>3. End(s) <= base[m]  BY <1>5, <3>1, <3>2
    <3>4. /\ base[m] = Start(m) /\ End(m) = Start(m) + Pages(m) /\ End(s) = Start(s) + Pages(s)
          /\ Start(m) \in Nat /\ Pages(m) \in Nat /\ Start(s) \in Nat /\ Pages(s) \in Nat
      BY <1>2, <3>1, KnownTypes
    <3> QED BY <1>10, <3>3, <3>4
  <2> QED BY <2>1, <2>2, <2>3
<1>12. End(m) + End(u) \in Nat  BY <1>10
<1>13. ASSUME NEW s \in present PROVE base[s] \in Nat
  <2>1. CASE s = u  BY <1>1, <2>1
  <2>2. CASE s # u
    <3>1. s \in Known  BY <2>2
    <3> QED BY <1>2, <3>1, KnownTypes
  <2> QED BY <2>1, <2>2
<1> QED BY <1>1, <1>8, <1>11, <1>12, <1>13 DEF LaidOut, SplitTypes

LEMMA SafeFromInv == PlacesInv => GuessIsSafe
<1> SUFFICES ASSUME PlacesInv, Opened, alone = 0, ~ Adjoin,
                    NEW u \in present, Known = present \ {u},
                    NEW s \in present, s # u \/ Placeable(u), NEW g \in Window(s)
             PROVE  ReadPage(g) = g
  BY DEF GuessIsSafe
<1>1. SplitTypes /\ Known # {} /\ GuessedWell(u)
  BY DEF PlacesInv, TogetherInv, Opened
<1>2. LaidOut /\ s \in DOMAIN base  BY <1>1, GuessedIsLaidOut DEF GuessedWell
<1>3. base[s] = Start(s)
  <2>1. CASE s # u
    <3>1. s \in Known  BY <2>1
    <3> QED BY <1>1, <3>1 DEF GuessedWell
  <2>2. CASE s = u  BY <1>1, <2>2 DEF GuessedWell, GoodPlace
  <2> QED BY <2>1, <2>2
<1>4. s \in Slices  BY <1>1 DEF SplitTypes
<1>5. g \in Nat /\ Covers(s, g)  BY <1>1, <1>3, <1>4, WindowOf DEF Covers, End
<1>6. ReadPage(g) = Start(s) + g - base[s]  BY <1>2, <1>5, ReadInside
<1>7. Start(s) \in Nat  BY <1>1, <1>4, SliceTypes DEF SplitTypes
<1> QED BY <1>3, <1>5, <1>6, <1>7

(* However an archive is split and whichever slices are gone, a page is read *)
(* as itself or not at all, by the handle of all slices when each has its    *)
(* header, and by that of one slice from its base on.                        *)
THEOREM OwnPagesForAll == Spec => []ReadIsOwn
  BY PlacesAlways, OwnFromInv, PTL

(* However an archive is split, a slice without a header that is placed by   *)
(* its length takes no page of the others, as long as no two of them adjoin, *)
(* and is in its own place when no other gap is as long.                     *)
THEOREM SafeGuessForAll == Spec => []GuessIsSafe
  BY PlacesAlways, SafeFromInv, PTL

-----------------------------------------------------------------------------
(* The walk of a tree *)

Trees    == DOMAIN archive.page
ItemType == [page : Trees, depth : 1..(MaxDepth + 1)]

LEMMA TreeTypes ==
    ASSUME archive \in Archives
    PROVE  /\ MaxDepth \in Nat /\ NoPage \notin Nat /\ archive.limit \in Nat
           /\ archive.root \in Trees /\ Trees \subseteq Nat
           /\ \A g \in Trees : Page(g).kids \in Seq(Trees)
           /\ \A g : Page(g).type \in {"leaf", "ldir"} => g \in Trees
<1>1. \A g : g \notin Trees => Page(g).type = "other"  BY DEF Page, Trees
<1>2. \A g \in Trees : Page(g) = archive.page[g]  BY DEF Page, Trees
<1> QED BY <1>1, <1>2, TreesAssumption DEF Trees

LEMMA LevelType ==
    ASSUME archive \in Archives, NEW b \in [Trees -> Seq(Trees)]
    PROVE  LeavesAbove(b) \in [Trees -> Seq(Trees)]
<1> SUFFICES ASSUME NEW g \in Trees PROVE LeavesAbove(b)[g] \in Seq(Trees)
  BY DEF LeavesAbove, Trees
<1> DEFINE kids == Page(g).kids  p == [k \in 1..Len(kids) |-> b[kids[k]]]
<1>1. kids \in Seq(Trees)  BY TreeTypes
<1> HIDE DEF kids
<1>2. Len(kids) \in Nat /\ \A k \in 1..Len(kids) : kids[k] \in Trees  BY <1>1, ElementOfSeq
<1>3. p \in Seq(Seq(Trees))
  <2>1. p \in [1..Len(kids) -> Seq(Trees)]  BY <1>2
  <2> HIDE DEF p
  <2> QED BY <1>2, <2>1, FunctionIsSeq
<1> HIDE DEF p
<1>4. FlattenSeq(p) \in Seq(Trees)
  <2>1. PICK f \in [0..Len(p) -> Seq(Trees)] : FlattenSeq(p) = f[Len(p)]  BY <1>3, Flattened
  <2>2. Len(p) \in 0..Len(p)  BY <1>3, LenProperties
  <2> QED BY <2>1, <2>2
<1>5. << >> \in Seq(Trees) /\ <<g>> \in Seq(Trees)  OBVIOUS
<1>6. LeavesAbove(b)[g] \in {<< >>, <<g>>, FlattenSeq(p)}
  <2>1. LeavesAbove(b)[g] = IF ~ Has(g) THEN << >>
                            ELSE CASE Page(g).type = "leaf" -> <<g>>
                                   [] Page(g).type = "ldir" -> FlattenSeq(p)
                                   [] OTHER -> << >>
    BY DEF LeavesAbove, p, kids, Trees
  <2> QED BY <2>1
<1> QED BY <1>4, <1>5, <1>6

NoLeaves == [g \in Trees |-> << >>]

LeavesBelow == CHOOSE h : h = [n \in 0..MaxDepth |-> IF n = 0 THEN NoLeaves ELSE LeavesAbove(h[n - 1])]

LEMMA LeavesAre == Leaves = LeavesBelow[MaxDepth][archive.root]
  BY DEF Leaves, LeavesBelow, NoLeaves, Trees

LEMMA LeavesBelowIs ==
    ASSUME archive \in Archives
    PROVE  /\ LeavesBelow \in [0..MaxDepth -> [Trees -> Seq(Trees)]]
           /\ LeavesBelow[0] = NoLeaves
           /\ \A n \in 1..MaxDepth : LeavesBelow[n] = LeavesAbove(LeavesBelow[n - 1])
<1> DEFINE S == [Trees -> Seq(Trees)]
           Is(h) == h = [n \in 0..MaxDepth |-> IF n = 0 THEN NoLeaves ELSE LeavesAbove(h[n - 1])]
           g == [i \in 1..MaxDepth |-> [b \in S |-> LeavesAbove(b)]]
<1>1. MaxDepth \in Nat  BY TreeTypes
<1>2. NoLeaves \in S  BY DEF NoLeaves
<1>3. \A b \in S : LeavesAbove(b) \in S  BY LevelType
<1> HIDE DEF S
<1>4. g \in [1..MaxDepth -> [S -> S]]  BY <1>3
<1>5. PICK f : Steps(f, MaxDepth, S, NoLeaves, g)
  <2> HIDE DEF g
  <2> QED BY <1>1, <1>2, <1>4, Recursion
<1>6. f \in [0..MaxDepth -> S]  BY <1>5 DEF Steps
<1>7. ASSUME NEW n \in 0..MaxDepth PROVE f[n] = IF n = 0 THEN NoLeaves ELSE LeavesAbove(f[n - 1])
  <2>0. f[n] = IF n = 0 THEN NoLeaves ELSE g[n][f[n - 1]]
    <3> HIDE DEF g
    <3> QED BY <1>5 DEF Steps
  <2>1. CASE n = 0  BY <2>0, <2>1
  <2>2. CASE n # 0
    <3>1. n \in 1..MaxDepth /\ n - 1 \in 0..MaxDepth  BY <1>1, <2>2
    <3>2. f[n - 1] \in S  BY <1>6, <3>1
    <3>3. g[n] = [b \in S |-> LeavesAbove(b)]  BY <3>1
    <3> HIDE DEF g
    <3> QED BY <2>0, <2>2, <3>2, <3>3
  <2> QED BY <2>1, <2>2
<1>8. Is(f)  BY <1>6, <1>7
<1>9. LeavesBelow = CHOOSE h : Is(h)  BY DEF LeavesBelow
<1>10. Is(LeavesBelow)
  <2> HIDE DEF Is
  <2> QED BY <1>8, <1>9
<1>11. \A n \in 0..MaxDepth :
          LeavesBelow[n] = IF n = 0 THEN NoLeaves ELSE LeavesAbove(LeavesBelow[n - 1])
  BY <1>10, Zenon
<1>12. LeavesBelow[0] = NoLeaves /\ \A n \in 1..MaxDepth : LeavesBelow[n] = LeavesAbove(LeavesBelow[n - 1])
  <2>1. 0 \in 0..MaxDepth /\ \A n \in 1..MaxDepth : n \in 0..MaxDepth /\ n # 0  BY <1>1
  <2> QED BY <1>11, <2>1
<1>13. \A n \in 0..MaxDepth : LeavesBelow[n] \in S
  <2> DEFINE T == {n \in 0..MaxDepth : LeavesBelow[n] \in S}
  <2>1. 0 \in T  BY <1>1, <1>2, <1>12
  <2>2. ASSUME NEW n \in 0..(MaxDepth - 1), n \in T PROVE n + 1 \in T
    <3>1. n + 1 \in 1..MaxDepth /\ (n + 1) - 1 = n /\ n + 1 \in 0..MaxDepth  BY <1>1
    <3>2. LeavesBelow[n + 1] = LeavesAbove(LeavesBelow[n])  BY <1>12, <3>1
    <3> QED BY <1>3, <2>2, <3>1, <3>2
  <2> HIDE DEF T
  <2>3. 0..MaxDepth \subseteq T  BY <1>1, <2>1, <2>2, AllUpTo
  <2> QED BY <2>3 DEF T
<1>14. LeavesBelow \in [0..MaxDepth -> S]
  <2>1. LeavesBelow = [n \in 0..MaxDepth |-> LeavesBelow[n]]
    <3>1. DOMAIN LeavesBelow = 0..MaxDepth  BY <1>10, Zenon
    <3> QED BY <1>10, <3>1, Zenon
  <2> QED BY <1>13, <2>1
<1> QED BY <1>12, <1>14 DEF S

(* What pages still to visit are going to yield.                             *)
Yields(e) == LeavesBelow[MaxDepth + 1 - e.depth][e.page]
Rest(st)  == FlattenSeq([k \in 1..Len(st) |-> Yields(st[k])])

LEMMA YieldsType ==
    ASSUME archive \in Archives, NEW e \in ItemType PROVE Yields(e) \in Seq(Trees)
<1>1. MaxDepth \in Nat  BY TreeTypes
<1>2. e.depth \in 1..(MaxDepth + 1) /\ e.page \in Trees  BY DEF ItemType
<1>3. MaxDepth + 1 - e.depth \in 0..MaxDepth  BY <1>1, <1>2
<1> DEFINE S == [Trees -> Seq(Trees)]
<1>4. LeavesBelow[MaxDepth + 1 - e.depth] \in S
  <2> HIDE DEF S
  <2>1. LeavesBelow \in [0..MaxDepth -> S]  BY LeavesBelowIs DEF S
  <2> QED BY <1>3, <2>1
<1> QED BY <1>2, <1>4 DEF Yields

LEMMA RestTypes ==
    ASSUME archive \in Archives, NEW st \in Seq(ItemType)
    PROVE  /\ Len(st) \in Nat
           /\ [k \in 1..Len(st) |-> Yields(st[k])] \in Seq(Seq(Trees))
           /\ Len([k \in 1..Len(st) |-> Yields(st[k])]) = Len(st)
<1>1. Len(st) \in Nat /\ \A k \in 1..Len(st) : st[k] \in ItemType  BY LenProperties, ElementOfSeq
<1> DEFINE p == [k \in 1..Len(st) |-> Yields(st[k])]
<1>2. p \in [1..Len(st) -> Seq(Trees)]  BY <1>1, YieldsType
<1> HIDE DEF p
<1>3. p \in Seq(Seq(Trees)) /\ Len(p) = Len(st)  BY <1>1, <1>2, FunctionIsSeq
<1> QED BY <1>1, <1>3 DEF p

LEMMA RestConcat ==
    ASSUME archive \in Archives, NEW x \in Seq(ItemType), NEW y \in Seq(ItemType)
    PROVE  Rest(x \o y) = Rest(x) \o Rest(y)
<1> DEFINE p(st) == [k \in 1..Len(st) |-> Yields(st[k])]
<1>1. /\ x \o y \in Seq(ItemType) /\ Len(x) \in Nat /\ Len(y) \in Nat
      /\ Len(x \o y) = Len(x) + Len(y)
      /\ \A k \in 1..Len(x) : (x \o y)[k] = x[k]
      /\ \A k \in 1..Len(y) : (x \o y)[Len(x) + k] = y[k]
  <2> HIDE DEF ItemType
  <2> QED OBVIOUS
<1>2. /\ p(x) \in Seq(Seq(Trees)) /\ p(y) \in Seq(Seq(Trees)) /\ p(x \o y) \in Seq(Seq(Trees))
      /\ Len(p(x)) = Len(x) /\ Len(p(y)) = Len(y) /\ Len(p(x \o y)) = Len(x) + Len(y)
  BY <1>1, RestTypes
<1>3. \A k \in 1..Len(x) : p(x \o y)[k] = p(x)[k]
  <2> SUFFICES ASSUME NEW k \in 1..Len(x) PROVE p(x \o y)[k] = p(x)[k]  OBVIOUS
  <2>1. k \in 1..Len(x \o y)  BY <1>1
  <2> QED BY <1>1, <2>1
<1>4. \A k \in 1..Len(y) : p(x \o y)[Len(x) + k] = p(y)[k]
  <2> SUFFICES ASSUME NEW k \in 1..Len(y) PROVE p(x \o y)[Len(x) + k] = p(y)[k]  OBVIOUS
  <2>1. Len(x) + k \in 1..Len(x \o y)  BY <1>1
  <2> QED BY <1>1, <2>1
<1>5. Rest(x \o y) = FlattenSeq(p(x \o y)) /\ Rest(x) = FlattenSeq(p(x)) /\ Rest(y) = FlattenSeq(p(y))
  BY DEF Rest
<1> HIDE DEF p
<1>6. p(x \o y) = p(x) \o p(y)
  <2>1. /\ p(x) \o p(y) \in Seq(Seq(Trees)) /\ Len(p(x) \o p(y)) = Len(x) + Len(y)
        /\ \A k \in 1..(Len(x) + Len(y)) :
              (p(x) \o p(y))[k] = IF k <= Len(x) THEN p(x)[k] ELSE p(y)[k - Len(x)]
    BY <1>1, <1>2
  <2>2. ASSUME NEW k \in 1..(Len(x) + Len(y)) PROVE p(x \o y)[k] = (p(x) \o p(y))[k]
    <3>1. CASE k <= Len(x)
      <4>1. k \in 1..Len(x)  BY <1>1, <3>1
      <4> QED BY <1>3, <2>1, <3>1, <4>1
    <3>2. CASE ~ (k <= Len(x))
      <4>1. k - Len(x) \in 1..Len(y) /\ Len(x) + (k - Len(x)) = k  BY <1>1, <3>2
      <4>2. p(x \o y)[Len(x) + (k - Len(x))] = p(y)[k - Len(x)]  BY <1>4, <4>1
      <4> QED BY <2>1, <3>2, <4>1, <4>2
    <3> QED BY <3>1, <3>2
  <2> QED BY <1>2, <2>1, <2>2, SeqEqual
<1>7. FlattenSeq(p(x) \o p(y)) = FlattenSeq(p(x)) \o FlattenSeq(p(y))
  BY <1>2, FlattenConcat
<1> QED BY <1>5, <1>6, <1>7

LEMMA RestOne ==
    ASSUME archive \in Archives, NEW e \in ItemType
    PROVE  Rest(<<e>>) = Yields(e) /\ Rest(<< >>) = << >>
<1>1. [k \in 1..Len(<<e>>) |-> Yields(<<e>>[k])] = <<Yields(e)>>  OBVIOUS
<1>2. [k \in 1..Len(<< >>) |-> Yields(<< >>[k])] = << >>  OBVIOUS
<1>3. FlattenSeq(<<Yields(e)>>) = Yields(e) /\ FlattenSeq(<< >>) = << >>
  <2>1. Yields(e) \in Seq(Trees)  BY YieldsType
  <2> QED BY <2>1, FlattenOne
<1> QED BY <1>1, <1>2, <1>3 DEF Rest

LEMMA RestHead ==
    ASSUME archive \in Archives, NEW st \in Seq(ItemType), st # << >>
    PROVE  /\ Head(st) \in ItemType /\ Tail(st) \in Seq(ItemType)
           /\ Rest(st) = Yields(Head(st)) \o Rest(Tail(st))
<1>1. Head(st) \in ItemType /\ Tail(st) \in Seq(ItemType) /\ st = <<Head(st)>> \o Tail(st)
  <2> HIDE DEF ItemType
  <2> QED BY HeadTailProperties
<1>2. <<Head(st)>> \in Seq(ItemType)
  <2> HIDE DEF ItemType
  <2> QED BY <1>1
<1>3. Rest(<<Head(st)>> \o Tail(st)) = Rest(<<Head(st)>>) \o Rest(Tail(st))
  BY <1>1, <1>2, RestConcat
<1> QED BY <1>1, <1>3, RestOne

LEMMA RestType ==
    ASSUME archive \in Archives, NEW st \in Seq(ItemType) PROVE Rest(st) \in Seq(Trees)
<1> DEFINE p == [k \in 1..Len(st) |-> Yields(st[k])]
<1>1. p \in Seq(Seq(Trees)) /\ Len(p) \in Nat  BY RestTypes
<1> HIDE DEF p
<1>2. PICK f \in [0..Len(p) -> Seq(Trees)] : FlattenSeq(p) = f[Len(p)]  BY <1>1, Flattened
<1>3. FlattenSeq(p) \in Seq(Trees)
  <2>1. Len(p) \in 0..Len(p)  BY <1>1
  <2> QED BY <1>2, <2>1
<1> QED BY <1>3 DEF Rest, p

(* A page of a tree is there or is not read. *)
InTree == alone # 0 => \A g \in Trees : g >= Start(alone)

LEMMA PageIsHad ==
    ASSUME PlacesInv, Opened, AllTold, InTree, NEW g \in Trees
    PROVE  /\ Has(g) => InRange(g) /\ ReadPage(g) = g
           /\ ~ Has(g) => ReadPage(g) = NoPage
<1>1. archive \in Archives  BY DEF PlacesInv, SplitTypes
<1>2. g \in Nat /\ NoPage \notin Nat  BY <1>1, TreeTypes
<1>3. ReadPage(g) = IF Has(g) THEN g ELSE NoPage
  <2>1. CASE alone = 0  BY <1>2, <2>1, TogetherReads DEF Has
  <2>2. CASE alone # 0
    <3>1. SplitTypes /\ alone \in present  BY <2>2 DEF PlacesInv, SplitTypes
    <3>2. alone \in Known  BY <3>1, KnownIsPresent
    <3>3. base[alone] = GlobalBase(alone)  BY <2>2 DEF PlacesInv, AloneInv
    <3>4. base[alone] = Start(alone)  BY <3>1, <3>2, <3>3, KnownTypes
    <3>5. g >= base[alone]  BY <2>2, <3>4 DEF InTree
    <3> QED BY <1>2, <2>2, <3>5, AloneReads DEF Has
  <2> QED BY <2>1, <2>2
<1>4. Has(g) => ReadPage(g) # NoPage  BY <1>2, <1>3
<1> QED BY <1>3, <1>4 DEF ReadPage, InRange

(* What a walk has yielded and has yet to yield are the leaves of the tree,  *)
(* as long as it has not come to its limit.                                  *)
WalkTyped ==
    /\ walked \in Nat /\ walked <= archive.limit
    /\ phase \in {"open", "resolve"} => yielded = << >>
    /\ phase \in {"walk", "done"} => stack \in Seq(ItemType) /\ yielded \in Seq(Trees)
    /\ phase = "done" => stack = << >>

Sum == phase \in {"walk", "done"} /\ AllTold /\ InTree /\ walked < archive.limit
       => yielded \o Rest(stack) = Leaves

TreeInv == PlacesInv /\ WalkTyped /\ Sum

LEMMA TreeInit == Init => TreeInv
<1> SUFFICES ASSUME Init PROVE TreeInv  OBVIOUS
<1>1. PlacesInv  BY PlacesInit
<1>2. archive.limit \in Nat  BY <1>1, TreeTypes DEF PlacesInv, SplitTypes
<1> QED BY <1>1, <1>2 DEF Init, TreeInv, WalkTyped, Sum

LEMMA StaticWalk ==
    ASSUME UNCHANGED <<archive, present, told, alone>>
    PROVE  /\ AllTold' = AllTold /\ InTree' = InTree /\ Leaves' = Leaves
           /\ Trees' = Trees /\ ItemType' = ItemType /\ Rest(stack)' = Rest(stack')
<1>1. /\ AllTold' = AllTold /\ InTree' = InTree /\ Trees' = Trees /\ ItemType' = ItemType
      /\ NoLeaves' = NoLeaves
  BY DEF AllTold, GlobalBase, Start, InTree, Trees, ItemType, NoLeaves
<1>2. \A g : Has(g)' = Has(g) /\ Page(g)' = Page(g)  BY DEF Has, Window, Start, Pages, Page, Slices
<1>3. \A b : LeavesAbove(b)' = LeavesAbove(b)  BY <1>2 DEF LeavesAbove
<1>4. LeavesBelow' = LeavesBelow  BY <1>1, <1>3 DEF LeavesBelow
<1>5. Leaves' = Leaves
  <2>1. (Leaves = LeavesBelow[MaxDepth][archive.root])'
    BY DEF Leaves, LeavesBelow, NoLeaves, Trees
  <2> QED BY <1>4, <2>1, LeavesAre
<1>6. Rest(stack)' = Rest(stack')  BY <1>4 DEF Rest, Yields
<1> QED BY <1>1, <1>5, <1>6

LEMMA WalkStarts ==
    ASSUME TreeInv, PlacesInv', UNCHANGED <<archive, present, told, alone, walked, yielded>>,
           phase \in {"open", "resolve"},
           \/ phase' \in {"resolve", "failed"}
           \/ Walking
    PROVE  TreeInv'
<1>1. archive \in Archives  BY DEF TreeInv, PlacesInv, SplitTypes
<1>2. yielded = << >> /\ walked \in Nat /\ walked <= archive.limit  BY DEF TreeInv, WalkTyped
<1>3. CASE phase' \in {"resolve", "failed"}
  BY <1>2, <1>3 DEF TreeInv, WalkTyped, Sum
<1>4. CASE Walking
  <2> DEFINE e == [page |-> archive.root, depth |-> 1]
  <2>1. phase' = "walk" /\ stack' = <<e>>  BY <1>4 DEF Walking
  <2>2. MaxDepth \in Nat /\ archive.root \in Trees  BY <1>1, TreeTypes
  <2>3. e \in ItemType  BY <2>2 DEF ItemType
  <2>4. Yields(e) = Leaves
    <3>1. MaxDepth + 1 - 1 = MaxDepth  BY <2>2
    <3> QED BY <3>1, LeavesAre DEF Yields
  <2>5. Rest(<<e>>) = Leaves /\ Leaves \in Seq(Trees)  BY <1>1, <2>3, <2>4, RestOne, YieldsType
  <2> HIDE DEF e
  <2>6. << >> \o Leaves = Leaves /\ <<e>> \in Seq(ItemType) /\ << >> \in Seq(Trees)
    <3> HIDE DEF ItemType, Trees, Leaves
    <3> QED BY <2>3, <2>5
  <2>7. Sum'
    <3>1. Rest(stack)' = Rest(<<e>>) /\ Leaves' = Leaves  BY <2>1, StaticWalk
    <3> QED BY <1>2, <2>1, <2>5, <2>6, <3>1 DEF Sum
  <2>8. WalkTyped'  BY <1>2, <2>1, <2>6, StaticWalk DEF WalkTyped
  <2> QED BY <2>7, <2>8 DEF TreeInv
<1> QED BY <1>3, <1>4

(* A step that visits the first page: it leaves some pages to visit in its   *)
(* place, and yields some leaves, which together are those below it.         *)
LEMMA VisitKeeps ==
    ASSUME TreeInv, PlacesInv', UNCHANGED <<archive, present, told, alone>>,
           phase = "walk", phase' = "walk", stack # << >>,
           NEW new \in Seq(ItemType), NEW more \in Seq(Trees),
           stack' = new \o Tail(stack), yielded' = yielded \o more,
           walked' \in Nat, walked <= walked', walked' <= archive.limit,
           AllTold /\ InTree /\ walked' < archive.limit => Yields(Head(stack)) = more \o Rest(new)
    PROVE  TreeInv'
<1>1. archive \in Archives /\ stack \in Seq(ItemType) /\ yielded \in Seq(Trees) /\ walked \in Nat
  BY DEF TreeInv, PlacesInv, SplitTypes, WalkTyped
<1>2. archive.limit \in Nat  BY <1>1, TreeTypes
<1> DEFINE tail == Tail(stack)
<1>3. /\ tail \in Seq(ItemType) /\ Rest(stack) = Yields(Head(stack)) \o Rest(tail)
  BY <1>1, RestHead
<1>4. Rest(new \o tail) = Rest(new) \o Rest(tail)  BY <1>1, <1>3, RestConcat
<1>5. Rest(new) \in Seq(Trees) /\ Rest(tail) \in Seq(Trees)  BY <1>1, <1>3, RestType
<1> HIDE DEF tail
<1>6. stack' \in Seq(ItemType) /\ yielded' \in Seq(Trees)
  <2>1. stack' = new \o tail  BY DEF tail
  <2> HIDE DEF ItemType, Trees
  <2> QED BY <1>1, <1>3, <2>1, ConcatProperties
<1>7. WalkTyped'  BY <1>6, StaticWalk DEF WalkTyped
<1>8. ASSUME AllTold, InTree, walked' < archive.limit
      PROVE  yielded' \o Rest(stack') = Leaves
  <2>1. walked < archive.limit  BY <1>1, <1>2, <1>8
  <2>2. yielded \o (Yields(Head(stack)) \o Rest(tail)) = Leaves  BY <1>3, <1>8, <2>1 DEF TreeInv, Sum
  <2>3. Yields(Head(stack)) = more \o Rest(new)  BY <1>8
  <2>4. (yielded \o more) \o (Rest(new) \o Rest(tail)) = yielded \o ((more \o Rest(new)) \o Rest(tail))
    <3>1. Cat(Cat(yielded, more), Cat(Rest(new), Rest(tail)))
          = Cat(yielded, Cat(Cat(more, Rest(new)), Rest(tail)))
      BY <1>1, <1>5, CatFour
    <3> QED BY <3>1 DEF Cat
  <2>5. stack' = new \o tail  BY DEF tail
  <2> QED BY <1>4, <2>2, <2>3, <2>4, <2>5
<1>9. Sum'
  <2>1. Rest(stack)' = Rest(stack') /\ Leaves' = Leaves /\ AllTold' = AllTold /\ InTree' = InTree
        /\ archive' = archive
    BY StaticWalk
  <2> QED BY <1>8, <2>1 DEF Sum
<1> QED BY <1>7, <1>9 DEF TreeInv

(* The pages below a directory yield what the directory does. *)
LEMMA PendingYields ==
    ASSUME archive \in Archives, NEW e \in ItemType, e.depth <= MaxDepth,
           NEW g, Page(g).type = "ldir"
    PROVE  /\ Pending(e, Page(g).kids) \in Seq(ItemType)
           /\ g = e.page /\ Has(g) => Yields(e) = Rest(Pending(e, Page(g).kids))
<1> DEFINE kids == Page(g).kids  m == MaxDepth + 1 - e.depth  q == Pending(e, kids)
<1>1. g \in Trees /\ kids \in Seq(Trees) /\ MaxDepth \in Nat  BY TreeTypes
<1>2. e.page \in Trees /\ e.depth \in 1..(MaxDepth + 1)  BY DEF ItemType
<1>3. m \in 1..MaxDepth /\ e.depth + 1 \in 1..(MaxDepth + 1) /\ MaxDepth + 1 - (e.depth + 1) = m - 1
  BY <1>1, <1>2
<1>4. Len(kids) \in Nat /\ \A k \in 1..Len(kids) : kids[k] \in Trees
  <2> HIDE DEF kids
  <2> QED BY <1>1, LenProperties, ElementOfSeq
<1>5. q = [k \in 1..Len(kids) |-> [page |-> kids[k], depth |-> e.depth + 1]]  BY DEF Pending
<1> HIDE DEF q, kids, m
<1>6. q \in [1..Len(kids) -> ItemType]
  <2>1. \A k \in 1..Len(kids) : [page |-> kids[k], depth |-> e.depth + 1] \in ItemType
    BY <1>3, <1>4 DEF ItemType
  <2> QED BY <1>5, <2>1
<1>7. q \in Seq(ItemType) /\ Len(q) = Len(kids)
  <2> HIDE DEF ItemType
  <2> QED BY <1>4, <1>6, FunctionIsSeq
<1>8. ASSUME g = e.page, Has(g) PROVE Yields(e) = Rest(q)
  <2>1. LeavesBelow[m] = LeavesAbove(LeavesBelow[m - 1])  BY <1>3, LeavesBelowIs
  <2>2. Yields(e) = LeavesAbove(LeavesBelow[m - 1])[g]  BY <1>8, <2>1 DEF Yields, m
  <2>3. Yields(e) = FlattenSeq([k \in 1..Len(kids) |-> LeavesBelow[m - 1][kids[k]]])
    BY <1>1, <1>8, <2>2 DEF LeavesAbove, Trees, kids
  <2>4. \A k \in 1..Len(kids) : Yields(q[k]) = LeavesBelow[m - 1][kids[k]]
    BY <1>3, <1>5 DEF Yields
  <2>5. [k \in 1..Len(q) |-> Yields(q[k])] = [k \in 1..Len(kids) |-> LeavesBelow[m - 1][kids[k]]]
    BY <1>7, <2>4
  <2> QED BY <2>3, <2>5 DEF Rest
<1> QED BY <1>7, <1>8 DEF q, kids

(* Other pages yield themselves or nothing.                                  *)
LEMMA OtherYields ==
    ASSUME archive \in Archives, NEW e \in ItemType, e.depth <= MaxDepth
    PROVE  /\ ~ Has(e.page) => Yields(e) = << >>
           /\ Page(e.page).type \notin {"leaf", "ldir"} => Yields(e) = << >>
           /\ Has(e.page) /\ Page(e.page).type = "leaf" => Yields(e) = <<e.page>>
<1> DEFINE m == MaxDepth + 1 - e.depth  g == e.page
<1>1. MaxDepth \in Nat /\ g \in Trees /\ e.depth \in 1..(MaxDepth + 1)  BY TreeTypes DEF ItemType
<1>2. m \in 1..MaxDepth  BY <1>1
<1>3. LeavesBelow[m] = LeavesAbove(LeavesBelow[m - 1])  BY <1>2, LeavesBelowIs
<1> HIDE DEF m, g
<1>4. Yields(e) = LeavesAbove(LeavesBelow[m - 1])[g]  BY <1>3 DEF Yields, m, g
<1> DEFINE p == FlattenSeq([k \in 1..Len(Page(g).kids) |-> LeavesBelow[m - 1][Page(g).kids[k]]])
<1>5. Yields(e) = IF ~ Has(g) THEN << >>
                  ELSE CASE Page(g).type = "leaf" -> <<g>>
                         [] Page(g).type = "ldir" -> p
                         [] OTHER -> << >>
  BY <1>1, <1>4 DEF LeavesAbove, Trees
<1> HIDE DEF p
<1> QED BY <1>5 DEF g

LEMMA TreeNext == TreeInv /\ [Next]_vars => TreeInv'
<1> SUFFICES ASSUME TreeInv, [Next]_vars PROVE TreeInv'  OBVIOUS
<1>1. PlacesInv' /\ PlacesInv /\ archive \in Archives  
  BY NextKeepsPlaces DEF TreeInv, PlacesInv, SplitTypes
<1>2. archive.limit \in Nat /\ MaxDepth \in Nat /\ NoPage \notin Nat  BY <1>1, TreeTypes
<1>3. CASE UNCHANGED vars
  <2>1. WalkTyped'  BY <1>3 DEF vars, TreeInv, WalkTyped, ItemType, Trees
  <2>2. Sum'
    <3>1. /\ UNCHANGED <<archive, present, told, alone>> /\ stack' = stack /\ yielded' = yielded
          /\ phase' = phase /\ walked' = walked
      BY <1>3 DEF vars
    <3>2. Rest(stack)' = Rest(stack)  BY <3>1, StaticWalk
    <3> QED BY <3>1, <3>2, StaticWalk DEF Sum, TreeInv
  <2> QED BY <1>1, <2>1, <2>2 DEF TreeInv
<1>4. CASE OpenAlone  BY <1>1, <1>4, WalkStarts DEF OpenAlone, Opening
<1>5. CASE OpenAll  BY <1>1, <1>5, WalkStarts DEF OpenAll, Opening
<1>6. CASE Resolve  BY <1>1, <1>6, WalkStarts DEF Resolve, Opening
<1>7. CASE Concatenate  BY <1>1, <1>7, WalkStarts DEF Concatenate, Opening
<1> DEFINE e == Head(stack)  nil == << >>
<1>8. ASSUME Visiting
      PROVE  /\ phase = "walk" /\ Opened /\ stack # << >> /\ stack \in Seq(ItemType)
             /\ yielded \in Seq(Trees) /\ walked \in Nat /\ walked <= archive.limit
             /\ e \in ItemType /\ e.page \in Trees /\ e.depth \in Nat
             /\ Tail(stack) = nil \o Tail(stack) /\ yielded = yielded \o nil
             /\ nil \in Seq(ItemType) /\ nil \in Seq(Trees) /\ nil \o nil = nil /\ Rest(nil) = nil
  <2>1. /\ phase = "walk" /\ stack # << >> /\ stack \in Seq(ItemType)
        /\ yielded \in Seq(Trees) /\ walked \in Nat /\ walked <= archive.limit
    BY <1>8 DEF Visiting, TreeInv, WalkTyped
  <2>2. e \in ItemType /\ Tail(stack) \in Seq(ItemType)  BY <1>1, <2>1, RestHead
  <2>3. Tail(stack) = nil \o Tail(stack) /\ yielded = yielded \o nil
    BY <2>1, <2>2, ConcatEmptySeq
  <2>4. e.page \in Trees /\ e.depth \in Nat  BY <1>2, <2>2 DEF ItemType
  <2>5. nil \in Seq(ItemType) /\ nil \in Seq(Trees) /\ nil \o nil = nil
    <3> HIDE DEF ItemType, Trees
    <3> QED OBVIOUS
  <2>6. Rest(nil) = nil  BY <1>1, <2>2, RestOne
  <2> QED BY <2>1, <2>2, <2>3, <2>4, <2>5, <2>6 DEF Opened
<1>9. ASSUME Visiting, UNCHANGED <<archive, present, told, alone, yielded, phase>>, Skip,
             walked' \in {walked, walked + 1}, walked' <= archive.limit,
             e.depth <= MaxDepth,
             AllTold /\ InTree /\ walked' < archive.limit => Yields(e) = nil
      PROVE  TreeInv'
  <2>1. walked' \in Nat /\ walked <= walked'  BY <1>8, <1>9
  <2>2. stack' = nil \o Tail(stack) /\ yielded' = yielded \o nil  BY <1>8, <1>9 DEF Skip
  <2>3. AllTold /\ InTree /\ walked' < archive.limit => Yields(e) = nil \o Rest(nil)
    BY <1>8, <1>9
  <2> HIDE DEF nil
  <2> QED BY <1>1, <1>8, <1>9, <2>1, <2>2, <2>3, VisitKeeps
<1>10. CASE VisitNone
  <2>1. /\ Visiting /\ UNCHANGED <<archive, present, told, alone, yielded, phase>> /\ Skip
        /\ walked' = walked /\ e.depth <= MaxDepth /\ ~ Entered
    BY <1>10 DEF VisitNone, Fixed
  <2>2. ASSUME AllTold, InTree, walked' < archive.limit PROVE Yields(e) = nil
    <3>1. ~ InRange(e.page)  BY <2>1, <2>2 DEF Entered
    <3>2. ~ Has(e.page)  BY <1>1, <1>8, <2>1, <2>2, <3>1, PageIsHad
    <3> QED BY <1>1, <1>8, <2>1, <3>2, OtherYields
  <2> QED BY <1>8, <1>9, <2>1, <2>2
<1>11. ASSUME Entered, Count, Visiting
       PROVE  /\ e.depth <= MaxDepth /\ walked' = walked + 1 /\ walked' <= archive.limit
              /\ AllTold /\ InTree => /\ Found = NoPage => ~ Has(e.page)
                                      /\ Found # NoPage => Has(e.page) /\ Found = e.page
  <2>1. e.depth <= MaxDepth /\ walked' = walked + 1 /\ walked' <= archive.limit
    BY <1>2, <1>8, <1>11 DEF Entered, Count
  <2>2. ASSUME AllTold, InTree
        PROVE  /\ Found = NoPage => ~ Has(e.page)
               /\ Found # NoPage => Has(e.page) /\ Found = e.page
    <3>1. e.page \in Nat  BY <1>1, <1>8, <1>11, TreeTypes
    <3> QED BY <1>1, <1>2, <1>8, <1>11, <2>2, <3>1, PageIsHad DEF Found
  <2> QED BY <2>1, <2>2
<1>12. CASE VisitUnread
  <2>1. /\ Visiting /\ UNCHANGED <<archive, present, told, alone, yielded, phase>> /\ Skip
        /\ Count /\ Entered /\ (Found = NoPage \/ Page(Found).type \in {"bad", "other"})
    BY <1>12 DEF VisitUnread, Fixed
  <2>2. ASSUME AllTold, InTree PROVE Yields(e) = nil
    <3>1. ~ Has(e.page) \/ Page(e.page).type \in {"bad", "other"}  BY <1>11, <2>1, <2>2
    <3> QED BY <1>1, <1>8, <1>11, <2>1, <3>1, OtherYields
  <2> QED BY <1>9, <1>11, <2>1, <2>2
<1>13. CASE VisitDir
  <2> DEFINE new == Pending(e, Page(Found).kids)
  <2>1. /\ Visiting /\ UNCHANGED <<archive, present, told, alone, yielded, phase>>
        /\ Count /\ Entered /\ Found # NoPage /\ Page(Found).type = "ldir"
        /\ stack' = new \o Tail(stack)
    BY <1>13 DEF VisitDir, Fixed, Descend
  <2>2. /\ new \in Seq(ItemType)
        /\ Found = e.page /\ Has(Found) => Yields(e) = Rest(new)
    BY <1>1, <1>8, <1>11, <2>1, PendingYields
  <2> HIDE DEF new
  <2>3. Rest(new) \in Seq(Trees)  BY <1>1, <2>2, RestType
  <2>4. AllTold /\ InTree => Yields(e) = nil \o Rest(new)
    <3>1. nil \o Rest(new) = Rest(new)  BY <2>3, ConcatEmptySeq
    <3> QED BY <1>11, <2>1, <2>2, <3>1
  <2>5. walked' \in Nat /\ walked <= walked' /\ walked' <= archive.limit  BY <1>8, <1>11, <2>1
  <2>6. yielded' = yielded \o nil  BY <1>8, <2>1
  <2> HIDE DEF nil
  <2> QED BY <1>1, <1>8, <2>1, <2>2, <2>4, <2>5, <2>6, VisitKeeps
<1>14. CASE VisitLeaf
  <2> DEFINE more == <<Found>>
  <2>1. /\ Visiting /\ UNCHANGED <<archive, present, told, alone, phase>>
        /\ Count /\ Entered /\ Found # NoPage /\ Page(Found).type = "leaf"
        /\ stack' = Tail(stack) /\ yielded' = Append(yielded, Found)
    BY <1>14 DEF VisitLeaf, Fixed
  <2>2. Found \in Trees  BY <1>1, <2>1, TreeTypes
  <2>3. more \in Seq(Trees) /\ yielded' = yielded \o more /\ more \o nil = more
    <3> HIDE DEF Trees
    <3> QED BY <1>8, <2>1, <2>2
  <2>4. stack' = nil \o Tail(stack)  BY <1>8, <2>1
  <2>5. AllTold /\ InTree => Yields(e) = more \o Rest(nil)
    <3> SUFFICES ASSUME AllTold, InTree PROVE Yields(e) = more  BY <1>8, <2>1, <2>3
    <3>1. Has(e.page) /\ Found = e.page  BY <1>11, <2>1
    <3> QED BY <1>1, <1>8, <1>11, <2>1, <3>1, OtherYields
  <2>6. walked' \in Nat /\ walked <= walked' /\ walked' <= archive.limit  BY <1>8, <1>11, <2>1
  <2> HIDE DEF nil, more
  <2> QED BY <1>1, <1>8, <2>1, <2>3, <2>4, <2>5, <2>6, VisitKeeps
<1>15. CASE VisitRaise
  <2>1. /\ phase' = "raised" /\ archive' = archive /\ Visiting
        /\ walked' = walked \/ (Count /\ Entered)
    BY <1>15 DEF VisitRaise, Fixed
  <2>2. walked' \in Nat /\ walked' <= archive.limit  BY <1>8, <1>11, <2>1
  <2> QED BY <1>1, <2>1, <2>2 DEF TreeInv, WalkTyped, Sum
<1>16. CASE Finish
  <2>1. /\ UNCHANGED <<archive, present, told, alone, stack, walked, yielded>>
        /\ phase = "walk" /\ phase' = "done" /\ stack = << >>
    BY <1>16 DEF Finish, Fixed
  <2>2. WalkTyped'  BY <2>1, StaticWalk DEF TreeInv, WalkTyped
  <2>3. Sum'
    <3>1. Rest(stack)' = Rest(stack)  BY <2>1, StaticWalk
    <3> QED BY <2>1, <3>1, StaticWalk DEF Sum, TreeInv
  <2> QED BY <1>1, <2>2, <2>3 DEF TreeInv
<1> QED BY <1>3, <1>4, <1>5, <1>6, <1>7, <1>10, <1>12, <1>13, <1>14, <1>15, <1>16 DEF Next

LEMMA YieldsFromInv == TreeInv => WalkYieldsTree
<1> SUFFICES ASSUME TreeInv PROVE WalkYieldsTree  OBVIOUS
<1>1. walked <= archive.limit  BY DEF TreeInv, WalkTyped
<1>2. ASSUME phase = "done", AllTold, walked < archive.limit, InTree PROVE yielded = Leaves
  <2>1. stack = << >> /\ yielded \in Seq(Trees)  BY <1>2 DEF TreeInv, WalkTyped
  <2>2. yielded \o Rest(<< >>) = Leaves  BY <1>2, <2>1 DEF TreeInv, Sum
  <2>3. Rest(<< >>) = << >>
    <3>1. [k \in 1..Len(<< >>) |-> Yields(<< >>[k])] = << >>  OBVIOUS
    <3>2. << >> \in Seq(Trees)  OBVIOUS
    <3>3. FlattenSeq(<< >>) = << >>  BY <3>2, FlattenOne
    <3> QED BY <3>1, <3>3 DEF Rest
  <2> QED BY <2>1, <2>2, <2>3, ConcatEmptySeq
<1> QED BY <1>1, <1>2 DEF WalkYieldsTree, InTree, Trees

(* Of any tree, with pages that are shared, missing, or their own ancestors, *)
(* over any slices: a walk that ends has yielded the leaves that are there,  *)
(* in order, as often as the tree refers to them.                            *)
THEOREM TreeWalkForAll == Spec => []WalkYieldsTree
  BY TreeInit, TreeNext, YieldsFromInv, PTL DEF Spec

-----------------------------------------------------------------------------
(***************************************************************************)
(* What the readers of an LSM tree find, for any number of ctree slots,    *)
(* keys and writes.  The invariant has two halves: the newest cell of a    *)
(* key is what the writer last stored (kept by the writer's steps), and    *)
(* what a reader has taken from the layers it has passed (kept by Walk).   *)
(***************************************************************************)

(* Layer i holds the newest cell of k. *)
FirstCell(i, k) == layer[i][k] # Absent /\ \A j \in Layers : j < i => layer[j][k] = Absent

(* The newest cell is the stored record, or a tombstone for none. *)
StoreInv ==
    \A k \in Keys :
        /\ \A i \in Layers : FirstCell(i, k) =>
              store[k] = IF layer[i][k] = Dead THEN Absent ELSE layer[i][k]
        /\ store[k] # Absent => \E i \in Layers : FirstCell(i, k)

(* The layers the running reader has been given. *)
Passed(i) == stage = "done" \/ (i # 0 /\ (source = 0 \/ i < source))

(* The first record among the ctrees passed is kept. *)
FirstKept(k) ==
    /\ \A i \in Layers : Passed(i) /\ Alive(layer[i][k]) => got[k] # Absent
    /\ \A i \in Layers : /\ i # 0 /\ Passed(i) /\ Alive(layer[i][k])
                         /\ \A j \in Layers : 0 < j /\ j < i => ~ Alive(layer[j][k])
                         => got[k] = layer[i][k]
    /\ (\A i \in Layers : Passed(i) => ~ Alive(layer[i][k])) => got[k] = Absent

LastKept(k) ==
    /\ \A i \in Layers : Passed(i) /\ Alive(layer[i][k]) => got[k] # Absent
    /\ stage = "done" /\ Alive(layer[0][k]) => got[k] = layer[0][k]
    /\ got[k] # Absent => \E i \in Layers : Alive(layer[i][k]) /\ got[k] = layer[i][k]

MemFirst(k) ==
    /\ k \in tombs <=> layer[0][k] = Dead
    /\ Alive(layer[0][k]) => got[k] = layer[0][k]
    /\ layer[0][k] = Dead => got[k] = Absent
    /\ layer[0][k] = Absent => FirstKept(k)

WalkInv ==
    stage \in {"walk", "done"} =>
        /\ prog \in {"index", "extents", "slices"}
        /\ \A k \in Keys : /\ prog = "index"   => FirstKept(k)
                           /\ prog = "extents" => LastKept(k)
                           /\ prog = "slices"  => MemFirst(k)

IInv == TypeOK /\ StoreInv /\ WalkInv
-----------------------------------------------------------------------------
LEMMA InitInv == LsmInit => IInv
<1> SUFFICES ASSUME LsmInit PROVE IInv  OBVIOUS
<1>1. TypeOK
  BY LsmAssumption DEF LsmInit, TypeOK, Layers, Cell, NoCells, Progs
<1>2. StoreInv  BY DEF LsmInit, StoreInv, FirstCell, NoCells, Layers
<1>3. WalkInv  BY DEF LsmInit, WalkInv
<1> QED BY <1>1, <1>2, <1>3 DEF IInv

(* A cell written to the mem-tree is the newest. *)
LEMMA WriteKeeps ==
    ASSUME IInv, NEW k \in Keys, NEW c \in Values \cup {Dead}, Write(k, c)
    PROVE  IInv'
<1>1. TypeOK'  BY LsmAssumption DEF IInv, TypeOK, Write, Layers, Cell
<1>2. StoreInv'
  <2> SUFFICES ASSUME NEW x \in Keys
               PROVE  /\ \A i \in Layers : FirstCell(i, x)' =>
                            store'[x] = IF layer'[i][x] = Dead THEN Absent ELSE layer'[i][x]
                      /\ store'[x] # Absent => \E i \in Layers : FirstCell(i, x)'
    BY DEF StoreInv
  <2>0. 0 \in Layers  BY LsmAssumption DEF Layers
  <2>1. CASE x = k
    <3>1. layer'[0][k] = c /\ c # Absent
      BY <2>0, LsmAssumption DEF IInv, TypeOK, Write
    <3>2. FirstCell(0, k)'  BY <3>1 DEF FirstCell, Layers
    <3>3. \A i \in Layers : FirstCell(i, k)' => i = 0
      BY <2>0, <3>1 DEF FirstCell, Layers
    <3>4. store'[k] = IF c = Dead THEN Absent ELSE c  BY DEF IInv, TypeOK, Write
    <3> QED BY <2>0, <2>1, <3>1, <3>2, <3>3, <3>4
  <2>2. CASE x # k
    <3>1. \A i \in Layers : layer'[i][x] = layer[i][x]
      BY <2>2 DEF IInv, TypeOK, Write
    <3>2. store'[x] = store[x]  BY <2>2 DEF IInv, TypeOK, Write
    <3>3. \A i \in Layers : FirstCell(i, x)' <=> FirstCell(i, x)
      BY <3>1 DEF FirstCell
    <3> QED BY <3>1, <3>2, <3>3 DEF IInv, StoreInv
  <2> QED BY <2>1, <2>2
<1>3. WalkInv'  BY DEF Write, WalkInv
<1> QED BY <1>1, <1>2, <1>3 DEF IInv

(* Merging a layer into the next leaves every newest cell what it was, and  *)
(* a tombstone is only dropped when it hides nothing.                       *)
LEMMA MergeKeeps ==
    ASSUME IInv, NEW i \in Layers, i < Slots, MergeDown(i)
    PROVE  IInv'
<1>0. i \in Int /\ i + 1 \in Layers /\ i # i + 1 /\ Slots \in Int
  BY LsmAssumption DEF Layers
<1>1. /\ \A k \in Keys : layer'[i][k] = Absent
      /\ \A k \in Keys : layer'[i + 1][k] = Merged(i, k)
      /\ \A j \in Layers : j # i /\ j # i + 1 => layer'[j] = layer[j]
  BY <1>0 DEF MergeDown, NoCells
<1>2. TypeOK'
  <2>1. \A j \in Layers : layer[j] \in [Keys -> Cell]  BY DEF IInv, TypeOK
  <2>2. \A k \in Keys : Merged(i, k) \in Cell
    BY <1>0, <2>1 DEF Merged, Cell
  <2>3. layer' \in [Layers -> [Keys -> Cell]]
    BY <2>1, <2>2 DEF MergeDown, NoCells, Cell
  <2> QED BY <2>3, LsmAssumption DEF MergeDown, IInv, TypeOK
<1>3. StoreInv'
  <2> SUFFICES ASSUME NEW k \in Keys
               PROVE  /\ \A j \in Layers : FirstCell(j, k)' =>
                            store'[k] = IF layer'[j][k] = Dead THEN Absent ELSE layer'[j][k]
                      /\ store'[k] # Absent => \E j \in Layers : FirstCell(j, k)'
    BY DEF StoreInv
  <2>1. store' = store  BY DEF MergeDown
  <2>2. \A j \in Layers : FirstCell(j, k) =>
            store[k] = IF layer[j][k] = Dead THEN Absent ELSE layer[j][k]
    BY DEF IInv, StoreInv
  <2>3. ASSUME NEW j \in Layers, FirstCell(j, k)'
        PROVE  store[k] = IF layer'[j][k] = Dead THEN Absent ELSE layer'[j][k]
    <3>0. layer'[j][k] # Absent /\ \A m \in Layers : m < j => layer'[m][k] = Absent
      BY <2>3 DEF FirstCell
    <3>1. j # i  BY <1>1, <3>0
    <3>2. CASE j < i
      <4>1. \A m \in Layers : m <= j => layer'[m][k] = layer[m][k]
        BY <1>0, <1>1, <3>2 DEF Layers
      <4>2. FirstCell(j, k)  BY <3>0, <4>1 DEF FirstCell, Layers
      <4> QED BY <2>2, <4>1, <4>2 DEF Layers
    <3>3. CASE j = i + 1
      <4>1. \A m \in Layers : m < i => layer[m][k] = Absent
        <5> SUFFICES ASSUME NEW m \in Layers, m < i PROVE layer[m][k] = Absent
          OBVIOUS
        <5>1. m # i /\ m # i + 1 /\ m < j  BY <1>0, <3>3 DEF Layers
        <5> QED BY <1>1, <3>0, <5>1
      <4>2. layer'[j][k] = IF layer[i][k] # Absent THEN layer[i][k] ELSE layer[i + 1][k]
        BY <1>1, <3>0, <3>3 DEF Merged
      <4>3. CASE layer[i][k] # Absent
        BY <2>2, <4>1, <4>2, <4>3 DEF FirstCell
      <4>4. CASE layer[i][k] = Absent
        <5>1. layer[i + 1][k] # Absent  BY <3>0, <4>2, <4>4
        <5>2. \A m \in Layers : m < i + 1 => m < i \/ m = i  BY <1>0 DEF Layers
        <5>3. FirstCell(i + 1, k)  BY <4>1, <4>4, <5>1, <5>2 DEF FirstCell
        <5> QED BY <1>0, <2>2, <4>2, <4>4, <5>3
      <4> QED BY <4>3, <4>4
    <3>4. CASE j > i + 1
      <4>1. Merged(i, k) = Absent /\ layer'[j] = layer[j]
        BY <1>0, <1>1, <3>0, <3>4 DEF Layers
      <4>2. Below(i + 1, k)  BY <3>0, <3>4, <4>1 DEF Below
      <4>3. layer[i][k] = Absent /\ layer[i + 1][k] = Absent
        BY <4>1, <4>2 DEF Merged
      <4>4. \A m \in Layers : m < j => layer[m][k] = Absent
        <5> SUFFICES ASSUME NEW m \in Layers, m < j PROVE layer[m][k] = Absent
          OBVIOUS
        <5>1. CASE m = i \/ m = i + 1  BY <4>3, <5>1
        <5>2. CASE m # i /\ m # i + 1  BY <1>1, <3>0, <5>2
        <5> QED BY <5>1, <5>2
      <4>5. FirstCell(j, k)  BY <3>0, <4>1, <4>4 DEF FirstCell
      <4> QED BY <2>2, <4>1, <4>5
    <3> QED BY <1>0, <3>1, <3>2, <3>3, <3>4 DEF Layers
  <2>4. ASSUME store[k] # Absent PROVE \E j \in Layers : FirstCell(j, k)'
    <3>1. PICK j \in Layers : FirstCell(j, k)  BY <2>4 DEF IInv, StoreInv
    <3>2. layer[j][k] # Dead /\ layer[j][k] # Absent
      BY <2>2, <2>4, <3>1 DEF FirstCell
    <3>3. \A m \in Layers : m < j => layer[m][k] = Absent  BY <3>1 DEF FirstCell
    <3>4. CASE j < i
      <4>1. \A m \in Layers : m <= j => layer'[m][k] = layer[m][k]
        BY <1>0, <1>1, <3>4 DEF Layers
      <4>2. FirstCell(j, k)'  BY <3>2, <3>3, <4>1 DEF FirstCell, Layers
      <4> QED BY <4>2
    <3>5. CASE j = i \/ j = i + 1
      <4>1. Merged(i, k) = layer[j][k]
        <5>1. CASE j = i  BY <3>2, <5>1 DEF Merged
        <5>2. CASE j = i + 1
          <6>1. layer[i][k] = Absent  BY <1>0, <3>3, <5>2
          <6> QED BY <3>2, <5>2, <6>1 DEF Merged
        <5> QED BY <3>5, <5>1, <5>2
      <4>2. \A m \in Layers : m < i + 1 => layer'[m][k] = Absent
        <5> SUFFICES ASSUME NEW m \in Layers, m < i + 1 PROVE layer'[m][k] = Absent
          OBVIOUS
        <5>1. CASE m = i  BY <1>1, <5>1
        <5>2. CASE m # i
          <6>1. m < j /\ m # i + 1  BY <1>0, <3>5, <5>2 DEF Layers
          <6> QED BY <1>1, <3>3, <5>2, <6>1
        <5> QED BY <5>1, <5>2
      <4>3. FirstCell(i + 1, k)'  BY <1>1, <3>2, <4>1, <4>2 DEF FirstCell
      <4> QED BY <1>0, <4>3
    <3>6. CASE j > i + 1
      <4>1. layer[i][k] = Absent /\ layer[i + 1][k] = Absent
        BY <1>0, <3>3, <3>6 DEF Layers
      <4>2. Merged(i, k) = Absent  BY <4>1 DEF Merged
      <4>3. \A m \in Layers : m < j => layer'[m][k] = Absent
        <5> SUFFICES ASSUME NEW m \in Layers, m < j PROVE layer'[m][k] = Absent
          OBVIOUS
        <5>1. CASE m = i \/ m = i + 1  BY <1>1, <4>2, <5>1
        <5>2. CASE m # i /\ m # i + 1  BY <1>1, <3>3, <5>2
        <5> QED BY <5>1, <5>2
      <4>4. layer'[j] = layer[j]  BY <1>0, <1>1, <3>6 DEF Layers
      <4>5. FirstCell(j, k)'  BY <3>2, <4>3, <4>4 DEF FirstCell
      <4> QED BY <4>5
    <3> QED BY <1>0, <3>4, <3>5, <3>6 DEF Layers
  <2> QED BY <2>1, <2>3, <2>4
<1>4. WalkInv'  BY DEF MergeDown, WalkInv
<1> QED BY <1>2, <1>3, <1>4 DEF IInv

LEMMA StoreFrame ==
    ASSUME StoreInv, UNCHANGED <<layer, store>>
    PROVE  StoreInv'
  BY DEF StoreInv, FirstCell

LEMMA StartKeeps ==
    ASSUME IInv, StartIndex \/ StartExtents \/ StartSlices
    PROVE  IInv'
<1> USE DEF tree
<1>0. UNCHANGED <<layer, store, writes>> /\ stage' = "walk" /\ source' = FirstSource
  BY DEF StartIndex, StartExtents, StartSlices, Ask
<1>1. TypeOK'
  <2>1. FirstSource \in Layers  BY LsmAssumption DEF FirstSource, NextSource, Layers
  <2>2. got' \in [Keys -> Values \cup {Absent}]
    BY DEF StartIndex, StartExtents, StartSlices, Ask, NoCells, Alive
  <2>3. prog' \in Progs /\ tombs' \subseteq Keys
    BY DEF StartIndex, StartExtents, StartSlices, Ask, Progs
  <2> QED BY <1>0, <2>1, <2>2, <2>3 DEF IInv, TypeOK
<1>2. StoreInv'  BY <1>0, StoreFrame DEF IInv
<1>3. \A i \in Layers : ~ Passed(i)'
  <2> SUFFICES ASSUME NEW i \in Layers PROVE ~ Passed(i)'  OBVIOUS
  <2>1. i \in Int /\ 0 <= i /\ i <= Slots /\ Slots \in Nat
    BY LsmAssumption DEF Layers
  <2>2. source' = IF 0 < Slots THEN 1 ELSE 0
    BY <1>0, LsmAssumption DEF FirstSource, NextSource
  <2>3. i = 0 \/ (source' # 0 /\ ~ (i < source'))  BY <2>1, <2>2
  <2> QED BY <1>0, <2>3 DEF Passed
<1>4. WalkInv'
  <2>1. CASE StartIndex
    BY <1>3, <2>1 DEF StartIndex, Ask, WalkInv, FirstKept, NoCells
  <2>2. CASE StartExtents
    BY <1>0, <1>3, <2>2 DEF StartExtents, Ask, WalkInv, LastKept, NoCells
  <2>3. CASE StartSlices
    <3>1. prog' = "slices"  BY <2>3 DEF StartSlices, Ask
    <3>2. \A k \in Keys : MemFirst(k)'
      <4> SUFFICES ASSUME NEW k \in Keys PROVE MemFirst(k)'  OBVIOUS
      <4>1. got'[k] = IF Alive(layer[0][k]) THEN layer[0][k] ELSE Absent
        BY <2>3 DEF StartSlices, Ask
      <4>2. k \in tombs' <=> layer[0][k] = Dead  BY <2>3 DEF StartSlices, Ask
      <4>3. layer[0][k] = Absent => FirstKept(k)'
        BY <1>3, <4>1, LsmAssumption DEF FirstKept, Alive
      <4> QED BY <1>0, <4>1, <4>2, <4>3, LsmAssumption DEF MemFirst, Alive
    <3> QED BY <3>1, <3>2 DEF WalkInv
  <2> QED BY <2>1, <2>2, <2>3
<1> QED BY <1>1, <1>2, <1>4 DEF IInv

(* A step of the walk passes exactly the layer it yields. *)
LEMMA PassedNext ==
    ASSUME TypeOK, Walk
    PROVE  /\ \A i \in Layers : Passed(i)' <=> (Passed(i) \/ i = source)
           /\ \A i \in Layers : Passed(i) => i # 0
           /\ source # 0 => \A i \in Layers : 0 < i /\ i < source => Passed(i)
           /\ ~ Passed(source)
           /\ source = 0 <=> stage' = "done"
           /\ source = 0 => \A i \in Layers : i # 0 => Passed(i)
<1>0. source \in Layers /\ Slots \in Nat /\ stage = "walk"
  BY LsmAssumption DEF TypeOK, Walk
<1>1. ASSUME NEW i \in Layers PROVE Passed(i)' <=> (Passed(i) \/ i = source)
  <2>1. i \in Int /\ 0 <= i /\ i <= Slots /\ source \in Int /\ 0 <= source /\ source <= Slots
    BY <1>0 DEF Layers
  <2>2. CASE source = 0
    <3>1. stage' = "done"  BY <2>2 DEF Walk
    <3> QED BY <1>0, <2>2, <3>1 DEF Passed
  <2>3. CASE source # 0
    <3>1. stage' = "walk" /\ source' = IF source < Slots THEN source + 1 ELSE 0
      BY <2>3 DEF Walk, NextSource
    <3>2. Passed(i)' <=> (i # 0 /\ (source' = 0 \/ i < source'))  BY <3>1 DEF Passed
    <3>3. Passed(i) <=> (i # 0 /\ i < source)  BY <1>0, <2>3 DEF Passed
    <3>4. (source' = 0 \/ i < source') <=> i <= source
      <4>1. CASE source < Slots
        <5>1. source' = source + 1  BY <3>1, <4>1
        <5>2. i < source + 1 <=> i <= source  BY <2>1
        <5> QED BY <2>1, <5>1, <5>2
      <4>2. CASE ~ (source < Slots)
        <5>1. source' = 0 /\ i <= source  BY <1>0, <2>1, <3>1, <4>2
        <5> QED BY <5>1
      <4> QED BY <4>1, <4>2
    <3>5. Passed(i)' <=> (i # 0 /\ i <= source)  BY <3>2, <3>4
    <3>6. (i # 0 /\ i <= source) <=> ((i # 0 /\ i < source) \/ i = source)
      BY <2>1, <2>3
    <3> QED BY <3>3, <3>5, <3>6, Zenon
  <2> QED BY <2>2, <2>3
<1>2. \A i \in Layers : Passed(i) => i # 0  BY <1>0 DEF Passed
<1>3. source # 0 => \A i \in Layers : 0 < i /\ i < source => Passed(i)
  BY <1>0 DEF Passed, Layers
<1>4. ~ Passed(source)  BY <1>0 DEF Passed, Layers
<1>5. source = 0 <=> stage' = "done"  BY DEF Walk
<1>6. source = 0 => \A i \in Layers : i # 0 => Passed(i)  BY DEF Passed
<1> QED BY <1>1, <1>2, <1>3, <1>4, <1>5, <1>6

(* The first record met for a key stays, and the slots come in order. *)
LEMMA FirstKeptNext ==
    ASSUME TypeOK, Walk, NEW k \in Keys, FirstKept(k),
           got'[k] = IF Alive(layer[source][k]) /\ got[k] = Absent
                     THEN layer[source][k] ELSE got[k]
    PROVE  FirstKept(k)'
<1> DEFINE c == layer[source][k]
<1>0. source \in Layers /\ layer' = layer /\ (Alive(c) => c # Absent)
  BY LsmAssumption DEF TypeOK, Walk, tree, Alive
<1>1. /\ \A i \in Layers : Passed(i)' <=> (Passed(i) \/ i = source)
      /\ \A i \in Layers : Passed(i) => i # 0
      /\ source # 0 => \A i \in Layers : 0 < i /\ i < source => Passed(i)
  BY PassedNext
<1>2. \A i \in Layers : Passed(i)' /\ Alive(layer'[i][k]) => got'[k] # Absent
  BY <1>0, <1>1 DEF FirstKept
<1>3. ASSUME NEW i \in Layers, i # 0, Passed(i)', Alive(layer'[i][k]),
             \A j \in Layers : 0 < j /\ j < i => ~ Alive(layer'[j][k])
      PROVE  got'[k] = layer'[i][k]
  <2>1. CASE Passed(i)
    <3>1. got[k] = layer[i][k] /\ got[k] # Absent
      BY <1>0, <1>3, <2>1 DEF FirstKept
    <3> QED BY <1>0, <3>1
  <2>2. CASE i = source /\ ~ Passed(i)
    <3>1. \A j \in Layers : Passed(j) => ~ Alive(layer[j][k])
      <4> SUFFICES ASSUME NEW j \in Layers, Passed(j) PROVE ~ Alive(layer[j][k])
        OBVIOUS
      <4>1. 0 < j /\ j < i
        BY <1>1, <1>3, <2>2 DEF Passed, Layers, Walk
      <4> QED BY <1>0, <1>3, <4>1
    <3>2. got[k] = Absent  BY <3>1 DEF FirstKept
    <3> QED BY <1>0, <1>3, <2>2, <3>2
  <2> QED BY <1>1, <1>3, <2>1, <2>2
<1>4. (\A i \in Layers : Passed(i)' => ~ Alive(layer'[i][k])) => got'[k] = Absent
  BY <1>0, <1>1 DEF FirstKept
<1> QED BY <1>2, <1>3, <1>4 DEF FirstKept

LEMMA LastKeptNext ==
    ASSUME TypeOK, Walk, NEW k \in Keys, LastKept(k),
           got'[k] = IF Alive(layer[source][k]) THEN layer[source][k] ELSE got[k]
    PROVE  LastKept(k)'
<1> DEFINE c == layer[source][k]
<1>0. source \in Layers /\ layer' = layer /\ (Alive(c) => c # Absent)
  BY LsmAssumption DEF TypeOK, Walk, tree, Alive
<1>1. /\ \A i \in Layers : Passed(i)' <=> (Passed(i) \/ i = source)
      /\ source = 0 <=> stage' = "done"
  BY PassedNext
<1>2. \A i \in Layers : Passed(i)' /\ Alive(layer'[i][k]) => got'[k] # Absent
  BY <1>0, <1>1 DEF LastKept
<1>3. stage' = "done" /\ Alive(layer'[0][k]) => got'[k] = layer'[0][k]
  BY <1>0, <1>1
<1>4. got'[k] # Absent =>
          \E i \in Layers : Alive(layer'[i][k]) /\ got'[k] = layer'[i][k]
  BY <1>0 DEF LastKept
<1> QED BY <1>2, <1>3, <1>4 DEF LastKept

LEMMA WalkKeeps ==
    ASSUME IInv, Walk
    PROVE  IInv'
<1>0. /\ UNCHANGED <<layer, store, writes, prog, tombs>> /\ stage = "walk"
      /\ source \in Layers /\ prog \in {"index", "extents", "slices"}
      /\ \A k \in Keys : got'[k] = Take(k, layer[source][k])
  BY DEF Walk, tree, IInv, WalkInv, TypeOK
<1>1. TypeOK'
  <2>1. \A k \in Keys : Take(k, layer[source][k]) \in Values \cup {Absent}
    <3> SUFFICES ASSUME NEW k \in Keys
                 PROVE  Take(k, layer[source][k]) \in Values \cup {Absent}
      OBVIOUS
    <3>1. got[k] \in Values \cup {Absent}  BY DEF IInv, TypeOK
    <3> QED BY <1>0, <3>1 DEF Take, IndexTake, ExtentTake, SliceTake, Alive
  <2>2. got' \in [Keys -> Values \cup {Absent}]  BY <2>1 DEF Walk
  <2>3. source' \in Layers
    BY <1>0, LsmAssumption DEF Walk, NextSource, Layers
  <2>4. stage' \in {"idle", "walk", "done"}  BY DEF Walk
  <2> QED BY <1>0, <2>2, <2>3, <2>4 DEF IInv, TypeOK
<1>2. StoreInv'  BY <1>0, StoreFrame DEF IInv
<1>3. WalkInv'
  <2> SUFFICES ASSUME NEW k \in Keys
               PROVE  /\ prog = "index"   => FirstKept(k)'
                      /\ prog = "extents" => LastKept(k)'
                      /\ prog = "slices"  => MemFirst(k)'
    BY <1>0 DEF WalkInv
  <2>0. TypeOK /\ got'[k] = Take(k, layer[source][k])  BY <1>0 DEF IInv
  <2>1. CASE prog = "index"
    <3>1. FirstKept(k)  BY <1>0, <2>1 DEF IInv, WalkInv
    <3>2. Take(k, layer[source][k]) = IndexTake(k, layer[source][k])
      BY <2>1 DEF Take
    <3> QED BY <2>0, <2>1, <3>1, <3>2, FirstKeptNext DEF IndexTake
  <2>2. CASE prog = "extents"
    <3>1. LastKept(k)  BY <1>0, <2>2 DEF IInv, WalkInv
    <3>2. Take(k, layer[source][k]) = ExtentTake(k, layer[source][k])
      BY <2>2 DEF Take
    <3> QED BY <2>0, <2>2, <3>1, <3>2, LastKeptNext DEF ExtentTake
  <2>3. CASE prog = "slices"
    <3>1. MemFirst(k)  BY <1>0, <2>3 DEF IInv, WalkInv
    <3>2. Take(k, layer[source][k]) = SliceTake(k, layer[source][k])
      BY <2>3 DEF Take
    <3>3. CASE layer[0][k] = Absent
      <4>1. FirstKept(k) /\ k \notin tombs
        BY <3>1, <3>3, LsmAssumption DEF MemFirst
      <4>2. FirstKept(k)'  BY <2>0, <3>2, <4>1, FirstKeptNext DEF SliceTake
      <4> QED BY <1>0, <2>3, <3>1, <3>3, <4>2, LsmAssumption DEF MemFirst, Alive
    <3>4. CASE layer[0][k] # Absent
      <4>1. got'[k] = got[k]
        <5>1. layer[0][k] \in Cell  BY LsmAssumption DEF IInv, TypeOK, Layers
        <5>2. CASE layer[0][k] = Dead
          BY <2>0, <3>1, <3>2, <5>2 DEF MemFirst, SliceTake
        <5>3. CASE Alive(layer[0][k])
          BY <2>0, <3>1, <3>2, <5>3, LsmAssumption DEF MemFirst, SliceTake, Alive
        <5> QED BY <3>4, <5>1, <5>2, <5>3 DEF Cell, Alive
      <4> QED BY <1>0, <2>3, <3>1, <3>4, <4>1 DEF MemFirst
    <3> QED BY <2>3, <3>3, <3>4
  <2> QED BY <1>0, <2>1, <2>2, <2>3
<1> QED BY <1>1, <1>2, <1>3 DEF IInv

LEMMA NextKeeps == IInv /\ [LsmNext]_lsmVars => IInv'
<1> SUFFICES ASSUME IInv, [LsmNext]_lsmVars PROVE IInv'  OBVIOUS
<1>1. CASE Put \/ Delete  BY <1>1, WriteKeeps DEF Put, Delete
<1>2. CASE Flush
  <2>1. 0 \in Layers /\ 0 < Slots  BY <1>2, LsmAssumption DEF Flush, Layers
  <2> QED BY <1>2, <2>1, MergeKeeps DEF Flush
<1>3. CASE Compact
  <2>1. PICK i \in 1..(Slots - 1) : MergeDown(i)  BY <1>3 DEF Compact
  <2>2. i \in Layers /\ i < Slots  BY LsmAssumption DEF Layers
  <2> QED BY <2>1, <2>2, MergeKeeps
<1>4. CASE StartIndex \/ StartExtents \/ StartSlices  BY <1>4, StartKeeps
<1>5. CASE Walk  BY <1>5, WalkKeeps
<1>6. CASE UNCHANGED lsmVars
  BY <1>6 DEF lsmVars, tree, reader, IInv, TypeOK, StoreInv, FirstCell, WalkInv,
              FirstKept, LastKept, MemFirst, Passed
<1> QED BY <1>1, <1>2, <1>3, <1>4, <1>5, <1>6 DEF LsmNext

THEOREM InductiveInvariant == LsmSpec => []IInv
<1> QED BY InitInv, NextKeeps, PTL DEF LsmSpec
-----------------------------------------------------------------------------
(* Every variable has its type; a reader never takes a tombstone for a      *)
(* record (iter_tree_entries yields tombstones as empty values).            *)
THEOREM LsmTypeCorrect == LsmSpec => []TypeOK
<1> QED BY InductiveInvariant, PTL DEF IInv

(* enumerate_slices, for any number of slots and any history of the tree.   *)
THEOREM SlicesAreComplete == LsmSpec => []SlicesOfStore
<1>1. IInv => SlicesOfStore
  <2> SUFFICES ASSUME IInv, stage = "done", prog = "slices", NEW k \in Keys
               PROVE  /\ store[k] # Absent => got[k] = store[k]
                      /\ layer[0][k] = Dead => got[k] = Absent
    BY DEF SlicesOfStore
  <2>1. MemFirst(k)  BY DEF IInv, WalkInv
  <2>2. ASSUME store[k] # Absent PROVE got[k] = store[k]
    <3>1. PICK i \in Layers : FirstCell(i, k)  BY <2>2 DEF IInv, StoreInv
    <3>2. store[k] = layer[i][k] /\ Alive(layer[i][k])
      BY <2>2, <3>1 DEF IInv, StoreInv, TypeOK, Cell, Alive, FirstCell
    <3>3. CASE i = 0  BY <2>1, <3>2, <3>3 DEF MemFirst
    <3>4. CASE i # 0
      <4>1. layer[0][k] = Absent /\ i > 0
        BY <3>1, <3>4, LsmAssumption DEF FirstCell, Layers
      <4>2. \A j \in Layers : 0 < j /\ j < i => ~ Alive(layer[j][k])
        BY <3>1, LsmAssumption DEF FirstCell, Alive
      <4>3. FirstKept(k) /\ Passed(i)  BY <2>1, <4>1 DEF MemFirst, Passed
      <4> QED BY <3>2, <3>4, <4>2, <4>3 DEF FirstKept
    <3> QED BY <3>3, <3>4
  <2> QED BY <2>1, <2>2 DEF MemFirst
<1> QED BY <1>1, InductiveInvariant, PTL

(* build_seg_index_from_lsm, as far as the order of the ctrees decides.     *)
THEOREM IndexIsComplete == LsmSpec => []IndexOfStore
<1>1. IInv => IndexOfStore
  <2> SUFFICES ASSUME IInv, stage = "done", prog = "index",
                      NEW k \in Keys, store[k] # Absent
               PROVE  /\ got[k] # Absent
                      /\ layer[0][k] = Absent => got[k] = store[k]
    BY DEF IndexOfStore
  <2>1. FirstKept(k)  BY DEF IInv, WalkInv
  <2>2. PICK i \in Layers : FirstCell(i, k)  BY DEF IInv, StoreInv
  <2>3. store[k] = layer[i][k] /\ Alive(layer[i][k]) /\ Passed(i)
    BY <2>2 DEF IInv, StoreInv, TypeOK, Cell, Alive, FirstCell, Passed
  <2>4. got[k] # Absent  BY <2>1, <2>3 DEF FirstKept
  <2>5. ASSUME layer[0][k] = Absent PROVE got[k] = store[k]
    <3>1. i # 0  BY <2>2, <2>5 DEF FirstCell
    <3>2. \A j \in Layers : 0 < j /\ j < i => ~ Alive(layer[j][k])
      BY <2>2, LsmAssumption DEF FirstCell, Alive
    <3> QED BY <2>1, <2>3, <3>1, <3>2 DEF FirstKept
  <2> QED BY <2>4, <2>5
<1> QED BY <1>1, InductiveInvariant, PTL

(* load_extents with the adapter's bisect_right. *)
THEOREM ExtentsAreComplete == LsmSpec => []ExtentsOfStore
<1>1. IInv => ExtentsOfStore
  <2> SUFFICES ASSUME IInv, stage = "done", prog = "extents",
                      NEW k \in Keys, store[k] # Absent
               PROVE  /\ got[k] # Absent
                      /\ layer[0][k] # Absent => got[k] = store[k]
                      /\ (\A i, j \in Layers :
                             Alive(layer[i][k]) /\ Alive(layer[j][k]) => i = j)
                         => got[k] = store[k]
    BY DEF ExtentsOfStore
  <2>1. LastKept(k)  BY DEF IInv, WalkInv
  <2>2. PICK i \in Layers : FirstCell(i, k)  BY DEF IInv, StoreInv
  <2>3. store[k] = layer[i][k] /\ Alive(layer[i][k]) /\ Passed(i)
    BY <2>2 DEF IInv, StoreInv, TypeOK, Cell, Alive, FirstCell, Passed
  <2>4. got[k] # Absent  BY <2>1, <2>3 DEF LastKept
  <2>5. ASSUME layer[0][k] # Absent PROVE got[k] = store[k]
    <3>1. i = 0  BY <2>2, <2>5, LsmAssumption DEF FirstCell, Layers
    <3> QED BY <2>1, <2>3, <3>1 DEF LastKept
  <2>6. ASSUME \A m, j \in Layers :
                  Alive(layer[m][k]) /\ Alive(layer[j][k]) => m = j
        PROVE  got[k] = store[k]
    BY <2>1, <2>3, <2>4, <2>6 DEF LastKept
  <2> QED BY <2>4, <2>5, <2>6
<1> QED BY <1>1, InductiveInvariant, PTL

-----------------------------------------------------------------------------
(* The extent under a byte *)

(* Extents are sorted by their offsets. *)
LEMMA ExtentTypes ==
    /\ Len(Extents) \in Nat
    /\ \A i \in 1..Len(Extents) : /\ Extents[i] \in [off : Nat, len : Nat \ {0}, seg : Segments]
                                  /\ Extents[i].off \in Nat /\ Extents[i].len \in Nat \ {0}
                                  /\ Extents[i].seg \in Segments
<1>1. Extents \in Seq([off : Nat, len : Nat \ {0}, seg : Segments])  BY AdapterAssumption
<1>2. Len(Extents) \in Nat  BY <1>1
<1>3. ASSUME NEW i \in 1..Len(Extents)
      PROVE  Extents[i] \in [off : Nat, len : Nat \ {0}, seg : Segments]
  BY <1>1, ElementOfSeq
<1> QED BY <1>2, <1>3

(* bisect_right: the extents that begin up to x are the first ExtentAt(x).  *)
LEMMA ExtentAtCuts ==
    ASSUME NEW x \in Int
    PROVE  /\ ExtentAt(x) \in 0..Len(Extents)
           /\ \A j \in 1..Len(Extents) : Extents[j].off <= x <=> j <= ExtentAt(x)
<1> DEFINE n == Len(Extents)
           S == {i \in 1..n : Extents[i].off <= x}
           m == Cardinality(S)
<1>1. n \in Nat /\ \A i \in 1..n : Extents[i].off \in Nat /\ Extents[i].len \in Nat \ {0}
  BY ExtentTypes
<1>2. IsFiniteSet(1..n) /\ Cardinality(1..n) = n  BY <1>1, FS_Interval
<1>3. IsFiniteSet(S) /\ m <= n /\ m \in Nat
  <2>1. S \subseteq 1..n  OBVIOUS
  <2> QED BY <2>1, <1>2, FS_Subset, FS_CardinalityType
<1>4. ASSUME NEW j \in S, NEW i \in 1..j PROVE i \in S
  <2>1. i \in 1..n /\ j \in 1..n  BY <1>1
  <2>2. CASE i = j  BY <2>2
  <2>3. CASE i < j
    <3>1. Extents[i].off <= Extents[j].off  BY <2>1, <2>3, <1>1, ExtentsAssumption
    <3> QED BY <3>1, <2>1, <1>1
  <2> QED BY <2>1, <2>2, <2>3
<1>5. ASSUME NEW j \in S PROVE j <= m
  <2>1. j \in Nat  BY <1>1
  <2>2. 1..j \subseteq S  BY <1>4
  <2>3. IsFiniteSet(1..j) /\ Cardinality(1..j) = j  BY <2>1, FS_Interval
  <2> QED BY <2>2, <2>3, <1>3, FS_Subset
<1>6. S = 1..m
  <2>1. S \subseteq 1..m  BY <1>5, <1>1, <1>3
  <2>2. IsFiniteSet(1..m) /\ Cardinality(1..m) = m  BY <1>3, FS_Interval
  <2> QED BY <2>1, <2>2, <1>3, FS_Subset
<1>7. ExtentAt(x) = m  BY DEF ExtentAt
<1>8. ASSUME NEW j \in 1..n PROVE Extents[j].off <= x <=> j <= m
  BY <1>6, <1>3, <1>1
<1> QED BY <1>7, <1>8, <1>3, <1>1

(* The extent under a cursor that is in no hole holds it. *)
LEMMA ExtentUnder ==
    ASSUME NEW x \in Int, ExtentAt(x) # 0
    PROVE  /\ ExtentAt(x) \in 1..Len(Extents)
           /\ Extents[ExtentAt(x)].seg \in Segments
           /\ Extents[ExtentAt(x)].off \in Nat /\ Extents[ExtentAt(x)].len \in Nat \ {0}
           /\ Extents[ExtentAt(x)].off <= x
           /\ ExtentEnd(ExtentAt(x)) \in Nat
<1>1. ExtentAt(x) \in 0..Len(Extents)
      /\ \A j \in 1..Len(Extents) : Extents[j].off <= x <=> j <= ExtentAt(x)
  BY ExtentAtCuts
<1>2. ExtentAt(x) \in 1..Len(Extents)  BY <1>1, ExtentTypes
<1>3. /\ Extents[ExtentAt(x)].seg \in Segments
      /\ Extents[ExtentAt(x)].off \in Nat /\ Extents[ExtentAt(x)].len \in Nat \ {0}
  BY <1>2, ExtentTypes
<1>4. Extents[ExtentAt(x)].off <= x  BY <1>1, <1>2
<1> QED BY <1>2, <1>3, <1>4 DEF ExtentEnd

LEMMA HoleEndIsInt ==
    ASSUME NEW x \in Int, NEW e \in Int
    PROVE  HoleEnd(x, e) \in Int
<1>1. CASE ExtentAt(x) = 0 \/ ExtentAt(x) >= Len(Extents)  BY <1>1 DEF HoleEnd
<1>2. CASE ~ (ExtentAt(x) = 0 \/ ExtentAt(x) >= Len(Extents))
  <2>1. ExtentAt(x) + 1 \in 1..Len(Extents)  BY <1>2, ExtentUnder, ExtentTypes
  <2>2. Extents[ExtentAt(x) + 1].off \in Nat  BY <2>1, ExtentTypes
  <2> QED BY <1>2, <2>2 DEF HoleEnd, Nearer
<1> QED BY <1>1, <1>2

LEMMA ZerosType ==
    ASSUME NEW n \in Int
    PROVE  Zeros(n) \in Seq(Byte)
<1>0. Zero \in Byte  BY AdapterAssumption
<1>1. CASE n >= 0  BY <1>0, <1>1 DEF Zeros
<1>2. CASE n < 0
  <2>1. 1..n = 1..0  BY <1>2
  <2>2. Zeros(n) = [i \in 1..0 |-> Zero]  BY <2>1 DEF Zeros
  <2> QED BY <2>2, <1>0
<1> QED BY <1>1, <1>2

LEMMA PaddedType ==
    ASSUME NEW v \in Seq(Byte), NEW a \in Nat, NEW b \in Int
    PROVE  Padded(v, a, b) \in Seq(Byte)
<1>0. Zero \in Byte /\ Len(v) \in Nat  BY AdapterAssumption
<1>1. CASE b - a >= 0
  <2>1. \A i \in 1..(b - a) : (IF a + i <= Len(v) THEN v[a + i] ELSE Zero) \in Byte
    <3> SUFFICES ASSUME NEW i \in 1..(b - a), a + i <= Len(v) PROVE v[a + i] \in Byte
      BY <1>0
    <3>1. a + i \in 1..Len(v)  BY <1>0, <1>1
    <3> QED BY <3>1, ElementOfSeq
  <2>2. b - a \in Nat  BY <1>1
  <2> QED BY <2>1, <2>2 DEF Padded
<1>2. CASE b - a < 0
  <2>1. 1..(b - a) = 1..0  BY <1>2
  <2>2. Padded(v, a, b) = [i \in 1..0 |-> IF a + i <= Len(v) THEN v[a + i] ELSE Zero]
    BY <2>1 DEF Padded
  <2> QED BY <2>2
<1> QED BY <1>1, <1>2

-----------------------------------------------------------------------------
(* The inductive invariant *)

Fetching == {"seekhead", "readhead", "seekbody", "readbody", "seeknext", "readnext", "store"}
Heading  == {"seekbody", "readbody", "seeknext", "readnext"}
Going    == {"seeknext", "readnext"}
Holding  == {"touch", "store", "check", "pop"}

(* Where a thread is at a segment, there is one under its cursor, and what  *)
(* it knows of it is typed.                                                 *)
PlaceInv(t) ==
    /\ pc[t] \in Fetching \cup Holding => ExtentAt(cursor[t]) # 0
    /\ pc[t] \in Fetching => SegIndex[Segment(t)] # NotIndexed
    /\ pc[t] \in Heading => head[t] \in FilePages /\ Kind[head[t]] = "sg"
    /\ pc[t] \in Going => Len(raw[t]) \in 1..(Span[head[t]] - 1)
    /\ pc[t] = "store" => plain[t] # NotCached

(* A thread whose own seek was the last is where it wants to be.            *)
SeekInv(t) ==
    fpos.by = t =>
        /\ pc[t] = "readhead" => fpos.page = Rebased(Wanted(t)) /\ fpos.at = "page"
        /\ pc[t] = "readbody" => fpos.page = Wanted(t) /\ fpos.at = "payload"
        /\ pc[t] = "readnext" => fpos.page = NextPage(t) /\ fpos.at = "page"

(* What it has read so far is what it would read alone.                     *)
OwnInv(t) ==
    /\ pc[t] \in Heading => head[t] = Rebased(Wanted(t)) /\ head[t] \notin Sealed
    /\ pc[t] \in Going => /\ Wanted(t) \in FilePages
                          /\ \A k \in 1..Len(raw[t]) :
                                raw[t][k] = Payloads(head[t], Wanted(t))[k]
                          /\ \A k \in 2..Len(raw[t]) : /\ Wanted(t) + k - 1 \in FilePages
                                                       /\ Kind[Wanted(t) + k - 1] = "data"
    /\ pc[t] \in Holding => Served(Segment(t)) /\ plain[t] = Plain(Segment(t))

ThreadInv(t) == PlaceInv(t) /\ (~ raced => SeekInv(t) /\ OwnInv(t))

AdapterInv == AdapterTypeOK /\ CacheBounded /\ CacheSound /\ \A t \in Threads : ThreadInv(t)

(* The type invariant in parts: what a thread keeps, the calls, the file    *)
(* handle, and the cache.                                                   *)
LocalType == /\ pc \in [Threads -> Labels]
             /\ cursor \in [Threads -> Int]
             /\ out \in [Threads -> Seq(Byte)]
             /\ head \in [Threads -> FilePages \cup {0}]
             /\ raw \in [Threads -> Seq(FilePages \X Spot)]
             /\ plain \in [Threads -> Seq(Byte)]
             /\ DOMAIN result = Threads

CallType == call \in [Threads -> [off : Int, len : Int]]

FileType == /\ fpos \in [page : Nat, at : Spot, by : Threads \cup {"nobody"}]
            /\ fpos.page > NumPages => fpos.at = "payload"
            /\ raced \in BOOLEAN

CacheType == /\ order \in Seq(Segments)
             /\ DOMAIN data = Segments
             /\ \A s \in Segments : data[s] # NotCached => data[s] \in Seq(Byte)

LEMMA TypeParts == AdapterTypeOK <=> LocalType /\ CallType /\ FileType /\ CacheType
  BY Zenon DEF AdapterTypeOK, LocalType, CallType, FileType, CacheType

LEMMA AdapterInvInit == AdapterInit => AdapterInv
<1> SUFFICES ASSUME AdapterInit PROVE AdapterInv  OBVIOUS
<1>1. AdapterTypeOK
  <2>1. LocalType
    <3>1. << >> \in Seq(Byte) /\ << >> \in Seq(FilePages \X Spot)  OBVIOUS
    <3>2. "idle" \in Labels  BY DEF Labels
    <3> QED BY <3>1, <3>2 DEF AdapterInit, LocalType
  <2>2. CallType  BY DEF AdapterInit, CallType
  <2>3. FileType
    <3>1. raced \in BOOLEAN  BY Zenon DEF AdapterInit
    <3>2. fpos = AtRest  BY DEF AdapterInit
    <3> QED BY <3>1, <3>2, AdapterAssumption DEF FileType, AtRest, Spot
  <2>4. CacheType  BY DEF AdapterInit, CacheType
  <2> QED BY <2>1, <2>2, <2>3, <2>4, TypeParts
<1>2. CacheBounded
  <2>1. {t \in Threads : pc[t] \in {"check", "pop"}} = {}  BY DEF AdapterInit
  <2>2. Cardinality({t \in Threads : pc[t] \in {"check", "pop"}}) = 0  BY <2>1, FS_EmptySet
  <2>3. Len(order) = 0 /\ order = << >>  BY DEF AdapterInit
  <2> QED BY <2>2, <2>3, AdapterAssumption DEF AdapterInit, CacheBounded, Distinct, InSeq
<1>3. CacheSound  BY DEF AdapterInit, CacheSound
<1>4. ASSUME NEW t \in Threads PROVE ThreadInv(t)
  BY DEF AdapterInit, ThreadInv, PlaceInv, SeekInv, OwnInv, Fetching, Heading, Going, Holding
<1> QED BY <1>1, <1>2, <1>3, <1>4 DEF AdapterInv

(* A step of one thread does not disturb another.                           *)
LEMMA OthersKeep ==
    ASSUME NEW u \in Threads, ThreadInv(u),
           pc'[u] = pc[u], cursor'[u] = cursor[u], head'[u] = head[u],
           raw'[u] = raw[u], plain'[u] = plain[u], raced => raced',
           fpos' = fpos \/ fpos'.by # u \/ ~ BeforeRead(u)
    PROVE  ThreadInv(u)'
<1>1. Segment(u)' = Segment(u) /\ Wanted(u)' = Wanted(u) /\ NextPage(u)' = NextPage(u)
  BY DEF Segment, Wanted, NextPage
<1>2. PlaceInv(u)'  BY <1>1 DEF ThreadInv, PlaceInv
<1>3. ~ raced' => OwnInv(u)'  BY <1>1 DEF ThreadInv, OwnInv
<1>4. ~ raced' => SeekInv(u)'  BY <1>1 DEF ThreadInv, SeekInv, BeforeRead
<1> QED BY <1>2, <1>3, <1>4 DEF ThreadInv

-----------------------------------------------------------------------------
(* What a step of a thread touches *)

(* Only t's own place changes. *)
Alone(t) == \A u \in Threads \ {t} :
               /\ pc'[u] = pc[u] /\ cursor'[u] = cursor[u] /\ head'[u] = head[u]
               /\ raw'[u] = raw[u] /\ plain'[u] = plain[u]

(* The handle, if it moved, is not believed by another to be its own.       *)
Quiet(t) == \A u \in Threads \ {t} : fpos' = fpos \/ fpos'.by # u \/ ~ BeforeRead(u)

Popping == {t \in Threads : pc[t] \in {"check", "pop"}}

CachePart == CacheType /\ CacheBounded /\ CacheSound

(* A thread that is at no segment has nothing to keep.                      *)
LEMMA AtNoSegment ==
    ASSUME NEW t, pc'[t] \notin Fetching \cup Holding
    PROVE  ThreadInv(t)'
  BY DEF ThreadInv, PlaceInv, SeekInv, OwnInv, Fetching, Holding, Heading, Going

LEMMA StepKeeps ==
    ASSUME AdapterInv, NEW t \in Threads, LocalType', CallType', FileType', CachePart',
           Alone(t), Quiet(t), raced => raced', ThreadInv(t)'
    PROVE  AdapterInv'
<1>1. AdapterTypeOK'  BY TypeParts, PTL DEF CachePart
<1>2. ASSUME NEW u \in Threads, u # t PROVE ThreadInv(u)'
  <2>1. ThreadInv(u)  BY DEF AdapterInv
  <2>2. u \in Threads \ {t}  BY <1>2
  <2> QED BY <2>1, <2>2, OthersKeep DEF Alone, Quiet
<1>3. \A u \in Threads : ThreadInv(u)'  BY <1>2
<1> QED BY <1>1, <1>3 DEF AdapterInv, CachePart

(* The size of the set of threads between store and eviction.               *)
LEMMA PoppingSize ==
    /\ IsFiniteSet(Popping) /\ Cardinality(Popping) \in Nat
    /\ IsFiniteSet(Popping') /\ Cardinality(Popping') \in Nat
<1>1. Popping \subseteq Threads /\ Popping' \subseteq Threads  BY DEF Popping
<1> QED BY <1>1, ThreadsAssumption, FS_Subset, FS_CardinalityType

LEMMA PoppingKept ==
    ASSUME NEW t \in Threads, Alone(t),
           pc[t] \in {"check", "pop"} <=> pc'[t] \in {"check", "pop"}
    PROVE  Popping' = Popping
<1>1. ASSUME NEW u \in Threads
      PROVE  pc'[u] \in {"check", "pop"} <=> pc[u] \in {"check", "pop"}
  BY DEF Alone
<1> QED BY <1>1 DEF Popping

(* A step that leaves the cache alone.                                      *)
LEMMA CacheKept ==
    ASSUME AdapterInv, NEW t \in Threads, UNCHANGED cache, Alone(t), raced => raced',
           \/ pc[t] \in {"check", "pop"} <=> pc'[t] \in {"check", "pop"}
           \/ Len(order) <= CacheSize
    PROVE  CachePart'
<1>1. order' = order /\ data' = data  BY DEF cache
<1>2. CacheType'  BY <1>1, TypeParts DEF AdapterInv, CacheType
<1>3. CacheSound'  BY <1>1 DEF AdapterInv, CacheSound
<1>4. Len(order) <= CacheSize + Cardinality(Popping')
  <2>1. Len(order) <= CacheSize + Cardinality(Popping)  BY DEF AdapterInv, CacheBounded, Popping
  <2>2. CASE Len(order) <= CacheSize
    BY <2>2, PoppingSize, LenProperties, AdapterAssumption DEF AdapterInv, AdapterTypeOK
  <2>3. CASE pc[t] \in {"check", "pop"} <=> pc'[t] \in {"check", "pop"}
    <3>1. Popping' = Popping  BY <2>3, PoppingKept
    <3> QED BY <3>1, <2>1
  <2> QED BY <2>2, <2>3
<1>5. CacheBounded'  BY <1>1, <1>4 DEF AdapterInv, CacheBounded, Popping
<1> QED BY <1>2, <1>3, <1>5 DEF CachePart

LEMMA FinishLocal ==
    ASSUME AdapterInv, NEW t \in Threads, NEW r, EndCall(t, r)
    PROVE  LocalType' /\ Alone(t) /\ pc'[t] = "done"
<1>1. LocalType  BY TypeParts DEF AdapterInv
<1>2. "done" \in Labels  BY DEF Labels
<1>3. << >> \in Seq(Byte) /\ << >> \in Seq(FilePages \X Spot)  OBVIOUS
<1>4. LocalType'  BY <1>1, <1>2, <1>3 DEF EndCall, LocalType
<1>5. Alone(t) /\ pc'[t] = "done"  BY <1>1 DEF EndCall, Alone, LocalType
<1> QED BY <1>4, <1>5

LEMMA CopyLocal ==
    ASSUME AdapterInv, NEW t \in Threads, NEW v \in Seq(Byte), ExtentAt(cursor[t]) # 0,
           CopyFrom(t, v), UNCHANGED result
    PROVE  LocalType' /\ Alone(t) /\ pc'[t] = "loop"
<1>1. LocalType /\ CallType  BY TypeParts DEF AdapterInv
<1> DEFINE x == cursor[t]  i == ExtentAt(x)  e == Nearer(EndOf(call[t]), ExtentEnd(i))
           c == Padded(v, x - Extents[i].off, e - Extents[i].off)
<1>2. x \in Int /\ EndOf(call[t]) \in Int  BY <1>1 DEF LocalType, CallType, EndOf
<1>3. Extents[i].off \in Nat /\ Extents[i].off <= x /\ ExtentEnd(i) \in Nat
  BY <1>2, ExtentUnder
<1>4. e \in Int  BY <1>2, <1>3 DEF Nearer
<1>5. c \in Seq(Byte)
  <2>1. x - Extents[i].off \in Nat /\ e - Extents[i].off \in Int  BY <1>2, <1>3, <1>4
  <2> HIDE DEF x, i, e
  <2> QED BY <2>1, PaddedType
<1>6. out[t] \o c \in Seq(Byte)
  <2>1. out[t] \in Seq(Byte)  BY <1>1 DEF LocalType
  <2> HIDE DEF c
  <2> QED BY <2>1, <1>5, ConcatProperties
<1>7. /\ out' = [out EXCEPT ![t] = out[t] \o c] /\ cursor' = [cursor EXCEPT ![t] = e]
      /\ head' = [head EXCEPT ![t] = 0] /\ raw' = [raw EXCEPT ![t] = << >>]
      /\ plain' = [plain EXCEPT ![t] = << >>] /\ pc' = [pc EXCEPT ![t] = "loop"]
  BY DEF CopyFrom, Goto
<1> HIDE DEF x, i, e, c
<1>8. "loop" \in Labels  BY DEF Labels
<1>9. << >> \in Seq(Byte) /\ << >> \in Seq(FilePages \X Spot)  OBVIOUS
<1>10. LocalType'
  BY <1>1, <1>4, <1>6, <1>7, <1>8, <1>9 DEF LocalType
<1>11. Alone(t) /\ pc'[t] = "loop"  BY <1>1, <1>7 DEF LocalType, Alone
<1> QED BY <1>10, <1>11

LEMMA ReadUpToFile ==
    ASSUME AdapterInv, NEW t \in Threads, NEW p \in Nat, NEW at \in Spot,
           p > NumPages => at = "payload", ReadUpTo(t, p, at)
    PROVE  FileType' /\ Quiet(t) /\ (~ raced' => ~ raced /\ fpos.by = t)
<1>1. FileType  BY TypeParts DEF AdapterInv
<1>2. ~ raced' => ~ raced /\ fpos.by = t  BY Zenon DEF ReadUpTo
<1>3. raced' \in BOOLEAN  BY <1>1, Zenon DEF ReadUpTo
<1>4. CASE \E u \in Threads \ {t} : BeforeRead(u)
  <2>1. fpos' = [page |-> p, at |-> at, by |-> t]  BY <1>4 DEF ReadUpTo
  <2> QED BY <2>1, <1>2, <1>3 DEF FileType, Quiet
<1>5. CASE ~ \E u \in Threads \ {t} : BeforeRead(u)
  <2>1. fpos' = AtRest  BY <1>5 DEF ReadUpTo
  <2>2. FileType'  BY <2>1, <1>3, AdapterAssumption DEF FileType, AtRest, Spot
  <2> QED BY <2>2, <1>2, <1>5 DEF Quiet
<1> QED BY <1>4, <1>5

LEMMA AfterPageFile ==
    ASSUME AdapterInv, NEW t \in Threads, AfterPage(t) \/ AfterShort(t)
    PROVE  FileType' /\ Quiet(t) /\ (~ raced' => ~ raced /\ fpos.by = t)
<1>1. FileType  BY TypeParts DEF AdapterInv
<1>2. NumPages \in Nat /\ "page" \in Spot  BY AdapterAssumption DEF Spot
<1>3. fpos.page \in Nat /\ fpos.at \in Spot  BY <1>1 DEF FileType
<1>4. CASE WholePage /\ AfterPage(t)
  <2>1. ReadUpTo(t, fpos.page + 1, fpos.at)  BY <1>4 DEF AfterPage
  <2>2. fpos.page + 1 <= NumPages  BY <1>4, <1>2, <1>3 DEF WholePage
  <2> QED BY <2>1, <2>2, <1>2, <1>3, ReadUpToFile
<1>5. CASE AfterShort(t)
  <2>1. CASE fpos.page >= NumPages
    <3>1. ReadUpTo(t, fpos.page, fpos.at)  BY <1>5, <2>1 DEF AfterShort
    <3>2. fpos.page > NumPages => fpos.at = "payload"  BY <1>1 DEF FileType
    <3> QED BY <3>1, <3>2, <1>3, ReadUpToFile
  <2>2. CASE ~ (fpos.page >= NumPages)
    <3>1. ReadUpTo(t, NumPages, "page")  BY <1>5, <2>2 DEF AfterShort
    <3> QED BY <3>1, <1>2, ReadUpToFile
  <2> QED BY <2>1, <2>2
<1> QED BY <1>4, <1>5 DEF AfterPage

LEMMA FileKept ==
    ASSUME AdapterInv, NEW t \in Threads, UNCHANGED file
    PROVE  FileType' /\ Quiet(t) /\ raced' = raced
<1>1. fpos' = fpos /\ raced' = raced  BY DEF file
<1>2. FileType'  BY <1>1, TypeParts DEF AdapterInv, FileType
<1> QED BY <1>1, <1>2 DEF Quiet

LEMMA SeekToFile ==
    ASSUME AdapterInv, NEW t \in Threads, NEW p \in Nat, NEW at \in Spot,
           p > NumPages => at = "payload", SeekTo(t, p, at)
    PROVE  FileType' /\ Quiet(t) /\ raced' = raced
           /\ fpos'.page = p /\ fpos'.at = at
<1>1. fpos' = [page |-> p, at |-> at, by |-> t] /\ raced' = raced  BY DEF SeekTo
<1>2. raced \in BOOLEAN  BY TypeParts DEF AdapterInv, FileType
<1>3. FileType'  BY <1>1, <1>2 DEF FileType
<1> QED BY <1>1, <1>3 DEF Quiet

(* A step that ends at no segment and leaves the cache alone.               *)
LEMMA RestKeeps ==
    ASSUME AdapterInv, NEW t \in Threads, LocalType', Alone(t), CallType', FileType', Quiet(t),
           raced => raced', UNCHANGED cache, pc[t] \notin {"check", "pop"},
           pc'[t] \in {"enter", "loop", "done"}
    PROVE  AdapterInv'
<1>1. ThreadInv(t)'  BY AtNoSegment DEF Fetching, Holding
<1>2. CachePart'  BY CacheKept
<1> QED BY <1>1, <1>2, StepKeeps

LEMMA RaiseKeeps ==
    ASSUME AdapterInv, NEW t \in Threads, NEW r, EndCall(t, r), UNCHANGED <<call, cache>>,
           FileType', Quiet(t), raced => raced', pc[t] \notin {"check", "pop"}
    PROVE  AdapterInv'
<1>1. LocalType' /\ Alone(t) /\ pc'[t] = "done"  BY FinishLocal
<1>2. CallType'  BY TypeParts DEF AdapterInv, CallType
<1> QED BY <1>1, <1>2, RestKeeps

(* The same where the file is not touched.                                  *)
LEMMA RaiseUntouched ==
    ASSUME AdapterInv, NEW t \in Threads, NEW r, EndCall(t, r), UNCHANGED <<call, cache, file>>,
           pc[t] \notin {"check", "pop"}
    PROVE  AdapterInv'
<1>1. FileType' /\ Quiet(t) /\ raced' = raced  BY FileKept
<1> QED BY <1>1, RaiseKeeps

-----------------------------------------------------------------------------
(* The steps of a thread *)

LEMMA BeginKeeps == ASSUME AdapterInv, NEW t \in Threads, Begin(t) PROVE AdapterInv'
<1>1. LocalType /\ CallType  BY TypeParts DEF AdapterInv
<1>2. PICK r \in Requests[t] : call' = [call EXCEPT ![t] = r]  BY DEF Begin
<1>3. r \in [off : Int, len : Int]  BY AdapterAssumption
<1>4. CallType'  BY <1>1, <1>2, <1>3 DEF CallType
<1>5. "enter" \in Labels  BY DEF Labels
<1>6. LocalType' /\ pc'[t] = "enter" /\ Alone(t)
  BY <1>1, <1>5 DEF Begin, Goto, LocalType, local, Alone
<1>7. FileType' /\ Quiet(t) /\ raced' = raced  BY FileKept DEF Begin
<1>8. UNCHANGED cache /\ pc[t] \notin {"check", "pop"}  BY DEF Begin
<1> QED BY <1>4, <1>6, <1>7, <1>8, RestKeeps

LEMMA EnterKeeps == ASSUME AdapterInv, NEW t \in Threads, Enter(t) PROVE AdapterInv'
<1>1. LocalType /\ CallType  BY TypeParts DEF AdapterInv
<1>2. UNCHANGED <<call, cache, file>> /\ pc[t] \notin {"check", "pop"}  BY DEF Enter
<1>3. CASE Raise(t, "ValueError")  BY <1>2, <1>3, RaiseUntouched DEF Raise
<1>4. CASE ~ Raise(t, "ValueError")
  <2>1. /\ Goto(t, "loop") /\ cursor' = [cursor EXCEPT ![t] = call[t].off]
        /\ UNCHANGED <<out, local, result>>
    BY <1>4 DEF Enter
  <2>2. call[t].off \in Int /\ "loop" \in Labels  BY <1>1 DEF CallType, Labels
  <2>3. LocalType' /\ pc'[t] = "loop" /\ Alone(t)
    BY <1>1, <2>1, <2>2 DEF Goto, LocalType, local, Alone
  <2>4. CallType'  BY <1>1, <1>2 DEF CallType
  <2>5. FileType' /\ Quiet(t) /\ raced' = raced  BY <1>2, FileKept
  <2> QED BY <1>2, <2>3, <2>4, <2>5, RestKeeps
<1> QED BY <1>3, <1>4

LEMMA ReturnKeeps == ASSUME AdapterInv, NEW t \in Threads, Return(t) PROVE AdapterInv'
  BY RaiseUntouched DEF Return

LEMMA FillHoleKeeps == ASSUME AdapterInv, NEW t \in Threads, FillHole(t) PROVE AdapterInv'
<1>1. LocalType /\ CallType  BY TypeParts DEF AdapterInv
<1> DEFINE next == HoleEnd(cursor[t], EndOf(call[t]))  z == Zeros(next - cursor[t])
<1>2. cursor[t] \in Int /\ EndOf(call[t]) \in Int
  BY <1>1 DEF LocalType, CallType, EndOf
<1>3. next \in Int  BY <1>2, HoleEndIsInt
<1>4. /\ out' = [out EXCEPT ![t] = out[t] \o z] /\ cursor' = [cursor EXCEPT ![t] = next]
      /\ UNCHANGED <<pc, call, local, cache, file, result>> /\ pc[t] = "loop"
  BY DEF FillHole, More
<1>5. next - cursor[t] \in Int  BY <1>2, <1>3
<1> HIDE DEF next
<1>6. z \in Seq(Byte)  BY <1>5, ZerosType
<1> HIDE DEF z
<1>7. out[t] \o z \in Seq(Byte)
  <2>1. out[t] \in Seq(Byte)  BY <1>1 DEF LocalType
  <2> QED BY <2>1, <1>6, ConcatProperties
<1>8. LocalType' /\ Alone(t)  BY <1>1, <1>3, <1>4, <1>7 DEF LocalType, local, Alone
<1>9. CallType'  BY <1>1, <1>4 DEF CallType
<1>10. FileType' /\ Quiet(t) /\ raced' = raced  BY <1>4, FileKept
<1> QED BY <1>4, <1>8, <1>9, <1>10, RestKeeps

(* The cursor of a thread that is at a segment.                             *)
LEMMA UnderCursor ==
    ASSUME AdapterInv, NEW t \in Threads, ExtentAt(cursor[t]) # 0
    PROVE  cursor[t] \in Int /\ Segment(t) \in Segments
<1>1. cursor[t] \in Int  BY TypeParts DEF AdapterInv, LocalType
<1> QED BY <1>1, ExtentUnder DEF Segment

LEMMA NotInHole ==
    ASSUME AdapterInv, NEW t \in Threads, More(t), ~ InHole(cursor[t])
    PROVE  ExtentAt(cursor[t]) # 0 /\ pc[t] = "loop"
  BY DEF More, InHole

LEMMA GetKeeps == ASSUME AdapterInv, NEW t \in Threads, Get(t) PROVE AdapterInv'
<1> DEFINE s == Segment(t)
<1>1. LocalType /\ CallType /\ CacheType  BY TypeParts DEF AdapterInv
<1>2. /\ More(t) /\ ~ InHole(cursor[t]) /\ data[s] # NotCached
      /\ plain' = [plain EXCEPT ![t] = data[s]] /\ pc' = [pc EXCEPT ![t] = "touch"]
      /\ UNCHANGED <<call, cursor, out, head, raw, cache, file, result>>
  BY DEF Get, Goto
<1>3. ExtentAt(cursor[t]) # 0 /\ pc[t] = "loop"  BY <1>2, NotInHole
<1>4. s \in Segments  BY <1>3, UnderCursor
<1>5. data[s] \in Seq(Byte)  BY <1>1, <1>2, <1>4 DEF CacheType
<1>6. "touch" \in Labels  BY DEF Labels
<1> HIDE DEF s
<1>7. LocalType' /\ Alone(t) /\ pc'[t] = "touch" /\ plain'[t] = data[s] /\ cursor' = cursor
  BY <1>1, <1>2, <1>5, <1>6 DEF LocalType, Alone
<1>8. CallType'  BY <1>1, <1>2 DEF CallType
<1>9. FileType' /\ Quiet(t) /\ raced' = raced  BY <1>2, FileKept
<1>10. CachePart'  BY <1>2, <1>3, <1>7, <1>9, CacheKept
<1>11. Segment(t)' = s  BY <1>7 DEF Segment, s
<1>12. ThreadInv(t)'
  <2>1. PlaceInv(t)'
    BY <1>7, <1>3 DEF PlaceInv, Fetching, Holding, Heading, Going
  <2>2. SeekInv(t)'  BY <1>7 DEF SeekInv
  <2>3. ~ raced' => OwnInv(t)'
    <3>1. ~ raced => Served(s) /\ data[s] = Plain(s)
      BY <1>2, <1>4 DEF AdapterInv, CacheSound, s
    <3> QED BY <3>1, <1>7, <1>9, <1>11 DEF OwnInv, Heading, Going, Holding
  <2> QED BY <2>1, <2>2, <2>3 DEF ThreadInv
<1> QED BY <1>7, <1>8, <1>9, <1>10, <1>12, StepKeeps

LEMMA MissKeeps == ASSUME AdapterInv, NEW t \in Threads, Miss(t) PROVE AdapterInv'
<1>1. LocalType /\ CallType  BY TypeParts DEF AdapterInv
<1>2. /\ More(t) /\ ~ InHole(cursor[t]) /\ UNCHANGED <<call, cache, file>>
  BY DEF Miss
<1>3. ExtentAt(cursor[t]) # 0 /\ pc[t] = "loop"  BY <1>2, NotInHole
<1>4. CASE SegIndex[Segment(t)] = NotIndexed
  <2>1. EndCall(t, Err("TibxAdapterError"))  BY <1>4 DEF Miss, Raise
  <2> QED BY <2>1, <1>2, <1>3, RaiseUntouched
<1>5. CASE SegIndex[Segment(t)] # NotIndexed
  <2>1. Goto(t, "seekhead") /\ UNCHANGED <<cursor, out, local, result>>
    BY <1>5 DEF Miss
  <2>2. "seekhead" \in Labels  BY DEF Labels
  <2>3. LocalType' /\ Alone(t) /\ pc'[t] = "seekhead" /\ cursor' = cursor
    BY <1>1, <2>1, <2>2 DEF LocalType, Alone, Goto, local
  <2>4. CallType'  BY <1>1, <1>2 DEF CallType
  <2>5. FileType' /\ Quiet(t) /\ raced' = raced  BY <1>2, FileKept
  <2>6. CachePart'  BY <1>2, <1>3, <2>3, <2>5, CacheKept
  <2>7. Segment(t)' = Segment(t)  BY <2>3 DEF Segment
  <2>8. ThreadInv(t)'
    BY <2>3, <2>7, <1>3, <1>5
       DEF ThreadInv, PlaceInv, SeekInv, OwnInv, Fetching, Holding, Heading, Going
  <2> QED BY <2>3, <2>4, <2>5, <2>6, <2>8, StepKeeps
<1> QED BY <1>4, <1>5

(* What a thread that holds a segment knows.                                *)
LEMMA HoldsSegment ==
    ASSUME AdapterInv, NEW t \in Threads, pc[t] \in Holding
    PROVE  /\ ExtentAt(cursor[t]) # 0 /\ cursor[t] \in Int /\ Segment(t) \in Segments
           /\ plain[t] \in Seq(Byte)
           /\ pc[t] = "store" => plain[t] # NotCached
           /\ ~ raced => Served(Segment(t)) /\ plain[t] = Plain(Segment(t))
<1>1. ThreadInv(t) /\ LocalType  BY TypeParts DEF AdapterInv
<1>2. ExtentAt(cursor[t]) # 0 /\ (pc[t] = "store" => plain[t] # NotCached)
  BY <1>1 DEF ThreadInv, PlaceInv
<1>3. ~ raced => Served(Segment(t)) /\ plain[t] = Plain(Segment(t))
  BY <1>1 DEF ThreadInv, OwnInv
<1>4. plain[t] \in Seq(Byte)  BY <1>1 DEF LocalType
<1> QED BY <1>2, <1>3, <1>4, UnderCursor

LEMMA TouchKeeps == ASSUME AdapterInv, NEW t \in Threads, Touch(t) PROVE AdapterInv'
<1> DEFINE s == Segment(t)
<1>1. LocalType /\ CallType /\ CacheType /\ CacheBounded /\ CacheSound
  BY TypeParts DEF AdapterInv
<1>2. pc[t] = "touch" /\ UNCHANGED <<call, data, file>>  BY DEF Touch
<1>3. ExtentAt(cursor[t]) # 0 /\ s \in Segments /\ plain[t] \in Seq(Byte)
  BY <1>2, HoldsSegment DEF Holding
<1> HIDE DEF s
<1>4. CASE ~ InSeq(s, order)
  <2>1. EndCall(t, Err("KeyError")) /\ UNCHANGED order  BY <1>4 DEF Touch, Raise, s
  <2>2. UNCHANGED <<call, cache, file>>  BY <1>2, <2>1 DEF cache
  <2> QED BY <2>1, <2>2, <1>2, RaiseUntouched
<1>5. CASE InSeq(s, order)
  <2>1. order' = MovedToEnd(order, s) /\ CopyFrom(t, plain[t]) /\ UNCHANGED result
    BY <1>5 DEF Touch, s
  <2>2. LocalType' /\ Alone(t) /\ pc'[t] = "loop"  BY <2>1, <1>3, CopyLocal
  <2>3. CallType'  BY <1>1, <1>2 DEF CallType
  <2>4. FileType' /\ Quiet(t) /\ raced' = raced  BY <1>2, FileKept
  <2>5. /\ order' \in Seq(Segments) /\ Distinct(order')
        /\ \A x \in Segments : InSeq(x, order') <=> (x = s \/ InSeq(x, order))
        /\ Len(order') = Len(order)
    BY <2>1, <1>1, <1>3, <1>5, MovedToEndKeys DEF CacheType, CacheBounded
  <2>6. Popping' = Popping  BY <2>2, <1>2, PoppingKept
  <2>7. CacheType'  BY <2>5, <1>1, <1>2 DEF CacheType
  <2>8. CacheBounded'  BY <2>5, <2>6, <1>1, <1>2, <1>5 DEF CacheBounded, Popping
  <2>9. CacheSound'  BY <2>4, <1>1, <1>2 DEF CacheSound
  <2>10. ThreadInv(t)'  BY <2>2, AtNoSegment DEF Fetching, Holding
  <2> QED BY <2>2, <2>3, <2>4, <2>7, <2>8, <2>9, <2>10, StepKeeps DEF CachePart
<1> QED BY <1>4, <1>5

(* A thread enters or leaves the set between store and eviction.            *)
LEMMA PoppingEntered ==
    ASSUME NEW t \in Threads, Alone(t), pc[t] \notin {"check", "pop"}, pc'[t] = "check"
    PROVE  Cardinality(Popping') = Cardinality(Popping) + 1
<1>1. t \notin Popping /\ IsFiniteSet(Popping)  BY PoppingSize DEF Popping
<1>2. Popping' = Popping \cup {t}  BY DEF Popping, Alone
<1> QED BY <1>1, <1>2, FS_AddElement

LEMMA PoppingLeft ==
    ASSUME NEW t \in Threads, Alone(t), pc[t] \in {"check", "pop"},
           pc'[t] \notin {"check", "pop"}
    PROVE  Cardinality(Popping') = Cardinality(Popping) - 1
<1>1. t \in Popping /\ IsFiniteSet(Popping)  BY PoppingSize DEF Popping
<1>2. Popping' = Popping \ {t}  BY DEF Popping, Alone
<1> QED BY <1>1, <1>2, FS_RemoveElement

LEMMA StoreKeeps == ASSUME AdapterInv, NEW t \in Threads, Store(t) PROVE AdapterInv'
<1> DEFINE s == Segment(t)
<1>1. LocalType /\ CallType /\ CacheType /\ CacheBounded /\ CacheSound
  BY TypeParts DEF AdapterInv
<1>2. /\ pc[t] = "store" /\ pc' = [pc EXCEPT ![t] = "check"]
      /\ data' = [data EXCEPT ![s] = plain[t]] /\ order' = Assigned(order, s)
      /\ UNCHANGED <<call, cursor, out, local, file, result>>
  BY DEF Store, Goto
<1>3. /\ ExtentAt(cursor[t]) # 0 /\ s \in Segments /\ plain[t] \in Seq(Byte)
      /\ plain[t] # NotCached
      /\ ~ raced => Served(s) /\ plain[t] = Plain(s)
  BY <1>2, HoldsSegment DEF Holding
<1>4. "check" \in Labels  BY DEF Labels
<1> HIDE DEF s
<1>5. LocalType' /\ Alone(t) /\ pc'[t] = "check" /\ cursor' = cursor /\ plain' = plain
  BY <1>1, <1>2, <1>4 DEF LocalType, Alone, local
<1>6. CallType'  BY <1>1, <1>2 DEF CallType
<1>7. FileType' /\ Quiet(t) /\ raced' = raced  BY <1>2, FileKept
<1>8. /\ order' \in Seq(Segments) /\ Distinct(order')
      /\ \A x \in Segments : InSeq(x, order') <=> (x = s \/ InSeq(x, order))
      /\ Len(order') = IF InSeq(s, order) THEN Len(order) ELSE Len(order) + 1
  BY <1>1, <1>2, <1>3, AssignedKeys DEF CacheType, CacheBounded
<1>9. /\ DOMAIN data' = Segments /\ data'[s] = plain[t]
      /\ \A x \in Segments : x # s => data'[x] = data[x]
  BY <1>1, <1>2, <1>3 DEF CacheType
<1>10. CacheType'  BY <1>8, <1>9, <1>1, <1>3 DEF CacheType
<1>11. CacheBounded'
  <2>1. Len(order) <= CacheSize + Cardinality(Popping)  BY <1>1 DEF CacheBounded, Popping
  <2>2. Cardinality(Popping') = Cardinality(Popping) + 1 /\ Cardinality(Popping) \in Nat
    BY <1>2, <1>5, PoppingEntered, PoppingSize
  <2>3. Len(order) \in Nat /\ CacheSize \in Nat
    BY <1>1, LenProperties, AdapterAssumption DEF CacheType
  <2>4. Len(order') <= CacheSize + Cardinality(Popping')  BY <2>1, <2>2, <2>3, <1>8
  <2>5. \A x \in Segments : data'[x] # NotCached <=> InSeq(x, order')
    BY <1>8, <1>9, <1>1, <1>3 DEF CacheBounded
  <2> QED BY <2>4, <2>5, <1>8 DEF CacheBounded, Popping
<1>12. CacheSound'
  <2>1. ~ raced' => \A x \in Segments : data'[x] # NotCached =>
            Served(x) /\ data'[x] = Plain(x)
    BY <1>3, <1>7, <1>9, <1>1 DEF CacheSound
  <2> QED BY <2>1 DEF CacheSound
<1>13. Segment(t)' = s  BY <1>5 DEF Segment, s
<1>14. ThreadInv(t)'
  <2>1. PlaceInv(t)'  BY <1>3, <1>5 DEF PlaceInv, Fetching, Holding, Heading, Going
  <2>2. SeekInv(t)'  BY <1>5 DEF SeekInv
  <2>3. ~ raced' => OwnInv(t)'
    BY <1>3, <1>5, <1>7, <1>13 DEF OwnInv, Heading, Going, Holding
  <2> QED BY <2>1, <2>2, <2>3 DEF ThreadInv
<1> QED BY <1>5, <1>6, <1>7, <1>10, <1>11, <1>12, <1>14, StepKeeps DEF CachePart

LEMMA CheckKeeps == ASSUME AdapterInv, NEW t \in Threads, Check(t) PROVE AdapterInv'
<1>1. LocalType /\ CallType /\ CacheType  BY TypeParts DEF AdapterInv
<1>2. pc[t] = "check" /\ UNCHANGED <<call, cache, file, result>>  BY DEF Check
<1>3. /\ ExtentAt(cursor[t]) # 0 /\ plain[t] \in Seq(Byte)
      /\ ~ raced => Served(Segment(t)) /\ plain[t] = Plain(Segment(t))
  BY <1>2, HoldsSegment DEF Holding
<1>4. CallType'  BY <1>1, <1>2 DEF CallType
<1>5. FileType' /\ Quiet(t) /\ raced' = raced  BY <1>2, FileKept
<1>6. CASE Over(Len(order))
  <2>1. pc' = [pc EXCEPT ![t] = "pop"] /\ UNCHANGED <<cursor, out, local>>
    BY <1>6 DEF Check, Goto
  <2>2. "pop" \in Labels  BY DEF Labels
  <2>3. LocalType' /\ Alone(t) /\ pc'[t] = "pop" /\ cursor' = cursor /\ plain' = plain
    BY <1>1, <1>2, <2>1, <2>2 DEF LocalType, Alone, local
  <2>4. CachePart'  BY <1>2, <1>5, <2>3, CacheKept
  <2>5. Segment(t)' = Segment(t)  BY <2>3 DEF Segment
  <2>6. ThreadInv(t)'
    <3>1. PlaceInv(t)'  BY <1>3, <2>3 DEF PlaceInv, Fetching, Holding, Heading, Going
    <3>2. SeekInv(t)'  BY <2>3 DEF SeekInv
    <3>3. ~ raced' => OwnInv(t)'
      BY <1>3, <1>5, <2>3, <2>5 DEF OwnInv, Heading, Going, Holding
    <3> QED BY <3>1, <3>2, <3>3 DEF ThreadInv
  <2> QED BY <1>4, <1>5, <2>3, <2>4, <2>6, StepKeeps
<1>7. CASE ~ Over(Len(order))
  <2>1. CopyFrom(t, plain[t])  BY <1>7 DEF Check
  <2>2. LocalType' /\ Alone(t) /\ pc'[t] = "loop"  BY <2>1, <1>2, <1>3, CopyLocal
  <2>3. Len(order) <= CacheSize
    <3>1. Len(order) \in Nat /\ CacheSize \in Nat
      BY <1>1, LenProperties, AdapterAssumption DEF CacheType
    <3> QED BY <3>1, <1>7 DEF Over
  <2>4. CachePart'  BY <1>2, <1>5, <2>2, <2>3, CacheKept
  <2>5. ThreadInv(t)'  BY <2>2, AtNoSegment DEF Fetching, Holding
  <2> QED BY <1>4, <1>5, <2>2, <2>4, <2>5, StepKeeps
<1> QED BY <1>6, <1>7

LEMMA PopKeeps == ASSUME AdapterInv, NEW t \in Threads, Pop(t) PROVE AdapterInv'
<1>1. LocalType /\ CallType /\ CacheType /\ CacheBounded /\ CacheSound
  BY TypeParts DEF AdapterInv
<1>2. pc[t] = "pop" /\ UNCHANGED <<call, file>>  BY DEF Pop
<1>3. ExtentAt(cursor[t]) # 0 /\ plain[t] \in Seq(Byte)
  BY <1>2, HoldsSegment DEF Holding
<1>4. CallType'  BY <1>1, <1>2 DEF CallType
<1>5. FileType' /\ Quiet(t) /\ raced' = raced  BY <1>2, FileKept
<1>6. Len(order) \in Nat /\ CacheSize \in Nat
  BY <1>1, LenProperties, AdapterAssumption DEF CacheType
<1>7. CASE order = << >>
  <2>1. EndCall(t, Err("KeyError")) /\ UNCHANGED cache  BY <1>7 DEF Pop, Raise
  <2>2. LocalType' /\ Alone(t) /\ pc'[t] = "done"  BY <2>1, FinishLocal
  <2>3. Len(order) <= CacheSize  BY <1>7, <1>6
  <2>4. CachePart'  BY <2>1, <2>2, <2>3, <1>5, CacheKept
  <2>5. ThreadInv(t)'  BY <2>2, AtNoSegment DEF Fetching, Holding
  <2> QED BY <1>4, <1>5, <2>2, <2>4, <2>5, StepKeeps
<1>8. CASE order # << >>
  <2>1. /\ order' = Tail(order) /\ data' = [data EXCEPT ![Head(order)] = NotCached]
        /\ CopyFrom(t, plain[t]) /\ UNCHANGED result
    BY <1>8 DEF Pop
  <2>2. LocalType' /\ Alone(t) /\ pc'[t] = "loop"  BY <2>1, <1>3, CopyLocal
  <2>3. /\ Head(order) \in Segments /\ order' \in Seq(Segments) /\ Distinct(order')
        /\ \A x \in Segments : InSeq(x, order') <=> (x # Head(order) /\ InSeq(x, order))
        /\ Len(order') = Len(order) - 1
    BY <2>1, <1>1, <1>8, PoppedKeys DEF CacheType, CacheBounded
  <2>4. /\ DOMAIN data' = Segments /\ data'[Head(order)] = NotCached
        /\ \A x \in Segments : x # Head(order) => data'[x] = data[x]
    BY <2>1, <2>3, <1>1 DEF CacheType
  <2>5. CacheType'  BY <2>3, <2>4, <1>1 DEF CacheType
  <2>6. CacheBounded'
    <3>1. Len(order) <= CacheSize + Cardinality(Popping)  BY <1>1 DEF CacheBounded, Popping
    <3>2. Cardinality(Popping') = Cardinality(Popping) - 1 /\ Cardinality(Popping) \in Nat
      BY <1>2, <2>2, PoppingLeft, PoppingSize
    <3>3. Len(order') <= CacheSize + Cardinality(Popping')  BY <3>1, <3>2, <1>6, <2>3
    <3>4. \A x \in Segments : data'[x] # NotCached <=> InSeq(x, order')
      BY <2>3, <2>4, <1>1 DEF CacheBounded
    <3> QED BY <3>3, <3>4, <2>3 DEF CacheBounded, Popping
  <2>7. CacheSound'
    <3>1. ~ raced' => \A x \in Segments : data'[x] # NotCached =>
              Served(x) /\ data'[x] = Plain(x)
      BY <1>5, <2>4, <1>1 DEF CacheSound
    <3> QED BY <3>1 DEF CacheSound
  <2>8. ThreadInv(t)'  BY <2>2, AtNoSegment DEF Fetching, Holding
  <2> QED BY <1>4, <1>5, <2>2, <2>5, <2>6, <2>7, <2>8, StepKeeps DEF CachePart
<1> QED BY <1>7, <1>8

-----------------------------------------------------------------------------
(* The steps that read the file *)

LEMMA LocalPage ==
    ASSUME NEW p \in Nat
    PROVE  Rebased(p) \in Nat
  BY BaseAssumption DEF Rebased

(* A thread that reads a segment has one, and its page is indexed.          *)
LEMMA FetchesSegment ==
    ASSUME AdapterInv, NEW t \in Threads, pc[t] \in Fetching
    PROVE  /\ ExtentAt(cursor[t]) # 0 /\ Segment(t) \in Segments
           /\ Wanted(t) \in Nat /\ SegIndex[Segment(t)] # NotIndexed
<1>1. ExtentAt(cursor[t]) # 0 /\ SegIndex[Segment(t)] # NotIndexed
  BY DEF AdapterInv, ThreadInv, PlaceInv
<1>2. Segment(t) \in Segments  BY <1>1, UnderCursor
<1>3. Wanted(t) \in Nat  BY <1>1, <1>2, AdapterAssumption DEF Wanted
<1> QED BY <1>1, <1>2, <1>3

LEMMA HasHead ==
    ASSUME AdapterInv, NEW t \in Threads, pc[t] \in Heading
    PROVE  /\ head[t] \in FilePages /\ Kind[head[t]] = "sg" /\ Span[head[t]] \in Nat \ {0}
           /\ ~ raced => head[t] = Rebased(Wanted(t)) /\ head[t] \notin Sealed
<1>1. ThreadInv(t)  BY DEF AdapterInv
<1>2. head[t] \in FilePages /\ Kind[head[t]] = "sg"  BY <1>1 DEF ThreadInv, PlaceInv
<1>3. Span[head[t]] \in Nat \ {0}  BY <1>2, AdapterAssumption
<1> QED BY <1>1, <1>2, <1>3 DEF ThreadInv, OwnInv

LEMMA SeekHeadKeeps == ASSUME AdapterInv, NEW t \in Threads, SeekHead(t) PROVE AdapterInv'
<1>1. LocalType /\ CallType  BY TypeParts DEF AdapterInv
<1>2. pc[t] = "seekhead" /\ UNCHANGED <<call, cache>>  BY DEF SeekHead
<1>3. ExtentAt(cursor[t]) # 0 /\ Wanted(t) \in Nat /\ SegIndex[Segment(t)] # NotIndexed
  BY <1>2, FetchesSegment DEF Fetching
<1>4. Rebased(Wanted(t)) \in Nat  BY <1>3, LocalPage
<1>5. CASE Rebased(Wanted(t)) >= NumPages
  <2>1. EndCall(t, Err("IndexError")) /\ UNCHANGED file  BY <1>5 DEF SeekHead, Raise
  <2> QED BY <2>1, <1>2, RaiseUntouched
<1>6. CASE ~ (Rebased(Wanted(t)) >= NumPages)
  <2>1. /\ Goto(t, "readhead") /\ SeekTo(t, Rebased(Wanted(t)), "page")
        /\ UNCHANGED <<cursor, out, local, result>>
    BY <1>6 DEF SeekHead
  <2>2. "readhead" \in Labels /\ "page" \in Spot  BY DEF Labels, Spot
  <2>3. LocalType' /\ Alone(t) /\ pc'[t] = "readhead" /\ cursor' = cursor
    BY <1>1, <2>1, <2>2 DEF LocalType, Alone, Goto, local
  <2>4. CallType'  BY <1>1, <1>2 DEF CallType
  <2>5. /\ FileType' /\ Quiet(t) /\ raced' = raced
        /\ fpos'.page = Rebased(Wanted(t)) /\ fpos'.at = "page"
    BY <2>1, <2>2, <1>4, <1>6, AdapterAssumption, SeekToFile
  <2>6. CachePart'  BY <1>2, <2>3, <2>5, CacheKept
  <2>7. Segment(t)' = Segment(t) /\ Wanted(t)' = Wanted(t)  BY <2>3 DEF Segment, Wanted
  <2>8. ThreadInv(t)'
    <3>1. PlaceInv(t)'
      BY <1>3, <2>3, <2>7 DEF PlaceInv, Fetching, Holding, Heading, Going
    <3>2. SeekInv(t)'  BY <2>3, <2>5, <2>7 DEF SeekInv
    <3>3. OwnInv(t)'  BY <2>3 DEF OwnInv, Holding, Heading, Going
    <3> QED BY <3>1, <3>2, <3>3 DEF ThreadInv
  <2> QED BY <2>3, <2>4, <2>5, <2>6, <2>8, StepKeeps
<1> QED BY <1>5, <1>6

LEMMA ReadHeadKeeps == ASSUME AdapterInv, NEW t \in Threads, ReadHead(t) PROVE AdapterInv'
<1>1. LocalType /\ CallType /\ FileType  BY TypeParts DEF AdapterInv
<1>2. pc[t] = "readhead" /\ AfterPage(t) /\ UNCHANGED <<call, cache>>  BY DEF ReadHead
<1>3. ExtentAt(cursor[t]) # 0 /\ Wanted(t) \in Nat /\ SegIndex[Segment(t)] # NotIndexed
  BY <1>2, FetchesSegment DEF Fetching
<1>4. FileType' /\ Quiet(t) /\ (~ raced' => ~ raced /\ fpos.by = t)
  BY <1>2, AfterPageFile
<1>5. raced => raced'  BY <1>4
<1>6. CASE \E e \in Errors : Raise(t, e)
  <2>1. PICK e : EndCall(t, Err(e))  BY <1>6 DEF Raise
  <2> QED BY <2>1, <1>2, <1>4, <1>5, RaiseKeeps
<1>7. CASE ~ \E e \in Errors : Raise(t, e)
  <2>1. /\ WholePage /\ PageRead("sg") /\ fpos.page \notin Sealed
        /\ head' = [head EXCEPT ![t] = fpos.page] /\ Goto(t, "seekbody")
        /\ UNCHANGED <<cursor, out, raw, plain, result>>
    BY <1>7 DEF ReadHead, Errors
  <2>2. fpos.page \in FilePages /\ Kind[fpos.page] = "sg"
    <3>1. fpos.page \in Nat  BY <1>1 DEF FileType
    <3>2. fpos.at = "page" /\ Kind[fpos.page] = "sg"  BY <2>1 DEF PageRead
    <3>3. fpos.page + 1 <= NumPages  BY <2>1, <3>2 DEF WholePage
    <3> QED BY <3>1, <3>2, <3>3, AdapterAssumption DEF FilePages
  <2>3. "seekbody" \in Labels  BY DEF Labels
  <2>4. LocalType' /\ Alone(t) /\ pc'[t] = "seekbody" /\ cursor' = cursor
        /\ head'[t] = fpos.page
    BY <1>1, <2>1, <2>2, <2>3 DEF LocalType, Alone, Goto
  <2>5. CallType'  BY <1>1, <1>2 DEF CallType
  <2>6. CachePart'  BY <1>2, <1>5, <2>4, CacheKept
  <2>7. Segment(t)' = Segment(t) /\ Wanted(t)' = Wanted(t)  BY <2>4 DEF Segment, Wanted
  <2>8. ThreadInv(t)'
    <3>1. PlaceInv(t)'
      BY <1>3, <2>2, <2>4, <2>7 DEF PlaceInv, Fetching, Holding, Heading, Going
    <3>2. SeekInv(t)'  BY <2>4 DEF SeekInv
    <3>3. ~ raced' => OwnInv(t)'
      <4>1. ~ raced' => fpos.page = Rebased(Wanted(t))
        BY <1>2, <1>4 DEF AdapterInv, ThreadInv, SeekInv
      <4> QED BY <4>1, <2>1, <2>4, <2>7 DEF OwnInv, Holding, Heading, Going
    <3> QED BY <3>1, <3>2, <3>3 DEF ThreadInv
  <2> QED BY <1>4, <1>5, <2>4, <2>5, <2>6, <2>8, StepKeeps
<1> QED BY <1>6, <1>7

LEMMA SeekBodyKeeps == ASSUME AdapterInv, NEW t \in Threads, SeekBody(t) PROVE AdapterInv'
<1>1. LocalType /\ CallType  BY TypeParts DEF AdapterInv
<1>2. /\ pc[t] = "seekbody" /\ UNCHANGED <<call, cache>>
      /\ SeekTo(t, Wanted(t), "payload") /\ Goto(t, "readbody")
      /\ UNCHANGED <<cursor, out, local, result>>
  BY DEF SeekBody
<1>3. ExtentAt(cursor[t]) # 0 /\ Wanted(t) \in Nat /\ SegIndex[Segment(t)] # NotIndexed
  BY <1>2, FetchesSegment DEF Fetching
<1>4. /\ head[t] \in FilePages /\ Kind[head[t]] = "sg"
      /\ ~ raced => head[t] = Rebased(Wanted(t)) /\ head[t] \notin Sealed
  BY <1>2, HasHead DEF Heading
<1>5. "readbody" \in Labels /\ "payload" \in Spot  BY DEF Labels, Spot
<1>6. LocalType' /\ Alone(t) /\ pc'[t] = "readbody" /\ cursor' = cursor /\ head' = head
  BY <1>1, <1>2, <1>5 DEF LocalType, Alone, Goto, local
<1>7. CallType'  BY <1>1, <1>2 DEF CallType
<1>8. /\ FileType' /\ Quiet(t) /\ raced' = raced
      /\ fpos'.page = Wanted(t) /\ fpos'.at = "payload"
  BY <1>2, <1>3, <1>5, SeekToFile
<1>9. CachePart'  BY <1>2, <1>6, <1>8, CacheKept
<1>10. Segment(t)' = Segment(t) /\ Wanted(t)' = Wanted(t)  BY <1>6 DEF Segment, Wanted
<1>11. ThreadInv(t)'
  <2>1. PlaceInv(t)'
    BY <1>3, <1>4, <1>6, <1>10 DEF PlaceInv, Fetching, Holding, Heading, Going
  <2>2. SeekInv(t)'  BY <1>6, <1>8, <1>10 DEF SeekInv
  <2>3. ~ raced' => OwnInv(t)'
    BY <1>4, <1>6, <1>8, <1>10 DEF OwnInv, Holding, Heading, Going
  <2> QED BY <2>1, <2>2, <2>3 DEF ThreadInv
<1> QED BY <1>6, <1>7, <1>8, <1>9, <1>11, StepKeeps

(* Payloads r are the first of those a thread would read alone.             *)
Mine(t, r) ==
    /\ Wanted(t) \in FilePages
    /\ \A k \in 1..Len(r) : r[k] = Payloads(head[t], Wanted(t))[k]
    /\ \A k \in 2..Len(r) : Wanted(t) + k - 1 \in FilePages /\ Kind[Wanted(t) + k - 1] = "data"

(* What a header decodes out of all its payloads.                           *)
LEMMA InflateType ==
    ASSUME NEW p \in FilePages, Kind[p] = "sg", NEW r \in Seq(FilePages \X Spot), Len(r) = Span[p],
           Inflate(p, r) # Undecodable
    PROVE  Inflate(p, r) \in Seq(Byte) /\ Inflate(p, r) # NotCached
<1>1. r \in Raws(p)  BY DEF Raws
<1> QED BY <1>1, InflateAssumption

(* All of them are the payloads of the segment the thread wants.            *)
LEMMA MineIsWhole ==
    ASSUME NEW t \in Threads, NEW r \in Seq(FilePages \X Spot), Mine(t, r),
           Len(r) = Span[head[t]]
    PROVE  r = Payloads(head[t], Wanted(t))
<1> DEFINE w == Wanted(t)  h == head[t]
<1>1. Payloads(h, w) = [k \in 1..Span[h] |-> Payloads(h, w)[k]]  BY DEF Payloads
<1>2. r = [k \in 1..Len(r) |-> r[k]] /\ Len(r) = Span[h]  OBVIOUS
<1>3. \A k \in 1..Len(r) : r[k] = Payloads(h, w)[k]  BY DEF Mine
<1> HIDE DEF w, h
<1>4. r = Payloads(h, w)  BY <1>1, <1>2, <1>3
<1> QED BY <1>4 DEF w, h

LEMMA DecodesOwn ==
    ASSUME NEW t \in Threads, NEW r \in Seq(FilePages \X Spot), Mine(t, r),
           head[t] \in FilePages, Kind[head[t]] = "sg", head[t] \notin Sealed,
           Len(r) = Span[head[t]], Inflate(head[t], r) # Undecodable,
           SegIndex[Segment(t)] # NotIndexed, head[t] = Rebased(Wanted(t))
    PROVE  Served(Segment(t)) /\ Inflate(head[t], r) = Plain(Segment(t))
<1>1. head[t] = HeadPage(Segment(t))  BY DEF Wanted, HeadPage
<1>2. r = Payloads(head[t], Wanted(t))  BY MineIsWhole
<1>3. Proper(head[t], Wanted(t))  BY <1>2 DEF Proper, Mine
<1> QED BY <1>1, <1>2, <1>3 DEF Served, Plain, Wanted

LEMMA DecodeKeeps ==
    ASSUME AdapterInv, NEW t \in Threads, pc[t] \in {"readbody", "readnext"},
           NEW r \in Seq(FilePages \X Spot), Len(r) \in 1..Span[head[t]], Decode(t, r),
           UNCHANGED <<call, cache>>, FileType', Quiet(t),
           ~ raced' => ~ raced /\ Mine(t, r)
    PROVE  AdapterInv'
<1>1. LocalType /\ CallType  BY TypeParts DEF AdapterInv
<1>2. /\ ExtentAt(cursor[t]) # 0 /\ Segment(t) \in Segments /\ Wanted(t) \in Nat
      /\ SegIndex[Segment(t)] # NotIndexed
  BY FetchesSegment DEF Fetching
<1>3. /\ head[t] \in FilePages /\ Kind[head[t]] = "sg" /\ Span[head[t]] \in Nat \ {0}
      /\ ~ raced => head[t] = Rebased(Wanted(t)) /\ head[t] \notin Sealed
  BY HasHead DEF Heading
<1>4. raced => raced'  OBVIOUS
<1>5. CallType'  BY <1>1 DEF CallType
<1>6. Len(r) \in Nat  BY LenProperties
<1>7. CASE Len(r) < Span[head[t]]
  <2>1. /\ raw' = [raw EXCEPT ![t] = r] /\ Goto(t, "seeknext")
        /\ UNCHANGED <<cursor, out, head, plain, result>>
    BY <1>7 DEF Decode
  <2>2. "seeknext" \in Labels  BY DEF Labels
  <2>3. /\ LocalType' /\ Alone(t) /\ pc'[t] = "seeknext" /\ cursor' = cursor
        /\ head' = head /\ raw'[t] = r
    BY <1>1, <2>1, <2>2 DEF LocalType, Alone, Goto
  <2>4. CachePart'  BY <1>4, <2>3, CacheKept
  <2>5. Segment(t)' = Segment(t) /\ Wanted(t)' = Wanted(t)  BY <2>3 DEF Segment, Wanted
  <2>6. PlaceInv(t)'
    <3>1. Len(raw'[t]) \in 1..(Span[head'[t]] - 1)  BY <2>3, <1>3, <1>6, <1>7
    <3> QED BY <3>1, <1>2, <1>3, <2>3, <2>5 DEF PlaceInv, Fetching, Holding, Heading
  <2>7. SeekInv(t)'  BY <2>3 DEF SeekInv
  <2>8. ~ raced' => OwnInv(t)'
    BY <1>3, <2>3, <2>5 DEF OwnInv, Mine, Holding, Heading, Going
  <2>9. ThreadInv(t)'  BY <2>6, <2>7, <2>8 DEF ThreadInv
  <2> QED BY <1>4, <1>5, <2>3, <2>4, <2>9, StepKeeps
<1>8. CASE ~ (Len(r) < Span[head[t]]) /\ Inflate(head[t], r) = Undecodable
  <2>1. EndCall(t, Err("IOError"))  BY <1>8 DEF Decode, Raise
  <2> QED BY <2>1, <1>4, RaiseKeeps
<1>9. CASE ~ (Len(r) < Span[head[t]]) /\ Inflate(head[t], r) # Undecodable
  <2> DEFINE v == Inflate(head[t], r)
  <2>1. /\ plain' = [plain EXCEPT ![t] = v] /\ raw' = [raw EXCEPT ![t] = r]
        /\ Goto(t, "store") /\ UNCHANGED <<cursor, out, head, result>>
    BY <1>9 DEF Decode
  <2>2. Len(r) = Span[head[t]]  BY <1>3, <1>6, <1>9
  <2>3. v \in Seq(Byte) /\ v # NotCached  BY <2>2, <1>3, <1>9, InflateType
  <2>4. ~ raced' => Served(Segment(t)) /\ v = Plain(Segment(t))
    BY <2>2, <1>2, <1>3, <1>9, DecodesOwn
  <2> HIDE DEF v
  <2>5. "store" \in Labels  BY DEF Labels
  <2>6. /\ LocalType' /\ Alone(t) /\ pc'[t] = "store" /\ cursor' = cursor
        /\ plain'[t] = v
    BY <1>1, <2>1, <2>3, <2>5 DEF LocalType, Alone, Goto
  <2>7. CachePart'  BY <1>4, <2>6, CacheKept
  <2>8. Segment(t)' = Segment(t)  BY <2>6 DEF Segment
  <2>9. PlaceInv(t)'
    BY <1>2, <2>3, <2>6, <2>8 DEF PlaceInv, Fetching, Holding, Heading, Going
  <2>10. SeekInv(t)'  BY <2>6 DEF SeekInv
  <2>11. ~ raced' => OwnInv(t)'
    BY <2>4, <2>6, <2>8 DEF OwnInv, Holding, Heading, Going
  <2>12. ThreadInv(t)'  BY <2>9, <2>10, <2>11 DEF ThreadInv
  <2> QED BY <1>4, <1>5, <2>6, <2>7, <2>12, StepKeeps
<1> QED BY <1>7, <1>8, <1>9

LEMMA ReadBodyFile ==
    ASSUME AdapterInv, NEW t \in Threads, ReadBody(t)
    PROVE  FileType' /\ Quiet(t) /\ (~ raced' => ~ raced /\ fpos.by = t)
<1>1. fpos.page \in Nat  BY TypeParts DEF AdapterInv, FileType
<1>2. "page" \in Spot /\ "inside" \in Spot /\ NumPages \in Nat
  BY AdapterAssumption DEF Spot
<1>3. CASE AfterShort(t)  BY <1>3, AfterPageFile
<1>4. CASE fpos.page < NumPages /\ ReadUpTo(t, fpos.page + 1, "page")
  <2>1. fpos.page + 1 \in Nat /\ ~ (fpos.page + 1 > NumPages)  BY <1>1, <1>2, <1>4
  <2> QED BY <2>1, <1>2, <1>4, ReadUpToFile
<1>5. CASE fpos.page < NumPages /\ ReadUpTo(t, fpos.page, "inside")
  <2>1. ~ (fpos.page > NumPages)  BY <1>1, <1>2, <1>5
  <2> QED BY <2>1, <1>1, <1>2, <1>5, ReadUpToFile
<1> QED BY <1>3, <1>4, <1>5 DEF ReadBody

(* A payload read where the thread's own seek left the handle is its own.   *)
LEMMA BodyIsMine ==
    ASSUME AdapterInv, NEW t \in Threads, pc[t] = "readbody", fpos.page < NumPages,
           NEW r, r = << <<fpos.page, fpos.at>> >>
    PROVE  /\ r \in Seq(FilePages \X Spot) /\ Len(r) \in 1..Span[head[t]]
           /\ ~ raced /\ fpos.by = t => Mine(t, r)
<1>1. fpos.page \in FilePages /\ fpos.page \in Nat /\ fpos.at \in Spot
  BY TypeParts, AdapterAssumption DEF AdapterInv, FileType, FilePages
<1>2. Span[head[t]] \in Nat \ {0} /\ (~ raced => head[t] = Rebased(Wanted(t)))
      /\ Wanted(t) \in Nat
  BY HasHead, FetchesSegment DEF Heading, Fetching
<1>3. /\ r \in Seq(FilePages \X Spot) /\ Len(r) = 1 /\ Len(r) \in 1..Span[head[t]]
      /\ r[1] = <<fpos.page, fpos.at>>
  BY <1>1, <1>2
<1>4. ASSUME ~ raced, fpos.by = t PROVE Mine(t, r)
  <2>1. fpos.page = Wanted(t) /\ fpos.at = "payload"
    BY <1>4 DEF AdapterInv, ThreadInv, SeekInv
  <2>2. Wanted(t) \in FilePages  BY <2>1, <1>1
  <2>3. Payloads(head[t], Wanted(t))[1] = <<Wanted(t), "payload">>  BY <1>2 DEF Payloads
  <2>4. \A k \in 1..Len(r) : r[k] = Payloads(head[t], Wanted(t))[k]  BY <1>3, <2>1, <2>3
  <2>5. 2..Len(r) = {}  BY <1>3
  <2> QED BY <2>2, <2>4, <2>5 DEF Mine
<1> QED BY <1>3, <1>4

LEMMA ReadBodyKeeps == ASSUME AdapterInv, NEW t \in Threads, ReadBody(t) PROVE AdapterInv'
<1>1. pc[t] = "readbody" /\ UNCHANGED <<call, cache>>  BY DEF ReadBody
<1>2. FileType' /\ Quiet(t) /\ (~ raced' => ~ raced /\ fpos.by = t)  BY ReadBodyFile
<1>3. CASE Raise(t, "IOError")
  <2>1. EndCall(t, Err("IOError")) /\ (raced => raced')  BY <1>2, <1>3 DEF Raise
  <2> QED BY <2>1, <1>1, <1>2, RaiseKeeps
<1>4. CASE fpos.page < NumPages /\ Decode(t, << <<fpos.page, fpos.at>> >>)
  <2>1. PICK r : r = << <<fpos.page, fpos.at>> >>  OBVIOUS
  <2>2. /\ r \in Seq(FilePages \X Spot) /\ Len(r) \in 1..Span[head[t]]
        /\ ~ raced' => ~ raced /\ Mine(t, r)
    BY <2>1, <1>1, <1>2, <1>4, BodyIsMine
  <2>3. Decode(t, r)  BY <2>1, <1>4
  <2> QED BY <2>2, <2>3, <1>1, <1>2, DecodeKeeps
<1> QED BY <1>3, <1>4 DEF ReadBody

LEMMA SeekNextKeeps == ASSUME AdapterInv, NEW t \in Threads, SeekNext(t) PROVE AdapterInv'
<1>1. LocalType /\ CallType  BY TypeParts DEF AdapterInv
<1>2. pc[t] = "seeknext" /\ UNCHANGED <<call, cache>>  BY DEF SeekNext
<1>3. ExtentAt(cursor[t]) # 0 /\ Wanted(t) \in Nat /\ SegIndex[Segment(t)] # NotIndexed
  BY <1>2, FetchesSegment DEF Fetching
<1>4. ThreadInv(t)  BY DEF AdapterInv
<1>5. NextPage(t) \in Nat
  <2>1. raw[t] \in Seq(FilePages \X Spot)  BY <1>1 DEF LocalType
  <2>2. Len(raw[t]) \in Nat  BY <2>1, LenProperties
  <2> QED BY <2>2, <1>3 DEF NextPage
<1>6. CASE NextPage(t) >= NumPages
  <2>1. EndCall(t, Err("IOError")) /\ UNCHANGED file  BY <1>6 DEF SeekNext, Raise
  <2> QED BY <2>1, <1>2, RaiseUntouched
<1>7. CASE ~ (NextPage(t) >= NumPages)
  <2>1. /\ Goto(t, "readnext") /\ SeekTo(t, NextPage(t), "page")
        /\ UNCHANGED <<cursor, out, local, result>>
    BY <1>7 DEF SeekNext
  <2>2. "readnext" \in Labels /\ "page" \in Spot  BY DEF Labels, Spot
  <2>3. /\ LocalType' /\ Alone(t) /\ pc'[t] = "readnext" /\ cursor' = cursor
        /\ head' = head /\ raw' = raw
    BY <1>1, <2>1, <2>2 DEF LocalType, Alone, Goto, local
  <2>4. CallType'  BY <1>1, <1>2 DEF CallType
  <2>5. /\ FileType' /\ Quiet(t) /\ raced' = raced
        /\ fpos'.page = NextPage(t) /\ fpos'.at = "page"
    BY <2>1, <2>2, <1>5, <1>7, AdapterAssumption, SeekToFile
  <2>6. CachePart'  BY <1>2, <2>3, <2>5, CacheKept
  <2>7. Segment(t)' = Segment(t) /\ Wanted(t)' = Wanted(t) /\ NextPage(t)' = NextPage(t)
    BY <2>3 DEF Segment, Wanted, NextPage
  <2>8. ThreadInv(t)'
    <3>1. PlaceInv(t)'
      BY <1>2, <1>4, <2>3, <2>7
         DEF ThreadInv, PlaceInv, Fetching, Holding, Heading, Going
    <3>2. SeekInv(t)'  BY <2>3, <2>5, <2>7 DEF SeekInv
    <3>3. ~ raced' => OwnInv(t)'
      BY <1>2, <1>4, <2>3, <2>5, <2>7 DEF ThreadInv, OwnInv, Holding, Heading, Going
    <3> QED BY <3>1, <3>2, <3>3 DEF ThreadInv
  <2> QED BY <2>3, <2>4, <2>5, <2>6, <2>8, StepKeeps
<1> QED BY <1>6, <1>7

LEMMA NextIsMine ==
    ASSUME AdapterInv, NEW t \in Threads, pc[t] = "readnext", PageRead("data"),
           NEW r, r = Append(raw[t], <<fpos.page, "page">>)
    PROVE  /\ r \in Seq(FilePages \X Spot) /\ Len(r) \in 1..Span[head[t]]
           /\ ~ raced /\ fpos.by = t => Mine(t, r)
<1> DEFINE q == raw[t]  e == <<fpos.page, "page">>  w == Wanted(t)  h == head[t]
<1>1. LocalType /\ FileType /\ ThreadInv(t)  BY TypeParts DEF AdapterInv
<1>2. fpos.page \in FilePages /\ fpos.page \in Nat /\ Kind[fpos.page] = "data"
  <2>1. fpos.page \in Nat  BY <1>1 DEF FileType
  <2>2. fpos.at = "page" /\ Kind[fpos.page] = "data" /\ WholePage  BY DEF PageRead
  <2>3. fpos.page + 1 <= NumPages  BY <2>2 DEF WholePage
  <2> QED BY <2>1, <2>2, <2>3, AdapterAssumption DEF FilePages
<1>3. e \in FilePages \X Spot  BY <1>2 DEF Spot
<1>4. q \in Seq(FilePages \X Spot) /\ Len(q) \in 1..(Span[h] - 1) /\ Len(q) \in Nat
  BY <1>1, LenProperties DEF ThreadInv, PlaceInv, Going, LocalType
<1>5. Span[h] \in Nat \ {0} /\ w \in Nat
  BY HasHead, FetchesSegment DEF Heading, Fetching
<1>6. r = Append(q, e)  OBVIOUS
<1>7. ~ raced /\ fpos.by = t =>
        /\ fpos.page = w + Len(q) /\ w \in FilePages
        /\ \A k \in 1..Len(q) : q[k] = Payloads(h, w)[k]
        /\ \A k \in 2..Len(q) : w + k - 1 \in FilePages /\ Kind[w + k - 1] = "data"
  BY <1>1 DEF ThreadInv, SeekInv, OwnInv, Going, NextPage
<1> HIDE DEF q, e, w, h
<1>8. /\ r \in Seq(FilePages \X Spot) /\ Len(r) = Len(q) + 1
      /\ r[Len(q) + 1] = e /\ \A k \in 1..Len(q) : r[k] = q[k]
  <2> DEFINE a == Append(q, e)
  <2>1. /\ a \in Seq(FilePages \X Spot) /\ Len(a) = Len(q) + 1
        /\ a[Len(q) + 1] = e /\ \A k \in 1..Len(q) : a[k] = q[k]
    BY <1>3, <1>4, AppendProperties
  <2>2. r = a  BY <1>6
  <2> HIDE DEF a
  <2> QED BY <2>1, <2>2, Zenon
<1>9. Len(r) \in 1..Span[h]  BY <1>4, <1>5, <1>8
<1>10. ASSUME ~ raced, fpos.by = t PROVE Mine(t, r)
  <2>1. w + (Len(q) + 1) - 1 = fpos.page  BY <1>4, <1>5, <1>7, <1>10
  <2>2. Payloads(h, w)[Len(q) + 1] = e
    BY <1>4, <1>5, <1>7, <1>10, <2>1 DEF Payloads, e
  <2>3. \A k \in 1..Len(r) : r[k] = Payloads(h, w)[k]
    <3> SUFFICES ASSUME NEW k \in 1..Len(r) PROVE r[k] = Payloads(h, w)[k]  OBVIOUS
    <3>1. CASE k = Len(q) + 1  BY <3>1, <1>8, <2>2
    <3>2. CASE k # Len(q) + 1
      <4>1. k \in 1..Len(q)  BY <3>2, <1>4, <1>8
      <4> QED BY <4>1, <1>7, <1>8, <1>10
    <3> QED BY <3>1, <3>2
  <2>4. \A k \in 2..Len(r) : w + k - 1 \in FilePages /\ Kind[w + k - 1] = "data"
    <3> SUFFICES ASSUME NEW k \in 2..Len(r)
                 PROVE  w + k - 1 \in FilePages /\ Kind[w + k - 1] = "data"
      OBVIOUS
    <3>1. CASE k = Len(q) + 1  BY <3>1, <2>1, <1>2
    <3>2. CASE k # Len(q) + 1
      <4>1. k \in 2..Len(q)  BY <3>2, <1>4, <1>8
      <4> QED BY <4>1, <1>7, <1>10
    <3> QED BY <3>1, <3>2
  <2> QED BY <1>7, <1>10, <2>3, <2>4 DEF Mine, w, h
<1> QED BY <1>8, <1>9, <1>10 DEF h

LEMMA ReadNextKeeps == ASSUME AdapterInv, NEW t \in Threads, ReadNext(t) PROVE AdapterInv'
<1>1. pc[t] = "readnext" /\ AfterPage(t) /\ UNCHANGED <<call, cache>>  BY DEF ReadNext
<1>2. FileType' /\ Quiet(t) /\ (~ raced' => ~ raced /\ fpos.by = t)
  BY <1>1, AfterPageFile
<1>3. CASE ~ PageRead("data")
  <2>1. EndCall(t, Err("IOError"))  BY <1>3 DEF ReadNext, Raise
  <2> QED BY <2>1, <1>1, <1>2, RaiseKeeps
<1>4. CASE PageRead("data")
  <2>1. PICK r : r = Append(raw[t], <<fpos.page, "page">>)  OBVIOUS
  <2>2. /\ r \in Seq(FilePages \X Spot) /\ Len(r) \in 1..Span[head[t]]
        /\ ~ raced' => ~ raced /\ Mine(t, r)
    BY <2>1, <1>1, <1>2, <1>4, NextIsMine
  <2>3. Decode(t, r)  BY <2>1, <1>4 DEF ReadNext
  <2> QED BY <2>2, <2>3, <1>1, <1>2, DecodeKeeps
<1> QED BY <1>3, <1>4

-----------------------------------------------------------------------------
(* The cache, whatever the threads do *)

LEMMA AdapterKeeps == AdapterInv /\ [AdapterNext]_adapterVars => AdapterInv'
<1> SUFFICES ASSUME AdapterInv, [AdapterNext]_adapterVars PROVE AdapterInv'  OBVIOUS
<1>1. CASE UNCHANGED adapterVars
  <2>1. /\ pc' = pc /\ call' = call /\ cursor' = cursor /\ out' = out /\ head' = head
        /\ raw' = raw /\ plain' = plain /\ fpos' = fpos /\ raced' = raced
        /\ order' = order /\ data' = data /\ result' = result
    BY <1>1 DEF adapterVars, local, cache, file
  <2>2. \A t : ThreadInv(t)' <=> ThreadInv(t)
    BY <2>1 DEF ThreadInv, PlaceInv, SeekInv, OwnInv, Segment, Wanted, NextPage
  <2>3. AdapterTypeOK'  BY <2>1 DEF AdapterInv, AdapterTypeOK
  <2>4. CacheBounded' /\ CacheSound'  BY <2>1 DEF AdapterInv, CacheBounded, CacheSound
  <2> QED BY <2>2, <2>3, <2>4 DEF AdapterInv
<1>2. CASE AdapterNext
  <2>1. PICK t \in Threads : Begin(t) \/ Step(t)  BY <1>2 DEF AdapterNext
  <2>2. CASE Begin(t)     BY <2>2, BeginKeeps
  <2>3. CASE Enter(t)     BY <2>3, EnterKeeps
  <2>4. CASE FillHole(t)  BY <2>4, FillHoleKeeps
  <2>5. CASE Get(t)       BY <2>5, GetKeeps
  <2>6. CASE Touch(t)     BY <2>6, TouchKeeps
  <2>7. CASE Miss(t)      BY <2>7, MissKeeps
  <2>8. CASE SeekHead(t)  BY <2>8, SeekHeadKeeps
  <2>9. CASE ReadHead(t)  BY <2>9, ReadHeadKeeps
  <2>10. CASE SeekBody(t) BY <2>10, SeekBodyKeeps
  <2>11. CASE ReadBody(t) BY <2>11, ReadBodyKeeps
  <2>12. CASE SeekNext(t) BY <2>12, SeekNextKeeps
  <2>13. CASE ReadNext(t) BY <2>13, ReadNextKeeps
  <2>14. CASE Store(t)    BY <2>14, StoreKeeps
  <2>15. CASE Check(t)    BY <2>15, CheckKeeps
  <2>16. CASE Pop(t)      BY <2>16, PopKeeps
  <2>17. CASE Return(t)   BY <2>17, ReturnKeeps
  <2> QED BY <2>1, <2>2, <2>3, <2>4, <2>5, <2>6, <2>7, <2>8, <2>9, <2>10, <2>11, <2>12,
             <2>13, <2>14, <2>15, <2>16, <2>17 DEF Step
<1> QED BY <1>1, <1>2

(* Whatever the threads do, the segment cache keeps its types, never grows  *)
(* past its limit by more than one segment per thread between its store and *)
(* its eviction, and, as long as no read began where another thread had     *)
(* seeked, only holds plaintexts of the segments they are filed under.      *)
THEOREM AdapterCacheInv == AdapterSpec => []CacheInv
<1>1. AdapterInit => AdapterInv  BY AdapterInvInit
<1>2. AdapterInv /\ [AdapterNext]_adapterVars => AdapterInv'  BY AdapterKeeps
<1>3. AdapterInv => CacheInv  BY DEF AdapterInv, CacheInv
<1> QED BY <1>1, <1>2, <1>3, PTL DEF AdapterSpec

-----------------------------------------------------------------------------
(* The image the extents describe *)

(* The extent in force at x is the one bisect_right finds, if it reaches x. *)
LEMMA InForceIsFound ==
    ASSUME NEW x \in Int, NEW i \in 1..Len(Extents)
    PROVE  InForce(i, x) <=> i = ExtentAt(x) /\ x < ExtentEnd(i)
<1>1. /\ ExtentAt(x) \in 0..Len(Extents)
      /\ \A j \in 1..Len(Extents) : Extents[j].off <= x <=> j <= ExtentAt(x)
  BY ExtentAtCuts
<1>2. Len(Extents) \in Nat  BY ExtentTypes
<1>3. (\A j \in 1..Len(Extents) : j > i => ~ (Extents[j].off <= x)) <=> ExtentAt(x) <= i
  <2>1. CASE ExtentAt(x) <= i  BY <2>1, <1>1, <1>2
  <2>2. CASE ~ (ExtentAt(x) <= i)
    <3>1. ExtentAt(x) \in 1..Len(Extents) /\ ExtentAt(x) > i  BY <2>2, <1>1, <1>2
    <3>2. Extents[ExtentAt(x)].off <= x  BY <3>1, <1>1
    <3> QED BY <3>1, <3>2, <2>2
  <2> QED BY <2>1, <2>2
<1>4. Extents[i].off <= x <=> i <= ExtentAt(x)  BY <1>1
<1> QED BY <1>1, <1>2, <1>3, <1>4 DEF InForce, Reaches, ExtentEnd

LEMMA ImageInExtent ==
    ASSUME NEW x \in Int, ~ InHole(x)
    PROVE  /\ InForce(ExtentAt(x), x) /\ ExtentAt(x) \in 1..Len(Extents)
           /\ ImageByte(x) = SegmentByte(ExtentAt(x), x)
<1>1. ExtentAt(x) \in 1..Len(Extents) /\ ExtentEnd(ExtentAt(x)) \in Nat
  BY ExtentUnder DEF InHole
<1>2. x < ExtentEnd(ExtentAt(x))  BY <1>1 DEF InHole
<1>3. InForce(ExtentAt(x), x)  BY <1>1, <1>2, InForceIsFound
<1>4. (CHOOSE i \in 1..Len(Extents) : InForce(i, x)) = ExtentAt(x)
  BY <1>1, <1>3, InForceIsFound
<1> QED BY <1>1, <1>3, <1>4 DEF ImageByte

LEMMA ImageInHole ==
    ASSUME NEW x \in Int, InHole(x)
    PROVE  ImageByte(x) = Zero
<1>1. ASSUME NEW i \in 1..Len(Extents) PROVE ~ InForce(i, x)
  <2>1. CASE i # ExtentAt(x)  BY <2>1, InForceIsFound
  <2>2. CASE i = ExtentAt(x)
    <3>1. ExtentAt(x) # 0  BY <2>2
    <3>2. ExtentEnd(i) \in Nat /\ x >= ExtentEnd(i)  BY <3>1, <2>2, ExtentUnder DEF InHole
    <3> QED BY <3>2, InForceIsFound
  <2> QED BY <2>1, <2>2
<1> QED BY <1>1 DEF ImageByte

(* The extent under x is the one under every byte it still covers.          *)
LEMMA SameExtent ==
    ASSUME NEW x \in Int, ExtentAt(x) # 0,
           NEW y \in Int, x <= y, y < ExtentEnd(ExtentAt(x))
    PROVE  ExtentAt(y) = ExtentAt(x) /\ ~ InHole(y)
<1> DEFINE i == ExtentAt(x)  k == ExtentAt(y)
<1>1. /\ i \in 1..Len(Extents) /\ Extents[i].off <= x /\ Len(Extents) \in Nat
      /\ Extents[i].off \in Nat /\ ExtentEnd(i) \in Nat
  BY ExtentUnder, ExtentTypes
<1>2. /\ k \in 0..Len(Extents)
      /\ \A j \in 1..Len(Extents) : Extents[j].off <= y <=> j <= k
  BY ExtentAtCuts
<1>3. \A j \in 1..Len(Extents) : Extents[j].off <= x <=> j <= i  BY ExtentAtCuts
<1> HIDE DEF i, k
<1>4. i <= k  BY <1>1, <1>2
<1>5. ~ (i < k)
  <2> SUFFICES ASSUME i < k PROVE FALSE  OBVIOUS
  <2>1. k \in 1..Len(Extents) /\ Extents[k].off \in Nat  BY <1>1, <1>2, ExtentTypes
  <2>2. Extents[k].off <= y /\ ~ (Extents[k].off <= x)  BY <2>1, <1>1, <1>2, <1>3
  <2>3. ExtentEnd(i) <= Extents[k].off
    BY <1>1, <2>1, <2>2, ExtentsAssumption DEF ExtentEnd
  <2> QED BY <1>1, <2>1, <2>2, <2>3 DEF i
<1>6. k = i  BY <1>1, <1>2, <1>4, <1>5
<1> QED BY <1>1, <1>6 DEF InHole, i, k

(* The zeros of a hole end at the next extent or with the request.          *)
LEMMA HoleEnds ==
    ASSUME NEW x \in Int, InHole(x), NEW e \in Int, x < e,
           Extents # << >> => ExtentAt(x) # 0
    PROVE  /\ HoleEnd(x, e) \in Int /\ x < HoleEnd(x, e) /\ HoleEnd(x, e) <= e
           /\ \A y \in x..(HoleEnd(x, e) - 1) : InHole(y)
<1> DEFINE i == ExtentAt(x)  n == Len(Extents)
<1>1. n \in Nat /\ i \in 0..n  BY ExtentAtCuts, ExtentTypes
<1>2. \A j \in 1..n : Extents[j].off <= x <=> j <= i  BY ExtentAtCuts
<1>3. CASE i = 0
  <2>1. n = 0  BY <1>3
  <2>2. HoleEnd(x, e) = e  BY <1>3 DEF HoleEnd
  <2>3. ASSUME NEW y \in Int PROVE InHole(y)
    <3>1. ExtentAt(y) \in 0..n  BY ExtentAtCuts
    <3> QED BY <3>1, <2>1 DEF InHole
  <2> QED BY <2>2, <2>3
<1>4. CASE i # 0
  <2>1. /\ i \in 1..n /\ Extents[i].off <= x /\ ExtentEnd(i) \in Nat /\ x >= ExtentEnd(i)
    BY <1>4, ExtentUnder DEF InHole
  <2>2. CASE i >= n
    <3>1. HoleEnd(x, e) = e  BY <2>2 DEF HoleEnd
    <3>2. ASSUME NEW y \in Int, x <= y PROVE InHole(y)
      <4>1. /\ ExtentAt(y) \in 0..n
            /\ \A j \in 1..n : Extents[j].off <= y <=> j <= ExtentAt(y)
        BY ExtentAtCuts
      <4>2. Extents[i].off <= y  BY <2>1, <3>2, ExtentTypes
      <4>3. ExtentAt(y) = i  BY <4>1, <4>2, <2>1, <2>2, <1>1
      <4> QED BY <4>3, <2>1, <3>2 DEF InHole
    <3> QED BY <3>1, <3>2
  <2>3. CASE ~ (i >= n)
    <3> DEFINE o == Extents[i + 1].off
    <3>1. i + 1 \in 1..n /\ o \in Nat  BY <2>1, <2>3, <1>1, ExtentTypes
    <3>2. HoleEnd(x, e) = Nearer(e, o)  BY <2>3, <1>4 DEF HoleEnd
    <3>3. x < o  BY <3>1, <1>1, <1>2
    <3>4. ASSUME NEW y \in Int, x <= y, y < o PROVE InHole(y)
      <4>1. /\ ExtentAt(y) \in 0..n
            /\ \A j \in 1..n : Extents[j].off <= y <=> j <= ExtentAt(y)
        BY ExtentAtCuts
      <4>2. Extents[i].off <= y  BY <2>1, <3>4, ExtentTypes
      <4>3. i <= ExtentAt(y) /\ ~ (i + 1 <= ExtentAt(y))  BY <4>1, <4>2, <2>1, <3>1, <3>4
      <4>4. ExtentAt(y) = i  BY <4>1, <4>3, <1>1
      <4> QED BY <4>4, <2>1, <3>4 DEF InHole
    <3> HIDE DEF o
    <3> QED BY <3>1, <3>2, <3>3, <3>4 DEF Nearer
  <2> QED BY <2>2, <2>3
<1> QED BY <1>3, <1>4

-----------------------------------------------------------------------------
(* What a call has put together *)

Asked(t) == call[t].off..(EndOf(call[t]) - 1)

(* The calls the property is about.                                         *)
Fits(t) == /\ call[t].off >= 0 /\ call[t].len > 0
           /\ Extents # << >> => call[t].off >= Extents[1].off
           /\ \A x \in Asked(t) : Sound(x)

Away == {"idle", "enter", "done"}

(* The bytes so far are those of the image up to the cursor.                *)
SoFar(t) == /\ cursor[t] \in call[t].off..EndOf(call[t])
            /\ Len(out[t]) = cursor[t] - call[t].off
            /\ \A k \in 1..Len(out[t]) : out[t][k] = ImageByte(call[t].off + k - 1)

ImageInv(t) ==
    /\ pc[t] \in Away => out[t] = << >>
    /\ ~ raced /\ Fits(t) =>
        /\ pc[t] \notin Away => SoFar(t)
        /\ pc[t] \in Fetching \cup Holding => /\ cursor[t] < EndOf(call[t])
                                              /\ ~ InHole(cursor[t])
        /\ pc[t] = "done" => IsImage(t)

CallKept(t) == call'[t] = call[t] /\ (raced => raced')

LEMMA FitsKept ==
    ASSUME NEW t, CallKept(t), ~ raced', Fits(t)'
    PROVE  ~ raced /\ Fits(t)
  BY DEF CallKept, Fits, Asked, EndOf

(* The segment under the cursor of a call over sound extents.               *)
LEMMA AtSound ==
    ASSUME AdapterInv, NEW t \in Threads, Fits(t), SoFar(t),
           cursor[t] < EndOf(call[t]), ~ InHole(cursor[t])
    PROVE  /\ Readable(Segment(t)) /\ Proper(Wanted(t), Wanted(t)) /\ Wanted(t) \in FilePages
           /\ Rebased(Wanted(t)) = Wanted(t) /\ SegIndex[Segment(t)] # NotIndexed
<1>1. call[t].off \in Int /\ EndOf(call[t]) \in Int /\ cursor[t] \in Int
  BY TypeParts DEF AdapterInv, CallType, LocalType, EndOf
<1>2. Sound(cursor[t])  BY <1>1 DEF Fits, Asked, SoFar
<1>3. InForce(ExtentAt(cursor[t]), cursor[t]) /\ ExtentAt(cursor[t]) \in 1..Len(Extents)
  BY <1>1, ImageInExtent
<1>4. Readable(Segment(t))  BY <1>2, <1>3 DEF Sound, Segment
<1>5. /\ Proper(Wanted(t), Wanted(t)) /\ SegIndex[Segment(t)] # NotIndexed
      /\ Rebased(Wanted(t)) = Wanted(t)
  BY <1>4 DEF Readable, Served, HeadPage, Wanted
<1>6. Wanted(t) \in FilePages  BY <1>5 DEF Proper
<1> QED BY <1>4, <1>5, <1>6

LEMMA FetchingSound ==
    ASSUME AdapterInv, NEW t \in Threads, ImageInv(t), ~ raced, Fits(t),
           pc[t] \in Fetching \cup Holding
    PROVE  /\ Readable(Segment(t)) /\ Proper(Wanted(t), Wanted(t)) /\ Wanted(t) \in FilePages
           /\ Rebased(Wanted(t)) = Wanted(t) /\ SegIndex[Segment(t)] # NotIndexed
<1>1. pc[t] \notin Away  BY DEF Fetching, Holding, Away
<1>2. SoFar(t) /\ cursor[t] < EndOf(call[t]) /\ ~ InHole(cursor[t])
  BY <1>1 DEF ImageInv
<1> QED BY <1>2, AtSound

(* A call that raised: KeyError, or it was none the property is about.      *)
LEMMA RaisedImage ==
    ASSUME AdapterInv, NEW t \in Threads, NEW e, EndCall(t, Err(e)), CallKept(t),
           e = "KeyError" \/ ~ (~ raced' /\ Fits(t)')
    PROVE  ImageInv(t)'
<1>1. LocalType  BY TypeParts DEF AdapterInv
<1>2. pc'[t] = "done" /\ out'[t] = << >> /\ result'[t] = Err(e)
  BY <1>1 DEF EndCall, LocalType
<1> QED BY <1>2 DEF ImageInv, Away, Fetching, Holding, IsImage

(* A step that only moves on at the same segment.                           *)
LEMMA MovedImage ==
    ASSUME NEW t \in Threads, ImageInv(t), pc[t] \in Fetching \cup Holding,
           pc'[t] \in Fetching \cup Holding, CallKept(t),
           cursor'[t] = cursor[t], out'[t] = out[t]
    PROVE  ImageInv(t)'
<1>1. pc[t] \notin Away /\ pc'[t] \notin Away /\ pc'[t] # "done"
  BY DEF Fetching, Holding, Away
<1>2. SoFar(t) => SoFar(t)'  BY DEF SoFar, CallKept, EndOf
<1>3. ASSUME ~ raced', Fits(t)'
      PROVE  SoFar(t)' /\ cursor'[t] < EndOf(call[t])' /\ ~ InHole(cursor[t])'
  BY <1>1, <1>2, <1>3, FitsKept DEF ImageInv, CallKept, EndOf, InHole
<1> QED BY <1>1, <1>3 DEF ImageInv

(* The bytes c, of the image from the cursor on, are added.                 *)
LEMMA SoFarExtended ==
    ASSUME AdapterInv, NEW t \in Threads, SoFar(t), NEW c \in Seq(Byte), NEW n \in Int,
           cursor[t] <= n, n <= EndOf(call[t]), Len(c) = n - cursor[t],
           \A k \in 1..Len(c) : c[k] = ImageByte(cursor[t] + k - 1),
           out'[t] = out[t] \o c, cursor'[t] = n, call'[t] = call[t]
    PROVE  SoFar(t)'
<1> DEFINE o == call[t].off  x == cursor[t]  q == out[t]  z == q \o c
<1>1. o \in Int /\ EndOf(call[t]) \in Int /\ x \in Int /\ q \in Seq(Byte)
  BY TypeParts DEF AdapterInv, CallType, LocalType, EndOf
<1>2. /\ x \in o..EndOf(call[t]) /\ Len(q) = x - o
      /\ \A k \in 1..Len(q) : q[k] = ImageByte(o + k - 1)
  BY DEF SoFar
<1>3. Len(c) \in Nat /\ Len(q) \in Nat  BY <1>1, LenProperties
<1> HIDE DEF o, x, q
<1>4. /\ Len(z) = Len(q) + Len(c)
      /\ \A k \in 1..Len(z) : z[k] = IF k <= Len(q) THEN q[k] ELSE c[k - Len(q)]
  BY <1>1, ConcatProperties
<1>5. Len(z) = n - o  BY <1>1, <1>2, <1>3, <1>4 DEF x
<1>6. ASSUME NEW k \in 1..Len(z) PROVE z[k] = ImageByte(o + k - 1)
  <2>1. CASE k <= Len(q)
    <3>1. k \in 1..Len(q)  BY <2>1, <1>3, <1>4
    <3> QED BY <3>1, <2>1, <1>2, <1>4
  <2>2. CASE ~ (k <= Len(q))
    <3>1. k - Len(q) \in 1..Len(c)  BY <2>2, <1>3, <1>4
    <3>2. z[k] = ImageByte(x + (k - Len(q)) - 1)  BY <3>1, <2>2, <1>4 DEF x
    <3>3. x + (k - Len(q)) - 1 = o + k - 1  BY <1>1, <1>2, <1>3, <1>4
    <3> QED BY <3>2, <3>3
  <2> QED BY <2>1, <2>2
<1>7. n \in o..EndOf(call[t])  BY <1>1, <1>2 DEF x
<1>8. out'[t] = z /\ cursor'[t] = n /\ call'[t].off = o /\ EndOf(call[t])' = EndOf(call[t])
  BY DEF EndOf, o, q
<1> HIDE DEF z
<1> QED BY <1>5, <1>6, <1>7, <1>8 DEF SoFar

LEMMA PaddedIs ==
    ASSUME NEW v, NEW a \in Int, NEW b \in Int, a <= b
    PROVE  /\ Len(Padded(v, a, b)) = b - a
           /\ \A k \in 1..(b - a) : Padded(v, a, b)[k] = IF a + k <= Len(v) THEN v[a + k]
                                                         ELSE Zero
<1>1. b - a \in Nat  OBVIOUS
<1> QED BY <1>1 DEF Padded

(* c is the image from byte x up to byte e. *)
IsImageOf(c, x, e) == /\ c \in Seq(Byte) /\ Len(c) = e - x
                      /\ \A k \in 1..(e - x) : c[k] = ImageByte(x + k - 1)

(* What the extent under byte x contributes up to byte e is the image.      *)
LEMMA CopyBytes ==
    ASSUME NEW x \in Int, NEW e \in Int, x < e,
           ExtentAt(x) # 0, ExtentEnd(ExtentAt(x)) \in Nat, e <= ExtentEnd(ExtentAt(x)),
           NEW a \in Nat, Extents[ExtentAt(x)].off = x - a, NEW b \in Int, b - a = e - x,
           NEW v \in Seq(Byte), v = Plain(Extents[ExtentAt(x)].seg)
    PROVE  IsImageOf(Padded(v, a, b), x, e)
<1> DEFINE i == ExtentAt(x)  c == Padded(v, a, b)
<1> HIDE DEF i, c
<1>4. a <= b  OBVIOUS
<1>6. c \in Seq(Byte)  BY PaddedType DEF c
<1>7. /\ Len(c) = b - a
      /\ \A k \in 1..(b - a) : c[k] = IF a + k <= Len(v) THEN v[a + k] ELSE Zero
  <2>1. a \in Int  OBVIOUS
  <2> QED BY <2>1, <1>4, PaddedIs, Zenon DEF c
<1>8. ASSUME NEW k \in 1..(e - x) PROVE c[k] = ImageByte(x + k - 1)
  <2>1. k \in 1..(b - a)  OBVIOUS
  <2>2. PICK y \in Int : y = x + k - 1  BY <2>1
  <2>3. /\ x <= y /\ y < ExtentEnd(i) /\ Len(v) \in Nat
        /\ y - Extents[i].off = a + k - 1
    BY <2>1, <2>2, LenProperties DEF i
  <2>4. ExtentAt(y) = i /\ ~ InHole(y)  BY <2>3, SameExtent DEF i
  <2>5. ImageByte(y) = SegmentByte(i, y)  BY <2>4, ImageInExtent
  <2>6. SegmentByte(i, y) = IF a + k - 1 < Len(v) THEN v[(a + k - 1) + 1] ELSE Zero
    BY <2>3, Zenon DEF SegmentByte, i
  <2>7. (a + k - 1) + 1 = a + k /\ (a + k - 1 < Len(v) <=> a + k <= Len(v))
    BY <2>1, <2>3
  <2>8. SegmentByte(i, y) = IF a + k <= Len(v) THEN v[a + k] ELSE Zero
    BY <2>6, <2>7, Zenon
  <2> QED BY <2>1, <2>2, <2>5, <2>8, <1>7, Zenon
<1> QED BY <1>6, <1>7, <1>8 DEF c, IsImageOf

(* What the extent under the cursor contributes is the image.               *)
LEMMA CopyImage ==
    ASSUME AdapterInv, NEW t \in Threads, ImageInv(t), pc[t] \in Holding,
           CopyFrom(t, plain[t]), CallKept(t)
    PROVE  ImageInv(t)'
<1> DEFINE x == cursor[t]  i == ExtentAt(x)  o == Extents[i].off
           e == Nearer(EndOf(call[t]), ExtentEnd(i))
           c == Padded(plain[t], x - o, e - o)
<1>1. LocalType /\ CallType  BY TypeParts DEF AdapterInv
<1>2. pc[t] \notin Away /\ pc[t] \in Fetching \cup Holding  BY DEF Holding, Away
<1>3. /\ pc' = [pc EXCEPT ![t] = "loop"] /\ cursor' = [cursor EXCEPT ![t] = e]
      /\ out' = [out EXCEPT ![t] = out[t] \o c]
  BY DEF CopyFrom, Goto
<1>4. pc'[t] = "loop" /\ cursor'[t] = e /\ out'[t] = out[t] \o c
  <2> HIDE DEF c, e
  <2> QED BY <1>1, <1>3 DEF LocalType
<1>5. ASSUME ~ raced', Fits(t)' PROVE SoFar(t)'
  <2>1. ~ raced /\ Fits(t)  BY <1>5, FitsKept
  <2>2. SoFar(t) /\ x < EndOf(call[t]) /\ ~ InHole(x)  BY <1>2, <2>1 DEF ImageInv
  <2>3. plain[t] = Plain(Extents[i].seg) /\ plain[t] \in Seq(Byte)
    BY <2>1, HoldsSegment DEF Segment
  <2>4. x \in Int /\ EndOf(call[t]) \in Int
    BY <1>1 DEF LocalType, CallType, EndOf
  <2>5. ExtentEnd(i) \in Nat /\ x < ExtentEnd(i)
    <3>1. i # 0 /\ ~ (x >= ExtentEnd(i))  BY <2>2 DEF InHole
    <3> QED BY <3>1, <2>4, ExtentUnder
  <2>6. e \in Int /\ x < e /\ e <= EndOf(call[t]) /\ e <= ExtentEnd(i)
    BY <2>2, <2>4, <2>5 DEF Nearer
  <2>7. /\ c \in Seq(Byte) /\ Len(c) = e - x
        /\ \A k \in 1..Len(c) : c[k] = ImageByte(x + k - 1)
    <3>1. i \in 1..Len(Extents) /\ i # 0 /\ o \in Nat /\ o <= x
      BY <2>2, <2>4, ExtentUnder DEF InHole
    <3>2. /\ x - o \in Nat /\ e - o \in Int /\ o = x - (x - o)
          /\ (e - o) - (x - o) = e - x
      <4> HIDE DEF e, o, x
      <4> QED BY <3>1, <2>4, <2>6
    <3>3. /\ i = ExtentAt(x) /\ o = Extents[i].off /\ c = Padded(plain[t], x - o, e - o)
      OBVIOUS
    <3> HIDE DEF x, i, o, e, c
    <3>4. PICK a \in Nat : a = x - o  BY <3>2
    <3>5. PICK b \in Int : b = e - o  BY <3>2
    <3>6. Extents[ExtentAt(x)].off = x - a /\ b - a = e - x  BY <3>2, <3>3, <3>4, <3>5
    <3>7. c = Padded(plain[t], a, b)  BY <3>3, <3>4, <3>5
    <3>8. x \in Int /\ e \in Int /\ x < e /\ ExtentAt(x) # 0  BY <3>1, <3>3, <2>4, <2>6
    <3>9. ExtentEnd(ExtentAt(x)) \in Nat /\ e <= ExtentEnd(ExtentAt(x))
      BY <3>3, <2>5, <2>6
    <3>10. plain[t] \in Seq(Byte) /\ plain[t] = Plain(Extents[ExtentAt(x)].seg)
      BY <3>3, <2>3
    <3>11. IsImageOf(c, x, e)
      <4>1. PICK v \in Seq(Byte) : v = plain[t]  BY <3>10
      <4>2. v = Plain(Extents[ExtentAt(x)].seg)  BY <3>10, <4>1
      <4>3. IsImageOf(Padded(v, a, b), x, e)  BY <3>6, <3>8, <3>9, <4>2, CopyBytes, Zenon
      <4> QED BY <3>7, <4>1, <4>3
    <3> QED BY <3>11 DEF IsImageOf
  <2> HIDE DEF c, e
  <2>8. call'[t] = call[t] /\ cursor[t] <= e  BY <2>4, <2>6 DEF CallKept
  <2> QED BY <1>4, <2>2, <2>6, <2>7, <2>8, SoFarExtended
<1> HIDE DEF c, e
<1> QED BY <1>4, <1>5 DEF ImageInv, Away, Fetching, Holding

LEMMA FillHoleImage ==
    ASSUME AdapterInv, NEW t \in Threads, ImageInv(t), FillHole(t), CallKept(t)
    PROVE  ImageInv(t)'
<1> DEFINE x == cursor[t]  n == HoleEnd(x, EndOf(call[t]))  c == Zeros(n - x)
<1>1. LocalType /\ CallType  BY TypeParts DEF AdapterInv
<1>2. /\ More(t) /\ InHole(x) /\ pc' = pc
      /\ out' = [out EXCEPT ![t] = out[t] \o c] /\ cursor' = [cursor EXCEPT ![t] = n]
  BY DEF FillHole
<1>3. pc[t] = "loop" /\ x < EndOf(call[t])  BY <1>2 DEF More
<1>4. pc'[t] = "loop" /\ cursor'[t] = n /\ out'[t] = out[t] \o c
  <2> HIDE DEF c, n
  <2> QED BY <1>1, <1>2, <1>3 DEF LocalType
<1>5. ASSUME ~ raced', Fits(t)' PROVE SoFar(t)'
  <2>1. ~ raced /\ Fits(t)  BY <1>5, FitsKept
  <2>2. SoFar(t)  BY <1>3, <2>1 DEF ImageInv, Away
  <2>3. x \in Int /\ EndOf(call[t]) \in Int /\ call[t].off \in Int
    BY <1>1 DEF LocalType, CallType, EndOf
  <2>4. Extents # << >> => ExtentAt(x) # 0
    <3> SUFFICES ASSUME Extents # << >> PROVE ExtentAt(x) # 0  OBVIOUS
    <3>1. 1 \in 1..Len(Extents)
      <4>1. Extents \in Seq([off : Nat, len : Nat \ {0}, seg : Segments])
        BY AdapterAssumption
      <4>2. Len(Extents) \in Nat /\ Len(Extents) # 0  BY <4>1, EmptySeq, LenProperties
      <4> QED BY <4>2
    <3>2. Extents[1].off <= x
      BY <2>1, <2>2, <2>3, <3>1, ExtentTypes DEF Fits, SoFar
    <3>3. 1 <= ExtentAt(x)  BY <2>3, <3>1, <3>2, ExtentAtCuts
    <3> QED BY <3>3
  <2>5. /\ n \in Int /\ x < n /\ n <= EndOf(call[t])
        /\ \A y \in x..(n - 1) : InHole(y)
    BY <1>2, <1>3, <2>3, <2>4, HoleEnds
  <2> HIDE DEF n
  <2>6. n - x \in Nat  BY <2>3, <2>5
  <2>7. c \in Seq(Byte) /\ Len(c) = n - x /\ \A k \in 1..(n - x) : c[k] = Zero
    BY <2>6, ZerosType DEF Zeros
  <2>8. \A k \in 1..Len(c) : c[k] = ImageByte(x + k - 1)
    <3> SUFFICES ASSUME NEW k \in 1..Len(c) PROVE c[k] = ImageByte(x + k - 1)  OBVIOUS
    <3> HIDE DEF c
    <3>1. x + k - 1 \in x..(n - 1) /\ x + k - 1 \in Int  BY <2>3, <2>5, <2>6, <2>7
    <3>2. ImageByte(x + k - 1) = Zero  BY <3>1, <2>5, ImageInHole
    <3> QED BY <3>2, <2>7
  <2> HIDE DEF c
  <2>9. call'[t] = call[t] /\ Len(c) = n - cursor[t] /\ cursor[t] <= n
    BY <2>3, <2>5, <2>7 DEF CallKept
  <2> QED BY <1>4, <2>2, <2>5, <2>7, <2>8, <2>9, SoFarExtended
<1> HIDE DEF c, n
<1> QED BY <1>4, <1>5 DEF ImageInv, Away, Fetching, Holding

-----------------------------------------------------------------------------
(* The steps of a call *)

(* A step of a thread touches no other call, and a race stays one.          *)
LEMMA StepApart ==
    ASSUME AdapterInv, NEW t \in Threads, Step(t)
    PROVE  /\ CallKept(t)
           /\ \A u \in Threads \ {t} : /\ CallKept(u) /\ pc'[u] = pc[u]
                                       /\ cursor'[u] = cursor[u] /\ out'[u] = out[u]
                                       /\ result'[u] = result[u]
<1>1. LocalType /\ FileType  BY TypeParts DEF AdapterInv
<1>2. call' = call
  BY DEF Step, Enter, FillHole, Get, Touch, Miss, SeekHead, ReadHead, SeekBody, ReadBody,
         SeekNext, ReadNext, Store, Check, Pop, Return
<1>3. raced => raced'
  <2>1. CASE UNCHANGED file  BY <2>1 DEF file
  <2>2. CASE UNCHANGED raced  BY <2>2
  <2>3. CASE \E p, at : ReadUpTo(t, p, at)  BY <2>3, Zenon DEF ReadUpTo
  <2>4. Enter(t) \/ FillHole(t) \/ Get(t) \/ Touch(t) \/ Miss(t) \/ Store(t) \/ Check(t)
        \/ Pop(t) \/ Return(t) => UNCHANGED file
    BY DEF Enter, FillHole, Get, Touch, Miss, Store, Check, Pop, Return
  <2>5. SeekHead(t) \/ SeekBody(t) \/ SeekNext(t) => UNCHANGED file \/ UNCHANGED raced
    BY DEF SeekHead, SeekBody, SeekNext, SeekTo
  <2>6. ReadHead(t) \/ ReadBody(t) \/ ReadNext(t) => \E p, at : ReadUpTo(t, p, at)
    BY DEF ReadHead, ReadBody, ReadNext, AfterPage, AfterShort
  <2> QED BY <2>1, <2>2, <2>3, <2>4, <2>5, <2>6 DEF Step
<1>4. ASSUME NEW u \in Threads \ {t}
      PROVE  /\ pc'[u] = pc[u] /\ cursor'[u] = cursor[u] /\ out'[u] = out[u]
             /\ result'[u] = result[u]
  <2> DEFINE Apart == /\ pc'[u] = pc[u] /\ cursor'[u] = cursor[u] /\ out'[u] = out[u]
                      /\ result'[u] = result[u]
  <2>1. ASSUME NEW r, EndCall(t, r) PROVE Apart  BY <1>1, <2>1 DEF EndCall, LocalType
  <2>2. ASSUME NEW l, Goto(t, l), UNCHANGED <<cursor, out, result>> PROVE Apart
    BY <1>1, <2>2 DEF Goto, LocalType
  <2>3. ASSUME NEW v, CopyFrom(t, v), UNCHANGED result PROVE Apart
    BY <1>1, <2>3 DEF CopyFrom, Goto, LocalType
  <2>4. ASSUME NEW r, Decode(t, r) PROVE Apart
    BY <2>1, <2>2, <2>4 DEF Decode, Raise
  <2>5. CASE Enter(t)
    <3>1. CASE Raise(t, "ValueError")  BY <3>1, <2>1 DEF Raise
    <3>2. CASE ~ Raise(t, "ValueError")
      BY <1>1, <2>5, <3>2 DEF Enter, Goto, LocalType
    <3> QED BY <3>1, <3>2
  <2>6. CASE FillHole(t)
    <3> DEFINE n == HoleEnd(cursor[t], EndOf(call[t]))  z == out[t] \o Zeros(n - cursor[t])
    <3>1. /\ out' = [out EXCEPT ![t] = z] /\ cursor' = [cursor EXCEPT ![t] = n]
          /\ pc' = pc /\ result' = result
      BY <2>6 DEF FillHole
    <3> HIDE DEF n, z
    <3> QED BY <1>1, <3>1 DEF LocalType
  <2>7. CASE Get(t) \/ Store(t) \/ SeekBody(t)
    BY <2>2, <2>7 DEF Get, Store, SeekBody
  <2>8. CASE Touch(t)  BY <2>1, <2>3, <2>8 DEF Touch, Raise
  <2>9. CASE Pop(t)  BY <2>1, <2>3, <2>9 DEF Pop, Raise
  <2>10. CASE Check(t)  BY <2>2, <2>3, <2>10 DEF Check
  <2>11. CASE Miss(t) \/ SeekHead(t) \/ SeekNext(t)
    BY <2>1, <2>2, <2>11 DEF Miss, SeekHead, SeekNext, Raise
  <2>12. CASE ReadHead(t)  BY <2>1, <2>2, <2>12 DEF ReadHead, Raise
  <2>13. CASE ReadBody(t)  BY <2>1, <2>4, <2>13 DEF ReadBody, Raise
  <2>14. CASE ReadNext(t)  BY <2>1, <2>4, <2>14 DEF ReadNext, Raise
  <2>15. CASE Return(t)  BY <2>1, <2>15 DEF Return
  <2> QED BY <2>5, <2>6, <2>7, <2>8, <2>9, <2>10, <2>11, <2>12, <2>13, <2>14, <2>15
          DEF Step
<1> QED BY <1>2, <1>3, <1>4 DEF CallKept

LEMMA BeginImage ==
    ASSUME AdapterInv, NEW t \in Threads, ImageInv(t), Begin(t)
    PROVE  ImageInv(t)'
<1>1. LocalType  BY TypeParts DEF AdapterInv
<1>2. pc'[t] = "enter" /\ out' = out /\ pc[t] \in Away
  BY <1>1 DEF Begin, Goto, LocalType, Away
<1> QED BY <1>2 DEF ImageInv, Away, Fetching, Holding

LEMMA EnterImage ==
    ASSUME AdapterInv, NEW t \in Threads, ImageInv(t), Enter(t), CallKept(t)
    PROVE  ImageInv(t)'
<1>1. LocalType /\ CallType  BY TypeParts DEF AdapterInv
<1>2. call[t].off \in Int /\ call[t].len \in Int  BY <1>1 DEF CallType
<1>3. pc[t] = "enter" /\ out[t] = << >>  BY DEF Enter, ImageInv, Away
<1>4. CASE call[t].len <= 0 \/ call[t].off < 0
  <2>1. EndCall(t, Err("ValueError"))  BY <1>4 DEF Enter, Raise
  <2>2. ~ (~ raced' /\ Fits(t)')
    <3>1. ~ Fits(t)  BY <1>2, <1>4 DEF Fits
    <3> QED BY <3>1, FitsKept
  <2> QED BY <2>1, <2>2, RaisedImage
<1>5. CASE ~ (call[t].len <= 0 \/ call[t].off < 0)
  <2>1. pc'[t] = "loop" /\ cursor'[t] = call[t].off /\ out'[t] = << >>
    BY <1>1, <1>3, <1>5 DEF Enter, Goto, LocalType
  <2>2. call'[t] = call[t]  BY DEF CallKept
  <2>3. SoFar(t)'
    <3>1. Len(out'[t]) = 0  BY <2>1
    <3>2. cursor'[t] \in call[t].off..EndOf(call[t])  BY <1>2, <1>5, <2>1 DEF EndOf
    <3>3. cursor'[t] - call[t].off = 0  BY <1>2, <2>1
    <3>4. 1..Len(out'[t]) = {}  BY <3>1
    <3>5. EndOf(call[t])' = EndOf(call[t]) /\ call'[t].off = call[t].off
      BY <2>2 DEF EndOf
    <3> QED BY <3>1, <3>2, <3>3, <3>4, <3>5 DEF SoFar
  <2> QED BY <2>1, <2>3 DEF ImageInv, Away, Fetching, Holding
<1> QED BY <1>4, <1>5

LEMMA ReturnImage ==
    ASSUME AdapterInv, NEW t \in Threads, ImageInv(t), Return(t), CallKept(t)
    PROVE  ImageInv(t)'
<1>1. LocalType /\ CallType  BY TypeParts DEF AdapterInv
<1>2. pc[t] = "loop" /\ cursor[t] >= EndOf(call[t])  BY DEF Return
<1>3. pc'[t] = "done" /\ out'[t] = << >> /\ result'[t] = out[t]
  BY <1>1 DEF Return, EndCall, LocalType
<1>4. ASSUME ~ raced', Fits(t)' PROVE IsImage(t)'
  <2>1. SoFar(t)  BY <1>2, <1>4, FitsKept DEF ImageInv, Away
  <2>2. call[t].off \in Int /\ call[t].len \in Int /\ cursor[t] \in Int
    BY <1>1 DEF CallType, LocalType
  <2>3. cursor[t] = call[t].off + call[t].len  BY <1>2, <2>1, <2>2 DEF SoFar, EndOf
  <2>4. Len(out[t]) = call[t].len  BY <2>1, <2>2, <2>3 DEF SoFar
  <2>5. out[t] \in Seq(Byte)  BY <1>1 DEF LocalType
  <2>6. out[t] = [k \in 1..Len(out[t]) |-> out[t][k]]  BY <2>5
  <2>7. \A k \in 1..Len(out[t]) : out[t][k] = ImageByte(call[t].off + k - 1)
    BY <2>1 DEF SoFar
  <2>8. out[t] = [k \in 1..call[t].len |-> ImageByte(call[t].off + k - 1)]
    BY <2>4, <2>6, <2>7, Zenon
  <2>9. call'[t] = call[t]  BY DEF CallKept
  <2> QED BY <1>3, <2>8, <2>9 DEF IsImage
<1> QED BY <1>3, <1>4 DEF ImageInv, Away, Fetching, Holding

LEMMA GetImage ==
    ASSUME AdapterInv, NEW t \in Threads, ImageInv(t), Get(t), CallKept(t)
    PROVE  ImageInv(t)'
<1>1. LocalType  BY TypeParts DEF AdapterInv
<1>2. More(t) /\ ~ InHole(cursor[t])  BY DEF Get
<1>3. pc[t] = "loop" /\ cursor[t] < EndOf(call[t])  BY <1>2 DEF More
<1>4. pc'[t] = "touch" /\ cursor' = cursor /\ out' = out
  BY <1>1 DEF Get, Goto, LocalType
<1>5. ASSUME ~ raced', Fits(t)'
      PROVE  SoFar(t)' /\ cursor'[t] < EndOf(call[t])' /\ ~ InHole(cursor[t])'
  <2>1. SoFar(t)  BY <1>3, <1>5, FitsKept DEF ImageInv, Away
  <2> QED BY <2>1, <1>2, <1>3, <1>4 DEF SoFar, CallKept, EndOf, InHole
<1> QED BY <1>4, <1>5 DEF ImageInv, Away

LEMMA MissImage ==
    ASSUME AdapterInv, NEW t \in Threads, ImageInv(t), Miss(t), CallKept(t)
    PROVE  ImageInv(t)'
<1>1. LocalType  BY TypeParts DEF AdapterInv
<1>2. More(t) /\ ~ InHole(cursor[t])  BY DEF Miss
<1>3. pc[t] = "loop" /\ cursor[t] < EndOf(call[t])  BY <1>2 DEF More
<1>4. ASSUME ~ raced', Fits(t)' PROVE SoFar(t) /\ SegIndex[Segment(t)] # NotIndexed
  <2>1. SoFar(t) /\ Fits(t)  BY <1>3, <1>4, FitsKept DEF ImageInv, Away
  <2> QED BY <2>1, <1>2, <1>3, AtSound
<1>5. CASE SegIndex[Segment(t)] = NotIndexed
  <2>1. EndCall(t, Err("TibxAdapterError"))  BY <1>5 DEF Miss, Raise
  <2> QED BY <2>1, <1>4, <1>5, RaisedImage
<1>6. CASE SegIndex[Segment(t)] # NotIndexed
  <2>1. pc'[t] = "seekhead" /\ cursor' = cursor /\ out' = out
    BY <1>1, <1>6 DEF Miss, Goto, LocalType
  <2>2. ASSUME ~ raced', Fits(t)'
        PROVE  SoFar(t)' /\ cursor'[t] < EndOf(call[t])' /\ ~ InHole(cursor[t])'
    BY <1>2, <1>3, <1>4, <2>1, <2>2 DEF SoFar, CallKept, EndOf, InHole
  <2> QED BY <2>1, <2>2 DEF ImageInv, Away
<1> QED BY <1>5, <1>6

(* The steps that touch the cache: a KeyError, or the bytes are copied.     *)
LEMMA CacheImage ==
    ASSUME AdapterInv, NEW t \in Threads, ImageInv(t), CallKept(t),
           Touch(t) \/ Store(t) \/ Check(t) \/ Pop(t)
    PROVE  ImageInv(t)'
<1>1. LocalType  BY TypeParts DEF AdapterInv
<1>2. pc[t] \in Holding  BY DEF Touch, Store, Check, Pop, Holding
<1>3. CASE CopyFrom(t, plain[t])  BY <1>2, <1>3, CopyImage
<1>4. CASE Raise(t, "KeyError")
  <2>1. EndCall(t, Err("KeyError"))  BY <1>4 DEF Raise
  <2> QED BY <2>1, RaisedImage
<1>5. CASE (Goto(t, "pop") \/ Goto(t, "check")) /\ UNCHANGED <<cursor, out>>
  <2>1. pc'[t] \in Holding /\ cursor' = cursor /\ out' = out
    BY <1>1, <1>5 DEF Goto, LocalType, Holding
  <2> QED BY <2>1, <1>2, MovedImage
<1> QED BY <1>3, <1>4, <1>5 DEF Touch, Store, Check, Pop

LEMMA SeekImage ==
    ASSUME AdapterInv, NEW t \in Threads, ImageInv(t), CallKept(t),
           SeekHead(t) \/ SeekBody(t) \/ SeekNext(t)
    PROVE  ImageInv(t)'
<1>1. LocalType /\ ThreadInv(t)  BY TypeParts DEF AdapterInv
<1>2. pc[t] \in Fetching  BY DEF SeekHead, SeekBody, SeekNext, Fetching
<1>3. ASSUME ~ raced', Fits(t)'
      PROVE  /\ ~ raced /\ Proper(Wanted(t), Wanted(t)) /\ Wanted(t) \in FilePages
             /\ Rebased(Wanted(t)) = Wanted(t)
  BY <1>2, <1>3, FitsKept, FetchingSound
<1>4. CASE /\ Goto(t, "readhead") \/ Goto(t, "readbody") \/ Goto(t, "readnext")
           /\ UNCHANGED <<cursor, out>>
  <2>1. pc'[t] \in Fetching /\ cursor' = cursor /\ out' = out
    BY <1>1, <1>4 DEF Goto, LocalType, Fetching
  <2> QED BY <2>1, <1>2, MovedImage
<1>5. CASE SeekHead(t) /\ Rebased(Wanted(t)) >= NumPages
  <2>1. EndCall(t, Err("IndexError"))  BY <1>5 DEF SeekHead, Raise
  <2>2. ~ (~ raced' /\ Fits(t)')
    <3> SUFFICES ASSUME ~ raced', Fits(t)' PROVE FALSE  OBVIOUS
    <3>1. Wanted(t) \in FilePages /\ Rebased(Wanted(t)) = Wanted(t)  BY <1>3
    <3> QED BY <3>1, <1>5, AdapterAssumption DEF FilePages
  <2> QED BY <2>1, <2>2, RaisedImage
<1>6. CASE SeekNext(t) /\ NextPage(t) >= NumPages
  <2>1. EndCall(t, Err("IOError"))  BY <1>6 DEF SeekNext, Raise
  <2>2. ~ (~ raced' /\ Fits(t)')
    <3> SUFFICES ASSUME ~ raced', Fits(t)' PROVE FALSE  OBVIOUS
    <3> DEFINE w == Wanted(t)  n == Len(raw[t])
    <3>1. ~ raced /\ Proper(w, w) /\ w \in FilePages /\ Rebased(w) = w  BY <1>3
    <3>2. pc[t] = "seeknext"  BY <1>6 DEF SeekNext
    <3>3. head[t] = w  BY <3>1, <3>2, <1>1 DEF ThreadInv, OwnInv, Heading
    <3>4. n \in 1..(Span[w] - 1)
      BY <3>2, <3>3, <1>1 DEF ThreadInv, PlaceInv, Going
    <3>5. Span[w] \in Nat /\ w \in Nat  BY <3>1, AdapterAssumption DEF FilePages
    <3>6. NextPage(t) = w + n  BY DEF NextPage
    <3> HIDE DEF w, n
    <3>7. n + 1 \in 2..Span[w] /\ n \in Nat  BY <3>4, <3>5
    <3>8. w + (n + 1) - 1 \in FilePages  BY <3>1, <3>7 DEF Proper
    <3>9. w + (n + 1) - 1 = w + n  BY <3>5, <3>7
    <3>10. w + n < NumPages  BY <3>8, <3>9, AdapterAssumption DEF FilePages
    <3>11. w + n \in Nat /\ NumPages \in Nat  BY <3>5, <3>7, AdapterAssumption
    <3> QED BY <3>6, <3>10, <3>11, <1>6
  <2> QED BY <2>1, <2>2, RaisedImage
<1> QED BY <1>4, <1>5, <1>6 DEF SeekHead, SeekBody, SeekNext

LEMMA ReadHeadImage ==
    ASSUME AdapterInv, NEW t \in Threads, ImageInv(t), CallKept(t), ReadHead(t)
    PROVE  ImageInv(t)'
<1>1. LocalType /\ ThreadInv(t)  BY TypeParts DEF AdapterInv
<1>2. pc[t] = "readhead" /\ pc[t] \in Fetching /\ AfterPage(t)
  BY DEF ReadHead, Fetching
<1>3. ~ raced' => ~ raced /\ fpos.by = t  BY <1>2, AfterPageFile
<1>4. ASSUME ~ raced', Fits(t)'
      PROVE  WholePage /\ PageRead("sg") /\ fpos.page \notin Sealed
  <2>1. Proper(Wanted(t), Wanted(t)) /\ Wanted(t) \in FilePages /\ Rebased(Wanted(t)) = Wanted(t)
    BY <1>2, <1>4, FitsKept, FetchingSound
  <2>2. fpos.page = Wanted(t) /\ fpos.at = "page"
    BY <1>1, <1>2, <1>3, <1>4, <2>1 DEF ThreadInv, SeekInv
  <2>3. WholePage  BY <2>1, <2>2, AdapterAssumption DEF WholePage, FilePages
  <2> QED BY <2>1, <2>2, <2>3 DEF PageRead, Proper
<1>5. CASE WholePage /\ PageRead("sg") /\ fpos.page \notin Sealed
  <2>1. pc'[t] = "seekbody" /\ cursor' = cursor /\ out' = out
    BY <1>1, <1>5 DEF ReadHead, Goto, LocalType
  <2>2. pc'[t] \in Fetching  BY <2>1 DEF Fetching
  <2> QED BY <2>1, <2>2, <1>2, MovedImage
<1>6. CASE ~ (WholePage /\ PageRead("sg") /\ fpos.page \notin Sealed)
  <2>1. \E e : EndCall(t, Err(e))  BY <1>6 DEF ReadHead, Raise
  <2> QED BY <2>1, <1>4, <1>6, RaisedImage
<1> QED BY <1>5, <1>6

(* A header decodes what it wrote: whole payloads of a thread's own decode. *)
LEMMA DecodeImage ==
    ASSUME AdapterInv, NEW t \in Threads, ImageInv(t), CallKept(t),
           pc[t] \in {"readbody", "readnext"},
           NEW r \in Seq(FilePages \X Spot), Len(r) \in 1..Span[head[t]], Decode(t, r),
           ~ raced' => ~ raced /\ Mine(t, r)
    PROVE  ImageInv(t)'
<1>1. LocalType  BY TypeParts DEF AdapterInv
<1>2. pc[t] \in Fetching  BY DEF Fetching
<1>3. /\ Span[head[t]] \in Nat \ {0} /\ Len(r) \in Nat
  BY HasHead, LenProperties DEF Heading
<1>4. CASE Len(r) < Span[head[t]] \/ Inflate(head[t], r) # Undecodable
  <2>1. pc'[t] \in Fetching /\ cursor' = cursor /\ out' = out
    BY <1>1, <1>4 DEF Decode, Goto, LocalType, Fetching
  <2> QED BY <2>1, <1>2, MovedImage
<1>5. CASE ~ (Len(r) < Span[head[t]]) /\ Inflate(head[t], r) = Undecodable
  <2>1. EndCall(t, Err("IOError"))  BY <1>5 DEF Decode, Raise
  <2>2. ~ (~ raced' /\ Fits(t)')
    <3> SUFFICES ASSUME ~ raced', Fits(t)' PROVE FALSE  OBVIOUS
    <3>1. Mine(t, r) /\ Proper(Wanted(t), Wanted(t)) /\ Rebased(Wanted(t)) = Wanted(t) /\ ~ raced
      BY <1>2, FitsKept, FetchingSound
    <3>2. head[t] = Wanted(t)  BY <3>1, HasHead DEF Heading
    <3>3. Len(r) = Span[head[t]]  BY <1>3, <1>5
    <3>4. r = Payloads(head[t], Wanted(t))  BY <3>1, <3>3, MineIsWhole
    <3> QED BY <3>1, <3>2, <3>4, <1>5 DEF Proper
  <2> QED BY <2>1, <2>2, RaisedImage
<1> QED BY <1>4, <1>5

LEMMA ReadBodyImage ==
    ASSUME AdapterInv, NEW t \in Threads, ImageInv(t), CallKept(t), ReadBody(t)
    PROVE  ImageInv(t)'
<1>1. pc[t] = "readbody" /\ pc[t] \in Fetching  BY DEF ReadBody, Fetching
<1>2. ~ raced' => ~ raced /\ fpos.by = t  BY ReadBodyFile
<1>3. CASE /\ fpos.page >= NumPages \/ (fpos.page = NumPages - 1 /\ fpos.at = "inside")
           /\ Raise(t, "IOError")
  <2>1. EndCall(t, Err("IOError"))  BY <1>3 DEF Raise
  <2>2. ~ (~ raced' /\ Fits(t)')
    <3> SUFFICES ASSUME ~ raced', Fits(t)' PROVE FALSE  OBVIOUS
    <3>1. Wanted(t) \in FilePages  BY <1>1, FitsKept, FetchingSound
    <3>2. fpos.page = Wanted(t) /\ fpos.at = "payload"
      BY <1>1, <1>2 DEF AdapterInv, ThreadInv, SeekInv
    <3> QED BY <3>1, <3>2, <1>3, AdapterAssumption DEF FilePages
  <2> QED BY <2>1, <2>2, RaisedImage
<1>4. CASE fpos.page < NumPages /\ Decode(t, << <<fpos.page, fpos.at>> >>)
  <2>1. PICK r : r = << <<fpos.page, fpos.at>> >>  OBVIOUS
  <2>2. /\ r \in Seq(FilePages \X Spot) /\ Len(r) \in 1..Span[head[t]]
        /\ ~ raced' => ~ raced /\ Mine(t, r)
    BY <2>1, <1>1, <1>2, <1>4, BodyIsMine
  <2>3. Decode(t, r)  BY <2>1, <1>4
  <2> QED BY <2>2, <2>3, <1>1, DecodeImage
<1> QED BY <1>3, <1>4 DEF ReadBody

LEMMA ReadNextImage ==
    ASSUME AdapterInv, NEW t \in Threads, ImageInv(t), CallKept(t), ReadNext(t)
    PROVE  ImageInv(t)'
<1>1. pc[t] = "readnext" /\ pc[t] \in Fetching /\ AfterPage(t)
  BY DEF ReadNext, Fetching
<1>2. ~ raced' => ~ raced /\ fpos.by = t  BY <1>1, AfterPageFile
<1>3. CASE ~ PageRead("data")
  <2>1. EndCall(t, Err("IOError"))  BY <1>3 DEF ReadNext, Raise
  <2>2. ~ (~ raced' /\ Fits(t)')
    <3> SUFFICES ASSUME ~ raced', Fits(t)' PROVE FALSE  OBVIOUS
    <3> DEFINE w == Wanted(t)  n == Len(raw[t])
    <3>1. ~ raced /\ Proper(w, w) /\ w \in FilePages /\ Rebased(w) = w
      BY <1>1, FitsKept, FetchingSound
    <3>2. ThreadInv(t)  BY DEF AdapterInv
    <3>3. head[t] = w /\ n \in 1..(Span[head[t]] - 1)
      BY <3>1, <3>2, <1>1 DEF ThreadInv, OwnInv, PlaceInv, Heading, Going
    <3>4. fpos.page = w + n /\ fpos.at = "page"
      BY <3>1, <3>2, <1>1, <1>2 DEF ThreadInv, SeekInv, NextPage
    <3> HIDE DEF w, n
    <3>5. Span[w] \in Nat /\ w \in Nat  BY <3>1, AdapterAssumption DEF FilePages
    <3>6. n + 1 \in 2..Span[w] /\ n \in Nat  BY <3>3, <3>5
    <3>7. w + (n + 1) - 1 \in FilePages /\ Kind[w + (n + 1) - 1] = "data"
      BY <3>1, <3>6 DEF Proper
    <3>8. w + (n + 1) - 1 = w + n  BY <3>5, <3>6
    <3>9. fpos.page \in FilePages /\ Kind[fpos.page] = "data"  BY <3>4, <3>7, <3>8
    <3>10. WholePage  BY <3>4, <3>9, AdapterAssumption DEF WholePage, FilePages
    <3> QED BY <3>4, <3>9, <3>10, <1>3 DEF PageRead
  <2> QED BY <2>1, <2>2, RaisedImage
<1>4. CASE PageRead("data")
  <2>1. PICK r : r = Append(raw[t], <<fpos.page, "page">>)  OBVIOUS
  <2>2. /\ r \in Seq(FilePages \X Spot) /\ Len(r) \in 1..Span[head[t]]
        /\ ~ raced' => ~ raced /\ Mine(t, r)
    BY <2>1, <1>1, <1>2, <1>4, NextIsMine
  <2>3. Decode(t, r)  BY <2>1, <1>4 DEF ReadNext
  <2> QED BY <2>2, <2>3, <1>1, DecodeImage
<1> QED BY <1>3, <1>4

LEMMA OtherImage ==
    ASSUME NEW u \in Threads, ImageInv(u), CallKept(u), pc'[u] = pc[u],
           cursor'[u] = cursor[u], out'[u] = out[u], result'[u] = result[u]
    PROVE  ImageInv(u)'
<1>1. ASSUME ~ raced', Fits(u)' PROVE ~ raced /\ Fits(u)  BY <1>1, FitsKept
<1>2. /\ SoFar(u) => SoFar(u)'
      /\ IsImage(u) => IsImage(u)'
      /\ EndOf(call[u])' = EndOf(call[u]) /\ InHole(cursor[u])' = InHole(cursor[u])
  BY DEF SoFar, IsImage, CallKept, EndOf, InHole
<1> QED BY <1>1, <1>2 DEF ImageInv

ImagesInv == AdapterInv /\ \A t \in Threads : ImageInv(t)

LEMMA ImagesKept == ImagesInv /\ [AdapterNext]_adapterVars => ImagesInv'
<1> SUFFICES ASSUME ImagesInv, [AdapterNext]_adapterVars PROVE ImagesInv'  OBVIOUS
<1>1. AdapterInv /\ AdapterInv'  BY AdapterKeeps DEF ImagesInv
<1>2. CASE UNCHANGED adapterVars
  <2>1. /\ pc' = pc /\ call' = call /\ cursor' = cursor /\ out' = out /\ raced' = raced
        /\ result' = result
    BY <1>2 DEF adapterVars, local, cache, file
  <2>2. ASSUME NEW u \in Threads PROVE ImageInv(u)'
    <3>1. ImageInv(u) /\ CallKept(u)  BY <2>1 DEF ImagesInv, CallKept
    <3> QED BY <2>1, <3>1, OtherImage
  <2> QED BY <1>1, <2>2 DEF ImagesInv
<1>3. ASSUME NEW t \in Threads, Begin(t) PROVE ImagesInv'
  <2>1. LocalType /\ CallType  BY <1>1, TypeParts DEF AdapterInv
  <2>2. ImageInv(t)'  BY <1>1, <1>3, BeginImage DEF ImagesInv
  <2>3. ASSUME NEW u \in Threads, u # t PROVE ImageInv(u)'
    <3>1. /\ pc'[u] = pc[u] /\ cursor'[u] = cursor[u] /\ out'[u] = out[u]
          /\ result'[u] = result[u] /\ CallKept(u)
      BY <1>3, <2>1, <2>3 DEF Begin, Goto, file, LocalType, CallType, CallKept
    <3>2. ImageInv(u)  BY DEF ImagesInv
    <3> QED BY <3>1, <3>2, OtherImage
  <2> QED BY <1>1, <2>2, <2>3 DEF ImagesInv
<1>4. ASSUME NEW t \in Threads, Step(t) PROVE ImagesInv'
  <2>1. /\ CallKept(t)
        /\ \A u \in Threads \ {t} : /\ CallKept(u) /\ pc'[u] = pc[u]
                                    /\ cursor'[u] = cursor[u] /\ out'[u] = out[u]
                                    /\ result'[u] = result[u]
    BY <1>1, <1>4, StepApart
  <2>2. ImageInv(t)  BY DEF ImagesInv
  <2>3. ImageInv(t)'
    BY <1>1, <1>4, <2>1, <2>2, EnterImage, FillHoleImage, GetImage, MissImage, CacheImage,
       SeekImage, ReadHeadImage, ReadBodyImage, ReadNextImage, ReturnImage DEF Step
  <2>4. ASSUME NEW u \in Threads, u # t PROVE ImageInv(u)'
    <3>1. ImageInv(u) /\ u \in Threads \ {t}  BY <2>4 DEF ImagesInv
    <3> QED BY <2>1, <3>1, OtherImage
  <2> QED BY <1>1, <2>3, <2>4 DEF ImagesInv
<1> QED BY <1>2, <1>3, <1>4 DEF AdapterNext

(* A call over sound extents that ended where no read began behind another  *)
(* thread's seek returned the image the extents describe, over holes, short *)
(* segments and continuation pages, from the cache or from the file, in a   *)
(* whole archive as in a slice, or raised the KeyError of a lost eviction.  *)
THEOREM AdapterReadIsImage == AdapterSpec => []ReadIsImage
<1>1. AdapterInit => ImagesInv
  <2> SUFFICES ASSUME AdapterInit PROVE ImagesInv  OBVIOUS
  <2>1. ASSUME NEW t \in Threads PROVE ImageInv(t)
    BY DEF AdapterInit, ImageInv, Away, Fetching, Holding
  <2> QED BY <2>1, AdapterInvInit DEF ImagesInv
<1>2. ImagesInv /\ [AdapterNext]_adapterVars => ImagesInv'  BY ImagesKept
<1>3. ImagesInv => ReadIsImage
  <2> SUFFICES ASSUME ImagesInv, NEW t \in Threads, Undisturbed(t),
                      Extents # << >> => call[t].off >= Extents[1].off
               PROVE  IsImage(t)
    BY DEF ReadIsImage
  <2>1. Fits(t) /\ pc[t] = "done" /\ ~ raced  BY DEF Undisturbed, Fits, Asked
  <2> QED BY <2>1 DEF ImagesInv, ImageInv
<1> QED BY <1>1, <1>2, <1>3, PTL DEF AdapterSpec
=============================================================================

---------------------------- MODULE OneShot_proofs ----------------------------
(***************************************************************************)
(* Machine-checked proofs about OneShot: the chains that the slices of a   *)
(* .tibx form, whatever their flags and parents.                           *)
(***************************************************************************)
EXTENDS OneShot, Lemmas, FiniteSetTheorems

-----------------------------------------------------------------------------
(* Slices by their ids *)

Elems(q) == {q[k] : k \in DOMAIN q}

(* Slices in a list, each with an id of its own. *)
Listed(q) == /\ q \in Seq(Elems(q))
             /\ \A k, l \in DOMAIN q : q[k].uuid = q[l].uuid => k = l

LEMMA BySliceIs ==
    ASSUME NEW q, Listed(q), NEW k \in DOMAIN q
    PROVE  /\ q[k].uuid \in SC!Uuids(q)
           /\ SC!BySlice(q, q[k].uuid) = q[k]
<1>1. \A l \in DOMAIN q : q[l].uuid = q[k].uuid => l = k  BY DEF Listed
<1> DEFINE c == CHOOSE l \in DOMAIN q : q[l].uuid = q[k].uuid
<1>2. c \in DOMAIN q /\ q[c].uuid = q[k].uuid  OBVIOUS
<1>3. c = k  BY <1>1, <1>2
<1>4. SC!BySlice(q, q[k].uuid) = q[c]  BY DEF SC!BySlice
<1> HIDE DEF c
<1> QED BY <1>3, <1>4 DEF SC!Uuids

LEMMA SliceFound ==
    ASSUME NEW q, Listed(q), NEW u \in SC!Uuids(q)
    PROVE  SC!BySlice(q, u) \in Elems(q) /\ SC!BySlice(q, u).uuid = u
<1>1. PICK k \in DOMAIN q : u = q[k].uuid  BY DEF SC!Uuids
<1> QED BY <1>1, BySliceIs DEF Elems

LEMMA IsFullBoolean == ASSUME NEW x PROVE SC!IsFull(x) \in BOOLEAN
  BY DEF SC!IsFull

IsWalk(q, w) == /\ w = [cur |-> w.cur, chain |-> w.chain, stopped |-> w.stopped]
                /\ w.chain \in Seq(Elems(q)) /\ w.stopped \in BOOLEAN

Halts(q, w) == w.cur \notin SC!Uuids(q) \/ w.cur \in SC!Visited(w)

LEMMA HaltStep ==
    ASSUME NEW q, NEW w, IsWalk(q, w), Halts(q, w), NEW v, v = SC!WalkStep(q, w)
    PROVE  IsWalk(q, v) /\ v.cur = w.cur /\ v.chain = w.chain /\ v.stopped
<1>1. v = [w EXCEPT !.stopped = TRUE]  BY DEF Halts, SC!WalkStep
<1>2. PICK a, b, c : w = [cur |-> a, chain |-> b, stopped |-> c]  BY DEF IsWalk
<1>3. v = [cur |-> a, chain |-> b, stopped |-> TRUE]  BY <1>1, <1>2
<1>4. b \in Seq(Elems(q))  BY <1>2 DEF IsWalk
<1>5. v.cur = w.cur /\ v.chain = w.chain /\ v.stopped = TRUE /\ v.chain \in Seq(Elems(q))
  BY <1>2, <1>3, <1>4
<1>6. v = [cur |-> v.cur, chain |-> v.chain, stopped |-> v.stopped]  BY <1>3
<1> QED BY <1>5, <1>6 DEF IsWalk

LEMMA GoStep ==
    ASSUME NEW q, Listed(q), NEW w, IsWalk(q, w), ~ Halts(q, w), NEW v, v = SC!WalkStep(q, w)
    PROVE  \E x \in Elems(q) :
              /\ x = SC!BySlice(q, w.cur) /\ x.uuid = w.cur
              /\ IsWalk(q, v)
              /\ v.cur = IF SC!IsFull(x) THEN w.cur ELSE x.parent
              /\ v.chain = Append(w.chain, x)
              /\ v.stopped = SC!IsFull(x)
<1>1. w.cur \in SC!Uuids(q)  BY DEF Halts
<1>2. PICK x \in Elems(q) : x = SC!BySlice(q, w.cur) /\ x.uuid = w.cur
  BY <1>1, SliceFound, Zenon
<1>3. v = [w EXCEPT !.chain = Append(@, x), !.cur = IF SC!IsFull(x) THEN @ ELSE x.parent,
                    !.stopped = SC!IsFull(x)]
  BY <1>2, Zenon DEF Halts, SC!WalkStep
<1>4. PICK a, b, c : w = [cur |-> a, chain |-> b, stopped |-> c]  BY DEF IsWalk
<1> DEFINE f == SC!IsFull(x)
<1>5. f \in BOOLEAN  BY IsFullBoolean
<1> HIDE DEF f
<1>6. v = [cur |-> IF f THEN a ELSE x.parent, chain |-> Append(b, x), stopped |-> f]
  BY <1>3, <1>4 DEF f
<1>7. b \in Seq(Elems(q))  BY <1>4 DEF IsWalk
<1>8. Append(b, x) \in Seq(Elems(q))  BY <1>7, AppendProperties
<1>9. /\ v.cur = (IF f THEN w.cur ELSE x.parent) /\ v.chain = Append(w.chain, x) /\ v.stopped = f
  BY <1>4, <1>6
<1>10. IsWalk(q, v)
  <2>1. v.chain \in Seq(Elems(q)) /\ v.stopped \in BOOLEAN  BY <1>5, <1>6, <1>8
  <2>2. v = [cur |-> v.cur, chain |-> v.chain, stopped |-> v.stopped]  BY <1>6
  <2> QED BY <2>1, <2>2 DEF IsWalk
<1> QED BY <1>2, <1>9, <1>10 DEF f

-----------------------------------------------------------------------------
(* A walk from child to parent. *)

Lineage(q, u, w) ==
    /\ IsWalk(q, w)
    /\ \A i, j \in 1..Len(w.chain) : w.chain[i].uuid = w.chain[j].uuid => i = j
    /\ \A i \in 1..(Len(w.chain) - 1) : ~ SC!IsFull(w.chain[i]) /\ w.chain[i + 1].uuid = w.chain[i].parent
    /\ Len(w.chain) = 0 => IF w.stopped THEN u \notin SC!Uuids(q) ELSE w.cur = u
    /\ Len(w.chain) > 0 =>
          /\ w.chain[1].uuid = u
          /\ ~ w.stopped => ~ SC!IsFull(w.chain[Len(w.chain)]) /\ w.cur = w.chain[Len(w.chain)].parent
          /\ w.stopped => \/ SC!IsFull(w.chain[Len(w.chain)])
                          \/ w.chain[Len(w.chain)].parent \notin SC!Uuids(q)
                          \/ \E i \in 1..Len(w.chain) : w.chain[i].uuid = w.chain[Len(w.chain)].parent

LEMMA LineageStarts == ASSUME NEW q, NEW u PROVE Lineage(q, u, SC!WalkStart(u))
<1> DEFINE w == SC!WalkStart(u)
<1>1. w = [cur |-> u, chain |-> << >>, stopped |-> FALSE]  BY DEF SC!WalkStart
<1> HIDE DEF w
<1>2. w.chain = << >> /\ w.cur = u /\ w.stopped = FALSE /\ Len(w.chain) = 0  BY <1>1
<1>3. IsWalk(q, w)
  <2>1. w.chain \in Seq(Elems(q))  BY <1>2
  <2> QED BY <1>1, <2>1 DEF IsWalk
<1>4. Lineage(q, u, w)  BY <1>2, <1>3 DEF Lineage
<1> QED BY <1>4 DEF w

LEMMA LineageGoesOn ==
    ASSUME NEW q, Listed(q), NEW u, NEW w, Lineage(q, u, w), ~ w.stopped
    PROVE  Lineage(q, u, SC!WalkStep(q, w))
<1> DEFINE v == SC!WalkStep(q, w)
<1>0. IsWalk(q, w)  BY DEF Lineage
<1>1. PICK n \in Nat : n = Len(w.chain)  BY <1>0, LenProperties DEF IsWalk
<1>2. CASE Halts(q, w)
  <2>1. IsWalk(q, v) /\ v.cur = w.cur /\ v.chain = w.chain /\ v.stopped
    BY <1>0, <1>2, HaltStep, Zenon
  <2> HIDE DEF v
  <2>2. n = 0 => u \notin SC!Uuids(q)
    <3>1. ASSUME n = 0 PROVE w.cur = u  BY <1>1, <3>1 DEF Lineage
    <3>2. ASSUME n = 0 PROVE SC!Visited(w) = {}
      <4>1. DOMAIN w.chain = 1..n  BY <1>0, <1>1, LenProperties DEF IsWalk
      <4>2. \A i \in 1..n : FALSE  BY <3>2
      <4> QED BY <4>1, <4>2 DEF SC!Visited
    <3> QED BY <1>2, <3>1, <3>2 DEF Halts
  <2>3. n > 0 => \/ w.chain[n].parent \notin SC!Uuids(q)
                 \/ \E i \in 1..n : w.chain[i].uuid = w.chain[n].parent
    <3>1. ASSUME n > 0 PROVE w.cur = w.chain[n].parent  BY <1>1, <3>1 DEF Lineage
    <3>2. DOMAIN w.chain = 1..n  BY <1>0, <1>1, LenProperties DEF IsWalk
    <3> QED BY <1>2, <3>1, <3>2 DEF Halts, SC!Visited
  <2>4. Lineage(q, u, v)  BY <1>1, <2>1, <2>2, <2>3 DEF Lineage
  <2> QED BY <2>4 DEF v
<1>3. CASE ~ Halts(q, w)
  <2>1. PICK x \in Elems(q) : /\ x = SC!BySlice(q, w.cur) /\ x.uuid = w.cur
                              /\ IsWalk(q, v)
                              /\ v.cur = IF SC!IsFull(x) THEN w.cur ELSE x.parent
                              /\ v.chain = Append(w.chain, x)
                              /\ v.stopped = SC!IsFull(x)
    <3>1. PICK z : z = v  OBVIOUS
    <3>2. z = SC!WalkStep(q, w)  BY <3>1
    <3> HIDE DEF v
    <3>3. \E x \in Elems(q) : /\ x = SC!BySlice(q, w.cur) /\ x.uuid = w.cur
                              /\ IsWalk(q, z)
                              /\ z.cur = IF SC!IsFull(x) THEN w.cur ELSE x.parent
                              /\ z.chain = Append(w.chain, x)
                              /\ z.stopped = SC!IsFull(x)
      BY <1>0, <1>3, <3>2, GoStep
    <3> QED BY <3>1, <3>3
  <2> HIDE DEF v
  <2> DEFINE c == w.chain  d == v.chain
  <2>2. c \in Seq(Elems(q)) /\ DOMAIN c = 1..n  BY <1>0, <1>1, LenProperties DEF IsWalk
  <2>3. Len(d) = n + 1 /\ d[n + 1] = x /\ \A i \in 1..n : d[i] = c[i]
    BY <1>1, <2>1, <2>2, AppendProperties
  <2>4. \A i \in 1..n : c[i].uuid # x.uuid
    BY <1>3, <2>1, <2>2 DEF Halts, SC!Visited
  <2>5. \A i, j \in 1..n : c[i].uuid = c[j].uuid => i = j  BY <1>1 DEF Lineage
  <2>6. n > 0 => ~ SC!IsFull(c[n]) /\ w.cur = c[n].parent /\ c[1].uuid = u
    BY <1>1 DEF Lineage
  <2>7. n = 0 => w.cur = u  BY <1>1 DEF Lineage
  <2>8. \A i \in 1..(n - 1) : ~ SC!IsFull(c[i]) /\ c[i + 1].uuid = c[i].parent
    BY <1>1 DEF Lineage
  <2> HIDE DEF c, d
  <2>9. \A i, j \in 1..(n + 1) : d[i].uuid = d[j].uuid => i = j
    <3>1. ASSUME NEW i \in 1..(n + 1), NEW j \in 1..(n + 1), d[i].uuid = d[j].uuid PROVE i = j
      <4>1. (i \in 1..n \/ i = n + 1) /\ (j \in 1..n \/ j = n + 1)  OBVIOUS
      <4> QED BY <2>3, <2>4, <2>5, <3>1, <4>1
    <3> QED BY <3>1
  <2>10. \A i \in 1..n : ~ SC!IsFull(d[i]) /\ d[i + 1].uuid = d[i].parent
    <3>1. ASSUME NEW i \in 1..n PROVE ~ SC!IsFull(d[i]) /\ d[i + 1].uuid = d[i].parent
      <4>1. CASE i = n  BY <2>1, <2>3, <2>6, <4>1
      <4>2. CASE i # n
        <5>1. i \in 1..(n - 1) /\ i + 1 \in 1..n  BY <4>2
        <5> QED BY <2>3, <2>8, <5>1
      <4> QED BY <4>1, <4>2
    <3> QED BY <3>1
  <2>11. d[1].uuid = u
    <3>1. CASE n = 0  BY <2>1, <2>3, <2>7, <3>1
    <3>2. CASE n > 0
      <4>1. 1 \in 1..n  BY <3>2
      <4> QED BY <2>3, <2>6, <3>2, <4>1
    <3> QED BY <3>1, <3>2
  <2>12. v.stopped <=> SC!IsFull(d[n + 1])  BY <2>1, <2>3, IsFullBoolean
  <2>13. ~ v.stopped => v.cur = d[n + 1].parent  BY <2>1, <2>3
  <2>14. Len(d) = n + 1 /\ (n + 1) - 1 = n /\ n + 1 > 0 /\ n + 1 # 0  BY <2>3
  <2>15. Lineage(q, u, v)
    <3>1. d = v.chain  BY DEF d
    <3> QED BY <2>1, <2>9, <2>10, <2>11, <2>12, <2>13, <2>14, <3>1 DEF Lineage
  <2> QED BY <2>15 DEF v
<1> QED BY <1>2, <1>3

(* The walks from u, as a set. *)
WalksFrom(q, u) ==
    {w \in [cur : {u} \cup {x.parent : x \in Elems(q)}, chain : Seq(Elems(q)), stopped : BOOLEAN] :
        Lineage(q, u, w)}

LEMMA WalkOnClosed ==
    ASSUME NEW q, Listed(q), NEW u, NEW w \in WalksFrom(q, u)
    PROVE  SC!WalkOn(q, w) \in WalksFrom(q, u)
<1> DEFINE v == SC!WalkStep(q, w)  C == {u} \cup {x.parent : x \in Elems(q)}
<1>0. Lineage(q, u, w) /\ IsWalk(q, w) /\ w.cur \in C  BY DEF WalksFrom, Lineage
<1>1. CASE w.stopped
  <2>1. SC!WalkOn(q, w) = w  BY <1>1 DEF SC!WalkOn
  <2> QED BY <2>1
<1>2. CASE ~ w.stopped
  <2>1. SC!WalkOn(q, w) = v  BY <1>2 DEF SC!WalkOn
  <2>2. Lineage(q, u, v)  BY <1>0, <1>2, LineageGoesOn
  <2>3. v.cur \in C
    <3>1. CASE Halts(q, w)
      <4>1. v.cur = w.cur  BY <1>0, <3>1, HaltStep, Zenon
      <4> QED BY <1>0, <4>1
    <3>2. CASE ~ Halts(q, w)
      <4>1. PICK z : z = v  OBVIOUS
      <4>2. z = SC!WalkStep(q, w)  BY <4>1
      <4> HIDE DEF v
      <4>3. \E x \in Elems(q) : z.cur = IF SC!IsFull(x) THEN w.cur ELSE x.parent
        BY <1>0, <3>2, <4>2, GoStep
      <4> QED BY <1>0, <4>1, <4>3
    <3> QED BY <3>1, <3>2
  <2> HIDE DEF v, C
  <2>4. IsWalk(q, v)  BY <2>2 DEF Lineage
  <2>5. v \in [cur : C, chain : Seq(Elems(q)), stopped : BOOLEAN]
    <3>1. PICK a, b, c : a = v.cur /\ b = v.chain /\ c = v.stopped  OBVIOUS
    <3>2. v = [cur |-> a, chain |-> b, stopped |-> c] /\ b \in Seq(Elems(q)) /\ c \in BOOLEAN
      BY <2>4, <3>1 DEF IsWalk
    <3> QED BY <2>3, <3>1, <3>2
  <2> QED BY <2>1, <2>2, <2>5 DEF WalksFrom, C
<1>3. w.stopped \in BOOLEAN  BY <1>0 DEF IsWalk
<1> QED BY <1>1, <1>2, <1>3

LEMMA WalkGets ==
    ASSUME NEW q, Listed(q), NEW u \in SC!Uuids(q), NEW w, Lineage(q, u, w)
    PROVE  Len(SC!WalkOn(q, w).chain) > 0
<1> DEFINE v == SC!WalkStep(q, w)
<1>0. IsWalk(q, w)  BY DEF Lineage
<1>1. PICK n \in Nat : n = Len(w.chain)  BY <1>0, LenProperties DEF IsWalk
<1>2. CASE w.stopped
  <2>1. SC!WalkOn(q, w) = w  BY <1>2 DEF SC!WalkOn
  <2>2. n # 0  BY <1>1, <1>2 DEF Lineage
  <2> QED BY <1>1, <2>1, <2>2
<1>3. CASE ~ w.stopped
  <2>1. SC!WalkOn(q, w) = v  BY <1>3 DEF SC!WalkOn
  <2>2. CASE Halts(q, w)
    <3>1. v.chain = w.chain  BY <1>0, <2>2, HaltStep, Zenon
    <3>2. n # 0
      <4> SUFFICES ASSUME n = 0 PROVE FALSE  OBVIOUS
      <4>1. w.cur = u  BY <1>1, <1>3 DEF Lineage
      <4>2. DOMAIN w.chain = 1..n  BY <1>0, <1>1, LenProperties DEF IsWalk
      <4>3. \A i \in 1..n : FALSE  OBVIOUS
      <4>4. SC!Visited(w) = {}  BY <4>2, <4>3 DEF SC!Visited
      <4> QED BY <2>2, <4>1, <4>4 DEF Halts
    <3> HIDE DEF v
    <3> QED BY <1>1, <2>1, <3>1, <3>2
  <2>3. CASE ~ Halts(q, w)
    <3>1. PICK z : z = v  OBVIOUS
    <3>2. z = SC!WalkStep(q, w)  BY <3>1
    <3> HIDE DEF v
    <3>3. \E x \in Elems(q) : z.chain = Append(w.chain, x)
      BY <1>0, <2>3, <3>2, GoStep
    <3>4. w.chain \in Seq(Elems(q))  BY <1>0 DEF IsWalk
    <3>5. Len(z.chain) = n + 1  BY <1>1, <3>3, <3>4, AppendProperties
    <3> QED BY <2>1, <3>1, <3>5
  <2> QED BY <2>2, <2>3
<1>4. w.stopped \in BOOLEAN  BY <1>0 DEF IsWalk
<1> QED BY <1>2, <1>3, <1>4

LEMMA WalkChainIs ==
    ASSUME NEW q, Listed(q), NEW u \in SC!Uuids(q)
    PROVE  \E w \in WalksFrom(q, u) : SC!WalkChain(q, u) = w.chain /\ Len(w.chain) > 0
<1> DEFINE S == WalksFrom(q, u)
           a == SC!WalkStart(u)
           g == [i \in 1..(Len(q) + 1) |-> [w \in S |-> SC!WalkOn(q, w)]]
           Eq(z) == z = [k \in 0..(Len(q) + 1) |-> IF k = 0 THEN a ELSE SC!WalkOn(q, z[k - 1])]
<1>0. PICK n \in Nat : n = Len(q) + 1 /\ n > 0
  <2>1. Len(q) \in Nat  BY LenProperties DEF Listed
  <2> QED BY <2>1
<1>1. a \in S
  <2>1. Lineage(q, u, a)  BY LineageStarts
  <2>2. a = [cur |-> u, chain |-> << >>, stopped |-> FALSE]  BY DEF SC!WalkStart
  <2>3. << >> \in Seq(Elems(q))  OBVIOUS
  <2> HIDE DEF a
  <2>4. a \in [cur : {u} \cup {x.parent : x \in Elems(q)}, chain : Seq(Elems(q)), stopped : BOOLEAN]
    BY <2>2, <2>3
  <2> QED BY <2>1, <2>4 DEF WalksFrom
<1>2. \A w \in S : SC!WalkOn(q, w) \in S  BY WalkOnClosed
<1>3. g \in [1..n -> [S -> S]]
  <2> HIDE DEF S
  <2> QED BY <1>0, <1>2
<1>4. PICK f : Steps(f, n, S, a, g)
  <2> HIDE DEF g, S, a
  <2> QED BY <1>1, <1>3, Recursion
<1> HIDE DEF S, a
<1>5. f \in [0..n -> S] /\ Eq(f)
  <2>1. f \in [0..n -> S] /\ f = [i \in 0..n |-> IF i = 0 THEN a ELSE g[i][f[i - 1]]]
    BY <1>4 DEF Steps
  <2>2. \A i \in 1..n : i - 1 \in 0..n  OBVIOUS
  <2>3. \A i \in 1..n : f[i - 1] \in S  BY <2>1, <2>2
  <2>4. \A i \in 1..n : g[i][f[i - 1]] = SC!WalkOn(q, f[i - 1])  BY <1>0, <2>3
  <2>5. \A i \in 0..n : i = 0 \/ i \in 1..n  OBVIOUS
  <2> HIDE DEF g
  <2> QED BY <1>0, <2>1, <2>4, <2>5
<1> DEFINE c == CHOOSE z : Eq(z)
<1>6. Eq(c)
  <2> HIDE DEF Eq
  <2> QED BY <1>5
<1>7. SC!WalkChain(q, u) = c[Len(q) + 1].chain  BY DEF SC!WalkChain, a
<1> HIDE DEF c
<1>8. c[0] = a /\ \A i \in 1..n : c[i] = SC!WalkOn(q, c[i - 1])
  <2>1. \A i \in 0..n : c[i] = IF i = 0 THEN a ELSE SC!WalkOn(q, c[i - 1])  BY <1>0, <1>6, Zenon
  <2>2. 0 \in 0..n /\ \A i \in 1..n : i \in 0..n /\ i # 0  OBVIOUS
  <2> QED BY <2>1, <2>2
<1> HIDE DEF Eq
<1> DEFINE T == {i \in 0..n : c[i] \in S}
<1>9. 0..n \subseteq T
  <2>1. 0 \in T  BY <1>1, <1>8
  <2>2. ASSUME NEW i \in 0..(n - 1), i \in T PROVE i + 1 \in T
    <3>1. i + 1 \in 1..n /\ (i + 1) - 1 = i /\ i + 1 \in 0..n  OBVIOUS
    <3>2. c[i] \in S  BY <2>2
    <3>3. c[i + 1] = SC!WalkOn(q, c[i])  BY <1>8, <3>1
    <3> QED BY <1>2, <3>1, <3>2, <3>3
  <2> HIDE DEF T
  <2> QED BY <2>1, <2>2, AllUpTo
<1>10. c[n] \in S /\ c[n - 1] \in S
  <2>1. n \in 0..n /\ n - 1 \in 0..n  BY <1>0
  <2> QED BY <1>9, <2>1
<1>11. c[n] = SC!WalkOn(q, c[n - 1])
  <2>1. n \in 1..n  BY <1>0
  <2> QED BY <1>8, <2>1
<1>12. Lineage(q, u, c[n - 1])  BY <1>10 DEF S, WalksFrom
<1>13. Len(c[n].chain) > 0  BY <1>11, <1>12, WalkGets
<1> QED BY <1>0, <1>7, <1>10, <1>13 DEF S

-----------------------------------------------------------------------------
(* The slice that each walk ends in: a full backup's own ends at once. *)

IsEnds(q, end) ==
    /\ end \in [DOMAIN q -> DOMAIN q]
    /\ \A k \in DOMAIN q : /\ Last(SC!WalkChain(q, q[k].uuid)) = q[end[k]]
                           /\ SC!IsFull(q[k]) => end[k] = k
                           /\ \A f \in DOMAIN q : SC!EndsIn(q, k, f) <=> end[k] = f

LEMMA EndIs ==
    ASSUME NEW q, Listed(q), NEW k \in DOMAIN q
    PROVE  \E e \in DOMAIN q :
              /\ Last(SC!WalkChain(q, q[k].uuid)) = q[e]
              /\ SC!IsFull(q[k]) => e = k
              /\ \A f \in DOMAIN q : SC!EndsIn(q, k, f) <=> e = f
<1>1. q[k].uuid \in SC!Uuids(q)  BY BySliceIs
<1>2. PICK w \in WalksFrom(q, q[k].uuid) :
        SC!WalkChain(q, q[k].uuid) = w.chain /\ Len(w.chain) > 0
  BY <1>1, WalkChainIs
<1>3. Lineage(q, q[k].uuid, w)  BY <1>2 DEF WalksFrom
<1>4. PICK c : c = w.chain  OBVIOUS
<1>5. c \in Seq(Elems(q))  BY <1>3, <1>4 DEF Lineage, IsWalk
<1>6. PICK n \in Nat : n = Len(c) /\ n > 0 /\ DOMAIN c = 1..n
  BY <1>2, <1>4, <1>5, LenProperties
<1>7. n \in 1..n /\ 1 \in 1..n  BY <1>6
<1>8. c[n] \in Elems(q) /\ c[1] \in Elems(q)  BY <1>5, <1>6, <1>7, ElementOfSeq
<1>9. PICK e \in DOMAIN q : c[n] = q[e]  BY <1>8 DEF Elems
<1>10. c[1].uuid = q[k].uuid /\ \A i \in 1..(n - 1) : ~ SC!IsFull(c[i])
  BY <1>3, <1>4, <1>6 DEF Lineage
<1>11. Last(c) = q[e]  BY <1>6, <1>9 DEF Last
<1>12. c[1] = q[k]
  <2>1. PICK l \in DOMAIN q : c[1] = q[l]  BY <1>8 DEF Elems
  <2>2. l = k  BY <1>10, <2>1 DEF Listed
  <2> QED BY <2>1, <2>2
<1>13. ASSUME SC!IsFull(q[k]) PROVE e = k
  <2>1. ~ (1 \in 1..(n - 1))  BY <1>10, <1>12, <1>13
  <2>2. n = 1  BY <1>6, <2>1
  <2>3. q[e].uuid = q[k].uuid  BY <1>9, <1>12, <2>2
  <2> QED BY <2>3 DEF Listed
<1>14. c # << >>
  <2>1. Len(<< >>) = 0  OBVIOUS
  <2> QED BY <1>6, <2>1
<1>15. ASSUME NEW f \in DOMAIN q PROVE SC!EndsIn(q, k, f) <=> e = f
  <2>1. SC!EndsIn(q, k, f) <=> q[e].uuid = q[f].uuid
    <3>1. PICK z : z = SC!WalkChain(q, q[k].uuid)  OBVIOUS
    <3>2. SC!EndsIn(q, k, f) <=> z # << >> /\ Last(z).uuid = q[f].uuid  BY <3>1 DEF SC!EndsIn, SC!Last, Last
    <3>3. z = c  BY <1>2, <1>4, <3>1
    <3> QED BY <1>11, <1>14, <3>2, <3>3
  <2>2. q[e].uuid = q[f].uuid <=> e = f  BY DEF Listed
  <2> QED BY <2>1, <2>2
<1>16. Last(SC!WalkChain(q, q[k].uuid)) = q[e]  BY <1>2, <1>4, <1>11
<1> QED BY <1>13, <1>15, <1>16

LEMMA EndsAre == ASSUME NEW q, Listed(q) PROVE \E end : IsEnds(q, end)
<1> DEFINE Good(k, e) == /\ Last(SC!WalkChain(q, q[k].uuid)) = q[e]
                         /\ SC!IsFull(q[k]) => e = k
                         /\ \A f \in DOMAIN q : SC!EndsIn(q, k, f) <=> e = f
           end == [k \in DOMAIN q |-> CHOOSE e \in DOMAIN q : Good(k, e)]
<1>1. \A k \in DOMAIN q : \E e \in DOMAIN q : Good(k, e)  BY EndIs
<1>2. \A k \in DOMAIN q : end[k] \in DOMAIN q /\ Good(k, end[k])
  <2> HIDE DEF Good
  <2> QED BY <1>1
<1>3. end \in [DOMAIN q -> DOMAIN q]
  <2>1. end = [k \in DOMAIN q |-> end[k]]  BY DEF end
  <2> HIDE DEF end, Good
  <2> QED BY <1>2, <2>1
<1> HIDE DEF end
<1>4. IsEnds(q, end)  BY <1>2, <1>3 DEF IsEnds
<1> QED BY <1>4

-----------------------------------------------------------------------------
(* The chains that are collected. *)

Basin(q, end, f) == {k \in DOMAIN q : end[k] = f}

(* Of the first m slices, each full backup has its chain, and there are no   *)
(* others; the slices in them are the ones used.                             *)
Gathered(q, end, m, c) ==
    /\ \A i \in DOMAIN c.chains : \E f \in 1..m : SC!IsFull(q[f]) /\ c.chains[i] = Basin(q, end, f)
    /\ \A f \in 1..m : SC!IsFull(q[f]) => \E i \in DOMAIN c.chains : c.chains[i] = Basin(q, end, f)
    /\ \A i, j \in DOMAIN c.chains : c.chains[i] = c.chains[j] => i = j
    /\ \A k \in DOMAIN q : q[k].uuid \in c.used <=> end[k] \in 1..m /\ SC!IsFull(q[end[k]])

Gatherings(q) == [chains : Seq(SUBSET DOMAIN q), used : SUBSET SC!Uuids(q)]

LEMMA CollectClosed ==
    ASSUME NEW q, NEW f \in DOMAIN q, NEW c \in Gatherings(q)
    PROVE  SC!Collect(q, c, f) \in Gatherings(q)
<1>1. CASE ~ SC!IsFull(q[f])
  <2>1. SC!Collect(q, c, f) = c  BY <1>1 DEF SC!Collect
  <2> QED BY <2>1
<1>2. CASE SC!IsFull(q[f])
  <2> DEFINE b == {k \in DOMAIN q : SC!Member(q, c.used, f, k)}
             w == {q[k].uuid : k \in b}
  <2>1. SC!Collect(q, c, f) = [chains |-> Append(c.chains, b), used |-> c.used \cup w]
    BY <1>2 DEF SC!Collect
  <2>2. b \in SUBSET DOMAIN q  OBVIOUS
  <2>3. w \in SUBSET SC!Uuids(q)  BY DEF SC!Uuids
  <2> HIDE DEF b, w
  <2>4. c.chains \in Seq(SUBSET DOMAIN q) /\ c.used \in SUBSET SC!Uuids(q)  BY DEF Gatherings
  <2>5. Append(c.chains, b) \in Seq(SUBSET DOMAIN q)  BY <2>2, <2>4, AppendProperties
  <2>6. c.used \cup w \in SUBSET SC!Uuids(q)  BY <2>3, <2>4
  <2> QED BY <2>1, <2>5, <2>6 DEF Gatherings
<1> QED BY <1>1, <1>2

LEMMA CollectStep ==
    ASSUME NEW q, Listed(q), NEW end, IsEnds(q, end), NEW f \in DOMAIN q, f \in Nat, f > 0,
           NEW c \in Gatherings(q), Gathered(q, end, f - 1, c)
    PROVE  Gathered(q, end, f, SC!Collect(q, c, f))
<1> DEFINE d == SC!Collect(q, c, f)
<1>0. DOMAIN q \subseteq Nat
  <2>1. DOMAIN q = 1..Len(q) /\ Len(q) \in Nat  BY LenProperties DEF Listed
  <2> QED BY <2>1
<1>1. \A k \in DOMAIN q : end[k] \in DOMAIN q /\ end[k] \in Nat  BY <1>0 DEF IsEnds
<1>2. CASE ~ SC!IsFull(q[f])
  <2>1. d = c  BY <1>2 DEF SC!Collect
  <2>2. \A i \in 1..f : SC!IsFull(q[i]) => i \in 1..(f - 1)  BY <1>2
  <2>3. 1..(f - 1) \subseteq 1..f  OBVIOUS
  <2> HIDE DEF d
  <2>4. Gathered(q, end, f, d)
    <3>1. \A i \in DOMAIN c.chains : \E g \in 1..f : SC!IsFull(q[g]) /\ c.chains[i] = Basin(q, end, g)
      BY <2>3 DEF Gathered
    <3>2. \A g \in 1..f : SC!IsFull(q[g]) => \E i \in DOMAIN c.chains : c.chains[i] = Basin(q, end, g)
      BY <2>2 DEF Gathered
    <3>3. \A i, j \in DOMAIN c.chains : c.chains[i] = c.chains[j] => i = j  BY DEF Gathered
    <3>4. \A k \in DOMAIN q : q[k].uuid \in c.used <=> end[k] \in 1..f /\ SC!IsFull(q[end[k]])
      BY <2>2, <2>3 DEF Gathered
    <3> QED BY <2>1, <3>1, <3>2, <3>3, <3>4 DEF Gathered
  <2> QED BY <2>4 DEF d
<1>3. CASE SC!IsFull(q[f])
  <2> DEFINE b == {k \in DOMAIN q : SC!Member(q, c.used, f, k)}
             w == {q[k].uuid : k \in b}
  <2>1. d = [chains |-> Append(c.chains, b), used |-> c.used \cup w]
    BY <1>3 DEF SC!Collect
  <2>2. end[f] = f  BY <1>3 DEF IsEnds
  <2>3. b = Basin(q, end, f)
    <3>1. ASSUME NEW k \in DOMAIN q PROVE SC!Member(q, c.used, f, k) <=> end[k] = f
      <4>1. SC!EndsIn(q, k, f) <=> end[k] = f  BY DEF IsEnds
      <4>2. end[k] = f => q[k].uuid \notin c.used
        <5>1. ~ (f \in 1..(f - 1))  OBVIOUS
        <5> QED BY <5>1 DEF Gathered
      <4>3. k = f => end[k] = f  BY <2>2
      <4> QED BY <4>1, <4>2, <4>3 DEF SC!Member
    <3> QED BY <3>1 DEF Basin
  <2>4. \A k \in DOMAIN q : q[k].uuid \in w <=> end[k] = f
    <3>1. ASSUME NEW k \in DOMAIN q, q[k].uuid \in w PROVE end[k] = f
      <4>1. PICK l \in b : q[l].uuid = q[k].uuid  BY <3>1
      <4>2. l = k  BY <4>1 DEF Listed
      <4> QED BY <2>3, <4>1, <4>2 DEF Basin
    <3>2. ASSUME NEW k \in DOMAIN q, end[k] = f PROVE q[k].uuid \in w
      <4>1. k \in b  BY <2>3, <3>2 DEF Basin
      <4> QED BY <4>1
    <3> QED BY <3>1, <3>2
  <2> HIDE DEF b, w, d
  <2>5. c.chains \in Seq(SUBSET DOMAIN q)  BY DEF Gatherings
  <2>6. PICK n \in Nat : n = Len(c.chains) /\ DOMAIN c.chains = 1..n  BY <2>5, LenProperties
  <2> DEFINE e == d.chains
  <2>7. e = Append(c.chains, b) /\ d.used = c.used \cup w  BY <2>1
  <2>8. b \in SUBSET DOMAIN q  BY <2>3 DEF Basin
  <2>9. /\ Len(e) = n + 1 /\ e[n + 1] = b /\ \A i \in 1..n : e[i] = c.chains[i]
        /\ DOMAIN e = 1..(n + 1)
    <3>1. e \in Seq(SUBSET DOMAIN q) /\ Len(e) = n + 1 /\ e[n + 1] = b
          /\ \A i \in 1..n : e[i] = c.chains[i]
      <4> HIDE DEF e
      <4> QED BY <2>5, <2>6, <2>7, <2>8, AppendProperties
    <3> HIDE DEF e
    <3> QED BY <3>1, LenProperties
  <2>10. f \in b  BY <2>2, <2>3 DEF Basin
  <2>11. \A i \in 1..n : e[i] # b
    <3> SUFFICES ASSUME NEW i \in 1..n, e[i] = b PROVE FALSE  OBVIOUS
    <3>1. PICK g \in 1..(f - 1) : c.chains[i] = Basin(q, end, g)  BY <2>6 DEF Gathered
    <3>2. f \in Basin(q, end, g)  BY <2>9, <2>10, <3>1
    <3>3. end[f] = g  BY <3>2 DEF Basin
    <3> QED BY <2>2, <3>1, <3>3
  <2>12. \A i \in 1..(n + 1) : i \in 1..n \/ i = n + 1  OBVIOUS
  <2>13. \A g \in 1..f : g \in 1..(f - 1) \/ g = f  OBVIOUS
  <2>14. 1..(f - 1) \subseteq 1..f /\ f \in 1..f /\ 1..n \subseteq 1..(n + 1) /\ n + 1 \in 1..(n + 1)
    OBVIOUS
  <2> HIDE DEF e
  <2>15. \A i \in DOMAIN e : \E g \in 1..f : SC!IsFull(q[g]) /\ e[i] = Basin(q, end, g)
    <3> SUFFICES ASSUME NEW i \in 1..(n + 1)
                 PROVE  \E g \in 1..f : SC!IsFull(q[g]) /\ e[i] = Basin(q, end, g)
      BY <2>9
    <3>1. CASE i \in 1..n
      <4>1. PICK g \in 1..(f - 1) : SC!IsFull(q[g]) /\ c.chains[i] = Basin(q, end, g)
        BY <2>6, <3>1 DEF Gathered
      <4> QED BY <2>9, <2>14, <3>1, <4>1
    <3>2. CASE i = n + 1  BY <1>3, <2>3, <2>9, <2>14, <3>2
    <3> QED BY <2>12, <3>1, <3>2
  <2>16. \A g \in 1..f : SC!IsFull(q[g]) => \E i \in DOMAIN e : e[i] = Basin(q, end, g)
    <3> SUFFICES ASSUME NEW g \in 1..f, SC!IsFull(q[g])
                 PROVE  \E i \in DOMAIN e : e[i] = Basin(q, end, g)
      OBVIOUS
    <3>1. CASE g = f  BY <2>3, <2>9, <2>14, <3>1
    <3>2. CASE g \in 1..(f - 1)
      <4>1. PICK i \in 1..n : c.chains[i] = Basin(q, end, g)  BY <2>6, <3>2 DEF Gathered
      <4> QED BY <2>9, <2>14, <4>1
    <3> QED BY <2>13, <3>1, <3>2
  <2>17. \A i, j \in DOMAIN e : e[i] = e[j] => i = j
    <3> SUFFICES ASSUME NEW i \in 1..(n + 1), NEW j \in 1..(n + 1), e[i] = e[j] PROVE i = j
      BY <2>9
    <3>1. CASE i \in 1..n /\ j \in 1..n
      <4>1. c.chains[i] = c.chains[j]  BY <2>9, <3>1
      <4> QED BY <2>6, <3>1, <4>1 DEF Gathered
    <3> QED BY <2>9, <2>11, <2>12, <3>1
  <2>18. \A k \in DOMAIN q : q[k].uuid \in d.used <=> end[k] \in 1..f /\ SC!IsFull(q[end[k]])
    <3> SUFFICES ASSUME NEW k \in DOMAIN q
                 PROVE  q[k].uuid \in d.used <=> end[k] \in 1..f /\ SC!IsFull(q[end[k]])
      OBVIOUS
    <3>1. q[k].uuid \in c.used <=> end[k] \in 1..(f - 1) /\ SC!IsFull(q[end[k]])  BY DEF Gathered
    <3>2. q[k].uuid \in w <=> end[k] = f  BY <2>4
    <3> QED BY <1>3, <2>7, <2>13, <2>14, <3>1, <3>2
  <2>19. Gathered(q, end, f, d)  BY <2>15, <2>16, <2>17, <2>18 DEF Gathered, e
  <2> QED BY <2>19 DEF d
<1> QED BY <1>2, <1>3

LEMMA CollectedIs ==
    ASSUME NEW q, Listed(q), NEW end, IsEnds(q, end)
    PROVE  \E c \in Gatherings(q) : SC!Collected(q) = c /\ Gathered(q, end, Len(q), c)
<1> DEFINE S == Gatherings(q)
           a == [chains |-> << >>, used |-> {}]
           g == [i \in 1..Len(q) |-> [c \in S |-> SC!Collect(q, c, i)]]
           Eq(z) == z = [k \in 0..Len(q) |-> IF k = 0 THEN a ELSE SC!Collect(q, z[k - 1], k)]
<1>0. PICK n \in Nat : n = Len(q) /\ DOMAIN q = 1..n
  BY LenProperties DEF Listed
<1>1. a \in S
  <2>1. << >> \in Seq(SUBSET DOMAIN q) /\ {} \in SUBSET SC!Uuids(q)  OBVIOUS
  <2> QED BY <2>1 DEF Gatherings
<1>2. \A i \in 1..n : \A c \in S : SC!Collect(q, c, i) \in S  BY <1>0, CollectClosed
<1>3. g \in [1..n -> [S -> S]]
  <2> HIDE DEF S
  <2> QED BY <1>0, <1>2
<1>4. PICK f : Steps(f, n, S, a, g)
  <2> HIDE DEF g, S, a
  <2> QED BY <1>1, <1>3, Recursion
<1>40. a.chains = << >> /\ a.used = {}  OBVIOUS
<1> HIDE DEF S, a
<1>5. f \in [0..n -> S] /\ Eq(f)
  <2>1. f \in [0..n -> S] /\ f = [i \in 0..n |-> IF i = 0 THEN a ELSE g[i][f[i - 1]]]
    BY <1>4 DEF Steps
  <2>2. \A i \in 1..n : i - 1 \in 0..n  OBVIOUS
  <2>3. \A i \in 1..n : f[i - 1] \in S  BY <2>1, <2>2
  <2>4. \A i \in 1..n : g[i][f[i - 1]] = SC!Collect(q, f[i - 1], i)  BY <1>0, <2>3
  <2>5. \A i \in 0..n : i = 0 \/ i \in 1..n  OBVIOUS
  <2> HIDE DEF g
  <2> QED BY <1>0, <2>1, <2>4, <2>5
<1> DEFINE c == CHOOSE z : Eq(z)
<1>6. Eq(c)
  <2> HIDE DEF Eq
  <2> QED BY <1>5
<1>7. SC!Collected(q) = c[Len(q)]  BY DEF SC!Collected, a
<1> HIDE DEF c
<1>8. c[0] = a /\ \A i \in 1..n : c[i] = SC!Collect(q, c[i - 1], i)
  <2>1. \A i \in 0..n : c[i] = IF i = 0 THEN a ELSE SC!Collect(q, c[i - 1], i)  BY <1>0, <1>6, Zenon
  <2>2. 0 \in 0..n /\ \A i \in 1..n : i \in 0..n /\ i # 0  OBVIOUS
  <2> QED BY <2>1, <2>2
<1> HIDE DEF Eq
<1> DEFINE T == {i \in 0..n : c[i] \in S /\ Gathered(q, end, i, c[i])}
<1>9. 0..n \subseteq T
  <2>1. 0 \in T
    <3>1. DOMAIN a.chains = {} /\ 1..0 = {}  BY <1>40
    <3>2. \A k \in DOMAIN q : q[k].uuid \notin a.used /\ ~ (end[k] \in 1..0)  BY <1>40, <3>1
    <3>3. Gathered(q, end, 0, a)  BY <3>1, <3>2 DEF Gathered
    <3> QED BY <1>1, <1>8, <3>3
  <2>2. ASSUME NEW i \in 0..(n - 1), i \in T PROVE i + 1 \in T
    <3>1. i + 1 \in 1..n /\ (i + 1) - 1 = i /\ i + 1 \in 0..n /\ i + 1 \in Nat /\ i + 1 > 0
      OBVIOUS
    <3>2. c[i] \in S /\ Gathered(q, end, i, c[i])  BY <2>2
    <3>3. c[i + 1] = SC!Collect(q, c[i], i + 1)  BY <1>8, <3>1
    <3>4. c[i + 1] \in S  BY <1>2, <3>1, <3>2, <3>3
    <3>5. Gathered(q, end, i + 1, c[i + 1])
      <4>1. Gathered(q, end, (i + 1) - 1, c[i])  BY <3>1, <3>2
      <4>2. i + 1 \in DOMAIN q /\ c[i] \in Gatherings(q)  BY <1>0, <3>1, <3>2 DEF S
      <4>3. Gathered(q, end, i + 1, SC!Collect(q, c[i], i + 1))
        BY <3>1, <4>1, <4>2, CollectStep, Zenon
      <4> QED BY <3>3, <4>3
    <3> QED BY <3>1, <3>4, <3>5
  <2> HIDE DEF T
  <2> QED BY <2>1, <2>2, AllUpTo
<1>10. c[n] \in S /\ Gathered(q, end, n, c[n])
  <2>1. n \in 0..n  OBVIOUS
  <2> QED BY <1>9, <2>1
<1> QED BY <1>0, <1>7, <1>10 DEF S

(* Every chain is that of a full backup, or of those that have none; and     *)
(* no two are the same.                                                      *)
Parted(q, end, ch) ==
    /\ \A k \in DOMAIN ch :
          \/ \E f \in DOMAIN q : SC!IsFull(q[f]) /\ ch[k] = Basin(q, end, f)
          \/ ch[k] = {i \in DOMAIN q : ~ SC!IsFull(q[end[i]])}
    /\ \A i \in DOMAIN q : \E k \in DOMAIN ch : i \in ch[k]
    /\ \A k, l \in DOMAIN ch : ch[k] = ch[l] => k = l

LEMMA ChainsParted ==
    ASSUME NEW q, Listed(q), NEW end, IsEnds(q, end)
    PROVE  Parted(q, end, SC!IterChains(q))
<1>1. PICK c \in Gatherings(q) : SC!Collected(q) = c /\ Gathered(q, end, Len(q), c)
  BY CollectedIs
<1>2. PICK m \in Nat : m = Len(q) /\ DOMAIN q = 1..m  BY LenProperties DEF Listed
<1>3. Gathered(q, end, m, c)  BY <1>1, <1>2
<1> DEFINE b == {k \in DOMAIN q : q[k].uuid \notin c.used}
           o == {i \in DOMAIN q : ~ SC!IsFull(q[end[i]])}
           ch == SC!IterChains(q)
<1>4. \A i \in DOMAIN q : end[i] \in DOMAIN q  BY DEF IsEnds
<1>5. b = o  BY <1>2, <1>3, <1>4 DEF Gathered
<1>6. ch = IF b = {} THEN c.chains ELSE Append(c.chains, b)  BY <1>1 DEF SC!IterChains
<1> HIDE DEF b, o, ch
<1>7. PICK s : s = c.chains  OBVIOUS
<1>8. s \in Seq(SUBSET DOMAIN q)  BY <1>7 DEF Gatherings
<1>9. PICK n \in Nat : n = Len(s) /\ DOMAIN s = 1..n  BY <1>8, LenProperties
<1>10. \A k \in 1..n : \E f \in DOMAIN q : SC!IsFull(q[f]) /\ s[k] = Basin(q, end, f)
  BY <1>2, <1>3, <1>7, <1>9 DEF Gathered
<1>11. \A i \in DOMAIN q : SC!IsFull(q[end[i]]) => \E k \in 1..n : i \in s[k]
  <2> SUFFICES ASSUME NEW i \in DOMAIN q, SC!IsFull(q[end[i]]) PROVE \E k \in 1..n : i \in s[k]
    OBVIOUS
  <2>1. PICK k \in 1..n : s[k] = Basin(q, end, end[i])
    BY <1>2, <1>3, <1>4, <1>7, <1>9 DEF Gathered
  <2>2. i \in Basin(q, end, end[i])  BY DEF Basin
  <2> QED BY <2>1, <2>2
<1>12. \A k, l \in 1..n : s[k] = s[l] => k = l  BY <1>3, <1>7, <1>9 DEF Gathered
<1>13. CASE o = {}
  <2>1. ch = s /\ DOMAIN ch = 1..n  BY <1>5, <1>6, <1>7, <1>9, <1>13
  <2>2. \A i \in DOMAIN q : SC!IsFull(q[end[i]])  BY <1>13 DEF o
  <2>3. Parted(q, end, ch)  BY <1>10, <1>11, <1>12, <2>1, <2>2 DEF Parted
  <2> QED BY <2>3 DEF ch
<1>14. CASE o # {}
  <2>1. ch = Append(s, o)  BY <1>5, <1>6, <1>7, <1>14
  <2>2. o \in SUBSET DOMAIN q  BY DEF o
  <2>3. /\ ch \in Seq(SUBSET DOMAIN q) /\ Len(ch) = n + 1 /\ ch[n + 1] = o
        /\ \A k \in 1..n : ch[k] = s[k]
    BY <1>8, <1>9, <2>1, <2>2, AppendProperties
  <2>4. DOMAIN ch = 1..(n + 1)  BY <2>3, LenProperties
  <2>5. \A k \in 1..(n + 1) : k \in 1..n \/ k = n + 1  OBVIOUS
  <2>6. 1..n \subseteq 1..(n + 1) /\ n + 1 \in 1..(n + 1)  OBVIOUS
  <2>7. \A k \in 1..n : s[k] # o
    <3> SUFFICES ASSUME NEW k \in 1..n, s[k] = o PROVE FALSE  OBVIOUS
    <3>1. PICK f \in DOMAIN q : SC!IsFull(q[f]) /\ s[k] = Basin(q, end, f)  BY <1>10
    <3>2. end[f] = f  BY <3>1 DEF IsEnds
    <3>3. f \in o  BY <3>1, <3>2 DEF Basin
    <3> QED BY <3>1, <3>2, <3>3 DEF o
  <2>8. \A k \in DOMAIN ch : \/ \E f \in DOMAIN q : SC!IsFull(q[f]) /\ ch[k] = Basin(q, end, f)
                             \/ ch[k] = o
    BY <1>10, <2>3, <2>4, <2>5
  <2>9. \A i \in DOMAIN q : \E k \in DOMAIN ch : i \in ch[k]
    <3> SUFFICES ASSUME NEW i \in DOMAIN q PROVE \E k \in 1..(n + 1) : i \in ch[k]  BY <2>4
    <3>1. CASE SC!IsFull(q[end[i]])
      <4>1. PICK k \in 1..n : i \in s[k]  BY <1>11, <3>1
      <4> QED BY <2>3, <2>6, <4>1
    <3>2. CASE ~ SC!IsFull(q[end[i]])
      <4>1. i \in o  BY <3>2 DEF o
      <4> QED BY <2>3, <2>6, <4>1
    <3> QED BY <3>1, <3>2
  <2>10. \A k, l \in DOMAIN ch : ch[k] = ch[l] => k = l
    <3> SUFFICES ASSUME NEW k \in 1..(n + 1), NEW l \in 1..(n + 1), ch[k] = ch[l] PROVE k = l
      BY <2>4
    <3>1. CASE k \in 1..n /\ l \in 1..n  BY <1>12, <2>3, <3>1
    <3> QED BY <2>3, <2>5, <2>7, <3>1
  <2>11. Parted(q, end, ch)  BY <2>8, <2>9, <2>10 DEF Parted, o
  <2> QED BY <2>11 DEF ch
<1> QED BY <1>13, <1>14

Sorted(q, ch) ==
    /\ \A i \in DOMAIN q : Cardinality({k \in DOMAIN ch : i \in ch[k]}) = 1
    /\ \A k \in DOMAIN ch : \A i \in ch[k] :
          LET last == Last(SC!WalkChain(q, q[i].uuid))
              fulls == {j \in ch[k] : SC!IsFull(q[j])}
          IN IF SC!IsFull(last) THEN fulls = {j \in DOMAIN q : q[j] = last} ELSE fulls = {}

LEMMA ChainsSorted == ASSUME NEW q, Listed(q) PROVE Sorted(q, SC!IterChains(q))
<1>1. PICK end : IsEnds(q, end)  BY EndsAre
<1>2. PICK ch : ch = SC!IterChains(q)  OBVIOUS
<1>3. Parted(q, end, ch)  BY <1>1, <1>2, ChainsParted
<1>4. end \in [DOMAIN q -> DOMAIN q] /\ \A k \in DOMAIN q : SC!IsFull(q[k]) => end[k] = k
  BY <1>1 DEF IsEnds
<1> DEFINE o == {i \in DOMAIN q : ~ SC!IsFull(q[end[i]])}
<1>5. ASSUME NEW k \in DOMAIN ch
      PROVE  \/ \E f \in DOMAIN q : SC!IsFull(q[f]) /\ ch[k] = Basin(q, end, f)
             \/ ch[k] = o
  BY <1>3 DEF Parted
<1>6. ASSUME NEW i \in DOMAIN q PROVE Cardinality({k \in DOMAIN ch : i \in ch[k]}) = 1
  <2>1. PICK k \in DOMAIN ch : i \in ch[k]  BY <1>3 DEF Parted
  <2>2. ASSUME NEW l \in DOMAIN ch, i \in ch[l] PROVE ch[l] = ch[k]
    <3>1. CASE SC!IsFull(q[end[i]])
      <4>1. i \notin o  BY <3>1
      <4> HIDE DEF o
      <4>2. PICK f : ch[k] = Basin(q, end, f)  BY <1>5, <2>1, <4>1
      <4>3. PICK g : ch[l] = Basin(q, end, g)  BY <1>5, <2>2, <4>1
      <4>4. f = end[i] /\ g = end[i]  BY <2>1, <2>2, <4>2, <4>3 DEF Basin
      <4> QED BY <4>2, <4>3, <4>4
    <3>2. CASE ~ SC!IsFull(q[end[i]])
      <4>1. \A f \in DOMAIN q : SC!IsFull(q[f]) => i \notin Basin(q, end, f)  BY <3>2 DEF Basin
      <4> HIDE DEF o
      <4> QED BY <1>5, <2>1, <2>2, <4>1
    <3> QED BY <3>1, <3>2
  <2>3. \A l \in DOMAIN ch : i \in ch[l] => l = k  BY <1>3, <2>2 DEF Parted
  <2>4. {l \in DOMAIN ch : i \in ch[l]} = {k}  BY <2>1, <2>3
  <2> QED BY <2>4, FS_Singleton
<1>7. ASSUME NEW k \in DOMAIN ch, NEW i \in ch[k], NEW last,
             last = Last(SC!WalkChain(q, q[i].uuid)), NEW fulls, fulls = {j \in ch[k] : SC!IsFull(q[j])}
      PROVE  IF SC!IsFull(last) THEN fulls = {j \in DOMAIN q : q[j] = last} ELSE fulls = {}
  <2>1. i \in DOMAIN q  BY <1>5 DEF Basin
  <2>2. last = q[end[i]] /\ end[i] \in DOMAIN q  BY <1>1, <1>7, <2>1 DEF IsEnds
  <2>3. CASE ch[k] = o
    <3>1. ~ SC!IsFull(last)  BY <1>7, <2>2, <2>3
    <3>2. \A j \in ch[k] : ~ SC!IsFull(q[j])  BY <1>4, <2>3
    <3> QED BY <1>7, <3>1, <3>2
  <2>4. CASE \E f \in DOMAIN q : SC!IsFull(q[f]) /\ ch[k] = Basin(q, end, f)
    <3>1. PICK f \in DOMAIN q : SC!IsFull(q[f]) /\ ch[k] = Basin(q, end, f)  BY <2>4
    <3>2. end[i] = f  BY <3>1 DEF Basin
    <3>3. SC!IsFull(last)  BY <2>2, <3>1, <3>2
    <3>4. \A j : j \in fulls <=> j \in DOMAIN q /\ end[j] = f /\ SC!IsFull(q[j])
      BY <1>7, <3>1 DEF Basin
    <3>5. \A j : j \in fulls <=> j = f  BY <1>4, <3>1, <3>4
    <3>6. \A j \in DOMAIN q : q[j] = q[f] => j = f  BY DEF Listed
    <3>7. fulls = {j \in DOMAIN q : q[j] = last}  BY <2>2, <3>1, <3>2, <3>5, <3>6
    <3> QED BY <3>3, <3>7
  <2> QED BY <1>5, <2>3, <2>4
<1>8. Sorted(q, ch)
  <2> HIDE DEF o
  <2>1. \A k \in DOMAIN ch : \A i \in ch[k] :
          LET last == Last(SC!WalkChain(q, q[i].uuid))
              fulls == {j \in ch[k] : SC!IsFull(q[j])}
          IN IF SC!IsFull(last) THEN fulls = {j \in DOMAIN q : q[j] = last} ELSE fulls = {}
    BY <1>7, Zenon
  <2> QED BY <1>6, <2>1 DEF Sorted
<1> QED BY <1>2, <1>8

-----------------------------------------------------------------------------
(* The runs. *)

ChainInv == job.kind = "chain" => job \in ChainJobs /\ Lineage(job.slices, job.from, known)

LEMMA JobsListed == ASSUME NEW j \in ChainJobs PROVE Listed(j.slices)
  BY ChainsAssumption DEF Listed, Elems

LEMMA ChainInvInit == JobInit => ChainInv
<1> SUFFICES ASSUME JobInit, job.kind = "chain"
             PROVE  job \in ChainJobs /\ Lineage(job.slices, job.from, known)
  BY DEF ChainInv
<1>1. job \in ChainJobs /\ known = ChainStart(job)
  BY ChainsAssumption DEF JobInit
<1>2. Lineage(job.slices, job.from, known)  BY <1>1, LineageStarts DEF ChainStart
<1> QED BY <1>1, <1>2

LEMMA ChainEnded == ASSUME job.kind = "chain" PROVE Ended <=> known.stopped = TRUE
  BY DEF Ended

LEMMA ChainInvNext == ChainInv /\ [JobNext]_jobVars => ChainInv'
<1> SUFFICES ASSUME ChainInv, [JobNext]_jobVars, job'.kind = "chain"
             PROVE  job' \in ChainJobs /\ Lineage(job'.slices, job'.from, known')
  BY DEF ChainInv
<1>1. job' = job  BY DEF JobNext, Work, Decompress, Expand, Decode, Parse, Ascend, Finished, jobVars
<1>2. job.kind = "chain" /\ job \in ChainJobs /\ Lineage(job.slices, job.from, known)
  BY <1>1 DEF ChainInv
<1>3. CASE Ascend
  <2>1. ~ known.stopped
    <3>1. known.stopped \in BOOLEAN  BY <1>2 DEF Lineage, IsWalk
    <3>2. known.stopped # TRUE  BY <1>2, <1>3, ChainEnded DEF Ascend
    <3> QED BY <3>1, <3>2
  <2>2. known' = SC!WalkStep(job.slices, known)  BY <1>3 DEF Ascend
  <2>3. Lineage(job.slices, job.from, SC!WalkStep(job.slices, known))
    BY <1>2, <2>1, JobsListed, LineageGoesOn
  <2> QED BY <1>1, <1>2, <2>2, <2>3
<1>4. CASE known' = known  BY <1>1, <1>2, <1>4
<1> QED BY <1>2, <1>3, <1>4 DEF JobNext, Work, Decompress, Expand, Decode, Parse, Finished, jobVars

LEMMA ChainInvSays == ChainInv => ChainsAreLineages
<1> SUFFICES ASSUME ChainInv, Ended, job.kind = "chain", NEW c, c = known.chain, NEW n, n = Len(c)
             PROVE  LET chains == SC!IterChains(job.slices)
                        Fulls(k) == {i \in chains[k] : SC!IsFull(job.slices[i])}
                    IN /\ \A i, j \in 1..n : c[i].uuid = c[j].uuid => i = j
                       /\ \A i \in 1..(n - 1) : ~ SC!IsFull(c[i]) /\ c[i + 1].uuid = c[i].parent
                       /\ n = 0 => job.from \notin SC!Uuids(job.slices)
                       /\ n > 0 => /\ c[1].uuid = job.from
                                   /\ \/ SC!IsFull(c[n])
                                      \/ c[n].parent \notin SC!Uuids(job.slices)
                                      \/ \E i \in 1..n : c[i].uuid = c[n].parent
                       /\ \A i \in DOMAIN job.slices : Cardinality({k \in DOMAIN chains : i \in chains[k]}) = 1
                       /\ \A k \in DOMAIN chains : \A i \in chains[k] :
                              LET last == Last(SC!WalkChain(job.slices, job.slices[i].uuid))
                              IN IF SC!IsFull(last) THEN Fulls(k) = {j \in DOMAIN job.slices : job.slices[j] = last}
                                 ELSE Fulls(k) = {}
  BY Zenon DEF ChainsAreLineages
<1>1. job \in ChainJobs /\ Lineage(job.slices, job.from, known)  BY DEF ChainInv
<1>2. known.stopped = TRUE  BY ChainEnded
<1>3. Sorted(job.slices, SC!IterChains(job.slices))  BY <1>1, JobsListed, ChainsSorted
<1>4. /\ \A i, j \in 1..n : c[i].uuid = c[j].uuid => i = j
      /\ \A i \in 1..(n - 1) : ~ SC!IsFull(c[i]) /\ c[i + 1].uuid = c[i].parent
  BY <1>1 DEF Lineage
<1>5. n = 0 => job.from \notin SC!Uuids(job.slices)  BY <1>1, <1>2 DEF Lineage
<1>6. n > 0 => /\ c[1].uuid = job.from
               /\ \/ SC!IsFull(c[n])
                  \/ c[n].parent \notin SC!Uuids(job.slices)
                  \/ \E i \in 1..n : c[i].uuid = c[n].parent
  BY <1>1, <1>2 DEF Lineage
<1> QED BY <1>3, <1>4, <1>5, <1>6, Zenon DEF Sorted

(* walk_chain_from_uuid goes from child to parent, visits no slice twice and *)
(* ends at a full backup, or where the parent is gone or visited before; and *)
(* iter_chains puts every slice in one chain, that of its full backup, or    *)
(* with those that have none: for any slices with ids of their own, also if  *)
(* parents are missing or form a circle.                                     *)
THEOREM ChainsForAll == JobSpec => []ChainsAreLineages
BY ChainInvInit, ChainInvNext, ChainInvSays, PTL DEF JobSpec
=============================================================================

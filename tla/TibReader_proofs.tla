-------------------------- MODULE TibReader_proofs --------------------------
(***************************************************************************)
(* Machine-checked proofs about TibReader, for every geometry, cache size, *)
(* archive content and number of threads.                                  *)
(***************************************************************************)
EXTENDS TibReader, Lemmas, FunctionTheorems, FiniteSetTheorems, SequenceTheorems, TLAPS

-----------------------------------------------------------------------------
(* Addressing inside a block *)

Below(b, l) == {m \in Bits(b) : m < l}

(* Clusters of b have their bit in a byte of the preamble. *)
LEMMA BitsOfPreamble ==
    ASSUME NEW b \in Blocks, NEW l \in 0..(ClustersPerBlock - 1)
    PROVE  /\ l \div 8 \in 0..(PreambleLen - 1)
           /\ Preamble[b][l \div 8] \subseteq 0..7
<1>1. ClustersPerBlock \in Nat /\ ClustersPerBlock % 8 = 0  BY GeometryAssumption
<1>2. l \div 8 \in 0..((ClustersPerBlock \div 8) - 1)  BY <1>1
<1> QED BY <1>2, ContentAssumption DEF PreambleLen

(* The whole-byte half of the count is over the clusters of earlier bytes. *)
LEMMA FullByteCount ==
    ASSUME NEW b \in Blocks, NEW l \in 0..(ClustersPerBlock - 1)
    PROVE  LET L == {m \in Below(b, l) : m \div 8 < l \div 8} IN
           /\ IsFiniteSet(FullByteBits(b, l)) /\ IsFiniteSet(L)
           /\ Cardinality(FullByteBits(b, l)) = Cardinality(L)
<1> DEFINE F == FullByteBits(b, l)
           L == {m \in Below(b, l) : m \div 8 < l \div 8}
           f == [p \in F |-> 8 * p[1] + p[2]]
<1>0. ClustersPerBlock \in Nat /\ ClustersPerBlock % 8 = 0  BY GeometryAssumption
<1>1. \A p \in F : /\ p = <<p[1], p[2]>>
                   /\ p[1] \in 0..((l \div 8) - 1) /\ p[2] \in 0..7
                   /\ p[2] \in Preamble[b][p[1]]
  BY DEF FullByteBits
<1>2. ASSUME NEW p \in F PROVE f[p] \in L
  <2>1. f[p] \div 8 = p[1] /\ f[p] % 8 = p[2] /\ f[p] \in Nat  BY <1>1
  <2>2. f[p] < l /\ f[p] \in 0..(ClustersPerBlock - 1)  BY <1>1, <2>1, <1>0
  <2> QED BY <1>1, <2>1, <2>2 DEF Below, Bits, BitSet
<1>3. ASSUME NEW p \in F, NEW q \in F, f[p] = f[q] PROVE p = q
  <2>1. p[1] = q[1] /\ p[2] = q[2]  BY <1>1, <1>3
  <2> QED BY <2>1, <1>1
<1>4. ASSUME NEW m \in L PROVE \E p \in F : f[p] = m
  <2> DEFINE p == <<m \div 8, m % 8>>
  <2>1. m \in 0..(ClustersPerBlock - 1) /\ BitSet(b, m) /\ m \div 8 < l \div 8
    BY DEF Below, Bits
  <2>2. p[1] \in 0..((l \div 8) - 1) /\ p[2] \in 0..7  BY <2>1, <1>0
  <2>3. p \in F  BY <2>1, <2>2 DEF FullByteBits, BitSet
  <2>4. f[p] = m  BY <2>1, <2>3, <1>0
  <2> QED BY <2>3, <2>4
<1>5. f \in Bijection(F, L)
  BY <1>2, <1>3, <1>4, Fun_IsBij
<1>6. IsFiniteSet(L)
  <2>1. L \in SUBSET (0..(ClustersPerBlock - 1))  BY DEF Below, Bits
  <2>2. IsFiniteSet(0..(ClustersPerBlock - 1))
    BY <1>0, 0 \in Int, ClustersPerBlock - 1 \in Int, FS_Interval
  <2> QED BY <2>1, <2>2, FS_Subset
<1>7. ExistsBijection(F, L)  BY <1>5 DEF ExistsBijection
<1>8. ExistsBijection(L, F)  BY <1>7, Fun_ExistsBijSymmetric
<1> QED BY <1>6, <1>8, FS_Bijection

(* The masked half is over the clusters of l's own byte. *)
LEMMA MaskedCount ==
    ASSUME NEW b \in Blocks, NEW l \in 0..(ClustersPerBlock - 1)
    PROVE  LET H == {m \in Below(b, l) : m \div 8 = l \div 8} IN
           /\ IsFiniteSet(MaskedBits(b, l)) /\ IsFiniteSet(H)
           /\ Cardinality(MaskedBits(b, l)) = Cardinality(H)
<1> DEFINE M == MaskedBits(b, l)
           H == {m \in Below(b, l) : m \div 8 = l \div 8}
           f == [j \in M |-> 8 * (l \div 8) + j]
<1>0. ClustersPerBlock \in Nat /\ ClustersPerBlock % 8 = 0  BY GeometryAssumption
<1>1. \A j \in M : j \in 0..7 /\ j < l % 8 /\ j \in Preamble[b][l \div 8]
  BY BitsOfPreamble DEF MaskedBits
<1>2. ASSUME NEW j \in M PROVE f[j] \in H
  <2>1. f[j] \div 8 = l \div 8 /\ f[j] % 8 = j /\ f[j] \in Nat  BY <1>1
  <2>2. f[j] < l  BY <1>1
  <2> QED BY <1>1, <2>1, <2>2, <1>0 DEF Below, Bits, BitSet
<1>3. ASSUME NEW i \in M, NEW j \in M, f[i] = f[j] PROVE i = j
  BY <1>1, <1>3
<1>4. ASSUME NEW m \in H PROVE \E j \in M : f[j] = m
  <2>1. m \in 0..(ClustersPerBlock - 1) /\ BitSet(b, m) /\ m < l /\ m \div 8 = l \div 8
    BY DEF Below, Bits
  <2>2. m % 8 \in 0..7 /\ m % 8 < l % 8 /\ l % 8 # 0  BY <2>1
  <2>3. m % 8 \in M  BY <2>1, <2>2 DEF MaskedBits, BitSet
  <2>4. f[m % 8] = m  BY <2>1, <2>3
  <2> QED BY <2>3, <2>4
<1>5. f \in Bijection(M, H)
  BY <1>2, <1>3, <1>4, Fun_IsBij
<1>6. IsFiniteSet(H)
  <2>1. H \in SUBSET (0..(ClustersPerBlock - 1))  BY DEF Below, Bits
  <2>2. IsFiniteSet(0..(ClustersPerBlock - 1))
    BY <1>0, 0 \in Int, ClustersPerBlock - 1 \in Int, FS_Interval
  <2> QED BY <2>1, <2>2, FS_Subset
<1>7. ExistsBijection(M, H)  BY <1>5 DEF ExistsBijection
<1>8. ExistsBijection(H, M)  BY <1>7, Fun_ExistsBijSymmetric
<1> QED BY <1>6, <1>8, FS_Bijection

(* _popcount_before counts the stored clusters before l. *)
LEMMA PopcountIsRank ==
    ASSUME NEW b \in Blocks, NEW l \in 0..(ClustersPerBlock - 1)
    PROVE  /\ IsFiniteSet(Below(b, l))
           /\ PopcountBefore(b, l) = Cardinality(Below(b, l))
<1> DEFINE L == {m \in Below(b, l) : m \div 8 < l \div 8}
           H == {m \in Below(b, l) : m \div 8 = l \div 8}
<1>1. \A m \in Below(b, l) : m \div 8 < l \div 8 \/ m \div 8 = l \div 8
  <2>1. ClustersPerBlock \in Nat  BY GeometryAssumption
  <2> QED BY <2>1 DEF Below, Bits
<1>2. Below(b, l) = L \cup H  BY <1>1
<1>3. L \cap H = {}
  <2>1. ClustersPerBlock \in Nat  BY GeometryAssumption
  <2> QED BY <2>1 DEF Below, Bits
<1>4. IsFiniteSet(L) /\ IsFiniteSet(H)  BY FullByteCount, MaskedCount
<1>5. /\ IsFiniteSet(L \cup H)
      /\ Cardinality(L \cup H) = Cardinality(L) + Cardinality(H) - Cardinality(L \cap H)
  BY <1>4, FS_Union
<1>6. Cardinality(L \cap H) = 0  BY <1>3, FS_EmptySet
<1>7. Cardinality(L) \in Nat /\ Cardinality(H) \in Nat  BY <1>4, FS_CardinalityType
<1>8. Cardinality(L \cup H) = Cardinality(L) + Cardinality(H)  BY <1>5, <1>6, <1>7
<1>9. PopcountBefore(b, l) = Cardinality(L) + Cardinality(H)
  BY FullByteCount, MaskedCount DEF PopcountBefore
<1> QED BY <1>2, <1>5, <1>8, <1>9

(* The cluster of an increasing enumeration at place k has k-1 before it. *)
LEMMA RankOfEnumeration ==
    ASSUME NEW b \in Blocks, NEW n \in Nat, NEW e \in [1..n -> Bits(b)],
           \A j, k \in 1..n : j < k => e[j] < e[k],
           \A l \in Bits(b) : \E k \in 1..n : e[k] = l,
           NEW k \in 1..n
    PROVE  PopcountBefore(b, e[k]) = k - 1
<1>0. Bits(b) \subseteq 0..(ClustersPerBlock - 1) /\ ClustersPerBlock \in Nat
  BY GeometryAssumption DEF Bits
<1> DEFINE B == Below(b, e[k])
           f == [j \in 1..(k - 1) |-> e[j]]
<1>1. ASSUME NEW j \in 1..(k - 1) PROVE f[j] \in B
  BY <1>0 DEF Below
<1>2. ASSUME NEW i \in 1..(k - 1), NEW j \in 1..(k - 1), f[i] = f[j] PROVE i = j
  <2>1. i < j \/ j < i \/ i = j  OBVIOUS
  <2>2. e[i] \in Int /\ e[j] \in Int /\ e[i] = e[j]  BY <1>0, <1>2
  <2> QED BY <2>1, <2>2
<1>3. ASSUME NEW m \in B PROVE \E j \in 1..(k - 1) : f[j] = m
  <2>1. m \in Bits(b) /\ m < e[k]  BY DEF Below
  <2>2. PICK j \in 1..n : e[j] = m  BY <2>1
  <2>3. e[j] \in Int /\ e[k] \in Int  BY <1>0
  <2>4. ~ (k < j) /\ j # k  BY <2>1, <2>2, <2>3
  <2>5. j \in 1..(k - 1)  BY <2>4
  <2> QED BY <2>2, <2>5
<1>4. f \in Bijection(1..(k - 1), B)
  BY <1>1, <1>2, <1>3, Fun_IsBij
<1>5. ExistsBijection(1..(k - 1), B)  BY <1>4 DEF ExistsBijection
<1>6. Cardinality(B) = k - 1
  BY <1>5, k - 1 \in Nat, FS_CountingElements
<1>7. e[k] \in 0..(ClustersPerBlock - 1)  BY <1>0
<1> QED BY <1>6, <1>7, PopcountIsRank
-----------------------------------------------------------------------------
(* Addressing in the partition *)

(* Every byte of the partition lies in an indexed block. *)
LEMMA InPartition ==
    ASSUME NEW x \in 0..(PartitionSize - 1)
    PROVE  /\ BlockOf(x) \in Blocks
           /\ LocalOf(x) \in 0..(ClustersPerBlock - 1)
           /\ ClusterOf(x) = ClustersPerBlock * BlockOf(x) + LocalOf(x)
           /\ ClusterOf(x) \in DOMAIN Disk
           /\ InCluster(x) \in 0..(ClusterSize - 1)
<1> DEFINE S == ClusterSize  K == ClustersPerBlock  N == BlockCount
           q == x \div S  r == x % S
<1>0. S \in Nat \ {0} /\ K \in Nat \ {0} /\ N \in Nat  BY GeometryAssumption
<1>1. PartitionSize = N * (K * S) /\ PartitionSize \in Int  BY <1>0 DEF PartitionSize
<1>2. q \in Int /\ r \in 0..(S - 1) /\ x = S * q + r  BY <1>0, <1>1, x \in Int, Division
<1>3. q \div K \in Int /\ q % K \in 0..(K - 1) /\ q = K * (q \div K) + (q % K)
  BY <1>0, <1>2, Division
<1>4. q >= 0
  <2>1. CASE q <= -1
    <3>1. S * (q + 1) <= 0  BY <1>0, <1>2, <2>1
    <3>2. S * q + S <= 0  BY <3>1, <1>0, <1>2
    <3> QED BY <3>2, <1>0, <1>2, <1>1
  <2> QED BY <2>1, <1>2
<1>5. q < N * K
  <2>1. CASE q >= N * K
    <3>1. S * (q - N * K) >= 0  BY <1>0, <1>2, <2>1
    <3>2. S * q >= N * (K * S)  BY <3>1, <1>0, <1>2
    <3> QED BY <3>2, <1>0, <1>1, <1>2
  <2> QED BY <2>1, <1>0, <1>2
<1>6. q \div K >= 0
  <2>1. CASE q \div K <= -1
    <3>1. K * ((q \div K) + 1) <= 0  BY <1>0, <1>3, <2>1
    <3> QED BY <3>1, <1>0, <1>3, <1>4
  <2> QED BY <2>1, <1>3
<1>7. q \div K < N
  <2>1. CASE q \div K >= N
    <3>1. K * ((q \div K) - N) >= 0  BY <1>0, <1>3, <2>1
    <3> QED BY <3>1, <1>0, <1>3, <1>5
  <2> QED BY <2>1, <1>0, <1>3
<1>8. q \in 0..(N * K - 1)  BY <1>0, <1>2, <1>4, <1>5
<1> QED BY <1>0, <1>2, <1>3, <1>6, <1>7, <1>8, ContentAssumption
        DEF BlockOf, LocalOf, ClusterOf, InCluster, Blocks

(* The bytes of one cluster are stored or sparse together. *)
LEMMA SameCluster ==
    ASSUME NEW x \in Nat, NEW n \in Nat, InCluster(x) + n < ClusterSize
    PROVE  /\ ClusterOf(x + n) = ClusterOf(x) /\ BlockOf(x + n) = BlockOf(x)
           /\ InCluster(x + n) = InCluster(x) + n
           /\ Present(x + n) <=> Present(x)
<1>1. (x + n) \div ClusterSize = x \div ClusterSize
      /\ (x + n) % ClusterSize = (x % ClusterSize) + n
  BY SameQuotient, GeometryAssumption DEF InCluster
<1> QED BY <1>1 DEF ClusterOf, BlockOf, LocalOf, InCluster, Present

-----------------------------------------------------------------------------
(* Python slices *)

LEMMA SliceType ==
    ASSUME NEW S, NEW s \in Seq(S), NEW a \in Nat, NEW b \in Int
    PROVE  Slice(s, a, b) \in Seq(S)
<1> DEFINE e == IF b < Len(s) THEN b ELSE Len(s)
<1>1. Len(s) \in Nat /\ e \in Int /\ e <= Len(s)  BY LenProperties
<1>2. \A i \in (a + 1)..e : s[i] \in S  BY <1>1, ElementOfSeq
<1>3. SubSeq(s, a + 1, e) \in Seq(S)
  BY <1>1, <1>2, a + 1 \in Int, SubSeqProperties
<1> QED BY <1>3 DEF Slice

LEMMA SliceValue ==
    ASSUME NEW S, NEW s \in Seq(S), NEW a \in Nat, NEW b \in Nat, a <= b, b <= Len(s)
    PROVE  /\ Len(Slice(s, a, b)) = b - a
           /\ \A i \in 1..(b - a) : Slice(s, a, b)[i] = s[a + i]
<1>1. Len(s) \in Nat  BY LenProperties
<1>2. Slice(s, a, b) = SubSeq(s, a + 1, b)  BY <1>1 DEF Slice
<1> QED BY <1>1, <1>2

LEMMA SpliceType ==
    ASSUME NEW S, NEW s \in Seq(S), NEW a \in Nat, NEW n \in Nat, NEW p \in Seq(S)
    PROVE  Splice(s, a, n, p) \in Seq(S)
<1>1. Slice(s, 0, a) \in Seq(S)  BY SliceType
<1>2. Slice(s, a + n, Len(s)) \in Seq(S)
  BY SliceType, LenProperties, a + n \in Nat
<1> QED BY <1>1, <1>2, ConcatProperties DEF Splice

LEMMA SpliceValue ==
    ASSUME NEW S, NEW s \in Seq(S), NEW a \in Nat, NEW n \in Nat, NEW p \in Seq(S),
           a + n <= Len(s), Len(p) = n
    PROVE  /\ Len(Splice(s, a, n, p)) = Len(s)
           /\ \A i \in 1..Len(s) : Splice(s, a, n, p)[i] =
                 IF i > a /\ i <= a + n THEN p[i - a] ELSE s[i]
<1> DEFINE f == Slice(s, 0, a)  g == Slice(s, a + n, Len(s))
<1>0. Len(s) \in Nat /\ 0 \in Nat /\ a + n \in Nat /\ 0 <= a /\ a <= Len(s)
  BY LenProperties
<1>1. f \in Seq(S) /\ g \in Seq(S)
  BY <1>0, SliceType
<1>2. Len(f) = a - 0 /\ \A i \in 1..(a - 0) : f[i] = s[0 + i]
  <2> HIDE DEF f
  <2>1. /\ Len(Slice(s, 0, a)) = a - 0
        /\ \A i \in 1..(a - 0) : Slice(s, 0, a)[i] = s[0 + i]
    BY <1>0, SliceValue
  <2> QED BY <2>1 DEF f
<1>3. Len(g) = Len(s) - (a + n) /\ \A i \in 1..(Len(s) - (a + n)) : g[i] = s[(a + n) + i]
  <2> HIDE DEF g
  <2>1. /\ Len(Slice(s, a + n, Len(s))) = Len(s) - (a + n)
        /\ \A i \in 1..(Len(s) - (a + n)) : Slice(s, a + n, Len(s))[i] = s[(a + n) + i]
    <3>1. Slice(s, a + n, Len(s)) = SubSeq(s, (a + n) + 1, Len(s))  BY <1>0 DEF Slice
    <3> QED BY <3>1, <1>0
  <2> QED BY <2>1 DEF g
<1> DEFINE h == f \o p
<1> HIDE DEF f, g
<1>4. /\ h \in Seq(S) /\ Len(h) = Len(f) + Len(p)
      /\ \A i \in 1..(Len(f) + Len(p)) : h[i] = IF i <= Len(f) THEN f[i] ELSE p[i - Len(f)]
  BY <1>1, ConcatProperties
<1> HIDE DEF h
<1>5. /\ Len(h \o g) = Len(h) + Len(g)
      /\ \A i \in 1..(Len(h) + Len(g)) :
            (h \o g)[i] = IF i <= Len(h) THEN h[i] ELSE g[i - Len(h)]
  <2>1. h \in Seq(S) /\ g \in Seq(S)  BY <1>1, <1>4
  <2> QED BY <2>1, ConcatProperties
<1>6. Len(f) = a /\ Len(h) = a + n /\ Len(h \o g) = Len(s)
  BY <1>0, <1>2, <1>3, <1>4, <1>5
<1>7. ASSUME NEW i \in 1..Len(s)
      PROVE  (h \o g)[i] = IF i > a /\ i <= a + n THEN p[i - a] ELSE s[i]
  <2>0. i \in 1..(Len(h) + Len(g))  BY <1>5, <1>6
  <2>1. CASE i <= a
    <3>1. (h \o g)[i] = h[i] /\ h[i] = f[i] /\ f[i] = s[i]
      BY <1>0, <1>2, <1>4, <1>5, <1>6, <2>0, <2>1
    <3> QED BY <3>1, <2>1
  <2>2. CASE i > a /\ i <= a + n
    <3>1. i \in Int /\ i <= Len(h) /\ ~ (i <= Len(f)) /\ i \in 1..(Len(f) + Len(p))
      BY <1>0, <1>6, <2>2
    <3>2. (h \o g)[i] = h[i]  BY <1>5, <2>0, <3>1
    <3>3. h[i] = p[i - Len(f)]  BY <1>4, <3>1
    <3> QED BY <3>2, <3>3, <1>6, <2>2
  <2>3. CASE i > a + n
    <3>1. i - (a + n) \in 1..(Len(s) - (a + n)) /\ (a + n) + (i - (a + n)) = i
      BY <1>0, <2>3
    <3>2. g[i - (a + n)] = s[i]  BY <3>1, <1>3
    <3>3. (h \o g)[i] = g[i - (a + n)]  BY <1>0, <1>5, <1>6, <2>0, <2>3
    <3> QED BY <3>2, <3>3, <1>0, <2>3
  <2>4. i <= a \/ (i > a /\ i <= a + n) \/ i > a + n  BY <1>0
  <2> QED BY <2>1, <2>2, <2>3, <2>4
<1> QED BY <1>6, <1>7 DEF Splice, f, g, h
-----------------------------------------------------------------------------
(* One round of the read loop *)

(* Thread t stands at a byte of a well-formed request. *)
InRange(t) == /\ call[t].off \in Nat /\ call[t].len \in Int /\ cur[t] \in Nat
              /\ call[t].off <= cur[t] /\ cur[t] < EndOf(call[t])

(* A round copies at least one byte, all of one cluster and of the range. *)
LEMMA TakeFacts ==
    ASSUME NEW t \in Threads, InRange(t)
    PROVE  /\ EndOf(call[t]) \in Nat /\ EndOf(call[t]) <= PartitionSize
           /\ cur[t] \in 0..(PartitionSize - 1)
           /\ Take(t) \in Nat \ {0}
           /\ InCluster(cur[t]) + Take(t) <= ClusterSize
           /\ cur[t] + Take(t) <= EndOf(call[t])
<1>1. PartitionSize \in Int
  BY GeometryAssumption DEF PartitionSize
<1>2. /\ EndOf(call[t]) \in Nat /\ EndOf(call[t]) <= PartitionSize
      /\ cur[t] \in 0..(PartitionSize - 1)
  BY <1>1 DEF EndOf, InRange
<1>3. BlockOf(cur[t]) \in Blocks /\ InCluster(cur[t]) \in 0..(ClusterSize - 1)
  BY <1>2, InPartition
<1>4. BlockOf(cur[t]) < BlockCount  BY <1>3, GeometryAssumption DEF Blocks
<1> QED BY <1>1, <1>2, <1>3, <1>4, GeometryAssumption DEF Take, InRange, Blocks

LEMMA PopcountType ==
    ASSUME NEW b \in Blocks, NEW l \in 0..(ClustersPerBlock - 1)
    PROVE  PopcountBefore(b, l) \in Nat
  BY PopcountIsRank, FS_CardinalityType

LEMMA PieceType ==
    ASSUME NEW t \in Threads, InRange(t), NEW v \in Seq(Seq(Byte))
    PROVE  Piece(t, v) \in Seq(Byte)
<1> DEFINE p == PopcountBefore(BlockOf(cur[t]), LocalOf(cur[t]))
           c == IF p < Len(v) THEN v[p + 1] ELSE << >>
<1>1. p \in Nat  BY TakeFacts, InPartition, PopcountType
<1>2. c \in Seq(Byte)
  <2> HIDE DEF p
  <2>1. Len(v) \in Nat  BY LenProperties
  <2>2. CASE p < Len(v)  BY <1>1, <2>1, <2>2, p + 1 \in 1..Len(v), ElementOfSeq
  <2>3. CASE ~ (p < Len(v))  BY <2>3
  <2> QED BY <2>2, <2>3
<1>3. InCluster(cur[t]) \in Nat /\ InCluster(cur[t]) + Take(t) \in Int
  BY TakeFacts, InPartition
<1> HIDE DEF p, c
<1>4. Slice(c, InCluster(cur[t]), InCluster(cur[t]) + Take(t)) \in Seq(Byte)
  BY <1>2, <1>3, SliceType
<1> QED BY <1>4 DEF Piece, p, c

(* Out of an intact block come the very bytes of the image. *)
LEMMA PieceValue ==
    ASSUME NEW t \in Threads, InRange(t), Present(cur[t]),
           BlockOf(cur[t]) \in IntactBlocks
    PROVE  /\ Len(Piece(t, Archive[BlockOf(cur[t])])) = Take(t)
           /\ \A i \in 1..Take(t) :
                 Piece(t, Archive[BlockOf(cur[t])])[i] = ImageByte[cur[t] + i - 1]
<1> DEFINE x == cur[t]  b == BlockOf(x)  l == LocalOf(x)  v == Archive[b]
           p == PopcountBefore(b, l)  c == Disk[ClusterOf(x)]
<1>1. /\ x \in 0..(PartitionSize - 1) /\ b \in Blocks
      /\ l \in 0..(ClustersPerBlock - 1)
      /\ ClusterOf(x) = ClustersPerBlock * b + l /\ ClusterOf(x) \in DOMAIN Disk
      /\ InCluster(x) \in 0..(ClusterSize - 1)
      /\ Take(t) \in Nat \ {0} /\ InCluster(x) + Take(t) <= ClusterSize
      /\ x + Take(t) <= PartitionSize
  <2>1. /\ x \in 0..(PartitionSize - 1) /\ Take(t) \in Nat \ {0}
        /\ InCluster(x) + Take(t) <= ClusterSize /\ x + Take(t) <= PartitionSize
    BY TakeFacts, InPartition, GeometryAssumption DEF PartitionSize
  <2> QED BY <2>1, InPartition
<1>2. l \in Bits(b)  BY <1>1 DEF Present, Bits
<1>3. HoldsClusters(b) /\ v \in Seq(Seq(Byte))  BY <1>1, ContentAssumption DEF IntactBlocks
<1>4. Len(v) \in Nat  BY <1>3, LenProperties
<1>5. PICK e \in [1..Len(v) -> Bits(b)] :
        /\ \A j, k \in 1..Len(v) : j < k => e[j] < e[k]
        /\ \A m \in Bits(b) : \E k \in 1..Len(v) : e[k] = m
        /\ \A k \in 1..Len(v) : v[k] = Disk[ClustersPerBlock * b + e[k]]
  BY <1>3 DEF HoldsClusters
<1>6. PICK k \in 1..Len(v) : e[k] = l  BY <1>2, <1>5
<1>7. PopcountBefore(b, e[k]) = k - 1
  <2> HIDE DEF b, v
  <2> QED BY <1>1, <1>4, <1>5, RankOfEnumeration
<1>8. p < Len(v) /\ v[p + 1] = c
  BY <1>1, <1>4, <1>5, <1>6, <1>7
<1>9. c \in Seq(Byte) /\ Len(c) = ClusterSize  BY <1>1, ContentAssumption
<1>10. Piece(t, v) = Slice(c, InCluster(x), InCluster(x) + Take(t))
  BY <1>8 DEF Piece
<1>11. /\ Len(Piece(t, v)) = Take(t)
       /\ \A i \in 1..Take(t) : Piece(t, v)[i] = c[InCluster(x) + i]
  <2> DEFINE a == InCluster(x)  z == InCluster(x) + Take(t)
  <2>1. a \in Nat /\ z \in Nat /\ a <= z /\ z <= Len(c) /\ z - a = Take(t)
    BY <1>1, <1>9, GeometryAssumption
  <2> HIDE DEF a, z, c
  <2>2. Len(Slice(c, a, z)) = z - a /\ \A i \in 1..(z - a) : Slice(c, a, z)[i] = c[a + i]
    BY <2>1, <1>9, SliceValue
  <2> QED BY <2>1, <2>2, <1>10 DEF a, z
<1>12. ASSUME NEW i \in 1..Take(t) PROVE ImageByte[x + i - 1] = c[InCluster(x) + i]
  <2>1. x \in Nat /\ i - 1 \in Nat /\ InCluster(x) + (i - 1) < ClusterSize
    BY <1>1, GeometryAssumption
  <2>2. /\ ClusterOf(x + (i - 1)) = ClusterOf(x) /\ Present(x + (i - 1))
        /\ InCluster(x + (i - 1)) = InCluster(x) + (i - 1)
    BY <2>1, SameCluster
  <2>3. x + i - 1 = x + (i - 1) /\ x + i - 1 \in 0..(PartitionSize - 1)
    <3>1. PartitionSize \in Int  BY GeometryAssumption DEF PartitionSize
    <3>2. i \in Int /\ 1 <= i /\ x + i <= PartitionSize  BY <1>1, <3>1
    <3> QED BY <2>1, <3>1, <3>2
  <2>4. ImageByte[x + (i - 1)] = Disk[ClusterOf(x)][InCluster(x) + (i - 1) + 1]
    BY <2>2, <2>3 DEF ImageByte, InCluster
  <2>5. InCluster(x) + (i - 1) + 1 = InCluster(x) + i  BY <1>1
  <2> QED BY <2>3, <2>4, <2>5
<1> QED BY <1>11, <1>12
-----------------------------------------------------------------------------
(* The inductive invariant *)

(* Where a read stands in its range. *)
RangeInv(t) ==
    pc[t] \in InLoop =>
        /\ call[t].off \in Nat /\ call[t].len > 0
        /\ call[t].off < EndOf(call[t])
        /\ call[t].off <= cur[t] /\ cur[t] <= EndOf(call[t])

(* What a thread fetching a block knows: the record is good, its own handle *)
(* stands at the block, and what it has inflated is that block.             *)
FetchInv(t) ==
    /\ pc[t] \in {"seek", "read", "put"} =>
          /\ cur[t] < EndOf(call[t]) /\ Present(cur[t])
          /\ BlockOf(cur[t]) \notin CorruptRecord
    /\ pc[t] = "read" => fpos[t] = BlockOf(cur[t])
    /\ pc[t] = "put"  => /\ block[t] = Archive[BlockOf(cur[t])]
                         /\ BlockOf(cur[t]) \notin BadStream

(* The part of the buffer already passed is the image, the rest is zero. *)
BufferInv(t) ==
    pc[t] \in InLoop /\ I!Clean(call[t]) =>
        /\ Len(out[t]) = EndOf(call[t]) - call[t].off
        /\ \A i \in 1..Len(out[t]) :
              out[t][i] = IF call[t].off + i - 1 < cur[t]
                          THEN ImageByte[call[t].off + i - 1] ELSE Zero

ResultInv(t) ==
    pc[t] = "done" /\ I!Clean(call[t]) => result[t] = I!SliceOf(call[t])

ThreadInv(t) == RangeInv(t) /\ FetchInv(t) /\ BufferInv(t) /\ ResultInv(t)

IInv == TypeOK /\ CacheSound /\ \A t \in Threads : ThreadInv(t)

LEMMA InvInRange ==
    ASSUME IInv, NEW t \in Threads, pc[t] \in InLoop, cur[t] < EndOf(call[t])
    PROVE  InRange(t)
  BY DEF IInv, ThreadInv, RangeInv, TypeOK, InRange

(* Other threads' invariants do not mention what a thread changes. *)
LEMMA Frame ==
    ASSUME NEW u \in Threads, ThreadInv(u),
           pc'[u] = pc[u], call'[u] = call[u], cur'[u] = cur[u], out'[u] = out[u],
           block'[u] = block[u], fpos'[u] = fpos[u], result'[u] = result[u]
    PROVE  ThreadInv(u)'
<1>1. RangeInv(u)'  BY DEF ThreadInv, RangeInv, InLoop
<1>2. FetchInv(u)'  BY DEF ThreadInv, FetchInv
<1>3. BufferInv(u)'  BY DEF ThreadInv, BufferInv, InLoop
<1>4. ResultInv(u)'  BY DEF ThreadInv, ResultInv
<1> QED BY <1>1, <1>2, <1>3, <1>4 DEF ThreadInv

LEMMA KeptType ==
    ASSUME NEW s \in Seq(Blocks)
    PROVE  Kept(s) \in Seq(Blocks)
<1>1. Len(s) \in Nat /\ CacheBlocks \in Nat  BY LenProperties, GeometryAssumption
<1>2. CASE Len(s) > CacheBlocks
  <2> DEFINE m == Len(s) - CacheBlocks + 1
  <2>1. m \in Int /\ Len(s) \in Int /\ m >= 1  BY <1>1, <1>2
  <2>2. \A k \in m..Len(s) : s[k] \in Blocks  BY <2>1, <1>1, ElementOfSeq
  <2> HIDE DEF m
  <2>3. SubSeq(s, m, Len(s)) \in Seq(Blocks)  BY <2>1, <2>2, SubSeqProperties
  <2> QED BY <1>2, <2>3 DEF Kept, m
<1> QED BY <1>2 DEF Kept

(* Storing a sound block keeps the cache typed and sound. *)
LEMMA PutKeeps ==
    ASSUME IInv, NEW b \in Blocks, CachePut(b, Archive[b]),
           b \notin CorruptRecord \cup BadStream
    PROVE  order' \in Seq(Blocks) /\ DOMAIN data' = Blocks /\ CacheSound'
<1>1. order \in Seq(Blocks)  BY DEF IInv, TypeOK
<1>2. MovedToEnd(order, b) \in Seq(Blocks)
  BY <1>1, MovedToEndType
<1>3. order' \in Seq(Blocks)  BY <1>2, KeptType DEF CachePut
<1>4. data' = [x \in Blocks |-> IF ~ InSeq(x, order') THEN NotCached
                                ELSE IF x = b THEN Archive[b] ELSE data[x]]
  BY DEF CachePut
<1>5. CacheSound'  BY <1>4 DEF IInv, CacheSound
<1> QED BY <1>3, <1>4, <1>5

LEMMA TouchKeeps ==
    ASSUME IInv, NEW b \in Blocks, CacheTouch(b)
    PROVE  order' \in Seq(Blocks) /\ DOMAIN data' = Blocks /\ CacheSound'
<1>1. order \in Seq(Blocks) /\ DOMAIN data = Blocks  BY DEF IInv, TypeOK
<1>2. order' \in Seq(Blocks)
  BY <1>1, MovedToEndType DEF CacheTouch
<1> QED BY <1>1, <1>2 DEF CacheTouch, IInv, CacheSound
-----------------------------------------------------------------------------
(* One lemma per action *)

LEMMA InitHolds == Init => IInv
<1> SUFFICES ASSUME Init PROVE IInv  OBVIOUS
<1>1. TypeOK
  BY EmptySeq DEF Init, TypeOK, Labels
<1>2. CacheSound  BY DEF Init, CacheSound
<1>3. ASSUME NEW t \in Threads PROVE ThreadInv(t)
  BY DEF Init, ThreadInv, RangeInv, FetchInv, BufferInv, ResultInv, InLoop
<1> QED BY <1>1, <1>2, <1>3 DEF IInv

LEMMA BeginKeeps ==
    ASSUME IInv, NEW t \in Threads, Begin(t)
    PROVE  IInv'
<1> USE DEF Begin
<1>1. TypeOK'
  BY GeometryAssumption DEF IInv, TypeOK, Labels
<1>2. CacheSound'  BY DEF IInv, CacheSound
<1>3. ASSUME NEW u \in Threads PROVE ThreadInv(u)'
  <2>1. CASE u = t
    BY <2>1 DEF IInv, TypeOK, ThreadInv, RangeInv, FetchInv, BufferInv, ResultInv, InLoop
  <2>2. CASE u # t  BY <2>2, Frame DEF IInv, TypeOK
  <2> QED BY <2>1, <2>2
<1> QED BY <1>1, <1>2, <1>3 DEF IInv

(* Returning r, provided it is the right answer to a clean request. *)
LEMMA FinishKeeps ==
    ASSUME IInv, NEW t \in Threads, NEW r, Finish(t, r),
           I!Clean(call[t]) => r = I!SliceOf(call[t]),
           UNCHANGED <<call, fpos, order, data>>
    PROVE  IInv'
<1> USE DEF Finish
<1>1. TypeOK'
  BY EmptySeq DEF IInv, TypeOK, Labels
<1>2. CacheSound'  BY DEF IInv, CacheSound
<1>3. ASSUME NEW u \in Threads PROVE ThreadInv(u)'
  <2>1. CASE u = t
    BY <2>1 DEF IInv, TypeOK, ThreadInv, RangeInv, FetchInv, BufferInv, ResultInv, InLoop
  <2>2. CASE u # t  BY <2>2, Frame DEF IInv, TypeOK
  <2> QED BY <2>1, <2>2
<1> QED BY <1>1, <1>2, <1>3 DEF IInv

LEMMA ZeroBuffer ==
    ASSUME NEW n \in Nat
    PROVE  [i \in 1..n |-> Zero] \in Seq(Byte) /\ Len([i \in 1..n |-> Zero]) = n
  BY ContentAssumption

LEMMA EnterKeeps ==
    ASSUME IInv, NEW t \in Threads, Enter(t)
    PROVE  IInv'
<1> DEFINE r == call[t]
<1>0. /\ r \in [off : Int, len : Int] /\ PartitionSize \in Int
      /\ EndOf(r) \in Int /\ I!EndOf(r) = EndOf(r)
  BY GeometryAssumption DEF IInv, TypeOK, EndOf, PartitionSize, I!EndOf
<1>1. CASE r.off < 0 /\ Finish(t, ValueErr) /\ UNCHANGED <<call, fpos, order, data>>
  <2>1. ~ I!Clean(call[t])  BY <1>0, <1>1 DEF I!Clean
  <2> QED BY <1>1, <2>1, FinishKeeps
<1>2. CASE /\ r.off >= 0 /\ (r.len <= 0 \/ EndOf(r) <= r.off)
           /\ Finish(t, << >>) /\ UNCHANGED <<call, fpos, order, data>>
  <2>1. ~ (r.len > 0 /\ EndOf(r) > r.off)  BY <1>0, <1>2
  <2>2. I!SliceOf(r) = << >>  BY <1>0, <2>1 DEF I!SliceOf
  <2> QED BY <1>2, <2>2, FinishKeeps
<1>3. CASE /\ r.off >= 0 /\ r.len > 0 /\ EndOf(r) > r.off
           /\ pc'  = [pc EXCEPT ![t] = "loop"]
           /\ cur' = [cur EXCEPT ![t] = r.off]
           /\ out' = [out EXCEPT ![t] = [i \in 1..(EndOf(r) - r.off) |-> Zero]]
           /\ UNCHANGED <<block, result, call, fpos, order, data>>
  <2>1. /\ [i \in 1..(EndOf(r) - r.off) |-> Zero] \in Seq(Byte)
        /\ Len([i \in 1..(EndOf(r) - r.off) |-> Zero]) = EndOf(r) - r.off
    <3>1. EndOf(r) - r.off \in Nat  BY <1>0, <1>3
    <3> QED BY <3>1, ZeroBuffer
  <2>2. TypeOK'
    <3>1. pc' \in [Threads -> Labels]  BY <1>3 DEF IInv, TypeOK, Labels
    <3>2. cur' \in [Threads -> Int]  BY <1>0, <1>3 DEF IInv, TypeOK
    <3>3. out' \in [Threads -> Seq(Byte)]  BY <1>3, <2>1 DEF IInv, TypeOK
    <3>4. /\ call' \in [Threads -> [off : Int, len : Int]]
          /\ block' \in [Threads -> Seq(Seq(Byte))]
          /\ fpos' \in [Threads -> Blocks \cup {0}]
          /\ order' \in Seq(Blocks)
          /\ DOMAIN data' = Blocks /\ DOMAIN result' = Threads
      BY <1>3 DEF IInv, TypeOK
    <3> QED BY <3>1, <3>2, <3>3, <3>4 DEF TypeOK
  <2>3. CacheSound'  BY <1>3 DEF IInv, CacheSound
  <2>4. ASSUME NEW u \in Threads PROVE ThreadInv(u)'
    <3>1. CASE u = t
      <4>1. pc'[t] = "loop" /\ cur'[t] = r.off /\ call'[t] = r
            /\ out'[t] = [i \in 1..(EndOf(r) - r.off) |-> Zero]
        BY <1>3 DEF IInv, TypeOK
      <4>2. RangeInv(t)'  BY <1>0, <1>3, <4>1 DEF RangeInv
      <4>3. FetchInv(t)' /\ ResultInv(t)'  BY <4>1 DEF FetchInv, ResultInv
      <4>4. BufferInv(t)'  BY <1>0, <1>3, <2>1, <4>1 DEF BufferInv
      <4> QED BY <3>1, <4>2, <4>3, <4>4 DEF ThreadInv
    <3>2. CASE u # t  BY <1>3, <3>2, Frame DEF IInv, TypeOK
    <3> QED BY <3>1, <3>2
  <2> QED BY <2>2, <2>3, <2>4 DEF IInv
<1> QED BY <1>1, <1>2, <1>3 DEF Enter, Finish

LEMMA SkipSparseKeeps ==
    ASSUME IInv, NEW t \in Threads, SkipSparse(t)
    PROVE  IInv'
<1> USE DEF SkipSparse, More
<1>0. pc[t] \in InLoop /\ cur[t] < EndOf(call[t]) /\ pc[t] = "loop"  BY DEF InLoop
<1>1. InRange(t)  BY <1>0, InvInRange
<1>2. /\ Take(t) \in Nat \ {0} /\ cur[t] + Take(t) <= EndOf(call[t])
      /\ InCluster(cur[t]) + Take(t) <= ClusterSize /\ EndOf(call[t]) \in Nat
      /\ EndOf(call[t]) <= PartitionSize /\ cur[t] \in 0..(PartitionSize - 1)
      /\ PartitionSize \in Int /\ InCluster(cur[t]) \in 0..(ClusterSize - 1)
  BY <1>1, TakeFacts, InPartition, GeometryAssumption DEF PartitionSize
<1>3. TypeOK'
  <2>1. cur' \in [Threads -> Int]  BY <1>2 DEF IInv, TypeOK
  <2>2. UNCHANGED <<pc, call, out, block, fpos, order, data, result>>  OBVIOUS
  <2>3. TypeOK  BY DEF IInv
  <2> QED BY <2>1, <2>2, <2>3 DEF TypeOK
<1>4. CacheSound'  BY DEF IInv, CacheSound
<1>5. ASSUME NEW u \in Threads PROVE ThreadInv(u)'
  <2>1. CASE u = t
    <3>1. /\ cur'[t] = cur[t] + Take(t) /\ pc'[t] = "loop"
          /\ call'[t] = call[t] /\ out'[t] = out[t]
      BY <1>0 DEF IInv, TypeOK
    <3>2. RangeInv(t)'
      BY <1>0, <1>1, <1>2, <3>1 DEF IInv, ThreadInv, RangeInv, InRange
    <3>3. FetchInv(t)' /\ ResultInv(t)'  BY <3>1 DEF FetchInv, ResultInv
    <3>4. BufferInv(t)'
      <4> SUFFICES ASSUME I!Clean(call[t])
                   PROVE  /\ Len(out[t]) = EndOf(call[t]) - call[t].off
                          /\ \A i \in 1..Len(out[t]) :
                                out[t][i] = IF call[t].off + i - 1 < cur[t] + Take(t)
                                            THEN ImageByte[call[t].off + i - 1] ELSE Zero
        BY <3>1 DEF BufferInv
      <4>1. /\ Len(out[t]) = EndOf(call[t]) - call[t].off
            /\ \A i \in 1..Len(out[t]) :
                  out[t][i] = IF call[t].off + i - 1 < cur[t]
                              THEN ImageByte[call[t].off + i - 1] ELSE Zero
        BY <1>0 DEF IInv, ThreadInv, BufferInv
      <4>2. ASSUME NEW x \in cur[t]..(cur[t] + Take(t) - 1) PROVE ImageByte[x] = Zero
        <5>1. cur[t] \in Nat /\ x - cur[t] \in Nat /\ x = cur[t] + (x - cur[t])
              /\ InCluster(cur[t]) + (x - cur[t]) < ClusterSize
          BY <1>2, GeometryAssumption
        <5>2. ~ Present(x)  BY <5>1, SameCluster
        <5>3. x \in 0..(PartitionSize - 1)  BY <1>2
        <5> QED BY <5>2, <5>3 DEF ImageByte
      <4>3. ASSUME NEW i \in 1..Len(out[t])
            PROVE  out[t][i] = IF call[t].off + i - 1 < cur[t] + Take(t)
                               THEN ImageByte[call[t].off + i - 1] ELSE Zero
        <5>1. call[t].off + i - 1 \in Int /\ cur[t] \in Int /\ Take(t) \in Int
          <6>1. call[t].off \in Int /\ cur[t] \in Int /\ Take(t) \in Int
            BY <1>1, <1>2 DEF InRange
          <6>2. i \in Int  OBVIOUS
          <6> QED BY <6>1, <6>2
        <5>2. CASE call[t].off + i - 1 < cur[t]
          <6>1. call[t].off + i - 1 < cur[t] + Take(t)  BY <5>1, <5>2, <1>2
          <6> QED BY <4>1, <5>2, <6>1
        <5>3. CASE /\ ~ (call[t].off + i - 1 < cur[t])
                   /\ call[t].off + i - 1 < cur[t] + Take(t)
          <6>1. call[t].off + i - 1 \in cur[t]..(cur[t] + Take(t) - 1)  BY <5>1, <5>3
          <6> QED BY <4>1, <4>2, <5>3, <6>1
        <5>4. CASE ~ (call[t].off + i - 1 < cur[t] + Take(t))
          <6>1. ~ (call[t].off + i - 1 < cur[t])  BY <5>1, <5>4, <1>2
          <6> QED BY <4>1, <5>4, <6>1
        <5> QED BY <5>2, <5>3, <5>4
      <4> QED BY <4>1, <4>3
    <3> QED BY <2>1, <3>2, <3>3, <3>4 DEF ThreadInv
  <2>2. CASE u # t  BY <2>2, Frame DEF IInv, TypeOK
  <2> QED BY <2>1, <2>2
<1> QED BY <1>3, <1>4, <1>5 DEF IInv
(* A clean request meets intact blocks only. *)
LEMMA CleanIsIntact ==
    ASSUME NEW t \in Threads, InRange(t), Present(cur[t]), I!Clean(call[t])
    PROVE  BlockOf(cur[t]) \in IntactBlocks
<1>1. cur[t] \in 0..(PartitionSize - 1)  BY TakeFacts
<1>2. I!EndOf(call[t]) = EndOf(call[t])  BY DEF EndOf, I!EndOf
<1>3. cur[t] \in call[t].off..(EndOf(call[t]) - 1)  BY TakeFacts DEF InRange
<1>4. cur[t] \notin Damaged  BY <1>2, <1>3 DEF I!Clean
<1> QED BY <1>1, <1>4 DEF Damaged

(* Copying out of the right block extends the copied part of the image. *)
LEMMA CopyKeeps ==
    ASSUME IInv, NEW t \in Threads, InRange(t), pc[t] \in InLoop, Present(cur[t]),
           CopyFrom(t, Archive[BlockOf(cur[t])]),
           UNCHANGED <<call, fpos, result>>,
           block' \in [Threads -> Seq(Seq(Byte))],
           \A u \in Threads : u # t => block'[u] = block[u],
           order' \in Seq(Blocks), DOMAIN data' = Blocks, CacheSound'
    PROVE  IInv'
<1> DEFINE v == Archive[BlockOf(cur[t])]
           a == cur[t] - call[t].off
           n == Take(t)
           P == Piece(t, v)
           O == Splice(out[t], a, n, P)
<1>1. /\ n \in Nat \ {0} /\ cur[t] + n <= EndOf(call[t])
      /\ EndOf(call[t]) \in Nat /\ call[t].off \in Nat /\ cur[t] \in Nat
      /\ a \in Nat /\ BlockOf(cur[t]) \in Blocks /\ cur[t] < EndOf(call[t])
  <2>1. /\ n \in Nat \ {0} /\ cur[t] + n <= EndOf(call[t])
        /\ EndOf(call[t]) \in Nat /\ cur[t] < EndOf(call[t])
    BY TakeFacts DEF InRange
  <2>2. BlockOf(cur[t]) \in Blocks
    <3>1. cur[t] \in 0..(PartitionSize - 1)  BY TakeFacts
    <3> QED BY <3>1, InPartition
  <2>3. call[t].off \in Nat /\ cur[t] \in Nat /\ a \in Nat  BY DEF InRange
  <2> QED BY <2>1, <2>2, <2>3
<1>2. v \in Seq(Seq(Byte))  BY <1>1, ContentAssumption
<1>3. P \in Seq(Byte)  BY <1>2, PieceType
<1>4. out[t] \in Seq(Byte)  BY DEF IInv, TypeOK
<1>5. O \in Seq(Byte)
  <2> HIDE DEF P, a, n
  <2> QED BY <1>1, <1>3, <1>4, SpliceType
<1>6. /\ out' = [out EXCEPT ![t] = O] /\ cur' = [cur EXCEPT ![t] = cur[t] + n]
      /\ pc' = [pc EXCEPT ![t] = "loop"]
  BY DEF CopyFrom
<1>9. /\ call[t].off + a = cur[t] /\ a + n <= EndOf(call[t]) - call[t].off
      /\ n \in Nat /\ a \in Nat /\ call[t].off \in Int /\ cur[t] \in Int
  <2> HIDE DEF n
  <2> QED BY <1>1
<1> HIDE DEF O, P, n, a, v
<1>7. TypeOK'
  <2>1. TypeOK  BY DEF IInv
  <2>2. pc' \in [Threads -> Labels]  BY <1>6, <2>1 DEF TypeOK, Labels
  <2>3. cur' \in [Threads -> Int]
    <3>1. cur[t] + n \in Int  BY <1>9
    <3> QED BY <1>6, <2>1, <3>1 DEF TypeOK
  <2>4. out' \in [Threads -> Seq(Byte)]  BY <1>5, <1>6, <2>1 DEF TypeOK
  <2> QED BY <2>1, <2>2, <2>3, <2>4 DEF TypeOK
<1>8. ASSUME NEW u \in Threads PROVE ThreadInv(u)'
  <2>1. CASE u = t
    <3>1. /\ cur'[t] = cur[t] + n /\ pc'[t] = "loop" /\ call'[t] = call[t] /\ out'[t] = O
      BY <1>6 DEF IInv, TypeOK
    <3>2. RangeInv(t)'
      BY <1>1, <3>1 DEF IInv, ThreadInv, RangeInv
    <3>3. FetchInv(t)' /\ ResultInv(t)'  BY <3>1 DEF FetchInv, ResultInv
    <3>4. BufferInv(t)'
      <4> SUFFICES ASSUME I!Clean(call[t])
                   PROVE  /\ Len(O) = EndOf(call[t]) - call[t].off
                          /\ \A i \in 1..Len(O) :
                                O[i] = IF call[t].off + i - 1 < cur[t] + n
                                       THEN ImageByte[call[t].off + i - 1] ELSE Zero
        BY <3>1 DEF BufferInv
      <4>0. Len(out[t]) = EndOf(call[t]) - call[t].off
        BY DEF IInv, ThreadInv, BufferInv
      <4>1. \A i \in 1..Len(out[t]) :
                out[t][i] = IF call[t].off + i - 1 < cur[t]
                            THEN ImageByte[call[t].off + i - 1] ELSE Zero
        BY DEF IInv, ThreadInv, BufferInv
      <4>2. BlockOf(cur[t]) \in IntactBlocks  BY CleanIsIntact
      <4>3. Len(P) = n /\ \A i \in 1..n : P[i] = ImageByte[cur[t] + i - 1]
        BY <4>2, PieceValue DEF P, n, v
      <4>4. a + n <= Len(out[t])  BY <1>9, <4>0
      <4>5. /\ Len(O) = Len(out[t])
            /\ \A i \in 1..Len(out[t]) :
                  O[i] = IF i > a /\ i <= a + n THEN P[i - a] ELSE out[t][i]
        <5>1. Len(P) = n /\ n \in Nat /\ a \in Nat  BY <1>9, <4>3
        <5>2. /\ Len(Splice(out[t], a, n, P)) = Len(out[t])
              /\ \A i \in 1..Len(out[t]) : Splice(out[t], a, n, P)[i] =
                    IF i > a /\ i <= a + n THEN P[i - a] ELSE out[t][i]
          <6>1. \A x, y \in Seq(Byte), k, m \in Nat :
                    k + m <= Len(x) /\ Len(y) = m =>
                       /\ Len(Splice(x, k, m, y)) = Len(x)
                       /\ \A i \in 1..Len(x) : Splice(x, k, m, y)[i] =
                             IF i > k /\ i <= k + m THEN y[i - k] ELSE x[i]
            BY SpliceValue
          <6> HIDE DEF a, n, P
          <6> QED BY <1>3, <1>4, <4>4, <5>1, <6>1
        <5> QED BY <5>2 DEF O
      <4>7. \A i \in Int :
              /\ i <= a => /\ call[t].off + i - 1 < cur[t]
                           /\ call[t].off + i - 1 < cur[t] + n
              /\ i > a /\ i <= a + n => /\ call[t].off + i - 1 < cur[t] + n
                                        /\ i - a \in 1..n
                                        /\ cur[t] + (i - a) - 1 = call[t].off + i - 1
              /\ i > a + n => /\ ~ (call[t].off + i - 1 < cur[t])
                              /\ ~ (call[t].off + i - 1 < cur[t] + n)
        <5>1. /\ call[t].off \in Int /\ a \in Int /\ n \in Nat
              /\ cur[t] = call[t].off + a
          BY <1>9
        <5> DEFINE c == cur[t]  o == call[t].off
        <5>2. cur[t] = c /\ call[t].off = o /\ c = o + a /\ o \in Int  BY <5>1
        <5> HIDE DEF a, n, c, o
        <5> SUFFICES ASSUME NEW i \in Int
                     PROVE  /\ i <= a => o + i - 1 < c /\ o + i - 1 < c + n
                            /\ i > a /\ i <= a + n => /\ o + i - 1 < c + n
                                                      /\ i - a \in 1..n
                                                      /\ c + (i - a) - 1 = o + i - 1
                            /\ i > a + n => /\ ~ (o + i - 1 < c)
                                            /\ ~ (o + i - 1 < c + n)
          BY <5>2
        <5> QED BY <5>1, <5>2
      <4>6. ASSUME NEW i \in 1..Len(out[t])
            PROVE  O[i] = IF call[t].off + i - 1 < cur[t] + n
                          THEN ImageByte[call[t].off + i - 1] ELSE Zero
        <5>0. i \in Int /\ 1 <= i  BY <1>4, LenProperties
        <5>1. CASE i <= a
          <6>1. call[t].off + i - 1 < cur[t] /\ call[t].off + i - 1 < cur[t] + n
            BY <4>7, <5>0, <5>1
          <6>2. ~ (i > a /\ i <= a + n)
            <7>1. a \in Int /\ n \in Int  BY <1>9
            <7> QED BY <5>0, <5>1, <7>1
          <6>3. O[i] = out[t][i]  BY <4>5, <6>2
          <6> QED BY <4>1, <6>1, <6>3
        <5>2. CASE i > a /\ i <= a + n
          <6>1. /\ call[t].off + i - 1 < cur[t] + n /\ i - a \in 1..n
                /\ cur[t] + (i - a) - 1 = call[t].off + i - 1
            BY <4>7, <5>0, <5>2
          <6>2. O[i] = P[i - a]  BY <4>5, <5>2
          <6>3. P[i - a] = ImageByte[cur[t] + (i - a) - 1]  BY <4>3, <6>1
          <6> QED BY <6>1, <6>2, <6>3
        <5>3. CASE i > a + n
          <6>1. /\ ~ (call[t].off + i - 1 < cur[t])
                /\ ~ (call[t].off + i - 1 < cur[t] + n)
            BY <4>7, <5>0, <5>3
          <6>2. ~ (i > a /\ i <= a + n)
            <7>1. a \in Int /\ n \in Int  BY <1>9
            <7> QED BY <5>0, <5>3, <7>1
          <6>3. O[i] = out[t][i]  BY <4>5, <6>2
          <6> QED BY <4>1, <6>1, <6>3
        <5>4. i <= a \/ (i > a /\ i <= a + n) \/ i > a + n  BY <1>9, <5>0
        <5> QED BY <5>1, <5>2, <5>3, <5>4
      <4> QED BY <4>0, <4>5, <4>6
    <3> QED BY <2>1, <3>2, <3>3, <3>4 DEF ThreadInv
  <2>2. CASE u # t  BY <1>6, <2>2, Frame DEF IInv, TypeOK
  <2> QED BY <2>1, <2>2
<1> QED BY <1>7, <1>8 DEF IInv

LEMMA HitKeeps ==
    ASSUME IInv, NEW t \in Threads, Hit(t)
    PROVE  IInv'
<1> DEFINE b == BlockOf(cur[t])
<1>1. InRange(t) /\ pc[t] \in InLoop  BY InvInRange DEF Hit, More, InLoop
<1>2. b \in Blocks  BY <1>1, TakeFacts, InPartition
<1>3. data[b] = Archive[b]  BY <1>2 DEF Hit, IInv, CacheSound
<1>4. order' \in Seq(Blocks) /\ DOMAIN data' = Blocks /\ CacheSound'
  BY <1>2, TouchKeeps DEF Hit
<1>5. CopyFrom(t, Archive[b])  BY <1>3 DEF Hit
<1>6. block' \in [Threads -> Seq(Seq(Byte))] /\ block' = block
  BY DEF Hit, IInv, TypeOK
<1> HIDE DEF b
<1> QED BY <1>1, <1>4, <1>5, <1>6, CopyKeeps DEF Hit, b

LEMMA PutKeepsInv ==
    ASSUME IInv, NEW t \in Threads, Put(t)
    PROVE  IInv'
<1> DEFINE b == BlockOf(cur[t])
<1>1. pc[t] \in InLoop /\ cur[t] < EndOf(call[t]) /\ Present(cur[t])
      /\ b \notin CorruptRecord \cup BadStream /\ block[t] = Archive[b]
  BY DEF Put, IInv, ThreadInv, FetchInv, InLoop
<1>2. InRange(t)  BY <1>1, InvInRange
<1>3. b \in Blocks  BY <1>2, TakeFacts, InPartition
<1>4. order' \in Seq(Blocks) /\ DOMAIN data' = Blocks /\ CacheSound'
  BY <1>1, <1>3, PutKeeps DEF Put
<1>5. CopyFrom(t, Archive[b])  BY <1>1 DEF Put
<1>6. /\ block' \in [Threads -> Seq(Seq(Byte))]
      /\ \A u \in Threads : u # t => block'[u] = block[u]
  BY EmptySeq DEF Put, IInv, TypeOK
<1> HIDE DEF b
<1> QED BY <1>1, <1>2, <1>4, <1>5, <1>6, CopyKeeps DEF Put, b
LEMMA MissKeeps ==
    ASSUME IInv, NEW t \in Threads, Miss(t)
    PROVE  IInv'
<1> DEFINE b == BlockOf(cur[t])
<1>0. /\ pc[t] = "loop" /\ cur[t] < EndOf(call[t]) /\ Present(cur[t])
      /\ UNCHANGED <<call, fpos, order, data>>
  BY DEF Miss, More
<1>1. InRange(t)  BY <1>0, InvInRange DEF InLoop
<1>2. CASE b \in CorruptRecord /\ Finish(t, ValueErr)
  <2>1. ~ I!Clean(call[t])
    BY <1>0, <1>1, <1>2, CleanIsIntact DEF IntactBlocks
  <2> QED BY <1>0, <1>2, <2>1, FinishKeeps
<1>3. CASE /\ b \notin CorruptRecord /\ pc' = [pc EXCEPT ![t] = "seek"]
           /\ UNCHANGED <<cur, out, block, result>>
  <2>1. TypeOK'  BY <1>0, <1>3 DEF IInv, TypeOK, Labels
  <2>2. CacheSound'  BY <1>0 DEF IInv, CacheSound
  <2>3. ASSUME NEW u \in Threads PROVE ThreadInv(u)'
    <3>1. CASE u = t
      <4>1. pc'[t] = "seek"  BY <1>3 DEF IInv, TypeOK
      <4>2. RangeInv(t)' /\ BufferInv(t)'
        BY <1>0, <1>3, <4>1 DEF IInv, ThreadInv, RangeInv, BufferInv, InLoop
      <4>3. FetchInv(t)' /\ ResultInv(t)'
        BY <1>0, <1>3, <4>1 DEF FetchInv, ResultInv
      <4> QED BY <3>1, <4>2, <4>3 DEF ThreadInv
    <3>2. CASE u # t  BY <1>0, <1>3, <3>2, Frame DEF IInv, TypeOK
    <3> QED BY <3>1, <3>2
  <2> QED BY <2>1, <2>2, <2>3 DEF IInv
<1> QED BY <1>2, <1>3 DEF Miss

(* The thread's own handle now stands at the block it needs. *)
LEMMA SeekKeeps ==
    ASSUME IInv, NEW t \in Threads, Seek(t)
    PROVE  IInv'
<1> USE DEF Seek, Handle
<1>1. InRange(t)  BY InvInRange DEF IInv, ThreadInv, FetchInv, InLoop
<1>2. BlockOf(cur[t]) \in Blocks  BY <1>1, TakeFacts, InPartition
<1>3. TypeOK'  BY <1>2 DEF IInv, TypeOK, Labels
<1>4. CacheSound'  BY DEF IInv, CacheSound
<1>5. ASSUME NEW u \in Threads PROVE ThreadInv(u)'
  <2>1. CASE u = t
    BY <2>1 DEF IInv, TypeOK, ThreadInv, RangeInv, FetchInv, BufferInv, ResultInv, InLoop
  <2>2. CASE u # t  BY <2>2, Frame DEF IInv, TypeOK
  <2> QED BY <2>1, <2>2
<1> QED BY <1>3, <1>4, <1>5 DEF IInv

LEMMA ReadInflateKeeps ==
    ASSUME IInv, NEW t \in Threads, ReadInflate(t)
    PROVE  IInv'
<1> USE DEF ReadInflate, Handle
<1>1. /\ pc[t] = "read" /\ fpos[t] = BlockOf(cur[t]) /\ cur[t] < EndOf(call[t])
      /\ Present(cur[t]) /\ UNCHANGED <<call, fpos, order, data>>
  BY DEF IInv, ThreadInv, FetchInv
<1>2. InRange(t)  BY <1>1, InvInRange DEF InLoop
<1>3. fpos[t] \in Blocks  BY <1>1, <1>2, TakeFacts, InPartition
<1>4. CASE fpos[t] \in BadStream /\ Finish(t, ZlibErr)
  <2>1. ~ I!Clean(call[t])
    BY <1>1, <1>2, <1>4, CleanIsIntact DEF IntactBlocks
  <2> QED BY <1>1, <1>4, <2>1, FinishKeeps
<1>5. CASE /\ fpos[t] \notin BadStream
           /\ block' = [block EXCEPT ![t] = Archive[fpos[t]]]
           /\ pc' = [pc EXCEPT ![t] = "put"] /\ UNCHANGED <<cur, out, result>>
  <2>1. Archive[fpos[t]] \in Seq(Seq(Byte))  BY <1>3, ContentAssumption
  <2>2. TypeOK'  BY <1>1, <1>5, <2>1 DEF IInv, TypeOK, Labels
  <2>3. CacheSound'  BY <1>1 DEF IInv, CacheSound
  <2>4. ASSUME NEW u \in Threads PROVE ThreadInv(u)'
    <3>1. CASE u = t
      <4>1. pc'[t] = "put" /\ block'[t] = Archive[fpos[t]]
        BY <1>5 DEF IInv, TypeOK
      <4>2. RangeInv(t)' /\ BufferInv(t)'
        BY <1>1, <1>5, <4>1 DEF IInv, ThreadInv, RangeInv, BufferInv, InLoop
      <4>3. FetchInv(t)' /\ ResultInv(t)'
        BY <1>1, <1>5, <4>1 DEF IInv, ThreadInv, FetchInv, ResultInv
      <4> QED BY <3>1, <4>2, <4>3 DEF ThreadInv
    <3>2. CASE u # t  BY <1>1, <1>5, <3>2, Frame DEF IInv, TypeOK
    <3> QED BY <3>1, <3>2
  <2> QED BY <2>2, <2>3, <2>4 DEF IInv
<1> QED BY <1>1, <1>4, <1>5

LEMMA ReturnKeeps ==
    ASSUME IInv, NEW t \in Threads, Return(t)
    PROVE  IInv'
<1>1. /\ pc[t] = "loop" /\ cur[t] >= EndOf(call[t]) /\ Finish(t, out[t])
      /\ UNCHANGED <<call, fpos, order, data>>
  BY DEF Return
<1>2. ASSUME I!Clean(call[t]) PROVE out[t] = I!SliceOf(call[t])
  <2>1. /\ call[t].off \in Nat /\ call[t].len > 0 /\ call[t].off < EndOf(call[t])
        /\ cur[t] = EndOf(call[t]) /\ EndOf(call[t]) \in Int
    <3>1. /\ call[t].off \in Nat /\ call[t].len > 0 /\ call[t].off < EndOf(call[t])
          /\ cur[t] <= EndOf(call[t])
      BY <1>1 DEF IInv, ThreadInv, RangeInv, InLoop
    <3>2. EndOf(call[t]) \in Int
      <4>1. call[t] \in [off : Int, len : Int]  BY DEF IInv, TypeOK
      <4>2. PartitionSize \in Int  BY GeometryAssumption DEF PartitionSize
      <4> QED BY <4>1, <4>2 DEF EndOf
    <3>3. cur[t] \in Int  BY DEF IInv, TypeOK
    <3> QED BY <1>1, <3>1, <3>2, <3>3
  <2>2. /\ Len(out[t]) = EndOf(call[t]) - call[t].off
        /\ \A i \in 1..Len(out[t]) :
              out[t][i] = IF call[t].off + i - 1 < cur[t]
                          THEN ImageByte[call[t].off + i - 1] ELSE Zero
    BY <1>1, <1>2 DEF IInv, ThreadInv, BufferInv, InLoop
  <2>3. out[t] = [i \in 1..Len(out[t]) |-> out[t][i]]
    BY LenProperties DEF IInv, TypeOK
  <2>4. \A i \in 1..(EndOf(call[t]) - call[t].off) :
            out[t][i] = ImageByte[call[t].off + i - 1]
    BY <2>1, <2>2
  <2>5. I!EndOf(call[t]) = EndOf(call[t])  BY DEF EndOf, I!EndOf
  <2>6. I!SliceOf(call[t]) = [i \in 1..(EndOf(call[t]) - call[t].off) |->
                                ImageByte[call[t].off + i - 1]]
    BY <2>1, <2>5 DEF I!SliceOf
  <2> QED BY <2>2, <2>3, <2>4, <2>6
<1> QED BY <1>1, <1>2, FinishKeeps
-----------------------------------------------------------------------------
(* The theorems *)

LEMMA NextKeeps == IInv /\ [Next]_vars => IInv'
<1> SUFFICES ASSUME IInv, [Next]_vars PROVE IInv'  OBVIOUS
<1>1. ASSUME NEW t \in Threads, Begin(t) PROVE IInv'  BY <1>1, BeginKeeps
<1>2. ASSUME NEW t \in Threads, Step(t) PROVE IInv'
  BY <1>2, EnterKeeps, SkipSparseKeeps, HitKeeps, MissKeeps, SeekKeeps,
     ReadInflateKeeps, PutKeepsInv, ReturnKeeps DEF Step
<1>3. CASE UNCHANGED vars
  <2>1. TypeOK' /\ CacheSound'  BY <1>3 DEF vars, IInv, TypeOK, CacheSound
  <2>2. ASSUME NEW u \in Threads PROVE ThreadInv(u)'
    BY <1>3, Frame DEF vars, IInv
  <2> QED BY <2>1, <2>2 DEF IInv
<1> QED BY <1>1, <1>2, <1>3 DEF Next

THEOREM InductiveInvariant == Spec => []IInv
  BY InitHolds, NextKeeps, PTL DEF Spec

(* Every variable keeps its type. *)
THEOREM TypeCorrect == Spec => []TypeOK
<1>1. IInv => TypeOK  BY DEF IInv
<1> QED BY <1>1, InductiveInvariant, PTL

(* The shared cache holds nothing but sound blocks (LRUCache.get and put,   *)
(* _decompress_block under any interleaving of threads).                    *)
THEOREM CacheIsSound == Spec => []CacheSound
<1>1. IInv => CacheSound  BY DEF IInv
<1> QED BY <1>1, InductiveInvariant, PTL

(* TibReader.read answers a clean request with the bytes of the image.      *)
THEOREM ReadsAreTheImage == Spec => []ReadIsImage
<1>1. IInv => ReadIsImage  BY DEF IInv, ThreadInv, ResultInv, ReadIsImage
<1> QED BY <1>1, InductiveInvariant, PTL

(* The branch of read for blocks beyond the index is never taken. *)
THEOREM ReadsStayInIndex == Spec => []WithinIndex
<1>1. IInv => WithinIndex
  BY InvInRange, TakeFacts, InPartition DEF WithinIndex
<1> QED BY <1>1, InductiveInvariant, PTL

(* A step of a read is a step of the abstract image or invisible there. *)
LEMMA StepRefines ==
    ASSUME IInv, IInv', [Next]_vars
    PROVE  [I!Next]_(I!ivars)
<1> DEFINE st == [t \in Threads |-> IF pc[t] = "idle" THEN "idle"
                                   ELSE IF pc[t] = "done" THEN "done" ELSE "busy"]
<1>1. pc \in [Threads -> Labels] /\ pc' \in [Threads -> Labels]
      /\ DOMAIN result = Threads /\ DOMAIN call = Threads
  BY DEF IInv, TypeOK
<1>2. ASSUME NEW t \in Threads, Begin(t) PROVE I!Begin(t)
  BY <1>1, <1>2 DEF Begin, I!Begin, Labels
<1>3. ASSUME NEW t \in Threads, NEW r, Finish(t, r), call' = call,
             pc[t] \notin {"idle", "done"}
      PROVE  I!Answer(t)
  <2>1. st[t] = "busy" /\ st' = [st EXCEPT ![t] = "done"]
    BY <1>1, <1>3 DEF Finish, Labels
  <2>2. result' = [result EXCEPT ![t] = result'[t]]
    BY <1>1, <1>3 DEF Finish
  <2>3. pc'[t] = "done"  BY <1>1, <1>3 DEF Finish
  <2>4. I!Clean(call[t]) => result'[t] = I!SliceOf(call[t])
    BY <1>3, <2>3 DEF IInv, ThreadInv, ResultInv
  <2> QED BY <1>3, <2>1, <2>2, <2>4 DEF I!Answer
<1>4. ASSUME NEW t \in Threads, NEW l \in {"loop", "seek", "read", "put"},
             pc[t] \notin {"idle", "done"}, pc' = [pc EXCEPT ![t] = l],
             UNCHANGED <<call, result>>
      PROVE  UNCHANGED I!ivars
  <2>1. st' = st  BY <1>1, <1>4
  <2> QED BY <1>4, <2>1 DEF I!ivars
<1>5. ASSUME NEW t \in Threads, Step(t) PROVE I!Answer(t) \/ UNCHANGED I!ivars
  <2>1. CASE Enter(t)  BY <2>1, <1>3, <1>4 DEF Enter
  <2>2. CASE SkipSparse(t)  BY <2>2 DEF SkipSparse, I!ivars
  <2>3. CASE Hit(t)  BY <2>3, <1>4 DEF Hit, More, CopyFrom
  <2>4. CASE Miss(t)  BY <2>4, <1>3, <1>4 DEF Miss, More
  <2>5. CASE Seek(t)  BY <2>5, <1>4 DEF Seek
  <2>6. CASE ReadInflate(t)  BY <2>6, <1>3, <1>4 DEF ReadInflate
  <2>7. CASE Put(t)  BY <2>7, <1>4 DEF Put, CopyFrom
  <2>8. CASE Return(t)  BY <2>8, <1>3 DEF Return
  <2> QED BY <1>5, <2>1, <2>2, <2>3, <2>4, <2>5, <2>6, <2>7, <2>8 DEF Step
<1>6. CASE UNCHANGED vars  BY <1>6 DEF vars, I!ivars
<1> QED BY <1>2, <1>5, <1>6 DEF Next, I!Next

(* TibReader implements TibImage: however its threads interleave, callers   *)
(* see atomic reads of one fixed image.                                     *)
THEOREM ReaderImplementsImage == Spec => ImplementsImage
<1>1. Init => I!Init  BY DEF Init, I!Init
<1>2. IInv /\ IInv' /\ [Next]_vars => [I!Next]_(I!ivars)  BY StepRefines
<1> QED BY <1>1, <1>2, InductiveInvariant, PTL DEF Spec, ImplementsImage, I!Spec
-----------------------------------------------------------------------------
(* The cache's keys *)

(* Eviction leaves distinct keys, no new one, never more than the limit. *)
LEMMA KeptKeys ==
    ASSUME NEW s \in Seq(Blocks), Distinct(s)
    PROVE  /\ Distinct(Kept(s)) /\ Len(Kept(s)) <= CacheBlocks
           /\ \A x \in Blocks : InSeq(x, Kept(s)) => InSeq(x, s)
<1>1. Len(s) \in Nat /\ CacheBlocks \in Nat  BY LenProperties, GeometryAssumption
<1>2. CASE Len(s) > CacheBlocks
  <2> DEFINE m == Len(s) - CacheBlocks  k == SubSeq(s, m + 1, Len(s))
  <2>1. Kept(s) = k  BY <1>1, <1>2 DEF Kept
  <2>2. m \in Nat /\ Len(s) = m + CacheBlocks  BY <1>1, <1>2
  <2> HIDE DEF m
  <2>3. Len(k) = CacheBlocks /\ \A i \in 1..CacheBlocks : k[i] = s[m + i]
    BY <1>1, <2>2
  <2> HIDE DEF k
  <2>4. Distinct(k)
    <3> SUFFICES ASSUME NEW i \in 1..CacheBlocks, NEW j \in 1..CacheBlocks, i # j
                 PROVE  k[i] # k[j]
      BY <2>3 DEF Distinct
    <3>1. m + i \in 1..Len(s) /\ m + j \in 1..Len(s) /\ m + i # m + j
      BY <1>1, <2>2
    <3> QED BY <2>3, <3>1 DEF Distinct
  <2>5. ASSUME NEW x \in Blocks, InSeq(x, k) PROVE InSeq(x, s)
    <3>1. PICK i \in 1..CacheBlocks : k[i] = x  BY <2>3, <2>5 DEF InSeq
    <3>2. m + i \in 1..Len(s) /\ s[m + i] = x  BY <1>1, <2>2, <2>3, <3>1
    <3> QED BY <3>2 DEF InSeq
  <2> QED BY <1>1, <2>1, <2>3, <2>4, <2>5
<1>3. CASE ~ (Len(s) > CacheBlocks)  BY <1>1, <1>3 DEF Kept
<1> QED BY <1>2, <1>3

(* The cache never ends an operation over its limit, and lists each cached  *)
(* block once (LRUCache.put and get).                                       *)
THEOREM CacheStaysBounded == Spec => []CacheBounded
<1>1. Init => CacheBounded
  <2> SUFFICES ASSUME Init PROVE CacheBounded  OBVIOUS
  <2>1. Len(order) = 0 /\ order = << >>  BY DEF Init
  <2> QED BY <2>1, GeometryAssumption DEF Init, CacheBounded, Distinct, InSeq
<1>2. IInv /\ CacheBounded /\ [Next]_vars => CacheBounded'
  <2> SUFFICES ASSUME IInv, CacheBounded, [Next]_vars PROVE CacheBounded'  OBVIOUS
  <2>0. order \in Seq(Blocks) /\ Distinct(order) /\ DOMAIN data = Blocks
    BY DEF IInv, TypeOK, CacheBounded, Distinct
  <2>1. ASSUME NEW b \in Blocks, CacheTouch(b), data[b] # NotCached
        PROVE  CacheBounded'
    <3> DEFINE z == MovedToEnd(order, b)
    <3>1. InSeq(b, order)  BY <2>1 DEF CacheBounded
    <3>2. /\ Distinct(z) /\ Len(z) = Len(order)
          /\ \A x \in Blocks : InSeq(x, z) <=> InSeq(x, order)
      <4>1. /\ Distinct(z)
            /\ \A x \in Blocks : InSeq(x, z) <=> (x = b \/ InSeq(x, order))
            /\ Len(z) = IF InSeq(b, order) THEN Len(order) ELSE Len(order) + 1
        BY <2>0, MovedToEndKeys
      <4> HIDE DEF z
      <4> QED BY <3>1, <4>1
    <3>3. order' = z /\ data' = data  BY <2>1 DEF CacheTouch
    <3> HIDE DEF z
    <3>4. Len(order') <= CacheBlocks  BY <3>2, <3>3 DEF CacheBounded
    <3>5. \A x \in Blocks : data'[x] # NotCached <=> InSeq(x, order')
      <4> SUFFICES ASSUME NEW x \in Blocks
                   PROVE  data'[x] # NotCached <=> InSeq(x, order')
        OBVIOUS
      <4>1. data[x] # NotCached <=> InSeq(x, order)  BY DEF CacheBounded
      <4>2. InSeq(x, z) <=> InSeq(x, order)  BY <3>2
      <4> QED BY <3>3, <4>1, <4>2
    <3>6. Distinct(order')  BY <3>2, <3>3
    <3> QED BY <3>4, <3>5, <3>6 DEF CacheBounded, Distinct
  <2>2. ASSUME NEW b \in Blocks, CachePut(b, Archive[b]) PROVE CacheBounded'
    <3> DEFINE z == MovedToEnd(order, b)
    <3>1. z \in Seq(Blocks) /\ Distinct(z)  BY <2>0, MovedToEndKeys
    <3> HIDE DEF z
    <3>2. order' = Kept(z)  BY <2>2 DEF CachePut, z
    <3>3. Distinct(order') /\ Len(order') <= CacheBlocks  BY <3>1, <3>2, KeptKeys
    <3>4. data' = [x \in Blocks |-> IF ~ InSeq(x, order') THEN NotCached
                                    ELSE IF x = b THEN Archive[b] ELSE data[x]]
      BY <2>2 DEF CachePut
    <3>5. \A x \in Blocks : InSeq(x, z) <=> (x = b \/ InSeq(x, order))
      BY <2>0, MovedToEndKeys DEF z
    <3>6. ASSUME NEW x \in Blocks
          PROVE  data'[x] # NotCached <=> InSeq(x, order')
      <4>1. CASE ~ InSeq(x, order')  BY <3>4, <4>1
      <4>2. CASE InSeq(x, order') /\ x = b
        BY <3>4, <4>2, ContentAssumption
      <4>3. CASE InSeq(x, order') /\ x # b
        <5>1. InSeq(x, z)  BY <3>1, <3>2, <4>3, KeptKeys
        <5>2. data[x] # NotCached  BY <3>5, <4>3, <5>1 DEF CacheBounded
        <5>3. data'[x] = data[x]  BY <3>4, <4>3
        <5> QED BY <4>3, <5>2, <5>3
      <4> QED BY <4>1, <4>2, <4>3
    <3> QED BY <3>3, <3>6 DEF CacheBounded, Distinct
  <2>3. ASSUME UNCHANGED <<order, data>> PROVE CacheBounded'
    BY <2>3 DEF CacheBounded
  <2>4. ASSUME NEW t \in Threads, Begin(t) \/ Step(t) PROVE CacheBounded'
    <3>1. CASE Hit(t)
      <4>1. InRange(t)  BY <3>1, InvInRange DEF Hit, More, InLoop
      <4>2. BlockOf(cur[t]) \in Blocks  BY <4>1, TakeFacts, InPartition
      <4> QED BY <2>1, <3>1, <4>2 DEF Hit
    <3>2. CASE Put(t)
      <4>1. /\ pc[t] \in InLoop /\ cur[t] < EndOf(call[t])
            /\ block[t] = Archive[BlockOf(cur[t])]
        BY <3>2 DEF Put, IInv, ThreadInv, FetchInv, InLoop
      <4>2. InRange(t)  BY <4>1, InvInRange
      <4>3. BlockOf(cur[t]) \in Blocks  BY <4>2, TakeFacts, InPartition
      <4> QED BY <2>2, <3>2, <4>1, <4>3 DEF Put
    <3>3. CASE Begin(t)  BY <2>3, <3>3 DEF Begin
    <3>4. CASE Enter(t)  BY <2>3, <3>4 DEF Enter
    <3>5. CASE SkipSparse(t)  BY <2>3, <3>5 DEF SkipSparse
    <3>6. CASE Miss(t)  BY <2>3, <3>6 DEF Miss
    <3>7. CASE Seek(t)  BY <2>3, <3>7 DEF Seek
    <3>8. CASE ReadInflate(t)  BY <2>3, <3>8 DEF ReadInflate
    <3>9. CASE Return(t)  BY <2>3, <3>9 DEF Return
    <3> QED BY <2>4, <3>1, <3>2, <3>3, <3>4, <3>5, <3>6, <3>7, <3>8, <3>9 DEF Step
  <2>5. CASE UNCHANGED vars  BY <2>3, <2>5 DEF vars
  <2> QED BY <2>4, <2>5 DEF Next
<1> QED BY <1>1, <1>2, InductiveInvariant, PTL DEF Spec

(* The state of the reader is well formed, as the run checks it.            *)
THEOREM ReaderIsWellFormed == Spec => []WellFormed
<1>1. TypeOK /\ CacheBounded /\ WithinIndex => WellFormed  BY DEF WellFormed
<1> QED BY <1>1, TypeCorrect, CacheStaysBounded, ReadsStayInIndex, PTL
=============================================================================

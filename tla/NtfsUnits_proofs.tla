-------------------------- MODULE NtfsUnits_proofs --------------------------
(***************************************************************************)
(* Machine-checked proofs about NtfsRuns and NtfsUnits, for every volume   *)
(* and whatever the reader was told of it, every number of threads and     *)
(* every limit of the cache.                                               *)
(***************************************************************************)
EXTENDS NtfsUnits, Lemmas, FiniteSetTheorems, TLAPS

(* Bytes are numbers, what the decoders return are bytes, and an error is   *)
(* none.                                                                    *)
ByteTypes ==
    /\ Zero \in Int /\ \A x \in Int : Image(x) \in Int
    /\ \A raw \in Seq(Int) : Lznt1(raw) \in Seq(Int)
    /\ \A raw \in Seq(Int), n \in Nat : Xpress(raw, n) \in Seq(Int) \cup {XpressError}
    /\ XpressError \notin Seq(Int)

(* A volume as VolumesAssumption types it. *)
IsVolume(v) == /\ v.origin \in Seq(Nat) /\ v.bpb \in Nat /\ v.shift \in Int
               /\ v.bpb + v.shift \in Nat
               /\ v.map \in Seq([from : Nat, shift : Int])

-----------------------------------------------------------------------------
(* Run lists *)

ClustersOf(runs) == Starts(runs)[Len(runs) + 1]

LEMMA RunTypes ==
    ASSUME NEW runs \in Seq(RunType)
    PROVE  /\ Len(runs) \in Nat
           /\ \A i \in 1..Len(runs) : /\ runs[i] \in RunType /\ runs[i].len \in Nat
                                      /\ runs[i].lcn \in Nat \cup {Hole}
<1>1. Len(runs) \in Nat  BY LenProperties
<1>2. \A i \in 1..Len(runs) : runs[i] \in RunType  BY ElementOfSeq
<1> QED BY <1>1, <1>2 DEF RunType

LEMMA StartsFacts ==
    ASSUME NEW runs \in Seq(RunType)
    PROVE  /\ Starts(runs) \in [1..(Len(runs) + 1) -> Nat]
           /\ Starts(runs)[1] = 0
           /\ \A i \in 1..Len(runs) : Starts(runs)[i + 1] = Starts(runs)[i] + runs[i].len
<1> DEFINE n == Len(runs)
           g == [i \in 1..n |-> [x \in Nat |-> x + runs[i].len]]
           Eq(z) == z = [i \in 1..(n + 1) |-> IF i = 1 THEN 0 ELSE z[i - 1] + runs[i - 1].len]
<1>0. n \in Nat /\ \A i \in 1..n : runs[i].len \in Nat  BY RunTypes
<1>1. g \in [1..n -> [Nat -> Nat]]  BY <1>0
<1>2. PICK f : Steps(f, n, Nat, 0, g)
  <2> HIDE DEF g, n
  <2> QED BY <1>0, <1>1, Recursion
<1>3. f \in [0..n -> Nat] /\ f[0] = 0
  <2> HIDE DEF g
  <2> QED BY <1>0, <1>2 DEF Steps
<1>4. ASSUME NEW i \in 1..n PROVE f[i] = f[i - 1] + runs[i].len
  <2>1. g[i] = [x \in Nat |-> x + runs[i].len]  OBVIOUS
  <2> HIDE DEF g
  <2>2. i \in 0..n /\ i # 0 /\ i - 1 \in 0..n  BY <1>0
  <2>3. f[i] = g[i][f[i - 1]]  BY <1>2, <2>2 DEF Steps
  <2>4. f[i - 1] \in Nat  BY <1>3, <2>2
  <2> QED BY <2>1, <2>3, <2>4
<1> HIDE DEF g
<1> DEFINE h == [i \in 1..(n + 1) |-> f[i - 1]]
<1>5. ASSUME NEW i \in 1..(n + 1)
      PROVE  h[i] = IF i = 1 THEN 0 ELSE h[i - 1] + runs[i - 1].len
  <2>1. CASE i = 1  BY <1>3, <2>1
  <2>2. CASE i # 1
    <3>1. i - 1 \in 1..n  BY <1>0, <2>2
    <3>2. f[i - 1] = f[(i - 1) - 1] + runs[i - 1].len  BY <3>1, <1>4
    <3>3. h[i] = f[i - 1] /\ h[i - 1] = f[(i - 1) - 1]  BY <3>1, <1>0
    <3> QED BY <2>2, <3>2, <3>3
  <2> QED BY <2>1, <2>2
<1>6. Eq(h)  BY <1>5
<1> DEFINE c == CHOOSE z : Eq(z)
<1>7. Eq(c)
  <2> HIDE DEF Eq, h
  <2> QED BY <1>6
<1>8. Starts(runs) = c  BY DEF Starts
<1> HIDE DEF c
<1>9. \A i \in 1..(n + 1) : c[i] = IF i = 1 THEN 0 ELSE c[i - 1] + runs[i - 1].len
  BY <1>7
<1>10. DOMAIN c = 1..(n + 1)  BY <1>7
<1>11. c[1] = 0  BY <1>0, <1>9
<1>12. ASSUME NEW i \in 1..n PROVE c[i + 1] = c[i] + runs[i].len
  <2>1. i + 1 \in 1..(n + 1) /\ i + 1 # 1 /\ (i + 1) - 1 = i  BY <1>0
  <2> QED BY <1>9, <2>1
<1>13. \A i \in 1..(n + 1) : c[i] \in Nat
  <2> DEFINE T == {k \in 0..n : c[k + 1] \in Nat}
  <2>1. 0 \in T  BY <1>0, <1>11
  <2>2. ASSUME NEW k \in 0..(n - 1), k \in T PROVE k + 1 \in T
    <3>1. k + 1 \in 1..n  BY <1>0
    <3>2. c[(k + 1) + 1] = c[k + 1] + runs[k + 1].len  BY <3>1, <1>12
    <3> QED BY <2>2, <3>1, <3>2, <1>0
  <2>3. 0..n \subseteq T
    <3> HIDE DEF T, n
    <3> QED BY <1>0, <2>1, <2>2, AllUpTo
  <2>4. ASSUME NEW i \in 1..(n + 1) PROVE c[i] \in Nat
    <3>1. i - 1 \in 0..n /\ (i - 1) + 1 = i  BY <1>0
    <3> QED BY <2>3, <3>1
  <2> QED BY <2>4
<1>14. c \in [1..(n + 1) -> Nat]
  <2>1. c = [i \in 1..(n + 1) |-> c[i]]  BY <1>7
  <2> QED BY <1>13, <2>1
<1> QED BY <1>8, <1>11, <1>12, <1>14

(* Runs follow one another. *)
LEMMA StartsSorted ==
    ASSUME NEW runs \in Seq(RunType),
           NEW i \in 1..(Len(runs) + 1), NEW j \in 1..(Len(runs) + 1), i <= j
    PROVE  Starts(runs)[i] <= Starts(runs)[j]
<1> DEFINE n == Len(runs)  s == Starts(runs)
           T == {k \in Nat : i + k <= n + 1 => s[i] <= s[i + k]}
<1>0. /\ n \in Nat /\ \A k \in 1..n : runs[k].len \in Nat
      /\ s \in [1..(n + 1) -> Nat] /\ \A k \in 1..n : s[k + 1] = s[k] + runs[k].len
  BY RunTypes, StartsFacts
<1> HIDE DEF s
<1>1. 0 \in T
  <2>1. i + 0 = i /\ s[i] \in Nat  BY <1>0
  <2> QED BY <2>1
<1>2. ASSUME NEW k \in Nat, k \in T PROVE k + 1 \in T
  <2> SUFFICES ASSUME i + (k + 1) <= n + 1 PROVE s[i] <= s[i + (k + 1)]  OBVIOUS
  <2>1. i + k \in 1..n /\ (i + k) + 1 = i + (k + 1)  BY <1>0
  <2>2. s[i + (k + 1)] = s[i + k] + runs[i + k].len  BY <2>1, <1>0
  <2>3. s[i] <= s[i + k]  BY <1>2, <2>1
  <2>4. s[i + k] \in Nat /\ s[i] \in Nat /\ runs[i + k].len \in Nat  BY <1>0, <2>1
  <2> QED BY <2>2, <2>3, <2>4
<1>3. Nat \subseteq T
  <2> HIDE DEF T
  <2> QED BY <1>1, <1>2, AllOfNat
<1>4. j - i \in Nat /\ i + (j - i) = j /\ j <= n + 1  BY <1>0
<1>5. j - i \in T  BY <1>3, <1>4
<1>6. s[i] <= s[j]  BY <1>4, <1>5
<1> QED BY <1>6 DEF s

(* The run that holds a cluster says where it is. *)
LEMMA LcnUnder ==
    ASSUME NEW runs \in Seq(RunType), NEW i \in 1..Len(runs), NEW c \in Nat,
           Starts(runs)[i] <= c, c < Starts(runs)[i + 1]
    PROVE  /\ (CHOOSE j \in 1..Len(runs) : Starts(runs)[j] <= c /\ c < Starts(runs)[j + 1]) = i
           /\ LcnOf(runs, c) = IF runs[i].lcn = Hole THEN Hole
                               ELSE runs[i].lcn + c - Starts(runs)[i]
<1> DEFINE s == Starts(runs)
           Has(j) == s[j] <= c /\ c < s[j + 1]
           m == CHOOSE j \in 1..Len(runs) : Has(j)
<1>0. Len(runs) \in Nat /\ s \in [1..(Len(runs) + 1) -> Nat]  BY RunTypes, StartsFacts
<1>1. m \in 1..Len(runs) /\ Has(m)  OBVIOUS
<1>2. m = i
  <2>1. ASSUME NEW a \in 1..Len(runs), NEW b \in 1..Len(runs), Has(a), Has(b), a < b
        PROVE  FALSE
    <3>1. a + 1 <= b /\ a + 1 \in 1..(Len(runs) + 1) /\ b \in 1..(Len(runs) + 1)
      BY <1>0, <2>1
    <3>2. s[a + 1] <= s[b]  BY <3>1, StartsSorted
    <3>3. s[a + 1] \in Nat /\ s[b] \in Nat  BY <1>0, <3>1
    <3> QED BY <2>1, <3>2, <3>3
  <2> HIDE DEF m
  <2>2. Has(i)  OBVIOUS
  <2> HIDE DEF Has
  <2>3. ~ (m < i)  BY <1>1, <2>1, <2>2
  <2>4. ~ (i < m)  BY <1>1, <2>1, <2>2
  <2> QED BY <1>0, <1>1, <2>3, <2>4
<1>3. LcnOf(runs, c) = IF runs[m].lcn = Hole THEN Hole ELSE runs[m].lcn + c - s[m]
  BY DEF LcnOf
<1> QED BY <1>2, <1>3

LEMMA LcnPast ==
    ASSUME NEW runs \in Seq(RunType), NEW c \in Nat, c >= ClustersOf(runs)
    PROVE  LcnOf(runs, c) = Hole
<1>0. Len(runs) \in Nat /\ Starts(runs) \in [1..(Len(runs) + 1) -> Nat]
  BY RunTypes, StartsFacts
<1>1. ASSUME NEW i \in 1..Len(runs), c < Starts(runs)[i + 1] PROVE FALSE
  <2>1. /\ i + 1 \in 1..(Len(runs) + 1) /\ Len(runs) + 1 \in 1..(Len(runs) + 1)
        /\ i + 1 <= Len(runs) + 1
    BY <1>0
  <2>2. Starts(runs)[i + 1] <= Starts(runs)[Len(runs) + 1]  BY <2>1, StartsSorted
  <2>3. Starts(runs)[i + 1] \in Nat /\ Starts(runs)[Len(runs) + 1] \in Nat  BY <1>0, <2>1
  <2> QED BY <1>1, <2>2, <2>3 DEF ClustersOf
<1> QED BY <1>1 DEF LcnOf

LEMMA RunUnder ==
    ASSUME NEW runs \in Seq(RunType), NEW c \in Nat, c < ClustersOf(runs)
    PROVE  \E i \in 1..Len(runs) : Starts(runs)[i] <= c /\ c < Starts(runs)[i + 1]
<1> DEFINE n == Len(runs)  s == Starts(runs)  S == {i \in 1..(n + 1) : s[i] <= c}
<1>0. n \in Nat /\ s \in [1..(n + 1) -> Nat] /\ s[1] = 0  BY RunTypes, StartsFacts
<1>1. 1 \in S  BY <1>0
<1>2. PICK m \in S : \A x \in S : x <= m
  <2>1. S \subseteq 1..(n + 1) /\ S # {} /\ n + 1 \in Nat  BY <1>0, <1>1
  <2> HIDE DEF S, n
  <2> QED BY <2>1, GreatestUpTo
<1>3. m # n + 1  BY <1>0 DEF ClustersOf
<1>4. m \in 1..n /\ m + 1 \in 1..(n + 1)  BY <1>0, <1>3
<1>5. ~ (s[m + 1] <= c)  BY <1>0, <1>2, <1>4
<1>6. c < s[m + 1]  BY <1>0, <1>4, <1>5
<1> QED BY <1>4, <1>6
-----------------------------------------------------------------------------
(* Bytes of a stream.  B is what they should be, as a function of the place. *)

Bytes(B, off, n) == [i \in 1..n |-> B[off + i - 1]]

LEMMA BytesType ==
    ASSUME NEW B \in [Nat -> Int], NEW off \in Nat, NEW n \in Nat
    PROVE  Bytes(B, off, n) \in Seq(Int) /\ Len(Bytes(B, off, n)) = n
<1>1. \A i \in 1..n : B[off + i - 1] \in Int
  <2> SUFFICES ASSUME NEW i \in 1..n PROVE B[off + i - 1] \in Int  OBVIOUS
  <2>1. off + i - 1 \in Nat  OBVIOUS
  <2> QED BY <2>1
<1> QED BY <1>1 DEF Bytes

Join(B, off, a, b) == Bytes(B, off, a) \o Bytes(B, off + a, b) = Bytes(B, off, a + b)

LEMMA BytesJoin ==
    ASSUME NEW B \in [Nat -> Int], NEW off \in Nat, NEW a \in Nat, NEW b \in Nat
    PROVE  Join(B, off, a, b)
<1> DEFINE s == Bytes(B, off, a)  t == Bytes(B, off + a, b)  u == Bytes(B, off, a + b)
<1>1. /\ s \in Seq(Int) /\ Len(s) = a /\ t \in Seq(Int) /\ Len(t) = b
      /\ u \in Seq(Int) /\ Len(u) = a + b
  BY BytesType, off + a \in Nat, a + b \in Nat
<1>2. \A i \in 1..a : s[i] = B[off + i - 1]  BY DEF Bytes
<1>3. \A i \in 1..b : t[i] = B[off + a + i - 1]  BY DEF Bytes
<1>4. \A i \in 1..(a + b) : u[i] = B[off + i - 1]  BY DEF Bytes
<1> HIDE DEF s, t, u
<1>5. /\ s \o t \in Seq(Int) /\ Len(s \o t) = a + b
      /\ \A i \in 1..(a + b) : (s \o t)[i] = IF i <= a THEN s[i] ELSE t[i - a]
  BY <1>1, ConcatProperties
<1>6. ASSUME NEW i \in 1..(a + b) PROVE (s \o t)[i] = u[i]
  <2>1. CASE i <= a
    <3>1. i \in 1..a  BY <2>1
    <3>2. (s \o t)[i] = s[i]  BY <1>5, <2>1
    <3> QED BY <1>2, <1>4, <3>1, <3>2
  <2>2. CASE ~ (i <= a)
    <3>1. i - a \in 1..b /\ off + a + (i - a) - 1 = off + i - 1  BY <2>2
    <3>2. (s \o t)[i] = t[i - a]  BY <1>5, <2>2
    <3>3. t[i - a] = B[off + a + (i - a) - 1]  BY <1>3, <3>1
    <3> QED BY <1>4, <3>1, <3>2, <3>3
  <2> QED BY <2>1, <2>2
<1>7. s \o t = u
  <2> DEFINE w == s \o t
  <2>1. w \in Seq(Int) /\ Len(w) = Len(u) /\ \A i \in 1..Len(w) : w[i] = u[i]
    BY <1>1, <1>5, <1>6
  <2> HIDE DEF w
  <2>2. w = u  BY <1>1, <2>1, SeqEqual
  <2> QED BY <2>2 DEF w
<1> QED BY <1>7 DEF s, t, u, Join

LEMMA BytesEmpty ==
    ASSUME NEW B, NEW off
    PROVE  Bytes(B, off, 0) = << >>
  BY DEF Bytes

LEMMA ZerosFacts ==
    ASSUME ByteTypes, NEW n \in Int
    PROVE  /\ Zeros(n) \in Seq(Int) /\ Len(Zeros(n)) = IF n < 0 THEN 0 ELSE n
           /\ \A i \in 1..n : Zeros(n)[i] = Zero
<1>1. CASE n >= 0  BY <1>1 DEF Zeros, ByteTypes
<1>2. CASE n < 0
  <2>1. 1..n = 1..0  BY <1>2
  <2>2. Zeros(n) = [i \in 1..0 |-> Zero]  BY <2>1 DEF Zeros
  <2>3. Zeros(n) = << >>  BY <2>2
  <2> QED BY <1>2, <2>3
<1> QED BY <1>1, <1>2

LEMMA ZeroBytes ==
    ASSUME NEW B \in [Nat -> Int], NEW off \in Nat, NEW n \in Nat,
           \A x \in off..(off + n - 1) : B[x] = Zero
    PROVE  Zeros(n) = Bytes(B, off, n)
<1>1. \A i \in 1..n : B[off + i - 1] = Zero
  <2> SUFFICES ASSUME NEW i \in 1..n PROVE B[off + i - 1] = Zero  OBVIOUS
  <2>1. off + i - 1 \in off..(off + n - 1)  OBVIOUS
  <2> QED BY <2>1
<1> QED BY <1>1 DEF Zeros, Bytes

-----------------------------------------------------------------------------
(* Reads of the image *)

LEMMA DiskReadFacts ==
    ASSUME ByteTypes, NEW v, NEW off \in Int, NEW n \in Nat
    PROVE  /\ DiskRead(v, off, n) \in Seq(Int) /\ Len(DiskRead(v, off, n)) <= n
           /\ (\A i \in 1..n : Supplied(v, off + i - 1)) =>
                  DiskRead(v, off, n) = [i \in 1..n |-> Image(off + i - 1)]
<1> DEFINE Taking(s, i) == IF Supplied(v, off + i - 1) THEN Append(s, Image(off + i - 1)) ELSE s
           g == [i \in 1..n |-> [s \in Seq(Int) |-> Taking(s, i)]]
           Eq(z) == z = [i \in 0..n |->
                            IF i = 0 THEN << >>
                            ELSE IF Supplied(v, off + i - 1)
                                 THEN Append(z[i - 1], Image(off + i - 1))
                            ELSE z[i - 1]]
<1>1. \A i \in 1..n : Image(off + i - 1) \in Int
  <2> SUFFICES ASSUME NEW i \in 1..n PROVE Image(off + i - 1) \in Int  OBVIOUS
  <2>1. off + i - 1 \in Int  OBVIOUS
  <2> QED BY <2>1 DEF ByteTypes
<1>2. g \in [1..n -> [Seq(Int) -> Seq(Int)]]
  <2>1. ASSUME NEW i \in 1..n, NEW s \in Seq(Int) PROVE Taking(s, i) \in Seq(Int)
    BY <1>1, AppendProperties
  <2> HIDE DEF Taking
  <2> QED BY <2>1
<1>3. PICK f : Steps(f, n, Seq(Int), << >>, g)
  <2>1. << >> \in Seq(Int)  OBVIOUS
  <2> HIDE DEF g
  <2> QED BY <1>2, <2>1, Recursion
<1>4. f \in [0..n -> Seq(Int)] /\ f[0] = << >> /\ f = [i \in 0..n |-> f[i]]
  <2> HIDE DEF g
  <2> QED BY <1>3 DEF Steps
<1>5. ASSUME NEW i \in 1..n PROVE f[i] = Taking(f[i - 1], i)
  <2>1. g[i] = [s \in Seq(Int) |-> Taking(s, i)]  OBVIOUS
  <2> HIDE DEF g, Taking
  <2>2. i \in 0..n /\ i # 0 /\ i - 1 \in 0..n  OBVIOUS
  <2>3. f[i] = g[i][f[i - 1]]  BY <1>3, <2>2 DEF Steps
  <2>4. f[i - 1] \in Seq(Int)  BY <1>4, <2>2
  <2> QED BY <2>1, <2>3, <2>4
<1> HIDE DEF g
<1>6. Eq(f)
  <2>1. ASSUME NEW i \in 0..n
        PROVE  f[i] = IF i = 0 THEN << >>
                      ELSE IF Supplied(v, off + i - 1) THEN Append(f[i - 1], Image(off + i - 1))
                      ELSE f[i - 1]
    <3>1. CASE i = 0  BY <1>4, <3>1
    <3>2. CASE i # 0
      <4>1. i \in 1..n  BY <3>2
      <4> QED BY <1>5, <3>2, <4>1
    <3> QED BY <3>1, <3>2
  <2> QED BY <1>4, <2>1
<1> DEFINE c == CHOOSE z : Eq(z)
<1>7. Eq(c)
  <2> HIDE DEF Eq
  <2> QED BY <1>6
<1>8. DiskRead(v, off, n) = c[n]  BY DEF DiskRead
<1> HIDE DEF c
<1>9. c[0] = << >> /\ \A i \in 1..n : c[i] = Taking(c[i - 1], i)
  <2>1. \A i \in 0..n : c[i] = IF i = 0 THEN << >> ELSE Taking(c[i - 1], i)  BY <1>7
  <2> HIDE DEF Taking
  <2> QED BY <2>1
<1> HIDE DEF Eq, Taking
<1>10. ASSUME NEW k \in 1..n, c[k - 1] \in Seq(Int)
       PROVE  /\ c[k] \in Seq(Int) /\ Len(c[k]) <= Len(c[k - 1]) + 1
              /\ Supplied(v, off + k - 1) => c[k] = Append(c[k - 1], Image(off + k - 1))
  <2>1. Image(off + k - 1) \in Int /\ c[k] = Taking(c[k - 1], k)  BY <1>1, <1>9
  <2>2. Append(c[k - 1], Image(off + k - 1)) \in Seq(Int)
        /\ Len(Append(c[k - 1], Image(off + k - 1))) = Len(c[k - 1]) + 1
  BY <1>10,   <2>1, AppendProperties
  <2>3. Len(c[k - 1]) \in Nat  BY <1>10, LenProperties
  <2> QED BY <1>10,   <2>1,   <2>2,   <2>3 DEF Taking
<1>11. c[n] \in Seq(Int) /\ Len(c[n]) <= n
  <2> DEFINE T == {k \in 0..n : c[k] \in Seq(Int) /\ Len(c[k]) <= k}
  <2>1. 0 \in T
    <3>1. c[0] \in Seq(Int) /\ Len(c[0]) = 0  BY <1>9, EmptySeq
    <3> QED BY <3>1
  <2>2. ASSUME NEW k \in 0..(n - 1), k \in T PROVE k + 1 \in T
    <3>1. k + 1 \in 1..n /\ (k + 1) - 1 = k  OBVIOUS
    <3>2. c[k + 1] \in Seq(Int) /\ Len(c[k + 1]) <= Len(c[k]) + 1
      BY <1>10, <2>2, <3>1
    <3> QED BY <2>2, <3>1, <3>2
  <2>3. 0..n \subseteq T
    <3> HIDE DEF T
    <3> QED BY <2>1, <2>2, AllUpTo
  <2> QED BY <2>3
<1>12. ASSUME \A i \in 1..n : Supplied(v, off + i - 1)
       PROVE  c[n] = [i \in 1..n |-> Image(off + i - 1)]
  <2> DEFINE F(k) == [i \in 1..k |-> Image(off + i - 1)]
             T == {k \in 0..n : c[k] = F(k)}
  <2>0. ASSUME NEW k \in 0..n PROVE F(k) \in Seq(Int) /\ Len(F(k)) = k
    <3>1. 1..k \subseteq 1..n  OBVIOUS
    <3>2. \A i \in 1..k : Image(off + i - 1) \in Int  BY <1>1, <3>1
    <3> QED BY <3>2
  <2>1. 0 \in T  BY <1>9
  <2>2. ASSUME NEW k \in 0..(n - 1), k \in T PROVE k + 1 \in T
    <3>1. k + 1 \in 1..n /\ (k + 1) - 1 = k  OBVIOUS
    <3>2. c[k + 1] = Append(F(k), Image(off + (k + 1) - 1))
      BY <1>10, <1>12, <2>0, <2>2, <3>1
    <3>3. Append(F(k), Image(off + (k + 1) - 1)) = F(k + 1)
      <4>1. F(k) \in Seq(Int) /\ Len(F(k)) = k /\ F(k + 1) \in Seq(Int) /\ Len(F(k + 1)) = k + 1
        BY <2>0
      <4>2. Image(off + (k + 1) - 1) \in Int  BY <1>1, <3>1
      <4>3. \A i \in 1..(k + 1) : F(k + 1)[i] = Image(off + i - 1)  OBVIOUS
      <4>4. \A i \in 1..k : F(k)[i] = Image(off + i - 1)  OBVIOUS
      <4> HIDE DEF F
      <4> QED BY <4>1, <4>2, <4>3, <4>4
    <3> QED BY <3>1, <3>2, <3>3
  <2>3. 0..n \subseteq T
    <3> HIDE DEF T
    <3> QED BY <2>1, <2>2, AllUpTo
  <2> QED BY <2>3
<1> QED BY <1>8, <1>11, <1>12

(* Cluster p of the image is there, and holds what B has at cluster c; a    *)
(* negative p stands for a cluster of zeros.                                *)
Finds(v, p, B, c) ==
    /\ p >= 0 => p < Len(v.origin) /\ p \notin v.lost
    /\ \A x \in Nat : x \div ClusterSize = c =>
          B[x] = IF p < 0 THEN Zero ELSE Image(p * ClusterSize + (x % ClusterSize))

(* What is read from one cluster. *)
FromCluster(v, p, c, lo, hi) ==
    IF p < 0 THEN Zeros(hi - lo)
    ELSE DiskRead(v, p * ClusterSize + lo - c * ClusterSize, hi - lo)

FromClusterIs(v, p, B, c, lo, hi) ==
    LET s == FromCluster(v, p, c, lo, hi) IN
    /\ s \in Seq(Int) /\ Len(s) <= hi - lo
    /\ Finds(v, p, B, c) => s = Bytes(B, lo, hi - lo)

LEMMA FromClusterFacts ==
    ASSUME ByteTypes, NEW v, IsVolume(v), NEW B \in [Nat -> Int],
           NEW p \in Int, NEW c \in Nat, NEW lo \in Nat, NEW hi \in Nat,
           c * ClusterSize <= lo, lo <= hi, hi <= c * ClusterSize + ClusterSize
    PROVE  FromClusterIs(v, p, B, c, lo, hi)
<1>0. ClusterSize \in Nat \ {0} /\ hi - lo \in Nat /\ Len(v.origin) \in Nat
  BY ClusterAssumption, LenProperties DEF IsVolume
<1>1. CASE p < 0
  <2>1. FromCluster(v, p, c, lo, hi) = Zeros(hi - lo)  BY <1>1 DEF FromCluster
  <2>2. Zeros(hi - lo) \in Seq(Int) /\ Len(Zeros(hi - lo)) = hi - lo
    <3> DEFINE n == hi - lo
    <3>1. n \in Int /\ ~ (n < 0)  BY <1>0
    <3> HIDE DEF n
    <3>2. Zeros(n) \in Seq(Int) /\ Len(Zeros(n)) = n  BY <3>1, ZerosFacts
    <3> QED BY <3>2 DEF n
  <2>3. ASSUME Finds(v, p, B, c) PROVE Zeros(hi - lo) = Bytes(B, lo, hi - lo)
    <3>1. ASSUME NEW x \in lo..(lo + (hi - lo) - 1) PROVE B[x] = Zero
      <4>1. x \in Nat /\ c * ClusterSize <= x /\ x < c * ClusterSize + ClusterSize
        BY <1>0
      <4>2. x \div ClusterSize = c
        <5>1. c \in Int /\ x \in Int  BY <4>1
        <5> QED BY <1>0, <4>1, <5>1, QuotientIs, Zenon
      <4> QED BY <1>1, <2>3, <4>1, <4>2 DEF Finds
    <3> QED BY <1>0, <3>1, ZeroBytes
  <2> QED BY <2>1, <2>2, <2>3 DEF FromClusterIs
<1>2. CASE p >= 0
  <2> DEFINE n == hi - lo  r == lo - c * ClusterSize
             off == p * ClusterSize + lo - c * ClusterSize
  <2>0. /\ n \in Nat /\ p \in Nat /\ r \in Nat /\ r + n <= ClusterSize
        /\ c * ClusterSize \in Nat /\ p * ClusterSize \in Nat
        /\ off = p * ClusterSize + r /\ off \in Int /\ off \in Nat
    BY <1>0, <1>2
  <2>1. FromCluster(v, p, c, lo, hi) = DiskRead(v, off, n)  BY <1>2 DEF FromCluster
  <2> HIDE DEF n, r, off
  <2>2. /\ DiskRead(v, off, n) \in Seq(Int) /\ Len(DiskRead(v, off, n)) <= n
        /\ (\A i \in 1..n : Supplied(v, off + i - 1)) =>
              DiskRead(v, off, n) = [i \in 1..n |-> Image(off + i - 1)]
    BY <2>0, DiskReadFacts
  <2>3. ASSUME Finds(v, p, B, c) PROVE DiskRead(v, off, n) = Bytes(B, lo, n)
    <3>1. p < Len(v.origin) /\ p \notin v.lost  BY <1>2, <2>3 DEF Finds
    <3>2. ASSUME NEW i \in 1..n
          PROVE  /\ Supplied(v, off + i - 1)
                 /\ Image(off + i - 1) = B[lo + i - 1]
      <4> DEFINE x == off + i - 1  y == lo + i - 1
      <4>1. /\ i \in Nat /\ i - 1 \in 0..(n - 1)
            /\ x \in Nat /\ y \in Nat /\ x = p * ClusterSize + (r + i - 1)
            /\ y = c * ClusterSize + (r + i - 1) /\ r + i - 1 \in 0..(ClusterSize - 1)
        BY <1>0, <2>0 DEF r
      <4> HIDE DEF x, y
      <4>2. x \div ClusterSize = p
        <5>1. p * ClusterSize <= x /\ x < p * ClusterSize + ClusterSize  BY <1>0, <2>0, <4>1
        <5>2. p \in Int /\ x \in Int  BY <2>0, <4>1
        <5> QED BY <1>0, <5>1, <5>2, QuotientIs, Zenon
      <4>3. y \div ClusterSize = c /\ y % ClusterSize = y - c * ClusterSize
        <5>1. c * ClusterSize <= y /\ y < c * ClusterSize + ClusterSize  BY <1>0, <2>0, <4>1
        <5>2. c \in Int /\ y \in Int  BY <4>1
        <5> QED BY <1>0, <5>1, <5>2, QuotientIs, Zenon
      <4>4. (p + 1) * ClusterSize <= Len(v.origin) * ClusterSize
        <5>1. /\ p + 1 \in Int /\ Len(v.origin) \in Int /\ ClusterSize \in Nat
              /\ p + 1 <= Len(v.origin)
          BY <1>0, <2>0, <3>1
        <5> QED BY <5>1, TimesMonotone, Zenon
      <4>5. x < Len(v.origin) * ClusterSize
        <5>1. (p + 1) * ClusterSize = p * ClusterSize + ClusterSize  BY <1>0, <2>0
        <5>2. Len(v.origin) * ClusterSize \in Nat  BY <1>0
        <5> QED BY <1>0, <2>0, <4>1, <4>4, <5>1, <5>2
      <4>6. Supplied(v, x)  BY <3>1, <4>2, <4>5 DEF Supplied
      <4>7. B[y] = Image(p * ClusterSize + (y % ClusterSize))
        <5>1. ~ (p < 0)  BY <2>0
        <5>2. \A z \in Nat : z \div ClusterSize = c =>
                 B[z] = IF p < 0 THEN Zero ELSE Image(p * ClusterSize + (z % ClusterSize))
          BY <2>3, Zenon DEF Finds
        <5>3. B[y] = IF p < 0 THEN Zero ELSE Image(p * ClusterSize + (y % ClusterSize))
          BY <4>1, <4>3, <5>2, Zenon
        <5> QED BY <5>1, <5>3
      <4>8. p * ClusterSize + (y % ClusterSize) = x  BY <1>0, <2>0, <4>1, <4>3
      <4> QED BY <4>6, <4>7, <4>8 DEF x, y
    <3>3. DiskRead(v, off, n) = [i \in 1..n |-> Image(off + i - 1)]  BY <2>2, <3>2
    <3>4. [i \in 1..n |-> Image(off + i - 1)] = [i \in 1..n |-> B[lo + i - 1]]  BY <3>2
    <3> QED BY <3>3, <3>4 DEF Bytes
  <2> QED BY <2>1, <2>2, <2>3 DEF n, FromClusterIs
<1> QED BY <1>1, <1>2

LEMMA PlacedType ==
    ASSUME NEW v, IsVolume(v), NEW mapped \in BOOLEAN, mapped => v.map # << >>, NEW lcn \in Nat
    PROVE  Placed(v, mapped, lcn) \in Int
<1>1. CASE mapped
  <2> DEFINE m == v.map  below == {i \in 1..Len(m) : m[i].from <= lcn}
             i == IF below = {} THEN 1 ELSE Cardinality(below)
  <2>1. m \in Seq([from : Nat, shift : Int]) /\ m # << >> /\ Len(m) \in Nat \ {0}
    BY <1>1, EmptySeq DEF IsVolume
  <2>2. IsFiniteSet(1..Len(m)) /\ Cardinality(1..Len(m)) = Len(m)
    <3> DEFINE l == Len(m)
    <3>1. 1 \in Int /\ l \in Int /\ l \in Nat  BY <2>1
    <3> HIDE DEF l
    <3>2. IsFiniteSet(1..l) /\ Cardinality(1..l) = IF 1 > l THEN 0 ELSE l - 1 + 1
      BY <3>1, FS_Interval
    <3>3. IsFiniteSet(1..l) /\ Cardinality(1..l) = l  BY <3>1, <3>2
    <3> QED BY <3>3 DEF l
  <2>3. /\ below \subseteq 1..Len(m) /\ IsFiniteSet(below)
        /\ Cardinality(below) <= Len(m) /\ Cardinality(below) \in Nat
    <3>1. below \subseteq 1..Len(m)  OBVIOUS
    <3> HIDE DEF below
    <3> QED BY <2>1, <2>2, <3>1, FS_Subset, FS_CardinalityType
  <2> HIDE DEF below
  <2>4. below # {} => Cardinality(below) # 0  BY <2>3, FS_EmptySet
  <2>5. i \in 1..Len(m)  BY <2>1, <2>3, <2>4
  <2>6. m[i] \in [from : Nat, shift : Int]  BY <2>1, <2>5, ElementOfSeq
  <2>7. ShiftForLcn(v.map, lcn) = m[i].shift  BY DEF ShiftForLcn, below
  <2> HIDE DEF i
  <2>8. ShiftForLcn(v.map, lcn) \in Int  BY <2>6, <2>7
  <2> QED BY <1>1, <2>8 DEF Placed
<1>2. CASE ~ mapped  BY <1>2 DEF Placed, Nowhere, IsVolume
<1> QED BY <1>1, <1>2

(* The clusters that n bytes from off on lie in. *)
Touched(off, n) == (off \div ClusterSize)..((off + n - 1) \div ClusterSize)

LEMMA TouchedBy ==
    ASSUME NEW off \in Nat, NEW n \in Nat, NEW x \in off..(off + n - 1)
    PROVE  x \div ClusterSize \in Touched(off, n) /\ x \div ClusterSize \in Nat
<1>0. ClusterSize \in Nat \ {0} /\ x \in Nat /\ off + n - 1 \in Nat /\ off <= x /\ x <= off + n - 1
  BY ClusterAssumption
<1>1. off \div ClusterSize <= x \div ClusterSize  BY <1>0, QuotientMonotone, Zenon
<1>2. x \div ClusterSize <= (off + n - 1) \div ClusterSize
  BY <1>0, QuotientMonotone, Zenon
<1>3. /\ x \div ClusterSize \in Nat /\ off \div ClusterSize \in Nat
      /\ (off + n - 1) \div ClusterSize \in Nat
  BY <1>0, QuotientBounds, Zenon
<1> DEFINE a == off \div ClusterSize  b == (off + n - 1) \div ClusterSize
           c == x \div ClusterSize
<1>4. a <= c /\ c <= b /\ a \in Nat /\ b \in Nat /\ c \in Nat  BY <1>1, <1>2, <1>3
<1> HIDE DEF a, b, c
<1>5. c \in a..b  BY <1>4
<1> QED BY <1>3, <1>5, Zenon DEF Touched, a, b, c

ByClusterIs(v, mapped, lcn, off, n, B) ==
    LET s == ByCluster(v, mapped, lcn, off, n) IN
    /\ s \in Seq(Int) /\ Len(s) <= n
    /\ (\A c \in Touched(off, n) : Finds(v, Placed(v, mapped, lcn + c), B, c))
          => s = Bytes(B, off, n)

LEMMA ByClusterFacts ==
    ASSUME ByteTypes, NEW v, IsVolume(v), NEW mapped \in BOOLEAN, mapped => v.map # << >>,
           NEW lcn \in Nat, NEW off \in Nat, NEW n \in Nat \ {0}, NEW B \in [Nat -> Int]
    PROVE  ByClusterIs(v, mapped, lcn, off, n, B)
<1> DEFINE first == off \div ClusterSize
           last  == (off + n - 1) \div ClusterSize
           N     == last - first + 1
           At(k) == first + k - 1
           lo(k) == Larger(off, At(k) * ClusterSize)
           hi(k) == Smaller(off + n, (At(k) + 1) * ClusterSize)
           H(k)  == IF k = 0 THEN off ELSE hi(k)
           Piece(k) == FromCluster(v, Placed(v, mapped, lcn + At(k)), At(k), lo(k), hi(k))
           sq    == [k \in 1..N |-> Piece(k)]
<1>0. ClusterSize \in Nat \ {0}  BY ClusterAssumption
<1>1. /\ first \in Nat /\ last \in Nat /\ first <= last /\ N \in Nat \ {0}
      /\ first * ClusterSize <= off /\ off < first * ClusterSize + ClusterSize
      /\ last * ClusterSize <= off + n - 1 /\ off + n - 1 < last * ClusterSize + ClusterSize
  <2>1. off + n - 1 \in Nat /\ off <= off + n - 1  OBVIOUS
  <2>2. first <= last  BY <1>0, <2>1, QuotientMonotone, Zenon
  <2>3. /\ first \in Nat /\ first * ClusterSize <= off
        /\ off < first * ClusterSize + ClusterSize
    BY <1>0, QuotientBounds, Zenon
  <2>4. /\ last \in Nat /\ last * ClusterSize <= off + n - 1
        /\ off + n - 1 < last * ClusterSize + ClusterSize
    BY <1>0, <2>1, QuotientBounds, Zenon
  <2> HIDE DEF first, last
  <2> QED BY <2>2, <2>3, <2>4
<1>2. ByCluster(v, mapped, lcn, off, n) = FlattenSeq(sq)
  BY DEF ByCluster, FromCluster
<1> HIDE DEF first, last
<1>3. ASSUME NEW k \in 1..N
      PROVE  /\ At(k) \in Nat /\ At(k) \in first..last
             /\ lo(k) \in Nat /\ hi(k) \in Nat
             /\ At(k) * ClusterSize <= lo(k) /\ lo(k) <= hi(k)
             /\ hi(k) <= At(k) * ClusterSize + ClusterSize
             /\ lo(k) = H(k - 1) /\ hi(k) = H(k) /\ off <= H(k - 1) /\ (k = N => H(k) = off + n)
  <2> DEFINE a == At(k)
  <2>1. /\ a \in Nat /\ first <= a /\ a <= last /\ (a + 1 <= last \/ k = N)
        /\ (k = N => a = last) /\ (k = 1 => a = first)
    BY <1>1
  <2>2. /\ first * ClusterSize \in Nat /\ last * ClusterSize \in Nat /\ a * ClusterSize \in Nat
        /\ (a + 1) * ClusterSize = a * ClusterSize + ClusterSize
    BY <1>0, <1>1, <2>1
  <2>3. first * ClusterSize <= a * ClusterSize
    <3>1. first \in Int /\ a \in Int /\ ClusterSize \in Nat  BY <1>0, <1>1, <2>1
    <3> QED BY <2>1, <3>1, TimesMonotone, Zenon
  <2>4. a * ClusterSize <= last * ClusterSize
    <3>1. last \in Int /\ a \in Int /\ ClusterSize \in Nat  BY <1>0, <1>1, <2>1
    <3> QED BY <2>1, <3>1, TimesMonotone, Zenon
  <2>5. k # N => (a + 1) * ClusterSize <= last * ClusterSize
    <3>1. last \in Int /\ a + 1 \in Int /\ ClusterSize \in Nat  BY <1>0, <1>1, <2>1
    <3> QED BY <2>1, <3>1, TimesMonotone, Zenon
  <2>6. lo(k) = IF k = 1 THEN off ELSE a * ClusterSize
    <3>1. CASE k = 1
      <4>1. a = first  BY <1>1, <3>1
      <4>2. a * ClusterSize <= off  BY <1>1, <4>1
      <4> HIDE DEF a
      <4>3. Larger(off, a * ClusterSize) = off  BY <2>2, <4>2 DEF Larger
      <4> QED BY <3>1, <4>3 DEF a
    <3>2. CASE k # 1
      <4>1. first + 1 <= a  BY <1>1, <3>2
      <4>2. (first + 1) * ClusterSize <= a * ClusterSize
        <5>1. first + 1 \in Int /\ a \in Int /\ ClusterSize \in Nat  BY <1>0, <1>1, <2>1
        <5> QED BY <4>1, <5>1, TimesMonotone, Zenon
      <4>3. (first + 1) * ClusterSize = first * ClusterSize + ClusterSize  BY <1>0, <1>1
      <4> HIDE DEF a
      <4>4. off < a * ClusterSize  BY <1>0, <1>1, <2>2, <4>2, <4>3
      <4>5. Larger(off, a * ClusterSize) = a * ClusterSize  BY <2>2, <4>4 DEF Larger
      <4> QED BY <3>2, <4>5 DEF a
    <3> QED BY <3>1, <3>2
  <2>7. hi(k) = IF k = N THEN off + n ELSE (a + 1) * ClusterSize
    <3>1. CASE k = N
      <4> DEFINE e == (a + 1) * ClusterSize
      <4>1. off + n <= e /\ e \in Nat  BY <1>0, <1>1, <2>1, <2>2, <3>1
      <4> HIDE DEF a, e
      <4>2. Smaller(off + n, e) = off + n  BY <4>1 DEF Smaller
      <4> QED BY <3>1, <4>2 DEF a, e
    <3>2. CASE k # N
      <4>1. (a + 1) * ClusterSize < off + n  BY <1>0, <1>1, <2>2, <2>5, <3>2
      <4> HIDE DEF a
      <4>2. Smaller(off + n, (a + 1) * ClusterSize) = (a + 1) * ClusterSize
        BY <2>2, <4>1, <1>0 DEF Smaller
      <4> QED BY <3>2, <4>2 DEF a
    <3> QED BY <3>1, <3>2
  <2>8. H(k - 1) = lo(k)
    <3>1. CASE k = 1  BY <2>6, <3>1
    <3>2. CASE k # 1
      <4>1. k - 1 \in 1..N /\ At(k - 1) + 1 = a /\ k - 1 # 0  BY <1>1, <3>2
      <4>2. hi(k - 1) = Smaller(off + n, a * ClusterSize)  BY <4>1
      <4>3. a * ClusterSize < off + n  BY <1>1, <2>2, <2>4
      <4> HIDE DEF a
      <4>4. Smaller(off + n, a * ClusterSize) = a * ClusterSize  BY <2>2, <4>3 DEF Smaller
      <4>5. H(k - 1) = hi(k - 1)  BY <4>1
      <4> QED BY <2>6, <3>2, <4>2, <4>4, <4>5
    <3> QED BY <3>1, <3>2
  <2>9. hi(k) = H(k)  OBVIOUS
  <2>10. off <= lo(k)
    <3> DEFINE ac == a * ClusterSize
    <3> HIDE DEF a
    <3>1. ac \in Nat  BY <2>2
    <3> HIDE DEF ac
    <3>2. off <= Larger(off, ac)  BY <3>1 DEF Larger
    <3> QED BY <3>2 DEF ac, a
  <2> HIDE DEF a, lo, hi, H
  <2>11. lo(k) \in Nat /\ hi(k) \in Nat  BY <1>0, <2>1, <2>2, <2>6, <2>7
  <2>12. a * ClusterSize <= lo(k)
    <3>1. CASE k = 1  BY <1>1, <2>1, <2>6, <3>1
    <3>2. CASE k # 1  BY <2>2, <2>6, <3>2
    <3> QED BY <3>1, <3>2
  <2>13. lo(k) <= hi(k)
    <3>1. lo(k) <= a * ClusterSize + ClusterSize
      <4>1. CASE k = 1  BY <1>0, <1>1, <2>1, <2>6, <4>1
      <4>2. CASE k # 1  BY <1>0, <2>2, <2>6, <4>2
      <4> QED BY <4>1, <4>2
    <3>2. lo(k) <= off + n
      <4>1. CASE k = 1  BY <2>6, <4>1
      <4>2. CASE k # 1  BY <1>1, <2>2, <2>4, <2>6, <4>2
      <4> QED BY <4>1, <4>2
    <3> QED BY <2>2, <2>7, <3>1, <3>2
  <2>14. hi(k) <= a * ClusterSize + ClusterSize
    BY <1>0, <1>1, <2>1, <2>2, <2>7
  <2> QED BY <2>1, <2>7, <2>8, <2>9, <2>10, <2>11, <2>12, <2>13, <2>14 DEF a
<1> HIDE DEF lo, hi, H
<1>4. ASSUME NEW k \in 1..N
      PROVE  /\ Piece(k) \in Seq(Int) /\ Len(Piece(k)) <= H(k) - H(k - 1)
             /\ Finds(v, Placed(v, mapped, lcn + At(k)), B, At(k)) =>
                   Piece(k) = Bytes(B, H(k - 1), H(k) - H(k - 1))
  <2> DEFINE c == At(k)  p == Placed(v, mapped, lcn + c)  l == lo(k)  h == hi(k)
  <2>1. /\ c \in Nat /\ l \in Nat /\ h \in Nat /\ c * ClusterSize <= l /\ l <= h
        /\ h <= c * ClusterSize + ClusterSize
    BY <1>3
  <2>2. p \in Int
    <3> HIDE DEF c
    <3>1. lcn + c \in Nat  BY <2>1
    <3> QED BY <3>1, PlacedType
  <2>3. l = H(k - 1) /\ h = H(k)  BY <1>3
  <2> HIDE DEF c, p, l, h
  <2>4. FromClusterIs(v, p, B, c, l, h)  BY <2>1, <2>2, FromClusterFacts
  <2> QED BY <2>3, <2>4, Zenon DEF c, p, l, h, FromClusterIs
<1> HIDE DEF Piece
<1>5. sq \in Seq(Seq(Int)) /\ Len(sq) = N  BY <1>1, <1>4
<1>6. PICK f \in [0..N -> Seq(Int)] :
         /\ f[0] = << >> /\ \A i \in 1..N : f[i] = f[i - 1] \o sq[i]
         /\ FlattenSeq(sq) = f[N]
  <2> HIDE DEF sq, N
  <2> QED BY <1>5, Flattened
<1>7. \A k \in 0..N : H(k) \in Nat /\ off <= H(k)
  <2> SUFFICES ASSUME NEW k \in 0..N PROVE H(k) \in Nat /\ off <= H(k)  OBVIOUS
  <2>1. CASE k = 0  BY <2>1 DEF H
  <2>2. CASE k # 0
    <3>1. k \in 1..N  BY <1>1, <2>2
    <3> QED BY <1>3, <3>1
  <2> QED BY <2>1, <2>2
<1>8. H(0) = off /\ H(N) = off + n
  <2>1. N \in 1..N  BY <1>1
  <2>2. H(N) = off + n  BY <1>3, <2>1
  <2> QED BY <2>2 DEF H
<1>9. ASSUME NEW k \in 1..N
      PROVE  /\ f[k] \in Seq(Int) /\ f[k - 1] \in Seq(Int) /\ f[k] = f[k - 1] \o Piece(k)
             /\ Len(f[k]) = Len(f[k - 1]) + Len(Piece(k))
             /\ Len(f[k - 1]) \in Nat /\ Len(Piece(k)) \in Nat
             /\ H(k) \in Nat /\ H(k - 1) \in Nat /\ H(k - 1) <= H(k)
  <2>1. k \in 0..N /\ k - 1 \in 0..N  BY <1>1
  <2>2. f[k] \in Seq(Int) /\ f[k - 1] \in Seq(Int) /\ f[k] = f[k - 1] \o Piece(k)
    BY <1>6, <2>1
  <2>3. Len(f[k]) = Len(f[k - 1]) + Len(Piece(k)) /\ Len(f[k - 1]) \in Nat /\ Len(Piece(k)) \in Nat
    BY <1>4, <2>2, ConcatProperties, LenProperties
  <2> QED BY <1>3, <1>7, <2>1, <2>2, <2>3
<1>10. f[N] \in Seq(Int) /\ Len(f[N]) <= n
  <2> DEFINE L(k) == Len(f[k])  P(k) == Len(Piece(k))
             T == {k \in 0..N : L(k) <= H(k) - off}
  <2>1. \A k \in 1..N : /\ L(k) = L(k - 1) + P(k) /\ P(k) <= H(k) - H(k - 1)
                        /\ L(k - 1) \in Nat /\ P(k) \in Nat
                        /\ H(k) \in Nat /\ H(k - 1) \in Nat
    BY <1>4, <1>9
  <2>2. L(0) = 0 /\ N \in Nat  BY <1>1, <1>6
  <2>3. N \in T
    <3> HIDE DEF L, P, N
    <3>1. 0 \in T  BY <1>8, <2>2
    <3>2. ASSUME NEW k \in 0..(N - 1), k \in T PROVE k + 1 \in T
      <4>1. k + 1 \in 1..N /\ (k + 1) - 1 = k /\ k + 1 \in 0..N  BY <2>2
      <4>2. L(k + 1) = L(k) + P(k + 1) /\ P(k + 1) <= H(k + 1) - H(k)
            /\ L(k) \in Nat /\ P(k + 1) \in Nat /\ H(k) \in Nat /\ H(k + 1) \in Nat
        BY <2>1, <4>1
      <4>3. L(k) <= H(k) - off  BY <3>2
      <4>4. L(k + 1) <= H(k + 1) - off  BY <4>2, <4>3
      <4> QED BY <4>1, <4>4
    <3> HIDE DEF T
    <3>3. 0..N \subseteq T  BY <2>2, <3>1, <3>2, AllUpTo
    <3> QED BY <2>2, <3>3
  <2>4. L(N) <= H(N) - off /\ N \in 0..N  BY <2>2, <2>3
  <2>5. Len(f[N]) <= n  BY <1>8, <2>4
  <2> QED BY <1>6, <2>4, <2>5
<1>11. ASSUME \A c \in first..last : Finds(v, Placed(v, mapped, lcn + c), B, c)
       PROVE  f[N] = Bytes(B, off, n)
  <2> DEFINE T == {k \in 0..N : f[k] = Bytes(B, off, H(k) - off)}
  <2>1. 0 \in T
    <3>1. H(0) - off = 0  BY <1>8
    <3>2. Bytes(B, off, 0) = << >>  BY BytesEmpty
    <3> QED BY <1>1, <1>6, <3>1, <3>2
  <2>2. ASSUME NEW k \in 0..(N - 1), k \in T PROVE k + 1 \in T
    <3>1. k + 1 \in 1..N /\ (k + 1) - 1 = k  BY <1>1
    <3> DEFINE a == H(k) - off  b == H(k + 1) - H(k)
    <3>2. f[k + 1] = f[k] \o Piece(k + 1) /\ H(k) \in Nat /\ H(k + 1) \in Nat /\ H(k) <= H(k + 1)
      BY <1>9, <3>1
    <3>3. At(k + 1) \in first..last  BY <1>3, <3>1
    <3>4. Piece(k + 1) = Bytes(B, H(k), b)  BY <1>4, <1>11, <3>1, <3>3
    <3>5. a \in Nat /\ b \in Nat /\ off + a = H(k) /\ a + b = H(k + 1) - off
      <4>1. k \in 0..N  BY <1>1
      <4>2. off <= H(k)  BY <1>7, <4>1
      <4> QED BY <3>2, <4>2
    <3>6. f[k] = Bytes(B, off, a)  BY <2>2
    <3> HIDE DEF a, b
    <3>7. f[k + 1] = Bytes(B, off, a) \o Bytes(B, off + a, b)  BY <3>2, <3>4, <3>5, <3>6
    <3>8. Join(B, off, a, b)  BY <3>5, BytesJoin
    <3>9. f[k + 1] = Bytes(B, off, a + b)  BY <3>7, <3>8, Zenon DEF Join
    <3> QED BY <3>1, <3>5, <3>9
  <2>3. 0..N \subseteq T
    <3> HIDE DEF T, N
    <3> QED BY <1>1, <2>1, <2>2, AllUpTo
  <2>4. N \in T  BY <1>1, <2>3
  <2>5. H(N) - off = n  BY <1>8
  <2> QED BY <2>4, <2>5
<1>12. Touched(off, n) = first..last  BY DEF Touched, first, last
<1>13. ByCluster(v, mapped, lcn, off, n) = f[N]  BY <1>2, <1>6
<1> HIDE DEF N
<1> QED BY <1>10, <1>11, <1>12, <1>13, Zenon DEF ByClusterIs

(* A read that takes the run to lie in one piece, from cluster q on. *)
DirectIs(v, q, off, n, B) ==
    LET s == DiskRead(v, q * ClusterSize + off, n) IN
    /\ s \in Seq(Int) /\ Len(s) <= n
    /\ (\A c \in Touched(off, n) : q + c >= 0 /\ Finds(v, q + c, B, c)) => s = Bytes(B, off, n)

LEMMA DirectFacts ==
    ASSUME ByteTypes, NEW v, IsVolume(v), NEW q \in Int, NEW off \in Nat, NEW n \in Nat,
           NEW B \in [Nat -> Int]
    PROVE  DirectIs(v, q, off, n, B)
<1> DEFINE z == q * ClusterSize + off
<1>0. ClusterSize \in Nat \ {0} /\ z \in Int /\ Len(v.origin) \in Nat /\ q * ClusterSize \in Int
  BY ClusterAssumption, LenProperties DEF IsVolume
<1> HIDE DEF z
<1>1. /\ DiskRead(v, z, n) \in Seq(Int) /\ Len(DiskRead(v, z, n)) <= n
      /\ (\A i \in 1..n : Supplied(v, z + i - 1)) =>
            DiskRead(v, z, n) = [i \in 1..n |-> Image(z + i - 1)]
  BY <1>0, DiskReadFacts
<1>2. ASSUME \A c \in Touched(off, n) : q + c >= 0 /\ Finds(v, q + c, B, c)
      PROVE  DiskRead(v, z, n) = Bytes(B, off, n)
  <2>1. ASSUME NEW i \in 1..n
        PROVE  Supplied(v, z + i - 1) /\ Image(z + i - 1) = B[off + i - 1]
    <3> DEFINE x == z + i - 1  y == off + i - 1  c == y \div ClusterSize
               r == y % ClusterSize  p == q + c
    <3>1. y \in off..(off + n - 1) /\ y \in Nat  OBVIOUS
    <3>2. c \in Touched(off, n) /\ c \in Nat
      <4> HIDE DEF y
      <4> QED BY <3>1, TouchedBy
    <3>3. y = c * ClusterSize + r /\ r \in 0..(ClusterSize - 1)
      <4> HIDE DEF y
      <4> QED BY <1>0, <3>1, QuotientBounds, Zenon
    <3>4. p >= 0 /\ Finds(v, p, B, c)  BY <1>2, <3>2
    <3>5. x = q * ClusterSize + y  BY <1>0 DEF z
    <3> HIDE DEF x, y, c, r
    <3>6. p \in Nat /\ p \in Int  BY <3>2, <3>4
    <3>7. p * ClusterSize = q * ClusterSize + c * ClusterSize  BY <1>0, <3>2
    <3> HIDE DEF p
    <3>8. x = p * ClusterSize + r /\ x \in Nat /\ p * ClusterSize \in Nat
      BY <1>0, <3>2, <3>3, <3>5, <3>6, <3>7
    <3>9. x \div ClusterSize = p
      <4>1. p * ClusterSize <= x /\ x < p * ClusterSize + ClusterSize /\ x \in Int
        BY <1>0, <3>3, <3>8
      <4> QED BY <1>0, <3>6, <4>1, QuotientIs, Zenon
    <3>10. p < Len(v.origin) /\ p \notin v.lost  BY <3>4 DEF Finds
    <3>11. x < Len(v.origin) * ClusterSize
      <4>1. p + 1 \in Int /\ Len(v.origin) \in Int /\ ClusterSize \in Nat /\ p + 1 <= Len(v.origin)
        BY <1>0, <3>6, <3>10
      <4>2. (p + 1) * ClusterSize <= Len(v.origin) * ClusterSize
        BY <4>1, TimesMonotone, Zenon
      <4>3. (p + 1) * ClusterSize = p * ClusterSize + ClusterSize
            /\ Len(v.origin) * ClusterSize \in Nat
        BY <1>0, <3>6
      <4> QED BY <1>0, <3>3, <3>8, <4>2, <4>3
    <3>12. Supplied(v, x)  BY <3>9, <3>10, <3>11 DEF Supplied
    <3>13. B[y] = Image(x)
      <4>1. B[y] = IF p < 0 THEN Zero ELSE Image(p * ClusterSize + (y % ClusterSize))
        BY <3>1, <3>4, Zenon DEF Finds, c, y
      <4>2. ~ (p < 0)  BY <3>6
      <4> QED BY <3>8, <4>1, <4>2 DEF r
    <3> QED BY <3>12, <3>13 DEF x, y
  <2>2. DiskRead(v, z, n) = [i \in 1..n |-> Image(z + i - 1)]  BY <1>1, <2>1
  <2>3. [i \in 1..n |-> Image(z + i - 1)] = [i \in 1..n |-> B[off + i - 1]]  BY <2>1
  <2> QED BY <2>2, <2>3 DEF Bytes
<1> QED BY <1>1, <1>2, Zenon DEF DirectIs, z

(* Where cluster c of a run is looked for. *)
Where(v, run, c, found, mft) ==
    IF run.lcn = Hole THEN Nowhere
    ELSE IF found THEN run.lcn + c
    ELSE Placed(v, v.map # << >> /\ ~ mft, run.lcn + c)

(* The chunk does not go up over the boot sector's LCN of $MFT. *)
Level(v, run, off, n, found, mft) ==
    \/ v.shift <= 0 \/ found \/ ~ (mft \/ v.map = << >>)
    \/ run.lcn = Hole \/ run.lcn >= v.bpb \/ run.lcn + (off + n - 1) \div ClusterSize < v.bpb

ChunkIs(v, run, off, n, found, mft, B) ==
    LET s == ChunkOfRun(v, run, off, n, found, mft) IN
    /\ s \in Seq(Int) /\ Len(s) <= n
    /\ Level(v, run, off, n, found, mft)
         /\ (\A c \in Touched(off, n) : Finds(v, Where(v, run, c, found, mft), B, c))
             => s = Bytes(B, off, n)

(* The shortcuts for the shift of a whole chunk do what ByCluster does. *)
LEMMA ChunkFacts ==
    ASSUME ByteTypes, NEW v, IsVolume(v),
           NEW run \in RunType, NEW off \in Nat, NEW n \in Nat \ {0},
           NEW found \in BOOLEAN, NEW mft \in BOOLEAN, NEW B \in [Nat -> Int]
    PROVE  ChunkIs(v, run, off, n, found, mft, B)
<1> DEFINE first == run.lcn + off \div ClusterSize
           last  == run.lcn + (off + n - 1) \div ClusterSize
           From(lcn) == DiskRead(v, lcn * ClusterSize + off, n)
           s     == ChunkOfRun(v, run, off, n, found, mft)
           W(c)  == Where(v, run, c, found, mft)
<1>0. /\ ClusterSize \in Nat \ {0} /\ run.lcn \in Nat \cup {Hole} /\ Hole \notin Nat
      /\ v.shift \in Int /\ v.bpb \in Nat /\ v.bpb + v.shift \in Nat
  BY ClusterAssumption DEF RunType, IsVolume
<1>1. \A c \in Touched(off, n) : /\ c \in Nat /\ off \div ClusterSize <= c
                                 /\ c <= (off + n - 1) \div ClusterSize
  <2>1. off + n - 1 \in Nat  OBVIOUS
  <2>2. off \div ClusterSize \in Nat /\ (off + n - 1) \div ClusterSize \in Nat
    BY <1>0, <2>1, QuotientBounds, Zenon
  <2> QED BY <2>2 DEF Touched
<1>2. CASE run.lcn = Hole
  <2>1. s = Zeros(n)  BY <1>2 DEF ChunkOfRun
  <2>2. Zeros(n) \in Seq(Int) /\ Len(Zeros(n)) = n
    <3>1. n \in Int /\ ~ (n < 0)  OBVIOUS
    <3> QED BY <3>1, ZerosFacts
  <2>3. ASSUME \A c \in Touched(off, n) : Finds(v, W(c), B, c)
        PROVE  Zeros(n) = Bytes(B, off, n)
    <3>1. ASSUME NEW x \in off..(off + n - 1) PROVE B[x] = Zero
      <4>1. x \div ClusterSize \in Touched(off, n) /\ x \in Nat  BY TouchedBy
      <4>2. W(x \div ClusterSize) = -1  BY <1>2 DEF Where, Nowhere
      <4> HIDE DEF W
      <4>3. Finds(v, -1, B, x \div ClusterSize)  BY <2>3, <4>1, <4>2
      <4>4. B[x] = IF -1 < 0 THEN Zero ELSE Image((-1) * ClusterSize + (x % ClusterSize))
        BY <4>1, <4>3, Zenon DEF Finds
      <4> QED BY <4>4
    <3>2. n \in Nat  OBVIOUS
    <3> QED BY <3>1, <3>2, ZeroBytes
  <2> QED BY <2>1, <2>2, <2>3 DEF ChunkIs
<1>3. CASE run.lcn \in Nat
  <2>0. run.lcn # Hole  BY <1>0, <1>3
  <2>1. ASSUME NEW q \in Int, s = From(q),
               Level(v, run, off, n, found, mft) =>
                  \A c \in Touched(off, n) : W(c) = q + c /\ q + c >= 0
        PROVE  ChunkIs(v, run, off, n, found, mft, B)
    <3>1. DirectIs(v, q, off, n, B)  BY DirectFacts, n \in Nat
    <3> HIDE DEF W, s
    <3>2. Level(v, run, off, n, found, mft)
            /\ (\A c \in Touched(off, n) : Finds(v, W(c), B, c)) => s = Bytes(B, off, n)
      <4> SUFFICES ASSUME Level(v, run, off, n, found, mft),
                          \A c \in Touched(off, n) : Finds(v, W(c), B, c)
                   PROVE  s = Bytes(B, off, n)
        OBVIOUS
      <4>1. \A c \in Touched(off, n) : q + c >= 0 /\ Finds(v, q + c, B, c)  BY <2>1
      <4> QED BY <2>1, <3>1, <4>1, Zenon DEF DirectIs
    <3>3. s \in Seq(Int) /\ Len(s) <= n  BY <2>1, <3>1, Zenon DEF DirectIs
    <3> QED BY <3>2, <3>3, Zenon DEF ChunkIs, s, W
  <2>2. ASSUME NEW mapped \in BOOLEAN, mapped => v.map # << >>,
               s = ByCluster(v, mapped, run.lcn, off, n),
               \A c \in Touched(off, n) : W(c) = Placed(v, mapped, run.lcn + c)
        PROVE  ChunkIs(v, run, off, n, found, mft, B)
    <3>1. ByClusterIs(v, mapped, run.lcn, off, n, B)  BY <1>3, <2>2, ByClusterFacts
    <3> HIDE DEF W, s
    <3>2. (\A c \in Touched(off, n) : Finds(v, W(c), B, c)) => s = Bytes(B, off, n)
      <4> SUFFICES ASSUME \A c \in Touched(off, n) : Finds(v, W(c), B, c)
                   PROVE  s = Bytes(B, off, n)
        OBVIOUS
      <4>1. \A c \in Touched(off, n) : Finds(v, Placed(v, mapped, run.lcn + c), B, c)
        BY <2>2
      <4> QED BY <2>2, <3>1, <4>1, Zenon DEF ByClusterIs
    <3>3. s \in Seq(Int) /\ Len(s) <= n  BY <2>2, <3>1, Zenon DEF ByClusterIs
    <3> QED BY <3>2, <3>3, Zenon DEF ChunkIs, s, W
  <2>3. CASE found
    <3>1. s = From(run.lcn)  BY <2>0, <2>3 DEF ChunkOfRun
    <3>2. \A c \in Touched(off, n) : W(c) = run.lcn + c /\ run.lcn + c >= 0
      BY <1>1, <1>3, <2>0, <2>3 DEF Where
    <3> QED BY <1>3, <2>1, <3>1, <3>2
  <2>4. CASE ~ found /\ v.map # << >> /\ ~ mft
    <3>1. s = ByCluster(v, TRUE, run.lcn, off, n)  BY <2>0, <2>4 DEF ChunkOfRun
    <3>2. \A c \in Touched(off, n) : W(c) = Placed(v, TRUE, run.lcn + c)
      BY <2>0, <2>4 DEF Where
    <3> QED BY <2>2, <2>4, <3>1, <3>2
  <2>5. CASE ~ found /\ (v.map = << >> \/ mft)
    <3>0. \A c \in Touched(off, n) : W(c) = Placed(v, FALSE, run.lcn + c)
      BY <2>0, <2>5 DEF Where
    <3>1. s = IF v.shift = 0 THEN From(run.lcn)
              ELSE IF first >= v.bpb THEN From(run.lcn + v.shift)
              ELSE IF last < v.bpb + v.shift THEN From(run.lcn)
              ELSE ByCluster(v, FALSE, run.lcn, off, n)
      BY <2>0, <2>5 DEF ChunkOfRun
    <3> HIDE DEF s, W
    <3>2. CASE v.shift = 0
      <4>1. s = From(run.lcn)  BY <3>1, <3>2
      <4>2. \A c \in Touched(off, n) : W(c) = run.lcn + c /\ run.lcn + c >= 0
        BY <1>0, <1>1, <1>3, <3>0, <3>2 DEF Placed
      <4> QED BY <1>3, <2>1, <4>1, <4>2
    <3>3. CASE v.shift # 0 /\ first >= v.bpb
      <4>1. s = From(run.lcn + v.shift)  BY <3>1, <3>3
      <4>2. ASSUME NEW c \in Touched(off, n)
            PROVE  W(c) = (run.lcn + v.shift) + c /\ (run.lcn + v.shift) + c >= 0
        <5>1. c \in Nat /\ run.lcn + c >= v.bpb
          <6> DEFINE f == off \div ClusterSize
          <6>1. f <= c /\ run.lcn + f >= v.bpb /\ c \in Nat  BY <1>1, <3>3
          <6>2. f \in Int  BY <1>0
          <6> HIDE DEF f
          <6> QED BY <1>0, <1>3, <6>1, <6>2
        <5>2. W(c) = run.lcn + c + v.shift  BY <3>0, <5>1 DEF Placed
        <5> QED BY <1>0, <1>3, <5>1, <5>2
      <4>3. run.lcn + v.shift \in Int  BY <1>0, <1>3
      <4> QED BY <2>1, <4>1, <4>2, <4>3
    <3>4. CASE v.shift # 0 /\ ~ (first >= v.bpb) /\ last < v.bpb + v.shift
      <4>1. s = From(run.lcn)  BY <3>1, <3>4
      <4>2. ASSUME Level(v, run, off, n, found, mft), NEW c \in Touched(off, n)
            PROVE  W(c) = run.lcn + c /\ run.lcn + c >= 0
        <5>1. c \in Nat /\ run.lcn + c < v.bpb + v.shift /\ run.lcn + c < v.bpb
          <6> DEFINE f == (off + n - 1) \div ClusterSize  e == off \div ClusterSize
          <6>1. c <= f /\ run.lcn + f < v.bpb + v.shift /\ c \in Nat  BY <1>1, <3>4
          <6>2. f \in Int /\ e \in Nat
            <7>1. off + n - 1 \in Nat  OBVIOUS
            <7>2. f \in Nat /\ e \in Nat  BY <1>0, <7>1, QuotientBounds, Zenon
            <7> HIDE DEF f, e
            <7> QED BY <7>2
          <6>3. ~ (run.lcn + e >= v.bpb)  BY <3>4
          <6>4. v.shift <= 0 \/ run.lcn >= v.bpb \/ run.lcn + f < v.bpb
            BY <2>0, <2>5, <4>2 DEF Level
          <6> HIDE DEF f, e
          <6> QED BY <1>0, <1>3, <6>1, <6>2, <6>3, <6>4
        <5>2. ~ (run.lcn + c >= v.bpb) /\ ~ (run.lcn + c >= v.bpb + v.shift)
          BY <1>0, <1>3, <5>1
        <5> QED BY <1>3, <3>0, <5>1, <5>2 DEF Placed
      <4> QED BY <1>3, <2>1, <4>1, <4>2
    <3>5. CASE v.shift # 0 /\ ~ (first >= v.bpb) /\ ~ (last < v.bpb + v.shift)
      <4>1. s = ByCluster(v, FALSE, run.lcn, off, n)  BY <3>1, <3>5
      <4> QED BY <2>2, <3>0, <4>1
    <3> QED BY <3>2, <3>3, <3>4, <3>5
  <2> QED BY <2>3, <2>4, <2>5
<1> QED BY <1>0, <1>2, <1>3

-----------------------------------------------------------------------------
(* _read_via_runs *)

(* The walk is told the truth of cluster c of the stream. *)
StreamFinds(v, runs, found, mft, B, c) ==
    /\ Straight(v, runs, found, mft)
    /\ \A i \in 1..Len(runs) :
          Starts(runs)[i] <= c /\ c < Starts(runs)[i + 1] =>
              Finds(v, Where(v, runs[i], c - Starts(runs)[i], i \in found, mft), B, c)
    /\ c >= ClustersOf(runs) => \A x \in Nat : x \div ClusterSize = c => B[x] = Zero

(* Bytes lo..hi-1 of a stream lie in its run i. *)
PartIs(v, runs, i, found, mft, lo, hi, B) ==
    LET a == Starts(runs)[i] * ClusterSize
        s == ChunkOfRun(v, runs[i], lo - a, hi - lo, i \in found, mft)
    IN /\ s \in Seq(Int) /\ Len(s) <= hi - lo
       /\ (\A c \in Touched(lo, hi - lo) : StreamFinds(v, runs, found, mft, B, c))
             => s = Bytes(B, lo, hi - lo)

LEMMA PartFacts ==
    ASSUME ByteTypes, NEW v, IsVolume(v),
           NEW runs \in Seq(RunType), NEW i \in 1..Len(runs), NEW found, NEW mft \in BOOLEAN,
           NEW lo \in Nat, NEW hi \in Nat, lo < hi, NEW B \in [Nat -> Int],
           Starts(runs)[i] * ClusterSize <= lo, hi <= Starts(runs)[i + 1] * ClusterSize
    PROVE  PartIs(v, runs, i, found, mft, lo, hi, B)
<1> DEFINE a == Starts(runs)[i]  b == Starts(runs)[i + 1]
           x0 == lo - a * ClusterSize  n == hi - lo  F == i \in found
           s == ChunkOfRun(v, runs[i], x0, n, F, mft)
           A == [x \in Nat |-> B[a * ClusterSize + x]]
<1>0. /\ ClusterSize \in Nat \ {0} /\ a \in Nat /\ b \in Nat
      /\ a * ClusterSize \in Nat /\ b * ClusterSize \in Nat
      /\ x0 \in Nat /\ n \in Nat \ {0} /\ F \in BOOLEAN /\ runs[i] \in RunType
      /\ a * ClusterSize <= lo /\ hi <= b * ClusterSize
  <2>1. ClusterSize \in Nat \ {0} /\ a \in Nat /\ b \in Nat
    <3>1. i + 1 \in 1..(Len(runs) + 1) /\ i \in 1..(Len(runs) + 1)  BY RunTypes
    <3> QED BY <3>1, ClusterAssumption, StartsFacts
  <2>2. a * ClusterSize \in Nat /\ b * ClusterSize \in Nat
    <3> HIDE DEF a, b
    <3> QED BY <2>1
  <2>3. F \in BOOLEAN  OBVIOUS
  <2>4. runs[i] \in RunType  BY RunTypes
  <2>5. n \in Nat \ {0}  OBVIOUS
  <2>6. x0 \in Nat  BY <2>2
  <2> QED BY <2>1, <2>2, <2>3, <2>4, <2>5, <2>6
<1>1. A \in [Nat -> Int]
  <2> HIDE DEF a, b
  <2> SUFFICES ASSUME NEW x \in Nat PROVE B[a * ClusterSize + x] \in Int  OBVIOUS
  <2>1. a * ClusterSize \in Nat  BY <1>0
  <2>2. a * ClusterSize + x \in Nat  BY <2>1
  <2> QED BY <2>2
<1>2. \A x \in Nat : A[x] = B[a * ClusterSize + x]  OBVIOUS
<1>3. PartIs(v, runs, i, found, mft, lo, hi, B) <=>
         /\ s \in Seq(Int) /\ Len(s) <= n
         /\ (\A c \in Touched(lo, n) : StreamFinds(v, runs, found, mft, B, c))
               => s = Bytes(B, lo, n)
  BY DEF PartIs
<1>4. x0 = lo - a * ClusterSize /\ n = hi - lo  OBVIOUS
<1> HIDE DEF x0, n, F, A, s
<1>5. ChunkIs(v, runs[i], x0, n, F, mft, A)  BY <1>0, <1>1, ChunkFacts
<1>6. Bytes(A, x0, n) = Bytes(B, lo, n)
  <2>1. ASSUME NEW k \in 1..n PROVE A[x0 + k - 1] = B[lo + k - 1]
    <3> HIDE DEF a, b
    <3>1. x0 + k - 1 \in Nat /\ a * ClusterSize + (x0 + k - 1) = lo + k - 1
      BY <1>0, <1>4
    <3> QED BY <1>2, <3>1
  <2> QED BY <2>1 DEF Bytes
<1>7. ASSUME \A c \in Touched(lo, n) : StreamFinds(v, runs, found, mft, B, c),
             NEW c \in Touched(x0, n)
      PROVE  Finds(v, Where(v, runs[i], c, F, mft), A, c)
  <2> DEFINE d == a + c  p == Where(v, runs[i], c, F, mft)
  <2>1. x0 + n - 1 \in Nat /\ x0 \div ClusterSize \in Nat /\ (x0 + n - 1) \div ClusterSize \in Nat
    <3>1. x0 + n - 1 \in Nat  BY <1>0
    <3> QED BY <1>0, <3>1, QuotientBounds, Zenon
  <2>2. c \in Nat /\ x0 \div ClusterSize <= c /\ c <= (x0 + n - 1) \div ClusterSize
    BY <2>1 DEF Touched
  <2>3. lo \div ClusterSize = a + x0 \div ClusterSize
    <3>1. (a * ClusterSize + x0) \div ClusterSize = a + x0 \div ClusterSize
      BY <1>0, QuotientShift, Zenon
    <3>2. a * ClusterSize + x0 = lo  BY <1>0, <1>4
    <3> QED BY <3>1, <3>2
  <2>4. (lo + n - 1) \div ClusterSize = a + (x0 + n - 1) \div ClusterSize
    <3>1. (a * ClusterSize + (x0 + n - 1)) \div ClusterSize = a + (x0 + n - 1) \div ClusterSize
      BY <1>0, <2>1, QuotientShift, Zenon
    <3>2. a * ClusterSize + (x0 + n - 1) = lo + n - 1
      <4> HIDE DEF a, b
      <4> QED BY <1>0, <1>4
    <3> QED BY <3>1, <3>2
  <2>5. d \in Touched(lo, n) /\ d \in Nat
    <3> DEFINE e == x0 \div ClusterSize  f == (x0 + n - 1) \div ClusterSize
    <3>1. e \in Nat /\ f \in Nat /\ e <= c /\ c <= f /\ c \in Nat  BY <2>1, <2>2
    <3>2. Touched(lo, n) = (a + e)..(a + f)  BY <2>3, <2>4 DEF Touched
    <3> HIDE DEF a, e, f
    <3> QED BY <1>0, <3>1, <3>2
  <2>6. a <= d /\ d < b /\ d - a = c
    <3>1. (lo + n - 1) \div ClusterSize < b
      <4> DEFINE q == (lo + n - 1) \div ClusterSize
      <4> HIDE DEF a, b
      <4>1. lo + n - 1 \in Nat /\ lo + n - 1 < b * ClusterSize  BY <1>0, <1>4
      <4>2. q \in Nat /\ q * ClusterSize <= lo + n - 1
        BY <1>0, <4>1, QuotientBounds, Zenon
      <4> SUFFICES ASSUME b <= q PROVE FALSE  BY <1>0, <4>2
      <4> HIDE DEF q
      <4>3. b \in Int /\ q \in Int /\ ClusterSize \in Nat  BY <1>0, <4>2
      <4>4. b * ClusterSize <= q * ClusterSize  BY <4>3, TimesMonotone, Zenon
      <4>5. q * ClusterSize \in Nat  BY <1>0, <4>2
      <4>6. b * ClusterSize \in Nat  BY <1>0
      <4> QED BY <4>1, <4>2, <4>4, <4>5, <4>6
    <3> DEFINE f == (x0 + n - 1) \div ClusterSize
    <3>2. f \in Nat /\ c <= f /\ a + f < b /\ c \in Nat  BY <2>1, <2>2, <2>4, <3>1
    <3> HIDE DEF f, a, b
    <3> QED BY <1>0, <3>2
  <2>7. Finds(v, p, B, d)
    <3>1. StreamFinds(v, runs, found, mft, B, d)  BY <1>7, <2>5
    <3>2. Finds(v, Where(v, runs[i], d - a, i \in found, mft), B, d)
      <4> HIDE DEF d
      <4> QED BY <2>6, <3>1 DEF StreamFinds
    <3> QED BY <2>6, <3>2 DEF F
  <2> HIDE DEF p
  <2>8. ASSUME NEW x \in Nat, x \div ClusterSize = c
        PROVE  A[x] = IF p < 0 THEN Zero ELSE Image(p * ClusterSize + (x % ClusterSize))
    <3> DEFINE y == a * ClusterSize + x
    <3>1. y \in Nat /\ A[x] = B[y]
      <4> HIDE DEF a, b
      <4>1. a * ClusterSize \in Nat /\ x \in Nat  BY <1>0
      <4>2. a * ClusterSize + x \in Nat  BY <4>1
      <4> QED BY <1>2, <4>2
    <3>2. y \div ClusterSize = d /\ y % ClusterSize = x % ClusterSize
      <4>1. (a * ClusterSize + x) \div ClusterSize = a + x \div ClusterSize
            /\ (a * ClusterSize + x) % ClusterSize = x % ClusterSize
        BY <1>0, QuotientShift, Zenon
      <4> QED BY <2>8, <4>1
    <3> HIDE DEF y, d
    <3>3. B[y] = IF p < 0 THEN Zero ELSE Image(p * ClusterSize + (y % ClusterSize))
      BY <2>7, <3>1, <3>2, Zenon DEF Finds
    <3> QED BY <3>1, <3>2, <3>3
  <2>9. p >= 0 => p < Len(v.origin) /\ p \notin v.lost  BY <2>7 DEF Finds
  <2>10. Finds(v, p, A, c)  BY <2>8, <2>9 DEF Finds
  <2> QED BY <2>10 DEF p
<1>8. /\ s \in Seq(Int) /\ Len(s) <= n
      /\ Level(v, runs[i], x0, n, F, mft)
           /\ (\A c \in Touched(x0, n) : Finds(v, Where(v, runs[i], c, F, mft), A, c))
               => s = Bytes(A, x0, n)
  BY <1>5, Zenon DEF ChunkIs, s
<1>9. ASSUME \A c \in Touched(lo, n) : StreamFinds(v, runs, found, mft, B, c)
      PROVE  s = Bytes(B, lo, n)
  <2>1. Level(v, runs[i], x0, n, F, mft)
    <3> DEFINE e == lo \div ClusterSize  f == (lo + n - 1) \div ClusterSize
    <3>1. lo + n - 1 \in Nat /\ lo <= lo + n - 1  BY <1>0
    <3>2. e \in Nat /\ f \in Nat /\ e <= f
      BY <1>0, <3>1, QuotientBounds, QuotientMonotone, Zenon
    <3>3. Touched(lo, n) = e..f  BY DEF Touched
    <3> HIDE DEF e, f
    <3>4. e \in Touched(lo, n)  BY <3>2, <3>3
    <3>5. Straight(v, runs, found, mft)  BY <1>9, <3>4, Zenon DEF StreamFinds
    <3>6. CASE v.shift <= 0 \/ F \/ ~ (mft \/ v.map = << >>)  BY <3>6 DEF Level
    <3>7. CASE ~ (v.shift <= 0) /\ ~ F /\ (mft \/ v.map = << >>)
      <4>1. v.shift > 0 /\ i \in (1..Len(runs)) \ found
        <5>1. v.shift \in Int  BY DEF IsVolume
        <5>2. v.shift > 0  BY <3>7, <5>1
        <5>3. i \notin found  BY <3>7, Zenon DEF F
        <5> QED BY <5>2, <5>3
      <4>2. \/ runs[i].lcn = Hole \/ runs[i].lcn >= v.bpb
            \/ runs[i].lcn + runs[i].len <= v.bpb
        BY <3>5, <3>7, <4>1 DEF Straight
      <4>3. CASE runs[i].lcn # Hole /\ ~ (runs[i].lcn >= v.bpb)
        <5> DEFINE l == runs[i].lcn  k == runs[i].len  g == (x0 + n - 1) \div ClusterSize
        <5>1. l \in Nat /\ k \in Nat /\ l + k <= v.bpb /\ v.bpb \in Nat
          BY <1>0, <4>2, <4>3 DEF RunType, IsVolume
        <5>2. g < k
          <6>1. b = a + k  BY StartsFacts
          <6>2. x0 + n - 1 \in Nat /\ x0 + n <= k * ClusterSize
            <7> HIDE DEF a, b, k, l, g
            <7>1. (a + k) * ClusterSize = a * ClusterSize + k * ClusterSize
              <8>1. a \in Nat /\ k \in Nat /\ ClusterSize \in Nat  BY <1>0, <5>1
              <8> QED BY <8>1, Distributes, Zenon
            <7>2. b * ClusterSize = a * ClusterSize + k * ClusterSize  BY <6>1, <7>1, Zenon
            <7>3. k * ClusterSize \in Nat  BY <1>0, <5>1
            <7> DEFINE A1 == a * ClusterSize  B1 == b * ClusterSize  K1 == k * ClusterSize
            <7>4. A1 \in Nat /\ B1 \in Nat /\ K1 \in Nat /\ B1 = A1 + K1 /\ hi <= B1
                  /\ x0 = lo - A1
              BY <1>0, <1>4, <7>2, <7>3, Zenon
            <7> HIDE DEF A1, B1, K1
            <7>5. x0 + n - 1 \in Nat  BY <1>0
            <7>6. x0 + n <= K1  BY <1>0, <1>4, <7>4
            <7> QED BY <7>5, <7>6 DEF K1
          <6>3. g \in Nat /\ g * ClusterSize <= x0 + n - 1
            BY <1>0, <6>2, QuotientBounds, Zenon
          <6> HIDE DEF g, k, l
          <6> SUFFICES ASSUME k <= g PROVE FALSE  BY <5>1, <6>3
          <6>4. k \in Int /\ g \in Int /\ ClusterSize \in Nat  BY <1>0, <5>1, <6>3
          <6>5. k * ClusterSize <= g * ClusterSize  BY <6>4, TimesMonotone, Zenon
          <6>6. k * ClusterSize \in Nat /\ g * ClusterSize \in Nat  BY <1>0, <5>1, <6>3
          <6> QED BY <1>0, <6>2, <6>3, <6>5, <6>6
        <5>3. g \in Int
          <6>1. x0 + n - 1 \in Nat  BY <1>0
          <6> QED BY <1>0, <6>1, QuotientBounds
        <5> HIDE DEF g
        <5>4. l + g < v.bpb  BY <5>1, <5>2, <5>3
        <5> QED BY <5>4, Zenon DEF Level, g
      <4> QED BY <4>2, <4>3, Zenon DEF Level
    <3> QED BY <3>6, <3>7
  <2> QED BY <1>6, <1>7, <1>8, <1>9, <2>1, Zenon
<1> QED BY <1>3, <1>8, <1>9, Zenon

ReadIs(v, runs, found, off, n, mft, B) ==
    LET s == ReadViaRuns(v, runs, found, off, n, mft) IN
    /\ s \in Seq(Int) /\ Len(s) = n
    /\ (\A c \in Touched(off, n) : StreamFinds(v, runs, found, mft, B, c))
          => s = Bytes(B, off, n)

(* One run of the walk: acc is [at, out] before it. *)
WalkStep(v, runs, found, n, mft, i, acc) ==
    LET lo == Larger(acc.at, Starts(runs)[i] * ClusterSize)
        hi == Smaller(acc.at + n - Len(acc.out), Starts(runs)[i + 1] * ClusterSize)
    IN IF hi <= lo THEN acc
       ELSE [at  |-> hi,
             out |-> acc.out \o ChunkOfRun(v, runs[i], lo - Starts(runs)[i] * ClusterSize,
                                           hi - lo, i \in found, mft)]

Walked == [at : Nat, out : Seq(Int)]

(* The first byte of the stream from off on that is not in runs before i. *)
Reached(runs, off, n, i) == Larger(off, Smaller(off + n, Starts(runs)[i] * ClusterSize))

WalkStepIs(v, runs, found, off, n, mft, i, acc, B) ==
    LET new == WalkStep(v, runs, found, n, mft, i, acc)
        right(a, j) == a.at = Reached(runs, off, n, j) /\ a.out = Bytes(B, off, a.at - off)
    IN /\ new \in Walked
       /\ Len(acc.out) <= n => Len(new.out) <= n
       /\ (\A c \in Touched(off, n) : StreamFinds(v, runs, found, mft, B, c))
             => (right(acc, i) => right(new, i + 1))

LEMMA WalkStepFacts ==
    ASSUME ByteTypes, NEW v, IsVolume(v),
           NEW runs \in Seq(RunType), NEW i \in 1..Len(runs), NEW found, NEW mft \in BOOLEAN,
           NEW off \in Nat, NEW n \in Nat \ {0}, NEW B \in [Nat -> Int], NEW acc \in Walked
    PROVE  WalkStepIs(v, runs, found, off, n, mft, i, acc, B)
<1> DEFINE a == Starts(runs)[i] * ClusterSize  b == Starts(runs)[i + 1] * ClusterSize
           at == acc.at  l == Len(acc.out)
           lo == Larger(at, a)  hi == Smaller(at + n - l, b)
           new == WalkStep(v, runs, found, n, mft, i, acc)
           part == ChunkOfRun(v, runs[i], lo - a, hi - lo, i \in found, mft)
           clean == \A c \in Touched(off, n) : StreamFinds(v, runs, found, mft, B, c)
<1>0. /\ ClusterSize \in Nat \ {0} /\ a \in Nat /\ b \in Nat /\ a <= b
      /\ at \in Nat /\ l \in Nat /\ acc.out \in Seq(Int)
  <2> DEFINE s == Starts(runs)[i]  t == Starts(runs)[i + 1]
  <2>1. ClusterSize \in Nat \ {0} /\ s \in Nat /\ t \in Nat /\ s <= t
    <3>1. i + 1 \in 1..(Len(runs) + 1) /\ i \in 1..(Len(runs) + 1) /\ i <= i + 1
      BY RunTypes
    <3>2. s <= t  BY <3>1, StartsSorted
    <3> QED BY <3>1, <3>2, ClusterAssumption, StartsFacts
  <2>2. s * ClusterSize \in Nat /\ t * ClusterSize \in Nat
    <3> HIDE DEF s, t
    <3> QED BY <2>1
  <2>3. s * ClusterSize <= t * ClusterSize
    <3>1. s \in Int /\ t \in Int /\ ClusterSize \in Nat  BY <2>1
    <3> QED BY <2>1, <3>1, TimesMonotone, Zenon
  <2>4. at \in Nat /\ acc.out \in Seq(Int)  BY DEF Walked
  <2>5. l \in Nat  BY <2>4, LenProperties
  <2> QED BY <2>1, <2>2, <2>3, <2>4, <2>5
<1>1. new = IF hi <= lo THEN acc ELSE [at |-> hi, out |-> acc.out \o part]
  BY DEF WalkStep
<1>2. /\ Reached(runs, off, n, i) = Larger(off, Smaller(off + n, a))
      /\ Reached(runs, off, n, i + 1) = Larger(off, Smaller(off + n, b))
  BY DEF Reached
<1>3. lo \in Nat /\ hi \in Int /\ at <= lo /\ a <= lo /\ hi <= at + n - l /\ hi <= b
      /\ (lo = at \/ lo = a) /\ (hi = at + n - l \/ hi = b)
  <2> HIDE DEF a, b, at, l
  <2> QED BY <1>0 DEF Larger, Smaller
<1>4. ASSUME lo < hi
      PROVE  /\ hi \in Nat /\ part \in Seq(Int) /\ Len(part) <= hi - lo /\ Len(part) \in Nat
             /\ (\A c \in Touched(lo, hi - lo) : StreamFinds(v, runs, found, mft, B, c))
                   => part = Bytes(B, lo, hi - lo)
  <2>1. hi \in Nat  BY <1>3, <1>4
  <2>2. PartIs(v, runs, i, found, mft, lo, hi, B)
    <3>1. Starts(runs)[i] * ClusterSize <= lo /\ hi <= Starts(runs)[i + 1] * ClusterSize
      BY <1>3
    <3> HIDE DEF lo, hi
    <3> QED BY <1>3, <1>4, <2>1, <3>1, PartFacts
  <2>3. /\ part \in Seq(Int) /\ Len(part) <= hi - lo
        /\ (\A c \in Touched(lo, hi - lo) : StreamFinds(v, runs, found, mft, B, c))
              => part = Bytes(B, lo, hi - lo)
    BY <2>2, Zenon DEF PartIs
  <2> QED BY <2>1, <2>3, LenProperties
<1> HIDE DEF a, b, at, l, lo, hi, part, new
<1>5. new \in Walked /\ (l <= n => Len(new.out) <= n)
  <2>1. CASE hi <= lo  BY <1>1, <2>1 DEF l
  <2>2. CASE ~ (hi <= lo)
    <3>1. hi \in Nat /\ part \in Seq(Int) /\ Len(part) <= hi - lo /\ Len(part) \in Nat
      BY <1>3, <1>4, <2>2
    <3>2. acc.out \o part \in Seq(Int) /\ Len(acc.out \o part) = l + Len(part)
      BY <1>0, <3>1, ConcatProperties DEF l
    <3>3. new = [at |-> hi, out |-> acc.out \o part]  BY <1>1, <2>2
    <3>4. new \in Walked /\ Len(new.out) = l + Len(part)  BY <3>1, <3>2, <3>3 DEF Walked
    <3> QED BY <1>0, <1>3, <3>1, <3>4
  <2> QED BY <2>1, <2>2
<1>6. ASSUME clean, at = Larger(off, Smaller(off + n, a)), acc.out = Bytes(B, off, at - off)
      PROVE  /\ new.at = Larger(off, Smaller(off + n, b))
             /\ new.out = Bytes(B, off, new.at - off)
  <2>1. off <= at /\ at <= off + n /\ l = at - off
    <3>1. off <= at /\ at <= off + n  BY <1>0, <1>6 DEF Larger, Smaller
    <3>2. at - off \in Nat  BY <1>0, <3>1
    <3> QED BY <1>6, <3>1, <3>2, BytesType DEF l
  <2>2. hi = Smaller(off + n, b)  BY <1>0, <2>1 DEF hi
  <2>3. CASE hi <= lo
    <3>1. Larger(off, Smaller(off + n, b)) = at
      BY <1>0, <1>3, <1>6, <2>2, <2>3 DEF Larger, Smaller
    <3>2. new.at = at /\ new.out = acc.out  BY <1>1, <2>3 DEF at
    <3> QED BY <1>6, <3>1, <3>2
  <2>4. CASE ~ (hi <= lo)
    <3>0. lo < hi  BY <1>3, <2>4
    <3>1. lo = at /\ off <= hi /\ hi <= off + n
      BY <1>0, <1>3, <1>6, <2>1, <2>2, <3>0 DEF Larger, Smaller
    <3>2. ASSUME NEW c \in Touched(lo, hi - lo)
          PROVE  StreamFinds(v, runs, found, mft, B, c)
      <4> DEFINE p == off \div ClusterSize  q == (off + n - 1) \div ClusterSize
                 x == lo \div ClusterSize  y == (lo + (hi - lo) - 1) \div ClusterSize
      <4>1. lo \in Nat /\ lo + (hi - lo) - 1 \in Nat /\ off + n - 1 \in Nat
            /\ off <= lo /\ lo + (hi - lo) - 1 <= off + n - 1
        BY <1>0, <1>3, <2>1, <3>0, <3>1
      <4>2. p <= x  BY <1>0, <4>1, QuotientMonotone, Zenon
      <4>3. y <= q  BY <1>0, <4>1, QuotientMonotone, Zenon
      <4>4. p \in Nat /\ q \in Nat /\ x \in Nat /\ y \in Nat
        BY <1>0, <4>1, QuotientBounds, Zenon
      <4>5. c \in x..y  BY DEF Touched
      <4> HIDE DEF p, q, x, y
      <4>6. c \in p..q  BY <4>2, <4>3, <4>4, <4>5
      <4>7. c \in Touched(off, n)  BY <4>6, Zenon DEF Touched, p, q
      <4> QED BY <1>6, <4>7, Zenon
    <3>3. part = Bytes(B, lo, hi - lo)  BY <1>4, <3>0, <3>2
    <3>4. new.at = hi /\ new.out = acc.out \o part  BY <1>1, <2>4
    <3> DEFINE d == at - off  e == hi - lo
    <3>5. d \in Nat /\ e \in Nat /\ off + d = lo /\ d + e = hi - off
      BY <1>0, <1>3, <2>1, <3>0, <3>1
    <3>6. acc.out = Bytes(B, off, d) /\ part = Bytes(B, off + d, e)  BY <1>6, <3>3, <3>5
    <3> HIDE DEF d, e
    <3>7. Join(B, off, d, e)  BY <3>5, BytesJoin
    <3>8. new.out = Bytes(B, off, d + e)  BY <3>4, <3>6, <3>7, Zenon DEF Join
    <3>9. hi = Larger(off, hi)  BY <1>0, <1>3, <3>1 DEF Larger
    <3> QED BY <2>2, <3>4, <3>5, <3>8, <3>9
  <2> QED BY <2>3, <2>4
<1> HIDE DEF clean
<1>7. (acc.at = Reached(runs, off, n, i) /\ acc.out = Bytes(B, off, acc.at - off)) /\ clean
      => (new.at = Reached(runs, off, n, i + 1) /\ new.out = Bytes(B, off, new.at - off))
  BY <1>2, <1>6 DEF at
<1> QED BY <1>5, <1>7, Zenon DEF WalkStepIs, clean, new, l

LEMMA ReadFacts ==
    ASSUME ByteTypes, NEW v, IsVolume(v),
           NEW runs \in Seq(RunType), NEW found, NEW mft \in BOOLEAN,
           NEW off \in Nat, NEW n \in Nat, NEW B \in [Nat -> Int]
    PROVE  ReadIs(v, runs, found, off, n, mft, B)
<1>1. CASE n = 0
  <2>1. ReadViaRuns(v, runs, found, off, n, mft) = << >>  BY <1>1 DEF ReadViaRuns
  <2>2. Bytes(B, off, n) = << >>  BY <1>1, BytesEmpty
  <2>3. << >> \in Seq(Int) /\ Len(<< >>) = n  BY <1>1, EmptySeq
  <2> QED BY <2>1, <2>2, <2>3 DEF ReadIs
<1>2. CASE n # 0
  <2> DEFINE N == Len(runs)
             zero == [at |-> off, out |-> << >>]
             Go(acc, i) == WalkStep(v, runs, found, n, mft, i, acc)
             g == [i \in 1..N |-> [acc \in Walked |-> Go(acc, i)]]
             Eq(z) == z = [i \in 0..N |-> IF i = 0 THEN zero ELSE Go(z[i - 1], i)]
             clean == \A c \in Touched(off, n) : StreamFinds(v, runs, found, mft, B, c)
  <2>0. N \in Nat /\ n \in Nat \ {0} /\ ClusterSize \in Nat \ {0}
    BY <1>2, RunTypes, ClusterAssumption
  <2>1. ASSUME NEW i \in 1..N, NEW acc \in Walked
        PROVE  WalkStepIs(v, runs, found, off, n, mft, i, acc, B)
    BY <2>0, WalkStepFacts
  <2>2. g \in [1..N -> [Walked -> Walked]]
    <3>1. \A i \in 1..N : \A acc \in Walked : Go(acc, i) \in Walked
      BY <2>1 DEF WalkStepIs
    <3> HIDE DEF Go
    <3> QED BY <3>1
  <2>3. zero \in Walked  BY EmptySeq DEF Walked
  <2>4. PICK f : Steps(f, N, Walked, zero, g)
    <3> HIDE DEF g, zero, N
    <3> QED BY <2>0, <2>2, <2>3, Recursion
  <2>5. f \in [0..N -> Walked] /\ f = [i \in 0..N |-> f[i]] /\ f[0] = zero
    <3> HIDE DEF g, zero
    <3> QED BY <2>0, <2>4 DEF Steps
  <2>6. ASSUME NEW i \in 1..N PROVE f[i] = Go(f[i - 1], i) /\ f[i - 1] \in Walked
    <3>1. g[i] = [acc \in Walked |-> Go(acc, i)]  OBVIOUS
    <3> HIDE DEF g, Go, zero
    <3>2. i \in 0..N /\ i # 0 /\ i - 1 \in 0..N  BY <2>0
    <3>3. f[i] = g[i][f[i - 1]]  BY <2>4, <3>2 DEF Steps
    <3>4. f[i - 1] \in Walked  BY <2>5, <3>2
    <3> QED BY <3>1, <3>3, <3>4
  <2> HIDE DEF g
  <2>7. Eq(f)
    <3> HIDE DEF zero, Go
    <3>1. ASSUME NEW i \in 0..N PROVE f[i] = IF i = 0 THEN zero ELSE Go(f[i - 1], i)
      <4>1. CASE i = 0  BY <2>5, <4>1
      <4>2. CASE i # 0
        <5>1. i \in 1..N  BY <4>2
        <5> QED BY <2>6, <4>2, <5>1
      <4> QED BY <4>1, <4>2
    <3> QED BY <2>5, <3>1
  <2> DEFINE w == CHOOSE z : Eq(z)
  <2>8. Eq(w)
    <3> HIDE DEF Eq
    <3> QED BY <2>7
  <2>9. ReadViaRuns(v, runs, found, off, n, mft) = w[N].out \o Zeros(n - Len(w[N].out))
    <3>1. ReadViaRuns(v, runs, found, off, n, mft) =
             IF n <= 0 THEN << >> ELSE w[N].out \o Zeros(n - Len(w[N].out))
      BY DEF ReadViaRuns, WalkStep
    <3>2. ~ (n <= 0)  BY <2>0
    <3> HIDE DEF w, N
    <3> QED BY <3>1, <3>2
  <2> HIDE DEF w
  <2>10. w[0] = zero /\ \A i \in 1..N : w[i] = Go(w[i - 1], i)
    <3> HIDE DEF zero, Go
    <3>1. \A i \in 0..N : w[i] = IF i = 0 THEN zero ELSE Go(w[i - 1], i)  BY <2>8
    <3> QED BY <2>0, <3>1
  <2> HIDE DEF Eq
  <2> DEFINE Right(k) == /\ w[k].at = Reached(runs, off, n, k + 1)
                         /\ w[k].out = Bytes(B, off, w[k].at - off)
             T == {k \in 0..N : /\ w[k] \in Walked /\ Len(w[k].out) <= n
                                /\ clean => Right(k)}
  <2>11. 0 \in T
    <3>1. w[0].at = off /\ w[0].out = << >>  BY <2>10
    <3>2. w[0] \in Walked /\ Len(w[0].out) <= n  BY <2>0, <2>3, <2>10, <3>1, EmptySeq
    <3>3. Reached(runs, off, n, 0 + 1) = off
      <4>1. Starts(runs)[0 + 1] = 0  BY StartsFacts
      <4>2. Starts(runs)[0 + 1] * ClusterSize = 0  BY <2>0, <4>1
      <4> QED BY <2>0, <4>2 DEF Reached, Larger, Smaller
    <3>4. Bytes(B, off, off - off) = << >>
      <4>1. off - off = 0  OBVIOUS
      <4> QED BY <4>1, BytesEmpty
    <3> QED BY <2>0, <3>1, <3>2, <3>3, <3>4
  <2>12. ASSUME NEW k \in 0..(N - 1), k \in T PROVE k + 1 \in T
    <3>1. k + 1 \in 1..N /\ (k + 1) - 1 = k /\ k + 1 \in 0..N  BY <2>0
    <3>2. w[k + 1] = WalkStep(v, runs, found, n, mft, k + 1, w[k])  BY <2>10, <3>1
    <3>3. w[k] \in Walked /\ Len(w[k].out) <= n /\ (clean => Right(k))  BY <2>12
    <3>4. WalkStepIs(v, runs, found, off, n, mft, k + 1, w[k], B)  BY <2>1, <3>1, <3>3
    <3>5. w[k + 1] \in Walked /\ Len(w[k + 1].out) <= n
      BY <3>2, <3>3, <3>4 DEF WalkStepIs
    <3>6. ASSUME clean PROVE Right(k + 1)
      <4>1. clean => (Right(k) =>
               /\ w[k + 1].at = Reached(runs, off, n, (k + 1) + 1)
               /\ w[k + 1].out = Bytes(B, off, w[k + 1].at - off))
        BY <3>2, <3>4, Zenon DEF WalkStepIs
      <4> HIDE DEF clean
      <4> QED BY <3>3, <3>6, <4>1
    <3> HIDE DEF clean, Right
    <3> QED BY <3>1, <3>5, <3>6
  <2>13. 0..N \subseteq T
    <3> HIDE DEF T, N
    <3> QED BY <2>0, <2>11, <2>12, AllUpTo
  <2>14. w[N] \in Walked /\ Len(w[N].out) <= n /\ (clean => Right(N))
    <3>1. N \in 0..N  BY <2>0
    <3> HIDE DEF clean, Right
    <3> QED BY <2>13, <3>1
  <2> DEFINE all == w[N].out  l == Len(all)
  <2>15. all \in Seq(Int) /\ l \in Nat /\ l <= n /\ n - l \in Nat
    <3>1. all \in Seq(Int)  BY <2>14 DEF Walked
    <3>2. l \in Nat  BY <3>1, LenProperties
    <3> QED BY <2>14, <3>1, <3>2
  <2>16. Zeros(n - l) \in Seq(Int) /\ Len(Zeros(n - l)) = n - l
    <3> DEFINE m == n - l
    <3>1. m \in Int /\ ~ (m < 0)  BY <2>15
    <3> HIDE DEF m
    <3>2. Zeros(m) \in Seq(Int) /\ Len(Zeros(m)) = m  BY <3>1, ZerosFacts
    <3> QED BY <3>2 DEF m
  <2>17. all \o Zeros(n - l) \in Seq(Int) /\ Len(all \o Zeros(n - l)) = n
    <3> HIDE DEF all
    <3>1. /\ all \o Zeros(n - l) \in Seq(Int)
          /\ Len(all \o Zeros(n - l)) = l + Len(Zeros(n - l))
      BY <2>15, <2>16, ConcatProperties
    <3> HIDE DEF l
    <3> QED BY <2>15, <2>16, <3>1
  <2>18. ASSUME clean PROVE all \o Zeros(n - l) = Bytes(B, off, n)
    <3> DEFINE e == ClustersOf(runs) * ClusterSize  at == w[N].at
    <3>1. at = Larger(off, Smaller(off + n, e)) /\ all = Bytes(B, off, at - off)
      <4>1. Right(N)  BY <2>14, <2>18
      <4> QED BY <4>1 DEF Reached, ClustersOf
    <3>2. ClustersOf(runs) \in Nat
      <4>1. N + 1 \in 1..(N + 1)  BY <2>0
      <4> QED BY <4>1, StartsFacts DEF ClustersOf
    <3>3. e \in Nat  BY <2>0, <3>2
    <3> HIDE DEF e, at, all
    <3>4. at \in Nat /\ off <= at /\ at <= off + n /\ (at = off + n \/ e <= at)
      BY <3>1, <3>3 DEF Larger, Smaller
    <3>5. l = at - off /\ at - off \in Nat
      <4>1. at - off \in Nat  BY <3>4
      <4> QED BY <3>1, <4>1, BytesType
    <3>6. \A x \in at..(at + (n - l) - 1) : B[x] = Zero
      <4> SUFFICES ASSUME NEW x \in at..(at + (n - l) - 1) PROVE B[x] = Zero  OBVIOUS
      <4>1. x \in Nat /\ at <= x /\ x <= off + n - 1 /\ off <= x
        BY <3>4, <3>5
      <4>2. e <= x  BY <3>3, <3>4, <4>1
      <4> DEFINE c == x \div ClusterSize
      <4>3. c \in Touched(off, n) /\ c \in Nat
        <5>1. x \in off..(off + n - 1)  BY <4>1
        <5> QED BY <5>1, TouchedBy
      <4>4. c >= ClustersOf(runs)
        <5>1. x < c * ClusterSize + ClusterSize  BY <2>0, <4>1, QuotientBounds, Zenon
        <5> DEFINE E == ClustersOf(runs)
        <5> HIDE DEF c
        <5> SUFFICES ASSUME c + 1 <= E PROVE FALSE  BY <3>2, <4>3
        <5>2. E \in Nat /\ E \in Int /\ c + 1 \in Int /\ ClusterSize \in Nat  BY <2>0, <3>2, <4>3
        <5>3. (c + 1) * ClusterSize <= E * ClusterSize  BY <5>2, TimesMonotone, Zenon
        <5>4. (c + 1) * ClusterSize = c * ClusterSize + ClusterSize  BY <2>0, <4>3
        <5>5. e = E * ClusterSize  BY DEF e
        <5>6. c * ClusterSize \in Nat  BY <2>0, <4>3
        <5> HIDE DEF E
        <5> QED BY <3>3, <4>1, <4>2, <5>1, <5>3, <5>4, <5>5, <5>6, <2>0
      <4>5. StreamFinds(v, runs, found, mft, B, c)  BY <2>18, <4>3
      <4>6. \A y \in Nat : y \div ClusterSize = c => B[y] = Zero
        <5> HIDE DEF c
        <5> QED BY <4>4, <4>5, Zenon DEF StreamFinds
      <4> QED BY <4>1, <4>6, Zenon
    <3> HIDE DEF clean
    <3>7. Zeros(n - l) = Bytes(B, at, n - l)
      <4> DEFINE m == n - l
      <4>1. m \in Nat /\ \A x \in at..(at + m - 1) : B[x] = Zero  BY <2>15, <3>6
      <4> HIDE DEF m
      <4>2. Zeros(m) = Bytes(B, at, m)  BY <3>4, <4>1, ZeroBytes
      <4> QED BY <4>2 DEF m
    <3> DEFINE m == n - l
    <3>8. m \in Nat /\ l \in Nat /\ off + l = at /\ l + m = n  BY <2>15, <3>4, <3>5
    <3>9. all = Bytes(B, off, l) /\ Zeros(m) = Bytes(B, off + l, m)
      BY <3>1, <3>5, <3>7, <3>8
    <3> HIDE DEF l, m
    <3>10. Join(B, off, l, m)  BY <3>8, BytesJoin
    <3>11. all \o Zeros(m) = Bytes(B, off, l + m)  BY <3>9, <3>10, Zenon DEF Join
    <3> QED BY <3>8, <3>11 DEF m
  <2> HIDE DEF clean
  <2>19. /\ ReadViaRuns(v, runs, found, off, n, mft) \in Seq(Int)
         /\ Len(ReadViaRuns(v, runs, found, off, n, mft)) = n
         /\ clean => ReadViaRuns(v, runs, found, off, n, mft) = Bytes(B, off, n)
    BY <2>9, <2>17, <2>18
  <2> QED BY <2>19, Zenon DEF ReadIs, clean
<1> QED BY <1>1, <1>2

-----------------------------------------------------------------------------
(* What is kept is found. *)

LEMMA OriginalType ==
    ASSUME ByteTypes, NEW v, IsVolume(v), NEW lcn, NEW i \in Int
    PROVE  OriginalByte(v, lcn, i) \in Int
<1>0. ClusterSize \in Int /\ Len(v.origin) \in Nat  BY ClusterAssumption, LenProperties DEF IsVolume
<1>1. CASE lcn # Hole /\ Stored(v, lcn)
  <2> DEFINE p == CHOOSE q \in 1..Len(v.origin) : v.origin[q] = lcn
  <2>1. p \in 1..Len(v.origin)  BY <1>1 DEF Stored
  <2> HIDE DEF p
  <2>2. p - 1 \in Int  BY <1>0, <2>1
  <2>3. (p - 1) * ClusterSize + i \in Int  BY <1>0, <2>2
  <2>4. Image((p - 1) * ClusterSize + i) \in Int  BY <2>3 DEF ByteTypes
  <2>5. PlaceOf(v, lcn) = p - 1  BY DEF PlaceOf, p
  <2> QED BY <1>1, <2>4, <2>5 DEF OriginalByte
<1>2. CASE ~ (lcn # Hole /\ Stored(v, lcn))  BY <1>2 DEF OriginalByte, ByteTypes
<1> QED BY <1>1, <1>2

LEMMA PlaceFacts ==
    ASSUME NEW v, IsVolume(v), NEW lcn, Stored(v, lcn)
    PROVE  PlaceOf(v, lcn) \in Nat /\ PlaceOf(v, lcn) < Len(v.origin)
<1> DEFINE p == CHOOSE q \in 1..Len(v.origin) : v.origin[q] = lcn
<1>1. p \in 1..Len(v.origin) /\ v.origin[p] = lcn  BY DEF Stored
<1>2. PlaceOf(v, lcn) = p - 1  BY DEF PlaceOf
<1> HIDE DEF p
<1>3. Len(v.origin) \in Nat  BY LenProperties DEF IsVolume
<1> QED BY <1>1, <1>2, <1>3

(* B has the cluster lcn of the original disk at cluster c. *)
Shows(v, lcn, B, c) ==
    \A x \in Nat : x \div ClusterSize = c => B[x] = OriginalByte(v, lcn, x % ClusterSize)

LEMMA SoundPlace ==
    ASSUME NEW v, IsVolume(v), NEW lcn, Sound(v, lcn), NEW B, NEW c,
           Shows(v, lcn, B, c)
    PROVE  Finds(v, TruePlace(v, lcn), B, c)
<1>1. CASE lcn = Hole \/ ~ Stored(v, lcn)
  <2>1. TruePlace(v, lcn) = -1  BY <1>1 DEF TruePlace, Nowhere
  <2>2. \A x \in Nat : x \div ClusterSize = c => B[x] = Zero
    BY <1>1, Zenon DEF Shows, OriginalByte
  <2>3. Finds(v, -1, B, c)
    <3>1. -1 < 0 /\ ~ (-1 >= 0)  OBVIOUS
    <3> QED BY <2>2, <3>1 DEF Finds
  <2> QED BY <2>1, <2>3
<1>2. CASE lcn # Hole /\ Stored(v, lcn)
  <2> DEFINE p == PlaceOf(v, lcn)
  <2>1. TruePlace(v, lcn) = p  BY <1>2 DEF TruePlace
  <2>2. p \in Nat /\ p < Len(v.origin)  BY <1>2, PlaceFacts
  <2>3. p \notin v.lost  BY <1>2 DEF Sound
  <2>4. \A x \in Nat : x \div ClusterSize = c => B[x] = Image(p * ClusterSize + (x % ClusterSize))
    BY <1>2, Zenon DEF Shows, OriginalByte
  <2> HIDE DEF p
  <2>5. ~ (p < 0)  BY <2>2
  <2>6. Finds(v, p, B, c)
    <3>1. \A x \in Nat : x \div ClusterSize = c =>
             B[x] = IF p < 0 THEN Zero ELSE Image(p * ClusterSize + (x % ClusterSize))
      BY <2>4, <2>5, Zenon
    <3> QED BY <2>2, <2>3, <3>1, Zenon DEF Finds
  <2> QED BY <2>1, <2>6
<1> QED BY <1>1, <1>2

LEMMA KeptPlaced ==
    ASSUME NEW v, NEW lcn \in Nat, Kept(v, lcn)
    PROVE  Placed(v, v.map # << >>, lcn) = TruePlace(v, lcn)
BY ClusterAssumption DEF Kept

(* The bytes of a stream. *)
StreamOf(v, runs) == [x \in Nat |-> StreamByte(v, runs, x)]

LEMMA StreamType ==
    ASSUME ByteTypes, NEW v, IsVolume(v), NEW runs
    PROVE  /\ StreamOf(v, runs) \in [Nat -> Int]
           /\ \A c \in Nat : Shows(v, LcnOf(runs, c), StreamOf(v, runs), c)
<1>1. ASSUME NEW x \in Nat PROVE StreamByte(v, runs, x) \in Int
  <2>1. x % ClusterSize \in Int  BY ClusterAssumption
  <2> QED BY <2>1, OriginalType DEF StreamByte
<1>2. ASSUME NEW c \in Nat, NEW x \in Nat, x \div ClusterSize = c
      PROVE  StreamOf(v, runs)[x] = OriginalByte(v, LcnOf(runs, c), x % ClusterSize)
  BY <1>2 DEF StreamOf, StreamByte
<1> QED BY <1>1, <1>2 DEF StreamOf, Shows

LEMMA InRuns ==
    ASSUME NEW runs \in Seq(RunType), NEW i \in 1..Len(runs), NEW c \in Nat,
           c < Starts(runs)[i + 1]
    PROVE  c < ClustersOf(runs)
<1>0. Len(runs) \in Nat /\ Starts(runs) \in [1..(Len(runs) + 1) -> Nat]
  BY RunTypes, StartsFacts
<1>1. /\ i + 1 \in 1..(Len(runs) + 1) /\ Len(runs) + 1 \in 1..(Len(runs) + 1)
      /\ i + 1 <= Len(runs) + 1
  BY <1>0
<1>2. Starts(runs)[i + 1] <= Starts(runs)[Len(runs) + 1]  BY <1>1, StartsSorted
<1>3. Starts(runs)[i + 1] \in Nat /\ Starts(runs)[Len(runs) + 1] \in Nat  BY <1>0, <1>1
<1> QED BY <1>2, <1>3 DEF ClustersOf

LEMMA ZeroPast ==
    ASSUME ByteTypes, NEW v, IsVolume(v), NEW runs \in Seq(RunType), NEW c \in Nat,
           c >= ClustersOf(runs), NEW x \in Nat, x \div ClusterSize = c
    PROVE  StreamOf(v, runs)[x] = Zero
<1>1. LcnOf(runs, c) = Hole  BY LcnPast
<1>2. StreamOf(v, runs)[x] = StreamByte(v, runs, x)  BY DEF StreamOf
<1>3. StreamByte(v, runs, x) = OriginalByte(v, Hole, x % ClusterSize)
  BY <1>1, Zenon DEF StreamByte
<1> QED BY <1>2, <1>3, Zenon DEF OriginalByte

LEMMA StreamKept ==
    ASSUME ByteTypes, NEW v, IsVolume(v), NEW runs \in Seq(RunType),
           Straight(v, runs, {}, FALSE), NEW c \in Nat, Kept(v, LcnOf(runs, c))
    PROVE  StreamFinds(v, runs, {}, FALSE, StreamOf(v, runs), c)
<1> DEFINE B == StreamOf(v, runs)  lcn == LcnOf(runs, c)
<1>1. Shows(v, lcn, B, c)  BY StreamType
<1> HIDE DEF B
<1>2. Finds(v, TruePlace(v, lcn), B, c)
  <2>1. Sound(v, lcn)  BY Zenon DEF Kept
  <2> HIDE DEF lcn
  <2> QED BY <1>1, <2>1, SoundPlace
<1>3. ASSUME NEW i \in 1..Len(runs), Starts(runs)[i] <= c, c < Starts(runs)[i + 1]
      PROVE  Where(v, runs[i], c - Starts(runs)[i], i \in {}, FALSE) = TruePlace(v, lcn)
  <2>0. /\ runs[i].lcn \in Nat \cup {Hole} /\ Starts(runs)[i] \in Nat /\ Hole \notin Nat
    <3>1. i \in 1..(Len(runs) + 1)  BY RunTypes
    <3> QED BY <3>1, RunTypes, StartsFacts, ClusterAssumption
  <2>1. lcn = IF runs[i].lcn = Hole THEN Hole ELSE runs[i].lcn + c - Starts(runs)[i]
    BY <1>3, LcnUnder
  <2>2. CASE runs[i].lcn = Hole  BY <2>1, <2>2 DEF Where, TruePlace
  <2>3. CASE runs[i].lcn # Hole
    <3>1. lcn \in Nat /\ runs[i].lcn + (c - Starts(runs)[i]) = lcn
      BY <1>3, <2>0, <2>1, <2>3
    <3> HIDE DEF lcn
    <3>2. Placed(v, v.map # << >>, lcn) = TruePlace(v, lcn)  BY <3>1, KeptPlaced DEF lcn
    <3>3. (v.map # << >> /\ ~ FALSE) = (v.map # << >>)  OBVIOUS
    <3>4. Where(v, runs[i], c - Starts(runs)[i], i \in {}, FALSE)
             = Placed(v, v.map # << >> /\ ~ FALSE, lcn)
      BY <2>3, <3>1 DEF Where
    <3> QED BY <3>2, <3>3, <3>4
  <2> QED BY <2>2, <2>3
<1>4. c >= ClustersOf(runs) => \A x \in Nat : x \div ClusterSize = c => B[x] = Zero
  BY ZeroPast DEF B
<1> HIDE DEF lcn
<1> QED BY <1>2, <1>3, <1>4, Zenon DEF StreamFinds, B

LEMMA MftFound ==
    ASSUME ByteTypes, NEW v, IsVolume(v), NEW runs \in Seq(RunType),
           BootstrapMft(v, runs).runs \in Seq(RunType),
           Straight(v, BootstrapMft(v, runs).runs, BootstrapMft(v, runs).found, TRUE),
           NEW c \in Nat, MftKept(v, runs, c)
    PROVE  LET m == BootstrapMft(v, runs)
           IN StreamFinds(v, m.runs, m.found, TRUE, StreamOf(v, runs), c)
<1> DEFINE B == StreamOf(v, runs)  lcn == LcnOf(runs, c)  m == BootstrapMft(v, runs)
           s == Starts(m.runs)  N == Len(m.runs)
           Has(j) == s[j] <= c /\ c < s[j + 1]
           l == LcnOf(m.runs, c)
<1>1. Shows(v, lcn, B, c)  BY StreamType
<1> HIDE DEF B
<1>2. /\ Sound(v, lcn) /\ MftPlaced(v, m, c) = TruePlace(v, lcn)
      /\ m.runs \in Seq(RunType) /\ Straight(v, m.runs, m.found, TRUE)
  BY Zenon DEF MftKept
<1>3. Finds(v, TruePlace(v, lcn), B, c)
  <2> HIDE DEF lcn
  <2> QED BY <1>1, <1>2, SoundPlace
<1> HIDE DEF m
<1>4. MftPlaced(v, m, c) =
        LET i == CHOOSE j \in 1..N : Has(j)
        IN IF (\A j \in 1..N : ~ Has(j)) \/ m.runs[i].lcn = Hole THEN Nowhere
           ELSE IF i \in m.found THEN l ELSE Placed(v, FALSE, l)
  BY Zenon DEF MftPlaced
<1>5. ASSUME NEW i \in 1..N, s[i] <= c, c < s[i + 1]
      PROVE  Where(v, m.runs[i], c - s[i], i \in m.found, TRUE) = TruePlace(v, lcn)
  <2>0. /\ m.runs[i].lcn \in Nat \cup {Hole} /\ s[i] \in Nat /\ Hole \notin Nat
    <3>1. i \in 1..(N + 1)  BY <1>2, RunTypes
    <3> QED BY <1>2, <3>1, RunTypes, StartsFacts, ClusterAssumption
  <2>1. /\ (CHOOSE j \in 1..N : Has(j)) = i
        /\ l = IF m.runs[i].lcn = Hole THEN Hole ELSE m.runs[i].lcn + c - s[i]
    BY <1>2, <1>5, LcnUnder
  <2>2. Has(i)  BY <1>5
  <2> HIDE DEF Has, l
  <2>3. MftPlaced(v, m, c) = IF m.runs[i].lcn = Hole THEN Nowhere
                             ELSE IF i \in m.found THEN l ELSE Placed(v, FALSE, l)
    BY <1>4, <2>1, <2>2, Zenon
  <2>4. CASE m.runs[i].lcn = Hole  BY <1>2, <2>3, <2>4 DEF Where
  <2>5. CASE m.runs[i].lcn # Hole
    <3>1. l = m.runs[i].lcn + (c - s[i])  BY <2>0, <2>1, <2>5
    <3>2. (v.map # << >> /\ ~ TRUE) = FALSE  OBVIOUS
    <3>3. Where(v, m.runs[i], c - s[i], i \in m.found, TRUE)
             = IF i \in m.found THEN l ELSE Placed(v, FALSE, l)
      BY <2>5, <3>1, <3>2 DEF Where
    <3> QED BY <1>2, <2>3, <2>5, <3>3
  <2> QED BY <2>4, <2>5
<1>6. ASSUME c >= ClustersOf(m.runs), NEW x \in Nat, x \div ClusterSize = c
      PROVE  B[x] = Zero
  <2>1. \A j \in 1..N : ~ Has(j)
    <3> SUFFICES ASSUME NEW j \in 1..N, Has(j) PROVE FALSE  OBVIOUS
    <3>1. c < ClustersOf(m.runs)  BY <1>2, InRuns
    <3>2. ClustersOf(m.runs) \in Nat
      <4>1. N + 1 \in 1..(N + 1)  BY <1>2, RunTypes
      <4> QED BY <1>2, <4>1, StartsFacts DEF ClustersOf
    <3> QED BY <1>6, <3>1, <3>2
  <2> HIDE DEF Has, lcn
  <2>2. TruePlace(v, lcn) = -1  BY <1>2, <1>4, <2>1 DEF Nowhere
  <2>3. Finds(v, -1, B, c)  BY <1>3, <2>2
  <2>4. B[x] = IF -1 < 0 THEN Zero ELSE Image((-1) * ClusterSize + (x % ClusterSize))
    BY <1>6, <2>3, Zenon DEF Finds
  <2> QED BY <2>4
<1> HIDE DEF lcn
<1>7. StreamFinds(v, m.runs, m.found, TRUE, B, c)
  BY <1>2, <1>3, <1>5, <1>6, Zenon DEF StreamFinds
<1> QED BY <1>7, Zenon DEF B, m

-----------------------------------------------------------------------------
(* A read of what is kept of a file has the file's bytes. *)

AllKept(v, runs, S) ==
    Straight(v, runs, {}, FALSE) /\ \A c \in S : Kept(v, LcnOf(runs, c))

AllMftKept(v, runs, S) ==
    LET m == BootstrapMft(v, runs)
    IN Straight(v, m.runs, m.found, TRUE) /\ \A c \in S : MftKept(v, runs, c)

StreamReadIs(v, runs, s, off, n) ==
    /\ s \in Seq(Int) /\ Len(s) = n
    /\ AllKept(v, runs, Touched(off, n)) => s = Bytes(StreamOf(v, runs), off, n)

MftReadIs(v, runs, s, off, n) ==
    /\ s \in Seq(Int) /\ Len(s) = n
    /\ AllMftKept(v, runs, Touched(off, n)) => s = Bytes(StreamOf(v, runs), off, n)

LEMMA TouchedType ==
    ASSUME NEW off \in Nat, NEW n \in Nat
    PROVE  Touched(off, n) \subseteq Nat
<1> SUFFICES ASSUME NEW c \in Touched(off, n) PROVE c \in Nat  OBVIOUS
<1> HIDE DEF Touched
<1>1. off \div ClusterSize \in Nat  BY ClusterAssumption, QuotientBounds
<1>2. off + n - 1 \in Int /\ ClusterSize \in Nat \ {0}  BY ClusterAssumption
<1>3. (off + n - 1) \div ClusterSize \in Int  BY <1>2, Division
<1> QED BY <1>1, <1>3 DEF Touched

LEMMA StreamRead ==
    ASSUME ByteTypes, NEW v, IsVolume(v), NEW runs \in Seq(RunType),
           NEW off \in Nat, NEW n \in Nat
    PROVE  StreamReadIs(v, runs, ReadViaRuns(v, runs, {}, off, n, FALSE), off, n)
<1>1. StreamOf(v, runs) \in [Nat -> Int]  BY StreamType
<1>2. ReadIs(v, runs, {}, off, n, FALSE, StreamOf(v, runs))  BY <1>1, ReadFacts
<1>3. ASSUME AllKept(v, runs, Touched(off, n))
      PROVE  \A c \in Touched(off, n) : StreamFinds(v, runs, {}, FALSE, StreamOf(v, runs), c)
  BY <1>3, TouchedType, StreamKept DEF AllKept
<1> QED BY <1>2, <1>3, Zenon DEF ReadIs, StreamReadIs

LEMMA MftRead ==
    ASSUME ByteTypes, NEW v, IsVolume(v), NEW runs \in Seq(RunType),
           BootstrapMft(v, runs).runs \in Seq(RunType), NEW off \in Nat, NEW n \in Nat
    PROVE  LET m == BootstrapMft(v, runs)
           IN MftReadIs(v, runs, ReadViaRuns(v, m.runs, m.found, off, n, TRUE), off, n)
<1> DEFINE m == BootstrapMft(v, runs)
<1>1. StreamOf(v, runs) \in [Nat -> Int]  BY StreamType
<1>2. m.runs \in Seq(RunType)  OBVIOUS
<1>3. ASSUME AllMftKept(v, runs, Touched(off, n)), NEW c \in Touched(off, n)
      PROVE  StreamFinds(v, m.runs, m.found, TRUE, StreamOf(v, runs), c)
  <2>1. c \in Nat  BY TouchedType
  <2>2. Straight(v, m.runs, m.found, TRUE) /\ MftKept(v, runs, c)
    BY <1>3, Zenon DEF AllMftKept
  <2> QED BY <2>1, <2>2, MftFound
<1> HIDE DEF m
<1>4. ReadIs(v, m.runs, m.found, off, n, TRUE, StreamOf(v, runs))
  BY <1>1, <1>2, ReadFacts
<1> QED BY <1>3, <1>4, Zenon DEF ReadIs, MftReadIs, m

(* k clusters from lcn on, read as one. *)
ClustersAt(v, lcn) ==
    [x \in Nat |-> OriginalByte(v, lcn + (x \div ClusterSize), x % ClusterSize)]

ReadClustersIs(v, lcn, k) ==
    LET s == ReadClusters(v, lcn, k) IN
    /\ s \in Seq(Int)
    /\ (\A c \in 0..(k - 1) : Kept(v, lcn + c))
          => s = Bytes(ClustersAt(v, lcn), 0, k * ClusterSize)

LEMMA ReadClustersFacts ==
    ASSUME ByteTypes, NEW v, IsVolume(v), NEW lcn \in Nat, NEW k \in Nat \ {0}
    PROVE  ReadClustersIs(v, lcn, k)
<1> DEFINE R == ClustersAt(v, lcn)  n == k * ClusterSize
<1>0. ClusterSize \in Nat \ {0} /\ ClusterSize \in Nat /\ Hole \notin Nat  BY ClusterAssumption
<1>1. R \in [Nat -> Int]
  <2> SUFFICES ASSUME NEW x \in Nat
               PROVE  OriginalByte(v, lcn + (x \div ClusterSize), x % ClusterSize) \in Int
    BY DEF ClustersAt
  <2>1. x % ClusterSize \in Int  BY <1>0
  <2> QED BY <2>1, OriginalType
<1>2. n \in Nat \ {0}
  <2>1. 1 * ClusterSize <= k * ClusterSize  BY <1>0, TimesMonotone
  <2> QED BY <1>0, <2>1
<1>3. Touched(0, n) = 0..(k - 1)
  <2>1. 0 \div ClusterSize = 0  BY <1>0
  <2>2. n - 1 \in Int /\ (k - 1) * ClusterSize = n - ClusterSize  BY <1>0, <1>2
  <2> HIDE DEF n
  <2>3. k - 1 \in Int /\ (k - 1) * ClusterSize <= n - 1 /\ n - 1 < (k - 1) * ClusterSize + ClusterSize
    BY <1>0, <1>2, <2>2
  <2>4. (n - 1) \div ClusterSize = k - 1  BY <1>0, <2>2, <2>3, QuotientIs, Zenon
  <2>5. 0 + n - 1 = n - 1  BY <1>2
  <2> QED BY <2>1, <2>4, <2>5 DEF Touched
<1>4. ASSUME \A c \in 0..(k - 1) : Kept(v, lcn + c), NEW c \in 0..(k - 1)
      PROVE  Finds(v, Placed(v, v.map # << >>, lcn + c), R, c)
  <2>1. Kept(v, lcn + c) /\ lcn + c \in Nat  BY <1>4
  <2>2. Placed(v, v.map # << >>, lcn + c) = TruePlace(v, lcn + c)  BY <2>1, KeptPlaced
  <2>3. Shows(v, lcn + c, R, c)  BY DEF Shows, ClustersAt
  <2> HIDE DEF R
  <2>4. Sound(v, lcn + c)  BY <2>1, Zenon DEF Kept
  <2>5. Finds(v, TruePlace(v, lcn + c), R, c)  BY <2>3, <2>4, SoundPlace
  <2> QED BY <2>2, <2>5, Zenon
<1> HIDE DEF R
<1>5. CASE v.map = << >> /\ v.shift = 0
  <2>1. DirectIs(v, lcn, 0, n, R)  BY <1>1, <1>2, DirectFacts
  <2>2. ReadClusters(v, lcn, k) = DiskRead(v, lcn * ClusterSize + 0, n)
    <3>1. lcn * ClusterSize + 0 = lcn * ClusterSize  BY <1>0
    <3> QED BY <1>5, <3>1 DEF ReadClusters
  <2>3. ASSUME \A c \in 0..(k - 1) : Kept(v, lcn + c), NEW c \in 0..(k - 1)
        PROVE  lcn + c >= 0 /\ Finds(v, lcn + c, R, c)
    <3> DEFINE l == lcn + c
    <3>1. l \in Nat /\ l >= 0  OBVIOUS
    <3>2. v.bpb \in Nat /\ v.shift = 0  BY <1>5 DEF IsVolume
    <3>3. (v.map # << >>) = FALSE  BY <1>5
    <3>4. Finds(v, Placed(v, FALSE, l), R, c)  BY <1>4, <2>3, <3>3, Zenon
    <3> HIDE DEF l
    <3>5. Placed(v, FALSE, l) = l
      <4> DEFINE b == v.bpb
      <4>1. b \in Nat /\ b + 0 = b /\ l + 0 = l  BY <3>1, <3>2
      <4>2. Placed(v, FALSE, l) = IF l >= b THEN l + 0 ELSE IF l >= b + 0 THEN Nowhere ELSE l
        BY <3>2, Zenon DEF Placed
      <4> HIDE DEF b
      <4> QED BY <3>1, <4>1, <4>2
    <3>6. l >= 0 /\ Finds(v, l, R, c)  BY <3>1, <3>4, <3>5, Zenon
    <3> QED BY <3>6 DEF l
  <2> HIDE DEF n
  <2> QED BY <1>3, <2>1, <2>2, <2>3, Zenon DEF DirectIs, ReadClustersIs, R, n
<1>6. CASE ~ (v.map = << >> /\ v.shift = 0)
  <2> DEFINE mapped == v.map # << >>
  <2>1. mapped \in BOOLEAN /\ (mapped => v.map # << >>)  OBVIOUS
  <2>2. ReadClusters(v, lcn, k) = ByCluster(v, mapped, lcn, 0, n)  BY <1>6 DEF ReadClusters
  <2>3. ASSUME \A c \in 0..(k - 1) : Kept(v, lcn + c)
        PROVE  \A c \in 0..(k - 1) : Finds(v, Placed(v, mapped, lcn + c), R, c)
    BY <1>4, <2>3
  <2> HIDE DEF mapped
  <2>4. ByClusterIs(v, mapped, lcn, 0, n, R)  BY <1>1, <1>2, <2>1, ByClusterFacts
  <2> QED BY <1>3, <2>2, <2>3, <2>4, Zenon DEF ByClusterIs, ReadClustersIs, R, n
<1> QED BY <1>5, <1>6

-----------------------------------------------------------------------------
(* Sequences put end to end: g[i] is what the first i of them make. *)

Laid(t, g) == /\ t \in Seq(Seq(Int)) /\ g \in [0..Len(t) -> Seq(Int)] /\ g[0] = << >>
              /\ \A i \in 1..Len(t) : g[i] = g[i - 1] \o t[i]

LEMMA LaidOut ==
    ASSUME NEW t \in Seq(Seq(Int))
    PROVE  \E g : Laid(t, g) /\ FlattenSeq(t) = g[Len(t)]
<1>1. PICK g \in [0..Len(t) -> Seq(Int)] :
         /\ g[0] = << >> /\ \A i \in 1..Len(t) : g[i] = g[i - 1] \o t[i]
         /\ FlattenSeq(t) = g[Len(t)]
  BY Flattened
<1>2. Laid(t, g)  BY <1>1 DEF Laid
<1> QED BY <1>1, <1>2

LEMMA Associative ==
    ASSUME NEW x \in Seq(Int), NEW y \in Seq(Int), NEW z \in Seq(Int)
    PROVE  (x \o y) \o z = x \o (y \o z)
  BY ConcatAssociative

(* What adds nothing. *)
LEMMA EmptyStretch ==
    ASSUME NEW t, NEW g, Laid(t, g), NEW a \in Nat, NEW b \in Nat, a <= b, b <= Len(t),
           \A j \in (a + 1)..b : t[j] = << >>
    PROVE  g[b] = g[a]
<1> DEFINE S == {k \in 0..(b - a) : g[a + k] = g[a]}  n == b - a
<1>0. Len(t) \in Nat  BY LenProperties DEF Laid
<1>1. n \in Nat  OBVIOUS
<1>2. 0 \in S  BY <1>1
<1>3. ASSUME NEW k \in 0..(n - 1), k \in S PROVE k + 1 \in S
  <2> DEFINE i == a + (k + 1)
  <2>1. i \in 1..Len(t) /\ i \in (a + 1)..b /\ i - 1 = a + k /\ a + k \in 0..Len(t)
    BY <1>0, <1>1
  <2>2. g[a + k] = g[a]  BY <1>3
  <2>3. k + 1 \in 0..(b - a)  BY <1>1
  <2> HIDE DEF i
  <2>4. g[i] = g[i - 1] \o t[i] /\ t[i] = << >> /\ g[i - 1] \in Seq(Int)
    BY <2>1 DEF Laid
  <2>5. g[i - 1] \o << >> = g[i - 1]  BY <2>4, ConcatEmptySeq
  <2> QED BY <2>1, <2>2, <2>3, <2>4, <2>5 DEF i
<1> HIDE DEF S
<1>4. 0..n \subseteq S  BY <1>1, <1>2, <1>3, AllUpTo
<1>5. n \in S /\ a + n = b  BY <1>1, <1>4
<1> QED BY <1>5 DEF S

(* A cluster of the original disk. *)
LEMMA ClusterOf ==
    ASSUME ByteTypes, NEW v, IsVolume(v), NEW l \in Nat, NEW k \in Nat
    PROVE  /\ ClustersAt(v, l) \in [Nat -> Int]
           /\ ClusterBytes(v, l + k) = Bytes(ClustersAt(v, l), k * ClusterSize, ClusterSize)
<1> DEFINE R == ClustersAt(v, l)
<1>0. ClusterSize \in Nat \ {0}  BY ClusterAssumption
<1>1. R \in [Nat -> Int]
  <2> SUFFICES ASSUME NEW x \in Nat
               PROVE  OriginalByte(v, l + (x \div ClusterSize), x % ClusterSize) \in Int
    BY DEF ClustersAt
  <2>1. x % ClusterSize \in Int  BY <1>0
  <2> QED BY <2>1, OriginalType
<1>2. ASSUME NEW i \in 1..ClusterSize
      PROVE  R[k * ClusterSize + i - 1] = OriginalByte(v, l + k, i - 1)
  <2> DEFINE x == k * ClusterSize + i - 1
  <2>1. x \in Nat /\ x \in Int /\ k \in Int /\ k * ClusterSize <= x
        /\ x < k * ClusterSize + ClusterSize /\ x - k * ClusterSize = i - 1
    BY <1>0
  <2> HIDE DEF x
  <2>2. x \div ClusterSize = k /\ x % ClusterSize = x - k * ClusterSize
    BY <1>0, <2>1, QuotientIs, Zenon
  <2>3. R[x] = OriginalByte(v, l + (x \div ClusterSize), x % ClusterSize)
    BY <2>1 DEF ClustersAt
  <2>4. R[x] = OriginalByte(v, l + k, i - 1)  BY <2>1, <2>2, <2>3, Zenon
  <2> QED BY <2>4 DEF x
<1>3. ClusterBytes(v, l + k) = Bytes(R, k * ClusterSize, ClusterSize)
  <2> HIDE DEF R
  <2> QED BY <1>2 DEF ClusterBytes, Bytes
<1> QED BY <1>1, <1>3

StretchIs(v, l, g, a, b) == g[b] = g[a] \o Bytes(ClustersAt(v, l), 0, (b - a) * ClusterSize)

(* Clusters that follow one another are one piece. *)
LEMMA ClusterStretch ==
    ASSUME ByteTypes, NEW v, IsVolume(v), NEW l \in Nat,
           NEW t, NEW g, Laid(t, g), NEW a \in Nat, NEW b \in Nat, a <= b, b <= Len(t),
           \A j \in (a + 1)..b : t[j] = ClusterBytes(v, l + (j - (a + 1)))
    PROVE  StretchIs(v, l, g, a, b)
<1> DEFINE R == ClustersAt(v, l)  n == b - a
           S == {k \in 0..n : g[a + k] = g[a] \o Bytes(R, 0, k * ClusterSize)}
<1>0. Len(t) \in Nat /\ ClusterSize \in Nat  BY ClusterAssumption, LenProperties DEF Laid
<1>1. n \in Nat /\ g[a] \in Seq(Int)
  <2>1. a \in 0..Len(t) /\ b - a \in Nat  BY <1>0
  <2> QED BY <2>1 DEF Laid
<1>2. 0 \in S
  <2>1. 0 * ClusterSize = 0 /\ a + 0 = a /\ 0 \in 0..n  BY <1>0, <1>1
  <2>2. Bytes(R, 0, 0) = << >>  BY BytesEmpty
  <2>3. g[a] \o << >> = g[a]  BY <1>1, ConcatEmptySeq
  <2> QED BY <2>1, <2>2, <2>3
<1>3. ASSUME NEW k \in 0..(n - 1), k \in S PROVE k + 1 \in S
  <2> DEFINE i == a + (k + 1)  m == k * ClusterSize
  <2>1. i \in 1..Len(t) /\ i \in (a + 1)..b /\ i - 1 = a + k /\ i - (a + 1) = k /\ k \in Nat
    BY <1>0, <1>1
  <2>2. g[a + k] = g[a] \o Bytes(R, 0, m)  BY <1>3
  <2>3. k + 1 \in 0..n  BY <1>1
  <2> HIDE DEF i
  <2>4. g[i] = g[i - 1] \o t[i] /\ t[i] = ClusterBytes(v, l + k)
    BY <2>1 DEF Laid
  <2>5. R \in [Nat -> Int] /\ t[i] = Bytes(R, m, ClusterSize)  BY <2>1, <2>4, ClusterOf
  <2>6. m \in Nat /\ 0 + m = m /\ (k + 1) * ClusterSize = m + ClusterSize  BY <1>0, <2>1
  <2> HIDE DEF m, R
  <2>7. Join(R, 0, m, ClusterSize)  BY <1>0, <2>5, <2>6, BytesJoin
  <2>8. Bytes(R, 0, m) \o Bytes(R, m, ClusterSize) = Bytes(R, 0, m + ClusterSize)
    BY <2>6, <2>7, Zenon DEF Join
  <2>9. Bytes(R, 0, m) \in Seq(Int) /\ Bytes(R, m, ClusterSize) \in Seq(Int)
    BY <1>0, <2>5, <2>6, BytesType
  <2>10. (g[a] \o Bytes(R, 0, m)) \o Bytes(R, m, ClusterSize)
            = g[a] \o (Bytes(R, 0, m) \o Bytes(R, m, ClusterSize))
    <3> DEFINE h == g[a]  p == Bytes(R, 0, m)  q == Bytes(R, m, ClusterSize)
    <3>1. h \in Seq(Int) /\ p \in Seq(Int) /\ q \in Seq(Int)  BY <1>1, <2>9
    <3> HIDE DEF h, p, q
    <3>2. (h \o p) \o q = h \o (p \o q)  BY <3>1, Associative
    <3> QED BY <3>2 DEF h, p, q
  <2>11. g[i] = g[a] \o Bytes(R, 0, (k + 1) * ClusterSize)
    BY <2>1, <2>2, <2>4, <2>5, <2>6, <2>8, <2>10, Zenon
  <2> QED BY <2>3, <2>11 DEF i
<1> HIDE DEF S
<1>4. 0..n \subseteq S  BY <1>1, <1>2, <1>3, AllUpTo
<1>5. n \in S /\ a + n = b  BY <1>1, <1>4
<1> HIDE DEF R, n
<1>6. g[a + n] = g[a] \o Bytes(R, 0, n * ClusterSize)  BY <1>5 DEF S
<1> QED BY <1>5, <1>6, Zenon DEF R, n, StretchIs

-----------------------------------------------------------------------------
(* _decompress_cu: the runs of a unit, as LcnIn lists its clusters. *)

(* How many clusters of the unit are before run i. *)
Cut(f, u, i) == Larger(0, Smaller(f.unit, Starts(f.runs)[i] - u * f.unit))

InsideIs(f, u, i) ==
    LET a == Cut(f, u, i)  b == Cut(f, u, i + 1)  p == Inside(f, u, i)
        lcn == f.runs[i].lcn
    IN /\ a \in 0..f.unit /\ b \in 0..f.unit /\ a <= b
       /\ p.from < p.to <=> a < b
       /\ a < b => /\ p.to - p.from = b - a
                   /\ lcn = Hole => \A j \in (a + 1)..b : LcnIn(f, u, j) = Hole
                   /\ lcn # Hole =>
                         /\ lcn + p.from - Starts(f.runs)[i] \in Nat
                         /\ \A j \in (a + 1)..b :
                               LcnIn(f, u, j)
                                  = lcn + p.from - Starts(f.runs)[i] + (j - (a + 1))

(* The part of x..y in w..(w + n), from w on. *)
Overlaps(x, y, w, n, a, b) ==
    /\ a \in 0..n /\ b \in 0..n /\ a <= b
    /\ Larger(x, w) < Smaller(y, w + n) <=> a < b
    /\ a < b => Larger(x, w) = w + a /\ Smaller(y, w + n) = w + b
                /\ x <= w + a /\ w + b <= y

LEMMA OverlapFacts ==
    ASSUME NEW x \in Nat, NEW y \in Nat, x <= y, NEW w \in Nat, NEW n \in Nat \ {0},
           NEW a, a = Larger(0, Smaller(n, x - w)), NEW b, b = Larger(0, Smaller(n, y - w))
    PROVE  Overlaps(x, y, w, n, a, b)
  BY DEF Larger, Smaller, Overlaps

LEMMA InsideFacts ==
    ASSUME NEW f \in FileType, NEW u \in Nat, NEW i \in 1..Len(f.runs)
    PROVE  InsideIs(f, u, i)
<1> DEFINE x == Starts(f.runs)[i]  y == Starts(f.runs)[i + 1]  w == u * f.unit
           a == Cut(f, u, i)  b == Cut(f, u, i + 1)  p == Inside(f, u, i)
           lcn == f.runs[i].lcn
<1>0. f.runs \in Seq(RunType) /\ f.unit \in Nat \ {0}  BY DEF FileType
<1>1. Len(f.runs) \in Nat /\ f.runs[i].len \in Nat /\ lcn \in Nat \cup {Hole}
  BY <1>0, RunTypes
<1>2. x \in Nat /\ y \in Nat /\ x <= y
  <2>1. i \in 1..(Len(f.runs) + 1) /\ i + 1 \in 1..(Len(f.runs) + 1)  BY <1>1
  <2>2. y = x + f.runs[i].len  BY <1>0, StartsFacts
  <2> HIDE DEF x, y
  <2>3. x \in Nat /\ y \in Nat  BY <1>0, <2>1, StartsFacts DEF x, y
  <2> QED BY <1>1, <2>2, <2>3
<1>3. w \in Nat /\ (u + 1) * f.unit = w + f.unit  BY <1>0
<1>4. p = [from |-> Larger(x, w), to |-> Smaller(y, w + f.unit)]
  BY <1>3, Zenon DEF Inside
<1>5. a = Larger(0, Smaller(f.unit, x - w)) /\ b = Larger(0, Smaller(f.unit, y - w))
  BY DEF Cut
<1> DEFINE n == f.unit
<1>6. n \in Nat \ {0}  BY <1>0
<1>7. ASSUME NEW c \in Nat, x <= c, c < y
      PROVE  LcnOf(f.runs, c) = IF lcn = Hole THEN Hole ELSE lcn + c - x
  BY <1>0, <1>7, LcnUnder
<1>8. \A j : LcnIn(f, u, j) = LcnOf(f.runs, w + j - 1)  BY DEF LcnIn
<1> HIDE DEF x, y, w, a, b, p, n
<1>9. /\ a \in 0..n /\ b \in 0..n /\ a <= b
      /\ p.from < p.to <=> a < b
      /\ a < b => p.from = w + a /\ p.to = w + b /\ x <= w + a /\ w + b <= y
  <2>1. p.from = Larger(x, w) /\ p.to = Smaller(y, w + n)  BY <1>4 DEF n
  <2>2. a = Larger(0, Smaller(n, x - w)) /\ b = Larger(0, Smaller(n, y - w))
    BY <1>5 DEF n
  <2>3. /\ a \in 0..n /\ b \in 0..n /\ a <= b
        /\ Larger(x, w) < Smaller(y, w + n) <=> a < b
        /\ a < b => Larger(x, w) = w + a /\ Smaller(y, w + n) = w + b
                    /\ x <= w + a /\ w + b <= y
    <3>1. Overlaps(x, y, w, n, a, b)  BY <1>2, <1>3, <1>6, <2>2, OverlapFacts, Zenon
    <3> QED BY <3>1, Zenon DEF Overlaps
  <2> QED BY <2>1, <2>3
<1>10. ASSUME a < b, NEW j \in (a + 1)..b
       PROVE  LcnIn(f, u, j) = IF lcn = Hole THEN Hole ELSE lcn + (w + j - 1) - x
  <2>1. w + j - 1 \in Nat /\ x <= w + j - 1 /\ w + j - 1 < y
    BY <1>2, <1>3, <1>6, <1>9, <1>10
  <2> QED BY <1>7, <1>8, <2>1
<1> HIDE DEF lcn
<1>11. a < b =>
          /\ p.to - p.from = b - a
          /\ lcn = Hole => \A j \in (a + 1)..b : LcnIn(f, u, j) = Hole
          /\ lcn # Hole => /\ lcn + p.from - x \in Nat
                           /\ \A j \in (a + 1)..b :
                                 LcnIn(f, u, j) = lcn + p.from - x + (j - (a + 1))
  <2> SUFFICES ASSUME a < b
               PROVE  /\ p.to - p.from = b - a
                      /\ lcn = Hole => \A j \in (a + 1)..b : LcnIn(f, u, j) = Hole
                      /\ lcn # Hole =>
                            /\ lcn + p.from - x \in Nat
                            /\ \A j \in (a + 1)..b :
                                  LcnIn(f, u, j) = lcn + p.from - x + (j - (a + 1))
    OBVIOUS
  <2>1. p.from = w + a /\ p.to = w + b /\ x <= w + a  BY <1>9
  <2>2. p.to - p.from = b - a  BY <1>3, <1>6, <1>9, <2>1
  <2>3. lcn = Hole => \A j \in (a + 1)..b : LcnIn(f, u, j) = Hole  BY <1>10
  <2>4. ASSUME lcn # Hole
        PROVE  /\ lcn + p.from - x \in Nat
               /\ \A j \in (a + 1)..b :
                     LcnIn(f, u, j) = lcn + p.from - x + (j - (a + 1))
    <3>1. lcn \in Nat  BY <1>1, <2>4
    <3>2. lcn + p.from - x \in Nat  BY <1>2, <1>3, <1>6, <1>9, <2>1, <3>1
    <3>3. ASSUME NEW j \in (a + 1)..b
          PROVE  LcnIn(f, u, j) = lcn + p.from - x + (j - (a + 1))
      <4>1. LcnIn(f, u, j) = lcn + (w + j - 1) - x  BY <1>10, <2>4
      <4>2. lcn + (w + j - 1) - x = lcn + (w + a) - x + (j - (a + 1))
        BY <1>2, <1>3, <1>6, <1>9, <3>1
      <4> QED BY <2>1, <4>1, <4>2
    <3> QED BY <3>2, <3>3
  <2> QED BY <2>2, <2>3, <2>4
<1>12. a \in 0..n /\ b \in 0..n /\ a <= b /\ (p.from < p.to <=> a < b)  BY <1>9
<1> QED BY <1>11, <1>12, Zenon DEF InsideIs, a, b, p, lcn, x, n

(* Past the last run there is nothing. *)
LEMMA CutFacts ==
    ASSUME NEW f \in FileType, NEW u \in Nat
    PROVE  /\ Cut(f, u, 1) = 0 /\ Cut(f, u, Len(f.runs) + 1) \in 0..f.unit
           /\ \A j \in (Cut(f, u, Len(f.runs) + 1) + 1)..f.unit : LcnIn(f, u, j) = Hole
<1> DEFINE N == Len(f.runs) + 1  y == Starts(f.runs)[N]  w == u * f.unit
           b == Cut(f, u, N)  n == f.unit
<1>0. f.runs \in Seq(RunType) /\ n \in Nat \ {0}  BY DEF FileType
<1>1. Len(f.runs) \in Nat  BY <1>0, RunTypes
<1>2. N \in 1..(Len(f.runs) + 1)  BY <1>1
<1>3. w \in Nat /\ Starts(f.runs)[1] = 0  BY <1>0, StartsFacts
<1>4. y \in Nat  BY <1>0, <1>2, StartsFacts
<1>5. b = Larger(0, Smaller(n, y - w))  BY DEF Cut
<1>6. Cut(f, u, 1) = Larger(0, Smaller(n, 0 - w))  BY <1>3, Zenon DEF Cut
<1>7. ASSUME NEW c \in Nat, c >= y PROVE LcnOf(f.runs, c) = Hole
  BY <1>0, <1>7, LcnPast DEF ClustersOf
<1>8. \A j : LcnIn(f, u, j) = LcnOf(f.runs, w + j - 1)  BY DEF LcnIn
<1> HIDE DEF y, w, b, n
<1>9. Cut(f, u, 1) = 0  BY <1>0, <1>3, <1>6 DEF Larger, Smaller
<1>10. b \in 0..n  BY <1>0, <1>3, <1>4, <1>5 DEF Larger, Smaller
<1>11. ASSUME NEW j \in (b + 1)..n PROVE LcnIn(f, u, j) = Hole
  <2>1. b < n /\ j \in Nat /\ b < j /\ j <= n  BY <1>0, <1>10
  <2>2. y - w <= b  BY <1>0, <1>3, <1>4, <1>5, <2>1 DEF Larger, Smaller
  <2>3. w + j - 1 \in Nat /\ w + j - 1 >= y  BY <1>0, <1>3, <1>4, <1>10, <2>1, <2>2
  <2> QED BY <1>7, <1>8, <2>3
<1> QED BY <1>9, <1>10, <1>11 DEF b, n

(* What run i adds to Clusters. *)
Added(f, u, sparse, i) ==
    LET p == Inside(f, u, i)
    IN IF p.from < p.to /\ (f.runs[i].lcn = Hole <=> sparse) THEN p.to - p.from ELSE 0

Counted(f, u, sparse, n) ==
    /\ n \in [0..Len(f.runs) -> Nat] /\ n[0] = 0
    /\ \A i \in 1..Len(f.runs) : n[i] = n[i - 1] + Added(f, u, sparse, i)
    /\ Clusters(f, u, sparse) = n[Len(f.runs)]

LEMMA AddedType ==
    ASSUME NEW f \in FileType, NEW u \in Nat, NEW i \in 1..Len(f.runs), NEW sparse
    PROVE  Added(f, u, sparse, i) \in Nat
<1> DEFINE a == Cut(f, u, i)  b == Cut(f, u, i + 1)  p == Inside(f, u, i)
<1>1. InsideIs(f, u, i)  BY InsideFacts
<1>2. f.unit \in Nat  BY DEF FileType
<1>3. a \in 0..f.unit /\ b \in 0..f.unit /\ a <= b /\ (p.from < p.to <=> a < b)
      /\ (a < b => p.to - p.from = b - a)
  BY <1>1, Zenon DEF InsideIs
<1> HIDE DEF a, b, p
<1>4. p.from < p.to => p.to - p.from \in Nat  BY <1>2, <1>3
<1> QED BY <1>4 DEF Added, p

LEMMA ClustersCounted ==
    ASSUME NEW f \in FileType, NEW u \in Nat, NEW sparse
    PROVE  \E n : Counted(f, u, sparse, n)
<1> DEFINE N == Len(f.runs)
           g == [i \in 1..N |-> [x \in Nat |-> x + Added(f, u, sparse, i)]]
           Eq(z) == z = [i \in 0..N |-> IF i = 0 THEN 0 ELSE z[i - 1] + Added(f, u, sparse, i)]
<1>0. N \in Nat /\ \A i \in 1..N : Added(f, u, sparse, i) \in Nat
  <2>1. f.runs \in Seq(RunType)  BY DEF FileType
  <2> QED BY <2>1, RunTypes, AddedType
<1>1. g \in [1..N -> [Nat -> Nat]]  BY <1>0
<1>2. PICK h : Steps(h, N, Nat, 0, g)
  <2> HIDE DEF g, N
  <2> QED BY <1>0, <1>1, Recursion
<1>3. Eq(h)
  <2>1. ASSUME NEW i \in 0..N
        PROVE  h[i] = IF i = 0 THEN 0 ELSE h[i - 1] + Added(f, u, sparse, i)
    <3>1. CASE i = 0
      <4> HIDE DEF g
      <4> QED BY <1>2, <3>1 DEF Steps
    <3>2. CASE i # 0
      <4>1. i \in 1..N /\ i - 1 \in 0..N  BY <1>0, <3>2
      <4>2. g[i] = [x \in Nat |-> x + Added(f, u, sparse, i)]  BY <4>1
      <4> HIDE DEF g
      <4>3. h[i] = g[i][h[i - 1]] /\ h[i - 1] \in Nat  BY <1>2, <3>2, <4>1 DEF Steps
      <4> QED BY <3>2, <4>2, <4>3
    <3> QED BY <3>1, <3>2
  <2> HIDE DEF g
  <2>2. h = [i \in 0..N |-> h[i]]  BY <1>2 DEF Steps
  <2> QED BY <2>1, <2>2
<1> DEFINE c == CHOOSE z : Eq(z)
<1>4. Eq(c)
  <2> HIDE DEF Eq
  <2> QED BY <1>3
<1>5. Clusters(f, u, sparse) = c[N]  BY DEF Clusters, Added
<1> HIDE DEF c, g
<1>6. c[0] = 0 /\ \A i \in 1..N : c[i] = c[i - 1] + Added(f, u, sparse, i)
  <2>1. 0 \in 0..N  BY <1>0
  <2>2. ASSUME NEW i \in 1..N PROVE c[i] = c[i - 1] + Added(f, u, sparse, i)
    <3>1. i \in 0..N /\ i # 0  BY <1>0
    <3> QED BY <1>4, <3>1
  <2> QED BY <1>4, <2>1, <2>2
<1>7. \A i \in 0..N : c[i] \in Nat
  <2> DEFINE T == {k \in 0..N : c[k] \in Nat}
  <2>1. 0 \in T  BY <1>0, <1>6
  <2>2. ASSUME NEW k \in 0..(N - 1), k \in T PROVE k + 1 \in T
    <3>1. k + 1 \in 1..N /\ (k + 1) - 1 = k  BY <1>0
    <3>2. c[k + 1] = c[k] + Added(f, u, sparse, k + 1)  BY <1>6, <3>1
    <3> QED BY <1>0, <2>2, <3>1, <3>2
  <2>3. 0..N \subseteq T
    <3> HIDE DEF T, N, Eq
    <3> QED BY <1>0, <2>1, <2>2, AllUpTo
  <2> QED BY <2>3
<1>8. c \in [0..N -> Nat]
  <2>1. c = [i \in 0..N |-> c[i]]  BY <1>4
  <2> QED BY <1>7, <2>1
<1> QED BY <1>5, <1>6, <1>8 DEF Counted

(* Among the first Cut(f, u, i + 1) clusters of the unit. *)
CountIs(f, u, stored, sparse, i) ==
    LET b == Cut(f, u, i + 1) IN
    /\ stored[i] + sparse[i] = b
    /\ stored[i] = 0 <=> \A j \in 1..b : LcnIn(f, u, j) = Hole
    /\ sparse[i] = 0 <=> \A j \in 1..b : LcnIn(f, u, j) # Hole

LEMMA CountStep ==
    ASSUME NEW f \in FileType, NEW u \in Nat, NEW stored, NEW sparse,
           Counted(f, u, FALSE, stored), Counted(f, u, TRUE, sparse),
           NEW i \in 1..Len(f.runs), CountIs(f, u, stored, sparse, i - 1)
    PROVE  CountIs(f, u, stored, sparse, i)
<1> DEFINE a == Cut(f, u, i)  b == Cut(f, u, i + 1)  p == Inside(f, u, i)
           lcn == f.runs[i].lcn
           L(j) == LcnIn(f, u, j)
           x0 == stored[i - 1]  y0 == sparse[i - 1]  x == stored[i]  y == sparse[i]
<1>0. f.runs \in Seq(RunType) /\ f.unit \in Nat  BY DEF FileType
<1>1. Len(f.runs) \in Nat  BY <1>0, RunTypes
<1>2. i - 1 \in 0..Len(f.runs) /\ i \in 0..Len(f.runs) /\ (i - 1) + 1 = i  BY <1>1
<1>3. x0 \in Nat /\ y0 \in Nat /\ x \in Nat /\ y \in Nat  BY <1>2 DEF Counted
<1>4. /\ x0 + y0 = a
      /\ x0 = 0 <=> \A j \in 1..a : L(j) = Hole
      /\ y0 = 0 <=> \A j \in 1..a : L(j) # Hole
  BY <1>2, Zenon DEF CountIs
<1>5. InsideIs(f, u, i)  BY InsideFacts
<1>6. /\ a \in 0..f.unit /\ b \in 0..f.unit /\ a <= b
      /\ p.from < p.to <=> a < b
      /\ a < b => p.to - p.from = b - a
      /\ a < b /\ lcn = Hole => \A j \in (a + 1)..b : L(j) = Hole
  BY <1>5, Zenon DEF InsideIs
<1>7. a < b /\ lcn # Hole => \A j \in (a + 1)..b : L(j) # Hole
  <2> SUFFICES ASSUME a < b, lcn # Hole, NEW j \in (a + 1)..b PROVE L(j) # Hole
    OBVIOUS
  <2> DEFINE l == lcn + p.from - Starts(f.runs)[i]
  <2>1. l \in Nat /\ L(j) = l + (j - (a + 1))  BY <1>5, Zenon DEF InsideIs
  <2> HIDE DEF l, a
  <2>2. a \in Nat /\ j - (a + 1) \in Nat  BY <1>0, <1>6
  <2>3. L(j) \in Nat  BY <2>1, <2>2
  <2> QED BY <2>3, ClusterAssumption
<1>8. /\ x = x0 + (IF p.from < p.to /\ lcn # Hole THEN p.to - p.from ELSE 0)
      /\ y = y0 + (IF p.from < p.to /\ lcn = Hole THEN p.to - p.from ELSE 0)
  BY DEF Counted, Added
<1> HIDE DEF a, b, p, lcn, x0, y0, x, y, L
<1>9. a \in Nat /\ b \in Nat  BY <1>0, <1>6
<1>10. CASE ~ (a < b)
  <2>1. x = x0 /\ y = y0 /\ a = b  BY <1>3, <1>6, <1>8, <1>9, <1>10
  <2> QED BY <1>4, <2>1, Zenon DEF CountIs, b, x, y, L
<1>11. CASE a < b /\ lcn # Hole
  <2>1. x = x0 + (b - a) /\ y = y0  BY <1>3, <1>6, <1>8, <1>11
  <2>2. x + y = b /\ x # 0  BY <1>3, <1>4, <1>9, <1>11, <2>1
  <2>3. b \in 1..b /\ b \in (a + 1)..b  BY <1>9, <1>11
  <2>4. L(b) # Hole  BY <1>7, <1>11, <2>3
  <2>5. y = 0 <=> \A j \in 1..b : L(j) # Hole
    <3>1. ASSUME \A j \in 1..a : L(j) # Hole, NEW j \in 1..b PROVE L(j) # Hole
      <4>1. j \in 1..a \/ j \in (a + 1)..b  BY <1>9
      <4> QED BY <1>7, <1>11, <3>1, <4>1
    <3>2. 1..a \subseteq 1..b  BY <1>9, <1>11
    <3> QED BY <1>4, <2>1, <3>1, <3>2
  <2>6. x = 0 <=> \A j \in 1..b : L(j) = Hole  BY <2>2, <2>3, <2>4
  <2> QED BY <2>2, <2>5, <2>6, Zenon DEF CountIs, b, x, y, L
<1>12. CASE a < b /\ lcn = Hole
  <2>1. y = y0 + (b - a) /\ x = x0  BY <1>3, <1>6, <1>8, <1>12
  <2>2. x + y = b /\ y # 0  BY <1>3, <1>4, <1>9, <1>12, <2>1
  <2>3. b \in 1..b /\ b \in (a + 1)..b  BY <1>9, <1>12
  <2>4. L(b) = Hole  BY <1>6, <1>12, <2>3
  <2>5. x = 0 <=> \A j \in 1..b : L(j) = Hole
    <3>1. ASSUME \A j \in 1..a : L(j) = Hole, NEW j \in 1..b PROVE L(j) = Hole
      <4>1. j \in 1..a \/ j \in (a + 1)..b  BY <1>9
      <4> QED BY <1>6, <1>12, <3>1, <4>1
    <3>2. 1..a \subseteq 1..b  BY <1>9, <1>12
    <3> QED BY <1>4, <2>1, <3>1, <3>2
  <2>6. y = 0 <=> \A j \in 1..b : L(j) # Hole  BY <2>2, <2>3, <2>4
  <2> QED BY <2>2, <2>5, <2>6, Zenon DEF CountIs, b, x, y, L
<1> QED BY <1>10, <1>11, <1>12

UnitKindIs(f, u) ==
    /\ Clusters(f, u, FALSE) = 0 <=> \A i \in 1..f.unit : LcnIn(f, u, i) = Hole
    /\ Clusters(f, u, FALSE) = f.unit /\ Clusters(f, u, TRUE) = 0
          <=> \A i \in 1..f.unit : LcnIn(f, u, i) # Hole

LEMMA UnitKindFacts ==
    ASSUME NEW f \in FileType, NEW u \in Nat
    PROVE  UnitKindIs(f, u)
<1> DEFINE N == Len(f.runs)  b == Cut(f, u, N + 1)  n == f.unit  L(j) == LcnIn(f, u, j)
<1>0. f.runs \in Seq(RunType) /\ n \in Nat \ {0}  BY DEF FileType
<1>1. N \in Nat  BY <1>0, RunTypes
<1>2. PICK stored : Counted(f, u, FALSE, stored)  BY ClustersCounted
<1>3. PICK sparse : Counted(f, u, TRUE, sparse)  BY ClustersCounted
<1> DEFINE S == {i \in 0..N : CountIs(f, u, stored, sparse, i)}
<1>4. 0 \in S
  <2>1. stored[0] = 0 /\ sparse[0] = 0  BY <1>2, <1>3 DEF Counted
  <2>2. Cut(f, u, 0 + 1) = 0  BY CutFacts
  <2>3. \A j \in 1..0 : FALSE  OBVIOUS
  <2>4. CountIs(f, u, stored, sparse, 0)  BY <2>1, <2>2, <2>3 DEF CountIs
  <2> QED BY <1>1, <2>4
<1>5. ASSUME NEW k \in 0..(N - 1), k \in S PROVE k + 1 \in S
  <2>1. k + 1 \in 1..N /\ (k + 1) - 1 = k /\ k + 1 \in 0..N  BY <1>1
  <2>2. CountIs(f, u, stored, sparse, (k + 1) - 1)  BY <1>5, <2>1
  <2>3. CountIs(f, u, stored, sparse, k + 1)  BY <1>2, <1>3, <2>1, <2>2, CountStep
  <2> QED BY <2>1, <2>3
<1> HIDE DEF S
<1>6. 0..N \subseteq S
  <2> HIDE DEF N
  <2> QED BY <1>1, <1>4, <1>5, AllUpTo
<1>7. CountIs(f, u, stored, sparse, N)  BY <1>1, <1>6 DEF S
<1> DEFINE x == Clusters(f, u, FALSE)  y == Clusters(f, u, TRUE)
<1>8. x = stored[N] /\ y = sparse[N] /\ stored[N] \in Nat /\ sparse[N] \in Nat
  <2>1. x = stored[N] /\ y = sparse[N]  BY <1>2, <1>3, Zenon DEF Counted
  <2>2. N \in 0..N  BY <1>1
  <2>3. stored \in [0..N -> Nat] /\ sparse \in [0..N -> Nat]
    BY <1>2, <1>3, Zenon DEF Counted
  <2> QED BY <2>1, <2>2, <2>3
<1>9. x + y = b /\ (x = 0 <=> \A j \in 1..b : L(j) = Hole)
      /\ (y = 0 <=> \A j \in 1..b : L(j) # Hole)
  BY <1>7, <1>8, Zenon DEF CountIs
<1>10. b \in 0..n /\ \A j \in (b + 1)..n : L(j) = Hole  BY CutFacts
<1> HIDE DEF x, y, b, n, N, L
<1>11. b \in Nat /\ x \in Nat /\ y \in Nat /\ 1..b \subseteq 1..n  BY <1>0, <1>8, <1>10
<1>12. x = 0 <=> \A i \in 1..n : L(i) = Hole
  <2>1. ASSUME \A j \in 1..b : L(j) = Hole, NEW i \in 1..n PROVE L(i) = Hole
    <3>1. i \in 1..b \/ i \in (b + 1)..n  BY <1>11
    <3> QED BY <1>10, <2>1, <3>1
  <2> QED BY <1>9, <1>11, <2>1
<1>13. x = n /\ y = 0 <=> \A i \in 1..n : L(i) # Hole
  <2>1. ASSUME x = n, y = 0 PROVE \A i \in 1..n : L(i) # Hole
    <3>1. b = n  BY <1>0, <1>9, <1>11, <2>1
    <3> QED BY <1>9, <2>1, <3>1
  <2>2. ASSUME \A i \in 1..n : L(i) # Hole PROVE x = n /\ y = 0
    <3>1. b = n
      <4> SUFFICES ASSUME b # n PROVE FALSE  OBVIOUS
      <4>1. n \in (b + 1)..n /\ n \in 1..n  BY <1>0, <1>10
      <4> QED BY <1>10, <2>2, <4>1
    <3>2. y = 0  BY <1>9, <1>11, <2>2
    <3> QED BY <1>0, <1>9, <1>11, <3>1, <3>2
  <2> QED BY <2>1, <2>2
<1> QED BY <1>12, <1>13, Zenon DEF UnitKindIs, x, y, n, L

(* What is stored of a unit, by its clusters and by its runs. *)
UnitPiece(v, f, u, i) == IF LcnIn(f, u, i) = Hole THEN << >> ELSE ClusterBytes(v, LcnIn(f, u, i))
UnitPieces(v, f, u) == [i \in 1..f.unit |-> UnitPiece(v, f, u, i)]

RunPiece(v, f, u, i) ==
    LET p == Inside(f, u, i)
    IN IF p.from < p.to /\ f.runs[i].lcn # Hole
       THEN ReadClusters(v, f.runs[i].lcn + p.from - Starts(f.runs)[i], p.to - p.from)
       ELSE << >>
RunPieces(v, f, u) == [i \in 1..Len(f.runs) |-> RunPiece(v, f, u, i)]

UnitKept(v, f, u) == \A i \in 1..f.unit : Kept(v, LcnIn(f, u, i))

RunPieceIs(v, f, u, i, g) ==
    LET s == RunPiece(v, f, u, i) IN
    /\ s \in Seq(Int)
    /\ UnitKept(v, f, u) => g[Cut(f, u, i + 1)] = g[Cut(f, u, i)] \o s

LEMMA RunPieceFacts ==
    ASSUME ByteTypes, NEW v, IsVolume(v), NEW f \in FileType, NEW u \in Nat,
           NEW i \in 1..Len(f.runs), NEW g, Laid(UnitPieces(v, f, u), g)
    PROVE  RunPieceIs(v, f, u, i, g)
<1> DEFINE a == Cut(f, u, i)  b == Cut(f, u, i + 1)  p == Inside(f, u, i)
           lcn == f.runs[i].lcn  t == UnitPieces(v, f, u)  n == f.unit
           s == RunPiece(v, f, u, i)  l == lcn + p.from - Starts(f.runs)[i]
<1>0. n \in Nat \ {0} /\ Len(t) = n  BY DEF FileType, UnitPieces
<1>1. InsideIs(f, u, i)  BY InsideFacts
<1>2. /\ a \in 0..n /\ b \in 0..n /\ a <= b /\ (p.from < p.to <=> a < b)
      /\ a < b => p.to - p.from = b - a
      /\ a < b /\ lcn = Hole => \A j \in (a + 1)..b : LcnIn(f, u, j) = Hole
      /\ a < b /\ lcn # Hole =>
            l \in Nat /\ \A j \in (a + 1)..b : LcnIn(f, u, j) = l + (j - (a + 1))
  BY <1>1, Zenon DEF InsideIs
<1>3. s = IF p.from < p.to /\ lcn # Hole THEN ReadClusters(v, l, p.to - p.from) ELSE << >>
  BY Zenon DEF RunPiece
<1>4. \A j \in 1..n : t[j] = UnitPiece(v, f, u, j)  BY DEF UnitPieces
<1>5. Laid(t, g)  OBVIOUS
<1> HIDE DEF a, b, p, lcn, t, n, s, l
<1>6. a \in Nat /\ b \in Nat /\ b <= Len(t) /\ a \in 0..Len(t)
      /\ \A j \in (a + 1)..b : j \in 1..n
  BY <1>0, <1>2
<1>7. g[a] \in Seq(Int)  BY <1>5, <1>6 DEF Laid
<1>8. CASE ~ (a < b /\ lcn # Hole)
  <2>1. s = << >>  BY <1>2, <1>3, <1>8
  <2>2. \A j \in (a + 1)..b : t[j] = << >>
    <3> SUFFICES ASSUME NEW j \in (a + 1)..b PROVE t[j] = << >>  OBVIOUS
    <3>1. a < b  BY <1>6
    <3>2. LcnIn(f, u, j) = Hole  BY <1>2, <1>8, <3>1
    <3> QED BY <1>4, <1>6, <3>2 DEF UnitPiece
  <2>3. g[b] = g[a]  BY <1>2, <1>5, <1>6, <2>2, EmptyStretch
  <2>4. g[a] \o << >> = g[a]  BY <1>7, ConcatEmptySeq
  <2>5. << >> \in Seq(Int)  OBVIOUS
  <2> QED BY <2>1, <2>3, <2>4, <2>5, Zenon DEF RunPieceIs, a, b, s
<1>9. CASE a < b /\ lcn # Hole
  <2> DEFINE k == b - a
  <2>1. s = ReadClusters(v, l, k) /\ l \in Nat  BY <1>2, <1>3, <1>9
  <2>2. k \in Nat \ {0}  BY <1>6, <1>9
  <2>3. \A j \in (a + 1)..b : LcnIn(f, u, j) = l + (j - (a + 1))  BY <1>2, <1>9
  <2> HIDE DEF k
  <2>4. ReadClustersIs(v, l, k)  BY <2>1, <2>2, ReadClustersFacts
  <2>5. s \in Seq(Int)  BY <2>1, <2>4, Zenon DEF ReadClustersIs
  <2>6. ASSUME UnitKept(v, f, u) PROVE g[b] = g[a] \o s
    <3>1. \A c \in 0..(k - 1) : Kept(v, l + c)
      <4> SUFFICES ASSUME NEW c \in 0..(k - 1) PROVE Kept(v, l + c)  OBVIOUS
      <4> DEFINE j == a + 1 + c
      <4>1. j \in (a + 1)..b /\ j - (a + 1) = c  BY <1>6, <2>2 DEF k
      <4> HIDE DEF j
      <4>2. LcnIn(f, u, j) = l + c  BY <2>3, <4>1
      <4>3. Kept(v, LcnIn(f, u, j))  BY <1>6, <2>6, <4>1 DEF UnitKept, n
      <4> QED BY <4>2, <4>3
    <3>2. s = Bytes(ClustersAt(v, l), 0, k * ClusterSize)
      BY <2>1, <2>4, <3>1, Zenon DEF ReadClustersIs
    <3>3. ASSUME NEW j \in (a + 1)..b PROVE t[j] = ClusterBytes(v, l + (j - (a + 1)))
      <4>1. LcnIn(f, u, j) = l + (j - (a + 1))  BY <2>3
      <4>2. l + (j - (a + 1)) \in Nat  BY <1>6, <2>1
      <4>3. LcnIn(f, u, j) # Hole  BY <4>1, <4>2, ClusterAssumption
      <4>4. t[j] = UnitPiece(v, f, u, j)  BY <1>4, <1>6
      <4> QED BY <4>1, <4>3, <4>4, Zenon DEF UnitPiece
    <3>4. StretchIs(v, l, g, a, b)  BY <1>2, <1>5, <1>6, <2>1, <3>3, ClusterStretch
    <3> QED BY <3>2, <3>4, Zenon DEF StretchIs, k
  <2> QED BY <2>5, <2>6, Zenon DEF RunPieceIs, a, b, s
<1> QED BY <1>8, <1>9

LEMMA ClusterBytesType ==
    ASSUME ByteTypes, NEW v, IsVolume(v), NEW lcn
    PROVE  ClusterBytes(v, lcn) \in Seq(Int) /\ Len(ClusterBytes(v, lcn)) = ClusterSize
<1>1. ClusterSize \in Nat  BY ClusterAssumption
<1>2. ASSUME NEW i \in 1..ClusterSize PROVE OriginalByte(v, lcn, i - 1) \in Int
  <2>1. i - 1 \in Int  BY <1>1
  <2> QED BY <2>1, OriginalType
<1> DEFINE s == ClusterBytes(v, lcn)
<1>3. s \in [1..ClusterSize -> Int]  BY <1>2 DEF ClusterBytes
<1> HIDE DEF s
<1>4. s \in Seq(Int) /\ Len(s) = ClusterSize  BY <1>1, <1>3
<1> QED BY <1>4 DEF s

LEMMA UnitPiecesType ==
    ASSUME ByteTypes, NEW v, IsVolume(v), NEW f \in FileType, NEW u
    PROVE  /\ UnitPieces(v, f, u) \in Seq(Seq(Int)) /\ Len(UnitPieces(v, f, u)) = f.unit
           /\ \A i \in 1..f.unit : UnitPieces(v, f, u)[i] = UnitPiece(v, f, u, i)
<1> DEFINE t == UnitPieces(v, f, u)  n == f.unit
<1>0. n \in Nat  BY DEF FileType
<1>1. ASSUME NEW i \in 1..n PROVE UnitPiece(v, f, u, i) \in Seq(Int)
  <2>1. << >> \in Seq(Int)  OBVIOUS
  <2> QED BY <2>1, ClusterBytesType DEF UnitPiece
<1>2. t = [i \in 1..n |-> UnitPiece(v, f, u, i)]  BY DEF UnitPieces
<1>3. t \in [1..n -> Seq(Int)]  BY <1>1, <1>2
<1> HIDE DEF t, n
<1>4. t \in Seq(Seq(Int)) /\ Len(t) = n  BY <1>0, <1>3
<1> QED BY <1>2, <1>4 DEF t, n

StoredIs(v, f, u) ==
    LET s == StoredBytes(v, f, u) IN
    s \in Seq(Int) /\ (UnitKept(v, f, u) => s = FlattenSeq(UnitPieces(v, f, u)))

LEMMA StoredFacts ==
    ASSUME ByteTypes, NEW v, IsVolume(v), NEW f \in FileType, NEW u \in Nat
    PROVE  StoredIs(v, f, u)
<1> DEFINE N == Len(f.runs)  t == UnitPieces(v, f, u)  r == RunPieces(v, f, u)
           n == f.unit  b == Cut(f, u, N + 1)
<1>0. f.runs \in Seq(RunType) /\ n \in Nat  BY DEF FileType
<1>1. N \in Nat  BY <1>0, RunTypes
<1>2. t \in Seq(Seq(Int)) /\ Len(t) = n /\ \A i \in 1..n : t[i] = UnitPiece(v, f, u, i)
  BY UnitPiecesType
<1>3. PICK g : Laid(t, g) /\ FlattenSeq(t) = g[Len(t)]
  <2> HIDE DEF t
  <2> QED BY <1>2, LaidOut
<1>4. \A i \in 1..N : RunPieceIs(v, f, u, i, g)  BY <1>3, RunPieceFacts
<1>5. r \in Seq(Seq(Int)) /\ Len(r) = N /\ \A i \in 1..N : r[i] = RunPiece(v, f, u, i)
  <2>1. \A i \in 1..N : RunPiece(v, f, u, i) \in Seq(Int)  BY <1>4, Zenon DEF RunPieceIs
  <2>2. r = [i \in 1..N |-> RunPiece(v, f, u, i)]  BY DEF RunPieces
  <2>3. r \in [1..N -> Seq(Int)]  BY <2>1, <2>2
  <2> HIDE DEF r, N
  <2>4. r \in Seq(Seq(Int)) /\ Len(r) = N  BY <1>1, <2>3
  <2> QED BY <2>2, <2>4
<1> HIDE DEF t, r
<1>6. PICK h : Laid(r, h) /\ FlattenSeq(r) = h[Len(r)]  BY <1>5, LaidOut
<1>7. StoredBytes(v, f, u) = FlattenSeq(r)  BY Zenon DEF StoredBytes, RunPieces, RunPiece, r
<1>8. StoredBytes(v, f, u) = h[N] /\ h[N] \in Seq(Int)
  <2>1. N \in 0..Len(r)  BY <1>1, <1>5
  <2> QED BY <1>5, <1>6, <1>7, <2>1 DEF Laid
<1>9. ASSUME UnitKept(v, f, u) PROVE h[N] = FlattenSeq(t)
  <2> DEFINE S == {i \in 0..N : h[i] = g[Cut(f, u, i + 1)]}
  <2>1. 0 \in S
    <3>1. h[0] = << >> /\ g[0] = << >>  BY <1>3, <1>6 DEF Laid
    <3>2. Cut(f, u, 0 + 1) = 0  BY CutFacts
    <3> QED BY <1>1, <3>1, <3>2
  <2>2. ASSUME NEW k \in 0..(N - 1), k \in S PROVE k + 1 \in S
    <3> DEFINE i == k + 1
    <3>1. i \in 1..N /\ i - 1 = k /\ i \in 1..Len(r) /\ i \in 0..N  BY <1>1, <1>5
    <3>2. h[k] = g[Cut(f, u, i)]  BY <2>2
    <3> HIDE DEF i
    <3>3. h[i] = h[i - 1] \o r[i]  BY <1>6, <3>1 DEF Laid
    <3>4. g[Cut(f, u, i + 1)] = g[Cut(f, u, i)] \o RunPiece(v, f, u, i)
      BY <1>4, <1>9, <3>1, Zenon DEF RunPieceIs
    <3>5. r[i] = RunPiece(v, f, u, i)  BY <1>5, <3>1
    <3>6. h[i] = g[Cut(f, u, i + 1)]  BY <3>1, <3>2, <3>3, <3>4, <3>5, Zenon
    <3> QED BY <3>1, <3>6 DEF i
  <2> HIDE DEF S
  <2>3. 0..N \subseteq S
    <3> HIDE DEF N
    <3> QED BY <1>1, <2>1, <2>2, AllUpTo
  <2>4. h[N] = g[b]  BY <1>1, <2>3 DEF S
  <2>5. b \in 0..n /\ \A j \in (b + 1)..n : LcnIn(f, u, j) = Hole  BY CutFacts
  <2> HIDE DEF b, n
  <2>6. \A j \in (b + 1)..n : t[j] = << >>
    <3> SUFFICES ASSUME NEW j \in (b + 1)..n PROVE t[j] = << >>  OBVIOUS
    <3>1. j \in 1..n  BY <1>0, <2>5
    <3> QED BY <1>2, <2>5, <3>1 DEF UnitPiece
  <2>7. b \in Nat /\ n \in Nat /\ b <= n /\ n <= Len(t)  BY <1>0, <1>2, <2>5
  <2>8. g[n] = g[b]  BY <1>3, <2>6, <2>7, EmptyStretch
  <2> QED BY <1>2, <1>3, <2>4, <2>8
<1> QED BY <1>8, <1>9, Zenon DEF StoredIs, t

LEMMA RawLen ==
    ASSUME ByteTypes, NEW v, IsVolume(v), NEW f \in FileType, NEW u \in Nat,
           \A i \in 1..f.unit : LcnIn(f, u, i) # Hole
    PROVE  Len(FlattenSeq(UnitPieces(v, f, u))) = f.unit * ClusterSize
<1> DEFINE t == UnitPieces(v, f, u)  n == f.unit
<1>0. n \in Nat /\ ClusterSize \in Nat  BY ClusterAssumption DEF FileType
<1>1. t \in Seq(Seq(Int)) /\ Len(t) = n /\ \A i \in 1..n : t[i] = UnitPiece(v, f, u, i)
  BY UnitPiecesType
<1>2. ASSUME NEW i \in 1..n PROVE t[i] \in Seq(Int) /\ Len(t[i]) = ClusterSize
  BY <1>1, <1>2, ClusterBytesType DEF UnitPiece
<1> HIDE DEF t, n
<1>3. PICK g : Laid(t, g) /\ FlattenSeq(t) = g[Len(t)]  BY <1>1, LaidOut
<1> DEFINE S == {i \in 0..n : Len(g[i]) = i * ClusterSize}
<1>4. 0 \in S
  <2>1. g[0] = << >>  BY <1>3 DEF Laid
  <2> QED BY <1>0, <2>1
<1>5. ASSUME NEW k \in 0..(n - 1), k \in S PROVE k + 1 \in S
  <2> DEFINE i == k + 1
  <2>1. i \in 1..n /\ i - 1 = k /\ k \in 0..Len(t) /\ i \in 1..Len(t) /\ k \in Nat  BY <1>0, <1>1
  <2>2. (k + 1) * ClusterSize = k * ClusterSize + ClusterSize  BY <1>0, <2>1
  <2>3. Len(g[k]) = k * ClusterSize  BY <1>5
  <2> HIDE DEF i
  <2>4. g[i] = g[k] \o t[i] /\ g[k] \in Seq(Int)  BY <1>3, <2>1 DEF Laid
  <2>5. t[i] \in Seq(Int) /\ Len(t[i]) = ClusterSize  BY <1>2, <2>1
  <2>6. Len(g[i]) = Len(g[k]) + Len(t[i])  BY <2>4, <2>5, ConcatProperties
  <2>7. Len(g[i]) = (k + 1) * ClusterSize  BY <2>2, <2>3, <2>5, <2>6
  <2> QED BY <2>1, <2>7 DEF i
<1> HIDE DEF S
<1>6. 0..n \subseteq S  BY <1>0, <1>4, <1>5, AllUpTo
<1>7. Len(g[n]) = n * ClusterSize
  <2>1. n \in S  BY <1>0, <1>6
  <2> QED BY <2>1 DEF S
<1>8. FlattenSeq(t) = g[n]  BY <1>1, <1>3
<1> QED BY <1>7, <1>8 DEF t, n

LEMMA PaddedFacts ==
    ASSUME ByteTypes, NEW s \in Seq(Int), NEW n \in Nat
    PROVE  /\ Padded(s, n) \in Seq(Int)
           /\ Len(Padded(s, n)) = IF Len(s) < n THEN n ELSE Len(s)
           /\ \A i \in 1..Len(Padded(s, n)) :
                 Padded(s, n)[i] = IF i <= Len(s) THEN s[i] ELSE Zero
<1> DEFINE m == n - Len(s)  z == Zeros(m)
<1>1. Len(s) \in Nat /\ m \in Int  BY LenProperties
<1> HIDE DEF m
<1>2. /\ z \in Seq(Int) /\ Len(z) = IF m < 0 THEN 0 ELSE m
      /\ \A i \in 1..m : z[i] = Zero
  BY <1>1, ZerosFacts
<1>3. Padded(s, n) = s \o z  BY DEF Padded, m
<1> HIDE DEF z
<1>4. /\ s \o z \in Seq(Int) /\ Len(s \o z) = Len(s) + Len(z)
      /\ \A i \in 1..(Len(s) + Len(z)) :
            (s \o z)[i] = IF i <= Len(s) THEN s[i] ELSE z[i - Len(s)]
  BY <1>2, ConcatProperties
<1>5. Len(s) + Len(z) = IF Len(s) < n THEN n ELSE Len(s)  BY <1>1, <1>2 DEF m
<1>6. ASSUME NEW i \in 1..(Len(s) + Len(z))
      PROVE  (s \o z)[i] = IF i <= Len(s) THEN s[i] ELSE Zero
  <2>1. ~ (i <= Len(s)) => i - Len(s) \in 1..m  BY <1>1, <1>2
  <2> QED BY <1>2, <1>4, <2>1
<1> QED BY <1>3, <1>4, <1>5, <1>6

RawOf(v, f, u) == FlattenSeq(UnitPieces(v, f, u))

DecompressIs(v, f, u) ==
    /\ DecompressUnit(v, f, u) \in Seq(Int)
    /\ UnitKept(v, f, u) => DecompressUnit(v, f, u) = UnitOf(v, f, u)
    /\ UnitOf(v, f, u) \in Seq(Int) /\ Len(UnitOf(v, f, u)) >= UnitBytes(f)

(* A unit is decompressed to what it holds. *)
LEMMA DecompressFacts ==
    ASSUME ByteTypes, NEW v, IsVolume(v), NEW f \in FileType, NEW u \in Nat
    PROVE  DecompressIs(v, f, u)
<1> DEFINE raw == RawOf(v, f, u)  s == StoredBytes(v, f, u)  n == UnitBytes(f)
           sparse == \A i \in 1..f.unit : LcnIn(f, u, i) = Hole
           whole  == \A i \in 1..f.unit : LcnIn(f, u, i) # Hole
           x == DecompressUnit(v, f, u)  y == UnitOf(v, f, u)
<1>0. f.unit \in Nat \ {0} /\ ClusterSize \in Nat /\ n \in Nat
  <2>1. f.unit \in Nat \ {0} /\ ClusterSize \in Nat  BY ClusterAssumption DEF FileType
  <2> QED BY <2>1 DEF UnitBytes
<1>1. UnitKindIs(f, u)  BY UnitKindFacts
<1>2. s \in Seq(Int) /\ (UnitKept(v, f, u) => s = raw)
  <2>1. StoredIs(v, f, u)  BY StoredFacts
  <2> QED BY <2>1, Zenon DEF StoredIs, RawOf
<1>3. y = IF sparse THEN Zeros(n) ELSE IF whole THEN raw ELSE Padded(Lznt1(raw), n)
  BY Zenon DEF UnitOf, RawOf, UnitPieces, UnitPiece
<1>4. x = IF sparse THEN Zeros(n) ELSE IF whole THEN s ELSE Padded(Lznt1(s), n)
  BY <1>1, Zenon DEF DecompressUnit, UnitKindIs
<1>5. raw \in Seq(Int) /\ (whole => Len(raw) = n)
  <2> DEFINE t == UnitPieces(v, f, u)
  <2>1. t \in Seq(Seq(Int))  BY UnitPiecesType
  <2> HIDE DEF t
  <2>2. PICK g : Laid(t, g) /\ FlattenSeq(t) = g[Len(t)]  BY <2>1, LaidOut
  <2>3. Len(t) \in 0..Len(t)
    <3>1. Len(t) \in Nat  BY <2>1, LenProperties
    <3> QED BY <3>1
  <2>4. raw \in Seq(Int)
    <3>1. g[Len(t)] \in Seq(Int)  BY <2>2, <2>3 DEF Laid
    <3> QED BY <2>2, <3>1 DEF RawOf, t
  <2>5. whole => Len(raw) = n  BY RawLen DEF RawOf, UnitBytes
  <2> QED BY <2>4, <2>5
<1> HIDE DEF raw, s, n, sparse, whole, x, y
<1>6. Zeros(n) \in Seq(Int) /\ Len(Zeros(n)) = n  BY <1>0, ZerosFacts
<1>7. \A r \in Seq(Int) : Padded(Lznt1(r), n) \in Seq(Int) /\ Len(Padded(Lznt1(r), n)) >= n
  <2> SUFFICES ASSUME NEW r \in Seq(Int)
               PROVE  Padded(Lznt1(r), n) \in Seq(Int) /\ Len(Padded(Lznt1(r), n)) >= n
    OBVIOUS
  <2>1. Lznt1(r) \in Seq(Int) /\ Len(Lznt1(r)) \in Nat  BY LenProperties DEF ByteTypes
  <2> QED BY <1>0, <2>1, PaddedFacts
<1>8. x \in Seq(Int)  BY <1>2, <1>4, <1>6, <1>7
<1>9. UnitKept(v, f, u) => x = y  BY <1>2, <1>3, <1>4
<1>10. y \in Seq(Int) /\ Len(y) >= n  BY <1>0, <1>3, <1>5, <1>6, <1>7
<1> QED BY <1>8, <1>9, <1>10, Zenon DEF DecompressIs, x, y, n

-----------------------------------------------------------------------------
(* What is decoded of a compressed file, and which clusters it depends on.  *)

Compressed == {"lznt1", "wof"}

(* The bytes that are cached under key k. *)
Whole(f, k) == IF f.kind = "wof" THEN [off |-> 0, len |-> f.size]
               ELSE [off |-> k[2] * UnitBytes(f), len |-> UnitBytes(f)]

PlainOf(v, f, u) == IF f.kind = "wof" THEN Xpress(Payload(v, f), f.size) ELSE UnitOf(v, f, u)

IsPlain(v, k, value) ==
    LET f == v.files[k[1]]
    IN Clean(v, f, Whole(f, k)) => value = PlainOf(v, f, k[2])

LEMMA VolumeType ==
    ASSUME NEW v \in Volumes
    PROVE  /\ IsVolume(v)
           /\ \A n \in DOMAIN v.files :
                 /\ v.files[n] \in FileType
                 /\ v.files[n].kind = "nodata" => v.files[n].real = 0
                 /\ v.files[n].kind = "mft" =>
                       BootstrapMft(v, v.files[n].runs).runs \in Seq(RunType)
  BY VolumesAssumption, Zenon DEF IsVolume

(* What a clean request says, by the kind of the file. *)
LEMMA CleanKind ==
    ASSUME NEW v, NEW f, NEW r
    PROVE  /\ f.kind = "plain" \/ f.kind = "wof" =>
                 (Clean(v, f, r) <=> AllKept(v, f.runs, Needed(f, r)))
           /\ f.kind = "mft" => (Clean(v, f, r) <=> AllMftKept(v, f.runs, Needed(f, r)))
           /\ f.kind = "lznt1" =>
                 (Clean(v, f, r) <=> \A c \in Needed(f, r) : Kept(v, LcnOf(f.runs, c)))
<1> DEFINE S == Needed(f, r)  m == BootstrapMft(v, f.runs)
<1>1. Clean(v, f, r) <=>
         /\ f.kind \in {"plain", "wof"} => Straight(v, f.runs, {}, FALSE)
         /\ f.kind = "mft" => Straight(v, m.runs, m.found, TRUE)
         /\ \A c \in S : IF f.kind = "mft" THEN MftKept(v, f.runs, c) ELSE Kept(v, LcnOf(f.runs, c))
  BY Zenon DEF Clean
<1>2. AllMftKept(v, f.runs, S) <=>
         Straight(v, m.runs, m.found, TRUE) /\ \A c \in S : MftKept(v, f.runs, c)
  BY Zenon DEF AllMftKept
<1> HIDE DEF S, m
<1>3. CASE f.kind = "plain" \/ f.kind = "wof"
  <2>1. f.kind \in {"plain", "wof"} /\ f.kind # "mft" /\ f.kind # "lznt1"  BY <1>3
  <2> QED BY <1>1, <2>1, Zenon DEF AllKept, S
<1>4. CASE f.kind = "mft"
  <2>1. f.kind \notin {"plain", "wof"} /\ f.kind # "plain" /\ f.kind # "wof" /\ f.kind # "lznt1"
    BY <1>4
  <2> QED BY <1>1, <1>2, <1>4, <2>1, Zenon DEF S
<1>5. CASE f.kind = "lznt1"
  <2>1. f.kind \notin {"plain", "wof"} /\ f.kind # "plain" /\ f.kind # "wof" /\ f.kind # "mft"
    BY <1>5
  <2> QED BY <1>1, <1>5, <2>1, Zenon DEF S
<1> QED BY <1>3, <1>4, <1>5, Zenon

LEMMA UnitBytesType ==
    ASSUME NEW f \in FileType
    PROVE  UnitBytes(f) \in Nat \ {0}
<1>1. f.unit \in Nat \ {0} /\ ClusterSize \in Nat \ {0}  BY ClusterAssumption DEF FileType
<1>2. ClusterSize \in Nat /\ 1 \in Int /\ f.unit \in Int /\ 1 <= f.unit  BY <1>1
<1>3. 1 * ClusterSize <= f.unit * ClusterSize  BY <1>2, TimesMonotone, Zenon
<1>4. f.unit * ClusterSize \in Nat  BY <1>1
<1> DEFINE n == f.unit * ClusterSize
<1>5. 1 * ClusterSize = ClusterSize  BY <1>1
<1> HIDE DEF n
<1>6. n \in Nat /\ ClusterSize <= n  BY <1>3, <1>4, <1>5 DEF n
<1>7. n \in Nat \ {0}  BY <1>1, <1>6
<1> QED BY <1>7 DEF UnitBytes, n

(* The clusters of units a to b. *)
LEMMA UnitClusters ==
    ASSUME NEW f \in FileType, NEW a \in Nat, NEW b \in Nat, NEW u \in Nat, a <= u, u <= b,
           NEW i \in 1..f.unit
    PROVE  u * f.unit + i - 1 \in (a * f.unit)..((b + 1) * f.unit - 1)
<1>1. f.unit \in Nat \ {0}  BY DEF FileType
<1>2. f.unit \in Nat /\ a \in Int /\ u \in Int /\ u + 1 \in Int /\ b + 1 \in Int /\ u + 1 <= b + 1
  BY <1>1
<1>3. a * f.unit <= u * f.unit  BY <1>2, TimesMonotone, Zenon
<1>4. (u + 1) * f.unit <= (b + 1) * f.unit  BY <1>2, TimesMonotone, Zenon
<1>5. (u + 1) * f.unit = u * f.unit + f.unit  BY <1>2
<1>6. a * f.unit \in Nat /\ u * f.unit \in Nat /\ (b + 1) * f.unit \in Nat  BY <1>2
<1> DEFINE x == a * f.unit  y == u * f.unit  z == (b + 1) * f.unit  n == f.unit
<1>7. x <= y /\ y + n <= z /\ x \in Nat /\ y \in Nat /\ z \in Nat /\ n \in Nat /\ i \in 1..n
  BY <1>2, <1>3, <1>4, <1>5, <1>6
<1> HIDE DEF x, y, z, n
<1>8. y + i - 1 \in x..(z - 1)  BY <1>7
<1> QED BY <1>8 DEF x, y, z

LEMMA NeededOfUnits ==
    ASSUME NEW v, NEW f \in FileType, f.kind = "lznt1",
           NEW r, r.off \in Nat, r.len \in Nat \ {0}, Clean(v, f, r),
           NEW x \in r.off..(r.off + r.len - 1)
    PROVE  UnitKept(v, f, x \div UnitBytes(f))
<1> DEFINE ub == UnitBytes(f)  a == r.off \div ub  b == (r.off + r.len - 1) \div ub
           u == x \div ub
<1>0. ub \in Nat \ {0}  BY UnitBytesType
<1>1. /\ x \in Nat /\ r.off \in Nat /\ r.off + r.len - 1 \in Nat
      /\ r.off <= x /\ x <= r.off + r.len - 1
  OBVIOUS
<1> HIDE DEF ub
<1>2. a \in Nat /\ b \in Nat /\ u \in Nat  BY <1>0, <1>1, QuotientBounds, Zenon
<1>3. a <= u /\ u <= b  BY <1>0, <1>1, QuotientMonotone, Zenon
<1>4. Needed(f, r) = (a * f.unit)..((b + 1) * f.unit - 1)
  BY DEF Needed, ub
<1> HIDE DEF a, b, u
<1>5. ASSUME NEW i \in 1..f.unit PROVE Kept(v, LcnIn(f, u, i))
  <2>1. u * f.unit + i - 1 \in Needed(f, r)  BY <1>2, <1>3, <1>4, UnitClusters
  <2> QED BY <2>1, CleanKind, Zenon DEF LcnIn
<1> QED BY <1>5, Zenon DEF UnitKept, u, ub

(* A unit is clean when its clusters are kept. *)
LEMMA CleanUnit ==
    ASSUME NEW v, NEW f \in FileType, f.kind = "lznt1", NEW k, k[2] \in Nat
    PROVE  Clean(v, f, Whole(f, k)) <=> UnitKept(v, f, k[2])
<1> DEFINE ub == UnitBytes(f)  u == k[2]  first == u * ub  r == Whole(f, k)
<1>0. ub \in Nat \ {0}  BY UnitBytesType
<1>1. r = [off |-> first, len |-> ub]  BY DEF Whole
<1> HIDE DEF r
<1>2. r.off = first /\ r.len = ub  BY <1>1
<1>3. first \in Nat  BY <1>0
<1> HIDE DEF ub
<1>4. first \div ub = u /\ (first + ub - 1) \div ub = u
  <2>1. u \in Int /\ u * ub <= first /\ first < u * ub + ub /\ first \in Int  BY <1>0, <1>3
  <2>2. first + ub - 1 \in Int /\ u * ub <= first + ub - 1 /\ first + ub - 1 < u * ub + ub
    BY <1>0, <1>3
  <2> QED BY <1>0, <2>1, <2>2, QuotientIs, Zenon
<1> HIDE DEF first
<1>5. Needed(f, r) = (u * f.unit)..((u + 1) * f.unit - 1)
  BY <1>2, <1>4 DEF Needed, ub
<1>6. f.unit \in Nat \ {0}  BY DEF FileType
<1>7. ASSUME Clean(v, f, r), NEW i \in 1..f.unit PROVE Kept(v, LcnIn(f, u, i))
  <2>1. u * f.unit + i - 1 \in Needed(f, r)  BY <1>5, UnitClusters
  <2> QED BY <1>7, <2>1, CleanKind, Zenon DEF LcnIn
<1>8. ASSUME UnitKept(v, f, u), NEW c \in Needed(f, r) PROVE Kept(v, LcnOf(f.runs, c))
  <2> DEFINE w == u * f.unit  i == c - w + 1
  <2>1. w \in Nat /\ (u + 1) * f.unit = w + f.unit  BY <1>6
  <2> DEFINE z == (u + 1) * f.unit
  <2>2. c \in w..(z - 1) /\ z = w + f.unit  BY <1>5, <1>8, <2>1
  <2> HIDE DEF w, z
  <2>3. i \in 1..f.unit /\ w + i - 1 = c  BY <1>6, <2>1, <2>2
  <2> HIDE DEF i
  <2>4. Kept(v, LcnIn(f, u, i))  BY <1>8, <2>3 DEF UnitKept
  <2> QED BY <2>3, <2>4 DEF LcnIn, w
<1>9. Clean(v, f, r) <=> UnitKept(v, f, u)  BY <1>7, <1>8, CleanKind, Zenon DEF UnitKept
<1> QED BY <1>9 DEF r

DecodedIs(v, n, u) ==
    LET f == v.files[n]  s == Decoded(v, f, u) IN
    /\ s \in Seq(Int) \cup {XpressError} /\ (f.kind = "lznt1" => s \in Seq(Int))
    /\ IsPlain(v, <<n, u>>, s)

LEMMA DecodedFacts ==
    ASSUME ByteTypes, NEW v \in Volumes, NEW n \in DOMAIN v.files, NEW u \in Nat,
           v.files[n].kind \in Compressed
    PROVE  DecodedIs(v, n, u)
<1> DEFINE f == v.files[n]  s == Decoded(v, f, u)  k == <<n, u>>
<1>0. f \in FileType /\ IsVolume(v)  BY VolumeType
<1>1. k[1] = n /\ k[2] = u  OBVIOUS
<1> HIDE DEF k, f
<1>2. CASE f.kind = "lznt1"
  <2>1. DecompressIs(v, f, u)  BY <1>0, DecompressFacts
  <2>2. f.kind # "wof"  BY <1>2
  <2>3. s = DecompressUnit(v, f, u)  BY <2>2 DEF Decoded
  <2>4. Clean(v, f, Whole(f, k)) <=> UnitKept(v, f, u)  BY <1>0, <1>1, <1>2, CleanUnit
  <2>5. IsPlain(v, k, s)
    BY <1>1, <2>1, <2>2, <2>3, <2>4, Zenon DEF IsPlain, DecompressIs, PlainOf, f
  <2>6. s \in Seq(Int)  BY <2>1, <2>3, Zenon DEF DecompressIs
  <2> HIDE DEF s
  <2>7. s \in Seq(Int) \cup {XpressError}  BY <2>6
  <2> QED BY <2>5, <2>6, <2>7, Zenon DEF DecodedIs, k, f, s
<1>3. CASE f.kind = "wof"
  <2> DEFINE p == WofPayload(v, f)
  <2>1. s = Xpress(p, f.size)  BY <1>3 DEF Decoded
  <2>2. f.size \in Nat /\ f.real \in Nat /\ f.content \in Seq(Int) /\ f.runs \in Seq(RunType)
    BY <1>0 DEF FileType
  <2>3. p \in Seq(Int) /\ (Clean(v, f, Whole(f, k)) => p = Payload(v, f))
    <3>1. CASE f.runs = << >>  BY <2>2, <3>1 DEF WofPayload, Payload
    <3>2. CASE f.runs # << >>
      <4>1. p = ReadViaRuns(v, f.runs, {}, 0, f.real, FALSE)  BY <3>2 DEF WofPayload
      <4>2. StreamReadIs(v, f.runs, p, 0, f.real)  BY <1>0, <2>2, <4>1, StreamRead
      <4>3. Needed(f, Whole(f, k)) = Touched(0, f.real)
        <5>1. 0 \div ClusterSize = 0  BY ClusterAssumption
        <5>2. 0 + f.real - 1 = f.real - 1  BY <2>2
        <5>3. f.kind \notin {"plain", "mft"} /\ f.kind # "lznt1"  BY <1>3
        <5> QED BY <1>3, <5>1, <5>2, <5>3 DEF Needed, Touched
      <4>4. Clean(v, f, Whole(f, k)) => p = Bytes(StreamOf(v, f.runs), 0, f.real)
        BY <1>3, <4>2, <4>3, CleanKind, Zenon DEF StreamReadIs
      <4>5. Bytes(StreamOf(v, f.runs), 0, f.real) = Payload(v, f)
        <5>1. \A i \in 1..f.real : 0 + i - 1 \in Nat /\ 0 + i - 1 = i - 1  BY <2>2
        <5> QED BY <3>2, <5>1 DEF Bytes, StreamOf, Payload
      <4>6. p \in Seq(Int)  BY <4>2, Zenon DEF StreamReadIs
      <4> QED BY <4>4, <4>5, <4>6
    <3> QED BY <3>1, <3>2
  <2> HIDE DEF p
  <2>4. s \in Seq(Int) \cup {XpressError}  BY <2>1, <2>2, <2>3 DEF ByteTypes
  <2>5. IsPlain(v, k, s)  BY <1>1, <1>3, <2>1, <2>3, Zenon DEF IsPlain, PlainOf, f
  <2>6. f.kind # "lznt1"  BY <1>3
  <2> QED BY <2>4, <2>5, <2>6, Zenon DEF DecodedIs, k, f, s
<1>4. f.kind = "lznt1" \/ f.kind = "wof"  BY DEF Compressed, f
<1> QED BY <1>2, <1>3, <1>4

-----------------------------------------------------------------------------
(* Requests and answers *)

RequestType(v) == [file : DOMAIN v.files, off : Nat, len : Int]

AnswerOK(v, f, r, s) ==
    /\ (f.kind = "wof" => Clean(v, f, r)) => Len(s) = r.len
    /\ r.len > 0 /\ Clean(v, f, r) => \A i \in 1..r.len : s[i] = FileByte(v, f, r.off + i - 1)

LEMMA SizeType ==
    ASSUME NEW f \in FileType
    PROVE  SizeOf(f) \in Nat
<1>1. f.size \in Nat /\ f.real \in Nat /\ f.content \in Seq(Int)  BY DEF FileType
<1>2. Len(f.content) \in Nat  BY <1>1, LenProperties
<1> QED BY <1>1, <1>2 DEF SizeOf

ClippedIs(v, r, size) ==
    LET c == Clipped(r, size) IN
    /\ c \in RequestType(v) /\ c.file = r.file /\ c.off = r.off /\ c.len \in Nat
    /\ c.len > 0 => c.off + c.len <= size

LEMMA ClippedFacts ==
    ASSUME NEW v, NEW r \in RequestType(v), NEW size \in Nat
    PROVE  ClippedIs(v, r, size)
<1> DEFINE n == IF r.len < 0 THEN size - r.off ELSE r.len
           l == IF r.off >= size \/ n <= 0 THEN 0 ELSE Smaller(n, size - r.off)
           c == [r EXCEPT !.len = l]
<1>0. r.off \in Nat /\ r.len \in Int /\ r = [file |-> r.file, off |-> r.off, len |-> r.len]
      /\ r.file \in DOMAIN v.files
  BY DEF RequestType
<1>1. n \in Int  BY <1>0
<1>2. Clipped(r, size) = c  BY DEF Clipped
<1> HIDE DEF n
<1>3. l \in Nat /\ (l > 0 => r.off + l <= size)  BY <1>0, <1>1 DEF Smaller
<1> HIDE DEF l
<1>4. c = [file |-> r.file, off |-> r.off, len |-> l]  BY <1>0
<1> HIDE DEF c
<1>5. c.file = r.file /\ c.off = r.off /\ c.len = l  BY <1>4
<1>6. c \in RequestType(v)  BY <1>0, <1>3, <1>4 DEF RequestType
<1> QED BY <1>2, <1>3, <1>5, <1>6 DEF ClippedIs

(* Clipping again changes nothing. *)
LEMMA ClippedTwice ==
    ASSUME NEW v, NEW r \in RequestType(v), NEW size \in Nat, r.len > 0, r.off + r.len <= size
    PROVE  Clipped(r, size) = r
<1> DEFINE n == IF r.len < 0 THEN size - r.off ELSE r.len
           l == IF r.off >= size \/ n <= 0 THEN 0 ELSE Smaller(n, size - r.off)
<1>0. r.off \in Nat /\ r.len \in Int /\ r = [file |-> r.file, off |-> r.off, len |-> r.len]
  BY DEF RequestType
<1>1. n = r.len  BY <1>0
<1>2. Clipped(r, size) = [r EXCEPT !.len = l]  BY DEF Clipped
<1> HIDE DEF n
<1>3. l = r.len  BY <1>0, <1>1 DEF Smaller
<1> HIDE DEF l
<1> QED BY <1>0, <1>2, <1>3

LEMMA CleanStream ==
    ASSUME NEW v, NEW f, NEW r, Clean(v, f, r)
    PROVE  /\ f.kind = "plain" => AllKept(v, f.runs, Touched(r.off, r.len))
           /\ f.kind = "mft" => AllMftKept(v, f.runs, Touched(r.off, r.len))
<1>1. f.kind = "plain" \/ f.kind = "mft" => Needed(f, r) = Touched(r.off, r.len)
  BY DEF Needed, Touched
<1> QED BY <1>1, CleanKind, Zenon

LEMMA BytesOfStream ==
    ASSUME NEW v, NEW runs, NEW off \in Nat, NEW n \in Nat, NEW i \in 1..n
    PROVE  Bytes(StreamOf(v, runs), off, n)[i] = StreamByte(v, runs, off + i - 1)
<1>1. off + i - 1 \in Nat  OBVIOUS
<1> QED BY <1>1 DEF Bytes, StreamOf

LEMMA PlainAnswer ==
    ASSUME ByteTypes, NEW v, IsVolume(v), NEW f \in FileType, f.kind = "plain",
           NEW r, r.off \in Nat, r.len \in Nat, NEW s,
           s = IF r.off >= f.init THEN Zeros(r.len)
               ELSE Padded(ReadViaRuns(v, f.runs, {}, r.off,
                                       Smaller(r.len, f.init - r.off), FALSE), r.len)
    PROVE  AnswerOK(v, f, r, s)
<1>0. f.init \in Nat /\ f.runs \in Seq(RunType) /\ f.kind # "wof"  BY DEF FileType
<1>1. \A x : FileByte(v, f, x) = IF x < f.init THEN StreamByte(v, f.runs, x) ELSE Zero
  BY DEF FileByte
<1>2. CASE r.off >= f.init
  <2>1. Len(s) = r.len /\ \A i \in 1..r.len : s[i] = Zero
    <3> DEFINE l == r.len
    <3>1. l \in Nat /\ s = Zeros(l)  BY <1>2
    <3> HIDE DEF l
    <3>2. Len(Zeros(l)) = l /\ \A i \in 1..l : Zeros(l)[i] = Zero
      BY <3>1, ~ (l < 0), l \in Int DEF Zeros
    <3> QED BY <3>1, <3>2 DEF l
  <2>2. \A i \in 1..r.len : FileByte(v, f, r.off + i - 1) = Zero
    <3> SUFFICES ASSUME NEW i \in 1..r.len PROVE FileByte(v, f, r.off + i - 1) = Zero
      OBVIOUS
    <3>1. ~ (r.off + i - 1 < f.init)  BY <1>0, <1>2
    <3> QED BY <1>1, <3>1
  <2> QED BY <2>1, <2>2, Zenon DEF AnswerOK
<1>3. CASE ~ (r.off >= f.init)
  <2> DEFINE n == Smaller(r.len, f.init - r.off)
             b == ReadViaRuns(v, f.runs, {}, r.off, n, FALSE)
  <2>1. n \in Nat /\ n <= r.len /\ r.off + n <= f.init /\ (n = r.len \/ r.off + n = f.init)
    BY <1>0, <1>3 DEF Smaller
  <2>2. s = Padded(b, r.len)  BY <1>3
  <2> HIDE DEF n
  <2>3. StreamReadIs(v, f.runs, b, r.off, n)  BY <1>0, <2>1, StreamRead
  <2> HIDE DEF b
  <2>4. b \in Seq(Int) /\ Len(b) = n
        /\ (AllKept(v, f.runs, Touched(r.off, n)) => b = Bytes(StreamOf(v, f.runs), r.off, n))
    BY <2>3, Zenon DEF StreamReadIs
  <2>5. Len(s) = r.len /\ \A i \in 1..r.len : s[i] = IF i <= n THEN b[i] ELSE Zero
    <3>1. /\ Len(Padded(b, r.len)) = IF Len(b) < r.len THEN r.len ELSE Len(b)
          /\ \A i \in 1..Len(Padded(b, r.len)) :
                Padded(b, r.len)[i] = IF i <= Len(b) THEN b[i] ELSE Zero
      BY <2>4, PaddedFacts
    <3>2. Len(Padded(b, r.len)) = r.len  BY <2>1, <2>4, <3>1
    <3> QED BY <2>2, <2>4, <3>1, <3>2
  <2>6. ASSUME r.len > 0, Clean(v, f, r), NEW i \in 1..r.len
        PROVE  s[i] = FileByte(v, f, r.off + i - 1)
    <3>1. CASE i <= n
      <4>1. i \in 1..n /\ r.off + i - 1 < f.init  BY <1>0, <2>1, <3>1
      <4>2. AllKept(v, f.runs, Touched(r.off, n))
        <5>1. AllKept(v, f.runs, Touched(r.off, r.len))  BY <2>6, CleanStream
        <5>2. Touched(r.off, n) \subseteq Touched(r.off, r.len)
          <6>1. ClusterSize \in Nat \ {0} /\ r.off \in Nat /\ r.off + n - 1 \in Nat
                /\ r.off + r.len - 1 \in Nat /\ r.off + n - 1 <= r.off + r.len - 1
            BY <2>1, <4>1, ClusterAssumption
          <6> DEFINE x == (r.off + n - 1) \div ClusterSize
                     y == (r.off + r.len - 1) \div ClusterSize
                     w == r.off \div ClusterSize
          <6>2. x \in Nat /\ y \in Nat /\ w \in Nat  BY <6>1, QuotientBounds, Zenon
          <6>3. x <= y  BY <6>1, QuotientMonotone, Zenon
          <6> HIDE DEF x, y, w
          <6>4. w..x \subseteq w..y  BY <6>2, <6>3
          <6> QED BY <6>4 DEF Touched, x, y, w
        <5> QED BY <5>1, <5>2 DEF AllKept
      <4>3. b[i] = StreamByte(v, f.runs, r.off + i - 1)
        <5>1. Bytes(StreamOf(v, f.runs), r.off, n)[i] = StreamByte(v, f.runs, r.off + i - 1)
          <6>1. r.off \in Nat /\ n \in Nat /\ i \in 1..n  BY <2>1, <4>1
          <6> DEFINE o == r.off  B == StreamOf(v, f.runs)
          <6>2. o \in Nat /\ n \in Nat /\ i \in 1..n  BY <6>1
          <6>3. o + i - 1 \in Nat  BY <6>2
          <6>4. B[o + i - 1] = StreamByte(v, f.runs, o + i - 1)  BY <6>3 DEF StreamOf
          <6> HIDE DEF o, B
          <6>5. Bytes(B, o, n)[i] = B[o + i - 1]  BY <6>2 DEF Bytes
          <6> QED BY <6>4, <6>5 DEF o, B
        <5> QED BY <2>4, <4>2, <5>1, Zenon
      <4> QED BY <1>1, <2>5, <3>1, <4>1, <4>3
    <3>2. CASE ~ (i <= n)
      <4>1. ~ (r.off + i - 1 < f.init)  BY <1>0, <2>1, <3>2
      <4> QED BY <1>1, <2>5, <3>2, <4>1
    <3> QED BY <3>1, <3>2
  <2> QED BY <2>5, <2>6, Zenon DEF AnswerOK
<1> QED BY <1>2, <1>3

LEMMA MftAnswer ==
    ASSUME ByteTypes, NEW v, IsVolume(v), NEW f \in FileType, f.kind = "mft",
           BootstrapMft(v, f.runs).runs \in Seq(RunType),
           NEW r, r.off \in Nat, r.len \in Nat, NEW s,
           s = LET m == BootstrapMft(v, f.runs)
               IN ReadViaRuns(v, m.runs, m.found, r.off, r.len, TRUE)
    PROVE  AnswerOK(v, f, r, s)
<1>0. f.runs \in Seq(RunType) /\ f.kind # "wof"  BY DEF FileType
<1>1. \A x : FileByte(v, f, x) = StreamByte(v, f.runs, x)  BY DEF FileByte
<1>2. MftReadIs(v, f.runs, s, r.off, r.len)  BY <1>0, MftRead
<1>3. s \in Seq(Int) /\ Len(s) = r.len
      /\ (AllMftKept(v, f.runs, Touched(r.off, r.len))
             => s = Bytes(StreamOf(v, f.runs), r.off, r.len))
  BY <1>2, Zenon DEF MftReadIs
<1>4. ASSUME r.len > 0, Clean(v, f, r), NEW i \in 1..r.len
      PROVE  s[i] = FileByte(v, f, r.off + i - 1)
  <2>1. AllMftKept(v, f.runs, Touched(r.off, r.len))  BY <1>4, CleanStream
  <2>2. Bytes(StreamOf(v, f.runs), r.off, r.len)[i] = StreamByte(v, f.runs, r.off + i - 1)
    <3> DEFINE o == r.off  n == r.len
    <3>1. o \in Nat /\ n \in Nat /\ i \in 1..n  BY <1>4
    <3> HIDE DEF o, n
    <3>2. o + i - 1 \in Nat  BY <3>1
    <3>3. Bytes(StreamOf(v, f.runs), o, n)[i] = StreamOf(v, f.runs)[o + i - 1]
      BY <3>1, Zenon DEF Bytes
    <3>4. StreamOf(v, f.runs)[o + i - 1] = StreamByte(v, f.runs, o + i - 1)
      BY <3>2, Zenon DEF StreamOf
    <3> QED BY <3>3, <3>4, Zenon DEF o, n
  <2> QED BY <1>1, <1>3, <2>1, <2>2, Zenon
<1> QED BY <1>3, <1>4, Zenon DEF AnswerOK

(* What read_file answers without the cache. *)
LEMMA SimpleAnswer ==
    ASSUME ByteTypes, volume \in Volumes, NEW n \in DOMAIN volume.files,
           volume.files[n].kind \in Simple \ {"dir"},
           NEW r, r.off \in Nat, r.len \in Nat,
           volume.files[n].kind # "mft" /\ r.len > 0 => r.off + r.len <= SizeOf(volume.files[n])
    PROVE  AnswerOK(volume, volume.files[n], r, Answer(volume.files[n], r))
<1> DEFINE f == volume.files[n]  s == Answer(f, r)
<1>0. f \in FileType /\ IsVolume(volume) /\ (f.kind = "nodata" => f.real = 0)
      /\ (f.kind = "mft" => BootstrapMft(volume, f.runs).runs \in Seq(RunType))
  BY VolumeType
<1> SUFFICES AnswerOK(volume, f, r, s)  OBVIOUS
<1>1. f.kind \in Simple \ {"dir"} /\ (f.kind # "mft" /\ r.len > 0 => r.off + r.len <= SizeOf(f))
  OBVIOUS
<1> HIDE DEF f
<1>2. CASE f.kind = "nodata"
  <2>1. s = << >> /\ SizeOf(f) = 0  BY <1>0, <1>2 DEF Answer, SizeOf
  <2>2. r.len = 0 /\ ~ (r.len > 0)  BY <1>1, <1>2, <2>1
  <2> QED BY <2>1, <2>2 DEF AnswerOK
<1>3. CASE f.kind = "resident"
  <2>1. s = SubSeq(f.content, r.off + 1, r.off + r.len) /\ SizeOf(f) = Len(f.content)
    BY <1>3 DEF Answer, SizeOf
  <2>2. f.content \in Seq(Int) /\ Len(f.content) \in Nat  BY <1>0, LenProperties DEF FileType
  <2>3. \A x : FileByte(volume, f, x) = f.content[x + 1]  BY <1>3 DEF FileByte
  <2>4. CASE r.len = 0
    <3>1. ~ (r.off + 1 <= r.off + r.len)  BY <2>4
    <3>2. s = << >>  BY <2>1, <2>2, <3>1, <2>4
    <3> QED BY <2>4, <3>2 DEF AnswerOK
  <2>5. CASE r.len > 0
    <3>1. r.off + r.len <= Len(f.content)  BY <1>1, <1>3, <2>1, <2>5
    <3> DEFINE a == r.off + 1  b == r.off + r.len
    <3>2. a \in 1..(Len(f.content) + 1) /\ b \in (a - 1)..Len(f.content) /\ b - a + 1 = r.len
      BY <2>2, <2>5, <3>1
    <3> HIDE DEF a, b
    <3>3. /\ Len(SubSeq(f.content, a, b)) = b - a + 1
          /\ \A i \in 1..(b - a + 1) : SubSeq(f.content, a, b)[i] = f.content[a + i - 1]
      BY <2>2, <3>2, SubSeqProperties
    <3>4. Len(s) = r.len /\ \A i \in 1..r.len : s[i] = f.content[a + i - 1]
      BY <2>1, <3>2, <3>3 DEF a, b
    <3>5. \A i \in 1..r.len : a + i - 1 = (r.off + i - 1) + 1  BY DEF a
    <3> QED BY <2>3, <3>4, <3>5, Zenon DEF AnswerOK
  <2> QED BY <2>4, <2>5
<1>4. CASE f.kind = "plain"
  <2>1. s = IF r.off >= f.init THEN Zeros(r.len)
            ELSE Padded(ReadViaRuns(volume, f.runs, {}, r.off,
                                    Smaller(r.len, f.init - r.off), FALSE), r.len)
    BY <1>4 DEF Answer
  <2> HIDE DEF s
  <2>2. AnswerOK(volume, f, r, s)  BY <1>0, <1>4, <2>1, PlainAnswer, Zenon
  <2> QED BY <2>2 DEF s
<1>5. CASE f.kind = "mft"
  <2>1. s = LET m == BootstrapMft(volume, f.runs)
            IN ReadViaRuns(volume, m.runs, m.found, r.off, r.len, TRUE)
    BY <1>5 DEF Answer
  <2> HIDE DEF s
  <2>2. AnswerOK(volume, f, r, s)  BY <1>0, <1>5, <2>1, MftAnswer, Zenon
  <2> QED BY <2>2 DEF s
<1>6. f.kind \in {"nodata", "resident", "plain", "mft"}  BY <1>1 DEF Simple
<1> QED BY <1>2, <1>3, <1>4, <1>5, <1>6

-----------------------------------------------------------------------------
(* The inductive invariant.  A thread in the middle of a compressed read    *)
(* wants bytes of the file; what it has of them so far is right, the unit   *)
(* it is at is the one that has the next byte, and the plaintext it holds   *)
(* is that unit's.  The keys of a dictionary are of compressed files, so    *)
(* that what a thread finds is the plaintext of what it asked for.          *)

Reading == Labels \ {"idle", "enter", "done"}
Holds   == {"touch", "refer", "create", "assign", "move", "check", "pop", "use"}

CallOK(v, p, c) ==
    LET f == v.files[c.file] IN
    /\ p # "idle" => c \in RequestType(v)
    /\ p = "enter" /\ f.kind = "mft" => c.len \in Nat
    /\ p \in Reading => /\ f.kind \in Compressed \cup {"nopayload"}
                        /\ c.len > 0 /\ c.off + c.len <= SizeOf(f)
    /\ p = "loop" => f.kind = "lznt1"
    /\ p \in Holds => f.kind \in Compressed

SoFar(v, f, c, o, un) ==
    /\ \A i \in 1..Len(o) : o[i] = FileByte(v, f, c.off + i - 1)
    /\ Len(o) < c.len => un.at * UnitBytes(f) + un.from = c.off + Len(o)

ProgressOK(v, p, c, o, un) ==
    LET f == v.files[c.file] IN
    /\ p \notin Reading => o = << >>
    /\ p \in Reading /\ f.kind = "lznt1" =>
          /\ Len(o) <= c.len /\ (p # "loop" => Len(o) < c.len) /\ un.from < UnitBytes(f)
          /\ Clean(v, f, c) => SoFar(v, f, c, o, un)

HeldOK(v, p, c, un, h) == p \in Holds => IsPlain(v, <<c.file, un.at>>, h)

RefOK(p, d) == p \in {"get", "touch", "assign", "move", "check", "pop"} => d \in Threads

ResultOK(v, p, c, res) ==
    LET f == v.files[c.file] IN
    p = "done" /\ f.kind # "dir" /\ res # KeyError => AnswerOK(v, f, Entitled(f, c), res)

ThreadOK(v, p, c, o, un, h, d, res) ==
    /\ CallOK(v, p, c) /\ ProgressOK(v, p, c, o, un) /\ HeldOK(v, p, c, un, h)
    /\ RefOK(p, d) /\ ResultOK(v, p, c, res)

Thread(t) == ThreadOK(volume, pc[t], call[t], out[t], unit[t], held[t], ref[t], result[t])

KeyType(v) == (DOMAIN v.files) \X Nat
UnitType   == [at : Nat, from : Nat]

LocalType ==
    /\ volume \in Volumes /\ pc \in [Threads -> Labels]
    /\ call = [t \in Threads |-> call[t]] /\ result = [t \in Threads |-> result[t]]
    /\ out \in [Threads -> Seq(Int)] /\ unit \in [Threads -> UnitType]
    /\ held \in [Threads -> Seq(Int)] /\ ref \in [Threads -> Threads \cup {NoDict}]

CacheType ==
    /\ cu \in Threads \cup {NoDict}
    /\ order \in [Threads -> Seq(KeyType(volume))] /\ data = [d \in Threads |-> data[d]]

Entry(v, k, value) == /\ value \in Seq(Int) /\ v.files[k[1]].kind \in Compressed
                      /\ IsPlain(v, k, value)

(* A dictionary: its keys in order and what it has under them. *)
DictOK(v, s, m) == /\ Distinct(s) /\ \A k \in KeyType(v) : k \in DOMAIN m <=> InSeq(k, s)
                   /\ DOMAIN m \subseteq KeyType(v)
                   /\ \A k \in DOMAIN m : Entry(v, k, m[k])

Dict(d) == DictOK(volume, order[d], data[d])

(* Keys that are not of a thread between its assignment and its move to the *)
(* end exceed the limit by the threads that are evicting.                   *)
Pending(d)  == {Key(t) : t \in {u \in Threads : ref[u] = d /\ pc[u] = "move"}}
Settled(d)  == DOMAIN data[d] \ Pending(d)
Evicting(d) == {t \in Threads : ref[t] = d /\ pc[t] \in {"check", "pop"}}

Bounded(d) == Cardinality(Settled(d)) <= UnitCacheMax + Cardinality(Evicting(d))

IInv == /\ LocalType /\ CacheType
        /\ \A t \in Threads : Thread(t)
        /\ \A d \in Threads : Dict(d) /\ Bounded(d)

(* Steps inside a read that leave what the thread has alone. *)
Onward(p, q) == /\ p \in Reading \ {"loop"} /\ q \in Reading \ {"loop"}
                /\ q \in Holds => p \in Holds

LEMMA OnwardThread ==
    ASSUME NEW v, NEW p, NEW q, Onward(p, q), NEW c, NEW o, NEW un, NEW h, NEW d, NEW d2,
           NEW res, NEW res2, ThreadOK(v, p, c, o, un, h, d, res), RefOK(q, d2)
    PROVE  ThreadOK(v, q, c, o, un, h, d2, res2)
<1>1. /\ p \in Reading /\ q \in Reading /\ p # "loop" /\ q # "loop" /\ p # "idle" /\ q # "idle"
      /\ q # "enter" /\ q # "done" /\ (q \in Holds => p \in Holds)
  BY DEF Onward, Reading
<1>2. CallOK(v, q, c)  BY <1>1, Zenon DEF ThreadOK, CallOK
<1>3. ProgressOK(v, q, c, o, un)  BY <1>1, Zenon DEF ThreadOK, ProgressOK
<1>4. HeldOK(v, q, c, un, h)  BY <1>1, Zenon DEF ThreadOK, HeldOK
<1>5. ResultOK(v, q, c, res2)  BY <1>1, Zenon DEF ResultOK
<1> QED BY <1>2, <1>3, <1>4, <1>5, Zenon DEF ThreadOK

(* A call that ends. *)
LEMMA DoneThread ==
    ASSUME NEW v, NEW c \in RequestType(v), NEW un, NEW d, NEW h, NEW res,
           ResultOK(v, "done", c, res)
    PROVE  ThreadOK(v, "done", c, << >>, un, h, d, res)
<1>1. "done" \notin Reading /\ "done" \notin Holds
      /\ "done" \notin {"get", "touch", "assign", "move", "check", "pop"}
  BY DEF Reading, Holds
<1>2. CallOK(v, "done", c)  BY <1>1 DEF CallOK
<1>3. ProgressOK(v, "done", c, << >>, un)  BY <1>1 DEF ProgressOK
<1>4. HeldOK(v, "done", c, un, h) /\ RefOK("done", d)  BY <1>1 DEF HeldOK, RefOK
<1> QED BY <1>2, <1>3, <1>4, Zenon DEF ThreadOK

(* In a read, the request is what the caller is entitled to. *)
LEMMA ReadingCall ==
    ASSUME NEW v \in Volumes, NEW p \in Reading, NEW c, CallOK(v, p, c)
    PROVE  /\ c \in RequestType(v) /\ v.files[c.file] \in FileType
           /\ c.off \in Nat /\ c.len \in Nat \ {0}
           /\ v.files[c.file].kind \in Compressed \cup {"nopayload"}
           /\ Entitled(v.files[c.file], c) = c
<1> DEFINE f == v.files[c.file]
<1>0. p # "idle"  BY DEF Reading
<1>1. c \in RequestType(v) /\ f.kind \in Compressed \cup {"nopayload"}
      /\ c.len > 0 /\ c.off + c.len <= SizeOf(f)
  BY <1>0, Zenon DEF CallOK
<1>2. c.file \in DOMAIN v.files /\ c.off \in Nat /\ c.len \in Int  BY <1>1 DEF RequestType
<1>3. f \in FileType  BY <1>2, VolumeType
<1> HIDE DEF f
<1>4. SizeOf(f) \in Nat  BY <1>3, SizeType
<1>5. Clipped(c, SizeOf(f)) = c  BY <1>1, <1>4, ClippedTwice
<1>6. f.kind # "mft"  BY <1>1 DEF Compressed
<1>7. Entitled(f, c) = c  BY <1>5, <1>6 DEF Entitled
<1> QED BY <1>1, <1>2, <1>3, <1>7 DEF f

-----------------------------------------------------------------------------
(* What is taken of the bytes held *)

LEMMA SlicedFacts ==
    ASSUME NEW s \in Seq(Int), NEW from \in Nat, NEW m \in Nat
    PROVE  /\ Part(s, from, m) \in Seq(Int) /\ Len(Part(s, from, m)) <= m
           /\ from + m <= Len(s) => /\ Len(Part(s, from, m)) = m
                                    /\ \A i \in 1..m : Part(s, from, m)[i] = s[from + i]
<1> DEFINE e == Smaller(from + m, Len(s))  a == from + 1
<1>0. Len(s) \in Nat  BY LenProperties
<1>1. e \in Nat /\ e <= Len(s) /\ e <= from + m /\ (from + m <= Len(s) => e = from + m)
  BY <1>0 DEF Smaller
<1>2. Part(s, from, m) = SubSeq(s, a, e)  BY DEF Part
<1> HIDE DEF e
<1>3. CASE e < a
  <2>1. SubSeq(s, a, e) = << >>  BY <1>1, <1>3
  <2>2. << >> \in Seq(Int) /\ Len(<< >>) = 0  OBVIOUS
  <2>3. from + m <= Len(s) => m = 0  BY <1>0, <1>1, <1>3
  <2>4. from + m <= Len(s) => \A i \in 1..m : FALSE  BY <2>3
  <2> DEFINE q == Part(s, from, m)
  <2>5. q \in Seq(Int) /\ Len(q) = 0  BY <1>2, <2>1, <2>2
  <2> HIDE DEF q
  <2>6. Len(q) <= m /\ (from + m <= Len(s) => Len(q) = m)  BY <2>3, <2>5
  <2> QED BY <2>4, <2>5, <2>6 DEF q
<1>4. CASE ~ (e < a)
  <2>1. a \in 1..(Len(s) + 1) /\ e \in (a - 1)..Len(s)  BY <1>0, <1>1, <1>4
  <2> HIDE DEF a
  <2>2. /\ SubSeq(s, a, e) \in Seq(Int) /\ Len(SubSeq(s, a, e)) = e - a + 1
        /\ \A i \in 1..(e - a + 1) : SubSeq(s, a, e)[i] = s[a + i - 1]
    BY <2>1, SubSeqProperties
  <2>3. e - a + 1 <= m  BY <1>0, <1>1 DEF a
  <2>4. ASSUME from + m <= Len(s)
        PROVE  e - a + 1 = m /\ \A i \in 1..m : a + i - 1 = from + i
    BY <1>0, <1>1, <2>4 DEF a
  <2>5. ASSUME from + m <= Len(s), NEW i \in 1..m PROVE SubSeq(s, a, e)[i] = s[from + i]
    BY <2>2, <2>4, <2>5
  <2> QED BY <1>2, <2>2, <2>3, <2>4, <2>5
<1> QED BY <1>3, <1>4

(* Taken, of what one thread has. *)
TakenOf(f, c, o, un, h) ==
    LET need  == c.len - Len(o)
        chunk == Part(h, un.from, Smaller(need, UnitBytes(f) - un.from))
        first == un.at * UnitBytes(f) + un.from
    IN [i \in 1..Len(chunk) |-> IF first + i - 1 < f.init THEN chunk[i] ELSE Zero]

TakenIs(v, f, c, o, un, h) ==
    LET s == TakenOf(f, c, o, un, h)
        m == Smaller(c.len - Len(o), UnitBytes(f) - un.from)
    IN /\ s \in Seq(Int) /\ Len(s) <= m
       /\ Clean(v, f, c) => /\ Len(s) = m
                            /\ \A i \in 1..m : s[i] = FileByte(v, f, c.off + Len(o) + i - 1)

LEMMA TakenFacts ==
    ASSUME ByteTypes, NEW v \in Volumes, NEW n \in DOMAIN v.files, v.files[n].kind = "lznt1",
           NEW c, c.off \in Nat, c.len \in Nat \ {0},
           NEW o \in Seq(Int), Len(o) < c.len,
           NEW un \in UnitType, un.from < UnitBytes(v.files[n]), NEW h \in Seq(Int),
           Clean(v, v.files[n], c) => SoFar(v, v.files[n], c, o, un),
           IsPlain(v, <<n, un.at>>, h)
    PROVE  TakenIs(v, v.files[n], c, o, un, h)
<1> DEFINE f == v.files[n]  ub == UnitBytes(f)  at == un.at  from == un.from
           l == Len(o)  m == Smaller(c.len - l, ub - from)  p == Part(h, from, m)
           first == at * ub + from  s == TakenOf(f, c, o, un, h)
<1>0. f \in FileType /\ IsVolume(v) /\ f.kind = "lznt1"  BY VolumeType
<1>1. ub \in Nat \ {0}  BY <1>0, UnitBytesType
<1>2. at \in Nat /\ from \in Nat /\ from < ub  BY DEF UnitType
<1>3. l \in Nat /\ l < c.len /\ c.off \in Nat /\ c.len \in Nat  BY LenProperties
<1>4. s = [i \in 1..Len(p) |-> IF first + i - 1 < f.init THEN p[i] ELSE Zero]  BY DEF TakenOf
<1>5. IsPlain(v, <<n, at>>, h) /\ (Clean(v, f, c) => SoFar(v, f, c, o, un))  OBVIOUS
<1> HIDE DEF f, ub, at, from, l, s
<1>6. m \in Nat \ {0} /\ m <= c.len - l /\ from + m <= ub  BY <1>1, <1>2, <1>3 DEF Smaller
<1> HIDE DEF m
<1>7. /\ p \in Seq(Int) /\ Len(p) <= m
      /\ from + m <= Len(h) => Len(p) = m /\ \A i \in 1..m : p[i] = h[from + i]
  BY <1>2, <1>6, SlicedFacts
<1> HIDE DEF p
<1>8. f.init \in Nat /\ first \in Nat
  <2>1. at * ub \in Nat  BY <1>1, <1>2
  <2> QED BY <1>0, <1>2, <2>1 DEF FileType
<1>9. s \in Seq(Int) /\ Len(s) = Len(p)
  <2>1. Len(p) \in Nat /\ \A i \in 1..Len(p) : p[i] \in Int  BY <1>7, ElementOfSeq, LenProperties
  <2>2. s \in [1..Len(p) -> Int]  BY <1>4, <2>1 DEF ByteTypes
  <2> QED BY <2>1, <2>2, FunctionIsSeq, Zenon
<1>10. ASSUME Clean(v, f, c)
       PROVE  Len(s) = m /\ \A i \in 1..m : s[i] = FileByte(v, f, c.off + l + i - 1)
  <2>1. first = c.off + l  BY <1>3, <1>5, <1>10 DEF SoFar, ub, at, from, l
  <2>2. first \in c.off..(c.off + c.len - 1)  BY <1>3, <2>1
  <2>3. \A j \in 0..(m - 1) : (first + j) \div ub = at /\ (first + j) % ub = from + j
    <3> SUFFICES ASSUME NEW j \in 0..(m - 1)
                 PROVE  (first + j) \div ub = at /\ (first + j) % ub = from + j
      OBVIOUS
    <3> DEFINE x == first + j
    <3>1. at * ub \in Nat  BY <1>1, <1>2
    <3>2. x \in Int /\ at \in Int /\ at * ub <= x /\ x < at * ub + ub /\ x - at * ub = from + j
      BY <1>1, <1>2, <1>6, <1>8, <3>1
    <3> HIDE DEF x
    <3>3. x \div ub = at /\ x % ub = x - at * ub  BY <1>1, <3>2, QuotientIs, Zenon
    <3> QED BY <3>2, <3>3 DEF x
  <2>4. UnitKept(v, f, at)
    <3>1. UnitKept(v, f, first \div ub)
      BY <1>0, <1>3, <1>10, <2>2, NeededOfUnits DEF ub
    <3>2. first + 0 = first /\ 0 \in 0..(m - 1)  BY <1>6, <1>8
    <3>3. first \div ub = at  BY <2>3, <3>2
    <3> QED BY <3>1, <3>3
  <2>5. h = UnitOf(v, f, at)
    <3> DEFINE k == <<n, at>>
    <3>1. k[1] = n /\ k[2] = at /\ k[2] \in Nat  BY <1>2
    <3> HIDE DEF k
    <3>2. Clean(v, f, Whole(f, k))  BY <1>0, <2>4, <3>1, CleanUnit
    <3>3. f.kind # "wof"  BY <1>0
    <3> QED BY <1>5, <3>1, <3>2, <3>3, Zenon DEF IsPlain, PlainOf, k, f
  <2>6. DecompressIs(v, f, at)  BY <1>0, <1>2, DecompressFacts
  <2>7. Len(h) >= ub
    <3>1. Len(UnitOf(v, f, at)) >= ub  BY <2>6, Zenon DEF DecompressIs, ub
    <3> QED BY <2>5, <3>1
  <2>8. Len(p) = m /\ \A i \in 1..m : p[i] = h[from + i]
    <3>1. Len(h) \in Nat  BY LenProperties
    <3>2. from + m <= Len(h)  BY <1>1, <1>2, <1>6, <2>7, <3>1
    <3> QED BY <1>7, <3>2
  <2>9. ASSUME NEW i \in 1..m PROVE s[i] = FileByte(v, f, c.off + l + i - 1)
    <3> DEFINE j == i - 1  x == first + i - 1
    <3>1. j \in 0..(m - 1) /\ first + j = x /\ from + j + 1 = from + i
      BY <1>2, <1>6, <1>8
    <3>2. x \div ub = at /\ (x % ub) + 1 = from + i  BY <2>3, <3>1
    <3>3. s[i] = IF x < f.init THEN p[i] ELSE Zero  BY <1>4, <2>8
    <3>4. FileByte(v, f, x) = IF x < f.init THEN UnitOf(v, f, x \div ub)[(x % ub) + 1] ELSE Zero
      BY <1>0 DEF FileByte, ub
    <3>5. p[i] = UnitOf(v, f, at)[from + i]  BY <2>5, <2>8
    <3> HIDE DEF x
    <3>6. s[i] = FileByte(v, f, x)  BY <3>2, <3>3, <3>4, <3>5
    <3>7. x = c.off + l + i - 1  BY <1>3, <1>8, <2>1 DEF x
    <3> QED BY <3>6, <3>7
  <2> QED BY <1>9, <2>8, <2>9
<1>11. Len(s) <= m  BY <1>7, <1>9
<1> QED BY <1>9, <1>10, <1>11, Zenon DEF TakenIs, f, s, m, l, ub, from

(* A unit's bytes are added. *)
LEMMA UnitTaken ==
    ASSUME ByteTypes, NEW v \in Volumes, NEW c, NEW o \in Seq(Int), NEW un \in UnitType,
           NEW h \in Seq(Int), NEW d, NEW res, ThreadOK(v, "use", c, o, un, h, d, res),
           v.files[c.file].kind = "lznt1", NEW h2, NEW d2, NEW res2
    PROVE  LET f == v.files[c.file]  s == TakenOf(f, c, o, un, h) IN
           /\ s \in Seq(Int)
           /\ ThreadOK(v, "loop", c, o \o s, [at |-> un.at + 1, from |-> 0], h2, d2, res2)
<1> DEFINE f == v.files[c.file]  s == TakenOf(f, c, o, un, h)  ub == UnitBytes(f)
           m == Smaller(c.len - Len(o), ub - un.from)  w == [at |-> un.at + 1, from |-> 0]
<1>0. "use" \in Reading /\ "loop" \in Reading /\ "loop" \notin Holds /\ "use" \in Holds
  BY DEF Reading, Holds, Labels
<1>1. CallOK(v, "use", c) /\ ProgressOK(v, "use", c, o, un) /\ HeldOK(v, "use", c, un, h)
  BY Zenon DEF ThreadOK
<1>2. /\ c \in RequestType(v) /\ f \in FileType /\ c.off \in Nat /\ c.len \in Nat \ {0}
  BY <1>0, <1>1, ReadingCall
<1>3. c.file \in DOMAIN v.files  BY <1>2 DEF RequestType
<1>4. /\ Len(o) < c.len /\ un.from < ub
      /\ Clean(v, f, c) => SoFar(v, f, c, o, un)
  BY <1>0, <1>1 DEF ProgressOK
<1>5. IsPlain(v, <<c.file, un.at>>, h)  BY <1>0, <1>1 DEF HeldOK
<1>6. TakenIs(v, f, c, o, un, h)  BY <1>2, <1>3, <1>4, <1>5, TakenFacts
<1>7. /\ s \in Seq(Int) /\ Len(s) <= m
      /\ Clean(v, f, c) => /\ Len(s) = m
                           /\ \A i \in 1..m : s[i] = FileByte(v, f, c.off + Len(o) + i - 1)
  BY <1>6, Zenon DEF TakenIs
<1>8. un.at \in Nat /\ un.from \in Nat  BY DEF UnitType
<1>9. ub \in Nat \ {0}  BY <1>2, UnitBytesType
<1>10. f.kind = "lznt1"  OBVIOUS
<1> HIDE DEF f, ub, s
<1>11. Len(o) \in Nat /\ Len(s) \in Nat  BY <1>7, LenProperties
<1>12. m \in Nat /\ m <= c.len - Len(o) /\ (m < c.len - Len(o) => m = ub - un.from)
  <2> DEFINE y == c.len - Len(o)  z == ub - un.from
  <2>1. y \in Nat /\ z \in Nat /\ m = Smaller(y, z)  BY <1>2, <1>4, <1>8, <1>9, <1>11
  <2> HIDE DEF y, z
  <2>2. Smaller(y, z) \in Nat /\ Smaller(y, z) <= y /\ (Smaller(y, z) < y => Smaller(y, z) = z)
    BY <2>1 DEF Smaller
  <2> QED BY <2>1, <2>2 DEF y, z
<1> HIDE DEF m
<1>13. /\ o \o s \in Seq(Int) /\ Len(o \o s) = Len(o) + Len(s)
       /\ \A i \in 1..(Len(o) + Len(s)) :
             (o \o s)[i] = IF i <= Len(o) THEN o[i] ELSE s[i - Len(o)]
  BY <1>7, ConcatProperties
<1>14. Len(o \o s) <= c.len  BY <1>2, <1>7, <1>11, <1>12, <1>13
<1>15. ASSUME Clean(v, f, c) PROVE SoFar(v, f, c, o \o s, w)
  <2>1. ASSUME NEW i \in 1..Len(o \o s) PROVE (o \o s)[i] = FileByte(v, f, c.off + i - 1)
    <3>1. CASE i <= Len(o)
      <4>1. i \in 1..Len(o)  BY <1>11, <3>1
      <4> QED BY <1>4, <1>13, <1>15, <2>1, <3>1, <4>1 DEF SoFar
    <3>2. CASE ~ (i <= Len(o))
      <4> DEFINE j == i - Len(o)
      <4>1. j \in 1..m /\ c.off + Len(o) + j - 1 = c.off + i - 1
        BY <1>2, <1>7, <1>11, <1>13, <1>15, <2>1, <3>2
      <4>2. (o \o s)[i] = s[j]  BY <1>13, <2>1, <3>2
      <4> HIDE DEF j
      <4>3. s[j] = FileByte(v, f, c.off + Len(o) + j - 1)  BY <1>7, <1>15, <4>1
      <4> QED BY <4>1, <4>2, <4>3
    <3> QED BY <3>1, <3>2
  <2>2. ASSUME Len(o \o s) < c.len PROVE w.at * ub + w.from = c.off + Len(o \o s)
    <3>1. m = ub - un.from /\ Len(s) = m
      BY <1>2, <1>7, <1>11, <1>12, <1>13, <1>15, <2>2
    <3>2. un.at * ub + un.from = c.off + Len(o)  BY <1>4, <1>15 DEF SoFar, ub
    <3>3. (un.at + 1) * ub = un.at * ub + ub /\ un.at * ub \in Nat  BY <1>8, <1>9
    <3>4. (un.at + 1) * ub + 0 = c.off + (Len(o) + Len(s))
      <4> DEFINE x == un.at * ub  y == (un.at + 1) * ub  a == Len(o)  b == Len(s)  k == un.from
                 e == c.off
      <4>1. /\ x \in Nat /\ y = x + ub /\ ub \in Nat /\ k \in Nat /\ a \in Nat /\ b \in Nat
            /\ e \in Nat /\ x + k = e + a /\ b = ub - k
        BY <1>2, <1>8, <1>9, <1>11, <3>1, <3>2, <3>3
      <4> HIDE DEF x, y, a, b, k, e
      <4>2. y + 0 = e + (a + b)  BY <4>1
      <4> QED BY <4>2 DEF y, a, b, e
    <3> QED BY <1>13, <3>4
  <2> QED BY <2>1, <2>2, Zenon DEF SoFar, ub
<1>16. w.from < ub  BY <1>9
<1> HIDE DEF w
<1>17. ProgressOK(v, "loop", c, o \o s, w)
  BY <1>0, <1>14, <1>15, <1>16 DEF ProgressOK, f, ub
<1>18. CallOK(v, "loop", c)
  <2>1. "loop" # "idle" /\ "loop" # "enter" /\ "use" # "idle"  OBVIOUS
  <2> QED BY <1>0, <1>1, <1>2, <1>10, <2>1, Zenon DEF CallOK, f
<1>19. HeldOK(v, "loop", c, w, h2) /\ RefOK("loop", d2) /\ ResultOK(v, "loop", c, res2)
  BY <1>0 DEF HeldOK, RefOK, ResultOK
<1>20. ThreadOK(v, "loop", c, o \o s, w, h2, d2, res2)
  BY <1>17, <1>18, <1>19, Zenon DEF ThreadOK
<1> QED BY <1>7, <1>20, Zenon DEF f, s, w

LEMMA WofTaken ==
    ASSUME ByteTypes, NEW v \in Volumes, NEW c, NEW o, NEW un, NEW h \in Seq(Int), NEW d, NEW res,
           ThreadOK(v, "use", c, o, un, h, d, res), v.files[c.file].kind = "wof"
    PROVE  ResultOK(v, "done", c, Part(h, c.off, c.len))
<1> DEFINE f == v.files[c.file]  s == Part(h, c.off, c.len)  plain == Xpress(Payload(v, f), f.size)
           k == <<c.file, un.at>>
<1>0. "use" \in Reading /\ "use" \in Holds /\ "use" # "idle"  BY DEF Reading, Holds, Labels
<1>1. CallOK(v, "use", c) /\ HeldOK(v, "use", c, un, h)  BY Zenon DEF ThreadOK
<1>2. /\ c \in RequestType(v) /\ f \in FileType /\ c.off \in Nat /\ c.len \in Nat \ {0}
      /\ Entitled(f, c) = c
  BY <1>0, <1>1, ReadingCall
<1>3. c.file \in DOMAIN v.files  BY <1>2 DEF RequestType
<1>4. IsPlain(v, k, h)  BY <1>0, <1>1 DEF HeldOK
<1>5. f.kind = "wof" /\ k[1] = c.file  OBVIOUS
<1>6. plain = XpressError \/ Len(plain) = f.size
  BY <1>3, <1>5, PayloadsAssumption, Zenon
<1>7. c.off + c.len <= SizeOf(f)  BY <1>0, <1>1, Zenon DEF CallOK
<1>8. SizeOf(f) = f.size /\ f.size \in Nat  BY <1>2, <1>5 DEF SizeOf, FileType
<1> HIDE DEF k
<1>9. Clean(v, f, Whole(f, k)) => h = plain
  BY <1>4, <1>5, Zenon DEF IsPlain, PlainOf
<1> HIDE DEF f
<1>10. Needed(f, Whole(f, k)) = Needed(f, c)
  <2>1. f.kind \notin {"plain", "mft"} /\ f.kind # "lznt1"  BY <1>5
  <2>2. \A r : Needed(f, r) = 0..((f.real - 1) \div ClusterSize)
    BY <1>5, <2>1 DEF Needed
  <2> QED BY <2>2, Zenon
<1>11. Clean(v, f, c) => h = plain  BY <1>9, <1>10, Zenon DEF Clean
<1>12. \A x : FileByte(v, f, x) = IF plain = XpressError THEN Zero ELSE plain[x + 1]
  BY <1>5 DEF FileByte
<1> HIDE DEF plain
<1>13. ASSUME Clean(v, f, c)
       PROVE  Len(s) = c.len /\ \A i \in 1..c.len : s[i] = FileByte(v, f, c.off + i - 1)
  <2>1. h = plain /\ plain # XpressError  BY <1>11, <1>13 DEF ByteTypes
  <2>2. Len(h) = f.size  BY <1>6, <2>1
  <2>3. c.off + c.len <= Len(h) /\ c.len \in Nat  BY <1>2, <1>7, <1>8, <2>2
  <2> DEFINE a == c.off  n == c.len
  <2>4. a \in Nat /\ n \in Nat /\ a + n <= Len(h)  BY <1>2, <2>3
  <2> HIDE DEF a, n
  <2>5. Len(Part(h, a, n)) = n /\ \A i \in 1..n : Part(h, a, n)[i] = h[a + i]
    BY <2>4, SlicedFacts
  <2>6. \A i \in 1..n : a + i = (a + i - 1) + 1  BY <2>4
  <2>7. \A i \in 1..n : Part(h, a, n)[i] = FileByte(v, f, a + i - 1)
    BY <1>12, <2>1, <2>5, <2>6
  <2> QED BY <2>5, <2>7 DEF a, n
<1>14. AnswerOK(v, f, c, s)  BY <1>5, <1>13, Zenon DEF AnswerOK
<1> QED BY <1>2, <1>14, Zenon DEF ResultOK, f, s

(* A file that does not decode is zeros. *)
LEMMA ZerosTaken ==
    ASSUME ByteTypes, NEW v \in Volumes, NEW c, NEW o, NEW un \in UnitType, NEW h, NEW d, NEW res,
           ThreadOK(v, "build", c, o, un, h, d, res),
           v.files[c.file].kind = "nopayload"
              \/ Decoded(v, v.files[c.file], un.at) = XpressError
    PROVE  ResultOK(v, "done", c, Zeros(c.len))
<1> DEFINE f == v.files[c.file]  s == Decoded(v, f, un.at)  k == <<c.file, un.at>>
<1>0. "build" \in Reading  BY DEF Reading, Labels
<1>1. CallOK(v, "build", c)  BY Zenon DEF ThreadOK
<1>2. /\ c \in RequestType(v) /\ f \in FileType /\ c.off \in Nat /\ c.len \in Nat \ {0}
      /\ f.kind \in Compressed \cup {"nopayload"} /\ Entitled(f, c) = c
  BY <1>0, <1>1, ReadingCall
<1>3. c.file \in DOMAIN v.files  BY <1>2 DEF RequestType
<1>4. Len(Zeros(c.len)) = c.len /\ \A i \in 1..c.len : Zeros(c.len)[i] = Zero
  <2> DEFINE l == c.len
  <2>1. l \in Nat  BY <1>2
  <2> HIDE DEF l
  <2>2. Len(Zeros(l)) = l /\ \A i \in 1..l : Zeros(l)[i] = Zero
    BY <2>1, ~ (l < 0), l \in Int DEF Zeros
  <2> QED BY <2>2 DEF l
<1>5. f.kind = "nopayload" \/ s = XpressError  OBVIOUS
<1>6. ASSUME Clean(v, f, c) PROVE \A x : FileByte(v, f, x) = Zero
  <2>1. CASE f.kind = "nopayload"  BY <2>1 DEF FileByte
  <2>2. CASE f.kind # "nopayload"
    <3>1. f.kind \in Compressed /\ s = XpressError  BY <1>2, <1>5, <2>2
    <3>2. un.at \in Nat  BY DEF UnitType
    <3>3. DecodedIs(v, c.file, un.at)  BY <1>3, <3>1, <3>2, DecodedFacts
    <3>4. (f.kind = "lznt1" => s \in Seq(Int)) /\ IsPlain(v, k, s)
      BY <3>3, Zenon DEF DecodedIs
    <3>5. f.kind = "wof"  BY <3>1, <3>4 DEF ByteTypes, Compressed
    <3>6. k[1] = c.file  OBVIOUS
    <3> HIDE DEF k
    <3>7. Clean(v, f, Whole(f, k)) => s = Xpress(Payload(v, f), f.size)
      BY <3>4, <3>5, <3>6, Zenon DEF IsPlain, PlainOf
    <3> HIDE DEF f
    <3>8. \A r : Needed(f, r) = 0..((f.real - 1) \div ClusterSize)
      <4>1. f.kind \notin {"plain", "mft"} /\ f.kind # "lznt1"  BY <3>5
      <4> QED BY <3>5, <4>1 DEF Needed
    <3>9. Clean(v, f, Whole(f, k))  BY <1>6, <3>8, Zenon DEF Clean
    <3>10. Xpress(Payload(v, f), f.size) = XpressError  BY <3>1, <3>7, <3>9
    <3> QED BY <3>5, <3>10 DEF FileByte
  <2> QED BY <2>1, <2>2
<1>7. AnswerOK(v, f, c, Zeros(c.len))  BY <1>4, <1>6, Zenon DEF AnswerOK
<1> QED BY <1>2, <1>7, Zenon DEF ResultOK, f

(* The loop ends when it has all, or past the initialised bytes. *)
LEMMA LoopTaken ==
    ASSUME ByteTypes, NEW v \in Volumes, NEW c, NEW o \in Seq(Int), NEW un, NEW h, NEW d, NEW res,
           ThreadOK(v, "loop", c, o, un, h, d, res)
    PROVE  /\ c.len - Len(o) <= 0 => ResultOK(v, "done", c, o)
           /\ ~ (c.len - Len(o) <= 0) /\ c.off + Len(o) >= v.files[c.file].init =>
                 ResultOK(v, "done", c, o \o Zeros(c.len - Len(o)))
           /\ ~ (c.len - Len(o) <= 0) => ThreadOK(v, "look", c, o, un, h, d, res)
<1> DEFINE f == v.files[c.file]  need == c.len - Len(o)
<1>0. "loop" \in Reading /\ "look" \in Reading /\ "look" \notin Holds /\ "loop" # "idle"
  BY DEF Reading, Holds, Labels
<1>1. CallOK(v, "loop", c) /\ ProgressOK(v, "loop", c, o, un)  BY Zenon DEF ThreadOK
<1>2. /\ c \in RequestType(v) /\ f \in FileType /\ c.off \in Nat /\ c.len \in Nat \ {0}
      /\ Entitled(f, c) = c
  BY <1>0, <1>1, ReadingCall
<1>3. f.kind = "lznt1"  BY <1>1 DEF CallOK
<1>4. /\ Len(o) <= c.len /\ un.from < UnitBytes(f)
      /\ Clean(v, f, c) => SoFar(v, f, c, o, un)
  BY <1>0, <1>1, <1>3, Zenon DEF ProgressOK
<1>5. CallOK(v, "look", c)
  <2>1. "look" # "idle" /\ "look" # "enter" /\ "look" # "loop"  OBVIOUS
  <2> QED BY <1>0, <1>1, <2>1, Zenon DEF CallOK
<1> HIDE DEF f
<1>6. Len(o) \in Nat /\ f.init \in Nat /\ f.kind # "wof"  BY <1>2, <1>3, LenProperties DEF FileType
<1>7. ASSUME need <= 0 PROVE ResultOK(v, "done", c, o)
  <2>1. Len(o) = c.len  BY <1>2, <1>4, <1>6, <1>7
  <2>2. Clean(v, f, c) => \A i \in 1..c.len : o[i] = FileByte(v, f, c.off + i - 1)
    BY <1>4, <2>1 DEF SoFar
  <2>3. AnswerOK(v, f, c, o)  BY <2>1, <2>2, Zenon DEF AnswerOK
  <2> QED BY <1>2, <2>3, Zenon DEF ResultOK, f
<1>8. ASSUME ~ (need <= 0), c.off + Len(o) >= f.init
      PROVE  ResultOK(v, "done", c, o \o Zeros(need))
  <2> DEFINE l == Len(o)  a == c.off  n == c.len  z == Zeros(need)  s == o \o z
  <2>1. need \in Nat /\ ~ (need < 0) /\ need \in Int  BY <1>2, <1>6, <1>8
  <2>2. l \in Nat /\ a \in Nat /\ n \in Nat /\ need = n - l /\ a + l >= f.init
    BY <1>2, <1>6, <1>8
  <2> HIDE DEF need
  <2>3. z \in Seq(Int) /\ Len(z) = need /\ \A i \in 1..need : z[i] = Zero
    BY <2>1, ZerosFacts
  <2> HIDE DEF z
  <2>4. Len(s) = Len(o) + Len(z) /\ \A i \in 1..(Len(o) + Len(z)) :
           s[i] = IF i <= Len(o) THEN o[i] ELSE z[i - Len(o)]
    BY <2>3, ConcatProperties
  <2>5. Len(s) = n  BY <2>2, <2>3, <2>4
  <2>6. ASSUME Clean(v, f, c), NEW i \in 1..n PROVE s[i] = FileByte(v, f, a + i - 1)
    <3>1. CASE i <= l
      <4>1. i \in 1..l /\ i \in 1..(Len(o) + Len(z))  BY <2>2, <2>3, <3>1
      <4> QED BY <1>4, <2>4, <2>6, <3>1, <4>1 DEF SoFar
    <3>2. CASE ~ (i <= l)
      <4>1. i - l \in 1..need /\ i \in 1..(Len(o) + Len(z))  BY <2>2, <2>3, <3>2
      <4>2. s[i] = z[i - l]  BY <2>4, <3>2, <4>1
      <4>3. ~ (a + i - 1 < f.init)  BY <1>6, <2>2, <3>2
      <4>4. FileByte(v, f, a + i - 1) = Zero  BY <1>3, <4>3 DEF FileByte
      <4> QED BY <2>3, <4>1, <4>2, <4>4
    <3> QED BY <3>1, <3>2
  <2> HIDE DEF s
  <2>7. AnswerOK(v, f, c, s)  BY <2>5, <2>6, Zenon DEF AnswerOK, a, n
  <2> QED BY <1>2, <2>7, Zenon DEF ResultOK, f, s, z
<1>9. ASSUME ~ (need <= 0) PROVE ThreadOK(v, "look", c, o, un, h, d, res)
  <2>1. Len(o) < c.len  BY <1>2, <1>6, <1>9
  <2>2. ProgressOK(v, "look", c, o, un)  BY <1>0, <1>4, <2>1 DEF ProgressOK, f
  <2>3. HeldOK(v, "look", c, un, h) /\ RefOK("look", d) /\ ResultOK(v, "look", c, res)
    BY <1>0 DEF HeldOK, RefOK, ResultOK
  <2> QED BY <1>5, <2>2, <2>3, Zenon DEF ThreadOK
<1> QED BY <1>7, <1>8, <1>9 DEF f

(* read_file decides how the file is read. *)
LEMMA Entered ==
    ASSUME ByteTypes, volume \in Volumes, NEW c, NEW o, NEW un, NEW h, NEW d, NEW res,
           ThreadOK(volume, "enter", c, o, un, h, d, res)
    PROVE  LET f == Files[c.file]
               r == IF f.kind = "mft" THEN c ELSE Clipped(c, SizeOf(f))
               first == IF f.kind = "lznt1" THEN [at |-> r.off \div UnitBytes(f),
                                                  from |-> r.off % UnitBytes(f)] ELSE un
               next == IF f.kind = "lznt1" THEN "loop" ELSE "look"
           IN /\ c \in RequestType(volume)
              /\ f.kind \in Simple => ResultOK(volume, "done", c, Answer(f, r))
              /\ f.kind \notin Simple /\ r.len = 0 => ResultOK(volume, "done", c, << >>)
              /\ f.kind \notin Simple /\ r.len # 0 => ThreadOK(volume, next, r, o, first, h, d, res)
              /\ f.kind = "lznt1" => first \in UnitType
<1> DEFINE f == Files[c.file]
           r == IF f.kind = "mft" THEN c ELSE Clipped(c, SizeOf(f))
           first == IF f.kind = "lznt1" THEN [at |-> r.off \div UnitBytes(f),
                                              from |-> r.off % UnitBytes(f)] ELSE un
           next == IF f.kind = "lznt1" THEN "loop" ELSE "look"
<1>0. CallOK(volume, "enter", c) /\ ProgressOK(volume, "enter", c, o, un)  BY Zenon DEF ThreadOK
<1>1. c \in RequestType(volume) /\ (f.kind = "mft" => c.len \in Nat) /\ o = << >>
  BY <1>0 DEF CallOK, ProgressOK, Reading, Files
<1>2. c.file \in DOMAIN volume.files /\ c.off \in Nat /\ c.len \in Int  BY <1>1 DEF RequestType
<1>3. f = volume.files[c.file] /\ f \in FileType  BY <1>2, VolumeType DEF Files
<1>4. SizeOf(f) \in Nat /\ r = Entitled(f, c)  BY <1>3, SizeType DEF Entitled
<1>5. /\ r \in RequestType(volume) /\ r.file = c.file /\ r.off = c.off /\ r.len \in Nat
      /\ f.kind # "mft" /\ r.len > 0 => r.off + r.len <= SizeOf(f)
  <2>1. CASE f.kind = "mft"  BY <1>1, <2>1
  <2>2. CASE f.kind # "mft"
    <3>1. ClippedIs(volume, c, SizeOf(f)) /\ r = Clipped(c, SizeOf(f))
      BY <1>1, <1>4, <2>2, ClippedFacts
    <3> HIDE DEF r, f
    <3> QED BY <3>1, Zenon DEF ClippedIs
  <2> QED BY <2>1, <2>2
<1> HIDE DEF r, f
<1>6. ASSUME f.kind \in Simple PROVE ResultOK(volume, "done", c, Answer(f, r))
  <2>1. CASE f.kind = "dir"  BY <1>3, <2>1 DEF ResultOK
  <2>2. CASE f.kind # "dir"
    <3>1. f.kind \in Simple \ {"dir"} /\ r.off \in Nat  BY <1>2, <1>5, <1>6, <2>2
    <3>2. AnswerOK(volume, f, r, Answer(f, r))  BY <1>2, <1>3, <1>5, <3>1, SimpleAnswer
    <3> QED BY <1>3, <1>4, <3>2, Zenon DEF ResultOK
  <2> QED BY <2>1, <2>2
<1>7. ASSUME r.len = 0 PROVE ResultOK(volume, "done", c, << >>)
  <2>1. ~ (r.len > 0) /\ Len(<< >>) = r.len  BY <1>7
  <2>2. AnswerOK(volume, f, r, << >>)  BY <2>1, Zenon DEF AnswerOK
  <2> QED BY <1>3, <1>4, <2>2, Zenon DEF ResultOK
<1>8. UnitBytes(f) \in Nat \ {0}  BY <1>3, UnitBytesType
<1>9. ASSUME f.kind = "lznt1"
      PROVE  /\ first \in UnitType /\ first.from < UnitBytes(f)
             /\ first.at * UnitBytes(f) + first.from = r.off + 0
  <2> DEFINE ub == UnitBytes(f)  x == r.off
  <2>1. ub \in Nat \ {0} /\ x \in Nat  BY <1>2, <1>5, <1>8
  <2>2. first = [at |-> x \div ub, from |-> x % ub]  BY <1>9
  <2> HIDE DEF ub, x, first
  <2>3. x \div ub \in Nat /\ x % ub \in 0..(ub - 1) /\ x = (x \div ub) * ub + (x % ub)
    BY <2>1, QuotientBounds, Zenon
  <2> DEFINE q == x \div ub  y == x % ub
  <2>4. q \in Nat /\ y \in Nat /\ y < ub /\ q * ub + y = x + 0
    <3>1. y \in 0..(ub - 1)  BY <2>3
    <3>2. q * ub + y = x  BY <2>3
    <3> HIDE DEF q, y
    <3> QED BY <2>1, <2>3, <3>1, <3>2 DEF q
  <2>5. first.at = q /\ first.from = y  BY <2>2
  <2> HIDE DEF q, y
  <2>6. first = [at |-> q, from |-> y]  BY <2>2 DEF q, y
  <2> QED BY <2>4, <2>5, <2>6 DEF UnitType, ub, x
<1>10. ASSUME f.kind \notin Simple, r.len # 0
       PROVE  ThreadOK(volume, next, r, o, first, h, d, res)
  <2>1. f.kind \in {"lznt1", "wof", "nopayload"}  BY <1>3, <1>10 DEF FileType, Kinds, Simple
  <2>2. /\ next \in Reading /\ next # "idle" /\ next # "enter" /\ next \notin Holds /\ next # "done"
        /\ next \notin {"get", "touch", "assign", "move", "check", "pop"}
        /\ next = "loop" <=> f.kind = "lznt1"
    BY DEF Reading, Holds, Labels
  <2>3. r.len > 0 /\ r.off + r.len <= SizeOf(f)
    <3>1. f.kind # "mft"  BY <2>1
    <3> QED BY <1>5, <1>10, <3>1
  <2>4. volume.files[r.file] = f  BY <1>3, <1>5
  <2> HIDE DEF next, first
  <2>5. CallOK(volume, next, r)
    <3>1. f.kind \in Compressed \cup {"nopayload"}  BY <2>1 DEF Compressed
    <3> QED BY <1>5, <2>2, <2>3, <2>4, <3>1, Zenon DEF CallOK
  <2>6. ProgressOK(volume, next, r, o, first)
    <3>1. ASSUME f.kind = "lznt1"
          PROVE  /\ Len(o) <= r.len /\ Len(o) < r.len /\ first.from < UnitBytes(f)
                 /\ SoFar(volume, f, r, o, first)
      <4>1. Len(o) = 0 /\ \A i \in 1..Len(o) : FALSE  BY <1>1
      <4>2. first.at * UnitBytes(f) + first.from = r.off + Len(o) /\ first.from < UnitBytes(f)
        BY <1>9, <3>1, <4>1
      <4>3. SoFar(volume, f, r, o, first)  BY <4>1, <4>2, Zenon DEF SoFar
      <4>4. Len(o) <= r.len /\ Len(o) < r.len  BY <1>5, <2>3, <4>1
      <4> QED BY <4>2, <4>3, <4>4
    <3> QED BY <2>2, <2>4, <3>1, Zenon DEF ProgressOK
  <2>7. HeldOK(volume, next, r, first, h) /\ RefOK(next, d) /\ ResultOK(volume, next, r, res)
    BY <2>2, Zenon DEF HeldOK, RefOK, ResultOK
  <2> QED BY <2>5, <2>6, <2>7, Zenon DEF ThreadOK
<1>11. f.kind = "lznt1" => first \in UnitType  BY <1>9
<1> QED BY <1>1, <1>6, <1>7, <1>10, <1>11, Zenon DEF f, r

-----------------------------------------------------------------------------
(* Steps *)

LocalInv == LocalType /\ \A t \in Threads : Thread(t)
CacheOK  == CacheType /\ \A d \in Threads : Dict(d)

LEMMA InvParts == IInv <=> LocalInv /\ CacheOK /\ \A d \in Threads : Bounded(d)
  BY Zenon DEF IInv, LocalInv, CacheOK

(* A step of t leaves what the others have alone. *)
Same(u) == /\ pc'[u] = pc[u] /\ call'[u] = call[u] /\ out'[u] = out[u] /\ unit'[u] = unit[u]
           /\ held'[u] = held[u] /\ ref'[u] = ref[u] /\ result'[u] = result[u]

Alone(t) == volume' = volume /\ \A u \in Threads \ {t} : Same(u)

LEMMA LocalKept ==
    ASSUME LocalInv, NEW t \in Threads, Alone(t), LocalType', Thread(t)'
    PROVE  LocalInv'
<1>1. ASSUME NEW u \in Threads PROVE Thread(u)'
  <2>1. CASE u = t  BY <2>1
  <2>2. CASE u # t
    <3>1. volume' = volume /\ Same(u)  BY <2>2, Zenon DEF Alone
    <3>2. Thread(u)  BY DEF LocalInv
    <3> QED BY <3>1, <3>2, Zenon DEF Thread, Same
  <2> QED BY <2>1, <2>2
<1> QED BY <1>1 DEF LocalInv

LEMMA CacheKept ==
    ASSUME CacheOK, UNCHANGED <<volume, order, data>>, cu' \in Threads \cup {NoDict}
    PROVE  CacheOK' /\ \A d \in Threads : DOMAIN data'[d] = DOMAIN data[d]
<1>1. CacheType'  BY DEF CacheOK, CacheType
<1>2. \A d \in Threads : Dict(d)'  BY Zenon DEF CacheOK, Dict
<1> QED BY <1>1, <1>2 DEF CacheOK

Putting == {"move", "check", "pop"}

(* Steps that put nothing. *)
LEMMA QuietStep ==
    ASSUME IInv, NEW t \in Threads, Alone(t), LocalType', Thread(t)', CacheOK',
           \A d \in Threads : DOMAIN data'[d] = DOMAIN data[d],
           pc[t] \notin Putting, pc'[t] \notin Putting
    PROVE  IInv'
<1>1. LocalInv'  BY InvParts, LocalKept
<1>2. ASSUME NEW d \in Threads PROVE Bounded(d)'
  <2>0. \A u \in Threads : u # t => Same(u)  BY DEF Alone
  <2>1. \A u \in Threads : /\ (ref'[u] = d /\ pc'[u] = "move") <=> (ref[u] = d /\ pc[u] = "move")
                           /\ (ref'[u] = d /\ pc'[u] \in {"check", "pop"})
                                 <=> (ref[u] = d /\ pc[u] \in {"check", "pop"})
    BY <2>0 DEF Same, Putting
  <2>2. \A u \in Threads : pc[u] = "move" => Key(u)' = Key(u)
    BY <2>0 DEF Same, Putting, Key
  <2>3. Pending(d)' = Pending(d)
    <3>1. {u \in Threads : ref[u] = d /\ pc[u] = "move"}'
             = {u \in Threads : ref[u] = d /\ pc[u] = "move"}
      BY <2>1
    <3> QED BY <2>2, <3>1 DEF Pending
  <2>4. Evicting(d)' = Evicting(d)  BY <2>1 DEF Evicting
  <2>5. Settled(d)' = Settled(d)  BY <2>3 DEF Settled
  <2>6. Bounded(d)  BY InvParts
  <2> QED BY <2>4, <2>5, <2>6, Zenon DEF Bounded
<1> QED BY <1>1, <1>2 DEF IInv, LocalInv, CacheOK

LEMMA FinishLocal ==
    ASSUME LocalInv, NEW t \in Threads, NEW r, Finish(t, r), volume' = volume,
           call[t] \in RequestType(volume), ResultOK(volume, "done", call[t], r)
    PROVE  Alone(t) /\ LocalType' /\ Thread(t)' /\ pc'[t] = "done"
<1> DEFINE z == [at |-> 0, from |-> 0]
<1>1. LocalType  BY DEF LocalInv
<1>2. /\ pc' = [pc EXCEPT ![t] = "done"] /\ result' = [result EXCEPT ![t] = r]
      /\ out' = [out EXCEPT ![t] = << >>] /\ unit' = [unit EXCEPT ![t] = z]
      /\ held' = [held EXCEPT ![t] = << >>] /\ ref' = [ref EXCEPT ![t] = NoDict]
      /\ call' = call
  BY DEF Finish, Goto
<1>3. z \in UnitType /\ << >> \in Seq(Int) /\ "done" \in Labels  BY DEF UnitType, Labels
<1> HIDE DEF z
<1>4. LocalType'  BY <1>1, <1>2, <1>3 DEF LocalType
<1>5. Alone(t)  BY <1>1, <1>2 DEF LocalType, Alone, Same
<1>6. /\ pc'[t] = "done" /\ result'[t] = r /\ out'[t] = << >> /\ unit'[t] = z
      /\ held'[t] = << >> /\ ref'[t] = NoDict /\ call'[t] = call[t]
  BY <1>1, <1>2 DEF LocalType
<1>7. ThreadOK(volume, "done", call[t], << >>, z, << >>, NoDict, r)  BY DoneThread
<1>8. Thread(t)'  BY <1>6, <1>7, Zenon DEF Thread
<1> QED BY <1>4, <1>5, <1>6, <1>8

LEMMA OnwardLocal ==
    ASSUME LocalInv, NEW t \in Threads, NEW q, Goto(t, q), Onward(pc[t], q),
           UNCHANGED <<volume, call, out, unit, held, result>>,
           NEW d \in Threads \cup {NoDict}, ref' = [ref EXCEPT ![t] = d], RefOK(q, d)
    PROVE  Alone(t) /\ LocalType' /\ Thread(t)' /\ pc'[t] = q
<1>1. LocalType  BY DEF LocalInv
<1>2. pc' = [pc EXCEPT ![t] = q] /\ q \in Labels  BY DEF Goto, Onward, Reading
<1>3. LocalType'  BY <1>1, <1>2 DEF LocalType
<1>4. Alone(t)  BY <1>1, <1>2 DEF LocalType, Alone, Same
<1>5. pc'[t] = q /\ ref'[t] = d  BY <1>1, <1>2 DEF LocalType
<1>6. ThreadOK(volume, pc[t], call[t], out[t], unit[t], held[t], ref[t], result[t])
  BY DEF LocalInv, Thread
<1>7. ThreadOK(volume, q, call[t], out[t], unit[t], held[t], d, result[t])
  BY <1>6, OnwardThread
<1>8. Thread(t)'  BY <1>5, <1>7, Zenon DEF Thread
<1> QED BY <1>3, <1>4, <1>5, <1>8

LEMMA LocalFacts ==
    ASSUME LocalInv, NEW t \in Threads
    PROVE  /\ volume \in Volumes /\ out[t] \in Seq(Int) /\ unit[t] \in UnitType
           /\ held[t] \in Seq(Int) /\ ref[t] \in Threads \cup {NoDict} /\ pc[t] \in Labels
           /\ ThreadOK(volume, pc[t], call[t], out[t], unit[t], held[t], ref[t], result[t])
           /\ CallOK(volume, pc[t], call[t]) /\ RefOK(pc[t], ref[t])
           /\ pc[t] # "idle" => call[t] \in RequestType(volume)
<1>1. ThreadOK(volume, pc[t], call[t], out[t], unit[t], held[t], ref[t], result[t])
  BY DEF LocalInv, Thread
<1>2. CallOK(volume, pc[t], call[t]) /\ RefOK(pc[t], ref[t])  BY <1>1, Zenon DEF ThreadOK
<1>3. pc[t] # "idle" => call[t] \in RequestType(volume)  BY <1>2, Zenon DEF CallOK
<1> QED BY <1>1, <1>2, <1>3 DEF LocalInv, LocalType

LEMMA BeginKeeps == ASSUME IInv, NEW t \in Threads, Begin(t) PROVE IInv'
<1>0. LocalInv /\ CacheOK  BY InvParts
<1>1. PICK r \in Requests(volume, t) : call' = [call EXCEPT ![t] = r]  BY DEF Begin
<1>2. /\ pc[t] \in {"idle", "done"} /\ pc' = [pc EXCEPT ![t] = "enter"]
      /\ result' = [result EXCEPT ![t] = << >>]
      /\ UNCHANGED <<volume, out, unit, held, ref, cache>>
  BY DEF Begin, Goto
<1>3. LocalType  BY <1>0 DEF LocalInv
<1>4. volume \in Volumes /\ "enter" \in Labels  BY <1>3 DEF LocalType, Labels
<1>5. r \in RequestType(volume) /\ (volume.files[r.file].kind = "mft" => r.len \in Nat)
  BY <1>4, RequestsAssumption DEF RequestType
<1>6. LocalType'  BY <1>1, <1>2, <1>3, <1>4 DEF LocalType
<1>7. Alone(t)  BY <1>1, <1>2, <1>3 DEF LocalType, Alone, Same
<1>8. /\ pc'[t] = "enter" /\ call'[t] = r /\ out'[t] = out[t] /\ unit'[t] = unit[t]
      /\ held'[t] = held[t] /\ ref'[t] = ref[t] /\ result'[t] = << >> /\ volume' = volume
  BY <1>1, <1>2, <1>3 DEF LocalType
<1>9. "enter" \notin Reading /\ "enter" \notin Holds /\ "enter" \notin Putting
      /\ pc[t] \notin Putting /\ pc[t] \notin Reading
  BY <1>2 DEF Reading, Holds, Putting
<1>10. ThreadOK(volume, "enter", r, out[t], unit[t], held[t], ref[t], << >>)
  <2>1. CallOK(volume, "enter", r)  BY <1>5, <1>9 DEF CallOK
  <2>2. ProgressOK(volume, "enter", r, out[t], unit[t])
    <3>1. ProgressOK(volume, pc[t], call[t], out[t], unit[t])
      BY <1>0, LocalFacts, Zenon DEF ThreadOK
    <3>2. out[t] = << >>  BY <1>9, <3>1, Zenon DEF ProgressOK
    <3> QED BY <1>9, <3>2 DEF ProgressOK
  <2>3. HeldOK(volume, "enter", r, unit[t], held[t]) /\ RefOK("enter", ref[t])
        /\ ResultOK(volume, "enter", r, << >>)
    BY <1>9 DEF HeldOK, RefOK, ResultOK
  <2> QED BY <2>1, <2>2, <2>3, Zenon DEF ThreadOK
<1>11. Thread(t)'  BY <1>8, <1>10, Zenon DEF Thread
<1>12. CacheOK' /\ \A d \in Threads : DOMAIN data'[d] = DOMAIN data[d]
  <2>1. UNCHANGED <<volume, order, data>> /\ cu' = cu  BY <1>2 DEF cache
  <2>2. cu' \in Threads \cup {NoDict}  BY <1>0, <2>1 DEF CacheOK, CacheType
  <2> QED BY <1>0, <2>1, <2>2, CacheKept
<1> QED BY <1>6, <1>7, <1>8, <1>9, <1>11, <1>12, QuietStep

(* A step that leaves the cache alone. *)
LEMMA LocalStep ==
    ASSUME IInv, NEW t \in Threads, UNCHANGED cache, Alone(t), LocalType', Thread(t)',
           pc[t] \notin Putting, pc'[t] \notin Putting
    PROVE  IInv'
<1>1. UNCHANGED <<volume, order, data>> /\ cu' = cu  BY DEF cache, Alone
<1>2. CacheOK  BY InvParts
<1>3. cu' \in Threads \cup {NoDict}  BY <1>1, <1>2 DEF CacheOK, CacheType
<1>4. CacheOK' /\ \A d \in Threads : DOMAIN data'[d] = DOMAIN data[d]
  BY <1>1, <1>2, <1>3, CacheKept
<1> QED BY <1>4, QuietStep

(* A call that ends and leaves the cache alone. *)
LEMMA FinishStep ==
    ASSUME IInv, NEW t \in Threads, NEW r, Finish(t, r), UNCHANGED <<volume, cache>>,
           pc[t] \notin Putting, call[t] \in RequestType(volume),
           ResultOK(volume, "done", call[t], r)
    PROVE  IInv'
<1>1. LocalInv  BY InvParts
<1>2. Alone(t) /\ LocalType' /\ Thread(t)' /\ pc'[t] = "done"  BY <1>1, FinishLocal
<1>3. pc'[t] \notin Putting  BY <1>2 DEF Putting
<1> QED BY <1>2, <1>3, LocalStep

(* A step inside a read that leaves the cache alone. *)
LEMMA OnwardStep ==
    ASSUME IInv, NEW t \in Threads, NEW q, Goto(t, q), Onward(pc[t], q),
           UNCHANGED <<volume, call, out, unit, held, result, cache>>,
           NEW d \in Threads \cup {NoDict}, ref' = [ref EXCEPT ![t] = d], RefOK(q, d),
           pc[t] \notin Putting, q \notin Putting
    PROVE  IInv'
<1>1. LocalInv  BY InvParts
<1>2. Alone(t) /\ LocalType' /\ Thread(t)' /\ pc'[t] = q  BY <1>1, OnwardLocal
<1>3. pc'[t] \notin Putting  BY <1>2
<1> QED BY <1>2, <1>3, LocalStep

LEMMA EnterKeeps == ASSUME ByteTypes, IInv, NEW t \in Threads, Enter(t) PROVE IInv'
<1> DEFINE c == call[t]  f == File(t)
           r == IF f.kind = "mft" THEN c ELSE Clipped(c, SizeOf(f))
           first == IF f.kind = "lznt1" THEN [at   |-> r.off \div UnitBytes(f),
                                              from |-> r.off % UnitBytes(f)] ELSE unit[t]
           next == IF f.kind = "lznt1" THEN "loop" ELSE "look"
<1>0. LocalInv  BY InvParts
<1>1. /\ volume \in Volumes /\ unit[t] \in UnitType
      /\ ThreadOK(volume, pc[t], c, out[t], unit[t], held[t], ref[t], result[t])
  BY <1>0, LocalFacts
<1>2. pc[t] = "enter" /\ UNCHANGED <<volume, cache>>  BY DEF Enter
<1>3. pc[t] \notin Putting  BY <1>2 DEF Putting
<1>4. /\ c \in RequestType(volume)
      /\ f.kind \in Simple => ResultOK(volume, "done", c, Answer(f, r))
      /\ f.kind \notin Simple /\ r.len = 0 => ResultOK(volume, "done", c, << >>)
      /\ f.kind \notin Simple /\ r.len # 0 =>
            ThreadOK(volume, next, r, out[t], first, held[t], ref[t], result[t])
      /\ f.kind = "lznt1" => first \in UnitType
  BY <1>1, <1>2, Entered DEF File
<1>5. \/ f.kind \in Simple /\ Finish(t, Answer(f, r))
      \/ f.kind \notin Simple /\ r.len = 0 /\ Finish(t, << >>)
      \/ /\ f.kind \notin Simple /\ r.len # 0
         /\ call' = [call EXCEPT ![t] = r] /\ unit' = [unit EXCEPT ![t] = first]
         /\ Goto(t, next) /\ UNCHANGED <<out, held, ref, result>>
  BY Zenon DEF Enter
<1> HIDE DEF c, f, r
<1>6. CASE f.kind \in Simple /\ Finish(t, Answer(f, r))
  BY <1>2, <1>3, <1>4, <1>6, FinishStep DEF c
<1>7. CASE f.kind \notin Simple /\ r.len = 0 /\ Finish(t, << >>)
  BY <1>2, <1>3, <1>4, <1>7, FinishStep DEF c
<1>8. CASE /\ f.kind \notin Simple /\ r.len # 0
           /\ call' = [call EXCEPT ![t] = r] /\ unit' = [unit EXCEPT ![t] = first]
           /\ Goto(t, next) /\ UNCHANGED <<out, held, ref, result>>
  <2>1. first \in UnitType  BY <1>1, <1>4
  <2>2. next \in Labels /\ next \notin Putting  BY DEF Labels, Putting
  <2> HIDE DEF first, next
  <2>3. LocalType  BY <1>0 DEF LocalInv
  <2>4. pc' = [pc EXCEPT ![t] = next]  BY <1>8 DEF Goto
  <2>5. LocalType'  BY <1>2, <1>8, <2>1, <2>2, <2>3, <2>4 DEF LocalType
  <2>6. Alone(t)  BY <1>2, <1>8, <2>3, <2>4 DEF LocalType, Alone, Same
  <2>7. /\ pc'[t] = next /\ call'[t] = r /\ unit'[t] = first /\ out'[t] = out[t]
        /\ held'[t] = held[t] /\ ref'[t] = ref[t] /\ result'[t] = result[t]
        /\ volume' = volume
    BY <1>2, <1>8, <2>3, <2>4 DEF LocalType
  <2>8. Thread(t)'  BY <1>4, <1>8, <2>7, Zenon DEF Thread
  <2>9. pc'[t] \notin Putting  BY <2>2, <2>7
  <2> QED BY <1>2, <1>3, <2>5, <2>6, <2>8, <2>9, LocalStep
<1> QED BY <1>5, <1>6, <1>7, <1>8

LEMMA LoopKeeps == ASSUME ByteTypes, IInv, NEW t \in Threads, Loop(t) PROVE IInv'
<1> DEFINE c == call[t]  need == c.len - Len(out[t])
<1>0. LocalInv  BY InvParts
<1>1. pc[t] = "loop" /\ UNCHANGED <<volume, cache>>  BY DEF Loop
<1>2. /\ volume \in Volumes /\ out[t] \in Seq(Int) /\ c \in RequestType(volume)
      /\ ThreadOK(volume, "loop", c, out[t], unit[t], held[t], ref[t], result[t])
  BY <1>0, <1>1, LocalFacts
<1>3. pc[t] \notin Putting  BY <1>1 DEF Putting
<1>4. /\ need <= 0 => ResultOK(volume, "done", c, out[t])
      /\ ~ (need <= 0) /\ c.off + Len(out[t]) >= volume.files[c.file].init =>
            ResultOK(volume, "done", c, out[t] \o Zeros(need))
      /\ ~ (need <= 0) =>
            ThreadOK(volume, "look", c, out[t], unit[t], held[t], ref[t], result[t])
  BY <1>2, LoopTaken
<1>5. \/ need <= 0 /\ Finish(t, out[t])
      \/ /\ ~ (need <= 0) /\ c.off + Len(out[t]) >= volume.files[c.file].init
         /\ Finish(t, out[t] \o Zeros(need))
      \/ ~ (need <= 0) /\ Goto(t, "look") /\ UNCHANGED <<local, result>>
  BY Zenon DEF Loop, File, Files
<1> HIDE DEF need
<1>6. CASE need <= 0 /\ Finish(t, out[t])  BY <1>1, <1>2, <1>3, <1>4, <1>6, FinishStep
<1>7. CASE /\ ~ (need <= 0) /\ c.off + Len(out[t]) >= volume.files[c.file].init
           /\ Finish(t, out[t] \o Zeros(need))
  BY <1>1, <1>2, <1>3, <1>4, <1>7, FinishStep
<1>8. CASE ~ (need <= 0) /\ Goto(t, "look") /\ UNCHANGED <<local, result>>
  <2>1. LocalType  BY <1>0 DEF LocalInv
  <2>2. pc' = [pc EXCEPT ![t] = "look"] /\ "look" \in Labels /\ "look" \notin Putting
    BY <1>8 DEF Goto, Labels, Putting
  <2>3. UNCHANGED <<volume, call, out, unit, held, ref, result>>  BY <1>1, <1>8 DEF local
  <2>4. LocalType'  BY <2>1, <2>2, <2>3 DEF LocalType
  <2>5. Alone(t)  BY <2>1, <2>2, <2>3 DEF LocalType, Alone, Same
  <2>6. pc'[t] = "look"  BY <2>1, <2>2 DEF LocalType
  <2>7. Thread(t)'  BY <1>4, <1>8, <2>3, <2>6, Zenon DEF Thread
  <2>8. pc'[t] \notin Putting  BY <2>2, <2>6
  <2> QED BY <1>1, <1>3, <2>4, <2>5, <2>7, <2>8, LocalStep
<1> QED BY <1>5, <1>6, <1>7, <1>8

LEMMA LookKeeps == ASSUME IInv, NEW t \in Threads, Look(t) PROVE IInv'
<1> DEFINE q == IF cu = NoDict THEN "build" ELSE "get"
<1>0. pc[t] = "look" /\ ref' = [ref EXCEPT ![t] = cu] /\ Goto(t, q)
      /\ UNCHANGED <<volume, call, out, unit, held, cache, result>>
  BY DEF Look
<1>1. cu \in Threads \cup {NoDict}  BY InvParts DEF CacheOK, CacheType
<1>2. RefOK(q, cu)  BY <1>1 DEF RefOK
<1>3. Onward(pc[t], q) /\ pc[t] \notin Putting /\ q \notin Putting
  BY <1>0 DEF Onward, Reading, Labels, Holds, Putting
<1> HIDE DEF q
<1> QED BY <1>0, <1>1, <1>2, <1>3, OnwardStep

(* What is found under a key is the plaintext of what was asked for. *)
LEMMA FoundThread ==
    ASSUME NEW v \in Volumes, NEW c, NEW o, NEW un \in UnitType, NEW h, NEW d, NEW res,
           ThreadOK(v, "get", c, o, un, h, d, res), NEW h2, Entry(v, <<c.file, un.at>>, h2)
    PROVE  ThreadOK(v, "touch", c, o, un, h2, d, res)
<1>0. /\ "get" \in Reading /\ "touch" \in Reading /\ "touch" \in Holds /\ "get" # "idle"
  BY DEF Reading, Holds, Labels
<1>1. CallOK(v, "get", c) /\ ProgressOK(v, "get", c, o, un) /\ RefOK("get", d)
  BY Zenon DEF ThreadOK
<1>2. v.files[c.file].kind \in Compressed /\ IsPlain(v, <<c.file, un.at>>, h2)
  <2> DEFINE k == <<c.file, un.at>>
  <2>1. k[1] = c.file  OBVIOUS
  <2> HIDE DEF k
  <2>2. v.files[k[1]].kind \in Compressed /\ IsPlain(v, k, h2)  BY DEF k, Entry
  <2> QED BY <2>1, <2>2 DEF k
<1>3. CallOK(v, "touch", c)  BY <1>0, <1>1, <1>2 DEF CallOK
<1>4. ProgressOK(v, "touch", c, o, un)  BY <1>0, <1>1 DEF ProgressOK
<1>5. HeldOK(v, "touch", c, un, h2)  BY <1>2, Zenon DEF HeldOK
<1>6. RefOK("touch", d) /\ ResultOK(v, "touch", c, res)  BY <1>1 DEF RefOK, ResultOK
<1> QED BY <1>3, <1>4, <1>5, <1>6, Zenon DEF ThreadOK

LEMMA GetKeeps == ASSUME IInv, NEW t \in Threads, Get(t) PROVE IInv'
<1> DEFINE k == Key(t)  h == data[ref[t]][k]
<1>0. LocalInv /\ CacheOK  BY InvParts
<1>1. pc[t] = "get" /\ UNCHANGED <<volume, call, out, unit, ref, cache, result>>  BY DEF Get
<1>2. /\ volume \in Volumes /\ unit[t] \in UnitType /\ ref[t] \in Threads
      /\ ThreadOK(volume, "get", call[t], out[t], unit[t], held[t], ref[t], result[t])
      /\ RefOK("get", ref[t])
  BY <1>0, <1>1, LocalFacts DEF RefOK
<1>3. pc[t] \notin Putting  BY <1>1 DEF Putting
<1>4. LocalType  BY <1>0 DEF LocalInv
<1>5. k = <<call[t].file, unit[t].at>>  BY DEF Key
<1>6. CASE k \in DOMAIN data[ref[t]] /\ held' = [held EXCEPT ![t] = h] /\ Goto(t, "touch")
  <2>1. Entry(volume, k, h)
    <3>1. Dict(ref[t])  BY <1>0, <1>2 DEF CacheOK
    <3> QED BY <1>6, <3>1, Zenon DEF Dict, DictOK
  <2>2. h \in Seq(Int)  BY <2>1 DEF Entry
  <2>3. ThreadOK(volume, "touch", call[t], out[t], unit[t], h, ref[t], result[t])
    BY <1>2, <1>5, <2>1, FoundThread
  <2>4. pc' = [pc EXCEPT ![t] = "touch"] /\ "touch" \in Labels /\ "touch" \notin Putting
    BY <1>6 DEF Goto, Labels, Putting
  <2> HIDE DEF h, k
  <2>5. LocalType'  BY <1>1, <1>4, <1>6, <2>2, <2>4 DEF LocalType
  <2>6. Alone(t)  BY <1>1, <1>4, <1>6, <2>4 DEF LocalType, Alone, Same
  <2>7. pc'[t] = "touch" /\ held'[t] = h  BY <1>4, <1>6, <2>4 DEF LocalType
  <2>8. Thread(t)'  BY <1>1, <2>3, <2>7, Zenon DEF Thread
  <2>9. pc'[t] \notin Putting  BY <2>4, <2>7
  <2> QED BY <1>1, <1>3, <2>5, <2>6, <2>8, <2>9, LocalStep
<1>7. CASE Goto(t, "build") /\ held' = held
  <2>1. Onward(pc[t], "build") /\ "build" \notin Putting /\ RefOK("build", ref[t])
    BY <1>1 DEF Onward, Reading, Labels, Holds, Putting, RefOK
  <2>2. ref' = [ref EXCEPT ![t] = ref[t]]  BY <1>1, <1>4 DEF LocalType
  <2>3. ref[t] \in Threads \cup {NoDict}  BY <1>2
  <2> QED BY <1>1, <1>3, <1>7, <2>1, <2>2, <2>3, OnwardStep
<1>8. \/ k \in DOMAIN data[ref[t]] /\ held' = [held EXCEPT ![t] = h] /\ Goto(t, "touch")
      \/ Goto(t, "build") /\ held' = held
  BY Zenon DEF Get
<1> QED BY <1>6, <1>7, <1>8

(* What a thread has decompressed is the plaintext of what it asked for. *)
LEMMA BuiltThread ==
    ASSUME NEW v \in Volumes, NEW c, NEW o, NEW un \in UnitType, NEW h, NEW d, NEW res,
           ThreadOK(v, "build", c, o, un, h, d, res), NEW h2,
           v.files[c.file].kind \in Compressed, IsPlain(v, <<c.file, un.at>>, h2)
    PROVE  ThreadOK(v, "refer", c, o, un, h2, d, res)
<1>0. /\ "build" \in Reading /\ "refer" \in Reading /\ "refer" \in Holds
  BY DEF Reading, Holds, Labels
<1>1. CallOK(v, "build", c) /\ ProgressOK(v, "build", c, o, un)  BY Zenon DEF ThreadOK
<1>2. CallOK(v, "refer", c)  BY <1>0, <1>1 DEF CallOK
<1>3. ProgressOK(v, "refer", c, o, un)  BY <1>0, <1>1 DEF ProgressOK
<1>4. HeldOK(v, "refer", c, un, h2) /\ RefOK("refer", d) /\ ResultOK(v, "refer", c, res)
  BY DEF HeldOK, RefOK, ResultOK
<1> QED BY <1>2, <1>3, <1>4, Zenon DEF ThreadOK

LEMMA BuildKeeps == ASSUME ByteTypes, IInv, NEW t \in Threads, Build(t) PROVE IInv'
<1> DEFINE c == call[t]  f == volume.files[c.file]  h == Decoded(volume, f, unit[t].at)
<1>0. LocalInv  BY InvParts
<1>1. pc[t] = "build" /\ UNCHANGED <<volume, cache>>  BY DEF Build
<1>2. /\ volume \in Volumes /\ unit[t] \in UnitType /\ c \in RequestType(volume)
      /\ ThreadOK(volume, "build", c, out[t], unit[t], held[t], ref[t], result[t])
      /\ CallOK(volume, "build", c)
  BY <1>0, <1>1, LocalFacts
<1>3. pc[t] \notin Putting /\ "build" \in Reading  BY <1>1 DEF Putting, Reading, Labels
<1>4. \/ (f.kind = "nopayload" \/ h = XpressError) /\ Finish(t, Zeros(c.len))
      \/ /\ f.kind # "nopayload" /\ h # XpressError
         /\ held' = [held EXCEPT ![t] = h] /\ Goto(t, "refer")
         /\ UNCHANGED <<call, out, unit, ref, result>>
  BY Zenon DEF Build, File, Files
<1>5. f.kind \in Compressed \cup {"nopayload"} /\ c.file \in DOMAIN volume.files
  BY <1>2, <1>3, ReadingCall DEF RequestType
<1>6. CASE (f.kind = "nopayload" \/ h = XpressError) /\ Finish(t, Zeros(c.len))
  <2>1. ResultOK(volume, "done", c, Zeros(c.len))  BY <1>2, <1>6, ZerosTaken
  <2> HIDE DEF f, h
  <2> QED BY <1>1, <1>2, <1>3, <1>6, <2>1, FinishStep
<1>7. CASE /\ f.kind # "nopayload" /\ h # XpressError
           /\ held' = [held EXCEPT ![t] = h] /\ Goto(t, "refer")
           /\ UNCHANGED <<call, out, unit, ref, result>>
  <2>1. f.kind \in Compressed  BY <1>5, <1>7
  <2>2. unit[t].at \in Nat  BY <1>2 DEF UnitType
  <2>3. DecodedIs(volume, c.file, unit[t].at)  BY <1>2, <1>5, <2>1, <2>2, DecodedFacts
  <2>4. h \in Seq(Int) \cup {XpressError} /\ IsPlain(volume, <<c.file, unit[t].at>>, h)
    BY <2>3, Zenon DEF DecodedIs
  <2>5. h \in Seq(Int)  BY <1>7, <2>4
  <2> HIDE DEF h
  <2>6. ThreadOK(volume, "refer", c, out[t], unit[t], h, ref[t], result[t])
    BY <1>2, <2>1, <2>4, BuiltThread
  <2> HIDE DEF f
  <2>7. pc' = [pc EXCEPT ![t] = "refer"] /\ "refer" \in Labels /\ "refer" \notin Putting
    BY <1>7 DEF Goto, Labels, Putting
  <2>8. LocalType  BY <1>0 DEF LocalInv
  <2>9. LocalType'  BY <1>1, <1>7, <2>5, <2>7, <2>8 DEF LocalType
  <2>10. Alone(t)  BY <1>1, <1>7, <2>7, <2>8 DEF LocalType, Alone, Same
  <2>11. pc'[t] = "refer" /\ held'[t] = h  BY <1>7, <2>7, <2>8 DEF LocalType
  <2>12. Thread(t)'  BY <1>1, <1>7, <2>6, <2>11, Zenon DEF Thread
  <2>13. pc'[t] \notin Putting  BY <2>7, <2>11
  <2> QED BY <1>1, <1>3, <2>9, <2>10, <2>12, <2>13, LocalStep
<1> QED BY <1>4, <1>6, <1>7

LEMMA ReferKeeps == ASSUME IInv, NEW t \in Threads, Refer(t) PROVE IInv'
<1> DEFINE q == IF cu = NoDict THEN "create" ELSE "assign"
<1>0. pc[t] = "refer" /\ ref' = [ref EXCEPT ![t] = cu] /\ Goto(t, q)
      /\ UNCHANGED <<volume, call, out, unit, held, cache, result>>
  BY DEF Refer
<1>1. cu \in Threads \cup {NoDict}  BY InvParts DEF CacheOK, CacheType
<1>2. RefOK(q, cu)  BY <1>1 DEF RefOK
<1>3. Onward(pc[t], q) /\ pc[t] \notin Putting /\ q \notin Putting
  BY <1>0 DEF Onward, Reading, Labels, Holds, Putting
<1> HIDE DEF q
<1> QED BY <1>0, <1>1, <1>2, <1>3, OnwardStep

LEMMA CreateKeeps == ASSUME IInv, NEW t \in Threads, Create(t) PROVE IInv'
<1>0. pc[t] = "create" /\ ref' = [ref EXCEPT ![t] = t] /\ cu' = t /\ Goto(t, "assign")
      /\ UNCHANGED <<volume, call, out, unit, held, order, data, result>>
  BY DEF Create
<1>1. LocalInv /\ CacheOK  BY InvParts
<1>2. Onward(pc[t], "assign") /\ pc[t] \notin Putting /\ "assign" \notin Putting
      /\ RefOK("assign", t)
  BY <1>0 DEF Onward, Reading, Labels, Holds, Putting, RefOK
<1>3. Alone(t) /\ LocalType' /\ Thread(t)' /\ pc'[t] = "assign"
  BY <1>0, <1>1, <1>2, OnwardLocal
<1>4. pc'[t] \notin Putting  BY <1>2, <1>3
<1>5. CacheOK' /\ \A d \in Threads : DOMAIN data'[d] = DOMAIN data[d]
  <2>1. cu' \in Threads \cup {NoDict}  BY <1>0
  <2> QED BY <1>0, <1>1, <2>1, CacheKept
<1> QED BY <1>2, <1>3, <1>4, <1>5, QuietStep

LEMMA UseKeeps == ASSUME ByteTypes, IInv, NEW t \in Threads, Use(t) PROVE IInv'
<1> DEFINE c == call[t]  f == volume.files[c.file]  z == Part(held[t], c.off, c.len)
           s == TakenOf(f, c, out[t], unit[t], held[t])  w == [at |-> unit[t].at + 1, from |-> 0]
<1>0. LocalInv  BY InvParts
<1>1. pc[t] = "use" /\ UNCHANGED <<volume, cache>>  BY DEF Use
<1>2. /\ volume \in Volumes /\ unit[t] \in UnitType /\ c \in RequestType(volume)
      /\ out[t] \in Seq(Int) /\ held[t] \in Seq(Int)
      /\ ThreadOK(volume, "use", c, out[t], unit[t], held[t], ref[t], result[t])
      /\ CallOK(volume, "use", c)
  BY <1>0, <1>1, LocalFacts
<1>3. pc[t] \notin Putting  BY <1>1 DEF Putting
<1>4. f.kind \in Compressed  BY <1>2 DEF CallOK, Holds
<1>5. \/ f.kind = "wof" /\ Finish(t, z)
      \/ /\ f.kind # "wof" /\ out' = [out EXCEPT ![t] = @ \o s]
         /\ unit' = [unit EXCEPT ![t] = [at |-> @.at + 1, from |-> 0]]
         /\ held' = [held EXCEPT ![t] = << >>] /\ ref' = [ref EXCEPT ![t] = NoDict]
         /\ Goto(t, "loop") /\ UNCHANGED <<call, result>>
  BY Zenon DEF Use, File, Files, Taken, TakenOf
<1>6. CASE f.kind = "wof" /\ Finish(t, z)
  <2>1. ResultOK(volume, "done", c, z)  BY <1>2, <1>6, WofTaken
  <2> HIDE DEF z
  <2> QED BY <1>1, <1>2, <1>3, <1>6, <2>1, FinishStep
<1>7. CASE /\ f.kind # "wof" /\ out' = [out EXCEPT ![t] = @ \o s]
           /\ unit' = [unit EXCEPT ![t] = [at |-> @.at + 1, from |-> 0]]
           /\ held' = [held EXCEPT ![t] = << >>] /\ ref' = [ref EXCEPT ![t] = NoDict]
           /\ Goto(t, "loop") /\ UNCHANGED <<call, result>>
  <2>1. f.kind = "lznt1"  BY <1>4, <1>7 DEF Compressed
  <2>2. /\ s \in Seq(Int)
        /\ ThreadOK(volume, "loop", c, out[t] \o s, w, << >>, NoDict, result[t])
    BY <1>2, <2>1, UnitTaken
  <2> HIDE DEF s, f
  <2>3. out[t] \o s \in Seq(Int)  BY <1>2, <2>2, ConcatProperties
  <2>4. w \in UnitType  BY <1>2 DEF UnitType
  <2>5. unit' = [unit EXCEPT ![t] = w] /\ out' = [out EXCEPT ![t] = out[t] \o s]
    BY <1>7
  <2> HIDE DEF w
  <2>6. pc' = [pc EXCEPT ![t] = "loop"] /\ "loop" \in Labels /\ "loop" \notin Putting
    BY <1>7 DEF Goto, Labels, Putting
  <2>7. LocalType  BY <1>0 DEF LocalInv
  <2> DEFINE y == out[t] \o s
  <2>8. y \in Seq(Int) /\ out' = [out EXCEPT ![t] = y]  BY <2>3, <2>5
  <2> HIDE DEF y
  <2>9. << >> \in Seq(Int)  OBVIOUS
  <2>10. LocalType'  BY <1>1, <1>7, <2>4, <2>5, <2>6, <2>7, <2>8, <2>9 DEF LocalType
  <2>11. Alone(t)  BY <1>1, <1>7, <2>5, <2>6, <2>7, <2>8 DEF LocalType, Alone, Same
  <2>12. /\ pc'[t] = "loop" /\ held'[t] = << >> /\ out'[t] = y /\ unit'[t] = w
         /\ ref'[t] = NoDict /\ call'[t] = c /\ result'[t] = result[t] /\ volume' = volume
    BY <1>1, <1>7, <2>5, <2>6, <2>7, <2>8 DEF LocalType
  <2>13. ThreadOK(volume, "loop", c, y, w, << >>, NoDict, result[t])  BY <2>2 DEF y
  <2>14. Thread(t)'  BY <2>12, <2>13, Zenon DEF Thread
  <2>15. pc'[t] \notin Putting  BY <2>6, <2>12
  <2> QED BY <1>1, <1>3, <2>10, <2>11, <2>14, <2>15, LocalStep
<1> QED BY <1>5, <1>6, <1>7

-----------------------------------------------------------------------------
(* Steps that change a dictionary *)

LEMMA KeyFacts ==
    ASSUME LocalInv, NEW t \in Threads, pc[t] # "idle"
    PROVE  Key(t) \in KeyType(volume)
<1>1. call[t] \in RequestType(volume) /\ unit[t] \in UnitType  BY LocalFacts
<1> QED BY <1>1 DEF RequestType, UnitType, Key, KeyType

(* A key of a dictionary is moved to its end. *)
LEMMA MovedDict ==
    ASSUME CacheOK, NEW d \in Threads, NEW k \in KeyType(volume), InSeq(k, order[d]),
           order' = [order EXCEPT ![d] = MovedToEnd(@, k)], UNCHANGED <<volume, cu, data>>
    PROVE  CacheOK'
<1> DEFINE s == order[d]  z == MovedToEnd(s, k)  S == KeyType(volume)
<1>1. CacheType /\ \A e \in Threads : Dict(e)  BY DEF CacheOK
<1>2. s \in Seq(S) /\ order \in [Threads -> Seq(S)]  BY <1>1 DEF CacheType
<1>3. Distinct(s) /\ (\A x \in S : x \in DOMAIN data[d] <=> InSeq(x, s))
      /\ DOMAIN data[d] \subseteq S /\ \A x \in DOMAIN data[d] : Entry(volume, x, data[d][x])
  BY <1>1, Zenon DEF Dict, DictOK
<1>4. z \in Seq(S) /\ Distinct(z) /\ \A x \in S : InSeq(x, z) <=> (x = k \/ InSeq(x, s))
  BY <1>2, <1>3, MovedToEndKeys
<1>5. InSeq(k, s)  OBVIOUS
<1>6. order' = [order EXCEPT ![d] = z]  OBVIOUS
<1> HIDE DEF z, s
<1>7. \A x \in S : x \in DOMAIN data[d] <=> InSeq(x, z)  BY <1>3, <1>4, <1>5, Zenon
<1>8. DictOK(volume, z, data[d])  BY <1>3, <1>4, <1>7, Zenon DEF DictOK
<1>9. KeyType(volume)' = S  BY DEF KeyType
<1>10. CacheType'
  <2>1. order' \in [Threads -> Seq(S)]  BY <1>2, <1>4, <1>6
  <2> QED BY <1>1, <1>9, <2>1 DEF CacheType
<1>11. ASSUME NEW e \in Threads PROVE Dict(e)'
  <2>1. CASE e = d
    <3>1. order'[e] = z /\ data'[e] = data[d]  BY <1>2, <1>6, <2>1
    <3> QED BY <1>8, <3>1 DEF Dict
  <2>2. CASE e # d
    <3>1. order'[e] = order[e] /\ data'[e] = data[e]  BY <1>2, <1>6, <2>2
    <3> QED BY <1>1, <3>1 DEF Dict
  <2> QED BY <2>1, <2>2
<1> QED BY <1>10, <1>11 DEF CacheOK

LEMMA TouchKeeps == ASSUME IInv, NEW t \in Threads, Touch(t) PROVE IInv'
<1> DEFINE d == ref[t]  k == Key(t)
<1>0. LocalInv /\ CacheOK  BY InvParts
<1>1. pc[t] = "touch" /\ UNCHANGED <<volume, cu, data>>  BY DEF Touch, MoveToEnd
<1>2. /\ d \in Threads /\ k \in KeyType(volume) /\ call[t] \in RequestType(volume)
  BY <1>0, <1>1, LocalFacts, KeyFacts DEF RefOK
<1>3. pc[t] \notin Putting /\ "use" \notin Putting  BY <1>1 DEF Putting
<1>4. \/ /\ InSeq(k, order[d]) /\ order' = [order EXCEPT ![d] = MovedToEnd(@, k)]
         /\ Goto(t, "use") /\ UNCHANGED <<local, result>>
      \/ Finish(t, KeyError) /\ UNCHANGED order
  BY Zenon DEF Touch, MoveToEnd
<1>5. CASE /\ InSeq(k, order[d]) /\ order' = [order EXCEPT ![d] = MovedToEnd(@, k)]
           /\ Goto(t, "use") /\ UNCHANGED <<local, result>>
  <2>1. CacheOK'  BY <1>0, <1>1, <1>2, <1>5, MovedDict
  <2>2. Onward(pc[t], "use") /\ RefOK("use", d)
    BY <1>1 DEF Onward, Reading, Labels, Holds, RefOK
  <2>3. UNCHANGED <<volume, call, out, unit, held, result>> /\ ref' = ref
    BY <1>1, <1>5 DEF local
  <2>4. ref' = [ref EXCEPT ![t] = d]  BY <1>0, <2>3 DEF LocalInv, LocalType
  <2>5. d \in Threads \cup {NoDict}  BY <1>2
  <2>6. Alone(t) /\ LocalType' /\ Thread(t)' /\ pc'[t] = "use"
    BY <1>0, <1>5, <2>2, <2>3, <2>4, <2>5, OnwardLocal
  <2>7. pc'[t] \notin Putting  BY <1>3, <2>6
  <2>8. \A e \in Threads : DOMAIN data'[e] = DOMAIN data[e]  BY <1>1
  <2> QED BY <1>3, <2>1, <2>6, <2>7, <2>8, QuietStep
<1>6. CASE Finish(t, KeyError) /\ UNCHANGED order
  <2>1. ResultOK(volume, "done", call[t], KeyError)  BY DEF ResultOK
  <2>2. UNCHANGED <<volume, cache>>  BY <1>1, <1>6 DEF cache
  <2> QED BY <1>2, <1>3, <1>6, <2>1, <2>2, FinishStep
<1> QED BY <1>4, <1>5, <1>6

(* The threads that are putting, but t. *)
LEMMA OthersPut ==
    ASSUME NEW t \in Threads, Alone(t), NEW d
    PROVE  \A u \in Threads \ {t} :
              /\ (ref'[u] = d /\ pc'[u] = "move") <=> (ref[u] = d /\ pc[u] = "move")
              /\ u \in Evicting(d)' <=> u \in Evicting(d)
              /\ Key(u)' = Key(u)
<1> SUFFICES ASSUME NEW u \in Threads \ {t}
             PROVE  /\ (ref'[u] = d /\ pc'[u] = "move") <=> (ref[u] = d /\ pc[u] = "move")
                    /\ u \in Evicting(d)' <=> u \in Evicting(d)
                    /\ Key(u)' = Key(u)
  OBVIOUS
<1>1. Same(u)  BY DEF Alone
<1> QED BY <1>1 DEF Same, Evicting, Key

(* A step of t on the dictionary it refers to. *)
LEMMA PutStep ==
    ASSUME IInv, NEW t \in Threads, Alone(t), LocalType', Thread(t)', CacheOK',
           NEW e \in Threads, ref[t] = e, ref'[t] \in {e, NoDict},
           \A d \in Threads \ {e} : data'[d] = data[d], Bounded(e)'
    PROVE  IInv'
<1>1. LocalInv'  BY InvParts, LocalKept
<1>2. ASSUME NEW d \in Threads PROVE Bounded(d)'
  <2>1. CASE d = e  BY <2>1
  <2>2. CASE d # e
    <3>1. ref[t] # d /\ ref'[t] # d  BY <2>2, UnitsAssumption
    <3>2. \A u \in Threads \ {t} :
              /\ (ref'[u] = d /\ pc'[u] = "move") <=> (ref[u] = d /\ pc[u] = "move")
              /\ u \in Evicting(d)' <=> u \in Evicting(d)
              /\ Key(u)' = Key(u)
      BY OthersPut
    <3>3. {u \in Threads : ref[u] = d /\ pc[u] = "move"}'
             = {u \in Threads : ref[u] = d /\ pc[u] = "move"}
      BY <3>1, <3>2
    <3>4. Pending(d)' = Pending(d)  BY <3>1, <3>2, <3>3 DEF Pending
    <3>5. Evicting(d)' = Evicting(d)  BY <3>1, <3>2 DEF Evicting
    <3>6. data'[d] = data[d]  BY <2>2
    <3>7. Settled(d)' = Settled(d)  BY <3>4, <3>6 DEF Settled
    <3>8. Bounded(d)  BY InvParts
    <3> QED BY <3>5, <3>7, <3>8, Zenon DEF Bounded
  <2> QED BY <2>1, <2>2
<1> QED BY <1>1, <1>2 DEF IInv, LocalInv, CacheOK

(* What is settled is finite, and so is what is evicting. *)
LEMMA CountedSets ==
    ASSUME CacheOK, NEW d \in Threads
    PROVE  /\ IsFiniteSet(DOMAIN data[d]) /\ Cardinality(DOMAIN data[d]) = Len(order[d])
           /\ IsFiniteSet(Settled(d)) /\ IsFiniteSet(Evicting(d))
<1> DEFINE s == order[d]  D == DOMAIN data[d]  S == KeyType(volume)
<1>1. s \in Seq(S) /\ Dict(d)  BY DEF CacheOK, CacheType
<1>2. Distinct(s) /\ D \subseteq S /\ \A k \in S : k \in D <=> InSeq(k, s)
  BY <1>1, Zenon DEF Dict, DictOK
<1> HIDE DEF D, S
<1>3. Len(s) \in Nat /\ \A i \in 1..Len(s) : s[i] \in S  BY <1>1, LenProperties
<1> DEFINE f == [i \in 1..Len(s) |-> s[i]]
<1>4. \A i \in 1..Len(s) : s[i] \in D  BY <1>2, <1>3 DEF InSeq
<1>5. f \in Injection(1..Len(s), D)
  <2>1. f \in [1..Len(s) -> D]  BY <1>4
  <2>2. \A i, j \in 1..Len(s) : i # j => f[i] # f[j]  BY <1>2 DEF Distinct
  <2> QED BY <2>1, <2>2 DEF Injection, IsInjective
<1>6. f \in Surjection(1..Len(s), D)
  <2>1. f \in [1..Len(s) -> D]  BY <1>4
  <2>2. ASSUME NEW k \in D PROVE \E i \in 1..Len(s) : f[i] = k  BY <1>2 DEF InSeq
  <2> QED BY <2>1, <2>2 DEF Surjection
<1>7. f \in Bijection(1..Len(s), D)  BY <1>5, <1>6 DEF Bijection
<1>8. IsFiniteSet(1..Len(s)) /\ Cardinality(1..Len(s)) = Len(s)
  <2> DEFINE n == Len(s)
  <2>1. n \in Nat /\ 1 \in Int  BY <1>3
  <2> HIDE DEF n
  <2>2. n \in Int  BY <2>1
  <2>3. IsFiniteSet(1..n) /\ Cardinality(1..n) = IF 1 > n THEN 0 ELSE n - 1 + 1
    BY <2>1, <2>2, FS_Interval
  <2> QED BY <2>1, <2>3 DEF n
<1>9. IsFiniteSet(D) /\ Cardinality(D) = Len(s)
  <2>1. ExistsBijection(1..Len(s), D)  BY <1>7 DEF ExistsBijection
  <2> QED BY <1>8, <2>1, FS_Bijection
<1>10. IsFiniteSet(Settled(d))
  <2>1. Settled(d) \subseteq D  BY DEF Settled, D
  <2> QED BY <1>9, <2>1, FS_Subset
<1>11. IsFiniteSet(Evicting(d))
  <2>1. Evicting(d) \subseteq Threads  BY DEF Evicting
  <2> QED BY <2>1, UnitsAssumption, FS_Subset
<1> QED BY <1>9, <1>10, <1>11 DEF D

(* The bound, when nothing settles. *)
LEMMA BoundKept ==
    ASSUME NEW A, NEW B, NEW E, NEW F, IsFiniteSet(A), IsFiniteSet(F), B \subseteq A, E \subseteq F,
           Cardinality(A) <= UnitCacheMax + Cardinality(E)
    PROVE  Cardinality(B) <= UnitCacheMax + Cardinality(F)
<1>1. IsFiniteSet(B) /\ Cardinality(B) <= Cardinality(A)  BY FS_Subset
<1>2. IsFiniteSet(E) /\ Cardinality(E) <= Cardinality(F)  BY FS_Subset
<1>3. /\ Cardinality(A) \in Nat /\ Cardinality(B) \in Nat /\ Cardinality(E) \in Nat
      /\ Cardinality(F) \in Nat /\ UnitCacheMax \in Nat
  BY <1>1, <1>2, FS_CardinalityType, UnitsAssumption
<1> QED BY <1>1, <1>2, <1>3

(* The bound, when a thread settles its key and evicts. *)
LEMMA BoundMoved ==
    ASSUME NEW A, NEW B, NEW k, NEW E, NEW t, IsFiniteSet(A), IsFiniteSet(E), t \notin E,
           B \subseteq A \cup {k}, Cardinality(A) <= UnitCacheMax + Cardinality(E)
    PROVE  Cardinality(B) <= UnitCacheMax + Cardinality(E \cup {t})
<1>1. IsFiniteSet(A \cup {k}) /\ Cardinality(A \cup {k}) <= Cardinality(A) + 1
  <2>1. CASE k \in A
    <3>1. A \cup {k} = A  BY <2>1
    <3>2. Cardinality(A) \in Nat  BY FS_CardinalityType
    <3> QED BY <3>1, <3>2
  <2>2. CASE k \notin A
    <3>1. Cardinality(A) \in Nat  BY FS_CardinalityType
    <3>2. IsFiniteSet(A \cup {k}) /\ Cardinality(A \cup {k}) = Cardinality(A) + 1
      BY <2>2, FS_AddElement
    <3> QED BY <3>1, <3>2
  <2> QED BY <2>1, <2>2
<1>2. IsFiniteSet(B) /\ Cardinality(B) <= Cardinality(A \cup {k})  BY <1>1, FS_Subset
<1>3. IsFiniteSet(E \cup {t}) /\ Cardinality(E \cup {t}) = Cardinality(E) + 1  BY FS_AddElement
<1>4. /\ Cardinality(A) \in Nat /\ Cardinality(B) \in Nat /\ Cardinality(A \cup {k}) \in Nat
      /\ Cardinality(E) \in Nat /\ UnitCacheMax \in Nat
  BY <1>1, <1>2, FS_CardinalityType, UnitsAssumption
<1> QED BY <1>1, <1>2, <1>3, <1>4

LEMMA MoveKeeps == ASSUME IInv, NEW t \in Threads, Move(t) PROVE IInv'
<1> DEFINE d == ref[t]  k == Key(t)
<1>0. LocalInv /\ CacheOK /\ Bounded(ref[t])
  <2>1. LocalInv /\ CacheOK  BY InvParts
  <2>2. pc[t] = "move"  BY DEF Move
  <2>3. ref[t] \in Threads  BY <2>1, <2>2, LocalFacts DEF RefOK
  <2> QED BY <2>1, <2>3, InvParts
<1>1. pc[t] = "move" /\ UNCHANGED <<volume, cu, data>>  BY DEF Move, MoveToEnd
<1>2. /\ d \in Threads /\ k \in KeyType(volume) /\ call[t] \in RequestType(volume)
  BY <1>0, <1>1, LocalFacts, KeyFacts DEF RefOK
<1>3. Dict(d) /\ LocalType /\ d \in Threads  BY <1>0, <1>2 DEF CacheOK, LocalInv
<1>4. k \in DOMAIN data[d] <=> InSeq(k, order[d])  BY <1>2, <1>3, Zenon DEF Dict, DictOK
<1>5. /\ IsFiniteSet(Settled(d)) /\ IsFiniteSet(Evicting(d))
      /\ Cardinality(Settled(d)) <= UnitCacheMax + Cardinality(Evicting(d))
  BY <1>0, <1>2, CountedSets DEF Bounded
<1>6. \/ /\ InSeq(k, order[d]) /\ order' = [order EXCEPT ![d] = MovedToEnd(@, k)]
         /\ Goto(t, "check") /\ UNCHANGED <<local, result>>
      \/ ~ InSeq(k, order[d]) /\ Finish(t, KeyError) /\ UNCHANGED order
  BY Zenon DEF Move, MoveToEnd
<1>7. PICK e \in Threads : e = d  BY <1>2
<1>8. \A e2 \in Threads \ {e} : data'[e2] = data[e2]  BY <1>1
<1>9. CASE /\ InSeq(k, order[d]) /\ order' = [order EXCEPT ![d] = MovedToEnd(@, k)]
           /\ Goto(t, "check") /\ UNCHANGED <<local, result>>
  <2>1. CacheOK'  BY <1>0, <1>1, <1>2, <1>9, MovedDict
  <2>2. Onward(pc[t], "check") /\ RefOK("check", d)
    BY <1>1, <1>2 DEF Onward, Reading, Labels, Holds, RefOK
  <2>3. UNCHANGED <<volume, call, out, unit, held, result>> /\ ref' = ref
    BY <1>1, <1>9 DEF local
  <2>4. ref' = [ref EXCEPT ![t] = d]  BY <1>3, <2>3 DEF LocalType
  <2>5. d \in Threads \cup {NoDict}  BY <1>2
  <2>6. Alone(t) /\ LocalType' /\ Thread(t)' /\ pc'[t] = "check"
    BY <1>0, <1>9, <2>2, <2>3, <2>4, <2>5, OnwardLocal
  <2>7. \A u \in Threads \ {t} :
           /\ (ref'[u] = e /\ pc'[u] = "move") <=> (ref[u] = e /\ pc[u] = "move")
           /\ u \in Evicting(e)' <=> u \in Evicting(e)
           /\ Key(u)' = Key(u)
    BY <2>6, OthersPut
  <2>8. Evicting(e)' = Evicting(e) \cup {t} /\ t \notin Evicting(e)
    <3>1. t \in Evicting(e)'  BY <1>7, <2>3, <2>6 DEF Evicting
    <3>2. t \notin Evicting(e)  BY <1>1 DEF Evicting
    <3>3. Evicting(e) \subseteq Threads /\ Evicting(e)' \subseteq Threads  BY DEF Evicting
    <3> QED BY <2>7, <3>1, <3>2, <3>3
  <2>9. Settled(e)' \subseteq Settled(e) \cup {k}
    <3>1. ASSUME NEW x \in Settled(e)', x # k PROVE x \in Settled(e)
      <4>1. x \in DOMAIN data[e] /\ x \notin Pending(e)'  BY <1>1, <3>1 DEF Settled
      <4>2. x \notin Pending(e)
        <5>1. ASSUME x \in Pending(e) PROVE FALSE
          <6>1. PICK u \in Threads : ref[u] = e /\ pc[u] = "move" /\ x = Key(u)
            BY <5>1 DEF Pending
          <6>2. u # t  BY <3>1, <6>1
          <6>3. ref'[u] = e /\ pc'[u] = "move" /\ x = Key(u)'  BY <2>7, <6>1, <6>2
          <6>4. x \in Pending(e)'  BY <6>3 DEF Pending
          <6> QED BY <4>1, <6>4
        <5> QED BY <5>1
      <4> QED BY <4>1, <4>2 DEF Settled
    <3> QED BY <3>1
  <2>10. Bounded(e)'
    <3>1. Cardinality(Settled(e)') <= UnitCacheMax + Cardinality(Evicting(e) \cup {t})
      BY <1>5, <1>7, <2>8, <2>9, BoundMoved
    <3> QED BY <2>8, <3>1, Zenon DEF Bounded
  <2>11. ref[t] = e /\ ref'[t] \in {e, NoDict}  BY <1>7, <2>3
  <2> QED BY <1>8, <2>1, <2>6, <2>10, <2>11, PutStep
<1>10. CASE ~ InSeq(k, order[d]) /\ Finish(t, KeyError) /\ UNCHANGED order
  <2>1. ResultOK(volume, "done", call[t], KeyError)  BY DEF ResultOK
  <2>2. Alone(t) /\ LocalType' /\ Thread(t)' /\ pc'[t] = "done"
    BY <1>0, <1>1, <1>2, <1>10, <2>1, FinishLocal
  <2>3. CacheOK'
    <3>1. cu' \in Threads \cup {NoDict}  BY <1>0, <1>1 DEF CacheOK, CacheType
    <3> QED BY <1>0, <1>1, <1>10, <3>1, CacheKept
  <2>4. \A u \in Threads \ {t} :
           /\ (ref'[u] = e /\ pc'[u] = "move") <=> (ref[u] = e /\ pc[u] = "move")
           /\ u \in Evicting(e)' <=> u \in Evicting(e)
           /\ Key(u)' = Key(u)
    BY <2>2, OthersPut
  <2>5. Evicting(e) \subseteq Evicting(e)' /\ IsFiniteSet(Evicting(e)')
    <3>1. t \notin Evicting(e)  BY <1>1 DEF Evicting
    <3>2. Evicting(e) \subseteq Threads /\ Evicting(e)' \subseteq Threads  BY DEF Evicting
    <3>3. IsFiniteSet(Evicting(e)')  BY <3>2, UnitsAssumption, FS_Subset
    <3> QED BY <2>4, <3>1, <3>2, <3>3
  <2>6. Settled(e)' \subseteq Settled(e)
    <3>1. ASSUME NEW x \in Settled(e)' PROVE x \in Settled(e)
      <4>1. x \in DOMAIN data[e] /\ x \notin Pending(e)'  BY <1>1, <3>1 DEF Settled
      <4>2. x # k  BY <1>4, <1>7, <1>10, <4>1
      <4>3. x \notin Pending(e)
        <5>1. ASSUME x \in Pending(e) PROVE FALSE
          <6>1. PICK u \in Threads : ref[u] = e /\ pc[u] = "move" /\ x = Key(u)
            BY <5>1 DEF Pending
          <6>2. u # t  BY <4>2, <6>1
          <6>3. ref'[u] = e /\ pc'[u] = "move" /\ x = Key(u)'  BY <2>4, <6>1, <6>2
          <6>4. x \in Pending(e)'  BY <6>3 DEF Pending
          <6> QED BY <4>1, <6>4
        <5> QED BY <5>1
      <4> QED BY <4>1, <4>3 DEF Settled
    <3> QED BY <3>1
  <2>7. Bounded(e)'
    <3>1. Cardinality(Settled(e)') <= UnitCacheMax + Cardinality(Evicting(e)')
      BY <1>5, <1>7, <2>5, <2>6, BoundKept
    <3> QED BY <3>1, Zenon DEF Bounded
  <2>8. ref[t] = e /\ ref'[t] \in {e, NoDict}
    BY <1>3, <1>7, <1>10 DEF Finish, LocalType
  <2> QED BY <1>8, <2>2, <2>3, <2>7, <2>8, PutStep
<1> QED BY <1>6, <1>9, <1>10

(* Keys of the other threads stay pending. *)
LEMMA PendingKept ==
    ASSUME NEW t \in Threads, Alone(t), pc[t] # "move", NEW e
    PROVE  Pending(e) \subseteq Pending(e)'
<1> SUFFICES ASSUME NEW x \in Pending(e) PROVE x \in Pending(e)'  OBVIOUS
<1>1. PICK u \in Threads : ref[u] = e /\ pc[u] = "move" /\ x = Key(u)  BY DEF Pending
<1>2. u \in Threads \ {t}  BY <1>1
<1>3. ref'[u] = e /\ pc'[u] = "move" /\ x = Key(u)'  BY <1>1, <1>2, OthersPut
<1> QED BY <1>3 DEF Pending

(* The threads that evict stay so, when t does. *)
LEMMA EvictingKept ==
    ASSUME NEW t \in Threads, Alone(t), NEW e, t \in Evicting(e) => t \in Evicting(e)'
    PROVE  Evicting(e) \subseteq Evicting(e)' /\ IsFiniteSet(Evicting(e)')
<1>1. Evicting(e) \subseteq Threads /\ Evicting(e)' \subseteq Threads  BY DEF Evicting
<1>2. \A u \in Threads \ {t} : u \in Evicting(e)' <=> u \in Evicting(e)  BY OthersPut
<1>3. IsFiniteSet(Evicting(e)')  BY <1>1, UnitsAssumption, FS_Subset
<1> QED BY <1>1, <1>2, <1>3

LEMMA CheckKeeps == ASSUME IInv, NEW t \in Threads, Check(t) PROVE IInv'
<1> DEFINE d == ref[t]  q == IF Over(Len(order[d])) THEN "pop" ELSE "use"
<1>1. pc[t] = "check" /\ Goto(t, q) /\ UNCHANGED <<volume, local, cache, result>>  BY DEF Check
<1>2. LocalInv /\ CacheOK  BY InvParts
<1>3. d \in Threads  BY <1>1, <1>2, LocalFacts DEF RefOK
<1>4. PICK e \in Threads : e = d  BY <1>3
<1>5. Bounded(e)  BY InvParts
<1>6. UNCHANGED <<volume, call, out, unit, held, ref, result, cu, order, data>>
  BY <1>1 DEF local, cache
<1>7. ref' = [ref EXCEPT ![t] = d]  BY <1>2, <1>6 DEF LocalInv, LocalType
<1>8. Onward(pc[t], q) /\ RefOK(q, d) /\ d \in Threads \cup {NoDict}
  BY <1>1, <1>3 DEF Onward, Reading, Labels, Holds, RefOK
<1>9. Alone(t) /\ LocalType' /\ Thread(t)' /\ pc'[t] = q
  <2> HIDE DEF q
  <2> QED BY <1>1, <1>2, <1>6, <1>7, <1>8, OnwardLocal
<1>10. CacheOK'
  <2>1. cu' \in Threads \cup {NoDict}  BY <1>2, <1>6 DEF CacheOK, CacheType
  <2> QED BY <1>2, <1>6, <2>1, CacheKept
<1>11. Settled(e)' \subseteq Settled(e)
  <2>1. Pending(e) \subseteq Pending(e)'  BY <1>1, <1>9, PendingKept
  <2> QED BY <1>6, <2>1 DEF Settled
<1>12. /\ IsFiniteSet(DOMAIN data[e]) /\ Cardinality(DOMAIN data[e]) = Len(order[e])
       /\ IsFiniteSet(Settled(e))
  BY <1>2, CountedSets
<1>13. Bounded(e)'
  <2>1. CASE Over(Len(order[e]))
    <3>1. pc'[t] = "pop"  BY <1>4, <1>9, <2>1
    <3>2. t \in Evicting(e) => t \in Evicting(e)'  BY <1>6, <3>1 DEF Evicting
    <3>3. Evicting(e) \subseteq Evicting(e)' /\ IsFiniteSet(Evicting(e)')
      BY <1>9, <3>2, EvictingKept
    <3>4. Cardinality(Settled(e)) <= UnitCacheMax + Cardinality(Evicting(e))  BY <1>5 DEF Bounded
    <3>5. Cardinality(Settled(e)') <= UnitCacheMax + Cardinality(Evicting(e)')
      BY <1>11, <1>12, <3>3, <3>4, BoundKept
    <3> QED BY <3>5, Zenon DEF Bounded
  <2>2. CASE ~ Over(Len(order[e]))
    <3>1. Settled(e)' \subseteq DOMAIN data[e]  BY <1>6 DEF Settled
    <3>2. Evicting(e)' \subseteq Threads  BY DEF Evicting
    <3>3. IsFiniteSet(Evicting(e)')  BY <3>2, UnitsAssumption, FS_Subset
    <3>4. {} \subseteq Evicting(e)' /\ Cardinality({}) = 0  BY FS_EmptySet
    <3>5. Cardinality(DOMAIN data[e]) \in Nat /\ UnitCacheMax \in Nat
      BY <1>12, FS_CardinalityType, UnitsAssumption
    <3>6. Cardinality(DOMAIN data[e]) <= UnitCacheMax + Cardinality({})
      <4>1. ~ (Cardinality(DOMAIN data[e]) > UnitCacheMax)  BY <1>12, <2>2 DEF Over
      <4> QED BY <3>4, <3>5, <4>1
    <3>7. Cardinality(Settled(e)') <= UnitCacheMax + Cardinality(Evicting(e)')
      BY <1>12, <3>1, <3>3, <3>4, <3>6, BoundKept
    <3> QED BY <3>7, Zenon DEF Bounded
  <2> QED BY <2>1, <2>2
<1>14. ref[t] = e /\ ref'[t] \in {e, NoDict}  BY <1>4, <1>6
<1>15. \A x \in Threads \ {e} : data'[x] = data[x]  BY <1>6
<1> QED BY <1>9, <1>10, <1>13, <1>14, <1>15, PutStep

(* The oldest key of a dictionary is dropped. *)
LEMMA PoppedDict ==
    ASSUME CacheOK, NEW d \in Threads, order[d] # << >>, UNCHANGED <<volume, cu>>,
           data'  = [data EXCEPT ![d] = [k \in DOMAIN @ \ {Head(order[d])} |-> @[k]]],
           order' = [order EXCEPT ![d] = Tail(@)]
    PROVE  CacheOK' /\ DOMAIN data'[d] \subseteq DOMAIN data[d]
<1> DEFINE s == order[d]  z == Tail(s)  S == KeyType(volume)  h == Head(s)
           D == DOMAIN data[d]  m == [k \in D \ {h} |-> data[d][k]]
<1>1. CacheType /\ \A e \in Threads : Dict(e)  BY DEF CacheOK
<1>2. s \in Seq(S) /\ order \in [Threads -> Seq(S)] /\ s # << >>  BY <1>1 DEF CacheType
<1>3. Distinct(s) /\ (\A x \in S : x \in D <=> InSeq(x, s))
      /\ D \subseteq S /\ \A x \in D : Entry(volume, x, data[d][x])
  BY <1>1, Zenon DEF Dict, DictOK
<1>4. z \in Seq(S) /\ Distinct(z) /\ \A x \in S : InSeq(x, z) <=> (x # h /\ InSeq(x, s))
  BY <1>2, <1>3, PoppedKeys
<1>5. order' = [order EXCEPT ![d] = z] /\ data' = [data EXCEPT ![d] = m]  OBVIOUS
<1>6. DOMAIN m = D \ {h} /\ \A k \in D \ {h} : m[k] = data[d][k]  OBVIOUS
<1> HIDE DEF z, s, m, h, D
<1>7. \A x \in S : x \in DOMAIN m <=> InSeq(x, z)  BY <1>3, <1>4, <1>6
<1>8. DictOK(volume, z, m)
  <2>1. DOMAIN m \subseteq S  BY <1>3, <1>6
  <2>2. \A k \in DOMAIN m : Entry(volume, k, m[k])  BY <1>3, <1>6
  <2> QED BY <1>4, <1>7, <2>1, <2>2, Zenon DEF DictOK
<1>9. KeyType(volume)' = S  BY DEF KeyType
<1>10. CacheType'
  <2>1. order' \in [Threads -> Seq(S)]  BY <1>2, <1>4, <1>5
  <2>2. data' = [e \in Threads |-> data'[e]]  BY <1>1, <1>5 DEF CacheType
  <2> QED BY <1>1, <1>9, <2>1, <2>2 DEF CacheType
<1>11. data'[d] = m  BY <1>1, <1>5 DEF CacheType
<1>12. ASSUME NEW e \in Threads PROVE Dict(e)'
  <2>1. CASE e = d
    <3>1. order'[e] = z  BY <1>2, <1>5, <2>1
    <3> QED BY <1>8, <1>11, <2>1, <3>1 DEF Dict
  <2>2. CASE e # d
    <3>1. order'[e] = order[e] /\ data'[e] = data[e]  BY <1>1, <1>2, <1>5, <2>2 DEF CacheType
    <3> QED BY <1>1, <3>1 DEF Dict
  <2> QED BY <2>1, <2>2
<1> QED BY <1>6, <1>10, <1>11, <1>12 DEF CacheOK, D

(* A key is assigned to. *)
LEMMA AssignedDict ==
    ASSUME CacheOK, NEW d \in Threads, NEW b \in KeyType(volume), NEW h, Entry(volume, b, h),
           UNCHANGED <<volume, cu>>,
           data'  = [data EXCEPT ![d] =
                        [k \in DOMAIN @ \cup {b} |-> IF k = b THEN h ELSE @[k]]],
           order' = [order EXCEPT ![d] = Assigned(@, b)]
    PROVE  CacheOK' /\ DOMAIN data'[d] = DOMAIN data[d] \cup {b}
<1> DEFINE s == order[d]  z == Assigned(s, b)  S == KeyType(volume)
           D == DOMAIN data[d]  m == [k \in D \cup {b} |-> IF k = b THEN h ELSE data[d][k]]
<1>1. CacheType /\ \A e \in Threads : Dict(e)  BY DEF CacheOK
<1>2. s \in Seq(S) /\ order \in [Threads -> Seq(S)]  BY <1>1 DEF CacheType
<1>3. Distinct(s) /\ (\A x \in S : x \in D <=> InSeq(x, s))
      /\ D \subseteq S /\ \A x \in D : Entry(volume, x, data[d][x])
  BY <1>1, Zenon DEF Dict, DictOK
<1>4. z \in Seq(S) /\ Distinct(z) /\ \A x \in S : InSeq(x, z) <=> (x = b \/ InSeq(x, s))
  BY <1>2, <1>3, AssignedKeys
<1>5. order' = [order EXCEPT ![d] = z] /\ data' = [data EXCEPT ![d] = m]  OBVIOUS
<1>6. DOMAIN m = D \cup {b} /\ m[b] = h /\ \A k \in D \ {b} : m[k] = data[d][k]  OBVIOUS
<1> HIDE DEF z, s, m, D
<1>7. \A x \in S : x \in DOMAIN m <=> InSeq(x, z)  BY <1>3, <1>4, <1>6
<1>8. DictOK(volume, z, m)
  <2>1. DOMAIN m \subseteq S  BY <1>3, <1>6
  <2>2. \A k \in DOMAIN m : Entry(volume, k, m[k])  BY <1>3, <1>6
  <2> QED BY <1>4, <1>7, <2>1, <2>2, Zenon DEF DictOK
<1>9. KeyType(volume)' = S  BY DEF KeyType
<1>10. CacheType'
  <2>1. order' \in [Threads -> Seq(S)]  BY <1>2, <1>4, <1>5
  <2>2. data' = [e \in Threads |-> data'[e]]  BY <1>1, <1>5 DEF CacheType
  <2> QED BY <1>1, <1>9, <2>1, <2>2 DEF CacheType
<1>11. data'[d] = m  BY <1>1, <1>5 DEF CacheType
<1>12. ASSUME NEW e \in Threads PROVE Dict(e)'
  <2>1. CASE e = d
    <3>1. order'[e] = z  BY <1>2, <1>5, <2>1
    <3> QED BY <1>8, <1>11, <2>1, <3>1 DEF Dict
  <2>2. CASE e # d
    <3>1. order'[e] = order[e] /\ data'[e] = data[e]  BY <1>1, <1>2, <1>5, <2>2 DEF CacheType
    <3> QED BY <1>1, <3>1 DEF Dict
  <2> QED BY <2>1, <2>2
<1> QED BY <1>6, <1>10, <1>11, <1>12 DEF CacheOK, D

LEMMA PopKeeps == ASSUME IInv, NEW t \in Threads, Pop(t) PROVE IInv'
<1> DEFINE d == ref[t]
<1>1. pc[t] = "pop" /\ UNCHANGED <<volume, cu>>  BY DEF Pop
<1>2. LocalInv /\ CacheOK /\ LocalType  BY InvParts DEF LocalInv
<1>3. d \in Threads /\ call[t] \in RequestType(volume)  BY <1>1, <1>2, LocalFacts DEF RefOK
<1>4. PICK e \in Threads : e = d  BY <1>3
<1>5. Bounded(e)  BY InvParts
<1>6. /\ IsFiniteSet(DOMAIN data[e]) /\ Cardinality(DOMAIN data[e]) = Len(order[e])
      /\ IsFiniteSet(Settled(e))
  BY <1>2, CountedSets
<1>7. \/ /\ order[d] # << >>
         /\ data'  = [data EXCEPT ![d] = [k \in DOMAIN @ \ {Head(order[d])} |-> @[k]]]
         /\ order' = [order EXCEPT ![d] = Tail(@)]
         /\ Goto(t, "check") /\ UNCHANGED <<local, result>>
      \/ order[d] = << >> /\ Finish(t, KeyError) /\ UNCHANGED <<order, data>>
  BY Zenon DEF Pop
<1>8. CASE /\ order[d] # << >>
           /\ data'  = [data EXCEPT ![d] = [k \in DOMAIN @ \ {Head(order[d])} |-> @[k]]]
           /\ order' = [order EXCEPT ![d] = Tail(@)]
           /\ Goto(t, "check") /\ UNCHANGED <<local, result>>
  <2>1. CacheOK' /\ DOMAIN data'[e] \subseteq DOMAIN data[e]
    BY <1>1, <1>2, <1>4, <1>8, PoppedDict
  <2>2. Onward(pc[t], "check") /\ RefOK("check", d) /\ d \in Threads \cup {NoDict}
    BY <1>1, <1>3 DEF Onward, Reading, Labels, Holds, RefOK
  <2>3. UNCHANGED <<volume, call, out, unit, held, result, ref>>  BY <1>1, <1>8 DEF local
  <2>4. ref' = [ref EXCEPT ![t] = d]  BY <1>2, <2>3 DEF LocalType
  <2>5. Alone(t) /\ LocalType' /\ Thread(t)' /\ pc'[t] = "check"
    BY <1>2, <1>8, <2>2, <2>3, <2>4, OnwardLocal
  <2>6. Settled(e)' \subseteq Settled(e)
    <3>1. Pending(e) \subseteq Pending(e)'  BY <1>1, <2>5, PendingKept
    <3> QED BY <2>1, <3>1 DEF Settled
  <2>7. Evicting(e) \subseteq Evicting(e)' /\ IsFiniteSet(Evicting(e)')
    <3>1. t \in Evicting(e) => t \in Evicting(e)'  BY <2>3, <2>5 DEF Evicting
    <3> QED BY <2>5, <3>1, EvictingKept
  <2>8. Bounded(e)'
    <3>1. Cardinality(Settled(e)) <= UnitCacheMax + Cardinality(Evicting(e))  BY <1>5 DEF Bounded
    <3>2. Cardinality(Settled(e)') <= UnitCacheMax + Cardinality(Evicting(e)')
      BY <1>6, <2>6, <2>7, <3>1, BoundKept
    <3> QED BY <3>2, Zenon DEF Bounded
  <2>9. ref[t] = e /\ ref'[t] \in {e, NoDict}  BY <1>4, <2>3
  <2>10. \A x \in Threads \ {e} : data'[x] = data[x]  BY <1>2, <1>4, <1>8 DEF CacheOK, CacheType
  <2> QED BY <2>1, <2>5, <2>8, <2>9, <2>10, PutStep
<1>9. CASE order[d] = << >> /\ Finish(t, KeyError) /\ UNCHANGED <<order, data>>
  <2>1. ResultOK(volume, "done", call[t], KeyError)  BY DEF ResultOK
  <2>2. Alone(t) /\ LocalType' /\ Thread(t)' /\ pc'[t] = "done"
    BY <1>1, <1>2, <1>3, <1>9, <2>1, FinishLocal
  <2>3. CacheOK'
    <3>1. cu' \in Threads \cup {NoDict}  BY <1>1, <1>2 DEF CacheOK, CacheType
    <3> QED BY <1>1, <1>2, <1>9, <3>1, CacheKept
  <2>4. Bounded(e)'
    <3>1. Len(order[e]) = 0  BY <1>4, <1>9
    <3>2. DOMAIN data[e] = {}  BY <1>6, <3>1, FS_EmptySet
    <3>3. Settled(e)' = {}  BY <1>9, <3>2 DEF Settled
    <3>4. Evicting(e)' \subseteq Threads  BY DEF Evicting
    <3>5. IsFiniteSet(Evicting(e)')  BY <3>4, UnitsAssumption, FS_Subset
    <3>6. /\ Cardinality({}) = 0 /\ Cardinality(Evicting(e)') \in Nat /\ UnitCacheMax \in Nat
      BY <3>5, FS_EmptySet, FS_CardinalityType, UnitsAssumption
    <3>7. Cardinality(Settled(e)') <= UnitCacheMax + Cardinality(Evicting(e)')
      BY <3>3, <3>6
    <3> QED BY <3>7, Zenon DEF Bounded
  <2>5. ref[t] = e /\ ref'[t] \in {e, NoDict}  BY <1>2, <1>4, <1>9 DEF Finish, LocalType
  <2>6. \A x \in Threads \ {e} : data'[x] = data[x]  BY <1>9
  <2> QED BY <2>2, <2>3, <2>4, <2>5, <2>6, PutStep
<1> QED BY <1>7, <1>8, <1>9

LEMMA AssignKeeps == ASSUME IInv, NEW t \in Threads, Assign(t) PROVE IInv'
<1> DEFINE d == ref[t]  k == Key(t)
<1>1. /\ pc[t] = "assign" /\ Goto(t, "move") /\ UNCHANGED <<volume, local, cu, result>>
      /\ data'  = [data EXCEPT ![d] =
                      [x \in DOMAIN @ \cup {k} |-> IF x = k THEN held[t] ELSE @[x]]]
      /\ order' = [order EXCEPT ![d] = Assigned(@, k)]
  BY DEF Assign
<1>2. LocalInv /\ CacheOK /\ LocalType  BY InvParts DEF LocalInv
<1>3. /\ d \in Threads /\ held[t] \in Seq(Int) /\ k \in KeyType(volume)
      /\ CallOK(volume, "assign", call[t])
      /\ ThreadOK(volume, "assign", call[t], out[t], unit[t], held[t], ref[t], result[t])
  BY <1>1, <1>2, LocalFacts, KeyFacts DEF RefOK
<1>4. PICK e \in Threads : e = d  BY <1>3
<1>5. Entry(volume, k, held[t])
  <2>1. k[1] = call[t].file /\ k = <<call[t].file, unit[t].at>>  BY DEF Key
  <2>2. "assign" \in Holds  BY DEF Holds
  <2>3. volume.files[call[t].file].kind \in Compressed  BY <1>3, <2>2, Zenon DEF CallOK
  <2>4. IsPlain(volume, <<call[t].file, unit[t].at>>, held[t])
    BY <1>3, <2>2, Zenon DEF ThreadOK, HeldOK
  <2>5. IsPlain(volume, k, held[t])  BY <2>1, <2>4
  <2> HIDE DEF k
  <2> QED BY <1>3, <2>1, <2>3, <2>5 DEF Entry
<1>6. CacheOK' /\ DOMAIN data'[e] = DOMAIN data[e] \cup {k}
  BY <1>1, <1>2, <1>3, <1>4, <1>5, AssignedDict
<1>7. UNCHANGED <<volume, call, out, unit, held, result, ref>>  BY <1>1 DEF local
<1>8. ref' = [ref EXCEPT ![t] = d]  BY <1>2, <1>7 DEF LocalType
<1>9. Onward(pc[t], "move") /\ RefOK("move", d) /\ d \in Threads \cup {NoDict}
  BY <1>1, <1>3 DEF Onward, Reading, Labels, Holds, RefOK
<1>10. Alone(t) /\ LocalType' /\ Thread(t)' /\ pc'[t] = "move"
  BY <1>1, <1>2, <1>7, <1>8, <1>9, OnwardLocal
<1>11. Settled(e)' \subseteq Settled(e)
  <2>1. Pending(e) \subseteq Pending(e)'  BY <1>1, <1>10, PendingKept
  <2>2. k \in Pending(e)'
    <3>1. ref'[t] = e /\ pc'[t] = "move" /\ Key(t)' = k  BY <1>4, <1>7, <1>10 DEF Key
    <3> QED BY <3>1 DEF Pending
  <2> QED BY <1>6, <2>1, <2>2 DEF Settled
<1>12. Evicting(e) \subseteq Evicting(e)' /\ IsFiniteSet(Evicting(e)')
  <2>1. t \notin Evicting(e)  BY <1>1 DEF Evicting
  <2> QED BY <1>10, <2>1, EvictingKept
<1>13. Bounded(e)'
  <2>1. Bounded(e)  BY InvParts
  <2>2. Cardinality(Settled(e)) <= UnitCacheMax + Cardinality(Evicting(e))  BY <2>1 DEF Bounded
  <2>3. IsFiniteSet(Settled(e))  BY <1>2, CountedSets
  <2>4. Cardinality(Settled(e)') <= UnitCacheMax + Cardinality(Evicting(e)')
    BY <1>11, <1>12, <2>2, <2>3, BoundKept
  <2> QED BY <2>4, Zenon DEF Bounded
<1>14. ref[t] = e /\ ref'[t] \in {e, NoDict}  BY <1>4, <1>7
<1>15. \A x \in Threads \ {e} : data'[x] = data[x]  BY <1>1, <1>2, <1>4 DEF CacheOK, CacheType
<1> QED BY <1>6, <1>10, <1>13, <1>14, <1>15, PutStep

-----------------------------------------------------------------------------
(* The specification *)

LEMMA InitInv == ASSUME Init PROVE IInv
<1> DEFINE z == [at |-> 0, from |-> 0]
<1>1. /\ volume \in Volumes /\ pc = [t \in Threads |-> "idle"]
      /\ call = [t \in Threads |-> [file |-> "", off |-> 0, len |-> 0]]
      /\ out = [t \in Threads |-> << >>] /\ unit = [t \in Threads |-> z]
      /\ held = [t \in Threads |-> << >>] /\ ref = [t \in Threads |-> NoDict] /\ cu = NoDict
      /\ order = [d \in Threads |-> << >>] /\ data = [d \in Threads |-> << >>]
      /\ result = [t \in Threads |-> << >>]
  BY DEF Init
<1>2. z \in UnitType /\ << >> \in Seq(Int) /\ "idle" \in Labels  BY DEF UnitType, Labels
<1>3. << >> \in Seq(KeyType(volume))  OBVIOUS
<1>4. LocalType
  <2> HIDE DEF z
  <2> QED BY <1>1, <1>2 DEF LocalType
<1>5. CacheType  BY <1>1, <1>3 DEF CacheType
<1>6. ASSUME NEW t \in Threads PROVE Thread(t)
  <2>1. pc[t] = "idle" /\ out[t] = << >>  BY <1>1
  <2>2. "idle" \notin Reading /\ "idle" \notin Holds /\ "idle" # "done"  BY DEF Reading, Holds
  <2>3. CallOK(volume, "idle", call[t]) /\ ProgressOK(volume, "idle", call[t], << >>, unit[t])
    BY <2>2 DEF CallOK, ProgressOK
  <2>4. HeldOK(volume, "idle", call[t], unit[t], held[t]) /\ RefOK("idle", ref[t])
        /\ ResultOK(volume, "idle", call[t], result[t])
    BY <2>2 DEF HeldOK, RefOK, ResultOK
  <2> QED BY <2>1, <2>3, <2>4, Zenon DEF Thread, ThreadOK
<1>7. ASSUME NEW d \in Threads PROVE Dict(d) /\ Bounded(d)
  <2>0. order[d] = << >> /\ data[d] = << >>  BY <1>1
  <2>1. order[d] = << >> /\ DOMAIN data[d] = {}
    <3>1. DOMAIN << >> = {}  OBVIOUS
    <3> QED BY <2>0, <3>1, Zenon
  <2>2. Len(<< >>) = 0 /\ \A i \in 1..0 : FALSE  OBVIOUS
  <2>3. Distinct(<< >>) /\ \A k : ~ InSeq(k, << >>)  BY <2>2 DEF Distinct, InSeq
  <2>4. Dict(d)  BY <2>1, <2>3 DEF Dict, DictOK
  <2>5. Settled(d) = {}  BY <2>1 DEF Settled
  <2>6. Evicting(d) = {}  BY <1>1 DEF Evicting
  <2>7. Cardinality({}) = 0 /\ UnitCacheMax \in Nat  BY FS_EmptySet, UnitsAssumption
  <2>8. Bounded(d)  BY <2>5, <2>6, <2>7 DEF Bounded
  <2> QED BY <2>4, <2>8
<1> QED BY <1>4, <1>5, <1>6, <1>7 DEF IInv

LEMMA NextKeeps == ASSUME ByteTypes, IInv, [Next]_vars PROVE IInv'
<1>1. ASSUME NEW t \in Threads, Begin(t) PROVE IInv'  BY <1>1, BeginKeeps
<1>2. ASSUME NEW t \in Threads, Step(t) PROVE IInv'
  <2>1. CASE Enter(t)   BY <2>1, EnterKeeps
  <2>2. CASE Loop(t)    BY <2>2, LoopKeeps
  <2>3. CASE Look(t)    BY <2>3, LookKeeps
  <2>4. CASE Get(t)     BY <2>4, GetKeeps
  <2>5. CASE Touch(t)   BY <2>5, TouchKeeps
  <2>6. CASE Build(t)   BY <2>6, BuildKeeps
  <2>7. CASE Refer(t)   BY <2>7, ReferKeeps
  <2>8. CASE Create(t)  BY <2>8, CreateKeeps
  <2>9. CASE Assign(t)  BY <2>9, AssignKeeps
  <2>10. CASE Move(t)   BY <2>10, MoveKeeps
  <2>11. CASE Check(t)  BY <2>11, CheckKeeps
  <2>12. CASE Pop(t)    BY <2>12, PopKeeps
  <2>13. CASE Use(t)    BY <2>13, UseKeeps
  <2> QED BY <1>2, <2>1, <2>2, <2>3, <2>4, <2>5, <2>6, <2>7, <2>8, <2>9, <2>10, <2>11,
             <2>12, <2>13 DEF Step
<1>3. CASE UNCHANGED vars
  <2>1. UNCHANGED <<volume, pc, call, out, unit, held, ref, cu, order, data, result>>
    BY <1>3 DEF vars, local, cache
  <2>2. LocalType' /\ CacheType'  BY <2>1 DEF IInv, LocalType, CacheType, KeyType
  <2>3. \A t \in Threads : Thread(t)'  BY <2>1 DEF IInv, Thread
  <2>4. \A d \in Threads : Dict(d)'  BY <2>1 DEF IInv, Dict
  <2>5. ASSUME NEW d \in Threads PROVE Bounded(d)'
    <3>1. Settled(d)' = Settled(d) /\ Evicting(d)' = Evicting(d)
      BY <2>1 DEF Settled, Pending, Evicting, Key
    <3>2. Bounded(d)  BY DEF IInv
    <3> QED BY <3>1, <3>2, Zenon DEF Bounded
  <2> QED BY <2>2, <2>3, <2>4, <2>5 DEF IInv
<1> QED BY <1>1, <1>2, <1>3 DEF Next

LEMMA TypesHold == ASSUME IInv PROVE TypeOK
<1>0. LocalInv /\ CacheOK  BY InvParts
<1>1. ASSUME NEW t \in Threads
      PROVE  /\ pc[t] # "idle" => call[t].file \in DOMAIN Files
             /\ Typed(out[t]) /\ Typed(held[t])
             /\ unit[t].at \in Nat /\ unit[t].from \in Nat
             /\ ref[t] \in Threads \cup {NoDict}
             /\ pc[t] \in {"get", "touch", "assign", "move", "check", "pop"}
                   => ref[t] \in Threads
  <2>1. /\ out[t] \in Seq(Int) /\ unit[t] \in UnitType /\ held[t] \in Seq(Int)
        /\ ref[t] \in Threads \cup {NoDict} /\ RefOK(pc[t], ref[t])
        /\ pc[t] # "idle" => call[t] \in RequestType(volume)
    BY <1>0, LocalFacts
  <2>2. pc[t] # "idle" => call[t].file \in DOMAIN Files  BY <2>1 DEF RequestType, Files
  <2>3. Typed(out[t]) /\ Typed(held[t])  BY <2>1, LenProperties DEF Typed
  <2>4. unit[t].at \in Nat /\ unit[t].from \in Nat  BY <2>1 DEF UnitType
  <2> QED BY <2>1, <2>2, <2>3, <2>4 DEF RefOK
<1>2. ASSUME NEW d \in Threads, NEW i \in 1..Len(order[d])
      PROVE  order[d][i] \in (DOMAIN Files) \X Nat
  <2>1. order[d] \in Seq(KeyType(volume))  BY <1>0 DEF CacheOK, CacheType
  <2> DEFINE S == KeyType(volume)  s == order[d]
  <2> HIDE DEF S, s
  <2>2. s[i] \in S  BY <2>1, LenProperties DEF S, s
  <2> QED BY <2>2 DEF S, s, KeyType, Files
<1>3. volume \in Volumes /\ pc \in [Threads -> Labels]  BY <1>0 DEF LocalInv, LocalType
<1>4. cu \in Threads \cup {NoDict}  BY <1>0 DEF CacheOK, CacheType
<1> QED BY <1>1, <1>2, <1>3, <1>4, Zenon DEF TypeOK

LEMMA SoundHolds == ASSUME IInv PROVE CacheSound
<1>0. CacheOK  BY InvParts
<1> SUFFICES ASSUME NEW d \in Threads
             PROVE  /\ Distinct(order[d])
                    /\ DOMAIN data[d] = {order[d][i] : i \in 1..Len(order[d])}
                    /\ \A k \in DOMAIN data[d] :
                          LET f == Files[k[1]]
                              whole == IF f.kind = "wof" THEN [off |-> 0, len |-> f.size]
                                       ELSE [off |-> k[2] * UnitBytes(f), len |-> UnitBytes(f)]
                          IN Clean(volume, f, whole) =>
                                data[d][k] = IF f.kind = "wof"
                                             THEN Xpress(Payload(volume, f), f.size)
                                             ELSE UnitOf(volume, f, k[2])
  BY Zenon DEF CacheSound
<1> DEFINE s == order[d]  D == DOMAIN data[d]  S == KeyType(volume)
<1>1. s \in Seq(S) /\ Dict(d)  BY <1>0 DEF CacheOK, CacheType
<1>2. Distinct(s) /\ (\A x \in S : x \in D <=> InSeq(x, s))
      /\ D \subseteq S /\ \A x \in D : Entry(volume, x, data[d][x])
  BY <1>1, Zenon DEF Dict, DictOK
<1>3. D = {s[i] : i \in 1..Len(s)}
  <2> HIDE DEF s, D, S
  <2>1. \A i \in 1..Len(s) : s[i] \in S  BY <1>1, LenProperties
  <2>2. \A i \in 1..Len(s) : s[i] \in D  BY <1>2, <2>1 DEF InSeq
  <2>3. \A x \in D : \E i \in 1..Len(s) : s[i] = x  BY <1>2 DEF InSeq
  <2> QED BY <2>2, <2>3
<1>4. ASSUME NEW k \in D
      PROVE  LET f == Files[k[1]]
                 whole == IF f.kind = "wof" THEN [off |-> 0, len |-> f.size]
                          ELSE [off |-> k[2] * UnitBytes(f), len |-> UnitBytes(f)]
             IN Clean(volume, f, whole) =>
                   data[d][k] = IF f.kind = "wof" THEN Xpress(Payload(volume, f), f.size)
                                ELSE UnitOf(volume, f, k[2])
  <2>1. IsPlain(volume, k, data[d][k])  BY <1>2, Zenon DEF Entry
  <2> QED BY <2>1, Zenon DEF IsPlain, Whole, PlainOf, Files
<1> QED BY <1>2, <1>3, <1>4

LEMMA BoundHolds == ASSUME IInv PROVE CacheBounded
<1>0. CacheOK  BY InvParts
<1> SUFFICES ASSUME NEW d \in Threads
             PROVE  Len(order[d]) <= UnitCacheMax
                       + Cardinality({t \in Threads : /\ ref[t] = d
                                                      /\ pc[t] \in {"move", "check", "pop"}})
  BY DEF CacheBounded
<1> DEFINE M == {t \in Threads : ref[t] = d /\ pc[t] = "move"}
           A == {t \in Threads : ref[t] = d /\ pc[t] \in {"move", "check", "pop"}}
           D == DOMAIN data[d]
<1>1. IsFiniteSet(D) /\ Cardinality(D) = Len(order[d]) /\ IsFiniteSet(Settled(d))
      /\ IsFiniteSet(Evicting(d))
  BY <1>0, CountedSets
<1>2. Cardinality(Settled(d)) <= UnitCacheMax + Cardinality(Evicting(d))
  BY InvParts DEF Bounded
<1>3. IsFiniteSet(M)
  <2>1. M \subseteq Threads  OBVIOUS
  <2> QED BY <2>1, UnitsAssumption, FS_Subset
<1>4. IsFiniteSet(Pending(d)) /\ Cardinality(Pending(d)) <= Cardinality(M)
  <2> DEFINE f == [t \in M |-> Key(t)]
  <2>1. Pending(d) = {Key(t) : t \in M}  BY DEF Pending
  <2>2. f \in Surjection(M, Pending(d))
    <3> HIDE DEF M
    <3>1. f \in [M -> Pending(d)]  BY <2>1
    <3>2. \A x \in Pending(d) : \E t \in M : f[t] = x  BY <2>1
    <3> QED BY <3>1, <3>2 DEF Surjection
  <2> HIDE DEF f, M
  <2> QED BY <1>3, <2>2, FS_Surjection
<1>5. A = M \cup Evicting(d) /\ M \cap Evicting(d) = {}  BY DEF Evicting
<1>6. D \subseteq Settled(d) \cup Pending(d)  BY DEF Settled
<1> DEFINE U == Settled(d) \cup Pending(d)
<1>7. IsFiniteSet(U)
      /\ Cardinality(U) = Cardinality(Settled(d)) + Cardinality(Pending(d))
                              - Cardinality(Settled(d) \cap Pending(d))
  BY <1>1, <1>4, FS_Union
<1>8. Settled(d) \cap Pending(d) = {}  BY DEF Settled
<1>9. Cardinality(D) <= Cardinality(U)  BY <1>6, <1>7, FS_Subset
<1>10. Cardinality(A) = Cardinality(M) + Cardinality(Evicting(d)) - Cardinality({})
  <2> HIDE DEF A, M
  <2> QED BY <1>1, <1>3, <1>5, FS_Union
<1> HIDE DEF A, M, D, U
<1>11. /\ Cardinality(D) \in Nat /\ Cardinality(U) \in Nat /\ Cardinality(M) \in Nat
       /\ Cardinality(Settled(d)) \in Nat /\ Cardinality(Pending(d)) \in Nat
       /\ Cardinality(Evicting(d)) \in Nat /\ UnitCacheMax \in Nat /\ Cardinality({}) = 0
  BY <1>1, <1>3, <1>4, <1>7, FS_CardinalityType, FS_EmptySet, UnitsAssumption
<1>12. Len(order[d]) <= UnitCacheMax + Cardinality(A)
  <2> DEFINE a == Cardinality(A)  dd == Cardinality(D)  m == Cardinality(M)  u == Cardinality(U)
             s == Cardinality(Settled(d))  p == Cardinality(Pending(d))
             e == Cardinality(Evicting(d))
  <2>1. u = s + p - 0  BY <1>7, <1>8, <1>11
  <2>2. a = m + e - 0  BY <1>10, <1>11
  <2>3. dd <= u /\ p <= m /\ s <= UnitCacheMax + e  BY <1>2, <1>4, <1>9
  <2>4. /\ dd \in Nat /\ u \in Nat /\ m \in Nat /\ s \in Nat /\ p \in Nat /\ e \in Nat
        /\ UnitCacheMax \in Nat
    BY <1>11
  <2>5. Len(order[d]) = dd  BY <1>1
  <2> HIDE DEF a, dd, m, u, s, p, e
  <2>6. dd <= UnitCacheMax + a  BY <2>1, <2>2, <2>3, <2>4
  <2> QED BY <2>5, <2>6 DEF a
<1> QED BY <1>12 DEF A

LEMMA ReadsHold == ASSUME IInv PROVE ReadIsFile
<1>1. ASSUME NEW t \in Threads, Answered(t)
      PROVE  AnswerOK(volume, File(t), Entitled(File(t), call[t]), result[t])
  <2>1. ResultOK(volume, pc[t], call[t], result[t])  BY DEF IInv, Thread, ThreadOK
  <2> QED BY <1>1, <2>1, Zenon DEF Answered, ResultOK, File, Files
<1> QED BY <1>1, Zenon DEF ReadIsFile, AnswerOK

(* Under every interleaving of any number of threads that read, miss, put,  *)
(* touch and evict, each dictionary lists its keys once, exceeds the limit   *)
(* by at most the threads that are evicting, and holds under a key the       *)
(* plaintext of that unit of that file (_cu_cache_get, _cu_cache_put).       *)
THEOREM NtfsCacheInv == ASSUME ByteTypes PROVE Spec => []CacheInv
<1>1. Init => IInv  BY InitInv
<1>2. IInv /\ [Next]_vars => IInv'  BY NextKeeps
<1>3. IInv => CacheInv  BY TypesHold, SoundHolds, BoundHolds DEF CacheInv
<1> QED BY <1>1, <1>2, <1>3, PTL DEF Spec

(* A read that returns, and for which the image has the clusters it depends *)
(* on, returns the bytes of the file, whatever the run lists, the gap, the   *)
(* map of shifts, the size of units and of clusters and the other threads    *)
(* (read_file, _read_compressed_attr, _read_wof, _read_mft_record_raw).      *)
THEOREM NtfsReads == ASSUME ByteTypes PROVE Spec => []ReadIsFile
<1>1. Init => IInv  BY InitInv
<1>2. IInv /\ [Next]_vars => IInv'  BY NextKeeps
<1>3. IInv => ReadIsFile  BY ReadsHold
<1> QED BY <1>1, <1>2, <1>3, PTL DEF Spec
=============================================================================

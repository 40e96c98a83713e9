------------------------------- MODULE Lemmas -------------------------------
(***************************************************************************)
(* Lemmas that the proofs about several components rest on: induction over *)
(* numbers, division, definitions by recursion, concatenation, and the key *)
(* order of an OrderedDict, over any set of keys.                          *)
(*                                                                         *)
(* Induction is stated for the set of the numbers that a formula holds of: *)
(* no backend can instantiate a theorem that has the formula as a          *)
(* parameter.                                                              *)
(***************************************************************************)
EXTENDS OrderedDict, SequencesExt, SequenceTheorems, WellFoundedInduction, TLAPS

-----------------------------------------------------------------------------
(* Numbers *)

LEMMA LeastNat ==
    ASSUME NEW S, S \subseteq Nat, S # {}
    PROVE  \E m \in S : \A x \in S : m <= x
<1>1. PICK m \in S : \A x \in S : <<x, m>> \notin OpToRel(<, Nat)
  BY NatLessThanWellFounded, WFMin
<1>2. ASSUME NEW x \in S, ~ (m <= x) PROVE FALSE
  <2>1. m \in Nat /\ x \in Nat /\ x < m  BY <1>2
  <2> QED BY <1>1, <2>1 DEF OpToRel
<1> QED BY <1>2

LEMMA GreatestUpTo ==
    ASSUME NEW n \in Nat, NEW S, S \subseteq 1..n, S # {}
    PROVE  \E m \in S : \A x \in S : x <= m
<1> DEFINE T == {n - x : x \in S}
<1>1. T \subseteq Nat  OBVIOUS
<1>2. T # {}  OBVIOUS
<1>3. PICK d \in T : \A y \in T : d <= y  BY <1>1, <1>2, LeastNat
<1>4. PICK m \in S : d = n - m  OBVIOUS
<1>5. ASSUME NEW x \in S PROVE x <= m
  <2>1. n - x \in T  OBVIOUS
  <2>2. n - m <= n - x  BY <1>3, <1>4, <2>1
  <2>3. x \in Int /\ m \in Int  OBVIOUS
  <2> QED BY <2>2, <2>3
<1> QED BY <1>5

(* Induction, for a set of numbers. *)
LEMMA AllOfNat ==
    ASSUME NEW S, 0 \in S, \A n \in Nat : n \in S => n + 1 \in S
    PROVE  Nat \subseteq S
<1> SUFFICES ASSUME NEW x \in Nat, x \notin S PROVE FALSE  OBVIOUS
<1>1. PICK m \in Nat \ S : \A y \in Nat \ S : m <= y  BY LeastNat
<1>2. m # 0 /\ m - 1 \in Nat /\ (m - 1) + 1 = m  OBVIOUS
<1>3. m - 1 \in S  BY <1>1, <1>2
<1> QED BY <1>1, <1>2, <1>3

LEMMA AllUpTo ==
    ASSUME NEW n \in Nat, NEW S, 0 \in S, \A k \in 0..(n - 1) : k \in S => k + 1 \in S
    PROVE  0..n \subseteq S
<1> DEFINE T == {k \in Nat : k \in S \/ k > n}
<1>1. 0 \in T  OBVIOUS
<1>2. \A k \in Nat : k \in T => k + 1 \in T  OBVIOUS
<1>3. Nat \subseteq T  BY <1>1, <1>2, AllOfNat
<1> QED BY <1>3

(* Quotient and remainder. *)
LEMMA Division ==
    ASSUME NEW a \in Int, NEW c \in Nat \ {0}
    PROVE  /\ a \div c \in Int
           /\ a % c \in 0..(c - 1)
           /\ a = c * (a \div c) + (a % c)
  OBVIOUS

(* Quotient and remainder are unique. *)
LEMMA DivisionUnique ==
    ASSUME NEW c \in Nat \ {0}, NEW q \in Int, NEW r \in 0..(c - 1),
           NEW q2 \in Int, NEW r2 \in 0..(c - 1), c * q + r = c * q2 + r2
    PROVE  q = q2 /\ r = r2
<1>1. ASSUME q < q2 PROVE FALSE
  <2>1. c * (q2 - q - 1) >= 0  BY <1>1
  <2>2. c * q2 >= c * q + c  BY <2>1
  <2> QED BY <2>2
<1>2. ASSUME q2 < q PROVE FALSE
  <2>1. c * (q - q2 - 1) >= 0  BY <1>2
  <2>2. c * q >= c * q2 + c  BY <2>1
  <2> QED BY <2>2
<1> QED BY <1>1, <1>2

(* Moving on inside a cluster stays in it. *)
LEMMA SameQuotient ==
    ASSUME NEW c \in Nat \ {0}, NEW x \in Nat, NEW n \in Nat, (x % c) + n < c
    PROVE  (x + n) \div c = x \div c /\ (x + n) % c = (x % c) + n
<1>1. x = c * (x \div c) + (x % c) /\ x \div c \in Int /\ x % c \in 0..(c - 1)
  BY Division, x + n \in Int
<1>2. x + n = c * ((x + n) \div c) + ((x + n) % c) /\ (x + n) \div c \in Int
      /\ (x + n) % c \in 0..(c - 1)
  BY Division, x + n \in Int
<1>3. c * ((x + n) \div c) + ((x + n) % c) = c * (x \div c) + ((x % c) + n)
  BY <1>1, <1>2
<1> QED BY <1>1, <1>2, <1>3, DivisionUnique

(* A product distributes over a sum. *)
LEMMA Distributes ==
    ASSUME NEW a \in Nat, NEW b \in Nat, NEW c \in Nat
    PROVE  (a + b) * c = a * c + b * c
OBVIOUS

(* A product keeps the order of what is multiplied. *)
LEMMA TimesMonotone ==
    ASSUME NEW c \in Nat, NEW a \in Int, NEW b \in Int, a <= b
    PROVE  a * c <= b * c
<1>1. (b - a) * c >= 0  OBVIOUS
<1> QED BY <1>1

(* The quotient of what lies in [q * c, (q + 1) * c). *)
LEMMA QuotientIs ==
    ASSUME NEW c \in Nat \ {0}, NEW q \in Int, NEW x \in Int, q * c <= x, x < q * c + c
    PROVE  x \div c = q /\ x % c = x - q * c
<1>1. x = c * (x \div c) + (x % c) /\ x \div c \in Int /\ x % c \in 0..(c - 1)
  BY Division
<1>2. x - q * c \in 0..(c - 1) /\ c * q + (x - q * c) = x  OBVIOUS
<1> QED BY <1>1, <1>2, DivisionUnique

LEMMA QuotientBounds ==
    ASSUME NEW c \in Nat \ {0}, NEW x \in Nat
    PROVE  /\ x \div c \in Nat /\ x % c \in 0..(c - 1)
           /\ (x \div c) * c <= x /\ x < (x \div c) * c + c
           /\ x = (x \div c) * c + (x % c)
<1>1. x = c * (x \div c) + (x % c) /\ x \div c \in Int /\ x % c \in 0..(c - 1)
  BY Division
<1>2. x \div c >= 0
  <2> SUFFICES ASSUME x \div c <= -1 PROVE FALSE  BY <1>1
  <2>1. (x \div c) * c <= (-1) * c  BY <1>1, TimesMonotone
  <2> QED BY <1>1, <2>1
<1> QED BY <1>1, <1>2

LEMMA QuotientMonotone ==
    ASSUME NEW c \in Nat \ {0}, NEW x \in Nat, NEW y \in Nat, x <= y
    PROVE  x \div c <= y \div c
<1>1. /\ x \div c \in Nat /\ y \div c \in Nat
      /\ (x \div c) * c <= x /\ y < (y \div c) * c + c
  BY QuotientBounds
<1> SUFFICES ASSUME y \div c + 1 <= x \div c PROVE FALSE  BY <1>1
<1>2. (y \div c + 1) * c <= (x \div c) * c  BY <1>1, TimesMonotone
<1>3. (y \div c + 1) * c = (y \div c) * c + c  BY <1>1
<1> QED BY <1>1, <1>2, <1>3

LEMMA QuotientShift ==
    ASSUME NEW c \in Nat \ {0}, NEW a \in Nat, NEW x \in Nat
    PROVE  (a * c + x) \div c = a + x \div c /\ (a * c + x) % c = x % c
<1> DEFINE q == x \div c  r == x % c  z == a * c + x
<1>1. q \in Nat /\ r \in 0..(c - 1) /\ x = q * c + r  BY QuotientBounds, Zenon
<1>2. z = a * c + x /\ z \in Int  OBVIOUS
<1> HIDE DEF q, r, z
<1>3. (a + q) * c = a * c + q * c  BY <1>1
<1>4. (a + q) * c <= z /\ z < (a + q) * c + c /\ a + q \in Int /\ z - (a + q) * c = r
  BY <1>1, <1>2, <1>3
<1>5. z \div c = a + q /\ z % c = z - (a + q) * c  BY <1>2, <1>4, QuotientIs, Zenon
<1> QED BY <1>4, <1>5 DEF q, r, z

-----------------------------------------------------------------------------
(* Recursion *)

(* f starts with a, and g[i] takes its value at i - 1 to that at i. *)
Steps(f, n, S, a, g) ==
    /\ f \in [0..n -> S]
    /\ f = [i \in 0..n |-> IF i = 0 THEN a ELSE g[i][f[i - 1]]]

(* What a definition by recursion chooses is there. *)
LEMMA Recursion ==
    ASSUME NEW n \in Nat, NEW S, NEW a \in S, NEW g \in [1..n -> [S -> S]]
    PROVE  \E f : Steps(f, n, S, a, g)
<1> DEFINE Good(k) == \E f \in [0..k -> S] : f[0] = a /\ \A i \in 1..k : f[i] = g[i][f[i - 1]]
           T == {k \in 0..n : Good(k)}
<1>1. Good(0)
  <2> DEFINE f == [i \in 0..0 |-> a]
  <2>1. f \in [0..0 -> S] /\ f[0] = a /\ 1..0 = {}  OBVIOUS
  <2> QED BY <2>1
<1>2. ASSUME NEW k \in 0..(n - 1), Good(k) PROVE Good(k + 1)
  <2>1. PICK f \in [0..k -> S] : f[0] = a /\ \A i \in 1..k : f[i] = g[i][f[i - 1]]
    BY <1>2
  <2> DEFINE h == [i \in 0..(k + 1) |-> IF i = k + 1 THEN g[k + 1][f[k]] ELSE f[i]]
  <2>2. k + 1 \in 1..n /\ k \in 0..k  OBVIOUS
  <2>3. g[k + 1][f[k]] \in S  BY <2>1, <2>2
  <2>4. h \in [0..(k + 1) -> S]  BY <2>1, <2>3
  <2>5. h[0] = a  BY <2>1
  <2>6. \A i \in 1..(k + 1) : h[i] = g[i][h[i - 1]]
    <3> SUFFICES ASSUME NEW i \in 1..(k + 1) PROVE h[i] = g[i][h[i - 1]]  OBVIOUS
    <3>1. h[i - 1] = f[i - 1]  OBVIOUS
    <3> QED BY <2>1, <3>1
  <2> QED BY <2>4, <2>5, <2>6
<1> HIDE DEF Good
<1>3. 0 \in T  BY <1>1
<1>4. \A k \in 0..(n - 1) : k \in T => k + 1 \in T  BY <1>2
<1>5. 0..n \subseteq T  BY <1>3, <1>4, AllUpTo
<1>6. Good(n)  BY <1>5
<1>7. PICK f \in [0..n -> S] : f[0] = a /\ \A i \in 1..n : f[i] = g[i][f[i - 1]]
  BY <1>6 DEF Good
<1>8. \A i \in 0..n : f[i] = IF i = 0 THEN a ELSE g[i][f[i - 1]]
  <2>1. \A i \in 0..n : i = 0 \/ i \in 1..n  OBVIOUS
  <2> QED BY <1>7, <2>1
<1>9. f = [i \in 0..n |-> f[i]]  OBVIOUS
<1>10. Steps(f, n, S, a, g)  BY <1>8, <1>9 DEF Steps
<1> QED BY <1>10

-----------------------------------------------------------------------------
(* Sequences *)

LEMMA FunctionIsSeq ==
    ASSUME NEW A, NEW n \in Nat, NEW f \in [1..n -> A]
    PROVE  f \in Seq(A) /\ Len(f) = n
  OBVIOUS

(* FlattenSeq concatenates from left to right. *)
LEMMA Flattened ==
    ASSUME NEW A, NEW s \in Seq(Seq(A))
    PROVE  \E f \in [0..Len(s) -> Seq(A)] :
              /\ f[0] = << >> /\ \A i \in 1..Len(s) : f[i] = f[i - 1] \o s[i]
              /\ FlattenSeq(s) = f[Len(s)]
<1>0. Len(s) \in Nat  BY LenProperties
<1>1. CASE Len(s) = 0
  <2> DEFINE f == [i \in 0..0 |-> << >>]
  <2>1. s = << >>  BY <1>1
  <2>2. f \in [0..0 -> Seq(A)] /\ f[0] = << >> /\ 1..0 = {}  OBVIOUS
  <2>3. FlattenSeq(s) = << >>  BY <2>1 DEF FlattenSeq
  <2> QED BY <1>1, <2>2, <2>3
<1>2. CASE Len(s) # 0
  <2> DEFINE Eq(n, z) == z = [i \in 1..n |-> IF i = 1 THEN s[i] ELSE z[i - 1] \o s[i]]
  <2>1. ASSUME NEW n \in Nat, n = Len(s)
        PROVE  \E z : Eq(n, z)
    <3>0. \A i \in 1..n : s[i] \in Seq(A)  BY <2>1, ElementOfSeq
    <3> DEFINE g == [i \in 1..n |-> [x \in Seq(A) |-> x \o s[i]]]
    <3>1. g \in [1..n -> [Seq(A) -> Seq(A)]]  BY <3>0, ConcatProperties
    <3>2. << >> \in Seq(A)  OBVIOUS
    <3>3. PICK f : Steps(f, n, Seq(A), << >>, g)
      <4> HIDE DEF g
      <4> QED BY <3>1, <3>2, Recursion
    <3>4. ASSUME NEW i \in 1..n PROVE f[i] = f[i - 1] \o s[i] /\ f[i] \in Seq(A)
      <4>1. g[i] = [x \in Seq(A) |-> x \o s[i]]  OBVIOUS
      <4> HIDE DEF g
      <4>2. f[i - 1] \in Seq(A) /\ f[i] = g[i][f[i - 1]] /\ f[i] \in Seq(A)
        BY <3>3 DEF Steps
      <4> QED BY <4>1, <4>2
    <3>40. f[0] = << >>  BY <3>3 DEF Steps
    <3> HIDE DEF g
    <3> DEFINE h == [i \in 1..n |-> f[i]]
    <3>5. ASSUME NEW i \in 1..n
          PROVE  h[i] = IF i = 1 THEN s[i] ELSE h[i - 1] \o s[i]
      <4>1. CASE i = 1
        <5> HIDE DEF h
        <5>0. i - 1 = 0  BY <4>1
        <5>1. f[i] = f[i - 1] \o s[i] /\ s[i] \in Seq(A)  BY <3>0, <3>4
        <5>2. f[i] = << >> \o s[i]  BY <3>40, <5>0, <5>1
        <5>3. f[i] = s[i]  BY <5>1, <5>2
        <5>4. h[i] = f[i]  BY DEF h
        <5> QED BY <4>1, <5>3, <5>4
      <4>2. CASE i # 1
        <5>1. i - 1 \in 1..n  BY <4>2
        <5> QED BY <3>4, <4>2, <5>1
      <4> QED BY <4>1, <4>2
    <3>6. Eq(n, h)  BY <3>5
    <3> QED BY <3>6
  <2> DEFINE c == CHOOSE z : Eq(Len(s), z)
  <2>2. Eq(Len(s), c)
    <3> HIDE DEF Eq
    <3> QED BY <1>0, <2>1
  <2>3. FlattenSeq(s) = c[Len(s)]  BY <1>2 DEF FlattenSeq
  <2> HIDE DEF c
  <2>4. \A i \in 1..Len(s) : c[i] = IF i = 1 THEN s[i] ELSE c[i - 1] \o s[i]  BY <2>2
  <2> DEFINE T == {i \in 0..Len(s) : i = 0 \/ c[i] \in Seq(A)}
  <2>5. 0 \in T  BY <1>0
  <2>6. ASSUME NEW i \in 0..(Len(s) - 1), i \in T PROVE i + 1 \in T
    <3>1. i + 1 \in 1..Len(s) /\ (i + 1) - 1 = i  BY <1>0
    <3>2. s[i + 1] \in Seq(A)  BY <3>1, ElementOfSeq
    <3>3. c[i + 1] = IF i + 1 = 1 THEN s[i + 1] ELSE c[i] \o s[i + 1]  BY <2>4, <3>1
    <3>4. i = 0 \/ c[i] \in Seq(A)  BY <2>6
    <3>5. c[i + 1] \in Seq(A)
      <4>1. CASE i = 0  BY <3>2, <3>3, <4>1
      <4>2. CASE i # 0  BY <3>2, <3>3, <3>4, <4>2, ConcatProperties
      <4> QED BY <4>1, <4>2
    <3> QED BY <3>1, <3>5
  <2>7. 0..Len(s) \subseteq T
    <3> HIDE DEF T
    <3> QED BY <1>0, <2>5, <2>6, AllUpTo
  <2> DEFINE f == [i \in 0..Len(s) |-> IF i = 0 THEN << >> ELSE c[i]]
  <2>8. f \in [0..Len(s) -> Seq(A)]  BY <2>7
  <2>9. ASSUME NEW i \in 1..Len(s) PROVE f[i] = f[i - 1] \o s[i]
    <3>1. i - 1 \in 0..Len(s) /\ i \in 0..Len(s) /\ s[i] \in Seq(A)  BY <1>0, ElementOfSeq
    <3>2. CASE i = 1
      <4>1. f[i] = s[i] /\ f[i - 1] = << >>  BY <2>4, <3>1, <3>2
      <4> HIDE DEF f
      <4> QED BY <3>1, <4>1
    <3>3. CASE i # 1
      <4>1. f[i] = c[i] /\ f[i - 1] = c[i - 1]  BY <3>1, <3>3
      <4>2. c[i] = c[i - 1] \o s[i]  BY <2>4, <3>3
      <4> HIDE DEF f
      <4> QED BY <4>1, <4>2
    <3> QED BY <3>2, <3>3
  <2>10. f[0] = << >> /\ f[Len(s)] = c[Len(s)]  BY <1>0, <1>2
  <2> HIDE DEF f
  <2> QED BY <2>3, <2>8, <2>9, <2>10
<1> QED BY <1>1, <1>2

(* The first n of the sequences p, one after the other. *)
FlatTo(p, n) == FlattenSeq([i \in 1..n |-> p[i]])

LEMMA FlatToIs ==
    ASSUME NEW A, NEW N \in Nat, NEW p \in [1..N -> Seq(A)]
    PROVE  /\ FlatTo(p, 0) = << >>
           /\ \A n \in 0..N : FlatTo(p, n) \in Seq(A)
           /\ \A n \in 0..(N - 1) : FlatTo(p, n + 1) = FlatTo(p, n) \o p[n + 1]
<1> DEFINE q(n) == [i \in 1..n |-> p[i]]
           Runs(f, n) == /\ f \in [0..n -> Seq(A)] /\ f[0] = << >>
                         /\ \A i \in 1..n : f[i] = f[i - 1] \o p[i]
<1>1. ASSUME NEW n \in 0..N
      PROVE  \E f : Runs(f, n) /\ FlatTo(p, n) = f[n]
  <2>1. q(n) \in [1..n -> Seq(A)] /\ n \in Nat /\ \A i \in 1..n : q(n)[i] = p[i]  OBVIOUS
  <2> DEFINE s == q(n)
  <2>2. FlatTo(p, n) = FlattenSeq(s)  BY DEF FlatTo
  <2> HIDE DEF s
  <2>3. s \in Seq(Seq(A)) /\ Len(s) = n /\ \A i \in 1..n : s[i] = p[i]
    BY <2>1, FunctionIsSeq DEF s
  <2>4. PICK f \in [0..Len(s) -> Seq(A)] :
            /\ f[0] = << >> /\ \A i \in 1..Len(s) : f[i] = f[i - 1] \o s[i]
            /\ FlattenSeq(s) = f[Len(s)]
    BY <2>3, Flattened
  <2>5. Runs(f, n)  BY <2>3, <2>4
  <2> HIDE DEF Runs
  <2> QED BY <2>2, <2>3, <2>4, <2>5
<1>2. ASSUME NEW n \in 0..N PROVE FlatTo(p, n) \in Seq(A)
  <2>1. n \in 0..n  OBVIOUS
  <2>2. PICK f : Runs(f, n) /\ FlatTo(p, n) = f[n]
    <3> HIDE DEF Runs
    <3> QED BY <1>1
  <2> QED BY <2>1, <2>2
<1>3. FlatTo(p, 0) = << >>
  <2>1. 0 \in 0..N  OBVIOUS
  <2> QED BY <1>1, <2>1
<1>4. ASSUME NEW n \in 0..(N - 1) PROVE FlatTo(p, n + 1) = FlatTo(p, n) \o p[n + 1]
  <2>1. n \in 0..N /\ n + 1 \in 0..N  OBVIOUS
  <2>2. PICK f : Runs(f, n) /\ FlatTo(p, n) = f[n]  BY <1>1, <2>1
  <2>3. PICK g : Runs(g, n + 1) /\ FlatTo(p, n + 1) = g[n + 1]
    <3> HIDE DEF Runs
    <3> QED BY <1>1, <2>1
  <2> DEFINE T == {i \in 0..n : f[i] = g[i]}
  <2>4. 0 \in T  BY <2>2, <2>3
  <2>5. ASSUME NEW i \in 0..(n - 1), i \in T PROVE i + 1 \in T
    <3>1. i + 1 \in 1..n /\ i + 1 \in 1..(n + 1) /\ (i + 1) - 1 = i /\ i + 1 \in 0..n  OBVIOUS
    <3>2. f[i + 1] = f[i] \o p[i + 1] /\ g[i + 1] = g[i] \o p[i + 1]  BY <2>2, <2>3, <3>1
    <3>3. f[i] = g[i]  BY <2>5
    <3> QED BY <3>1, <3>2, <3>3
  <2>6. 0..n \subseteq T
    <3>1. n \in Nat  OBVIOUS
    <3> HIDE DEF T
    <3> QED BY <3>1, <2>4, <2>5, AllUpTo
  <2>7. f[n] = g[n]  BY <2>6
  <2>8. g[n + 1] = g[n] \o p[n + 1]
    <3>1. n + 1 \in 1..(n + 1) /\ (n + 1) - 1 = n  OBVIOUS
    <3> QED BY <2>3, <3>1
  <2> QED BY <2>2, <2>3, <2>7, <2>8
<1> QED BY <1>2, <1>3, <1>4

LEMMA FlatToSame ==
    ASSUME NEW A, NEW N \in Nat, NEW p \in [1..N -> Seq(A)], NEW a \in 0..N, NEW b \in a..N,
           \A i \in (a + 1)..b : p[i] = << >>
    PROVE  FlatTo(p, b) = FlatTo(p, a)
<1> DEFINE T == {i \in 0..(b - a) : FlatTo(p, a + i) = FlatTo(p, a)}
<1>1. 0 \in T  OBVIOUS
<1>2. ASSUME NEW i \in 0..((b - a) - 1), i \in T PROVE i + 1 \in T
  <2>1. /\ a + i \in 0..(N - 1) /\ (a + i) + 1 \in (a + 1)..b
        /\ a + (i + 1) = (a + i) + 1 /\ i + 1 \in 0..(b - a) /\ a + i \in 0..N
    OBVIOUS
  <2>2. FlatTo(p, (a + i) + 1) = FlatTo(p, a + i) \o p[(a + i) + 1] /\ FlatTo(p, a + i) \in Seq(A)
    BY <2>1, FlatToIs
  <2>3. p[(a + i) + 1] = << >>  BY <2>1
  <2>4. FlatTo(p, (a + i) + 1) = FlatTo(p, a + i)  BY <2>2, <2>3
  <2> QED BY <1>2, <2>1, <2>4
<1>3. 0..(b - a) \subseteq T
  <2> HIDE DEF T
  <2>1. b - a \in Nat  OBVIOUS
  <2> QED BY <1>1, <1>2, <2>1, AllUpTo
<1>4. a + (b - a) = b /\ b - a \in 0..(b - a)  OBVIOUS
<1>5. FlatTo(p, a + (b - a)) = FlatTo(p, a)  BY <1>3, <1>4
<1> QED BY <1>4, <1>5

(* What was there stays in front. *)
LEMMA FlatToGrows ==
    ASSUME NEW A, NEW N \in Nat, NEW p \in [1..N -> Seq(A)], NEW a \in 0..N, NEW b \in a..N
    PROVE  /\ Len(FlatTo(p, a)) <= Len(FlatTo(p, b))
           /\ \A k \in 1..Len(FlatTo(p, a)) : FlatTo(p, b)[k] = FlatTo(p, a)[k]
<1> DEFINE x == FlatTo(p, a)
           Begins(y) == Len(x) <= Len(y) /\ \A k \in 1..Len(x) : y[k] = x[k]
           T == {i \in 0..(b - a) : Begins(FlatTo(p, a + i))}
<1>0. x \in Seq(A) /\ Len(x) \in Nat  BY FlatToIs, LenProperties
<1>1. 0 \in T  BY <1>0
<1>2. ASSUME NEW i \in 0..((b - a) - 1), i \in T PROVE i + 1 \in T
  <2>1. /\ a + i \in 0..(N - 1) /\ (a + i) + 1 \in 1..N
        /\ a + (i + 1) = (a + i) + 1 /\ i + 1 \in 0..(b - a) /\ a + i \in 0..N
    OBVIOUS
  <2> DEFINE y == FlatTo(p, a + i)  z == p[(a + i) + 1]
  <2>2. FlatTo(p, (a + i) + 1) = y \o z /\ y \in Seq(A) /\ z \in Seq(A)
    BY <2>1, FlatToIs
  <2>3. Begins(y)  BY <1>2
  <2> HIDE DEF x, y, z
  <2>4. Len(y) \in Nat /\ Len(z) \in Nat  BY <2>2, LenProperties
  <2>5. Len(y \o z) = Len(y) + Len(z) /\ \A k \in 1..Len(y) : (y \o z)[k] = y[k]
    BY <2>2, <2>4
  <2>6. \A k \in 1..Len(x) : k \in 1..Len(y)  BY <1>0, <2>3, <2>4
  <2>7. Begins(y \o z)  BY <1>0, <2>3, <2>4, <2>5, <2>6
  <2> QED BY <2>1, <2>2, <2>7
<1>3. 0..(b - a) \subseteq T
  <2> HIDE DEF T
  <2>1. b - a \in Nat  OBVIOUS
  <2> QED BY <1>1, <1>2, <2>1, AllUpTo
<1>4. a + (b - a) = b /\ b - a \in 0..(b - a)  OBVIOUS
<1> QED BY <1>3, <1>4

(* Two rows of sequences, put end to end. *)
LEMMA FlattenConcat ==
    ASSUME NEW A, NEW s \in Seq(Seq(A)), NEW t \in Seq(Seq(A))
    PROVE  FlattenSeq(s \o t) = FlattenSeq(s) \o FlattenSeq(t)
<1> DEFINE m == Len(s)  n == Len(t)  p == s \o t
<1>1. /\ m \in Nat /\ n \in Nat /\ p \in Seq(Seq(A)) /\ Len(p) = m + n
      /\ s \in [1..m -> Seq(A)] /\ t \in [1..n -> Seq(A)] /\ p \in [1..(m + n) -> Seq(A)]
      /\ \A i \in 1..m : p[i] = s[i]
      /\ \A i \in 1..n : p[m + i] = t[i]
  <2> DEFINE Q == Seq(A)
  <2>1. s \in Seq(Q) /\ t \in Seq(Q)  OBVIOUS
  <2> HIDE DEF Q
  <2>2. /\ Len(s) \in Nat /\ Len(t) \in Nat
        /\ s \in [1..Len(s) -> Q] /\ t \in [1..Len(t) -> Q]
    BY <2>1, LenProperties
  <2>3. /\ s \o t \in Seq(Q) /\ Len(s \o t) = Len(s) + Len(t)
        /\ \A i \in 1..(Len(s) + Len(t)) :
              (s \o t)[i] = IF i <= Len(s) THEN s[i] ELSE t[i - Len(s)]
    BY <2>1, ConcatProperties
  <2>4. s \o t \in [1..(Len(s) + Len(t)) -> Q]  BY <2>3, LenProperties
  <2>5. \A i \in 1..Len(s) : (s \o t)[i] = s[i]
    <3>1. \A i \in 1..Len(s) : i \in 1..(Len(s) + Len(t)) /\ i <= Len(s)  BY <2>2
    <3> QED BY <2>3, <3>1
  <2>6. \A i \in 1..Len(t) : (s \o t)[Len(s) + i] = t[i]
    <3>1. \A i \in 1..Len(t) : /\ Len(s) + i \in 1..(Len(s) + Len(t))
                               /\ ~ (Len(s) + i <= Len(s)) /\ (Len(s) + i) - Len(s) = i
      BY <2>2
    <3> QED BY <2>3, <3>1
  <2> QED BY <2>2, <2>3, <2>4, <2>5, <2>6 DEF Q
<1> HIDE DEF m, n, p
<1>2. /\ FlattenSeq(s) = FlatTo(s, m) /\ FlattenSeq(t) = FlatTo(t, n)
      /\ FlattenSeq(p) = FlatTo(p, m + n) /\ FlatTo(p, m) = FlatTo(s, m)
  <2>1. s = [i \in 1..m |-> s[i]]  BY <1>1
  <2>2. t = [i \in 1..n |-> t[i]]  BY <1>1
  <2>3. p = [i \in 1..(m + n) |-> p[i]]  BY <1>1
  <2>4. [i \in 1..m |-> p[i]] = [i \in 1..m |-> s[i]]  BY <1>1
  <2> QED BY <2>1, <2>2, <2>3, <2>4 DEF FlatTo
<1> DEFINE T == {j \in 0..n : FlatTo(p, m + j) = FlatTo(s, m) \o FlatTo(t, j)}
<1>3. /\ FlatTo(s, m) \in Seq(A) /\ FlatTo(t, 0) = << >>
      /\ \A j \in 0..n : FlatTo(t, j) \in Seq(A)
      /\ \A j \in 0..(n - 1) : FlatTo(t, j + 1) = FlatTo(t, j) \o t[j + 1]
      /\ \A j \in 0..(m + n - 1) : FlatTo(p, j + 1) = FlatTo(p, j) \o p[j + 1]
  <2>1. m \in 0..m /\ m + n \in Nat  BY <1>1
  <2>2. FlatTo(s, m) \in Seq(A)  BY <1>1, <2>1, FlatToIs
  <2>3. /\ FlatTo(t, 0) = << >>
        /\ \A j \in 0..n : FlatTo(t, j) \in Seq(A)
        /\ \A j \in 0..(n - 1) : FlatTo(t, j + 1) = FlatTo(t, j) \o t[j + 1]
    BY <1>1, FlatToIs
  <2>4. PICK N \in Nat : N = m + n  BY <1>1
  <2>5. p \in [1..N -> Seq(A)]  BY <1>1, <2>4
  <2>6. \A j \in 0..(N - 1) : FlatTo(p, j + 1) = FlatTo(p, j) \o p[j + 1]
    BY <2>5, FlatToIs
  <2>7. \A j \in 0..(m + n - 1) : FlatTo(p, j + 1) = FlatTo(p, j) \o p[j + 1]
    <3> SUFFICES ASSUME NEW j \in 0..(m + n - 1)
                 PROVE  FlatTo(p, j + 1) = FlatTo(p, j) \o p[j + 1]
      OBVIOUS
    <3>1. j \in 0..(N - 1)  BY <1>1, <2>4
    <3> QED BY <2>6, <3>1
  <2> QED BY <2>2, <2>3, <2>7
<1>4. 0 \in T  BY <1>1, <1>2, <1>3
<1>5. ASSUME NEW j \in 0..(n - 1), j \in T PROVE j + 1 \in T
  <2>1. /\ m + j \in 0..(m + n - 1) /\ m + (j + 1) = (m + j) + 1 /\ j + 1 \in 1..n
        /\ j \in 0..n /\ j + 1 \in 0..n
    BY <1>1
  <2>2. FlatTo(p, (m + j) + 1) = FlatTo(p, m + j) \o p[(m + j) + 1]  BY <1>3, <2>1
  <2>3. p[(m + j) + 1] = t[j + 1]  BY <1>1, <2>1
  <2>4. FlatTo(t, j) \in Seq(A) /\ t[j + 1] \in Seq(A) /\ FlatTo(s, m) \in Seq(A)
    BY <1>1, <1>3, <2>1
  <2>5. FlatTo(p, m + j) = FlatTo(s, m) \o FlatTo(t, j)  BY <1>5
  <2>6. FlatTo(t, j + 1) = FlatTo(t, j) \o t[j + 1]  BY <1>3
  <2> DEFINE a == FlatTo(s, m)  b == FlatTo(t, j)  c == t[j + 1]
  <2>7. (a \o b) \o c = a \o (b \o c)
    <3>1. a \in Seq(A) /\ b \in Seq(A) /\ c \in Seq(A)  BY <2>4
    <3> HIDE DEF a, b, c
    <3> QED BY <3>1
  <2> QED BY <2>1, <2>2, <2>3, <2>5, <2>6, <2>7
<1>6. n \in T
  <2> HIDE DEF T
  <2>1. 0..n \subseteq T  BY <1>1, <1>4, <1>5, AllUpTo
  <2> QED BY <1>1, <2>1
<1>7. FlattenSeq(p) = FlattenSeq(s) \o FlattenSeq(t)  BY <1>2, <1>6
<1> QED BY <1>7 DEF p

(* Four sequences, under a name that the provers do not look into.           *)
Cat(s, t) == s \o t

LEMMA CatFour ==
    ASSUME NEW A, NEW a \in Seq(A), NEW b \in Seq(A), NEW c \in Seq(A), NEW d \in Seq(A)
    PROVE  Cat(Cat(a, b), Cat(c, d)) = Cat(a, Cat(Cat(b, c), d))
<1>1. c \o d \in Seq(A)  BY ConcatProperties
<1>2. (a \o b) \o (c \o d) = a \o (b \o (c \o d))  BY <1>1, ConcatAssociative
<1>3. b \o (c \o d) = (b \o c) \o d  BY ConcatAssociative
<1> QED BY <1>2, <1>3 DEF Cat

LEMMA FlattenOne ==
    ASSUME NEW A, NEW x \in Seq(A)
    PROVE  FlattenSeq(<<x>>) = x /\ FlattenSeq(<< >>) = << >>
<1>1. <<x>> \in [1..1 -> Seq(A)] /\ <<x>>[1] = x  OBVIOUS
<1> DEFINE p == <<x>>
<1>2. p = [i \in 1..1 |-> p[i]] /\ << >> = [i \in 1..0 |-> p[i]]  OBVIOUS
<1>3. p \in [1..1 -> Seq(A)] /\ p[1] = x  BY <1>1
<1> HIDE DEF p
<1>4. FlattenSeq(p) = FlatTo(p, 1) /\ FlattenSeq(<< >>) = FlatTo(p, 0)  BY <1>2 DEF FlatTo
<1>5. FlatTo(p, 0 + 1) = FlatTo(p, 0) \o p[0 + 1] /\ FlatTo(p, 0) = << >>
  <2>1. 0 \in 0..(1 - 1)  OBVIOUS
  <2> QED BY <1>3, <2>1, FlatToIs
<1>6. FlatTo(p, 1) = << >> \o x  BY <1>3, <1>5
<1>7. << >> \o x = x  OBVIOUS
<1>8. FlattenSeq(p) = x /\ FlattenSeq(<< >>) = << >>  BY <1>4, <1>5, <1>6, <1>7
<1> QED BY <1>8 DEF p

LEMMA OneMore ==
    ASSUME NEW A, NEW q \in Seq(A), NEW x \in A
    PROVE  /\ q \o <<x>> \in Seq(A)
           /\ Range(q \o <<x>>) = Range(q) \cup {x}
           /\ IsInjective(q) /\ x \notin Range(q) => IsInjective(q \o <<x>>)
<1> DEFINE n == Len(q)  r == q \o <<x>>
<1>1. n \in Nat /\ DOMAIN q = 1..n  BY LenProperties
<1>2. r \in Seq(A) /\ Len(r) = n + 1 /\ DOMAIN r = 1..(n + 1)  OBVIOUS
<1>3. r[n + 1] = x /\ \A i \in 1..n : r[i] = q[i]  BY <1>1
<1>4. 1..(n + 1) = 1..n \cup {n + 1} /\ n + 1 \notin 1..n  BY <1>1
<1> HIDE DEF n, r
<1>5. Range(r) = Range(q) \cup {x}  BY <1>1, <1>2, <1>3, <1>4 DEF Range
<1>6. ASSUME IsInjective(q), x \notin Range(q) PROVE IsInjective(r)
  <2>1. \A i \in 1..n : q[i] # x  BY <1>1, <1>6 DEF Range
  <2>2. \A i, j \in 1..n : q[i] = q[j] => i = j  BY <1>1, <1>6 DEF IsInjective
  <2> QED BY <1>2, <1>3, <1>4, <2>1, <2>2 DEF IsInjective
<1> QED BY <1>2, <1>5, <1>6 DEF r

LEMMA FlattenOnes ==
    ASSUME NEW A, NEW s \in Seq(A), NEW p \in Seq(Seq(A)), Len(p) = Len(s),
           \A i \in 1..Len(s) : p[i] = <<s[i]>>
    PROVE  FlattenSeq(p) = s
<1> DEFINE n == Len(s)
<1>1. n \in Nat /\ \A i \in 1..n : s[i] \in A  BY LenProperties, ElementOfSeq
<1>2. PICK f \in [0..n -> Seq(A)] :
          /\ f[0] = << >> /\ \A i \in 1..n : f[i] = f[i - 1] \o p[i]
          /\ FlattenSeq(p) = f[n]
  <2> HIDE DEF n
  <2>1. PICK g \in [0..Len(p) -> Seq(A)] :
            /\ g[0] = << >> /\ \A i \in 1..Len(p) : g[i] = g[i - 1] \o p[i]
            /\ FlattenSeq(p) = g[Len(p)]
    BY Flattened
  <2> QED BY <2>1 DEF n
<1> DEFINE T == {i \in 0..n : Len(f[i]) = i /\ \A j \in 1..i : f[i][j] = s[j]}
<1>3. 0 \in T  BY <1>1, <1>2
<1>4. ASSUME NEW i \in 0..(n - 1), i \in T PROVE i + 1 \in T
  <2>1. i + 1 \in 1..n /\ (i + 1) - 1 = i /\ i + 1 \in 0..n /\ i \in 0..n  BY <1>1
  <2>2. f[i] \in Seq(A) /\ f[i + 1] = f[i] \o <<s[i + 1]>> /\ s[i + 1] \in A
    BY <1>1, <1>2, <2>1
  <2>3. Len(f[i]) = i /\ \A j \in 1..i : f[i][j] = s[j]  BY <1>4
  <2> DEFINE q == f[i]  x == s[i + 1]
  <2>7. q \in Seq(A) /\ x \in A  BY <2>2
  <2> HIDE DEF q, x
  <2>4. Len(q \o <<x>>) = Len(q) + 1
        /\ \A j \in 1..(Len(q) + 1) : (q \o <<x>>)[j] = IF j <= Len(q) THEN q[j] ELSE x
    BY <2>7
  <2>5. Len(f[i + 1]) = i + 1  BY <2>2, <2>3, <2>4 DEF q, x
  <2>6. \A j \in 1..(i + 1) : f[i + 1][j] = s[j]
    <3>1. \A j \in 1..(i + 1) : j \in 1..i \/ (j = i + 1 /\ ~(j <= i))  BY <2>1
    <3>2. \A j \in 1..(i + 1) : f[i + 1][j] = IF j <= i THEN f[i][j] ELSE s[i + 1]
      BY <2>2, <2>3, <2>4 DEF q, x
    <3>3. \A j \in 1..i : j <= i  BY <2>1
    <3> QED BY <2>3, <3>1, <3>2, <3>3
  <2> QED BY <2>1, <2>5, <2>6
<1>5. n \in T
  <2>1. n \in Nat /\ n \in 0..n  BY <1>1
  <2> HIDE DEF T, n
  <2>2. 0..n \subseteq T  BY <2>1, <1>3, <1>4, AllUpTo
  <2> QED BY <2>1, <2>2
<1>6. f[n] \in Seq(A) /\ Len(f[n]) = n /\ \A j \in 1..n : f[n][j] = s[j]
  <2>1. n \in 0..n  BY <1>1
  <2> QED BY <1>5, <2>1
<1> HIDE DEF n
<1>7. f[n] = s  BY <1>6, SeqEqual DEF n
<1> QED BY <1>2, <1>7

(* What a sequence without repetition has of a set, in its order. *)
LEMMA Filtered ==
    ASSUME NEW A, NEW s \in Seq(A), IsInjective(s), NEW S, NEW p \in Seq(Seq(A)),
           Len(p) = Len(s),
           \A i \in 1..Len(s) : p[i] = IF s[i] \in S THEN <<s[i]>> ELSE << >>
    PROVE  /\ FlattenSeq(p) \in Seq(A)
           /\ IsInjective(FlattenSeq(p))
           /\ Range(FlattenSeq(p)) = S \cap Range(s)
<1> DEFINE n == Len(s)
           w == FlattenSeq(p)
           upTo(i) == {s[j] : j \in 1..i}
<1>1. n \in Nat /\ DOMAIN s = 1..n /\ \A i \in 1..n : s[i] \in A  BY LenProperties, ElementOfSeq
<1>4. PICK f \in [0..n -> Seq(A)] :
          /\ f[0] = << >> /\ \A i \in 1..n : f[i] = f[i - 1] \o p[i]
          /\ w = f[n]
  <2> HIDE DEF n
  <2>1. PICK g \in [0..Len(p) -> Seq(A)] :
            /\ g[0] = << >> /\ \A i \in 1..Len(p) : g[i] = g[i - 1] \o p[i]
            /\ FlattenSeq(p) = g[Len(p)]
    BY Flattened
  <2> QED BY <2>1 DEF n
<1> HIDE DEF w
<1> DEFINE Good(i) == IsInjective(f[i]) /\ Range(f[i]) = S \cap upTo(i)
           T == {i \in 0..n : Good(i)}
<1>5. 0 \in T
  <2>1. upTo(0) = {} /\ DOMAIN f[0] = {}  BY <1>4
  <2> QED BY <1>1, <2>1 DEF IsInjective, Range
<1>6. ASSUME NEW i \in 0..(n - 1), i \in T PROVE i + 1 \in T
  <2>1. i + 1 \in 1..n /\ (i + 1) - 1 = i /\ i + 1 \in 0..n /\ i \in 0..n  BY <1>1
  <2>2. f[i] \in Seq(A) /\ f[i + 1] = f[i] \o p[i + 1] /\ s[i + 1] \in A  BY <1>1, <1>4, <2>1
  <2>3. upTo(i + 1) = upTo(i) \cup {s[i + 1]}
    <3>1. 1..(i + 1) = 1..i \cup {i + 1}  BY <2>1
    <3> QED BY <3>1
  <2>4. s[i + 1] \notin upTo(i)
    <3>1. \A j \in 1..i : j \in 1..n /\ j # i + 1  BY <1>1, <2>1
    <3> QED BY <1>1, <2>1, <3>1 DEF IsInjective
  <2>5. Good(i)  BY <1>6
  <2>6. p[i + 1] = IF s[i + 1] \in S THEN <<s[i + 1]>> ELSE << >>  BY <1>1, <2>1
  <2> HIDE DEF upTo
  <2>7. CASE s[i + 1] \in S
    <3>1. f[i + 1] = f[i] \o <<s[i + 1]>>  BY <2>2, <2>6, <2>7
    <3>2. s[i + 1] \notin Range(f[i])  BY <2>4, <2>5
    <3>3. IsInjective(f[i + 1]) /\ Range(f[i + 1]) = Range(f[i]) \cup {s[i + 1]}
      BY <2>2, <2>5, <3>1, <3>2, OneMore
    <3>4. Good(i + 1)  BY <2>3, <2>5, <2>7, <3>3
    <3> QED BY <2>1, <3>4
  <2>8. CASE s[i + 1] \notin S
    <3>1. f[i + 1] = f[i]  BY <2>2, <2>6, <2>8
    <3>2. Good(i + 1)  BY <2>3, <2>5, <2>8, <3>1
    <3> QED BY <2>1, <3>2
  <2> QED BY <2>7, <2>8
<1>7. n \in T
  <2>1. n \in Nat /\ n \in 0..n  BY <1>1
  <2> HIDE DEF T, n
  <2>2. 0..n \subseteq T  BY <2>1, <1>5, <1>6, AllUpTo
  <2> QED BY <2>1, <2>2
<1>8. upTo(n) = Range(s)  BY <1>1 DEF Range
<1>9. Good(n)  BY <1>7
<1>10. w \in Seq(A) /\ w = f[n]
  <2>1. n \in 0..n  BY <1>1
  <2> HIDE DEF n
  <2> QED BY <1>4, <2>1
<1> HIDE DEF n, upTo
<1> QED BY <1>8, <1>9, <1>10 DEF w

-----------------------------------------------------------------------------
(* OrderedDict *)

LEMMA WithoutType ==
    ASSUME NEW S, NEW s \in Seq(S), NEW b \in S
    PROVE  Without(s, b) \in Seq(S)
<1>1. CASE ~ InSeq(b, s)  BY <1>1 DEF Without
<1>2. CASE InSeq(b, s)
  <2> DEFINE i == CHOOSE j \in 1..Len(s) : s[j] = b
  <2>0. Len(s) \in Nat  BY LenProperties
  <2>1. i \in 1..Len(s)  BY <1>2 DEF InSeq
  <2> HIDE DEF i
  <2>2. \A k \in 1..(i - 1) : s[k] \in S  BY <2>0, <2>1, ElementOfSeq
  <2>3. \A k \in (i + 1)..Len(s) : s[k] \in S  BY <2>0, <2>1, ElementOfSeq
  <2>4. SubSeq(s, 1, i - 1) \in Seq(S)
    BY <2>0, <2>1, <2>2, 1 \in Int, i - 1 \in Int, SubSeqProperties
  <2>5. SubSeq(s, i + 1, Len(s)) \in Seq(S)
    BY <2>0, <2>1, <2>3, i + 1 \in Int, Len(s) \in Int, SubSeqProperties
  <2>6. SubSeq(s, 1, i - 1) \o SubSeq(s, i + 1, Len(s)) \in Seq(S)
    BY <2>4, <2>5, ConcatProperties
  <2> QED BY <1>2, <2>6 DEF Without, i
<1> QED BY <1>1, <1>2

(* Taking a key out of distinct keys leaves distinct keys without it. *)
LEMMA WithoutKeys ==
    ASSUME NEW S, NEW s \in Seq(S), Distinct(s), NEW b \in S
    PROVE  /\ Distinct(Without(s, b)) /\ ~ InSeq(b, Without(s, b))
           /\ \A x \in S : x # b => (InSeq(x, Without(s, b)) <=> InSeq(x, s))
           /\ Len(Without(s, b)) = IF InSeq(b, s) THEN Len(s) - 1 ELSE Len(s)
<1>0. Len(s) \in Nat  BY LenProperties
<1>1. CASE ~ InSeq(b, s)  BY <1>1 DEF Without
<1>2. CASE InSeq(b, s)
  <2> DEFINE i == CHOOSE j \in 1..Len(s) : s[j] = b
             w == SubSeq(s, 1, i - 1) \o SubSeq(s, i + 1, Len(s))
  <2>1. i \in 1..Len(s) /\ s[i] = b  BY <1>2 DEF InSeq
  <2>2. Without(s, b) = w  BY <1>2 DEF Without
  <2> HIDE DEF i
  <2>3. /\ Len(w) = Len(s) - 1
        /\ \A k \in 1..(Len(s) - 1) : w[k] = IF k < i THEN s[k] ELSE s[k + 1]
    <3> DEFINE f == SubSeq(s, 1, i - 1)  g == SubSeq(s, i + 1, Len(s))
    <3>1. /\ f \in Seq(S) /\ Len(f) = i - 1
          /\ \A k \in 1..(i - 1) : f[k] = s[k]
      BY <1>0, <2>1
    <3>2. /\ g \in Seq(S) /\ Len(g) = Len(s) - i
          /\ \A k \in 1..(Len(s) - i) : g[k] = s[i + k]
      BY <1>0, <2>1
    <3>3. w = f \o g  OBVIOUS
    <3> HIDE DEF f, g, w
    <3>4. i \in Nat /\ i \in 1..Len(s)  BY <2>1
    <3>5. Len(w) = Len(s) - 1  BY <1>0, <3>1, <3>2, <3>3, <3>4
    <3>6. ASSUME NEW k \in 1..(Len(s) - 1)
          PROVE  w[k] = IF k < i THEN s[k] ELSE s[k + 1]
      <4>1. CASE k < i
        <5>1. k \in 1..Len(f)  BY <1>0, <3>1, <3>4, <4>1
        <5>2. w[k] = f[k]  BY <3>1, <3>2, <3>3, <5>1
        <5> QED BY <3>1, <4>1, <5>1, <5>2
      <4>2. CASE ~ (k < i)
        <5>1. /\ k - (i - 1) \in 1..(Len(s) - i)
              /\ k \in (Len(f) + 1)..(Len(f) + Len(g))
              /\ i + (k - (i - 1)) = k + 1
          BY <1>0, <3>1, <3>2, <3>4, <4>2
        <5>2. w[k] = g[k - Len(f)]  BY <3>1, <3>2, <3>3, <5>1
        <5> QED BY <3>1, <3>2, <4>2, <5>1, <5>2
      <4> QED BY <4>1, <4>2
    <3> QED BY <3>5, <3>6
  <2> HIDE DEF w
  <2>4. \A x, y \in 1..Len(s) : x # y => s[x] # s[y]  BY DEF Distinct
  <2>5. Distinct(w)
    <3> SUFFICES ASSUME NEW x \in 1..(Len(s) - 1), NEW y \in 1..(Len(s) - 1), x # y
                 PROVE  w[x] # w[y]
      BY <2>3 DEF Distinct
    <3> DEFINE f(k) == IF k < i THEN k ELSE k + 1
    <3>1. w[x] = s[f(x)] /\ w[y] = s[f(y)]  BY <2>3
    <3>2. f(x) \in 1..Len(s) /\ f(y) \in 1..Len(s) /\ f(x) # f(y)  BY <1>0, <2>1
    <3> QED BY <3>1, <3>2, <2>4
  <2>6. ~ InSeq(b, w)
    <3> SUFFICES ASSUME NEW k \in 1..(Len(s) - 1), w[k] = b PROVE FALSE
      BY <2>3 DEF InSeq
    <3> QED BY <1>0, <2>1, <2>3, <2>4
  <2>7. ASSUME NEW x \in S, x # b PROVE InSeq(x, w) <=> InSeq(x, s)
    <3>1. ASSUME NEW k \in 1..(Len(s) - 1), w[k] = x PROVE InSeq(x, s)
      <4>1. k \in 1..Len(s) /\ k + 1 \in 1..Len(s)  BY <1>0
      <4> QED BY <3>1, <4>1, <2>3 DEF InSeq
    <3>2. ASSUME NEW k \in 1..Len(s), s[k] = x PROVE InSeq(x, w)
      <4>1. k # i  BY <2>1, <2>7, <3>2
      <4>2. CASE k < i
        <5>1. k \in 1..(Len(s) - 1) /\ w[k] = x  BY <1>0, <2>1, <2>3, <3>2, <4>2
        <5> QED BY <5>1, <2>3 DEF InSeq
      <4>3. CASE k > i
        <5>1. k - 1 \in 1..(Len(s) - 1) /\ ~ (k - 1 < i) /\ (k - 1) + 1 = k
          BY <1>0, <2>1, <4>3
        <5>2. w[k - 1] = x  BY <2>3, <3>2, <5>1
        <5> QED BY <5>1, <5>2, <2>3 DEF InSeq
      <4> QED BY <4>1, <4>2, <4>3, <2>1, <1>0
    <3> QED BY <2>3, <3>1, <3>2 DEF InSeq
  <2> QED BY <1>2, <2>2, <2>3, <2>5, <2>6, <2>7
<1> QED BY <1>1, <1>2

(* Adding b at the end. *)
LEMMA MovedToEndKeys ==
    ASSUME NEW S, NEW s \in Seq(S), Distinct(s), NEW b \in S
    PROVE  LET z == MovedToEnd(s, b) IN
           /\ z \in Seq(S) /\ Distinct(z)
           /\ \A x \in S : InSeq(x, z) <=> (x = b \/ InSeq(x, s))
           /\ Len(z) = IF InSeq(b, s) THEN Len(s) ELSE Len(s) + 1
<1> DEFINE w == Without(s, b)  z == Append(w, b)
<1>1. w \in Seq(S)  BY WithoutType
<1>2. /\ Distinct(w) /\ ~ InSeq(b, w)
      /\ \A x \in S : x # b => (InSeq(x, w) <=> InSeq(x, s))
      /\ Len(w) = IF InSeq(b, s) THEN Len(s) - 1 ELSE Len(s)
  BY WithoutKeys
<1>3. Len(w) \in Nat /\ Len(s) \in Nat  BY <1>1, LenProperties
<1> HIDE DEF w
<1>4. /\ z \in Seq(S) /\ Len(z) = Len(w) + 1
      /\ \A i \in 1..Len(w) : z[i] = w[i]
      /\ z[Len(w) + 1] = b
  BY <1>1, AppendProperties
<1> HIDE DEF z
<1>5. Distinct(z)
  <2> SUFFICES ASSUME NEW i \in 1..(Len(w) + 1), NEW j \in 1..(Len(w) + 1), i # j
               PROVE  z[i] # z[j]
    BY <1>4 DEF Distinct
  <2>1. CASE i \in 1..Len(w) /\ j \in 1..Len(w)  BY <1>2, <1>4, <2>1 DEF Distinct
  <2>2. CASE i \in 1..Len(w) /\ j = Len(w) + 1  BY <1>2, <1>4, <2>2 DEF InSeq
  <2>3. CASE j \in 1..Len(w) /\ i = Len(w) + 1  BY <1>2, <1>4, <2>3 DEF InSeq
  <2> QED BY <1>3, <2>1, <2>2, <2>3
<1>6. ASSUME NEW x \in S PROVE InSeq(x, z) <=> (x = b \/ InSeq(x, w))
  <2>1. ASSUME NEW i \in 1..(Len(w) + 1), z[i] = x PROVE x = b \/ InSeq(x, w)
    <3>1. i \in 1..Len(w) \/ i = Len(w) + 1  BY <1>3
    <3> QED BY <1>4, <2>1, <3>1 DEF InSeq
  <2>2. ASSUME InSeq(x, w) PROVE InSeq(x, z)
    <3>1. PICK i \in 1..Len(w) : w[i] = x  BY <2>2 DEF InSeq
    <3>2. i \in 1..Len(z)  BY <1>3, <1>4
    <3> QED BY <1>4, <3>1, <3>2 DEF InSeq
  <2>3. InSeq(b, z)
    <3>1. Len(w) + 1 \in 1..Len(z)  BY <1>3, <1>4
    <3> QED BY <1>4, <3>1 DEF InSeq
  <2> QED BY <1>4, <2>1, <2>2, <2>3 DEF InSeq
<1>7. ASSUME NEW x \in S PROVE InSeq(x, z) <=> (x = b \/ InSeq(x, s))
  BY <1>2, <1>6
<1>8. Len(z) = IF InSeq(b, s) THEN Len(s) ELSE Len(s) + 1
  BY <1>2, <1>3, <1>4
<1> QED BY <1>4, <1>5, <1>7, <1>8 DEF z, w, MovedToEnd

LEMMA MovedToEndType ==
    ASSUME NEW S, NEW s \in Seq(S), NEW b \in S
    PROVE  MovedToEnd(s, b) \in Seq(S)
  BY WithoutType, AppendProperties DEF MovedToEnd

(* Assigning to a key. *)
LEMMA AssignedKeys ==
    ASSUME NEW S, NEW s \in Seq(S), Distinct(s), NEW b \in S
    PROVE  /\ Assigned(s, b) \in Seq(S) /\ Distinct(Assigned(s, b))
           /\ \A x \in S : InSeq(x, Assigned(s, b)) <=> (x = b \/ InSeq(x, s))
           /\ Len(Assigned(s, b)) = IF InSeq(b, s) THEN Len(s) ELSE Len(s) + 1
<1> DEFINE z == Assigned(s, b)
<1>1. InSeq(b, s) => z = s  BY DEF Assigned
<1>2. ~ InSeq(b, s) => z = MovedToEnd(s, b)  BY DEF MovedToEnd, Without, Assigned
<1>3. LET m == MovedToEnd(s, b) IN
      /\ m \in Seq(S) /\ Distinct(m)
      /\ \A x \in S : InSeq(x, m) <=> (x = b \/ InSeq(x, s))
      /\ Len(m) = IF InSeq(b, s) THEN Len(s) ELSE Len(s) + 1
  BY MovedToEndKeys
<1> HIDE DEF z
<1>4. z \in Seq(S) /\ Distinct(z)  BY <1>1, <1>2, <1>3
<1>5. ASSUME NEW x \in S PROVE InSeq(x, z) <=> (x = b \/ InSeq(x, s))
  <2>1. CASE InSeq(b, s)  BY <1>1, <2>1
  <2>2. CASE ~ InSeq(b, s)
    <3>1. InSeq(x, MovedToEnd(s, b)) <=> (x = b \/ InSeq(x, s))  BY <1>3
    <3> QED BY <1>2, <2>2, <3>1
  <2> QED BY <2>1, <2>2
<1>6. Len(z) = IF InSeq(b, s) THEN Len(s) ELSE Len(s) + 1
  BY <1>1, <1>2, <1>3
<1> QED BY <1>4, <1>5, <1>6 DEF z

(* popitem(last=False) takes the oldest key out. *)
LEMMA PoppedKeys ==
    ASSUME NEW S, NEW s \in Seq(S), Distinct(s), s # << >>
    PROVE  /\ Head(s) \in S /\ Tail(s) \in Seq(S) /\ Distinct(Tail(s))
           /\ \A x \in S : InSeq(x, Tail(s)) <=> (x # Head(s) /\ InSeq(x, s))
           /\ Len(Tail(s)) = Len(s) - 1
<1>1. /\ Len(s) \in Nat /\ Len(s) > 0
      /\ Head(s) = s[1] /\ Head(s) \in S /\ Tail(s) \in Seq(S)
      /\ Len(Tail(s)) = Len(s) - 1
      /\ \A i \in 1..(Len(s) - 1) : Tail(s)[i] = s[i + 1]
  OBVIOUS
<1> DEFINE w == Tail(s)  h == Head(s)
<1> HIDE DEF w, h
<1>2. \A i, j \in 1..Len(s) : i # j => s[i] # s[j]  BY DEF Distinct
<1>3. Distinct(w)
  <2> SUFFICES ASSUME NEW i \in 1..(Len(s) - 1), NEW j \in 1..(Len(s) - 1), i # j
               PROVE  w[i] # w[j]
    BY <1>1 DEF Distinct, w
  <2>1. i + 1 \in 1..Len(s) /\ j + 1 \in 1..Len(s) /\ i + 1 # j + 1  BY <1>1
  <2> QED BY <1>1, <1>2, <2>1 DEF w
<1>4. ASSUME NEW x \in S PROVE InSeq(x, w) <=> (x # h /\ InSeq(x, s))
  <2>1. ASSUME NEW i \in 1..(Len(s) - 1), w[i] = x PROVE x # h /\ InSeq(x, s)
    <3>1. i + 1 \in 1..Len(s) /\ 1 \in 1..Len(s) /\ i + 1 # 1  BY <1>1
    <3> QED BY <1>1, <1>2, <2>1, <3>1 DEF w, h, InSeq
  <2>2. ASSUME x # h, NEW i \in 1..Len(s), s[i] = x PROVE InSeq(x, w)
    <3>1. i # 1  BY <1>1, <2>2 DEF h
    <3>2. i - 1 \in 1..(Len(s) - 1) /\ (i - 1) + 1 = i  BY <1>1, <3>1
    <3> QED BY <1>1, <2>2, <3>2 DEF w, InSeq
  <2>3. Len(w) = Len(s) - 1  BY <1>1 DEF w
  <2> QED BY <2>1, <2>2, <2>3 DEF InSeq
<1> QED BY <1>1, <1>3, <1>4 DEF w, h
=============================================================================

--------------------------- MODULE NtfsNames_proofs ---------------------------
(***************************************************************************)
(* Machine-checked proofs about NtfsNames, for every volume and any number *)
(* of walks of the $MFT into the one index: the index is that of the whole *)
(* $MFT, the sizes told of a file are those read from it, an enumeration   *)
(* goes through a directory once, in order, and what is listed is found.   *)
(***************************************************************************)
EXTENDS NtfsNames, Lemmas, FiniteSetTheorems

(* The records of one walk, before it, are all in the index.                *)
Filed(n) == /\ n \in allRecs
            /\ Indexed(n) => KeysOf(mft[n]) \subseteq DOMAIN children

InUse == {n \in DOMAIN mft : mft[n].inUse}

(* n is the first record that claims k.                                     *)
First(n, k) == n \in Claimants(k) /\ \A m \in Claimants(k) : n <= m

(* The index never differs from that of one walk in what it has; it has     *)
(* what every walk in progress has passed.                                  *)
IndexInv ==
    /\ mft \in Volumes
    /\ todo \in [Threads -> 0..Total]
    /\ allRecs \subseteq InUse
    /\ \A k \in DOMAIN children : First(children[k], k)
    /\ \A t \in Threads : \A n \in InUse : n < todo[t] => Filed(n)
    /\ built => \A n \in InUse : Filed(n)

LEMMA RecordNumbers == ASSUME mft \in Volumes
                       PROVE  DOMAIN mft \subseteq 0..(Total - 1) /\ InUse \subseteq 0..(Total - 1)
                              /\ Total \in Nat
  BY NamesAssumption DEF NamesAssumption, InUse

(* What one walk gives a key is its first claimant.                         *)
LEMMA FirstIsOwner == ASSUME mft \in Volumes, NEW k, NEW n, First(n, k)
                      PROVE  Owner(k) = n
<1>1. Claimants(k) \subseteq Nat
  BY RecordNumbers DEF Claimants
<1>2. \A m : First(m, k) => m = n
  BY <1>1 DEF First
<1> QED BY <1>2 DEF First, Owner

LEMMA InitIndex == Init => IndexInv
<1> SUFFICES ASSUME Init PROVE IndexInv  OBVIOUS
<1>1. mft \in Volumes /\ todo = [t \in Threads |-> 0] /\ allRecs = {} /\ built = FALSE
      /\ DOMAIN children = {}
  BY DEF Init
<1>2. InUse \subseteq Nat /\ Total \in Nat  BY <1>1, RecordNumbers
<1> QED BY <1>1, <1>2 DEF IndexInv

(* A step that leaves the index and starts no walk but at 0.                *)
LEMMA IndexKept ==
    ASSUME IndexInv, UNCHANGED <<mft, children, allRecs>>,
           todo' \in [Threads -> 0..Total],
           \A t \in Threads : todo'[t] = todo[t] \/ todo'[t] = 0,
           built' => built
    PROVE  IndexInv'
<1>1. /\ InUse' = InUse /\ \A n : Filed(n)' <=> Filed(n)
      /\ \A n, k : First(n, k)' <=> First(n, k)
  BY DEF InUse, Filed, First, Claimants
<1>2. InUse \subseteq Nat  BY RecordNumbers DEF IndexInv
<1>3. ASSUME NEW t \in Threads, NEW n \in InUse, n < todo'[t] PROVE Filed(n)
  <2>1. todo'[t] = todo[t]  BY <1>2, <1>3
  <2> QED BY <2>1, <1>3 DEF IndexInv
<1> QED BY <1>1, <1>3 DEF IndexInv

(* A record filed stays so: setdefault takes nothing away.                  *)
LEMMA RecordKeeps == ASSUME IndexInv, NEW t \in Threads, BuildRecord(t) PROVE IndexInv'
<1>0. PICK n \in 0..Total : n = todo[t]  BY DEF IndexInv
<1> DEFINE used == n \in InUse
           keys == IF used /\ Indexed(n) THEN KeysOf(mft[n]) ELSE {}
<1>1. /\ n < Total /\ mft' = mft /\ built' = built
      /\ todo' = [todo EXCEPT ![t] = n + 1]
      /\ allRecs' = IF used THEN allRecs \cup {n} ELSE allRecs
      /\ children' = [k \in DOMAIN children \cup keys |->
                         IF k \in DOMAIN children THEN children[k] ELSE n]
  BY <1>0 DEF BuildRecord, InUse, Used
<1>2. InUse \subseteq 0..(Total - 1) /\ Total \in Nat /\ todo \in [Threads -> 0..Total]
  BY RecordNumbers DEF IndexInv
<1>4. InUse' = InUse /\ \A m, k : First(m, k)' <=> First(m, k)
  BY <1>1 DEF InUse, First, Claimants
<1>5. DOMAIN children' = DOMAIN children \cup keys
  BY <1>1
<1>6. ASSUME NEW m, Filed(m) PROVE Filed(m)'
  BY <1>1, <1>5, <1>6 DEF Filed
<1>7. used => Filed(n)'
  BY <1>1, <1>5 DEF Filed
<1>8. ASSUME NEW k \in keys, k \notin DOMAIN children PROVE First(n, k)
  <2>1. used /\ Indexed(n) /\ k \in KeysOf(mft[n])  BY <1>8
  <2>2. n \in Claimants(k)  BY <2>1 DEF Claimants, InUse
  <2>3. ASSUME NEW m \in Claimants(k), m < n PROVE FALSE
    <3>1. m \in InUse /\ Indexed(m) /\ k \in KeysOf(mft[m])  BY DEF Claimants, InUse
    <3>2. Filed(m)  BY <3>1, <2>3, <1>0 DEF IndexInv
    <3> QED BY <3>1, <3>2, <1>8 DEF Filed
  <2>4. Claimants(k) \subseteq Nat  BY <1>2 DEF Claimants, InUse
  <2> QED BY <2>2, <2>3, <2>4 DEF First
<1>9. ASSUME NEW k \in DOMAIN children' PROVE First(children'[k], k)
  <2>1. CASE k \in DOMAIN children
    <3>1. children'[k] = children[k]  BY <2>1, <1>1
    <3> QED BY <2>1, <3>1 DEF IndexInv
  <2>2. CASE k \notin DOMAIN children
    <3>1. k \in keys /\ children'[k] = n
      <4> HIDE DEF keys
      <4> QED BY <2>2, <1>1, <1>5, <1>9
    <3> QED BY <3>1, <2>2, <1>8
  <2> QED BY <2>1, <2>2
<1>10. allRecs' \subseteq InUse
  <2>1. allRecs \subseteq InUse  BY DEF IndexInv
  <2> QED BY <2>1, <1>1
<1>11. todo' \in [Threads -> 0..Total] /\ todo'[t] = n + 1
       /\ \A u \in Threads : u # t => todo'[u] = todo[u]
  BY <1>0, <1>1, <1>2
<1>12. ASSUME NEW u \in Threads, NEW m \in InUse, m < todo'[u] PROVE Filed(m)'
  <2>1. CASE m < todo[u]  BY <2>1, <1>6 DEF IndexInv
  <2>2. CASE ~ (m < todo[u])
    <3>1. u = t  BY <2>2, <1>11, <1>12
    <3>2. m = n  BY <3>1, <2>2, <1>2, <1>0, <1>11, <1>12
    <3> QED BY <3>2, <1>7
  <2> QED BY <2>1, <2>2
<1>13. built' => \A m \in InUse : Filed(m)'
  BY <1>1, <1>6 DEF IndexInv
<1>14. mft' \in Volumes  BY <1>1 DEF IndexInv
<1> QED BY <1>4, <1>9, <1>10, <1>11, <1>12, <1>13, <1>14 DEF IndexInv

LEMMA EndKeeps == ASSUME IndexInv, NEW t \in Threads, BuildEnd(t) PROVE IndexInv'
<1>1. /\ todo[t] = Total /\ mft' = mft /\ children' = children /\ allRecs' = allRecs
      /\ todo' = todo
  BY DEF BuildEnd
<1>2. InUse \subseteq 0..(Total - 1) /\ Total \in Nat  BY RecordNumbers DEF IndexInv
<1>3. \A n \in InUse : Filed(n)
  <2> SUFFICES ASSUME NEW n \in InUse PROVE Filed(n)  OBVIOUS
  <2>1. n < todo[t]  BY <1>1, <1>2
  <2> QED BY <2>1 DEF IndexInv
<1>4. /\ InUse' = InUse /\ \A n : Filed(n)' <=> Filed(n)
      /\ \A n, k : First(n, k)' <=> First(n, k)
  BY <1>1 DEF InUse, Filed, First, Claimants
<1> QED BY <1>1, <1>3, <1>4 DEF IndexInv

LEMMA IndexNext == IndexInv /\ [Next]_vars => IndexInv'
<1> SUFFICES ASSUME IndexInv, [Next]_vars PROVE IndexInv'  OBVIOUS
<1>1. todo \in [Threads -> 0..Total] /\ Total \in Nat  BY RecordNumbers DEF IndexInv
<1>2. CASE UNCHANGED vars  BY <1>1, <1>2, IndexKept DEF vars
<1>3. ASSUME NEW t \in Threads, Begin(t) PROVE IndexInv'
  <2>1. /\ UNCHANGED <<mft, children, allRecs, built>> /\ todo' = [todo EXCEPT ![t] = 0]
    BY <1>3 DEF Begin
  <2>2. todo' \in [Threads -> 0..Total]
        /\ \A u \in Threads : todo'[u] = todo[u] \/ todo'[u] = 0
    BY <1>1, <2>1
  <2> QED BY <2>1, <2>2, IndexKept
<1>4. ASSUME NEW t \in Threads,
             BuildRaise(t) \/ Answer(t) \/ Fill(t) \/ HandleSeek(t) \/ HandleRead(t)
      PROVE  IndexInv'
  <2>1. UNCHANGED <<mft, children, allRecs, built, todo>>
    BY <1>4 DEF BuildRaise, Answer, Fill, HandleSeek, HandleRead
  <2> QED BY <2>1, <1>1, IndexKept
<1> QED BY <1>2, <1>3, <1>4, RecordKeeps, EndKeeps DEF Next, Build, Serve

(* However many walks fill the index, wherever they stand and whichever of  *)
(* them died, an entry is the one an undisturbed walk makes, and once one   *)
(* walk has ended nothing is missing.                                       *)
THEOREM IndexForAll == Spec => []IndexIsMft
<1>1. IndexInv => IndexIsMft
  <2> SUFFICES ASSUME IndexInv PROVE IndexIsMft  OBVIOUS
  <2>1. ASSUME NEW k \in DOMAIN children
        PROVE  /\ k \in UNION {KeysOf(mft[n]) : n \in Claimants(k)}
               /\ children[k] = Owner(k)
    <3>1. First(children[k], k)  BY DEF IndexInv
    <3>2. children[k] \in Claimants(k) /\ k \in KeysOf(mft[children[k]])
      BY <3>1 DEF First, Claimants
    <3>3. children[k] = Owner(k)  BY <3>1, FirstIsOwner DEF IndexInv
    <3> QED BY <3>2, <3>3
  <2>2. ASSUME built
        PROVE  /\ \A n \in DOMAIN mft : n \in allRecs <=> mft[n].inUse
               /\ \A n \in allRecs : Indexed(n) => KeysOf(mft[n]) \subseteq DOMAIN children
    <3>1. allRecs \subseteq InUse /\ \A n \in InUse : Filed(n)  BY <2>2 DEF IndexInv
    <3> QED BY <3>1 DEF InUse, Filed
  <2> QED BY <2>1, <2>2 DEF IndexIsMft
<1> QED BY <1>1, InitIndex, IndexNext, PTL DEF Spec

-----------------------------------------------------------------------------
(* Sizes *)

(* Once one walk has ended, walks that still run find each key there.       *)
Function == children = [k \in DOMAIN children |-> children[k]]

LEMMA IndexSettled ==
    ASSUME IndexInv, Function, built, NEW t \in Threads, BuildRecord(t)
    PROVE  children' = children
<1>0. PICK n \in 0..Total : n = todo[t]  BY DEF IndexInv
<1> DEFINE used == n \in InUse
           keys == IF used /\ Indexed(n) THEN KeysOf(mft[n]) ELSE {}
<1>1. children' = [k \in DOMAIN children \cup keys |->
                      IF k \in DOMAIN children THEN children[k] ELSE n]
  BY <1>0 DEF BuildRecord, InUse, Used
<1>2. keys \subseteq DOMAIN children  BY DEF IndexInv, Filed
<1> HIDE DEF keys
<1>3. DOMAIN children \cup keys = DOMAIN children  BY <1>2
<1>4. children' = [k \in DOMAIN children |-> children[k]]  BY <1>1, <1>3
<1> QED BY <1>4 DEF Function

DataOf(n) == IF mft[n].data = NoData THEN 0 ELSE mft[n].data
IsFile(n) == n # None /\ n \in DOMAIN mft /\ ~mft[n].dir

LEMMA DataType == ASSUME mft \in Volumes, NEW n \in DOMAIN mft PROVE DataOf(n) \in Nat
  BY NamesAssumption DEF NamesAssumption, DataOf, RecordType

(* What a read of a file delivers. *)
LEMMA ReadOfFile ==
    ASSUME mft \in Volumes, NEW path, IsFile(Resolve(path)), NEW off \in Nat, NEW len \in Int
    PROVE  LET size == DataOf(Resolve(path))
               want == IF len < 0 THEN size - off ELSE len
           IN /\ ~Raised(ReadFile(path, off, len))
              /\ ReadFile(path, off, len) =
                    [count |-> IF off >= size \/ want <= 0 THEN 0
                               ELSE IF want < size - off THEN want ELSE size - off]
<1> DEFINE n    == Resolve(path)
           size == DataOf(n)
           want == IF len < 0 THEN size - off ELSE len
           all  == IF off >= size \/ want <= 0 THEN 0
                   ELSE IF want < size - off THEN want ELSE size - off
<1>1. size \in Nat  BY DataType DEF IsFile
<1>2. ReadFile(path, off, len) = [count |-> CHOOSE k \in 0..size : k = all]
  BY DEF ReadFile, IsFile, DataOf
<1> HIDE DEF size
<1>3. all \in 0..size  BY <1>1
<1> HIDE DEF all
<1>4. (CHOOSE k \in 0..size : k = all) = all  BY <1>3
<1>5. ReadFile(path, off, len) = [count |-> all]  BY <1>2, <1>4
<1>6. "error" \notin DOMAIN [count |-> all]  OBVIOUS
<1>7. ~Raised(ReadFile(path, off, len))  BY <1>5, <1>6 DEF Raised
<1> QED BY <1>5, <1>7 DEF all, size

(* A path that stat knows is a record, which its answer names.              *)
LEMMA StatOfFile ==
    ASSUME mft \in Volumes, NEW path, NEW s, s = Stat(path), ~Raised(s)
    PROVE  /\ Resolve(path) # None /\ Resolve(path) \in DOMAIN mft
           /\ s.rec = Resolve(path) /\ s.dir = mft[Resolve(path)].dir
           /\ s.size = SizeOf(mft[Resolve(path)])
           /\ "from" \notin DOMAIN s
<1> DEFINE n == Resolve(path)
           name == IF SplitPath(path) = << >> THEN Empty ELSE Last(SplitPath(path))
<1>0. \A e : Raised(Raise(e))  BY DEF Raised, Raise
<1>1. Used(n) /\ s = EntryFor(n, name)  BY <1>0 DEF Stat
<1>2. n \in DOMAIN mft /\ n # None  BY <1>1, RecordNumbers, NamesAssumption DEF Used, NamesAssumption
<1>3. s = [rec |-> n, name |-> name, dir |-> mft[n].dir, size |-> SizeOf(mft[n])]
  BY <1>1 DEF EntryFor
<1> HIDE DEF n, name
<1>4. s.rec = n /\ s.dir = mft[n].dir /\ s.size = SizeOf(mft[n]) /\ "from" \notin DOMAIN s
  BY <1>3
<1> QED BY <1>2, <1>4 DEF n

-----------------------------------------------------------------------------
(* What is behind an answer, and behind an open file *)

ToldSize(t) ==
    (/\ pc[t] = "idle" /\ call[t] # None /\ reply[t] # None
     /\ call[t].op \in {"getattr", "open"} /\ ~Raised(reply[t]) /\ ~reply[t].dir)
    => LET n == Resolve(call[t].path)
       IN /\ built /\ IsFile(n)
          /\ reply[t].rec = n /\ reply[t].size = SizeOf(mft[n])

OpenFile(t) ==
    handle[t] # None =>
        LET h == handle[t]
            r == reply[t]
        IN /\ built /\ pc[t] = "idle" /\ call[t].op = "file"
           /\ DOMAIN h = {"path", "pos", "size"}
           /\ IsFile(Resolve(h.path)) /\ h.size = DataOf(Resolve(h.path)) /\ h.pos \in Nat
           /\ r # None =>
                 /\ ~Raised(r)
                 /\ "from" \in DOMAIN r =>
                       /\ r.count = 0 => r.want <= 0 \/ r.from >= h.size
                       /\ r.count < r.want => h.pos >= h.size
                       /\ h.pos = r.from + r.count

LocalTypes == /\ DOMAIN pc = Threads /\ DOMAIN call = Threads /\ DOMAIN reply = Threads
              /\ DOMAIN handle = Threads

SizesInv == /\ IndexInv /\ Function /\ LocalTypes
            /\ \A t \in Threads : /\ pc[t] \in {"answer", "fill"} => built
                                  /\ ToldSize(t) /\ OpenFile(t)

LEMMA SizesInit == Init => SizesInv
<1> SUFFICES ASSUME Init PROVE SizesInv  OBVIOUS
<1>1. IndexInv  BY InitIndex
<1>2. Function /\ LocalTypes  BY DEF Init, Function, LocalTypes
<1>3. ASSUME NEW t \in Threads
      PROVE  (pc[t] \in {"answer", "fill"} => built) /\ ToldSize(t) /\ OpenFile(t)
  BY DEF Init, ToldSize, OpenFile
<1> QED BY <1>1, <1>2, <1>3 DEF SizesInv

(* What a step leaves of a thread whose own state it leaves.                *)
Standing == mft' = mft /\ (built => built' /\ children' = children)

LEMMA ThreadStands ==
    ASSUME Standing, NEW u \in Threads,
           pc'[u] = pc[u], call'[u] = call[u], reply'[u] = reply[u], handle'[u] = handle[u],
           pc[u] \in {"answer", "fill"} => built, ToldSize(u), OpenFile(u)
    PROVE  /\ pc'[u] \in {"answer", "fill"} => built'
           /\ ToldSize(u)' /\ OpenFile(u)'
<1>1. CASE built
  <2>1. mft' = mft /\ built' /\ children' = children  BY <1>1 DEF Standing
  <2>2. /\ \A p : Resolve(p)' = Resolve(p)
        /\ \A n : IsFile(n)' = IsFile(n) /\ DataOf(n)' = DataOf(n)
    BY <2>1 DEF Resolve, IsFile, DataOf
  <2>3. ToldSize(u)'
    <3> SUFFICES ASSUME pc'[u] = "idle", call'[u] # None, reply'[u] # None,
                        call'[u].op \in {"getattr", "open"}, ~Raised(reply'[u]), ~reply'[u].dir
                 PROVE  /\ built' /\ IsFile(Resolve(call'[u].path))
                        /\ reply'[u].rec = Resolve(call'[u].path)
                        /\ reply'[u].size = SizeOf(mft[Resolve(call'[u].path)])
      BY <2>1, <2>2 DEF ToldSize, Raised
    <3> QED BY <1>1, <2>1 DEF ToldSize
  <2>4. OpenFile(u)'  BY <1>1, <2>1, <2>2 DEF OpenFile, Raised
  <2> QED BY <2>1, <2>3, <2>4
<1>2. CASE ~built
  <2>1. ~(/\ pc[u] = "idle" /\ call[u] # None /\ reply[u] # None
          /\ call[u].op \in {"getattr", "open"} /\ ~Raised(reply[u]) /\ ~reply[u].dir)
    BY <1>2 DEF ToldSize
  <2>2. handle[u] = None  BY <1>2 DEF OpenFile
  <2> QED BY <1>2, <2>1, <2>2 DEF ToldSize, OpenFile, Raised
<1> QED BY <1>1, <1>2

(* A step of one thread: the index and the volume stand, the others do, and *)
(* the thread itself is to be looked at.                                    *)
LEMMA ThreadMoves ==
    ASSUME SizesInv, IndexInv', Function', LocalTypes', Standing, NEW t \in Threads,
           \A u \in Threads \ {t} : /\ pc'[u] = pc[u] /\ call'[u] = call[u]
                                    /\ reply'[u] = reply[u] /\ handle'[u] = handle[u],
           pc'[t] \in {"answer", "fill"} => built', ToldSize(t)', OpenFile(t)'
    PROVE  SizesInv'
<1>1. ASSUME NEW u \in Threads, u # t
      PROVE  (pc'[u] \in {"answer", "fill"} => built') /\ ToldSize(u)' /\ OpenFile(u)'
  BY <1>1, ThreadStands DEF SizesInv
<1> QED BY <1>1 DEF SizesInv

LEMMA SizesBegin == ASSUME SizesInv, IndexInv', NEW t \in Threads, Begin(t) PROVE SizesInv'
<1>1. PICK c : call' = [call EXCEPT ![t] = c]  BY DEF Begin
<1>2. /\ pc' = [pc EXCEPT ![t] = IF built THEN "answer" ELSE "build"]
      /\ reply' = [reply EXCEPT ![t] = None] /\ handle' = [handle EXCEPT ![t] = None]
      /\ mft' = mft /\ children' = children /\ built' = built
  BY DEF Begin
<1>3. Function' /\ LocalTypes' /\ Standing
  BY <1>1, <1>2 DEF SizesInv, Function, LocalTypes, Standing
<1>4. /\ pc'[t] = (IF built THEN "answer" ELSE "build") /\ reply'[t] = None /\ handle'[t] = None
  BY <1>2 DEF SizesInv, LocalTypes
<1>5. ToldSize(t)' /\ OpenFile(t)'  BY <1>4 DEF ToldSize, OpenFile
<1> QED BY <1>1, <1>2, <1>3, <1>4, <1>5, ThreadMoves

LEMMA SizesBuild == ASSUME SizesInv, IndexInv', NEW t \in Threads,
                           BuildRecord(t) \/ BuildEnd(t) \/ BuildRaise(t)
                    PROVE  SizesInv'
<1>1. /\ mft' = mft /\ call' = call /\ handle' = handle /\ (built => built')
      /\ pc[t] = "build"
  BY DEF BuildRecord, BuildEnd, BuildRaise
<1>2. /\ Standing /\ Function'
  <2>1. CASE BuildRecord(t)
    <3>1. built => children' = children  BY <2>1, IndexSettled DEF SizesInv
    <3>2. Function'  BY <2>1 DEF BuildRecord, Function
    <3> QED BY <1>1, <3>1, <3>2 DEF Standing
  <2>2. CASE BuildEnd(t) \/ BuildRaise(t)
    <3>1. children' = children  BY <2>2 DEF BuildEnd, BuildRaise
    <3> QED BY <1>1, <3>1 DEF Standing, Function, SizesInv
  <2> QED BY <2>1, <2>2
<1>3. handle[t] = None  BY <1>1 DEF SizesInv, OpenFile
<1>4. OpenFile(t)'  BY <1>1, <1>3 DEF OpenFile
<1>5. CASE BuildRecord(t)
  <2>1. pc' = pc /\ reply' = reply  BY <1>5 DEF BuildRecord
  <2>2. LocalTypes' /\ ToldSize(t)' /\ pc'[t] = "build"
    BY <1>1, <2>1 DEF SizesInv, LocalTypes, ToldSize
  <2> QED BY <1>1, <1>2, <1>4, <2>1, <2>2, ThreadMoves
<1>6. CASE BuildEnd(t)
  <2>1. pc' = [pc EXCEPT ![t] = "answer"] /\ reply' = reply /\ built'  BY <1>6 DEF BuildEnd
  <2>2. LocalTypes' /\ pc'[t] = "answer"  BY <1>1, <2>1 DEF SizesInv, LocalTypes
  <2>3. ToldSize(t)'  BY <2>2 DEF ToldSize
  <2> QED BY <1>1, <1>2, <1>4, <2>1, <2>2, <2>3, ThreadMoves
<1>7. CASE BuildRaise(t)
  <2>1. pc' = [pc EXCEPT ![t] = "idle"] /\ reply' = [reply EXCEPT ![t] = Raise("OSError")]
    BY <1>7 DEF BuildRaise
  <2>2. LocalTypes' /\ pc'[t] = "idle" /\ reply'[t] = Raise("OSError")
    BY <1>1, <2>1 DEF SizesInv, LocalTypes
  <2>3. Raised(reply'[t])  BY <2>2 DEF Raised, Raise
  <2>4. ToldSize(t)'  BY <2>3 DEF ToldSize, Raised
  <2> QED BY <1>1, <1>2, <1>4, <2>1, <2>2, <2>4, ThreadMoves
<1> QED BY <1>5, <1>6, <1>7

(* What getattr and open tell of a file. *)
LEMMA GetAttrOfFile ==
    ASSUME mft \in Volumes, NEW path, NEW r, r = GetAttr(path), ~Raised(r), ~r.dir
    PROVE  /\ IsFile(Resolve(path))
           /\ r.rec = Resolve(path) /\ r.size = SizeOf(mft[Resolve(path)])
<1>1. path # << >>
  <2>1. [rec |-> Root, name |-> Empty, dir |-> TRUE, size |-> 0].dir  OBVIOUS
  <2> QED BY <2>1 DEF GetAttr
<1>2. ~Raised(Stat(path)) /\ r = Stat(path)
  <2>1. Raised(Raise("ENOENT"))  BY DEF Raised, Raise
  <2> QED BY <1>1, <2>1 DEF GetAttr
<1> QED BY <1>2, StatOfFile DEF IsFile

LEMMA SizesAnswer == ASSUME SizesInv, IndexInv', NEW t \in Threads, Answer(t) PROVE SizesInv'
<1>1. PICK r : /\ r = Reply(call[t]) /\ reply' = [reply EXCEPT ![t] = r]
               /\ pc' = [pc EXCEPT ![t] =
                     IF call[t].op = "enumerate" /\ ~Raised(r) /\ r.names # << >>
                     THEN "fill" ELSE "idle"]
               /\ handle' = [handle EXCEPT ![t] =
                     IF call[t].op = "file" /\ ~Raised(r)
                     THEN [path |-> call[t].path, pos |-> 0,
                           size |-> IF mft[r.rec].data = NoData THEN 0 ELSE mft[r.rec].data]
                     ELSE None]
  BY DEF Answer
<1>2. UNCHANGED <<mft, children, built, call>> /\ pc[t] = "answer"  BY DEF Answer
<1>3. built  BY <1>2 DEF SizesInv
<1>4. Function' /\ LocalTypes' /\ Standing
  BY <1>1, <1>2 DEF SizesInv, Function, LocalTypes, Standing
<1>5. /\ reply'[t] = r /\ call'[t] = call[t]
      /\ handle'[t] = IF call[t].op = "file" /\ ~Raised(r)
                      THEN [path |-> call[t].path, pos |-> 0,
                            size |-> IF mft[r.rec].data = NoData THEN 0 ELSE mft[r.rec].data]
                      ELSE None
  BY <1>1, <1>2 DEF SizesInv, LocalTypes
<1>6. /\ \A p : Resolve(p)' = Resolve(p)
      /\ \A n : IsFile(n)' = IsFile(n) /\ DataOf(n)' = DataOf(n)
  BY <1>2 DEF Resolve, IsFile, DataOf
<1>7. ToldSize(t)'
  <2> SUFFICES ASSUME call[t].op \in {"getattr", "open"}, ~Raised(r), ~r.dir
               PROVE  /\ IsFile(Resolve(call[t].path))
                      /\ r.rec = Resolve(call[t].path)
                      /\ r.size = SizeOf(mft[Resolve(call[t].path)])
    BY <1>2, <1>3, <1>5, <1>6 DEF ToldSize, Raised
  <2>1. r = GetAttr(call[t].path)  BY <1>1 DEF Reply
  <2> QED BY <2>1, GetAttrOfFile DEF SizesInv, IndexInv
<1>8. OpenFile(t)'
  <2>1. CASE ~(call[t].op = "file" /\ ~Raised(r))  BY <1>5, <2>1 DEF OpenFile
  <2>2. CASE call[t].op = "file" /\ ~Raised(r)
    <3> DEFINE p == call[t].path
    <3>0. \A e : Raised(Raise(e))  BY DEF Raised, Raise
    <3>1. r = IF Resolve(p) = None THEN Raise("FileNotFoundError")
              ELSE IF mft[Resolve(p)].dir THEN Raise("IsADirectoryError") ELSE Stat(p)
      BY <1>1, <2>2 DEF Reply
    <3>2. r = Stat(p) /\ ~mft[Resolve(p)].dir  BY <2>2, <3>0, <3>1
    <3>3. r.rec = Resolve(p) /\ IsFile(Resolve(p)) /\ "from" \notin DOMAIN r
      BY <2>2, <3>2, StatOfFile DEF IsFile, SizesInv, IndexInv
    <3>4. handle'[t] = [path |-> p, pos |-> 0, size |-> DataOf(Resolve(p))]
      BY <1>5, <2>2, <3>3 DEF DataOf
    <3>5. pc'[t] = "idle"  BY <1>1, <2>2 DEF SizesInv, LocalTypes
    <3> HIDE DEF p
    <3>6. /\ DOMAIN handle'[t] = {"path", "pos", "size"} /\ handle'[t].path = p
          /\ handle'[t].pos = 0 /\ handle'[t].size = DataOf(Resolve(p))
      BY <3>4
    <3> QED BY <1>2, <1>3, <1>5, <1>6, <2>2, <3>3, <3>5, <3>6 DEF OpenFile, Raised
  <2> QED BY <2>1, <2>2
<1>9. \A u \in Threads \ {t} : /\ pc'[u] = pc[u] /\ call'[u] = call[u]
                               /\ reply'[u] = reply[u] /\ handle'[u] = handle[u]
  BY <1>1, <1>2
<1> QED BY <1>2, <1>3, <1>4, <1>7, <1>8, <1>9, ThreadMoves

LEMMA SizesFill == ASSUME SizesInv, IndexInv', NEW t \in Threads, Fill(t) PROVE SizesInv'
<1>1. PICK k \in 1..Len(reply[t].names) :
          call' = [call EXCEPT ![t].marker = reply[t].names[k]]
  BY DEF Fill
<1>2. /\ pc' = [pc EXCEPT ![t] = "answer"] /\ pc[t] = "fill"
      /\ UNCHANGED <<mft, children, built, reply, handle>>
  BY DEF Fill
<1>3. Function' /\ LocalTypes' /\ Standing
  BY <1>1, <1>2 DEF SizesInv, Function, LocalTypes, Standing
<1>4. pc'[t] = "answer" /\ built' /\ handle'[t] = None
  BY <1>2 DEF SizesInv, LocalTypes, OpenFile
<1>5. ToldSize(t)' /\ OpenFile(t)'  BY <1>4 DEF ToldSize, OpenFile
<1>6. \A u \in Threads \ {t} : /\ pc'[u] = pc[u] /\ call'[u] = call[u]
                               /\ reply'[u] = reply[u] /\ handle'[u] = handle[u]
  BY <1>1, <1>2
<1> QED BY <1>2, <1>3, <1>4, <1>5, <1>6, ThreadMoves

LEMMA SizesSeek == ASSUME SizesInv, IndexInv', NEW t \in Threads, HandleSeek(t) PROVE SizesInv'
<1>1. PICK from \in {0, handle[t].pos, handle[t].size}, d \in {-2, 0, 1} :
          handle' = [handle EXCEPT ![t].pos = IF from + d < 0 THEN 0 ELSE from + d]
  BY DEF HandleSeek
<1>2. /\ pc[t] = "idle" /\ handle[t] # None /\ reply' = [reply EXCEPT ![t] = None]
      /\ UNCHANGED <<mft, children, built, pc, call>>
  BY DEF HandleSeek
<1>3. Function' /\ LocalTypes' /\ Standing
  BY <1>1, <1>2 DEF SizesInv, Function, LocalTypes, Standing
<1>4. /\ built /\ call[t].op = "file" /\ DOMAIN handle[t] = {"path", "pos", "size"}
      /\ IsFile(Resolve(handle[t].path)) /\ handle[t].size = DataOf(Resolve(handle[t].path))
      /\ handle[t].pos \in Nat
  BY <1>2 DEF SizesInv, OpenFile
<1>5. handle[t].size \in Nat
  BY <1>4, DataType DEF SizesInv, IndexInv, IsFile
<1>6. PICK p \in Nat : handle' = [handle EXCEPT ![t].pos = p]
  <2>1. from \in Int /\ d \in Int  BY <1>4, <1>5
  <2>2. (IF from + d < 0 THEN 0 ELSE from + d) \in Nat  BY <2>1
  <2> QED BY <1>1, <2>2
<1>7. handle'[t] = [handle[t] EXCEPT !.pos = p]  BY <1>6 DEF SizesInv, LocalTypes
<1>8. /\ DOMAIN handle'[t] = {"path", "pos", "size"} /\ handle'[t].path = handle[t].path
      /\ handle'[t].pos = p /\ handle'[t].size = handle[t].size
  BY <1>4, <1>7
<1>9. reply'[t] = None  BY <1>2 DEF SizesInv, LocalTypes
<1>10. /\ \A q : Resolve(q)' = Resolve(q)
       /\ \A n : IsFile(n)' = IsFile(n) /\ DataOf(n)' = DataOf(n)
  BY <1>2 DEF Resolve, IsFile, DataOf
<1>11. ToldSize(t)' /\ OpenFile(t)'
  BY <1>2, <1>4, <1>8, <1>9, <1>10 DEF ToldSize, OpenFile
<1>12. \A u \in Threads \ {t} : /\ pc'[u] = pc[u] /\ call'[u] = call[u]
                                /\ reply'[u] = reply[u] /\ handle'[u] = handle[u]
  BY <1>2, <1>6
<1> QED BY <1>2, <1>3, <1>4, <1>11, <1>12, ThreadMoves

LEMMA SizesRead == ASSUME SizesInv, IndexInv', NEW t \in Threads, HandleRead(t) PROVE SizesInv'
<1> DEFINE h == handle[t]
<1>1. PICK n \in {-1, 0, 1, 2} :
          LET want == IF n < 0 THEN h.size - h.pos ELSE n
              data == IF want <= 0 \/ h.pos >= h.size THEN [count |-> 0]
                      ELSE ReadFile(h.path, h.pos, want)
          IN /\ reply' = [reply EXCEPT ![t] =
                    IF Raised(data) THEN data
                    ELSE [from |-> h.pos, want |-> want, count |-> data.count]]
             /\ handle' = [handle EXCEPT ![t].pos = IF Raised(data) THEN @ ELSE @ + data.count]
  BY DEF HandleRead
<1>2. pc[t] = "idle" /\ h # None /\ UNCHANGED <<mft, children, built, pc, call>>
  BY DEF HandleRead
<1>3. /\ built /\ call[t].op = "file" /\ DOMAIN h = {"path", "pos", "size"}
      /\ IsFile(Resolve(h.path)) /\ h.size = DataOf(Resolve(h.path)) /\ h.pos \in Nat
  BY <1>2 DEF SizesInv, OpenFile
<1>4. h.size \in Nat /\ mft \in Volumes
  BY <1>3, DataType DEF SizesInv, IndexInv, IsFile
<1>5. PICK want \in Int : want = IF n < 0 THEN h.size - h.pos ELSE n
  <2> HIDE DEF h
  <2> QED BY <1>3, <1>4
<1>6. PICK data : data = IF want <= 0 \/ h.pos >= h.size THEN [count |-> 0]
                         ELSE ReadFile(h.path, h.pos, want)
  OBVIOUS
<1>7. PICK c : c = IF want <= 0 \/ h.pos >= h.size THEN 0
                   ELSE IF want < h.size - h.pos THEN want ELSE h.size - h.pos
  OBVIOUS
<1>8. data = [count |-> c] /\ ~Raised(data)
  <2>1. CASE want <= 0 \/ h.pos >= h.size
    <3>1. data = [count |-> 0] /\ c = 0  BY <1>6, <1>7, <2>1
    <3>2. "error" \notin DOMAIN [count |-> 0]  OBVIOUS
    <3> QED BY <3>1, <3>2 DEF Raised
  <2>2. CASE ~(want <= 0 \/ h.pos >= h.size)
    <3>1. data = ReadFile(h.path, h.pos, want)  BY <1>6, <2>2
    <3> DEFINE size == DataOf(Resolve(h.path))
               rest == IF want < 0 THEN size - h.pos ELSE want
    <3>2. /\ ~Raised(ReadFile(h.path, h.pos, want))
          /\ ReadFile(h.path, h.pos, want) =
                [count |-> IF h.pos >= size \/ rest <= 0 THEN 0
                           ELSE IF rest < size - h.pos THEN rest ELSE size - h.pos]
      BY <1>3, <1>4, ReadOfFile
    <3>3. size = h.size  BY <1>3
    <3>4. rest = want /\ ~(rest <= 0) /\ ~(h.pos >= size)
      <4> HIDE DEF h, size
      <4> QED BY <1>3, <1>4, <2>2, <3>3
    <3> HIDE DEF h, size, rest
    <3>5. ReadFile(h.path, h.pos, want) =
              [count |-> IF rest < size - h.pos THEN rest ELSE size - h.pos]
      BY <3>2, <3>4
    <3>6. c = IF rest < size - h.pos THEN rest ELSE size - h.pos
      BY <1>7, <2>2, <3>3, <3>4
    <3> QED BY <3>1, <3>2, <3>5, <3>6
  <2> QED BY <2>1, <2>2
<1>9. /\ c \in Nat
      /\ c = 0 => want <= 0 \/ h.pos >= h.size
      /\ c < want => h.pos + c >= h.size
  <2> HIDE DEF h
  <2> QED BY <1>3, <1>4, <1>7
<1>10. data.count = c  BY <1>8
<1>11. reply' = [reply EXCEPT ![t] = [from |-> h.pos, want |-> want, count |-> c]]
  BY <1>1, <1>5, <1>6, <1>8, <1>10
<1>12. handle' = [handle EXCEPT ![t].pos = h.pos + c]
  BY <1>1, <1>5, <1>6, <1>8, <1>10
<1>13. Function' /\ LocalTypes' /\ Standing
  BY <1>2, <1>11, <1>12 DEF SizesInv, Function, LocalTypes, Standing
<1>14. PICK r : r = [from |-> h.pos, want |-> want, count |-> c]  OBVIOUS
<1>15. reply'[t] = r /\ handle'[t] = [handle[t] EXCEPT !.pos = h.pos + c]
  BY <1>11, <1>12, <1>14 DEF SizesInv, LocalTypes
<1>16. /\ DOMAIN handle'[t] = {"path", "pos", "size"} /\ handle'[t].path = h.path
       /\ handle'[t].pos = h.pos + c /\ handle'[t].size = h.size
  BY <1>3, <1>15
<1>17. /\ r.from = h.pos /\ r.want = want /\ r.count = c /\ ~Raised(r)
  BY <1>14 DEF Raised
<1>18. /\ \A q : Resolve(q)' = Resolve(q)
       /\ \A m : IsFile(m)' = IsFile(m) /\ DataOf(m)' = DataOf(m)
  BY <1>2 DEF Resolve, IsFile, DataOf
<1>19. ToldSize(t)'  BY <1>2, <1>3 DEF ToldSize
<1>20. OpenFile(t)'
  <2> HIDE DEF h
  <2>1. h.pos + c \in Nat  BY <1>3, <1>9
  <2>2. /\ r.count = 0 => r.want <= 0 \/ r.from >= h.size
        /\ r.count < r.want => h.pos + c >= h.size
        /\ h.pos + c = r.from + r.count
    BY <1>9, <1>17
  <2> QED BY <1>2, <1>3, <1>15, <1>16, <1>17, <1>18, <2>1, <2>2 DEF OpenFile, Raised
<1>21. \A u \in Threads \ {t} : /\ pc'[u] = pc[u] /\ call'[u] = call[u]
                                /\ reply'[u] = reply[u] /\ handle'[u] = handle[u]
  BY <1>2, <1>11, <1>12
<1> QED BY <1>2, <1>13, <1>19, <1>20, <1>21, ThreadMoves

LEMMA SizesNext == SizesInv /\ [Next]_vars => SizesInv'
<1> SUFFICES ASSUME SizesInv, [Next]_vars PROVE SizesInv'  OBVIOUS
<1>1. IndexInv'  BY IndexNext DEF SizesInv
<1>2. CASE UNCHANGED vars
  <2>1. UNCHANGED <<mft, children, built, pc, call, reply, handle>>  BY <1>2 DEF vars
  <2>2. Function' /\ LocalTypes' /\ Standing
    BY <2>1 DEF SizesInv, Function, LocalTypes, Standing
  <2>3. ASSUME NEW u \in Threads
        PROVE  (pc'[u] \in {"answer", "fill"} => built') /\ ToldSize(u)' /\ OpenFile(u)'
    BY <2>1, <2>2, ThreadStands DEF SizesInv
  <2> QED BY <1>1, <2>2, <2>3 DEF SizesInv
<1>3. ASSUME NEW t \in Threads,
             \/ Begin(t) \/ Build(t) \/ BuildRaise(t) \/ Serve(t)
             \/ HandleSeek(t) \/ HandleRead(t)
      PROVE  SizesInv'
  BY <1>1, <1>3, SizesBegin, SizesBuild, SizesAnswer, SizesFill, SizesSeek, SizesRead
     DEF Build, Serve
<1> QED BY <1>2, <1>3 DEF Next

LEMMA SizesFollow == SizesInv => SizesAgree
<1> SUFFICES ASSUME SizesInv, NEW t \in Threads
    PROVE  /\ (/\ pc[t] = "idle" /\ call[t] # None /\ reply[t] # None
               /\ call[t].op \in {"getattr", "open"} /\ ~Raised(reply[t]) /\ ~reply[t].dir)
              => LET whole == ReadFile(call[t].path, 0, -1)
                 IN \/ whole = [count |-> reply[t].size]
                    \/ whole = [count |-> 0] /\ mft[reply[t].rec].data \in {NoData, 0}
           /\ handle[t] # None /\ reply[t] # None
              => LET r == reply[t]
                 IN /\ ~Raised(r)
                    /\ "from" \in DOMAIN r =>
                          /\ r.count = 0 => r.want <= 0 \/ r.from >= handle[t].size
                          /\ r.count < r.want => handle[t].pos >= handle[t].size
                          /\ handle[t].pos = r.from + r.count
  BY DEF SizesAgree
<1>1. mft \in Volumes  BY DEF SizesInv, IndexInv
<1>2. ASSUME pc[t] = "idle", call[t] # None, reply[t] # None,
             call[t].op \in {"getattr", "open"}, ~Raised(reply[t]), ~reply[t].dir
      PROVE  LET whole == ReadFile(call[t].path, 0, -1)
             IN \/ whole = [count |-> reply[t].size]
                \/ whole = [count |-> 0] /\ mft[reply[t].rec].data \in {NoData, 0}
  <2> DEFINE path == call[t].path
             n    == Resolve(path)
             size == DataOf(n)
  <2>1. IsFile(n) /\ reply[t].rec = n /\ reply[t].size = SizeOf(mft[n])
    BY <1>2 DEF SizesInv, ToldSize
  <2>2. size \in Nat  BY <1>1, <2>1, DataType DEF IsFile
  <2>3. 0 \in Nat /\ -1 \in Int /\ -1 < 0  OBVIOUS
  <2>4. ReadFile(path, 0, -1) = [count |-> IF 0 >= size \/ size - 0 <= 0 THEN 0
                                           ELSE IF size - 0 < size - 0 THEN size - 0 ELSE size - 0]
    BY <1>1, <2>1, <2>3, ReadOfFile
  <2>5. ReadFile(path, 0, -1) = [count |-> size]
    <3> HIDE DEF size
    <3> QED BY <2>2, <2>4
  <2>6. CASE size = 0
    <3>1. mft[n].data \in {NoData, 0}  BY <2>6 DEF DataOf
    <3> QED BY <2>1, <2>5, <2>6, <3>1
  <2>7. CASE size # 0
    <3>1. SizeOf(mft[n]) = size  BY <2>1, <2>7 DEF SizeOf, DataOf, IsFile
    <3> QED BY <2>1, <2>5, <3>1
  <2> QED BY <2>6, <2>7
<1> QED BY <1>2 DEF SizesInv, OpenFile

(* Of any volume, through an index that several walks fill: the size a file *)
(* is given is what a read of it delivers, and reads through an open file   *)
(* go on to its end and no further.                                         *)
THEOREM SizesForAll == Spec => []SizesAgree
  BY SizesInit, SizesNext, SizesFollow, PTL DEF Spec

-----------------------------------------------------------------------------
(* Enumerations *)

ListNames == Range(NameOrder) \cup {DotDot}

(* What a listing in order is made of. *)
LEMMA ItemsFacts ==
    ASSUME NEW path, NEW entries
    PROVE  /\ Items(path, entries) \in Seq(ListNames)
           /\ IsInjective(Items(path, entries))
           /\ \A e \in entries : e.name \in Range(NameOrder) =>
                                    e.name \in Range(Items(path, entries))
<1> DEFINE S == {e.name : e \in entries}  w == InOrder(S)  items == Items(path, entries)
<1>1. /\ NameOrder \in Seq(Range(NameOrder)) /\ IsInjective(NameOrder)
      /\ DotDot \notin Range(NameOrder)
  BY NamesAssumption DEF NamesAssumption
<1>2. w \in Seq(Range(NameOrder)) /\ IsInjective(w) /\ Range(w) = S \cap Range(NameOrder)
  <2> DEFINE n == Len(NameOrder)
             p == [i \in DOMAIN NameOrder |->
                      IF NameOrder[i] \in S THEN <<NameOrder[i]>> ELSE << >>]
  <2>1. w = FlattenSeq(p)  BY DEF InOrder
  <2>2. n \in Nat /\ DOMAIN NameOrder = 1..n /\ \A i \in 1..n : NameOrder[i] \in Range(NameOrder)
    BY <1>1, LenProperties DEF Range
  <2>3. \A i \in 1..n : p[i] = IF NameOrder[i] \in S THEN <<NameOrder[i]>> ELSE << >>
    BY <2>2
  <2>4. p \in Seq(Seq(Range(NameOrder))) /\ Len(p) = n
    <3>1. p = [i \in 1..n |-> IF NameOrder[i] \in S THEN <<NameOrder[i]>> ELSE << >>]
      BY <2>2
    <3>2. p \in [1..n -> Seq(Range(NameOrder))]
      <4> HIDE DEF n
      <4> QED BY <2>2, <3>1
    <3> HIDE DEF p, n
    <3> QED BY <2>2, <3>2
  <2> HIDE DEF w, S, p
  <2>5. \A i \in 1..Len(NameOrder) : p[i] = IF NameOrder[i] \in S THEN <<NameOrder[i]>> ELSE << >>
    BY <2>3
  <2>6. Len(p) = Len(NameOrder)  BY <2>4
  <2> DEFINE A == Range(NameOrder)
  <2>7. NameOrder \in Seq(A) /\ p \in Seq(Seq(A))  BY <1>1, <2>4
  <2> HIDE DEF A, n
  <2>8. /\ FlattenSeq(p) \in Seq(A) /\ IsInjective(FlattenSeq(p))
        /\ Range(FlattenSeq(p)) = S \cap Range(NameOrder)
    BY <1>1, <2>5, <2>6, <2>7, Filtered
  <2> QED BY <2>1, <2>8 DEF A
<1>3. w \in Seq(ListNames)  BY <1>2, SeqMonotonic DEF ListNames
<1>4. CASE path = << >>
  <2>1. items = w  BY <1>3, <1>4, ConcatEmptySeq DEF Items
  <2> QED BY <1>2, <1>3, <2>1
<1>5. CASE path # << >>
  <2>1. items = <<DotDot>> \o w  BY <1>5 DEF Items
  <2>2. DotDot \in ListNames /\ DotDot \notin Range(w)  BY <1>1, <1>2 DEF ListNames
  <2> DEFINE n == Len(w)
  <2>3. n \in Nat /\ DOMAIN w = 1..n  BY <1>3, LenProperties
  <2>4. /\ <<DotDot>> \o w \in Seq(ListNames) /\ Len(<<DotDot>> \o w) = n + 1
        /\ \A i \in 1..(n + 1) : (<<DotDot>> \o w)[i] = IF i <= 1 THEN DotDot ELSE w[i - 1]
    <3>1. <<DotDot>> \in Seq(ListNames) /\ Len(<<DotDot>>) = 1 /\ <<DotDot>>[1] = DotDot
      BY <2>2
    <3> HIDE DEF w
    <3>2. /\ <<DotDot>> \o w \in Seq(ListNames) /\ Len(<<DotDot>> \o w) = 1 + n
          /\ \A i \in 1..(1 + n) : (<<DotDot>> \o w)[i] =
                IF i <= 1 THEN <<DotDot>>[i] ELSE w[i - 1]
      BY <1>3, <3>1, ConcatProperties
    <3>3. \A i \in 1..(n + 1) : i <= 1 => i = 1  OBVIOUS
    <3> QED BY <2>3, <3>1, <3>2, <3>3
  <2>5. /\ items \in Seq(ListNames) /\ DOMAIN items = 1..(n + 1)
        /\ \A i \in 1..(n + 1) : items[i] = IF i <= 1 THEN DotDot ELSE w[i - 1]
    BY <2>1, <2>4, LenProperties
  <2> HIDE DEF items, w, n
  <2>6. \A i \in 1..(n + 1) : i = 1 \/ (~(i <= 1) /\ i - 1 \in 1..n)  BY <2>3
  <2>7. IsInjective(items)
    <3>1. \A i, j \in 1..n : w[i] = w[j] => i = j  BY <1>2, <2>3 DEF IsInjective
    <3>2. \A i \in 1..n : w[i] # DotDot  BY <2>2, <2>3 DEF Range
    <3> SUFFICES ASSUME NEW i \in 1..(n + 1), NEW j \in 1..(n + 1), items[i] = items[j]
                 PROVE  i = j
      BY <2>5 DEF IsInjective
    <3>3. CASE i = 1 \/ j = 1  BY <2>5, <2>6, <3>2, <3>3
    <3>4. CASE i # 1 /\ j # 1
      <4>1. i - 1 \in 1..n /\ j - 1 \in 1..n /\ w[i - 1] = w[j - 1]  BY <2>5, <2>6, <3>4
      <4> QED BY <2>3, <3>1, <4>1
    <3> QED BY <3>3, <3>4
  <2>8. Range(w) \subseteq Range(items)
    <3> SUFFICES ASSUME NEW j \in 1..n PROVE w[j] \in Range(items)  BY <2>3 DEF Range
    <3>1. j + 1 \in 1..(n + 1) /\ ~(j + 1 <= 1) /\ (j + 1) - 1 = j  BY <2>3
    <3>2. items[j + 1] = w[j]  BY <2>5, <3>1
    <3> QED BY <2>5, <3>1, <3>2 DEF Range
  <2> QED BY <1>2, <2>5, <2>7, <2>8 DEF items
<1> QED BY <1>4, <1>5

(* The marker found in a listing is where the piece before ended. *)
LEMMA FollowingIs ==
    ASSUME NEW w \in Seq(ListNames), IsInjective(w), NEW k \in 0..Len(w), NEW marker,
           marker = IF k = 0 THEN None ELSE w[k]
    PROVE  Following(w, marker) = SubSeq(w, k + 1, Len(w))
<1>1. Len(w) \in Nat /\ DOMAIN w = 1..Len(w)  BY LenProperties
<1>2. CASE k = 0
  <2>1. SubSeq(w, k + 1, Len(w)) = w  BY <1>2, SubSeqFull
  <2> QED BY <1>2, <2>1 DEF Following
<1>3. CASE k # 0
  <2>1. k \in 1..Len(w) /\ marker = w[k]  BY <1>1, <1>3
  <2>2. w[k] \in ListNames  BY <2>1, ElementOfSeq
  <2>3. w[k] # None  BY <2>2, NamesAssumption DEF NamesAssumption, ListNames
  <2> DEFINE at == {i \in DOMAIN w : w[i] = marker}
  <2>4. at = {k}  BY <1>1, <2>1 DEF IsInjective
  <2>5. (CHOOSE i \in at : \A j \in at : i <= j) = k
    <3>1. k \in at /\ \A j \in at : k <= j  BY <1>1, <2>4
    <3> QED BY <2>4, <3>1
  <2>6. marker # None /\ at # {}  BY <2>1, <2>3, <2>4
  <2> QED BY <2>5, <2>6 DEF Following
<1> QED BY <1>2, <1>3

(* What has been listed, and more of what follows. *)
LEMMA Pieces ==
    ASSUME NEW A, NEW w \in Seq(A), NEW k \in 0..Len(w)
    PROVE  /\ SubSeq(w, 1, k) \o SubSeq(w, k + 1, Len(w)) = w
           /\ Len(SubSeq(w, k + 1, Len(w))) = Len(w) - k
           /\ IsPrefix(SubSeq(w, 1, k), w)
           /\ IsInjective(w) => IsInjective(SubSeq(w, 1, k))
           /\ \A j \in 1..(Len(w) - k) :
                 /\ SubSeq(w, k + 1, Len(w))[j] = w[k + j]
                 /\ SubSeq(w, 1, k) \o SubSeq(SubSeq(w, k + 1, Len(w)), 1, j) = SubSeq(w, 1, k + j)
<1> DEFINE n == Len(w)  p == SubSeq(w, 1, k)  q == SubSeq(w, k + 1, n)
<1>1. n \in Nat /\ w \in [1..n -> A] /\ DOMAIN w = 1..n  BY LenProperties
<1>2. p \in Seq(A) /\ Len(p) = k /\ \A i \in 1..k : p[i] = w[i]
  <2>1. \A i \in 1..k : w[i] \in A  BY <1>1
  <2>2. /\ SubSeq(w, 1, k) \in Seq(A)
        /\ Len(SubSeq(w, 1, k)) = IF 1 <= k THEN k - 1 + 1 ELSE 0
        /\ \A i \in 1..(k - 1 + 1) : SubSeq(w, 1, k)[i] = w[1 + i - 1]
    BY <1>1, <2>1, SubSeqProperties
  <2>3. k \in Nat /\ k - 1 + 1 = k /\ \A i \in 1..k : 1 + i - 1 = i  BY <1>1
  <2> QED BY <2>2, <2>3
<1>3. q \in Seq(A) /\ Len(q) = n - k /\ \A j \in 1..(n - k) : q[j] = w[k + j]
  <2>1. \A i \in (k + 1)..n : w[i] \in A  BY <1>1
  <2>2. /\ q \in Seq(A)
        /\ Len(q) = IF k + 1 <= n THEN n - (k + 1) + 1 ELSE 0
        /\ \A i \in 1..(n - (k + 1) + 1) : q[i] = w[(k + 1) + i - 1]
    <3> HIDE DEF n
    <3>1. k + 1 \in Int /\ n \in Int  BY <1>1
    <3> QED BY <2>1, <3>1, SubSeqProperties
  <2>3. n - (k + 1) + 1 = n - k /\ \A i \in 1..(n - k) : (k + 1) + i - 1 = k + i  BY <1>1
  <2>4. k + 1 <= n \/ n - k = 0
    <3>1. k \in Nat /\ n \in Nat /\ k <= n  BY <1>1
    <3> HIDE DEF n
    <3> QED BY <3>1
  <2> HIDE DEF q
  <2> QED BY <1>1, <2>2, <2>3, <2>4
<1>4. p \o q = w
  <2>1. p \o q \in Seq(A) /\ Len(p \o q) = n
        /\ \A i \in 1..n : (p \o q)[i] = IF i <= k THEN p[i] ELSE q[i - k]
    <3> HIDE DEF p, q
    <3>1. /\ p \o q \in Seq(A) /\ Len(p \o q) = k + (n - k)
          /\ \A i \in 1..(k + (n - k)) : (p \o q)[i] = IF i <= k THEN p[i] ELSE q[i - k]
      BY <1>2, <1>3, ConcatProperties
    <3>2. k + (n - k) = n  BY <1>1
    <3> QED BY <3>1, <3>2
  <2>2. \A i \in 1..n : (p \o q)[i] = w[i]
    <3> HIDE DEF p, q
    <3> SUFFICES ASSUME NEW i \in 1..n PROVE (p \o q)[i] = w[i]  OBVIOUS
    <3>1. CASE i <= k  BY <1>2, <2>1, <3>1
    <3>2. CASE ~(i <= k)
      <4>1. i - k \in 1..(n - k) /\ k + (i - k) = i  BY <1>1, <3>2
      <4> QED BY <1>3, <2>1, <3>2, <4>1
    <3> QED BY <3>1, <3>2
  <2> HIDE DEF p, q
  <2> QED BY <2>1, <2>2, SeqEqual
<1>5. IsPrefix(p, w)
  <2>1. SubSeq(p, 1, k) = p  BY <1>2, SubSeqFull
  <2> HIDE DEF n
  <2>2. Len(p) <= n  BY <1>1, <1>2
  <2> QED BY <1>2, <2>1, <2>2 DEF IsPrefix, n
<1>6. ASSUME IsInjective(w) PROVE IsInjective(p)
  <2>1. DOMAIN p = 1..k  BY <1>2, LenProperties
  <2>2. 1..k \subseteq 1..n  BY <1>1
  <2> HIDE DEF p, n
  <2> QED BY <1>1, <1>2, <1>6, <2>1, <2>2 DEF IsInjective
<1>7. ASSUME NEW j \in 1..(n - k)
      PROVE  p \o SubSeq(q, 1, j) = SubSeq(w, 1, k + j)
  <2> DEFINE r == SubSeq(q, 1, j)  s == SubSeq(w, 1, k + j)
  <2>0. j \in Nat /\ k \in Nat /\ j >= 1  BY <1>1
  <2>1. r \in Seq(A) /\ Len(r) = j /\ \A i \in 1..j : r[i] = w[k + i]
    <3> HIDE DEF q
    <3>1. 1..j \subseteq 1..(n - k)  BY <1>1
    <3>2. \A i \in 1..j : q[i] \in A  BY <1>3, <3>1, ElementOfSeq
    <3>3. /\ SubSeq(q, 1, j) \in Seq(A)
          /\ Len(SubSeq(q, 1, j)) = IF 1 <= j THEN j - 1 + 1 ELSE 0
          /\ \A i \in 1..(j - 1 + 1) : SubSeq(q, 1, j)[i] = q[1 + i - 1]
      BY <2>0, <3>2, SubSeqProperties
    <3>4. j - 1 + 1 = j /\ \A i \in 1..j : 1 + i - 1 = i  BY <2>0
    <3> QED BY <1>3, <2>0, <3>1, <3>3, <3>4
  <2>2. s \in Seq(A) /\ Len(s) = k + j /\ \A i \in 1..(k + j) : s[i] = w[i]
    <3>1. 1..(k + j) \subseteq 1..n  BY <1>1
    <3>2. \A i \in 1..(k + j) : w[i] \in A  BY <1>1, <3>1
    <3>3. /\ s \in Seq(A)
          /\ Len(s) = IF 1 <= k + j THEN (k + j) - 1 + 1 ELSE 0
          /\ \A i \in 1..((k + j) - 1 + 1) : s[i] = w[1 + i - 1]
      BY <2>0, <3>2, SubSeqProperties
    <3>4. 1 <= k + j /\ (k + j) - 1 + 1 = k + j /\ \A i \in 1..(k + j) : 1 + i - 1 = i  BY <2>0
    <3> HIDE DEF s
    <3> QED BY <3>3, <3>4
  <2> HIDE DEF p, q, r, s, n
  <2>3. /\ p \o r \in Seq(A) /\ Len(p \o r) = k + j
        /\ \A i \in 1..(k + j) : (p \o r)[i] = IF i <= k THEN p[i] ELSE r[i - k]
    BY <1>2, <2>1, ConcatProperties
  <2>4. \A i \in 1..(k + j) : (p \o r)[i] = s[i]
    <3> SUFFICES ASSUME NEW i \in 1..(k + j) PROVE (p \o r)[i] = s[i]  OBVIOUS
    <3>1. CASE i <= k
      <4>1. i \in 1..k  BY <2>0, <3>1
      <4> QED BY <1>2, <2>2, <2>3, <3>1, <4>1
    <3>2. CASE ~(i <= k)
      <4>1. i - k \in 1..j /\ k + (i - k) = i  BY <2>0, <3>2
      <4> QED BY <2>1, <2>2, <2>3, <3>2, <4>1
    <3> QED BY <3>1, <3>2
  <2> QED BY <2>2, <2>3, <2>4, SeqEqual DEF r, s
<1> QED BY <1>3, <1>4, <1>5, <1>6, <1>7

Whole(path) == Items(path, ListDir(path).entries)

IsCall(c) == /\ {"op", "path"} \subseteq DOMAIN c
             /\ c.path \in Seq(Range(c.path))
             /\ c.op = "enumerate" => "marker" \in DOMAIN c

(* The first k names are listed, and the last of them is the marker.        *)
ListedTo(t, k) == LET w == Whole(call[t].path)
                  IN /\ listed[t] = SubSeq(w, 1, k)
                     /\ call[t].marker = IF k = 0 THEN None ELSE w[k]

(* What is behind an enumeration, and behind a listing.                     *)
Listing(t) ==
    call[t].op = "enumerate" =>
        LET w == Whole(call[t].path)
            r == reply[t]
        IN /\ pc[t] = "build" => listed[t] = << >> /\ call[t].marker = None /\ r = None
           /\ pc[t] = "answer" =>
                 \E k \in 0..Len(w) : /\ ListedTo(t, k)
                                      /\ k = 0 => r = None
                                      /\ k # 0 => ~Raised(r) /\ ~Raised(ListDir(call[t].path))
           /\ pc[t] = "fill" =>
                 /\ ~Raised(ListDir(call[t].path))
                 /\ \E k \in 0..Len(w) : /\ ListedTo(t, k)
                                         /\ r = [names |-> SubSeq(w, k + 1, Len(w))]
           /\ pc[t] = "idle" /\ r # None /\ ~Raised(r) =>
                 built /\ ~Raised(ListDir(call[t].path)) /\ listed[t] = w

Told(t) ==
    (/\ pc[t] = "idle" /\ call[t] # None /\ reply[t] # None
     /\ call[t].op = "readdir" /\ ~Raised(reply[t]))
    => built /\ IsCall(call[t]) /\ reply[t] = ReadDir(call[t].path)

Asked(t) == pc[t] # "idle" => IsCall(call[t])

ListsInv == /\ SizesInv
            /\ DOMAIN listed = Threads
            /\ \A t \in Threads : Asked(t) /\ Listing(t) /\ Told(t)

LEMMA ListsInit == Init => ListsInv
<1> SUFFICES ASSUME Init PROVE ListsInv  OBVIOUS
<1>1. SizesInv  BY SizesInit
<1>2. DOMAIN listed = Threads  BY DEF Init
<1>3. ASSUME NEW t \in Threads PROVE Asked(t) /\ Listing(t) /\ Told(t)
  BY DEF Init, Asked, Listing, Told
<1> QED BY <1>1, <1>2, <1>3 DEF ListsInv

(* What is listed is read off the index, and stands once that is built.     *)
LEMMA ListingStands ==
    ASSUME Standing, built
    PROVE  /\ \A p : ListDir(p)' = ListDir(p) /\ Whole(p)' = Whole(p) /\ ReadDir(p)' = ReadDir(p)
           /\ built'
<1>1. mft' = mft /\ children' = children /\ built'  BY DEF Standing
<1>2. \A p : Resolve(p)' = Resolve(p)  BY <1>1 DEF Resolve
<1>3. \A n, d : /\ Used(n)' = Used(n) /\ DisplayName(n, d)' = DisplayName(n, d)
                /\ EntryFor(n, d)' = EntryFor(n, d)
  BY <1>1 DEF Used, DisplayName, EntryFor
<1>4. \A d : Children(d)' = Children(d)  BY <1>1 DEF Children, Used
<1>5. \A p : ListDir(p)' = ListDir(p)
  BY <1>1 DEF ListDir, Resolve, Children, Used, DisplayName, EntryFor
<1>6. \A p : Whole(p)' = Whole(p) /\ ReadDir(p)' = ReadDir(p)
  BY <1>5 DEF Whole, ReadDir, Raised
<1> QED BY <1>1, <1>5, <1>6

LEMMA ListsStand ==
    ASSUME Standing, NEW u \in Threads,
           pc'[u] = pc[u], call'[u] = call[u], reply'[u] = reply[u], listed'[u] = listed[u],
           pc[u] \in {"answer", "fill"} => built, Asked(u), Listing(u), Told(u)
    PROVE  Asked(u)' /\ Listing(u)' /\ Told(u)'
<1>1. Asked(u)'  BY DEF Asked, IsCall
<1>2. CASE built
  <2>1. /\ \A p : ListDir(p)' = ListDir(p) /\ Whole(p)' = Whole(p) /\ ReadDir(p)' = ReadDir(p)
        /\ built'
    BY <1>2, ListingStands
  <2>2. Listing(u)'  BY <1>2, <2>1 DEF Listing, ListedTo, Raised
  <2>3. Told(u)'  BY <1>2, <2>1 DEF Told, IsCall, Raised
  <2> QED BY <1>1, <2>2, <2>3
<1>3. CASE ~built
  <2>1. Listing(u)'  BY <1>3 DEF Listing, Raised
  <2>2. Told(u)'  BY <1>3 DEF Told, Raised
  <2> QED BY <1>1, <2>1, <2>2
<1> QED BY <1>2, <1>3

LEMMA ListsMove ==
    ASSUME ListsInv, SizesInv', DOMAIN listed' = Threads, Standing, NEW t \in Threads,
           \A u \in Threads \ {t} : /\ pc'[u] = pc[u] /\ call'[u] = call[u]
                                    /\ reply'[u] = reply[u] /\ listed'[u] = listed[u],
           Asked(t)', Listing(t)', Told(t)'
    PROVE  ListsInv'
<1>1. ASSUME NEW u \in Threads, u # t PROVE Asked(u)' /\ Listing(u)' /\ Told(u)'
  BY <1>1, ListsStand DEF ListsInv, SizesInv
<1> QED BY <1>1 DEF ListsInv

LEMMA ListsBegin == ASSUME ListsInv, SizesInv', NEW t \in Threads, Begin(t) PROVE ListsInv'
<1>1. PICK c \in Calls(mft, t) : call' = [call EXCEPT ![t] = c]  BY DEF Begin
<1>2. /\ pc' = [pc EXCEPT ![t] = IF built THEN "answer" ELSE "build"]
      /\ reply' = [reply EXCEPT ![t] = None] /\ listed' = [listed EXCEPT ![t] = << >>]
      /\ mft' = mft /\ children' = children /\ built' = built
  BY DEF Begin
<1>3. mft \in Volumes /\ LocalTypes /\ DOMAIN listed = Threads
  BY DEF ListsInv, SizesInv, IndexInv
<1>4. /\ {"op", "path"} \subseteq DOMAIN c
      /\ c.path \in Seq(Range(c.path))
      /\ c.op = "enumerate" => "marker" \in DOMAIN c /\ c.marker = None
  BY <1>3, NamesAssumption DEF NamesAssumption
<1>5. /\ call'[t] = c /\ reply'[t] = None /\ listed'[t] = << >>
      /\ pc'[t] = IF built THEN "answer" ELSE "build"
  BY <1>1, <1>2, <1>3 DEF LocalTypes
<1>6. Standing /\ DOMAIN listed' = Threads  BY <1>2, <1>3 DEF Standing
<1>7. Asked(t)' /\ Told(t)'  BY <1>4, <1>5 DEF Asked, IsCall, Told
<1>8. Listing(t)'
  <2> SUFFICES ASSUME c.op = "enumerate", pc'[t] = "answer"
               PROVE  \E k \in 0..Len(Whole(c.path)') :
                         /\ listed'[t] = SubSeq(Whole(c.path)', 1, k)
                         /\ c.marker = IF k = 0 THEN None ELSE Whole(c.path)'[k]
                         /\ k = 0 => reply'[t] = None
                         /\ k # 0 => ~Raised(reply'[t]) /\ ~Raised(ListDir(c.path)')
    BY <1>4, <1>5 DEF Listing, ListedTo, Raised
  <2>1. Whole(c.path)' \in Seq(ListNames)  BY ItemsFacts DEF Whole
  <2>2. 0 \in 0..Len(Whole(c.path)')  BY <2>1, LenProperties
  <2>3. SubSeq(Whole(c.path)', 1, 0) = << >>  BY SubSeqEmpty
  <2> QED BY <1>4, <1>5, <2>2, <2>3
<1> QED BY <1>1, <1>2, <1>6, <1>7, <1>8, ListsMove

LEMMA ListsBuild == ASSUME ListsInv, SizesInv', NEW t \in Threads,
                           BuildRecord(t) \/ BuildEnd(t) \/ BuildRaise(t)
                    PROVE  ListsInv'
<1>1. /\ mft' = mft /\ call' = call /\ listed' = listed /\ (built => built')
      /\ pc[t] = "build"
  BY DEF BuildRecord, BuildEnd, BuildRaise
<1>2. Standing
  <2>1. CASE BuildRecord(t)
    <3>1. built => children' = children  BY <2>1, IndexSettled DEF ListsInv, SizesInv
    <3> QED BY <1>1, <3>1 DEF Standing
  <2>2. CASE BuildEnd(t) \/ BuildRaise(t)
    <3>1. children' = children  BY <2>2 DEF BuildEnd, BuildRaise
    <3> QED BY <1>1, <3>1 DEF Standing
  <2> QED BY <2>1, <2>2
<1>3. LocalTypes /\ DOMAIN listed = Threads  BY DEF ListsInv, SizesInv
<1>4. IsCall(call[t])  BY <1>1 DEF ListsInv, Asked
<1>5. Asked(t)'  BY <1>1, <1>4 DEF Asked, IsCall
<1>6. call[t].op = "enumerate" => listed[t] = << >> /\ call[t].marker = None /\ reply[t] = None
  BY <1>1, <1>4 DEF ListsInv, Listing
<1>7. CASE BuildRecord(t)
  <2>1. pc' = pc /\ reply' = reply  BY <1>7 DEF BuildRecord
  <2>2. Listing(t)' /\ Told(t)'  BY <1>1, <1>6, <2>1 DEF Listing, Told
  <2> QED BY <1>1, <1>2, <1>3, <1>5, <2>1, <2>2, ListsMove
<1>8. CASE BuildEnd(t)
  <2>1. pc' = [pc EXCEPT ![t] = "answer"] /\ reply' = reply  BY <1>8 DEF BuildEnd
  <2>2. pc'[t] = "answer"  BY <1>3, <2>1 DEF LocalTypes
  <2>3. Told(t)'  BY <2>2 DEF Told
  <2>4. Listing(t)'
    <3> DEFINE c == call[t]
    <3> SUFFICES ASSUME c.op = "enumerate"
                 PROVE  \E k \in 0..Len(Whole(c.path)') :
                           /\ listed[t] = SubSeq(Whole(c.path)', 1, k)
                           /\ c.marker = IF k = 0 THEN None ELSE Whole(c.path)'[k]
                           /\ k = 0 => reply[t] = None
                           /\ k # 0 => ~Raised(reply[t]) /\ ~Raised(ListDir(c.path)')
      BY <1>1, <2>1, <2>2 DEF Listing, ListedTo, Raised
    <3>1. Whole(c.path)' \in Seq(ListNames)  BY ItemsFacts DEF Whole
    <3>2. 0 \in 0..Len(Whole(c.path)')  BY <3>1, LenProperties
    <3>3. SubSeq(Whole(c.path)', 1, 0) = << >>  BY SubSeqEmpty
    <3> QED BY <1>6, <3>2, <3>3
  <2> QED BY <1>1, <1>2, <1>3, <1>5, <2>1, <2>3, <2>4, ListsMove
<1>9. CASE BuildRaise(t)
  <2>1. pc' = [pc EXCEPT ![t] = "idle"] /\ reply' = [reply EXCEPT ![t] = Raise("OSError")]
    BY <1>9 DEF BuildRaise
  <2>2. pc'[t] = "idle" /\ reply'[t] = Raise("OSError")  BY <1>3, <2>1 DEF LocalTypes
  <2>3. Raised(reply'[t])  BY <2>2 DEF Raised, Raise
  <2>4. Told(t)' /\ Listing(t)'  BY <2>2, <2>3 DEF Told, Listing, Raised
  <2> QED BY <1>1, <1>2, <1>3, <1>5, <2>1, <2>4, ListsMove
<1> QED BY <1>7, <1>8, <1>9

(* The answer to an enumeration that has come to the k-th name.             *)
LEMMA EnumerateAnswer ==
    ASSUME NEW t \in Threads, NEW k \in 0..Len(Whole(call[t].path)), ListedTo(t, k),
           NEW r, r = ReadDirectory(call[t].path, call[t].marker)
    PROVE  LET w == Whole(call[t].path)
           IN /\ ~Raised(r) <=> ~Raised(ListDir(call[t].path))
              /\ ~Raised(r) => r = [names |-> SubSeq(w, k + 1, Len(w))]
<1> DEFINE p == call[t].path  w == Whole(p)  list == ListDir(p)
<1>0. \A e : Raised(Raise(e))  BY DEF Raised, Raise
<1>1. w \in Seq(ListNames) /\ IsInjective(w)  BY ItemsFacts DEF Whole
<1>2. Following(w, call[t].marker) = SubSeq(w, k + 1, Len(w))
  <2>1. call[t].marker = IF k = 0 THEN None ELSE w[k]  BY DEF ListedTo
  <2> HIDE DEF w
  <2>2. k \in 0..Len(w)  BY DEF w
  <2> QED BY <1>1, <2>1, <2>2, FollowingIs
<1>3. r = IF Raised(list) THEN Raise("ObjectNameNotFound")
          ELSE [names |-> SubSeq(w, k + 1, Len(w))]
  BY <1>2 DEF ReadDirectory, Whole
<1>4. ~Raised([names |-> SubSeq(w, k + 1, Len(w))])  BY DEF Raised
<1> HIDE DEF w, list
<1>5. (~Raised(r) <=> ~Raised(list)) /\ (~Raised(r) => r = [names |-> SubSeq(w, k + 1, Len(w))])
  BY <1>0, <1>3, <1>4
<1> QED BY <1>5 DEF w, list

LEMMA ListsAnswer == ASSUME ListsInv, SizesInv', NEW t \in Threads, Answer(t) PROVE ListsInv'
<1> DEFINE c == call[t]  w == Whole(c.path)
<1>1. PICK r : /\ r = Reply(c) /\ reply' = [reply EXCEPT ![t] = r]
               /\ pc' = [pc EXCEPT ![t] =
                     IF c.op = "enumerate" /\ ~Raised(r) /\ r.names # << >>
                     THEN "fill" ELSE "idle"]
  BY DEF Answer
<1>2. UNCHANGED <<mft, children, built, call, listed>> /\ pc[t] = "answer"  BY DEF Answer
<1>3. built /\ LocalTypes /\ DOMAIN listed = Threads  BY <1>2 DEF ListsInv, SizesInv
<1>4. Standing  BY <1>2 DEF Standing
<1>5. /\ \A p : ListDir(p)' = ListDir(p) /\ Whole(p)' = Whole(p) /\ ReadDir(p)' = ReadDir(p)
      /\ built'
  BY <1>3, <1>4, ListingStands
<1>6. reply'[t] = r /\ call'[t] = c /\ listed'[t] = listed[t]
      /\ pc'[t] = IF c.op = "enumerate" /\ ~Raised(r) /\ r.names # << >> THEN "fill" ELSE "idle"
  BY <1>1, <1>2, <1>3 DEF LocalTypes
<1>7. IsCall(c) /\ Asked(t)'  BY <1>2 DEF ListsInv, Asked, IsCall
<1>8. Told(t)'
  <2> SUFFICES ASSUME c.op = "readdir" PROVE r = ReadDir(c.path)
    BY <1>5, <1>6, <1>7 DEF Told, IsCall
  <2> QED BY <1>1 DEF Reply
<1>9. Listing(t)'
  <2> SUFFICES ASSUME c.op = "enumerate" PROVE Listing(t)'  BY <1>6 DEF Listing
  <2>1. PICK k \in 0..Len(w) : ListedTo(t, k)  BY <1>2, <1>7 DEF ListsInv, Listing
  <2>2. r = ReadDirectory(c.path, c.marker)  BY <1>1 DEF Reply
  <2>3. /\ ~Raised(r) <=> ~Raised(ListDir(c.path))
        /\ ~Raised(r) => r = [names |-> SubSeq(w, k + 1, Len(w))]
    BY <2>1, <2>2, EnumerateAnswer
  <2>4. w \in Seq(ListNames)  BY ItemsFacts DEF Whole
  <2>5. listed[t] = SubSeq(w, 1, k) /\ c.marker = IF k = 0 THEN None ELSE w[k]
    BY <2>1 DEF ListedTo
  <2>9. PICK p : p = c.path  OBVIOUS
  <2>10. call'[t].path = p /\ call'[t].op = "enumerate"  BY <1>6, <2>9
  <2> HIDE DEF w, c
  <2>6. CASE Raised(r)  BY <1>6, <2>6 DEF Listing, Raised, c
  <2>7. CASE ~Raised(r) /\ k # Len(w)
    <3>1. Len(r.names) = Len(w) - k  BY <2>3, <2>4, <2>7, Pieces
    <3>2. r.names # << >>
      <4>1. Len(w) \in Nat  BY <2>4, LenProperties
      <4>2. Len(r.names) # 0  BY <2>7, <3>1, <4>1
      <4> QED BY <4>2
    <3>3. pc'[t] = "fill"  BY <1>6, <2>7, <3>2 DEF c
    <3>4. ListedTo(t, k)'  BY <1>5, <1>6, <2>5 DEF ListedTo, c, w
    <3>5. k \in 0..Len(Whole(p)')  BY <1>5, <2>9 DEF c, w
    <3>6. reply'[t] = [names |-> SubSeq(Whole(p)', k + 1, Len(Whole(p)'))]
      BY <1>5, <1>6, <2>3, <2>7, <2>9 DEF c, w
    <3>7. ~Raised(ListDir(p)')  BY <1>5, <2>3, <2>7, <2>9 DEF c, Raised
    <3> QED BY <2>10, <3>3, <3>4, <3>5, <3>6, <3>7 DEF Listing, Raised
  <2>8. CASE ~Raised(r) /\ k = Len(w)
    <3>1. r.names = << >>
      <4>1. Len(w) \in Nat  BY <2>4, LenProperties
      <4>2. SubSeq(w, k + 1, Len(w)) = << >>
        <5>1. k + 1 \in Int /\ Len(w) \in Int /\ Len(w) < k + 1  BY <2>8, <4>1
        <5> QED BY <5>1, SubSeqEmpty
      <4> QED BY <2>3, <2>8, <4>2
    <3>2. pc'[t] = "idle"  BY <1>6, <3>1 DEF c
    <3>3. listed[t] = w  BY <2>4, <2>5, <2>8, SubSeqFull
    <3>4. listed'[t] = Whole(p)'  BY <1>5, <1>6, <2>9, <3>3 DEF c, w
    <3>5. ~Raised(ListDir(p)')  BY <1>5, <2>3, <2>8, <2>9 DEF c, Raised
    <3> QED BY <1>5, <2>10, <3>2, <3>4, <3>5 DEF Listing, Raised
  <2> QED BY <2>6, <2>7, <2>8
<1> QED BY <1>1, <1>2, <1>3, <1>4, <1>7, <1>8, <1>9, ListsMove

LEMMA ListsFill == ASSUME ListsInv, SizesInv', NEW t \in Threads, Fill(t) PROVE ListsInv'
<1>1. PICK j \in 1..Len(reply[t].names) :
          /\ listed' = [listed EXCEPT ![t] = @ \o SubSeq(reply[t].names, 1, j)]
          /\ call' = [call EXCEPT ![t].marker = reply[t].names[j]]
  BY DEF Fill
<1>2. /\ pc' = [pc EXCEPT ![t] = "answer"] /\ pc[t] = "fill"
      /\ UNCHANGED <<mft, children, built, reply>>
  BY DEF Fill
<1>3. built /\ LocalTypes /\ DOMAIN listed = Threads  BY <1>2 DEF ListsInv, SizesInv
<1>4. Standing  BY <1>2 DEF Standing
<1>5. /\ \A p : ListDir(p)' = ListDir(p) /\ Whole(p)' = Whole(p) /\ ReadDir(p)' = ReadDir(p)
      /\ built'
  BY <1>3, <1>4, ListingStands
<1>6. PICK c : c = call[t]  OBVIOUS
<1>7. IsCall(c)  BY <1>2, <1>6 DEF ListsInv, Asked
<1>8. /\ pc'[t] = "answer" /\ reply'[t] = reply[t]
      /\ listed'[t] = listed[t] \o SubSeq(reply[t].names, 1, j)
      /\ call'[t] = [c EXCEPT !.marker = reply[t].names[j]]
  BY <1>1, <1>2, <1>3, <1>6 DEF LocalTypes
<1>9. /\ DOMAIN call'[t] = DOMAIN c /\ call'[t].op = c.op /\ call'[t].path = c.path
      /\ "marker" \in DOMAIN c => call'[t].marker = reply[t].names[j]
  BY <1>7, <1>8 DEF IsCall
<1>10. Asked(t)'
  <2>1. IsCall(call'[t])  BY <1>7, <1>9 DEF IsCall
  <2> QED BY <2>1 DEF Asked, IsCall
<1>11. Told(t)'  BY <1>8 DEF Told
<1>12. Listing(t)'
  <2> SUFFICES ASSUME c.op = "enumerate" PROVE Listing(t)'  BY <1>9 DEF Listing
  <2>1. PICK p : p = c.path  OBVIOUS
  <2>2. PICK w : w = Whole(p)  OBVIOUS
  <2>3. w \in Seq(ListNames)  BY <2>2, ItemsFacts DEF Whole
  <2>4. Len(w) \in Nat  BY <2>3, LenProperties
  <2>5. ~Raised(ListDir(p)) /\ "marker" \in DOMAIN c
    BY <1>2, <1>6, <1>7, <2>1 DEF ListsInv, Listing, IsCall
  <2>6. PICK k \in 0..Len(w) : ListedTo(t, k) /\ reply[t] = [names |-> SubSeq(w, k + 1, Len(w))]
    BY <1>2, <1>6, <2>1, <2>2 DEF ListsInv, Listing
  <2>7. listed[t] = SubSeq(w, 1, k)  BY <1>6, <2>1, <2>2, <2>6 DEF ListedTo
  <2>8. reply[t].names = SubSeq(w, k + 1, Len(w)) /\ ~Raised(reply[t])
    BY <2>6 DEF Raised
  <2>9. Len(reply[t].names) = Len(w) - k  BY <2>3, <2>8, Pieces
  <2>10. j \in 1..(Len(w) - k)  BY <1>1, <2>9
  <2>11. /\ reply[t].names[j] = w[k + j]
         /\ listed[t] \o SubSeq(reply[t].names, 1, j) = SubSeq(w, 1, k + j)
    BY <2>3, <2>7, <2>8, <2>10, Pieces
  <2>12. k + j \in 0..Len(w) /\ k + j # 0  BY <2>4, <2>6, <2>10
  <2>13. /\ call'[t].path = p /\ call'[t].op = "enumerate" /\ call'[t].marker = w[k + j]
         /\ listed'[t] = SubSeq(w, 1, k + j)
    BY <1>8, <1>9, <2>1, <2>5, <2>11
  <2>14. w = Whole(p)' /\ ~Raised(ListDir(p)') /\ ~Raised(reply'[t])
    BY <1>5, <1>8, <2>2, <2>5, <2>8
  <2>15. ListedTo(t, k + j)'  BY <2>12, <2>13, <2>14 DEF ListedTo
  <2> QED BY <1>8, <2>12, <2>13, <2>14, <2>15 DEF Listing, Raised
<1>13. \A u \in Threads \ {t} : /\ pc'[u] = pc[u] /\ call'[u] = call[u]
                                /\ reply'[u] = reply[u] /\ listed'[u] = listed[u]
  BY <1>1, <1>2
<1>14. DOMAIN listed' = Threads  BY <1>1, <1>3
<1> QED BY <1>4, <1>10, <1>11, <1>12, <1>13, <1>14, ListsMove

LEMMA ListsHandle == ASSUME ListsInv, SizesInv', NEW t \in Threads, HandleSeek(t) \/ HandleRead(t)
                     PROVE  ListsInv'
<1>1. pc[t] = "idle" /\ handle[t] # None /\ UNCHANGED <<mft, children, built, pc, call, listed>>
  BY DEF HandleSeek, HandleRead
<1>2. call[t].op = "file"  BY <1>1 DEF ListsInv, SizesInv, OpenFile
<1>3. Standing /\ DOMAIN listed' = Threads  BY <1>1 DEF Standing, ListsInv
<1>4. Asked(t)' /\ Listing(t)' /\ Told(t)'  BY <1>1, <1>2 DEF Asked, Listing, Told
<1>5. \A u \in Threads \ {t} : reply'[u] = reply[u]
  <2>1. CASE HandleSeek(t)  BY <2>1 DEF HandleSeek
  <2>2. CASE HandleRead(t)
    <3>1. PICK r : reply' = [reply EXCEPT ![t] = r]
      <4>1. PICK n \in {-1, 0, 1, 2} :
                LET h    == handle[t]
                    want == IF n < 0 THEN h.size - h.pos ELSE n
                    data == IF want <= 0 \/ h.pos >= h.size THEN [count |-> 0]
                            ELSE ReadFile(h.path, h.pos, want)
                IN reply' = [reply EXCEPT ![t] =
                      IF Raised(data) THEN data
                      ELSE [from |-> h.pos, want |-> want, count |-> data.count]]
        BY <2>2 DEF HandleRead
      <4> QED BY <4>1
    <3> QED BY <3>1
  <2> QED BY <2>1, <2>2
<1> QED BY <1>1, <1>3, <1>4, <1>5, ListsMove

LEMMA ListsNext == ListsInv /\ [Next]_vars => ListsInv'
<1> SUFFICES ASSUME ListsInv, [Next]_vars PROVE ListsInv'  OBVIOUS
<1>1. SizesInv'  BY SizesNext DEF ListsInv
<1>2. CASE UNCHANGED vars
  <2>1. UNCHANGED <<mft, children, built, pc, call, reply, listed>>  BY <1>2 DEF vars
  <2>2. Standing /\ DOMAIN listed' = Threads  BY <2>1 DEF Standing, ListsInv
  <2>3. ASSUME NEW u \in Threads PROVE Asked(u)' /\ Listing(u)' /\ Told(u)'
    BY <2>1, <2>2, ListsStand DEF ListsInv, SizesInv
  <2> QED BY <1>1, <2>2, <2>3 DEF ListsInv
<1>3. ASSUME NEW t \in Threads,
             \/ Begin(t) \/ Build(t) \/ BuildRaise(t) \/ Serve(t)
             \/ HandleSeek(t) \/ HandleRead(t)
      PROVE  ListsInv'
  BY <1>1, <1>3, ListsBegin, ListsBuild, ListsAnswer, ListsFill, ListsHandle DEF Build, Serve
<1> QED BY <1>2, <1>3 DEF Next

(* Of some of the names of a record one is best.                            *)
LEMMA BestIsThere ==
    ASSUME NEW links \in Seq(LinkType), NEW S, S \subseteq DOMAIN links, S # {}
    PROVE  \E m \in S : \A j \in S \ {m} : Before(links, m, j)
<1> DEFINE rank(i) == Rank[links[i].ns]
<1>1. S \subseteq Nat /\ \A i \in S : rank(i) \in Nat
  <2> SUFFICES ASSUME NEW i \in S PROVE i \in Nat /\ rank(i) \in Nat  OBVIOUS
  <2>1. i \in 1..Len(links) /\ Len(links) \in Nat  BY LenProperties
  <2>2. links[i] \in LinkType  BY <2>1, ElementOfSeq
  <2>3. links[i].ns \in DOMAIN Rank  BY <2>2 DEF LinkType
  <2>4. Rank[links[i].ns] \in Nat  BY <2>3 DEF Rank
  <2> QED BY <2>1, <2>4
<1> HIDE DEF rank
<1> DEFINE R == {rank(i) : i \in S}
<1>2. PICK r \in R : \A x \in R : r <= x
  <2>1. R \subseteq Nat /\ R # {}  BY <1>1
  <2> HIDE DEF R
  <2> QED BY <2>1, LeastNat
<1> DEFINE B == {i \in S : rank(i) = r}
<1>3. PICK m \in B : \A x \in B : m <= x
  <2>1. B \subseteq Nat /\ B # {}  BY <1>1, <1>2
  <2> HIDE DEF B
  <2> QED BY <2>1, LeastNat
<1>4. ASSUME NEW j \in S, j # m PROVE Before(links, m, j)
  <2>1. r \in Nat /\ rank(j) \in Nat /\ m \in Nat /\ j \in Nat /\ r <= rank(j) /\ rank(m) = r
    BY <1>1, <1>2, <1>3
  <2>2. CASE rank(j) = r
    <3>1. m <= j  BY <1>3, <2>2
    <3> QED BY <1>4, <2>1, <2>2, <3>1 DEF Before, rank
  <2>3. CASE rank(j) # r  BY <2>1, <2>3 DEF Before, rank
  <2> QED BY <2>2, <2>3
<1> QED BY <1>3, <1>4

(* The name a record of a directory is shown under is one of its names.     *)
LEMMA ShownByName ==
    ASSUME IndexInv, NEW d, NEW n \in Children(d)
    PROVE  /\ n \in InUse /\ Indexed(n)
           /\ DisplayName(n, d) \in Range(NameOrder)
<1>1. PICK k \in DOMAIN children : k[1] = d /\ n = children[k] /\ Used(n)  BY DEF Children
<1>2. n \in Claimants(k)  BY <1>1 DEF IndexInv, First
<1>3. n \in DOMAIN mft /\ mft[n].inUse /\ Indexed(n) /\ k \in KeysOf(mft[n])
  BY <1>2 DEF Claimants
<1> DEFINE links == mft[n].links
           here  == {i \in LongLinks(links) : links[i].parent = d}
<1>4. PICK i \in LongLinks(links) : k = <<links[i].parent, Lower(links[i].name)>>
  BY <1>3 DEF KeysOf
<1>5. i \in here
  <2>1. \A a, b : <<a, b>>[1] = a  OBVIOUS
  <2>2. links[i].parent = k[1]  BY <1>4, <2>1
  <2> QED BY <1>1, <1>4, <2>2
<1>6. links \in Seq(LinkType)
  BY <1>3, NamesAssumption DEF IndexInv, NamesAssumption, RecordType
<1>7. PICK m : m \in here /\ DisplayName(n, d) = links[m].name
  <2>1. \E m \in here : \A j \in here \ {m} : Before(links, m, j)
    <3>1. here \subseteq DOMAIN links /\ here # {}  BY <1>5 DEF LongLinks
    <3> HIDE DEF here, links
    <3> QED BY <1>6, <3>1, BestIsThere
  <2>2. DisplayName(n, d) = Best(links, here).name  BY <1>5 DEF DisplayName
  <2> HIDE DEF here
  <2> QED BY <2>1, <2>2 DEF Best
<1>8. m \in 1..Len(links)  BY <1>6, <1>7, LenProperties DEF LongLinks
<1>9. links[m] \in LinkType  BY <1>6, <1>8, ElementOfSeq
<1> QED BY <1>3, <1>7, <1>9 DEF InUse, LinkType

-----------------------------------------------------------------------------
(* EnumerationExact *)

LEMMA ListedEntries ==
    ASSUME NEW path, ~Raised(ListDir(path))
    PROVE  LET d == Resolve(path)
           IN ListDir(path).entries = {EntryFor(n, DisplayName(n, d)) : n \in Children(d)}
<1>0. \A e : Raised(Raise(e))  BY DEF Raised, Raise
<1> DEFINE d == Resolve(path)  S == {EntryFor(n, DisplayName(n, d)) : n \in Children(d)}
<1>1. ListDir(path) = [entries |-> S]  BY <1>0 DEF ListDir
<1> HIDE DEF S
<1>2. ListDir(path).entries = S  BY <1>1
<1> QED BY <1>2 DEF S

LEMMA ListsFollow == ListsInv => EnumerationExact
<1> SUFFICES ASSUME ListsInv, NEW t \in Threads,
                    pc[t] \in {"fill", "answer", "idle"}, built,
                    call[t].op = "enumerate", reply[t] # None, ~Raised(reply[t])
             PROVE  LET whole == ReadDirectory(call[t].path, None).names
                    IN /\ IsPrefix(listed[t], whole)
                       /\ IsInjective(listed[t])
                       /\ pc[t] = "fill" => whole = listed[t] \o reply[t].names
                       /\ pc[t] = "idle" =>
                             /\ listed[t] = whole
                             /\ \A n \in Children(Resolve(call[t].path)) :
                                   DisplayName(n, Resolve(call[t].path)) \in Range(listed[t])
  BY DEF EnumerationExact
<1> DEFINE p == call[t].path  list == ListDir(p)  w == Whole(p)  d == Resolve(p)
<1>1. w \in Seq(ListNames) /\ IsInjective(w)  BY ItemsFacts DEF Whole
<1>2. Len(w) \in Nat  BY <1>1, LenProperties
<1>3. Listing(t)  BY DEF ListsInv
<1>4. ~Raised(list)  BY <1>3 DEF Listing
<1>5. ReadDirectory(p, None).names = w
  <2>1. ReadDirectory(p, None) = [names |-> Following(w, None)]  BY <1>4 DEF ReadDirectory, Whole
  <2>2. Following(w, None) = w  BY DEF Following
  <2> HIDE DEF w
  <2> QED BY <2>1, <2>2
<1>6. ASSUME NEW k \in 0..Len(w), ListedTo(t, k)
      PROVE  IsPrefix(listed[t], w) /\ IsInjective(listed[t])
             /\ listed[t] \o SubSeq(w, k + 1, Len(w)) = w
  <2>1. listed[t] = SubSeq(w, 1, k)  BY <1>6 DEF ListedTo
  <2> HIDE DEF w
  <2> QED BY <1>1, <2>1, Pieces
<1>7. CASE pc[t] = "answer"
  <2>1. PICK k \in 0..Len(w) : ListedTo(t, k)  BY <1>3, <1>7 DEF Listing
  <2>2. IsPrefix(listed[t], w) /\ IsInjective(listed[t])  BY <1>6, <2>1
  <2> HIDE DEF w
  <2> QED BY <1>5, <1>7, <2>2
<1>8. CASE pc[t] = "fill"
  <2>1. PICK k \in 0..Len(w) : ListedTo(t, k) /\ reply[t] = [names |-> SubSeq(w, k + 1, Len(w))]
    BY <1>3, <1>8 DEF Listing
  <2>2. /\ IsPrefix(listed[t], w) /\ IsInjective(listed[t])
        /\ listed[t] \o SubSeq(w, k + 1, Len(w)) = w
    BY <1>6, <2>1
  <2> HIDE DEF w
  <2>3. reply[t].names = SubSeq(w, k + 1, Len(w))  BY <2>1
  <2> QED BY <1>5, <1>8, <2>2, <2>3
<1>9. CASE pc[t] = "idle"
  <2>1. listed[t] = w  BY <1>3, <1>9 DEF Listing
  <2>2. IsPrefix(w, w)
    <3> HIDE DEF w
    <3>1. SubSeq(w, 1, Len(w)) = w  BY <1>1, SubSeqFull
    <3> QED BY <1>2, <3>1 DEF IsPrefix
  <2>3. ASSUME NEW n \in Children(d) PROVE DisplayName(n, d) \in Range(w)
    <3>1. list.entries = {EntryFor(m, DisplayName(m, d)) : m \in Children(d)}
      BY <1>4, ListedEntries
    <3>2. EntryFor(n, DisplayName(n, d)) \in list.entries  BY <3>1
    <3>3. EntryFor(n, DisplayName(n, d)).name = DisplayName(n, d)  BY DEF EntryFor
    <3>4. DisplayName(n, d) \in Range(NameOrder)  BY ShownByName DEF ListsInv, SizesInv
    <3> HIDE DEF list, d, p
    <3>5. DisplayName(n, d) \in Range(Items(p, list.entries))  BY <3>2, <3>3, <3>4, ItemsFacts
    <3> QED BY <3>5 DEF Whole, list
  <2> HIDE DEF w
  <2> QED BY <1>1, <1>5, <1>9, <2>1, <2>2, <2>3
<1> QED BY <1>7, <1>8, <1>9

(* Of any volume, however long its directories and wherever the kernel ends *)
(* a piece: an enumeration goes through a directory once, in order, and at  *)
(* its end has had a name of everything there.                              *)
THEOREM EnumerationForAll == Spec => []EnumerationExact
  BY ListsInit, ListsNext, ListsFollow, PTL DEF Spec

-----------------------------------------------------------------------------
(* ListedIsFound *)

(* A path of names that its syntax can hold is taken apart into them.       *)
LEMMA PlainPath ==
    ASSUME NEW A, NEW path \in Seq(A), \A i \in DOMAIN path : Plain(path[i])
    PROVE  SplitPath(path) = path
<1> DEFINE n == Len(path)  p == [i \in 1..n |-> Cut(Stripped(path, i))]
<1>1. n \in Nat /\ DOMAIN path = 1..n /\ \A i \in 1..n : path[i] \in A
  BY LenProperties, ElementOfSeq
<1>2. ASSUME NEW i \in 1..n PROVE Cut(Stripped(path, i)) = <<path[i]>>
  <2>1. Plain(path[i])  BY <1>1
  <2>2. Stripped(path, i) = path[i]  BY <2>1 DEF Plain, Stripped
  <2> QED BY <2>1, <2>2 DEF Plain
<1>3. p \in [1..n -> Seq(A)]
  <2>1. ASSUME NEW i \in 1..n PROVE Cut(Stripped(path, i)) \in Seq(A)
    <3>1. path[i] \in A /\ Cut(Stripped(path, i)) = <<path[i]>>  BY <1>1, <1>2
    <3>2. \A x \in A : <<x>> \in Seq(A)  OBVIOUS
    <3> QED BY <3>1, <3>2
  <2> HIDE DEF n
  <2> QED BY <2>1
<1>4. SplitPath(path) = FlattenSeq(p)  BY DEF SplitPath
<1> HIDE DEF p
<1>5. p \in Seq(Seq(A)) /\ Len(p) = n
  <2> HIDE DEF n
  <2> QED BY <1>1, <1>3, FunctionIsSeq
<1>6. \A i \in 1..Len(path) : p[i] = <<path[i]>>  BY <1>2 DEF p
<1> QED BY <1>4, <1>5, <1>6, FlattenOnes

(* How a path is followed. *)
LEMMA Followed ==
    ASSUME NEW A, NEW names \in Seq(A), NEW path, SplitPath(path) = names
    PROVE  \E at : /\ at[0] = Root
                   /\ \A i \in 1..Len(names) : at[i] = Child(children, at[i - 1], names[i])
                   /\ Resolve(path) = at[Len(names)]
<1> DEFINE n == Len(names)
           S == {Root, None} \cup {children[k] : k \in DOMAIN children}
           g == [i \in 1..n |-> [d \in S |-> Child(children, d, names[i])]]
           Is(at) == at = [i \in 0..n |-> IF i = 0 THEN Root
                                          ELSE Child(children, at[i - 1], names[i])]
           c == CHOOSE at : Is(at)
<1>0. n \in Nat  BY LenProperties
<1>1. \A d, name : Child(children, d, name) \in S  BY DEF Child
<1>2. g \in [1..n -> [S -> S]]
  <2> HIDE DEF S, n
  <2> QED BY <1>1
<1>3. Root \in S  OBVIOUS
<1>4. \A i \in 1..n : g[i] = [d \in S |-> Child(children, d, names[i])]  OBVIOUS
<1> HIDE DEF S, g
<1>5. PICK f : Steps(f, n, S, Root, g)
  <2> HIDE DEF n
  <2> QED BY <1>0, <1>2, <1>3, Recursion
<1>6. Is(f)
  <2>1. f \in [0..n -> S] /\ f = [i \in 0..n |-> IF i = 0 THEN Root ELSE g[i][f[i - 1]]]
    BY <1>5 DEF Steps
  <2>2. ASSUME NEW i \in 1..n PROVE g[i][f[i - 1]] = Child(children, f[i - 1], names[i])
    <3>1. i - 1 \in 0..n  BY <1>0
    <3>2. PICK d \in S : d = f[i - 1]  BY <2>1, <3>1
    <3>3. g[i][d] = Child(children, d, names[i])  BY <1>4, <2>2
    <3> QED BY <3>2, <3>3
  <2>3. \A i \in 0..n : i = 0 \/ i \in 1..n  BY <1>0
  <2> HIDE DEF n
  <2>4. \A i \in 0..n : f[i] = IF i = 0 THEN Root ELSE Child(children, f[i - 1], names[i])
    BY <2>1, <2>2, <2>3
  <2>5. f = [i \in 0..n |-> f[i]]  BY <2>1
  <2> QED BY <2>4, <2>5
<1>7. Is(c)
  <2> HIDE DEF Is
  <2> QED BY <1>6
<1>8. Resolve(path) = c[n]  BY DEF Resolve, ResolveIn
<1> HIDE DEF c
<1>9. \A i \in 0..n : c[i] = IF i = 0 THEN Root ELSE Child(children, c[i - 1], names[i])
  <2> HIDE DEF n
  <2> QED BY <1>7
<1>10. 0 \in 0..n /\ \A i \in 1..n : i \in 0..n /\ i # 0  BY <1>0
<1>11. /\ c[0] = Root
       /\ \A i \in 1..n : c[i] = Child(children, c[i - 1], names[i])
       /\ Resolve(path) = c[n]
  <2> HIDE DEF n
  <2> QED BY <1>8, <1>9, <1>10
<1> QED BY <1>11

LEMMA ResolveName ==
    ASSUME NEW A, NEW path \in Seq(A), \A i \in DOMAIN path : Plain(path[i]),
           NEW name, Plain(name)
    PROVE  /\ Resolve(Append(path, name)) = Child(children, Resolve(path), name)
           /\ SplitPath(Append(path, name)) # << >>
<1> DEFINE B == A \cup {name}  q == Append(path, name)  n == Len(path)
<1>1. path \in Seq(B) /\ name \in B  BY SeqMonotonic
<1>2. n \in Nat /\ DOMAIN path = 1..n  BY LenProperties
<1>3. /\ q \in Seq(B) /\ Len(q) = n + 1 /\ DOMAIN q = 1..(n + 1)
      /\ q[n + 1] = name /\ \A i \in 1..n : q[i] = path[i]
  <2> HIDE DEF B
  <2> QED BY <1>1, <1>2
<1>4. \A i \in 1..(n + 1) : i \in 1..n \/ i = n + 1  BY <1>2
<1> HIDE DEF q, n, B
<1>5. \A i \in DOMAIN q : Plain(q[i])  BY <1>2, <1>3, <1>4
<1>6. SplitPath(path) = path /\ SplitPath(q) = q  BY <1>1, <1>3, <1>5, PlainPath
<1>7. PICK f : /\ f[0] = Root
               /\ \A i \in 1..Len(path) : f[i] = Child(children, f[i - 1], path[i])
               /\ Resolve(path) = f[Len(path)]
  BY <1>6, Followed
<1>8. PICK h : /\ h[0] = Root
               /\ \A i \in 1..Len(q) : h[i] = Child(children, h[i - 1], q[i])
               /\ Resolve(q) = h[Len(q)]
  BY <1>3, <1>6, Followed
<1> DEFINE T == {i \in 0..n : f[i] = h[i]}
<1>9. 0 \in T  BY <1>2, <1>7, <1>8
<1>10. ASSUME NEW i \in 0..(n - 1), i \in T PROVE i + 1 \in T
  <2>1. i + 1 \in 1..n /\ i + 1 \in 1..(n + 1) /\ (i + 1) - 1 = i /\ i + 1 \in 0..n  BY <1>2
  <2>2. f[i + 1] = Child(children, f[i], path[i + 1])  BY <1>7, <2>1 DEF n
  <2>3. h[i + 1] = Child(children, h[i], q[i + 1])  BY <1>3, <1>8, <2>1
  <2>4. f[i] = h[i] /\ q[i + 1] = path[i + 1]  BY <1>3, <1>10, <2>1
  <2> QED BY <2>1, <2>2, <2>3, <2>4
<1>11. f[n] = h[n]
  <2> HIDE DEF T
  <2>1. 0..n \subseteq T  BY <1>2, <1>9, <1>10, AllUpTo
  <2>2. n \in 0..n  BY <1>2
  <2>3. n \in T  BY <2>1, <2>2
  <2> QED BY <2>3 DEF T
<1>12. n + 1 \in 1..(n + 1) /\ (n + 1) - 1 = n  BY <1>2
<1>13. Resolve(q) = Child(children, h[n], name)  BY <1>3, <1>8, <1>12
<1>14. q # << >>  BY <1>2, <1>3
<1> QED BY <1>6, <1>7, <1>11, <1>13, <1>14 DEF q, n

(* A key that one record claims leads to it.                                *)
LEMMA OneClaimant ==
    ASSUME IndexInv, built, NEW n \in InUse, Indexed(n), NEW k \in KeysOf(mft[n]),
           ~(Cardinality(Claimants(k)) > 1)
    PROVE  k \in DOMAIN children /\ children[k] = n
<1>1. k \in DOMAIN children  BY DEF IndexInv, Filed
<1>2. n \in Claimants(k) /\ children[k] \in Claimants(k)
  BY <1>1 DEF IndexInv, First, Claimants, InUse
<1>3. IsFiniteSet(Claimants(k))
  <2>1. Claimants(k) \subseteq 0..(Total - 1) /\ Total \in Nat
    BY RecordNumbers DEF IndexInv, Claimants, InUse
  <2>2. IsFiniteSet(0..(Total - 1))  BY <2>1, FS_Interval
  <2> QED BY <2>1, <2>2, FS_Subset
<1>4. ASSUME children[k] # n PROVE FALSE
  <2>1. {children[k], n} \subseteq Claimants(k)  BY <1>2
  <2>2. Cardinality({children[k], n}) <= Cardinality(Claimants(k))  BY <1>3, <2>1, FS_Subset
  <2>3. Cardinality({children[k], n}) = 2
    <3>1. IsFiniteSet({n}) /\ Cardinality({n}) = 1  BY FS_Singleton
    <3>2. {children[k], n} = {n} \cup {children[k]} /\ children[k] \notin {n}  BY <1>4
    <3>3. Cardinality({n} \cup {children[k]}) = Cardinality({n}) + 1
      BY <3>1, <3>2, FS_AddElement
    <3> QED BY <3>1, <3>2, <3>3
  <2>4. Cardinality(Claimants(k)) \in Nat  BY <1>3, FS_CardinalityType
  <2> QED BY <2>2, <2>3, <2>4
<1> QED BY <1>1, <1>4

LEMMA ListsFound == ListsInv => ListedIsFound
<1> SUFFICES ASSUME ListsInv, NEW t \in Threads,
                    pc[t] = "idle", call[t] # None, reply[t] # None,
                    call[t].op = "readdir", ~Raised(reply[t]),
                    \A i \in DOMAIN call[t].path : Plain(call[t].path[i]),
                    NEW e \in ListDir(call[t].path).entries
             PROVE  LET key == <<Resolve(call[t].path), Lower(e.name)>>
                        s   == Stat(Append(call[t].path, e.name))
                    IN /\ e.name \in reply[t].names
                       /\ \/ ~Plain(e.name)
                          \/ ~Raised(s) /\ s.rec = e.rec /\ s.size = e.size /\ s.dir = e.dir
                          \/ Cardinality(Claimants(key)) > 1
                          \/ key \notin KeysOf(mft[e.rec])
  BY DEF ListedIsFound
<1> DEFINE p == call[t].path  list == ListDir(p)  d == Resolve(p)
<1>0. \A x : Raised(Raise(x))  BY DEF Raised, Raise
<1>1. /\ built /\ reply[t] = ReadDir(p) /\ IndexInv
      /\ p \in Seq(Range(p))
  BY DEF ListsInv, SizesInv, Told, IsCall
<1>2. ~Raised(list) /\ reply[t] = [names |-> {Dot, DotDot} \cup ({x.name : x \in list.entries} \ {Empty})]
  BY <1>0, <1>1 DEF ReadDir
<1>3. PICK n \in Children(d) : e = EntryFor(n, DisplayName(n, d))
  <2>1. list.entries = {EntryFor(n, DisplayName(n, d)) : n \in Children(d)}
    BY <1>2, ListedEntries
  <2> QED BY <2>1
<1>4. n \in InUse /\ Indexed(n) /\ DisplayName(n, d) \in Range(NameOrder)
  BY <1>1, ShownByName
<1>5. /\ e.rec = n /\ e.name = DisplayName(n, d) /\ e.dir = mft[n].dir /\ e.size = SizeOf(mft[n])
  BY <1>3 DEF EntryFor
<1>6. e.name # Empty  BY <1>4, <1>5, NamesAssumption DEF NamesAssumption
<1>7. e.name \in reply[t].names
  <2>1. e.name \in {x.name : x \in list.entries} \ {Empty}  BY <1>6
  <2> DEFINE S == {x.name : x \in list.entries} \ {Empty}
  <2> HIDE DEF S
  <2>2. e.name \in S  BY <2>1 DEF S
  <2>3. reply[t].names = {Dot, DotDot} \cup S  BY <1>2 DEF S
  <2> QED BY <2>2, <2>3
<1> DEFINE key == <<d, Lower(e.name)>>  q == Append(p, e.name)
<1>8. ASSUME Plain(e.name), ~(Cardinality(Claimants(key)) > 1), key \in KeysOf(mft[n])
      PROVE  ~Raised(Stat(q)) /\ Stat(q).rec = n
             /\ Stat(q).size = SizeOf(mft[n]) /\ Stat(q).dir = mft[n].dir
  <2>1. key \in DOMAIN children /\ children[key] = n
    <3> HIDE DEF key
    <3> QED BY <1>1, <1>4, <1>8, OneClaimant
  <2>2. Resolve(q) = Child(children, d, e.name)
    <3>1. \A i \in DOMAIN p : Plain(p[i])  OBVIOUS
    <3> HIDE DEF p
    <3> QED BY <1>1, <1>8, <3>1, ResolveName
  <2>3. Resolve(q) = n  BY <2>1, <2>2 DEF Child
  <2>4. Used(n)  BY <1>4 DEF Used, InUse
  <2> HIDE DEF q
  <2>5. PICK name : Stat(q) = EntryFor(n, name)  BY <2>3, <2>4 DEF Stat
  <2>6. Stat(q) = [rec |-> n, name |-> name, dir |-> mft[n].dir, size |-> SizeOf(mft[n])]
    BY <2>5 DEF EntryFor
  <2>7. "error" \notin DOMAIN Stat(q)  BY <2>6
  <2> QED BY <2>6, <2>7 DEF Raised
<1> HIDE DEF q, key
<1> QED BY <1>5, <1>7, <1>8 DEF q, key

(* Of any volume: what a listing through FUSE shows is found under the name *)
(* it shows, and is that record, but for the exceptions the property names. *)
THEOREM ListedForAll == Spec => []ListedIsFound
  BY ListsInit, ListsNext, ListsFound, PTL DEF Spec
=============================================================================

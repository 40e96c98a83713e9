---------------------------- MODULE FsWalk_proofs ----------------------------
(***************************************************************************)
(* What is true of the two walks for any archives, streams and damage.     *)
(*                                                                         *)
(* A record of the tree is given to one content at most: the records given *)
(* away are distinct, and none of them is among those left.                *)
(*                                                                         *)
(* A content that is whole, behind one that is whole, is there once a walk *)
(* has passed it: within the part that must be whole, a walk has something *)
(* to emit at the end of the content before, and then collects exactly the *)
(* chunks of the content itself, for no search passes what is whole.       *)
(*                                                                         *)
(* A file of the index is found where its path says: the tree of the first *)
(* k paths has each of its entries at the entry's own path, directories    *)
(* above it, and the paths that no other of all n disturbs.                *)
(*                                                                         *)
(* An undamaged archive is read exactly: what is emitted is what has ended *)
(* so far, what is collected is the next content so far, the records left  *)
(* in the tree are those of the others, and as many files have had their   *)
(* turn for metadata as there was metadata.                                *)
(***************************************************************************)
EXTENDS FsWalk, Lemmas

ChunkType == [at : Int, raw : BOOLEAN]
FileType  == [chunks : Seq(ChunkType), rec : Nat, meta : Nat]

LEMMA SmallestOfNat ==
    ASSUME NEW S, S \subseteq Nat, S # {}
    PROVE  Smallest(S) \in S /\ \A x \in S : Smallest(S) <= x
<1>1. PICK n \in S : \A x \in S : n <= x  BY LeastNat
<1>2. Min(S) \in S /\ \A x \in S : Min(S) <= x  BY <1>1 DEF Min
<1> QED BY <1>2 DEF Smallest

-----------------------------------------------------------------------------
(* The inductive invariant *)

WalkTypes ==
    /\ archive \in Archives
    /\ cur \in Seq(ChunkType) /\ emitted \in Seq(FileType)
    /\ left \subseteq Nat \ {0} /\ labelled \in Nat /\ labelled <= Len(emitted)

Given == \A e \in 1..Len(emitted) : emitted[e].rec \notin left

NamesInv == WalkTypes /\ Given /\ NamedOnce

LEMMA InitNames == Init => NamesInv
  BY DEF Init, NamesInv, WalkTypes, Given, NamedOnce

LEMMA NamedType == ASSUME WalkTypes PROVE Named \in left \cup {0}
<1> DEFINE R == {r \in left : archive.tree[r].size = SizeOf(cur)}
<1>1. CASE R = {}  BY <1>1 DEF Named, Smallest
<1>2. CASE R # {}
  <2>1. R \subseteq Nat  BY DEF WalkTypes
  <2>2. Smallest(R) \in R  BY <1>2, <2>1, SmallestOfNat
  <2> QED BY <2>2 DEF Named
<1> QED BY <1>1, <1>2

(* The end of a file gives it a record that is left, and takes it away. *)
LEMMA EmitNames ==
    ASSUME NamesInv, NEW next, Emit(next), UNCHANGED <<archive, labelled>>
    PROVE  NamesInv'
<1> USE DEF NamesInv, WalkTypes
<1>1. CASE UNCHANGED <<cur, left, emitted>>
  BY <1>1 DEF Given, NamedOnce
<1>2. CASE /\ cur = << >> /\ emitted' = emitted /\ left' = left /\ cur' = << >>
  BY <1>2 DEF Given, NamedOnce
<1>3. CASE /\ emitted' = Append(emitted, [chunks |-> cur, rec |-> Named, meta |-> 0])
           /\ left' = left \ {Named} /\ cur' = << >>
  <2> DEFINE new == [chunks |-> cur, rec |-> Named, meta |-> 0]
  <2>1. Named \in left \cup {0}  BY NamedType
  <2>2. new \in FileType /\ new.rec = Named
    <3>1. Named \in Nat /\ cur \in Seq(ChunkType)  BY <2>1
    <3> HIDE DEF NamesInv, WalkTypes
    <3> QED BY <3>1 DEF FileType
  <2>3. /\ emitted' \in Seq(FileType) /\ Len(emitted') = Len(emitted) + 1
        /\ \A e \in 1..Len(emitted) : emitted'[e] = emitted[e]
        /\ emitted'[Len(emitted) + 1] = new
    BY <1>3, <2>2
  <2>4. WalkTypes'
    <3>1. Len(emitted) \in Nat /\ labelled \in Nat /\ labelled <= Len(emitted)  OBVIOUS
    <3>2. labelled' <= Len(emitted')  BY <2>3, <3>1
    <3>3. << >> \in Seq(ChunkType)  OBVIOUS
    <3>4. cur' \in Seq(ChunkType) /\ left' \subseteq Nat \ {0}  BY <1>3, <3>3
    <3> QED BY <2>3, <3>1, <3>2, <3>4
  <2>5. \A e \in 1..Len(emitted') : e \in 1..Len(emitted) \/ e = Len(emitted) + 1
    BY <2>3
  <2>6. Given'  BY <1>3, <2>1, <2>2, <2>3, <2>5 DEF Given
  <2>7. \A e \in 1..Len(emitted) : emitted[e].rec # Named \/ Named = 0
    BY <2>1 DEF Given
  <2>8. NamedOnce'  BY <2>2, <2>3, <2>5, <2>7 DEF NamedOnce
  <2> QED BY <2>4, <2>6, <2>8
<1> QED BY <1>1, <1>2, <1>3 DEF Emit, EmitAnd

(* Metadata changes no record. *)
LEMMA BatchNames ==
    ASSUME NamesInv, NEW batch \in Seq(Nat), ApplyBatch(batch), UNCHANGED <<archive, cur, left>>
    PROVE  NamesInv'
<1> USE DEF NamesInv, WalkTypes
<1>1. Len(batch) \in Nat /\ Len(emitted) \in Nat  OBVIOUS
<1>2. \A e \in 1..Len(emitted) :
         LET new == IF e \in (labelled + 1)..(labelled + Len(batch))
                    THEN [emitted[e] EXCEPT !.meta = batch[e - labelled]] ELSE emitted[e]
         IN  new \in FileType /\ new.rec = emitted[e].rec
  <2>1. ASSUME NEW e \in 1..Len(emitted), e \in (labelled + 1)..(labelled + Len(batch))
        PROVE  batch[e - labelled] \in Nat
    <3>1. e - labelled \in 1..Len(batch)  BY <1>1, <2>1
    <3> QED BY <3>1
  <2>2. \A e \in 1..Len(emitted) : emitted[e] \in FileType  OBVIOUS
  <2> QED BY <2>1, <2>2 DEF FileType
<1>3. /\ emitted' \in Seq(FileType) /\ Len(emitted') = Len(emitted)
      /\ \A e \in 1..Len(emitted) : emitted'[e].rec = emitted[e].rec
  BY <1>1, <1>2 DEF ApplyBatch, Label
<1>4. labelled' \in {labelled + Len(batch), Len(emitted)} /\ labelled' <= Len(emitted)
  <2> DEFINE S == {labelled + Len(batch), Len(emitted)}
  <2>1. S \subseteq Nat /\ S # {}  BY <1>1
  <2>2. Smallest(S) = Min(S)  BY DEF Smallest
  <2>3. Min(S) \in S /\ \A x \in S : Min(S) <= x  BY <2>1, <2>2, SmallestOfNat
  <2> QED BY <2>3 DEF ApplyBatch
<1>5. WalkTypes'  BY <1>1, <1>3, <1>4
<1>6. Given'  BY <1>3 DEF Given
<1>7. NamedOnce'  BY <1>3 DEF NamedOnce
<1> QED BY <1>5, <1>6, <1>7

LEMMA StillNames ==
    ASSUME NamesInv, UNCHANGED <<archive, left, emitted, labelled>>, cur' \in Seq(ChunkType)
    PROVE  NamesInv'
  BY DEF NamesInv, WalkTypes, Given, NamedOnce

(* Nothing is emitted before the tree is read. *)
Fresh == phase \in {"begin", "walk", "done", "raised", "serving"} /\ (phase = "begin" => emitted = << >>)

LEMMA NextFresh == ASSUME Fresh, [Next]_vars PROVE Fresh'
<1> USE DEF Fresh
<1>1. ASSUME NEW next, phase = "walk", Emit(next) PROVE Fresh'
  BY <1>1 DEF Emit, EmitAnd, Proceed
<1>2. CASE UNCHANGED vars  BY <1>2 DEF vars
<1>3. CASE Begin  BY <1>3 DEF Begin
<1>4. CASE IndexDone \/ Serve  BY <1>4 DEF IndexDone, Serve, Finish
<1>5. CASE ExtractDone  BY <1>1, <1>5 DEF ExtractDone
<1>6. ASSUME NEW i \in Records,
             IndexChunk(i) \/ IndexStop(i) \/ IndexRaise(i) \/ IndexSearch(i)
      PROVE  Fresh'
  BY <1>6 DEF IndexChunk, IndexStop, IndexRaise, IndexSearch, Indexing, Collect, Pass, Finish, Raise
<1>7. ASSUME NEW i \in Records, IndexEnd(i) \/ ExtractEnd(i) PROVE Fresh'
  BY <1>1, <1>7 DEF IndexEnd, ExtractEnd, Indexing, Extracting
<1>8. ASSUME NEW i \in Records, ExtractChunk(i) \/ ExtractBatch(i) \/ ExtractSkip(i) PROVE Fresh'
  BY <1>8 DEF ExtractChunk, ExtractBatch, ExtractSkip, Extracting, Collect, Pass
<1> QED BY <1>2, <1>3, <1>4, <1>5, <1>6, <1>7, <1>8 DEF Next

LEMMA NextNames ==
    ASSUME NamesInv, Fresh, [Next]_vars
    PROVE  NamesInv'
<1> USE DEF Fixed
<1>0. cur \in Seq(ChunkType)  BY DEF NamesInv, WalkTypes
<1>1. CASE UNCHANGED vars  BY <1>0, <1>1, StillNames DEF vars
<1>2. CASE Begin
  <2>1. CASE UNCHANGED left  BY <1>0, <1>2, <2>1, StillNames DEF Begin
  <2>2. CASE /\ left' = {} \/ left' = {r \in 1..Len(archive.tree) : archive.tree[r].size > 0}
             /\ emitted = << >>
    <3>1. left' \subseteq Nat \ {0}  BY <2>2, ArchivesAssumption DEF NamesInv, WalkTypes
    <3> QED BY <1>2, <2>2, <3>1 DEF Begin, NamesInv, WalkTypes, Given, NamedOnce
  <2> QED BY <1>2, <2>1, <2>2 DEF Begin, Fresh
<1>3. CASE IndexDone  BY <1>0, <1>3, StillNames DEF IndexDone, Finish
<1>4. CASE ExtractDone  BY <1>4, EmitNames DEF ExtractDone
<1>5. CASE Serve  BY <1>0, <1>5, StillNames DEF Serve
<1>6. ASSUME NEW i \in Records, IndexChunk(i) PROVE NamesInv'
  <2>1. Chunk(i) \in ChunkType  BY DEF Chunk, ChunkType, Records
  <2> QED BY <1>0, <1>6, <2>1, StillNames DEF IndexChunk, Indexing, Collect
<1>7. ASSUME NEW i \in Records, IndexEnd(i) PROVE NamesInv'
  BY <1>7, EmitNames DEF IndexEnd, Indexing
<1>8. ASSUME NEW i \in Records, IndexStop(i) \/ IndexRaise(i) \/ IndexSearch(i) PROVE NamesInv'
  BY <1>0, <1>8, StillNames DEF IndexStop, IndexRaise, IndexSearch, Indexing, Finish, Raise, Pass
<1>9. ASSUME NEW i \in Records, ExtractChunk(i) PROVE NamesInv'
  <2>1. Chunk(i) \in ChunkType /\ Raw(i) \in ChunkType  BY DEF Chunk, Raw, ChunkType, Records
  <2> QED BY <1>0, <1>9, <2>1, StillNames DEF ExtractChunk, Extracting, Collect
<1>10. ASSUME NEW i \in Records, ExtractEnd(i) PROVE NamesInv'
  BY <1>10, EmitNames DEF ExtractEnd, Extracting
<1>11. ASSUME NEW i \in Records, ExtractBatch(i) PROVE NamesInv'
  <2>1. Stream[i].batch \in Seq(Nat)
    <3>1. Stream \in Seq(RecordType)
      BY ArchivesAssumption DEF NamesInv, WalkTypes, Stream
    <3>2. Stream[i] \in RecordType  BY <3>1 DEF Records
    <3> QED BY <3>2 DEF RecordType
  <2>2. PICK k \in 0..Len(Stream[i].batch) : ApplyBatch(SubSeq(Stream[i].batch, 1, k))
    BY <1>11 DEF ExtractBatch
  <2>3. SubSeq(Stream[i].batch, 1, k) \in Seq(Nat)  BY <2>1
  <2> QED BY <1>11, <2>2, <2>3, BatchNames DEF ExtractBatch, Extracting
<1>12. ASSUME NEW i \in Records, ExtractSkip(i) PROVE NamesInv'
  BY <1>0, <1>12, StillNames DEF ExtractSkip, Extracting, Pass
<1> QED BY <1>1, <1>2, <1>3, <1>4, <1>5, <1>6, <1>7, <1>8, <1>9, <1>10, <1>11, <1>12 DEF Next

(* Whatever is damaged, and whether or not sizes collide, no name of the     *)
(* tree is given to two contents (by_size in build_index,                    *)
(* file_records_by_size in extract_files).                                   *)
THEOREM NamedOnceForAll == Spec => []NamedOnce
<1>1. Init => Fresh  BY DEF Init, Fresh
<1>2. NamesInv => NamedOnce  BY DEF NamesInv
<1> QED BY InitNames, NextNames, NextFresh, <1>1, <1>2, PTL DEF Spec

-----------------------------------------------------------------------------
(* Streams *)

IsChunk(s, y, i) == s[i].tag = "m" /\ s[i].file = y

LEMMA OwnIs ==
    ASSUME NEW s \in Seq(RecordType), NEW y
    PROVE  /\ OwnTo(s, y, 0) = << >>
           /\ \A n \in 0..Len(s) : OwnTo(s, y, n) \in Seq(ChunkType)
           /\ \A n \in 0..(Len(s) - 1) :
                 OwnTo(s, y, n + 1) = IF IsChunk(s, y, n + 1) THEN OwnTo(s, y, n) \o <<Chunk(n + 1)>>
                                                              ELSE OwnTo(s, y, n)
           /\ \A a \in 0..Len(s) : \A b \in a..Len(s) :
                 (\A i \in (a + 1)..b : ~ IsChunk(s, y, i)) => OwnTo(s, y, b) = OwnTo(s, y, a)
<1> DEFINE N == Len(s)
           p == [i \in 1..N |-> IF IsChunk(s, y, i) THEN <<Chunk(i)>> ELSE << >>]
<1>0. N \in Nat  BY LenProperties
<1>1. \A i \in 1..N : Chunk(i) \in ChunkType  BY <1>0 DEF Chunk, ChunkType
<1>2. p \in [1..N -> Seq(ChunkType)]  BY <1>1
<1>3. \A i \in 1..N : p[i] = IF IsChunk(s, y, i) THEN <<Chunk(i)>> ELSE << >>  OBVIOUS
<1>4. \A n \in 0..N : OwnTo(s, y, n) = FlatTo(p, n)
  <2> SUFFICES ASSUME NEW n \in 0..N PROVE OwnTo(s, y, n) = FlatTo(p, n)  OBVIOUS
  <2> DEFINE u == [i \in 1..n |-> IF s[i].tag = "m" /\ s[i].file = y THEN <<Chunk(i)>> ELSE << >>]
             v == [i \in 1..n |-> p[i]]
  <2>1. \A i \in 1..n : i \in 1..N  BY <1>0
  <2>2. u = v
    <3>1. \A i \in 1..n : p[i] = IF s[i].tag = "m" /\ s[i].file = y THEN <<Chunk(i)>> ELSE << >>
      BY <1>3, <2>1 DEF IsChunk
    <3> HIDE DEF p
    <3> QED BY <3>1
  <2>3. OwnTo(s, y, n) = FlattenSeq(u) /\ FlatTo(p, n) = FlattenSeq(v)
    <3> HIDE DEF p
    <3> QED BY DEF OwnTo, FlatTo
  <2> HIDE DEF u, v
  <2> QED BY <2>2, <2>3
<1> HIDE DEF p, N
<1>5. OwnTo(s, y, 0) = << >>
  <2>1. 0 \in 0..N  BY <1>0
  <2> QED BY <1>0, <1>2, <1>4, <2>1, FlatToIs
<1>6. \A n \in 0..N : OwnTo(s, y, n) \in Seq(ChunkType)  BY <1>0, <1>2, <1>4, FlatToIs
<1>7. ASSUME NEW n \in 0..(N - 1)
      PROVE  OwnTo(s, y, n + 1) = IF IsChunk(s, y, n + 1) THEN OwnTo(s, y, n) \o <<Chunk(n + 1)>>
                                                          ELSE OwnTo(s, y, n)
  <2>1. n \in 0..N /\ n + 1 \in 0..N /\ n + 1 \in 1..N  BY <1>0
  <2>2. OwnTo(s, y, n + 1) = OwnTo(s, y, n) \o p[n + 1] /\ OwnTo(s, y, n) \in Seq(ChunkType)
    BY <1>0, <1>2, <1>4, <1>6, <2>1, FlatToIs
  <2>3. p[n + 1] = IF IsChunk(s, y, n + 1) THEN <<Chunk(n + 1)>> ELSE << >>  BY <1>3, <2>1
  <2>4. OwnTo(s, y, n) \o << >> = OwnTo(s, y, n)  BY <2>2
  <2> QED BY <2>2, <2>3, <2>4
<1>8. ASSUME NEW a \in 0..N, NEW b \in a..N, \A i \in (a + 1)..b : ~ IsChunk(s, y, i)
      PROVE  OwnTo(s, y, b) = OwnTo(s, y, a)
  <2>1. b \in 0..N /\ \A i \in (a + 1)..b : i \in 1..N  BY <1>0
  <2>2. \A i \in (a + 1)..b : p[i] = << >>  BY <1>3, <1>8, <2>1
  <2>3. FlatTo(p, b) = FlatTo(p, a)  BY <1>0, <1>2, <2>2, FlatToSame
  <2> QED BY <1>4, <2>1, <2>3
<1> QED BY <1>5, <1>6, <1>7, <1>8 DEF N

(* The first chunk in front is the first of them. *)
LEMMA OwnFirst ==
    ASSUME NEW s \in Seq(RecordType), NEW y, NEW n \in 0..Len(s)
    PROVE  \/ OwnTo(s, y, n) = << >> /\ \A i \in 1..n : ~ IsChunk(s, y, i)
           \/ \E i \in 1..n : /\ OwnTo(s, y, n) # << >> /\ OwnTo(s, y, n)[1] = Chunk(i)
                              /\ IsChunk(s, y, i) /\ \A k \in 1..(i - 1) : ~ IsChunk(s, y, k)
<1> DEFINE N == Len(s)
           Empty(m) == OwnTo(s, y, m) = << >> /\ \A i \in 1..m : ~ IsChunk(s, y, i)
           First(m) == \E i \in 1..m : /\ OwnTo(s, y, m) # << >> /\ OwnTo(s, y, m)[1] = Chunk(i)
                                       /\ IsChunk(s, y, i) /\ \A k \in 1..(i - 1) : ~ IsChunk(s, y, k)
           T == {m \in 0..N : Empty(m) \/ First(m)}
<1>0. N \in Nat  BY LenProperties
<1>1. 0 \in T  BY <1>0, OwnIs
<1>2. ASSUME NEW m \in 0..(N - 1), m \in T PROVE m + 1 \in T
  <2>1. m + 1 \in 0..N /\ m + 1 \in 1..N /\ m \in 0..N /\ m \in Nat  BY <1>0
  <2> DEFINE x == OwnTo(s, y, m)  z == OwnTo(s, y, m + 1)
  <2>2. /\ x \in Seq(ChunkType)
        /\ z = IF IsChunk(s, y, m + 1) THEN x \o <<Chunk(m + 1)>> ELSE x
    BY <2>1, OwnIs
  <2>3. \A i \in 1..(m + 1) : i \in 1..m \/ i = m + 1  BY <2>1
  <2>4. \A i \in 1..m : i \in 1..(m + 1)  BY <2>1
  <2>5. Empty(m) \/ First(m)  BY <1>2
  <2>6. CASE ~ IsChunk(s, y, m + 1)
    <3>1. z = x  BY <2>2, <2>6
    <3>2. CASE Empty(m)
      <4>1. Empty(m + 1)  BY <2>3, <2>6, <3>1, <3>2
      <4> QED BY <2>1, <4>1
    <3>3. CASE First(m)
      <4>1. First(m + 1)  BY <2>4, <3>1, <3>3
      <4> QED BY <2>1, <4>1
    <3> QED BY <2>5, <3>2, <3>3
  <2>7. CASE IsChunk(s, y, m + 1)
    <3>1. z = x \o <<Chunk(m + 1)>> /\ Chunk(m + 1) \in ChunkType
      <4>1. Chunk(m + 1) \in ChunkType  BY <2>1 DEF Chunk, ChunkType
      <4> HIDE DEF x, z
      <4> QED BY <2>2, <2>7, <4>1
    <3>2. CASE Empty(m)
      <4>1. z = <<Chunk(m + 1)>>  BY <3>1, <3>2
      <4>2. z # << >> /\ z[1] = Chunk(m + 1)
        <5> HIDE DEF z
        <5> QED BY <4>1
      <4>3. m + 1 \in 1..(m + 1) /\ (m + 1) - 1 = m  BY <2>1
      <4>4. First(m + 1)  BY <2>7, <3>2, <4>2, <4>3
      <4> QED BY <2>1, <4>4
    <3>3. CASE First(m)
      <4>1. PICK i \in 1..m : /\ x # << >> /\ x[1] = Chunk(i)
                              /\ IsChunk(s, y, i) /\ \A k \in 1..(i - 1) : ~ IsChunk(s, y, k)
        BY <3>3
      <4>2. z # << >> /\ z[1] = x[1]
        <5> HIDE DEF x, z
        <5> DEFINE c == Chunk(m + 1)
        <5>1. c \in ChunkType /\ z = x \o <<c>> /\ x \in Seq(ChunkType) /\ x # << >>
          BY <2>2, <3>1, <4>1
        <5> HIDE DEF c
        <5> QED BY <5>1
      <4>3. First(m + 1)
        <5> HIDE DEF x, z
        <5>1. z # << >> /\ z[1] = Chunk(i)  BY <4>1, <4>2
        <5> QED BY <2>4, <4>1, <5>1 DEF z
      <4> QED BY <2>1, <4>3
    <3> QED BY <2>5, <3>2, <3>3
  <2> QED BY <2>6, <2>7
<1>3. 0..N \subseteq T
  <2> HIDE DEF T, N
  <2> QED BY <1>0, <1>1, <1>2, AllUpTo
<1>4. Empty(n) \/ First(n)
  <2>1. n \in T  BY <1>3
  <2> QED BY <2>1
<1> QED BY <1>4

(* The next end behind a chunk is that of its file. *)
LEMMA EndOfChunk ==
    ASSUME NEW a \in Archives, NEW s, s = a.stream, NEW i \in 1..Len(s), s[i].tag = "m"
    PROVE  \E j \in Ends(s) : /\ i < j /\ s[j].file = s[i].file
                              /\ \A k \in i..(j - 1) : s[k].tag # "n"
<1>1. s \in Seq(RecordType) /\ Len(s) \in Nat  BY ArchivesAssumption, LenProperties
<1>2. PICK j \in (i + 1)..Len(s) : /\ s[j].tag = "n" /\ s[j].file = s[i].file
                                   /\ \A k \in i..(j - 1) : s[k].tag # "n"
  BY LayoutAssumption
<1>3. OwnTo(s, s[j].file, Len(s)) # << >>
  <2>1. IsChunk(s, s[j].file, i)  BY <1>2 DEF IsChunk
  <2>2. Len(s) \in 0..Len(s)  BY <1>1
  <2> QED BY <1>1, <2>1, <2>2, OwnFirst
<1>4. j \in 1..Len(s) /\ i < j  BY <1>1
<1>5. j \in Ends(s)  BY <1>2, <1>3, <1>4 DEF Ends
<1> QED BY <1>2, <1>4, <1>5

(* All chunks of a file stand before its end, without another end between. *)
LEMMA ChunksOfEnd ==
    ASSUME NEW a \in Archives, NEW s, s = a.stream, NEW j \in Ends(s)
    PROVE  /\ j \in 1..Len(s) /\ s[j].tag = "n"
           /\ \A i \in 1..Len(s) : IsChunk(s, s[j].file, i) =>
                 i < j /\ \A k \in i..(j - 1) : s[k].tag # "n"
           /\ OwnTo(s, s[j].file, Len(s)) = OwnTo(s, s[j].file, j - 1)
           /\ \E i \in 1..(j - 1) : /\ IsChunk(s, s[j].file, i)
                                    /\ OwnTo(s, s[j].file, Len(s))[1] = Chunk(i)
<1> DEFINE y == s[j].file
<1>1. s \in Seq(RecordType) /\ Len(s) \in Nat  BY ArchivesAssumption, LenProperties
<1>2. j \in 1..Len(s) /\ s[j].tag = "n" /\ OwnTo(s, y, Len(s)) # << >>  BY DEF Ends
<1>3. ASSUME NEW i \in 1..Len(s), IsChunk(s, y, i)
      PROVE  i < j /\ \A k \in i..(j - 1) : s[k].tag # "n"
  <2>1. PICK h \in Ends(s) : /\ i < h /\ s[h].file = s[i].file
                             /\ \A k \in i..(h - 1) : s[k].tag # "n"
    BY <1>3, EndOfChunk DEF IsChunk
  <2>2. h \in 1..Len(s) /\ s[h].tag = "n"  BY <2>1 DEF Ends
  <2>3. h = j  BY <1>2, <1>3, <2>1, <2>2, LayoutAssumption DEF IsChunk
  <2> QED BY <2>1, <2>3
<1>4. OwnTo(s, y, Len(s)) = OwnTo(s, y, j - 1)
  <2>1. j - 1 \in 0..Len(s) /\ Len(s) \in (j - 1)..Len(s)  BY <1>1, <1>2
  <2>2. \A i \in ((j - 1) + 1)..Len(s) : i \in 1..Len(s) /\ ~ (i < j)  BY <1>1, <1>2
  <2>3. \A i \in ((j - 1) + 1)..Len(s) : ~ IsChunk(s, y, i)  BY <1>3, <2>2
  <2> QED BY <1>1, <2>1, <2>3, OwnIs
<1>5. \E i \in 1..(j - 1) : IsChunk(s, y, i) /\ OwnTo(s, y, Len(s))[1] = Chunk(i)
  <2>1. Len(s) \in 0..Len(s)  BY <1>1
  <2>2. PICK i \in 1..Len(s) : IsChunk(s, y, i) /\ OwnTo(s, y, Len(s))[1] = Chunk(i)
    BY <1>1, <1>2, <2>1, OwnFirst
  <2>3. i \in 1..(j - 1)  BY <1>1, <1>2, <1>3, <2>2
  <2> QED BY <2>2, <2>3
<1> QED BY <1>2, <1>3, <1>4, <1>5

(* What stands before an end, with no content ended between, is of its file. *)
LEMMA ChunkOfNextEnd ==
    ASSUME NEW a \in Archives, NEW s, s = a.stream, NEW j \in Ends(s), NEW i \in 1..(j - 1),
           s[i].tag = "m", \A k \in Ends(s) : ~ (i < k /\ k < j)
    PROVE  s[i].file = s[j].file
<1>1. s \in Seq(RecordType) /\ Len(s) \in Nat  BY ArchivesAssumption, LenProperties
<1>2. j \in 1..Len(s) /\ s[j].tag = "n"  BY DEF Ends
<1>3. PICK h \in Ends(s) : /\ i < h /\ s[h].file = s[i].file
                           /\ \A k \in i..(h - 1) : s[k].tag # "n"
  BY <1>1, <1>2, EndOfChunk
<1>4. h \in 1..Len(s)  BY DEF Ends
<1>5. ~ (j < h)
  <2>1. j < h => j \in i..(h - 1)  BY <1>1, <1>2, <1>4
  <2> QED BY <1>2, <1>3, <2>1
<1>6. h = j  BY <1>1, <1>2, <1>3, <1>4, <1>5
<1> QED BY <1>3, <1>6

-----------------------------------------------------------------------------
(* Damage *)

DamageTyped == \A i \in Records : damage[i] = "none" \/ damage[i] \in Kinds[Tag(i)]

LEMMA TagIs ==
    ASSUME archive \in Archives, NEW i \in Records
    PROVE  Tag(i) \in {"m", "n", "f"} /\ Len(Stream) \in Nat /\ i \in Nat /\ 0 < i /\ i <= Len(Stream)
<1>1. Stream \in Seq(RecordType)  BY ArchivesAssumption DEF Stream
<1>2. Len(Stream) \in Nat  BY <1>1, LenProperties
<1>3. Stream[i] \in RecordType  BY <1>1, ElementOfSeq DEF Records
<1> QED BY <1>2, <1>3 DEF Tag, RecordType, Records

LEMMA WholeIs ==
    ASSUME archive \in Archives, DamageTyped, NEW i \in Records, Whole(i)
    PROVE  /\ TypeByte(i) = Tag(i)
           /\ Tag(i) \in {"m", "n"} => Sound(i) /\ damage[i] = "none"
           /\ Tag(i) = "f" => ~ Signed(i) /\ ~ Sound(i) /\ (call.walk = "index" => ~ Inside(i))
<1>1. damage[i] = "none" \/ damage[i] = "cut"  BY DEF Whole
<1>2. TypeByte(i) = Tag(i)  BY <1>1 DEF TypeByte
<1>3. ASSUME Tag(i) \in {"m", "n"} PROVE damage[i] = "none"
  BY <1>1, <1>3 DEF DamageTyped, Kinds
<1> QED BY <1>2, <1>3 DEF Sound, Signed, Whole

(* What neither walk searches past, and a step from p to q that searches. *)
Firm(k)     == k \in Records /\ Sound(k) /\ (Tag(k) = "m" \/ call.walk = "extract")
Jumps(p, q) == p < q /\ \A k \in (p + 1)..(q - 1) : ~ Firm(k)

LEMMA Searches ==
    ASSUME archive \in Archives, NEW i \in Records
    PROVE  /\ call.walk = "index" /\ NextChunk(i) # 0 => NextChunk(i) \in Nat /\ Jumps(i, NextChunk(i))
           /\ call.walk = "extract" /\ NextRecord(i) # 0 => NextRecord(i) \in Nat /\ Jumps(i, NextRecord(i))
<1>1. i \in Nat /\ Near(i) \subseteq Nat /\ \A k \in Near(i) : i < k
      /\ \A g \in Near(i) : \A h \in (i + 1)..g : h \in Near(i)
  BY TagIs, ArchivesAssumption DEF Near
<1>2. ASSUME call.walk = "index", NextChunk(i) # 0
      PROVE  NextChunk(i) \in Nat /\ Jumps(i, NextChunk(i))
  <2> DEFINE S == {j \in Near(i) \cap Records : Tag(j) = "m" /\ Sound(j)}
  <2>1. NextChunk(i) = Smallest(S)  BY DEF NextChunk
  <2>2. S # {} /\ S \subseteq Nat  BY <1>1, <1>2, <2>1 DEF Smallest
  <2>3. NextChunk(i) \in S /\ \A x \in S : NextChunk(i) <= x  BY <2>1, <2>2, SmallestOfNat
  <2>4. ASSUME NEW k \in (i + 1)..(NextChunk(i) - 1), Firm(k) PROVE FALSE
    <3>1. k \in S  BY <1>1, <1>2, <2>3, <2>4 DEF Firm
    <3> QED BY <1>1, <2>3, <3>1
  <2> QED BY <1>1, <2>3, <2>4 DEF Jumps
<1>3. ASSUME call.walk = "extract", NextRecord(i) # 0
      PROVE  NextRecord(i) \in Nat /\ Jumps(i, NextRecord(i))
  <2> DEFINE S == Near(i) \cap Starts
  <2>1. NextRecord(i) = Smallest(S)  BY DEF NextRecord
  <2>2. S # {} /\ S \subseteq Nat  BY <1>1, <1>3, <2>1 DEF Smallest
  <2>3. NextRecord(i) \in S /\ \A x \in S : NextRecord(i) <= x  BY <2>1, <2>2, SmallestOfNat
  <2>4. ASSUME NEW k \in (i + 1)..(NextRecord(i) - 1), Firm(k) PROVE FALSE
    <3>1. k \in S  BY <1>1, <1>3, <2>3, <2>4 DEF Firm, Starts, Sound
    <3> QED BY <1>1, <2>3, <3>1
  <2> QED BY <1>1, <2>3, <2>4 DEF Jumps
<1> QED BY <1>2, <1>3

-----------------------------------------------------------------------------
(* The content that ends before the one that ends at j. *)
Prev(j) == LET before == {i \in Ends(Stream) : i < j} IN IF before = {} THEN 0 ELSE Max(before)

LEMMA FromIs ==
    ASSUME archive \in Archives, NEW j \in Ends(Stream)
    PROVE  /\ j \in Records /\ Tag(j) = "n" /\ Prev(j) \in 0..(j - 1) /\ From(j) \in 1..j
           /\ \A k \in Ends(Stream) : ~ (Prev(j) < k /\ k < j)
           /\ Prev(j) = 0 => From(j) = 1
           /\ Prev(j) # 0 => /\ Prev(j) \in Ends(Stream) /\ Tag(Prev(j)) = "n"
                             /\ From(j) < Prev(j) /\ Tag(From(j)) = "m"
                             /\ \A k \in From(j)..(Prev(j) - 1) : Tag(k) # "n"
<1> DEFINE B == {i \in Ends(Stream) : i < j}
<1>1. Stream \in Seq(RecordType) /\ Len(Stream) \in Nat  BY ArchivesAssumption, LenProperties DEF Stream
<1>2. Ends(Stream) \subseteq 1..Len(Stream) /\ \A k \in Ends(Stream) : Tag(k) = "n"  BY DEF Ends, Tag
<1>3. CASE B = {}
  <2>1. Prev(j) = 0 /\ From(j) = 1  BY <1>3 DEF Prev, From
  <2> QED BY <1>1, <1>2, <1>3, <2>1 DEF Records
<1>4. CASE B # {}
  <2>1. B \subseteq 1..Len(Stream)  BY <1>2
  <2>2. PICK m \in B : \A x \in B : x <= m  BY <1>1, <1>4, <2>1, GreatestUpTo
  <2> DEFINE q == Max(B)
  <2>3. q \in B /\ \A x \in B : x <= q
    <3>1. \A x \in B : m >= x  BY <1>1, <2>1, <2>2
    <3>2. q \in B /\ \A x \in B : q >= x  BY <2>2, <3>1 DEF Max
    <3> QED BY <1>1, <2>1, <3>2
  <2>4. Prev(j) = q /\ From(j) = Own(Stream[q].file)[1].at  BY <1>4 DEF Prev, From
  <2> HIDE DEF q
  <2>5. PICK i \in 1..(q - 1) : /\ IsChunk(Stream, Stream[q].file, i)
                                /\ OwnTo(Stream, Stream[q].file, Len(Stream))[1] = Chunk(i)
    BY <2>3, ChunksOfEnd DEF Stream
  <2>6. From(j) = i  BY <2>4, <2>5 DEF Own, Chunk
  <2>7. i \in 1..Len(Stream) /\ \A k \in i..(q - 1) : Tag(k) # "n"
    <3>1. i \in 1..Len(Stream)  BY <1>1, <2>1, <2>3
    <3> QED BY <2>3, <2>5, <3>1, ChunksOfEnd DEF Stream, Tag
  <2> QED BY <1>1, <1>2, <2>3, <2>4, <2>5, <2>6, <2>7 DEF Records, Tag, IsChunk
<1> QED BY <1>3, <1>4

(* Where a walk stands in the part that must be whole: in the file before, it*)
(* has something to emit at the end of that; in the file itself, it has what *)
(* the file has so far.                                                      *)
Clear(j, ph, p, c, em) ==
    /\ ph = "walk" /\ From(j) < p /\ p <= Prev(j) => c # << >>
    /\ ph = "walk" /\ Prev(j) < p /\ p <= j => c = OwnTo(Stream, Stream[j].file, p - 1)
    /\ p > j => \E e \in 1..Len(em) : em[e].chunks = Own(Stream[j].file)

Grows(old, new) == /\ Len(old) \in Nat /\ Len(new) \in Nat /\ Len(old) <= Len(new)
                   /\ \A e \in 1..Len(old) : new[e].chunks = old[e].chunks

LEMMA ContentIs ==
    ASSUME archive \in Archives, NEW j \in Ends(Stream), NEW s, s = Stream, NEW y, y = s[j].file
    PROVE  /\ s \in Seq(RecordType) /\ Len(s) \in Nat /\ j \in 1..Len(s)
           /\ \A i \in 1..Len(s) : IsChunk(s, y, i) => i < j /\ \A k \in i..(j - 1) : Tag(k) # "n"
           /\ \E i \in 1..(j - 1) : IsChunk(s, y, i)
           /\ OwnTo(s, y, j - 1) = Own(y) /\ Own(y) # << >>
           /\ OwnTo(s, y, 0) = << >>
           /\ \A n \in 0..(Len(s) - 1) :
                 IsChunk(s, y, n + 1) => OwnTo(s, y, n + 1) = OwnTo(s, y, n) \o <<Chunk(n + 1)>>
           /\ \A a \in 0..Len(s) : \A b \in a..Len(s) :
                 (\A i \in (a + 1)..b : ~ IsChunk(s, y, i)) => OwnTo(s, y, b) = OwnTo(s, y, a)
<1>1. s \in Seq(RecordType) /\ Len(s) \in Nat  BY ArchivesAssumption, LenProperties DEF Stream
<1>2. /\ j \in 1..Len(s)
      /\ \A i \in 1..Len(s) : IsChunk(s, y, i) => i < j /\ \A k \in i..(j - 1) : s[k].tag # "n"
      /\ OwnTo(s, y, Len(s)) = OwnTo(s, y, j - 1)
      /\ \E i \in 1..(j - 1) : IsChunk(s, y, i)
  BY ChunksOfEnd DEF Stream
<1>3. OwnTo(s, y, j - 1) = Own(y) /\ Own(y) # << >>  BY <1>2 DEF Own, Ends
<1>4. OwnTo(s, y, 0) = << >>  BY <1>1, OwnIs
<1>5. \A n \in 0..(Len(s) - 1) :
         IsChunk(s, y, n + 1) => OwnTo(s, y, n + 1) = OwnTo(s, y, n) \o <<Chunk(n + 1)>>
  BY <1>1, OwnIs
<1>6. \A a \in 0..Len(s) : \A b \in a..Len(s) :
         (\A i \in (a + 1)..b : ~ IsChunk(s, y, i)) => OwnTo(s, y, b) = OwnTo(s, y, a)
  <2> SUFFICES ASSUME NEW a \in 0..Len(s), NEW b \in a..Len(s), \A i \in (a + 1)..b : ~ IsChunk(s, y, i)
               PROVE  OwnTo(s, y, b) = OwnTo(s, y, a)
    OBVIOUS
  <2> QED BY <1>1, OwnIs
<1> QED BY <1>1, <1>2, <1>3, <1>4, <1>5, <1>6 DEF Tag

LEMMA ClearPass ==
    ASSUME archive \in Archives, DamageTyped, call.walk \in {"index", "extract"}, NEW j \in Ends(Stream),
           \A i \in From(j)..j : Whole(i),
           NEW ph, NEW p \in Nat \ {0}, NEW c \in Seq(ChunkType), NEW em,
           Clear(j, "walk", p, c, em),
           NEW p2 \in Nat, NEW c2, NEW em2, Grows(em, em2), Jumps(p, p2),
           p \in Records /\ Tag(p) = "m" /\ Whole(p) => p2 = p + 1 /\ c2 = Append(c, Chunk(p)),
           p \in Records /\ Tag(p) = "n" /\ Whole(p) =>
              /\ p2 = p + 1 /\ c2 = << >>
              /\ c # << >> => \E e \in 1..Len(em2) : em2[e].chunks = c,
           p \in Records /\ Tag(p) = "f" /\ Whole(p) => c2 = c
    PROVE  Clear(j, ph, p2, c2, em2)
<1> DEFINE s == Stream
           y == Stream[j].file
           f == From(j)
           q == Prev(j)
<1>1. s \in Seq(RecordType) /\ Len(s) \in Nat /\ s = archive.stream  BY ArchivesAssumption, LenProperties DEF Stream
<1>2. /\ j \in Nat /\ q \in Nat /\ f \in Nat /\ 0 < f /\ f <= j /\ q < j /\ j <= Len(s)
      /\ Tag(j) = "n" /\ (q = 0 => f = 1)
      /\ \A k \in Ends(s) : ~ (q < k /\ k < j)
      /\ q # 0 => q \in Ends(s) /\ Tag(q) = "n" /\ f < q /\ Tag(f) = "m" /\ \A k \in f..(q - 1) : Tag(k) # "n"
  BY <1>1, FromIs DEF Records
<1>3. \A k \in f..j : k \in Records /\ Whole(k)  BY <1>1, <1>2 DEF Records
<1>4. \A k \in f..j : Tag(k) = "m" => Firm(k)  BY <1>3, WholeIs DEF Firm
<1>5. \A k \in f..j : Tag(k) = "n" /\ call.walk = "extract" => Firm(k)  BY <1>3, WholeIs DEF Firm
<1>6. p < p2 /\ \A k \in Nat : p < k /\ k < p2 => ~ Firm(k)  BY DEF Jumps
<1>7. \A i \in 1..Len(s) : IsChunk(s, y, i) => i < j /\ \A k \in i..(j - 1) : Tag(k) # "n"
  BY ContentIs
<1>8. OwnTo(s, y, j - 1) = Own(y) /\ Own(y) # << >>
  BY ContentIs
<1>12. /\ OwnTo(s, y, 0) = << >>
       /\ \A n \in 0..(Len(s) - 1) : IsChunk(s, y, n + 1) => OwnTo(s, y, n + 1) = OwnTo(s, y, n) \o <<Chunk(n + 1)>>
       /\ \A a \in 0..Len(s) : \A b \in a..Len(s) :
             (\A i \in (a + 1)..b : ~ IsChunk(s, y, i)) => OwnTo(s, y, b) = OwnTo(s, y, a)
  BY ContentIs
<1> HIDE DEF s, y, f, q
<1>9. CASE p < f
  <2>1. q # 0  BY <1>2, <1>9
  <2>2. f \in f..j  BY <1>2
  <2>3. ~ (f < p2)  BY <1>2, <1>4, <1>6, <1>9, <2>1, <2>2
  <2> QED BY <1>2, <2>1, <2>3 DEF Clear, f, q
<1>10. CASE j < p
  <2>1. PICK e \in 1..Len(em) : em[e].chunks = Own(y)  BY <1>2, <1>10 DEF Clear, y
  <2>2. e \in 1..Len(em2) /\ em2[e].chunks = Own(y)  BY <2>1 DEF Grows
  <2> QED BY <1>2, <1>6, <1>10, <2>2 DEF Clear, y, q
<1>11. CASE f <= p /\ p <= j
  <2>1. p \in Records /\ Whole(p) /\ Tag(p) \in {"m", "n", "f"} /\ p \in f..j
    BY <1>2, <1>3, <1>11, TagIs
  <2>2. CASE Tag(p) = "m"
    <3>1. p2 = p + 1 /\ c2 = Append(c, Chunk(p)) /\ p < j /\ p # q  BY <1>2, <1>11, <2>1, <2>2
    <3>2. CASE p < q
      <4>1. c2 # << >>  BY <3>1
      <4> QED BY <1>2, <3>1, <3>2, <4>1 DEF Clear, q, f
    <3>3. CASE q < p
      <4>1. c = OwnTo(s, y, p - 1)  BY <1>2, <3>1, <3>3 DEF Clear, s, y, q
      <4>2. p \in 1..(j - 1) /\ s[p].tag = "m" /\ \A k \in Ends(s) : ~ (p < k /\ k < j)
        <5>1. Ends(s) \subseteq Nat  BY <1>1 DEF Ends
        <5> QED BY <1>2, <2>2, <3>1, <3>3, <5>1 DEF Tag, s
      <4>3. s[p].file = y  BY <1>1, <4>2, ChunkOfNextEnd DEF s, y
      <4>4. p - 1 \in 0..(Len(s) - 1) /\ (p - 1) + 1 = p  BY <1>2, <3>1
      <4>5. OwnTo(s, y, p) = c \o <<Chunk(p)>>
        <5>1. IsChunk(s, y, p)  BY <4>2, <4>3 DEF IsChunk
        <5> QED BY <1>12, <4>1, <4>4, <5>1
      <4>6. c2 = OwnTo(s, y, p)  BY <3>1, <4>5
      <4>7. p2 - 1 = p /\ p2 <= j /\ q < p2  BY <1>2, <3>1, <3>3
      <4> QED BY <1>2, <4>6, <4>7 DEF Clear, s, y, q
    <3> QED BY <1>2, <3>1, <3>2, <3>3
  <2>3. CASE Tag(p) = "n"
    <3>1. p2 = p + 1 /\ c2 = << >> /\ (c # << >> => \E e \in 1..Len(em2) : em2[e].chunks = c)
      BY <2>1, <2>3
    <3>2. CASE p = j
      <4>1. c = Own(y)  BY <1>2, <1>8, <3>2 DEF Clear, s, y, q
      <4> QED BY <1>2, <1>8, <3>1, <3>2, <4>1 DEF Clear, s, y, q
    <3>3. CASE p < j
      <4>1. ~ (p < q)  BY <1>2, <1>11, <2>3
      <4>2. \A i \in (0 + 1)..p : ~ IsChunk(s, y, i)
        <5> SUFFICES ASSUME NEW i \in 1..p, IsChunk(s, y, i) PROVE FALSE  OBVIOUS
        <5>1. i \in 1..Len(s) /\ p \in i..(j - 1)  BY <1>2, <3>3
        <5> QED BY <1>7, <2>3, <5>1
      <4>3. OwnTo(s, y, p) = << >>
        <5>1. 0 \in 0..Len(s) /\ p \in 0..Len(s)  BY <1>1, <1>2, <3>3
        <5>2. p \in 0..Len(s)  BY <5>1
        <5> QED BY <1>12, <4>2, <5>1, <5>2
      <4>4. p2 - 1 = p /\ p2 <= j /\ q < p2  BY <1>2, <3>1, <3>3, <4>1
      <4> QED BY <1>2, <3>1, <4>3, <4>4 DEF Clear, s, y, q
    <3> QED BY <1>2, <1>11, <3>2, <3>3
  <2>4. CASE Tag(p) = "f"
    <3>1. c2 = c  BY <2>1, <2>4
    <3>2. ASSUME NEW b \in Ends(s), b \in Nat, p < b, b <= j PROVE p2 <= b
      <4> SUFFICES ASSUME b < p2 PROVE FALSE  BY <3>2
      <4>1. b \in f..j /\ Tag(b) = "n"  BY <1>2, <1>11, <3>2 DEF Ends, Tag, s
      <4>2. call.walk = "index"
        <5>1. call.walk # "extract"  BY <1>5, <1>6, <3>2, <4>1
        <5> QED BY <5>1
      <4>3. PICK i \in 1..(b - 1) : IsChunk(s, s[b].file, i) /\ \A k \in i..(b - 1) : Tag(k) # "n"
        <5>1. PICK i \in 1..(b - 1) : IsChunk(s, s[b].file, i)  BY <1>1, ChunksOfEnd
        <5>2. i \in 1..Len(s)  BY <1>2, <3>2
        <5>3. \A k \in i..(b - 1) : s[k].tag # "n"  BY <1>1, <5>1, <5>2, ChunksOfEnd
        <5> QED BY <5>1, <5>3 DEF Tag, s
      <4>4. \A k \in Nat : p < k /\ k < b => Tag(k) # "m"
        <5> SUFFICES ASSUME NEW k \in Nat, p < k, k < b, Tag(k) = "m" PROVE FALSE  OBVIOUS
        <5>1. k \in f..j  BY <1>2, <1>11, <3>2
        <5> QED BY <1>4, <1>6, <3>2, <5>1
      <4>5. i < p  BY <2>4, <3>2, <4>3, <4>4 DEF IsChunk, Tag, s
      <4>6. CASE p + 1 = b
        <5>1. Inside(p)  BY <2>4, <4>6 DEF Inside, s
        <5> QED BY <2>1, <2>4, <4>2, <5>1, WholeIs
      <4>7. CASE p + 1 # b
        <5>1. p + 1 < b /\ p + 1 \in i..(b - 1) /\ p + 1 \in Records /\ p \in 1..(Len(s) - 1)
          BY <1>2, <1>11, <3>2, <4>5, <4>7 DEF Records, s
        <5>2. Tag(p + 1) = "f"  BY <4>3, <4>4, <5>1, TagIs
        <5> QED BY <1>1, <2>4, <5>1, <5>2, LayoutAssumption DEF Tag, s
      <4> QED BY <4>6, <4>7
    <3>3. CASE p < q
      <4>1. p2 <= q  BY <1>2, <3>2, <3>3
      <4>2. p # f  BY <1>2, <2>4, <3>3
      <4>3. c # << >>  BY <1>2, <1>11, <3>3, <4>2 DEF Clear, q, f
      <4> QED BY <1>2, <3>1, <4>1, <4>3 DEF Clear, q, f
    <3>4. CASE q < p
      <4>1. p < j /\ p2 <= j
        <5>1. p # j  BY <1>2, <2>4
        <5>2. p < j  BY <1>2, <1>11, <5>1
        <5> QED BY <1>2, <3>2, <5>2 DEF s
      <4>2. c = OwnTo(s, y, p - 1)  BY <1>2, <1>11, <3>4 DEF Clear, s, y, q
      <4>3. \A i \in ((p - 1) + 1)..(p2 - 1) : ~ IsChunk(s, y, i)
        <5> SUFFICES ASSUME NEW i \in ((p - 1) + 1)..(p2 - 1), IsChunk(s, y, i) PROVE FALSE  OBVIOUS
        <5>1. i \in f..j /\ i \in Nat /\ p <= i /\ i < p2  BY <1>2, <1>11, <4>1
        <5>2. Tag(i) = "m"  BY DEF IsChunk, Tag, s
        <5>3. i # p  BY <2>4, <5>2
        <5> QED BY <1>4, <1>6, <5>1, <5>2, <5>3
      <4>4. p - 1 \in 0..Len(s) /\ p2 - 1 \in (p - 1)..Len(s)  BY <1>2, <1>6, <4>1
      <4>5. OwnTo(s, y, p2 - 1) = OwnTo(s, y, p - 1)  BY <1>12, <4>3, <4>4
      <4> QED BY <1>2, <1>6, <3>1, <3>4, <4>1, <4>2, <4>5 DEF Clear, s, y, q
    <3>5. p # q  BY <1>2, <2>4, <2>1, TagIs
    <3> QED BY <1>2, <3>3, <3>4, <3>5
  <2> QED BY <2>1, <2>2, <2>3, <2>4
<1> QED BY <1>2, <1>9, <1>10, <1>11

Base ==
    /\ DamageTyped /\ call.walk \in {"index", "extract"} /\ pos \in Nat \ {0}
    /\ phase \in {"begin", "walk", "done", "raised", "serving"}
    /\ phase = "begin" => pos = 1 /\ cur = << >> /\ emitted = << >>

(* A step of a walk stands still, for good, or passes the record it is at.   *)
Stays == phase' \in {"done", "raised", "serving"} /\ pos' = pos /\ Grows(emitted, emitted')

Passes ==
    /\ phase = "walk" /\ phase' = "walk" /\ pos \in Records /\ pos' \in Nat /\ Jumps(pos, pos') /\ Grows(emitted, emitted')
    /\ Tag(pos) = "m" /\ Whole(pos) => pos' = pos + 1 /\ cur' = Append(cur, Chunk(pos))
    /\ Tag(pos) = "n" /\ Whole(pos) =>
          /\ pos' = pos + 1 /\ cur' = << >>
          /\ cur # << >> => \E e \in 1..Len(emitted') : emitted'[e].chunks = cur
    /\ Tag(pos) = "f" /\ Whole(pos) => cur' = cur

LEMMA GrowsSame == ASSUME WalkTypes, UNCHANGED emitted PROVE Grows(emitted, emitted')
<1>1. Len(emitted) \in Nat  BY LenProperties DEF WalkTypes
<1> QED BY <1>1 DEF Grows

LEMMA EmitPasses ==
    ASSUME WalkTypes, Base, phase = "walk", NEW next \in Nat, Emit(next),
           next # 0 => pos \in Records /\ Jumps(pos, next),
           next # 0 /\ Whole(pos) => Tag(pos) = "n" /\ next = pos + 1
    PROVE  Stays \/ Passes
<1>1. CASE phase' = "raised" /\ UNCHANGED <<pos, cur, left, emitted>>
  BY <1>1, GrowsSame DEF Stays
<1>2. CASE /\ Proceed(next) /\ cur' = << >>
           /\ emitted' = IF cur = << >> THEN emitted
                         ELSE Append(emitted, [chunks |-> cur, rec |-> Named, meta |-> 0])
  <2> DEFINE new == [chunks |-> cur, rec |-> Named, meta |-> 0]
  <2>0. emitted \in Seq(FileType) /\ Len(emitted) \in Nat  BY LenProperties DEF WalkTypes
  <2>1. Named \in Nat /\ cur \in Seq(ChunkType)
    <3>1. Named \in left \cup {0}  BY NamedType
    <3> QED BY <3>1 DEF WalkTypes
  <2>2. new \in FileType /\ new.chunks = cur
    <3> DEFINE r == Named  k == cur
    <3> HIDE DEF r, k
    <3>1. r \in Nat /\ k \in Seq(ChunkType)  BY <2>1 DEF r, k
    <3>2. [chunks |-> k, rec |-> r, meta |-> 0] \in FileType  BY <3>1 DEF FileType
    <3> QED BY <3>2 DEF r, k
  <2> HIDE DEF new
  <2>3. Grows(emitted, emitted') /\ (cur # << >> => \E e \in 1..Len(emitted') : emitted'[e].chunks = cur)
    <3>1. CASE cur = << >>  BY <1>2, <3>1, GrowsSame
    <3>2. CASE cur # << >>
      <4>1. emitted' = Append(emitted, new)  BY <1>2, <3>2 DEF new
      <4>2. /\ Len(emitted') = Len(emitted) + 1 /\ emitted'[Len(emitted) + 1] = new
            /\ \A e \in 1..Len(emitted) : emitted'[e] = emitted[e]
        BY <2>0, <2>2, <4>1
      <4>3. Grows(emitted, emitted')  BY <2>0, <4>2 DEF Grows
      <4>4. Len(emitted) + 1 \in 1..Len(emitted') /\ emitted'[Len(emitted) + 1].chunks = cur
        BY <2>0, <2>2, <4>2
      <4> QED BY <4>3, <4>4
    <3> QED BY <3>1, <3>2
  <2>4. CASE phase' = "done" /\ UNCHANGED pos  BY <2>3, <2>4 DEF Stays
  <2>5. CASE next # 0 /\ pos' = next /\ UNCHANGED phase
    BY <1>2, <2>3, <2>5 DEF Passes
  <2> QED BY <1>2, <2>4, <2>5 DEF Proceed
<1> QED BY <1>1, <1>2 DEF Emit, EmitAnd

LEMMA AfterIs ==
    ASSUME archive \in Archives, DamageTyped, call.walk = "extract", NEW i \in Records, After(i) # 0
    PROVE  After(i) \in Nat /\ Jumps(i, After(i)) /\ (Sound(i) => After(i) = i + 1)
<1>1. i \in Nat  BY TagIs
<1>2. CASE Sound(i)  BY <1>1, <1>2 DEF After, Jumps
<1>3. CASE ~ Sound(i)
  <2>1. After(i) = NextRecord(i)  BY <1>3 DEF After
  <2> QED BY <1>3, <2>1, Searches
<1> QED BY <1>2, <1>3

LEMMA StepPasses ==
    ASSUME WalkTypes, Base, Next, phase # "begin"
    PROVE  Stays \/ Passes
<1> USE DEF Fixed
<1>0. archive \in Archives /\ DamageTyped  BY DEF WalkTypes, Base
<1>1. CASE Begin  BY <1>1 DEF Begin
<1>2. CASE IndexDone \/ Serve  BY <1>2, GrowsSame DEF IndexDone, Finish, Serve, Stays
<1>3. CASE ExtractDone
  <2>1. Emit(0) /\ phase = "walk"  BY <1>3 DEF ExtractDone
  <2> QED BY <2>1, EmitPasses
<1>4. ASSUME NEW i \in Records, IndexStop(i) \/ IndexRaise(i) PROVE Stays \/ Passes
  BY <1>4, GrowsSame DEF IndexStop, IndexRaise, Indexing, Finish, Raise, Stays
<1>5. ASSUME NEW i \in Records, IndexChunk(i) PROVE Stays \/ Passes
  <2>1. /\ pos = i /\ i \in Nat /\ phase = "walk" /\ TypeByte(i) = "m"
        /\ pos' = i + 1 /\ cur' = Append(cur, Chunk(i)) /\ UNCHANGED <<phase, emitted>>
    BY <1>0, <1>5, TagIs DEF IndexChunk, Indexing, Collect
  <2>2. Jumps(i, i + 1)  BY <2>1 DEF Jumps
  <2>3. Whole(i) => Tag(i) = "m"  BY <1>0, <2>1, WholeIs
  <2>4. Grows(emitted, emitted')  BY <2>1, GrowsSame
  <2> QED BY <2>1, <2>2, <2>3, <2>4 DEF Passes
<1>6. ASSUME NEW i \in Records, IndexEnd(i) PROVE Stays \/ Passes
  <2>1. pos = i /\ i \in Nat /\ phase = "walk" /\ TypeByte(i) = "n" /\ Emit(i + 1)
    BY <1>0, <1>6, TagIs DEF IndexEnd, Indexing
  <2>2. Jumps(i, i + 1) /\ i + 1 \in Nat  BY <2>1 DEF Jumps
  <2>3. Whole(i) => Tag(i) = "n"  BY <1>0, <2>1, WholeIs
  <2> QED BY <2>1, <2>2, <2>3, EmitPasses
<1>7. ASSUME NEW i \in Records, IndexSearch(i) PROVE Stays \/ Passes
  <2>1. pos = i /\ i \in Nat /\ phase = "walk" /\ TypeByte(i) \notin {"m", "n"} /\ call.walk = "index"
    BY <1>0, <1>7, TagIs DEF IndexSearch, Indexing
  <2>2. CASE NextChunk(i) = 0  BY <1>7, <2>2, GrowsSame DEF IndexSearch, Finish, Stays
  <2>3. CASE NextChunk(i) # 0
    <3>1. NextChunk(i) \in Nat /\ Jumps(i, NextChunk(i))  BY <1>0, <2>1, <2>3, Searches
    <3>2. Whole(i) => Tag(i) \notin {"m", "n"}  BY <1>0, <2>1, WholeIs
    <3>3. pos' = NextChunk(i) /\ UNCHANGED <<phase, cur, emitted>>
      BY <1>7, <2>3 DEF IndexSearch, Pass
    <3> QED BY <2>1, <3>1, <3>2, <3>3, GrowsSame DEF Passes
  <2> QED BY <2>2, <2>3
<1>8. ASSUME NEW i \in Records, ExtractChunk(i) PROVE Stays \/ Passes
  <2>1. /\ pos = i /\ phase = "walk" /\ TypeByte(i) = "m" /\ call.walk = "extract" /\ After(i) # 0
        /\ pos' = After(i) /\ cur' = Append(cur, IF Sound(i) THEN Chunk(i) ELSE Raw(i)) /\ UNCHANGED emitted
    BY <1>8 DEF ExtractChunk, Extracting, Collect
  <2>2. After(i) \in Nat /\ Jumps(i, After(i)) /\ (Sound(i) => After(i) = i + 1)
    BY <1>0, <2>1, AfterIs
  <2>3. Whole(i) => Tag(i) = "m" /\ Sound(i)  BY <1>0, <2>1, WholeIs
  <2>4. Grows(emitted, emitted')  BY <2>1, GrowsSame
  <2>5. Whole(i) => After(i) = i + 1 /\ cur' = Append(cur, Chunk(i))  BY <2>1, <2>2, <2>3
  <2>6. phase' = "walk"  BY <1>8 DEF ExtractChunk, Extracting, Collect
  <2> QED BY <2>1, <2>2, <2>3, <2>4, <2>5, <2>6 DEF Passes
<1>9. ASSUME NEW i \in Records, ExtractEnd(i) PROVE Stays \/ Passes
  <2>1. pos = i /\ phase = "walk" /\ TypeByte(i) = "n" /\ call.walk = "extract" /\ After(i) # 0 /\ Emit(After(i))
    BY <1>9 DEF ExtractEnd, Extracting
  <2>2. After(i) \in Nat /\ Jumps(i, After(i)) /\ (Sound(i) => After(i) = i + 1)
    BY <1>0, <2>1, AfterIs
  <2>3. Whole(i) => Tag(i) = "n" /\ Sound(i)  BY <1>0, <2>1, WholeIs
  <2> QED BY <2>1, <2>2, <2>3, EmitPasses
<1>10. ASSUME NEW i \in Records, ExtractBatch(i) PROVE Stays \/ Passes
  <2>1. /\ pos = i /\ phase = "walk" /\ TypeByte(i) = "f" /\ call.walk = "extract" /\ After(i) # 0
        /\ pos' = After(i) /\ UNCHANGED <<phase, cur>>
        /\ \E batch : Label(batch)
    BY <1>10 DEF ExtractBatch, Extracting, ApplyBatch
  <2>2. After(i) \in Nat /\ Jumps(i, After(i))  BY <1>0, <2>1, AfterIs
  <2>3. Whole(i) => Tag(i) = "f"  BY <1>0, <2>1, WholeIs
  <2>4. Grows(emitted, emitted')
    <3>1. PICK batch : Label(batch)  BY <2>1
    <3>2. emitted \in Seq(FileType) /\ Len(emitted) \in Nat  BY LenProperties DEF WalkTypes
    <3>3. \A e \in 1..Len(emitted) : emitted[e] \in FileType  BY <3>2
    <3> DEFINE F == [e \in 1..Len(emitted) |->
                       IF e \in (labelled + 1)..(labelled + Len(batch))
                       THEN [emitted[e] EXCEPT !.meta = batch[e - labelled]] ELSE emitted[e]]
    <3>4. emitted' = F  BY <3>1 DEF Label
    <3>5. \A e \in 1..Len(emitted) : F[e].chunks = emitted[e].chunks  BY <3>3 DEF FileType
    <3>6. Len(F) = Len(emitted)  BY <3>2
    <3> HIDE DEF F
    <3> QED BY <3>2, <3>4, <3>5, <3>6 DEF Grows
  <2> QED BY <2>1, <2>2, <2>3, <2>4 DEF Passes
<1>11. ASSUME NEW i \in Records, ExtractSkip(i) PROVE Stays \/ Passes
  <2>1. /\ pos = i /\ phase = "walk" /\ call.walk = "extract" /\ After(i) # 0
        /\ TypeByte(i) = "?" \/ (TypeByte(i) = "m" /\ damage[i] # "none")
        /\ pos' = After(i) /\ UNCHANGED <<phase, cur, emitted>>
    BY <1>11 DEF ExtractSkip, Extracting, Pass
  <2>2. After(i) \in Nat /\ Jumps(i, After(i))  BY <1>0, <2>1, AfterIs
  <2>3. ~ Whole(i)
    <3>1. Tag(i) \in {"m", "n", "f"}  BY <1>0, TagIs
    <3> QED BY <1>0, <2>1, <3>1, WholeIs
  <2> QED BY <2>1, <2>2, <2>3, GrowsSame DEF Passes
<1> QED BY <1>1, <1>2, <1>3, <1>4, <1>5, <1>6, <1>7, <1>8, <1>9, <1>10, <1>11 DEF Next

-----------------------------------------------------------------------------
(* Damage is local *)

LEMMA InitBase == Init => Base
<1> SUFFICES ASSUME Init PROVE Base  OBVIOUS
<1>1. call.walk \in {"index", "extract"}  BY DEF Init, Calls
<1>2. DamageTyped
  <2>1. PICK S, kind : /\ \A i \in S : kind[i] \in Kinds[Tag(i)]
                       /\ damage = [i \in Records |-> IF i \in S THEN kind[i] ELSE "none"]
    BY DEF Init
  <2> QED BY <2>1 DEF DamageTyped
<1> QED BY <1>1, <1>2 DEF Init, Base

LEMMA FixedOnes ==
    ASSUME Next
    PROVE  UNCHANGED <<archive, damage, call>>
<1> USE DEF Fixed
<1>1. CASE Begin \/ IndexDone \/ ExtractDone \/ Serve  BY <1>1 DEF Begin, IndexDone, ExtractDone, Serve
<1>2. ASSUME NEW i \in Records,
             IndexChunk(i) \/ IndexEnd(i) \/ IndexStop(i) \/ IndexRaise(i) \/ IndexSearch(i)
      PROVE  UNCHANGED <<archive, damage, call>>
  BY <1>2 DEF IndexChunk, IndexEnd, IndexStop, IndexRaise, IndexSearch, Indexing
<1>3. ASSUME NEW i \in Records,
             ExtractChunk(i) \/ ExtractEnd(i) \/ ExtractBatch(i) \/ ExtractSkip(i)
      PROVE  UNCHANGED <<archive, damage, call>>
  BY <1>3 DEF ExtractChunk, ExtractEnd, ExtractBatch, ExtractSkip, Extracting
<1> QED BY <1>1, <1>2, <1>3 DEF Next

LEMMA NextBase == ASSUME WalkTypes, Base, [Next]_vars PROVE Base'
<1>1. CASE UNCHANGED vars  BY <1>1 DEF vars, Base, DamageTyped, Records, Tag, Stream
<1>2. CASE Next
  <2>1. DamageTyped' /\ call' = call  BY <1>2, FixedOnes DEF Base, DamageTyped, Records, Tag, Stream
  <2>2. CASE phase = "begin"
    <3>1. Begin  BY <1>2, <2>2 DEF Next, Begin, IndexDone, ExtractDone, Serve, IndexChunk, IndexEnd, IndexStop,
                    IndexRaise, IndexSearch, Indexing, ExtractChunk, ExtractEnd, ExtractBatch, ExtractSkip, Extracting
    <3> QED BY <2>1, <3>1 DEF Begin, Base
  <2>3. CASE phase # "begin"
    <3>1. Stays \/ Passes  BY <1>2, <2>3, StepPasses
    <3>2. pos' \in Nat \ {0}  BY <3>1, TagIs DEF Base, Stays, Passes, Jumps
    <3>3. phase' \in {"walk", "done", "raised", "serving"}  BY <3>1 DEF Stays, Passes
    <3> QED BY <2>1, <3>2, <3>3 DEF Base
  <2> QED BY <2>2, <2>3
<1> QED BY <1>1, <1>2

-----------------------------------------------------------------------------
(* Before the end of a content that is whole, like the one before it. *)
LocalInv ==
    \A j \in Ends(Stream) :
       (\A i \in From(j)..j : Whole(i)) => Clear(j, phase, pos, cur, emitted)

LEMMA SameArchive ==
    ASSUME UNCHANGED <<archive, damage, call>>, NEW j, NEW ph, NEW p, NEW c, NEW em
    PROVE  /\ Ends(Stream)' = Ends(Stream) /\ From(j)' = From(j)
           /\ \A i : Whole(i)' <=> Whole(i)
           /\ Clear(j, phase, pos, cur, emitted)' <=> Clear(j, phase', pos', cur', emitted')
  BY DEF Stream, From, Own, Prev, Whole, Inside, Tag, Clear

LEMMA InitClear ==
    ASSUME archive \in Archives, NEW j \in Ends(Stream), NEW ph, NEW em
    PROVE  Clear(j, ph, 1, << >>, em)
<1>1. From(j) \in Nat \ {0} /\ Prev(j) \in Nat /\ j \in Nat \ {0}  BY FromIs, TagIs
<1>2. Stream \in Seq(RecordType)  BY ArchivesAssumption DEF Stream
<1>3. OwnTo(Stream, Stream[j].file, 0) = << >>  BY <1>2, OwnIs
<1> QED BY <1>1, <1>3 DEF Clear

LEMMA NextLocal ==
    ASSUME WalkTypes, Base, LocalInv, [Next]_vars, WalkTypes'
    PROVE  LocalInv'
<1>1. CASE UNCHANGED vars
  BY <1>1, SameArchive DEF vars, LocalInv
<1>2. CASE Next /\ phase = "begin"
  <2>1. pos' = 1 /\ cur' = << >> /\ archive' \in Archives
    BY <1>2 DEF WalkTypes, Base, Next, Begin, IndexDone, ExtractDone, Serve, IndexChunk, IndexEnd, IndexStop,
       IndexRaise, IndexSearch, Indexing, ExtractChunk, ExtractEnd, ExtractBatch, ExtractSkip, Extracting, Fixed
  <2>2. UNCHANGED <<archive, damage, call>>  BY <1>2, FixedOnes
  <2> SUFFICES ASSUME NEW j \in Ends(Stream) PROVE Clear(j, phase', pos', cur', emitted')
    BY <2>2, SameArchive DEF LocalInv
  <2>3. archive \in Archives  BY DEF WalkTypes
  <2> QED BY <2>1, <2>3, InitClear
<1>3. CASE Next /\ phase # "begin"
  <2>1. UNCHANGED <<archive, damage, call>>  BY <1>3, FixedOnes
  <2>2. Stays \/ Passes  BY <1>3, StepPasses
  <2>3. archive \in Archives /\ DamageTyped /\ call.walk \in {"index", "extract"} /\ pos \in Nat \ {0}
        /\ cur \in Seq(ChunkType)
    BY DEF WalkTypes, Base
  <2> SUFFICES ASSUME NEW j \in Ends(Stream), \A i \in From(j)..j : Whole(i)
               PROVE  Clear(j, phase', pos', cur', emitted')
    BY <2>1, SameArchive DEF LocalInv
  <2>4. Clear(j, phase, pos, cur, emitted)  BY DEF LocalInv
  <2>5. CASE Stays
    <3>1. j \in Nat /\ (pos > j => \E e \in 1..Len(emitted) : emitted[e].chunks = Own(Stream[j].file))
      BY <2>3, <2>4, FromIs, TagIs DEF Clear
    <3>2. pos > j => \E e \in 1..Len(emitted') : emitted'[e].chunks = Own(Stream[j].file)
      BY <2>5, <3>1 DEF Stays, Grows
    <3> QED BY <2>5, <3>2 DEF Clear, Stays
  <2>6. CASE Passes
    <3>1. Clear(j, "walk", pos, cur, emitted)  BY <2>4, <2>6 DEF Passes
    <3> QED BY <2>3, <2>6, <3>1, ClearPass DEF Passes
  <2> QED BY <2>2, <2>5, <2>6
<1> QED BY <1>1, <1>2, <1>3

(* Damage reaches no further than the file it is in and the one after it,    *)
(* for every archive, damage and search: a file that is whole, behind one    *)
(* that is whole, is there once a walk has passed it (build_index,           *)
(* walk_fs_records).                                                         *)
THEOREM DamageIsLocalForAll == Spec => []DamageIsLocal
<1>1. Init => NamesInv /\ Fresh /\ Base /\ LocalInv
  <2>1. Init => NamesInv /\ Fresh /\ Base  BY InitNames, InitBase DEF Init, Fresh
  <2>2. Init => LocalInv
    <3> SUFFICES ASSUME Init, NEW j \in Ends(Stream) PROVE Clear(j, phase, pos, cur, emitted)  BY DEF LocalInv
    <3> QED BY InitClear DEF Init
  <2> QED BY <2>1, <2>2
<1>2. NamesInv /\ Fresh /\ Base /\ LocalInv /\ [Next]_vars => (NamesInv /\ Fresh /\ Base /\ LocalInv)'
  <2>1. NamesInv /\ Fresh /\ [Next]_vars => NamesInv' /\ Fresh'  BY NextNames, NextFresh
  <2>2. NamesInv => WalkTypes  BY DEF NamesInv
  <2>3. NamesInv' => WalkTypes'  BY DEF NamesInv
  <2> QED BY <2>1, <2>2, <2>3, NextBase, NextLocal
<1>3. LocalInv /\ Base => DamageIsLocal  BY DEF LocalInv, Clear, DamageIsLocal
<1> QED BY <1>1, <1>2, <1>3, PTL DEF Spec

-----------------------------------------------------------------------------
(* The tree that is made of paths *)

LEMMA PrefixIs ==
    ASSUME NEW P, NEW p \in Seq(P), NEW q \in Seq(P)
    PROVE  IsPrefix(p, q) <=> Len(p) <= Len(q) /\ \A i \in 1..Len(p) : p[i] = q[i]
<1>1. Len(p) \in Nat /\ Len(q) \in Nat /\ DOMAIN p = 1..Len(p) /\ DOMAIN q = 1..Len(q)  BY LenProperties
<1>2. SubSeq(p, 1, Len(p)) = p  BY SubSeqFull
<1>3. ASSUME Len(p) <= Len(q)
      PROVE  p = SubSeq(q, 1, Len(p)) <=> \A i \in 1..Len(p) : p[i] = q[i]
  <2>1. \A i \in 1..Len(p) : q[i] \in P  BY <1>1, <1>3, ElementOfSeq
  <2>2. /\ SubSeq(q, 1, Len(p)) \in Seq(P)
        /\ Len(SubSeq(q, 1, Len(p))) = Len(p)
        /\ \A i \in 1..Len(p) : SubSeq(q, 1, Len(p))[i] = q[i]
    <3> DEFINE m == Len(p)
    <3>1. m \in Int /\ 1 \in Int /\ \A i \in 1..m : q[i] \in P  BY <1>1, <2>1
    <3> HIDE DEF m
    <3>2. /\ SubSeq(q, 1, m) \in Seq(P)
          /\ Len(SubSeq(q, 1, m)) = IF 1 <= m THEN m - 1 + 1 ELSE 0
          /\ \A i \in 1..(m - 1 + 1) : SubSeq(q, 1, m)[i] = q[1 + i - 1]
      BY <3>1, SubSeqProperties
    <3> QED BY <1>1, <3>2 DEF m
  <2> DEFINE r == SubSeq(q, 1, Len(p))
  <2> HIDE DEF r
  <2>3. r \in Seq(P) /\ Len(r) = Len(p) /\ \A i \in 1..Len(p) : r[i] = q[i]  BY <2>2 DEF r
  <2>4. p = r <=> \A i \in 1..Len(p) : p[i] = r[i]  BY <2>3, SeqEqual
  <2> QED BY <2>3, <2>4 DEF r
<1> QED BY <1>1, <1>2, <1>3 DEF IsPrefix

LEMMA UnderIs ==
    ASSUME NEW P, NEW p \in Seq(P), NEW q \in Seq(P)
    PROVE  Under(p, q) <=> Len(p) < Len(q) /\ \A i \in 1..Len(p) : p[i] = q[i]
<1>1. Len(p) \in Nat /\ Len(q) \in Nat  BY LenProperties
<1>2. IsPrefix(p, q) <=> Len(p) <= Len(q) /\ \A i \in 1..Len(p) : p[i] = q[i]  BY PrefixIs
<1> QED BY <1>1, <1>2 DEF Under

LEMMA UnderTrans ==
    ASSUME NEW P, NEW p \in Seq(P), NEW q \in Seq(P), NEW r \in Seq(P),
           Under(p, q), Under(q, r)
    PROVE  Under(p, r)
<1>1. Len(p) \in Nat /\ Len(q) \in Nat /\ Len(r) \in Nat  BY LenProperties
<1> QED BY <1>1, UnderIs

LEMMA AboveIs ==
    ASSUME NEW P, NEW q \in Seq(P)
    PROVE  Above(q) = {r \in Seq(P) : Under(r, q)}
<1>1. Len(q) \in Nat  BY LenProperties
<1>2. ASSUME NEW n \in 0..(Len(q) - 1)
      PROVE  /\ SubSeq(q, 1, n) \in Seq(P) /\ Len(SubSeq(q, 1, n)) = n
             /\ \A i \in 1..n : SubSeq(q, 1, n)[i] = q[i]
  <2>1. \A i \in 1..n : q[i] \in P  BY <1>1, ElementOfSeq
  <2>2. n \in Int /\ 1 \in Int  BY <1>1
  <2>3. /\ SubSeq(q, 1, n) \in Seq(P)
        /\ Len(SubSeq(q, 1, n)) = IF 1 <= n THEN n - 1 + 1 ELSE 0
        /\ \A i \in 1..(n - 1 + 1) : SubSeq(q, 1, n)[i] = q[1 + i - 1]
    BY <2>1, <2>2, SubSeqProperties
  <2> QED BY <1>1, <2>2, <2>3
<1>3. ASSUME NEW r \in Above(q) PROVE r \in Seq(P) /\ Under(r, q)
  <2>1. PICK n \in 0..(Len(q) - 1) : r = SubSeq(q, 1, n)  BY DEF Above
  <2>2. r \in Seq(P) /\ Len(r) = n /\ \A i \in 1..n : r[i] = q[i]  BY <1>2, <2>1
  <2>3. n \in Nat /\ n < Len(q)  BY <1>1
  <2> QED BY <2>2, <2>3, UnderIs
<1>4. ASSUME NEW r \in Seq(P), Under(r, q) PROVE r \in Above(q)
  <2> DEFINE n == Len(r)  u == SubSeq(q, 1, n)
  <2>1. n \in Nat /\ n < Len(q) /\ \A i \in 1..n : r[i] = q[i]  BY <1>4, UnderIs, LenProperties
  <2>2. n \in 0..(Len(q) - 1)  BY <1>1, <2>1
  <2>3. u \in Seq(P) /\ Len(u) = n /\ \A i \in 1..n : u[i] = q[i]  BY <1>2, <2>2
  <2> HIDE DEF u
  <2>4. r = u  BY <2>1, <2>3, SeqEqual
  <2> QED BY <2>2, <2>4 DEF Above, u
<1> QED BY <1>3, <1>4

-----------------------------------------------------------------------------
(* Trees of paths over the names P, with n entries at most. *)
Trees(P, n) == UNION {[D -> {Dir} \cup 1..n] : D \in SUBSET Seq(P)}

LEMMA AddType ==
    ASSUME NEW P, NEW n \in Nat, NEW t \in Trees(P, n), NEW p \in Seq(P), NEW e \in 1..n
    PROVE  Add(t, p, e) \in Trees(P, n)
<1>1. PICK D \in SUBSET Seq(P) : t \in [D -> {Dir} \cup 1..n]  BY DEF Trees
<1>2. DOMAIN t = D /\ \A q \in D : t[q] \in {Dir} \cup 1..n  BY <1>1
<1> DEFINE E == {r \in DOMAIN t : ~ Under(p, r)} \cup Above(p) \cup {p}
           u == [q \in E |-> IF q = p THEN e ELSE IF q \in DOMAIN t THEN t[q] ELSE Dir]
<1>3. E \in SUBSET Seq(P)  BY <1>1, <1>2, AboveIs
<1> HIDE DEF E
<1>4. u \in [E -> {Dir} \cup 1..n]  BY <1>2
<1>5. u \in Trees(P, n)
  <2> HIDE DEF u
  <2> QED BY <1>3, <1>4 DEF Trees
<1> QED BY <1>5 DEF Add, E

LEMMA TreesGrow ==
    ASSUME NEW P, NEW ps \in Seq(Seq(P)), NEW n \in Nat, n = Len(ps)
    PROVE  \E f \in [0..n -> Trees(P, n)] :
              /\ f[0] = Root
              /\ \A e \in 1..n : f[e] = Add(f[e - 1], ps[e], e)
              /\ BuildTree(ps) = f[n]
<1>0. \A e \in 1..n : ps[e] \in Seq(P)  BY ElementOfSeq
<1> DEFINE g == [e \in 1..n |-> [t \in Trees(P, n) |-> Add(t, ps[e], e)]]
           Eq(z) == z = [e \in 0..n |-> IF e = 0 THEN Root ELSE Add(z[e - 1], ps[e], e)]
<1>1. Root \in Trees(P, n)
  <2>1. << >> \in Seq(P)  OBVIOUS
  <2>2. Root \in [{<< >>} -> {Dir} \cup 1..n]  BY DEF Root
  <2> QED BY <2>1, <2>2 DEF Trees
<1>2. g \in [1..n -> [Trees(P, n) -> Trees(P, n)]]
  <2>1. \A e \in 1..n : \A t \in Trees(P, n) : Add(t, ps[e], e) \in Trees(P, n)  BY <1>0, AddType
  <2> QED BY <2>1
<1>3. PICK h : Steps(h, n, Trees(P, n), Root, g)
  <2> HIDE DEF g
  <2> QED BY <1>1, <1>2, Recursion
<1>4. h \in [0..n -> Trees(P, n)] /\ Eq(h)
  <2>1. h \in [0..n -> Trees(P, n)]  BY <1>3 DEF Steps
  <2>2. \A e \in 0..n : h[e] = IF e = 0 THEN Root ELSE g[e][h[e - 1]]  
    <3> HIDE DEF g
    <3>1. h = [i \in 0..n |-> IF i = 0 THEN Root ELSE g[i][h[i - 1]]]  BY <1>3 DEF Steps
    <3> QED BY <3>1, Zenon
  <2>3. \A e \in 1..n : h[e - 1] \in Trees(P, n)
    <3>1. \A e \in 1..n : e - 1 \in 0..n  OBVIOUS
    <3> HIDE DEF g, Eq
    <3> QED BY <2>1, <3>1
  <2>4. \A e \in 0..n : h[e] = IF e = 0 THEN Root ELSE Add(h[e - 1], ps[e], e)
    <3>1. \A e \in 0..n : e = 0 \/ e \in 1..n  OBVIOUS
    <3>2. \A e \in 1..n : g[e][h[e - 1]] = Add(h[e - 1], ps[e], e)  BY <2>3
    <3> HIDE DEF g
    <3> QED BY <2>2, <3>1, <3>2
  <2>5. h = [e \in 0..n |-> h[e]]  BY <2>1
  <2> QED BY <2>1, <2>4, <2>5
<1> DEFINE c == CHOOSE z : Eq(z)
<1>5. Eq(c)
  <2> HIDE DEF Eq
  <2> QED BY <1>4
<1>6. c = [e \in 0..n |-> IF e = 0 THEN Root ELSE Add(c[e - 1], ps[e], e)]  BY <1>5
<1> HIDE DEF c
<1>7. c[0] = Root /\ \A e \in 1..n : c[e] = Add(c[e - 1], ps[e], e)
  <2>1. \A e \in 0..n : c[e] = IF e = 0 THEN Root ELSE Add(c[e - 1], ps[e], e)  BY <1>6, Zenon
  <2>2. 0 \in 0..n /\ \A e \in 1..n : e \in 0..n /\ e # 0  OBVIOUS
  <2> QED BY <2>1, <2>2
<1> DEFINE T == {e \in 0..n : c[e] \in Trees(P, n)}
<1>8. 0 \in T  BY <1>1, <1>7
<1>9. ASSUME NEW e \in 0..(n - 1), e \in T PROVE e + 1 \in T
  <2>1. e + 1 \in 1..n /\ (e + 1) - 1 = e /\ e + 1 \in 0..n  OBVIOUS
  <2>2. c[e + 1] = Add(c[e], ps[e + 1], e + 1)  BY <1>7, <2>1
  <2>3. c[e] \in Trees(P, n) /\ ps[e + 1] \in Seq(P)  BY <1>0, <1>9, <2>1
  <2>4. c[e + 1] \in Trees(P, n)  BY <2>1, <2>2, <2>3, AddType
  <2> QED BY <2>1, <2>4
<1>10. 0..n \subseteq T
  <2> HIDE DEF T
  <2> QED BY <1>8, <1>9, AllUpTo
<1>11. c \in [0..n -> Trees(P, n)]
  <2>1. c = [e \in 0..n |-> c[e]]
    <3>1. DOMAIN c = 0..n  BY <1>6, Zenon
    <3> QED BY <1>6, <3>1, Zenon
  <2> QED BY <1>10, <2>1
<1>12. BuildTree(ps) = c[n]  BY DEF BuildTree, c
<1> QED BY <1>7, <1>11, <1>12

(* After the first k paths: an entry is at its own path, directories lead to *)
(* it, and it is there unless another path disturbs it.                      *)
Alone(ps, n, e) == ps[e] # << >> /\ \A d \in (1..n) \ {e} :
                      ps[d] # ps[e] /\ ~ Under(ps[d], ps[e]) /\ ~ Under(ps[e], ps[d])

TreeOK(t, k, ps, n) ==
    /\ \A q \in DOMAIN t :
          /\ t[q] # Dir => t[q] \in 1..k /\ ps[t[q]] = q
          /\ \A r \in Above(q) : r \in DOMAIN t /\ t[r] = Dir
    /\ \A e \in 1..k : Alone(ps, n, e) => ps[e] \in DOMAIN t /\ t[ps[e]] = e

LEMMA AddKeeps ==
    ASSUME NEW P, NEW n \in Nat, NEW ps \in [1..n -> Seq(P)], NEW k \in 0..(n - 1),
           NEW t \in Trees(P, n), TreeOK(t, k, ps, n)
    PROVE  TreeOK(Add(t, ps[k + 1], k + 1), k + 1, ps, n)
<1> DEFINE p == ps[k + 1]
           u == Add(t, p, k + 1)
           E == {r \in DOMAIN t : ~ Under(p, r)} \cup Above(p) \cup {p}
<1>1. k + 1 \in 1..n /\ 1..(k + 1) = 1..k \cup {k + 1} /\ k + 1 \notin 1..k /\ 1..k \subseteq 1..n
  OBVIOUS
<1>2. p \in Seq(P) /\ \A e \in 1..n : ps[e] \in Seq(P)  BY <1>1
<1>3. DOMAIN t \subseteq Seq(P)  BY DEF Trees
<1>4. \A q, r \in Seq(P) : r \in Above(q) <=> Under(r, q)  BY AboveIs
<1>5. \A q, r, s \in Seq(P) : Under(q, r) /\ Under(r, s) => Under(q, s)  BY UnderTrans
<1>6. \A q \in Seq(P) : ~ Under(q, q)
  <2>1. \A q \in Seq(P) : Len(q) \in Nat  BY LenProperties
  <2> QED BY <2>1 DEF Under
<1>7. \A q \in Seq(P) : Above(q) \subseteq Seq(P)  BY AboveIs
<1>8. CASE p = << >> \/ \E q \in Above(p) \cap DOMAIN t : t[q] # Dir
  <2>1. u = t  BY <1>8 DEF Add
  <2>2. ~ Alone(ps, n, k + 1)
    <3>1. ASSUME p # << >> PROVE \E d \in (1..n) \ {k + 1} : Under(ps[d], p)
      <4>1. PICK q \in Above(p) \cap DOMAIN t : t[q] # Dir  BY <1>8, <3>1
      <4>2. t[q] \in 1..k /\ ps[t[q]] = q  BY <4>1 DEF TreeOK
      <4>3. Under(q, p)  BY <1>2, <1>4, <1>7, <4>1
      <4> QED BY <1>1, <4>2, <4>3
    <3> QED BY <3>1 DEF Alone
  <2> HIDE DEF u
  <2>3. \A q \in DOMAIN t : t[q] # Dir => t[q] \in 1..(k + 1) /\ ps[t[q]] = q
    BY <1>1 DEF TreeOK
  <2> QED BY <1>1, <2>1, <2>2, <2>3 DEF TreeOK, u
<1>9. CASE p # << >> /\ \A q \in Above(p) \cap DOMAIN t : t[q] = Dir
  <2>1. u = [q \in E |-> IF q = p THEN k + 1 ELSE IF q \in DOMAIN t THEN t[q] ELSE Dir]
    BY <1>9 DEF Add
  <2>2. DOMAIN u = E /\ \A q \in E : u[q] = IF q = p THEN k + 1 ELSE IF q \in DOMAIN t THEN t[q] ELSE Dir
    <3> HIDE DEF u, p, E
    <3> QED BY <2>1
  <2> HIDE DEF u
  <2>3. \A q \in E : q \in DOMAIN t \/ q \in Above(p) \/ q = p  OBVIOUS
  <2>4. ASSUME NEW q \in E, u[q] # Dir PROVE u[q] \in 1..(k + 1) /\ ps[u[q]] = q
    BY <1>1, <2>2, <2>4 DEF TreeOK
  <2>5. ASSUME NEW q \in E, NEW r \in Above(q) PROVE r \in E /\ u[r] = Dir
    <3>0. q \in Seq(P) /\ r \in Seq(P) /\ Under(r, q)  BY <1>2, <1>3, <1>4, <1>7
    <3>1. ASSUME r \in Above(p) PROVE r \in E /\ u[r] = Dir
      <4>1. r # p  BY <1>2, <1>4, <1>6, <3>0, <3>1
      <4> QED BY <1>9, <2>2, <3>1, <4>1
    <3>2. CASE q = p  BY <3>1, <3>2
    <3>3. CASE q \in Above(p)
      <4>1. Under(r, p)  BY <1>2, <1>4, <1>5, <3>0, <3>3
      <4> QED BY <1>2, <1>4, <3>0, <3>1, <4>1
    <3>4. CASE q \in DOMAIN t /\ ~ Under(p, q)
      <4>1. r \in DOMAIN t /\ t[r] = Dir  BY <3>4 DEF TreeOK
      <4>2. r # p /\ ~ Under(p, r)  BY <1>2, <1>5, <3>0, <3>4
      <4> QED BY <2>2, <4>1, <4>2
    <3> QED BY <3>2, <3>3, <3>4
  <2>6. ASSUME NEW e \in 1..(k + 1), Alone(ps, n, e) PROVE ps[e] \in E /\ u[ps[e]] = e
    <3>1. CASE e = k + 1  BY <2>2, <3>1
    <3>2. CASE e \in 1..k
      <4>1. ps[e] \in DOMAIN t /\ t[ps[e]] = e  BY <2>6, <3>2 DEF TreeOK
      <4>2. k + 1 \in (1..n) \ {e}  BY <1>1, <3>2
      <4>3. p # ps[e] /\ ~ Under(p, ps[e])  BY <2>6, <4>2 DEF Alone
      <4> QED BY <2>2, <4>1, <4>3
    <3> QED BY <1>1, <3>1, <3>2
  <2> HIDE DEF E
  <2>7. TreeOK(u, k + 1, ps, n)  BY <2>2, <2>4, <2>5, <2>6 DEF TreeOK
  <2> QED BY <2>7 DEF u
<1> QED BY <1>8, <1>9

LEMMA TreeBuilt ==
    ASSUME NEW P, NEW ps \in Seq(Seq(P))
    PROVE  TreeOK(BuildTree(ps), Len(ps), ps, Len(ps))
<1> DEFINE n == Len(ps)
<1>1. n \in Nat /\ ps \in [1..n -> Seq(P)]  BY LenProperties
<1>2. PICK f \in [0..n -> Trees(P, n)] :
          /\ f[0] = Root
          /\ \A e \in 1..n : f[e] = Add(f[e - 1], ps[e], e)
          /\ BuildTree(ps) = f[n]
  <2> HIDE DEF n
  <2>1. n = Len(ps)  BY DEF n
  <2> QED BY <1>1, <2>1, TreesGrow
<1> HIDE DEF n
<1> DEFINE T == {k \in 0..n : TreeOK(f[k], k, ps, n)}
<1>3. 0 \in T
  <2>1. DOMAIN f[0] = {<< >>} /\ f[0][<< >>] = Dir /\ Above(<< >>) = {}
    BY <1>2 DEF Root, Above
  <2> QED BY <1>1, <2>1 DEF TreeOK
<1>4. ASSUME NEW k \in 0..(n - 1), k \in T PROVE k + 1 \in T
  <2>1. k + 1 \in 1..n /\ k + 1 \in 0..n /\ k \in 0..n /\ (k + 1) - 1 = k  BY <1>1
  <2>2. f[k] \in Trees(P, n) /\ f[k + 1] = Add(f[k], ps[k + 1], k + 1)  BY <1>2, <2>1
  <2>3. TreeOK(f[k + 1], k + 1, ps, n)  BY <1>1, <1>4, <2>2, AddKeeps
  <2> QED BY <2>1, <2>3
<1>5. 0..n \subseteq T
  <2> HIDE DEF T
  <2> QED BY <1>1, <1>3, <1>4, AllUpTo
<1>6. TreeOK(f[n], n, ps, n)  BY <1>1, <1>5
<1> QED BY <1>2, <1>6 DEF n

-----------------------------------------------------------------------------
(* The tree that is served *)

Known == /\ left \subseteq 1..Len(archive.tree)
         /\ \A e \in 1..Len(emitted) : emitted[e].rec \in 0..Len(archive.tree)

ServedInv == Known /\ (phase = "serving" => served = BuildTree(Paths(emitted)))

LEMMA EmitKnown ==
    ASSUME WalkTypes, Known, NEW next, Emit(next), UNCHANGED archive
    PROVE  Known'
<1>1. CASE UNCHANGED <<left, emitted>>  BY <1>1 DEF Known
<1>2. CASE /\ emitted' = Append(emitted, [chunks |-> cur, rec |-> Named, meta |-> 0])
           /\ left' = left \ {Named}
  <2> DEFINE new == [chunks |-> cur, rec |-> Named, meta |-> 0]
  <2>1. Named \in 0..Len(archive.tree)
    <3>1. Named \in left \cup {0}  BY NamedType
    <3>2. archive.tree \in Seq(NameType)  BY ArchivesAssumption DEF WalkTypes
    <3>3. Len(archive.tree) \in Nat  BY <3>2, LenProperties
    <3> QED BY <3>1, <3>3 DEF Known
  <2>2. emitted \in Seq(FileType) /\ new \in FileType /\ new.rec = Named
    <3>1. Named \in Nat /\ cur \in Seq(ChunkType)  BY <2>1 DEF WalkTypes
    <3> QED BY <3>1 DEF FileType, WalkTypes
  <2> HIDE DEF new
  <2>3. /\ Len(emitted') = Len(emitted) + 1 /\ Len(emitted) \in Nat
        /\ \A e \in 1..Len(emitted) : emitted'[e] = emitted[e]
        /\ emitted'[Len(emitted) + 1] = new
    BY <1>2, <2>2, LenProperties DEF new
  <2> QED BY <1>2, <2>1, <2>2, <2>3 DEF Known
<1> QED BY <1>1, <1>2 DEF Emit, EmitAnd

LEMMA NextKnown == ASSUME WalkTypes, Known, phase = "begin" => emitted = << >>, [Next]_vars PROVE Known'
<1> USE DEF Fixed
<1>1. CASE UNCHANGED <<archive, left, emitted>>  BY <1>1 DEF Known
<1>2. CASE Begin
  <2>1. Len(archive.tree) \in Nat /\ emitted = << >> /\ UNCHANGED <<archive, emitted>>
    <3>1. archive.tree \in Seq(NameType)  BY ArchivesAssumption DEF WalkTypes
    <3> QED BY <1>2, <3>1, LenProperties DEF Begin
  <2>2. left' \subseteq 1..Len(archive.tree)  BY <1>2 DEF Begin, Known
  <2> QED BY <2>1, <2>2 DEF Known
<1>3. CASE IndexDone \/ Serve  BY <1>1, <1>3 DEF IndexDone, Finish, Serve
<1>4. CASE ExtractDone  BY <1>4, EmitKnown DEF ExtractDone
<1>5. ASSUME NEW i \in Records,
             IndexChunk(i) \/ IndexStop(i) \/ IndexRaise(i) \/ IndexSearch(i) \/ ExtractChunk(i) \/ ExtractSkip(i)
      PROVE  Known'
  BY <1>1, <1>5 DEF IndexChunk, IndexStop, IndexRaise, IndexSearch, Indexing, ExtractChunk, ExtractSkip,
                    Extracting, Collect, Pass, Finish, Raise
<1>6. ASSUME NEW i \in Records, IndexEnd(i) \/ ExtractEnd(i) PROVE Known'
  BY <1>6, EmitKnown DEF IndexEnd, Indexing, ExtractEnd, Extracting
<1>7. ASSUME NEW i \in Records, ExtractBatch(i) PROVE Known'
  <2>1. UNCHANGED <<archive, left>> /\ \E batch : Label(batch)
    BY <1>7 DEF ExtractBatch, Extracting, ApplyBatch
  <2>2. PICK batch : Label(batch)  BY <2>1
  <2>3. emitted \in Seq(FileType) /\ Len(emitted) \in Nat  BY LenProperties DEF WalkTypes
  <2>4. \A e \in 1..Len(emitted) : emitted[e] \in FileType  BY <2>3
  <2> DEFINE F == [e \in 1..Len(emitted) |->
                     IF e \in (labelled + 1)..(labelled + Len(batch))
                     THEN [emitted[e] EXCEPT !.meta = batch[e - labelled]] ELSE emitted[e]]
  <2>5. emitted' = F  BY <2>2 DEF Label
  <2>6. \A e \in 1..Len(emitted) : F[e].rec = emitted[e].rec  BY <2>4 DEF FileType
  <2>7. Len(F) = Len(emitted)  BY <2>3
  <2> HIDE DEF F
  <2> QED BY <2>1, <2>5, <2>6, <2>7 DEF Known
<1> QED BY <1>1, <1>2, <1>3, <1>4, <1>5, <1>6, <1>7 DEF Next, vars

(* Only the last step of all serves, and it serves what is emitted. *)
LEMMA NextServed ==
    ASSUME ServedInv, Known', [Next]_vars
    PROVE  ServedInv'
<1> SUFFICES ASSUME phase' = "serving" PROVE served' = BuildTree(Paths(emitted))'  BY DEF ServedInv
<1>1. CASE UNCHANGED vars  BY <1>1 DEF vars, ServedInv, Paths, PathOf
<1>2. CASE Serve  BY <1>2 DEF Serve, Paths, PathOf
<1>3. CASE Next /\ ~ Serve
  <2>1. ASSUME NEW next, phase = "walk", Emit(next) PROVE FALSE  BY <2>1 DEF Emit, EmitAnd, Proceed
  <2>2. CASE Begin \/ IndexDone  BY <2>2 DEF Begin, IndexDone, Finish
  <2>3. CASE ExtractDone  BY <2>1, <2>3 DEF ExtractDone
  <2>4. ASSUME NEW i \in Records,
               IndexChunk(i) \/ IndexStop(i) \/ IndexRaise(i) \/ IndexSearch(i)
               \/ ExtractChunk(i) \/ ExtractBatch(i) \/ ExtractSkip(i)
        PROVE  FALSE
    BY <2>4 DEF IndexChunk, IndexStop, IndexRaise, IndexSearch, Indexing, ExtractChunk, ExtractBatch, ExtractSkip,
                Extracting, Collect, Pass, Finish, Raise
  <2>5. ASSUME NEW i \in Records, IndexEnd(i) \/ ExtractEnd(i) PROVE FALSE
    BY <2>1, <2>5 DEF IndexEnd, Indexing, ExtractEnd, Extracting
  <2> QED BY <1>3, <2>2, <2>3, <2>4, <2>5 DEF Next
<1> QED BY <1>1, <1>2, <1>3

LEMMA PathsType ==
    ASSUME WalkTypes, Known
    PROVE  /\ Paths(emitted) \in Seq(Seq(STRING \cup Nat \cup {NotNamed}))
           /\ Len(Paths(emitted)) = Len(emitted) /\ Len(emitted) \in Nat
<1> DEFINE P == STRING \cup Nat \cup {NotNamed}
<1>1. Len(emitted) \in Nat  BY LenProperties DEF WalkTypes
<1>2. archive.tree \in Seq(NameType)  BY ArchivesAssumption DEF WalkTypes
<1>3. ASSUME NEW e \in 1..Len(emitted) PROVE PathOf(emitted, e) \in Seq(P)
  <2>1. CASE emitted[e].rec = 0
    <3>1. e \in P /\ NotNamed \in P  BY <1>1
    <3> HIDE DEF P
    <3> QED BY <2>1, <3>1 DEF PathOf
  <2>2. CASE emitted[e].rec # 0
    <3>1. emitted[e].rec \in 1..Len(archive.tree)  BY <1>2, <2>2, LenProperties DEF Known
    <3>2. archive.tree[emitted[e].rec] \in NameType  BY <1>2, <3>1, ElementOfSeq
    <3>3. archive.tree[emitted[e].rec].path \in Seq(STRING)  BY <3>2 DEF NameType
    <3>4. ASSUME NEW x \in Seq(STRING) PROVE x \in Seq(P)
      <4>1. Len(x) \in Nat /\ x \in [1..Len(x) -> STRING]  BY LenProperties
      <4>2. STRING \subseteq P  OBVIOUS
      <4> HIDE DEF P
      <4>3. x \in [1..Len(x) -> P]  BY <4>1, <4>2
      <4> QED BY <4>1, <4>3, FunctionIsSeq
    <3> QED BY <2>2, <3>3, <3>4 DEF PathOf
  <2> QED BY <2>1, <2>2
<1> HIDE DEF P
<1>4. Paths(emitted) \in [1..Len(emitted) -> Seq(P)]  BY <1>3 DEF Paths
<1>5. Paths(emitted) \in Seq(Seq(P)) /\ Len(Paths(emitted)) = Len(emitted)  BY <1>1, <1>4, FunctionIsSeq
<1> QED BY <1>1, <1>5 DEF P

(* Every file of an index is found where its path says, for every archive:   *)
(* unless its path is, or goes through, that of another, or has no name in   *)
(* it (_build_tree, _resolve_path).                                          *)
THEOREM ServedForAll == Spec => []ServedIsFound
<1>1. Init => NamesInv /\ Fresh /\ ServedInv
  <2>1. Init => Fresh  BY DEF Init, Fresh
  <2>2. Init => ServedInv  BY DEF Init, ServedInv, Known
  <2> QED BY <2>1, <2>2, InitNames
<1>2. NamesInv /\ Fresh /\ ServedInv /\ [Next]_vars => (NamesInv /\ Fresh /\ ServedInv)'
  <2>1. NamesInv /\ Fresh /\ [Next]_vars => NamesInv' /\ Fresh'  BY NextNames, NextFresh
  <2>2. NamesInv => WalkTypes  BY DEF NamesInv
  <2>3. ServedInv => Known  BY DEF ServedInv
  <2>4. Fresh => (phase = "begin" => emitted = << >>)  BY DEF Fresh
  <2> QED BY <2>1, <2>2, <2>3, <2>4, NextKnown, NextServed
<1>3. NamesInv /\ ServedInv => ServedIsFound
  <2> SUFFICES ASSUME WalkTypes, ServedInv, phase = "serving" PROVE ServedIsFound
    BY DEF NamesInv, ServedIsFound
  <2> DEFINE ps == Paths(emitted)  n == Len(emitted)
  <2>1. /\ ps \in Seq(Seq(STRING \cup Nat \cup {NotNamed})) /\ Len(ps) = n /\ n \in Nat
        /\ served = BuildTree(ps)
    BY PathsType DEF ServedInv
  <2>2. TreeOK(served, n, ps, n)  BY <2>1, TreeBuilt
  <2> HIDE DEF ps, n
  <2>3. ASSUME NEW e \in 1..n, ps[e] # << >>, \A d \in (1..n) \ {e} : ~ Disturbs(ps[d], ps[e])
        PROVE  Resolve(served, ps[e]) = {e}
    <3>1. Alone(ps, n, e)  BY <2>1, <2>3 DEF Alone, Disturbs
    <3> QED BY <2>2, <3>1 DEF TreeOK, Resolve
  <2>4. ASSUME NEW q \in DOMAIN served
        PROVE  /\ served[q] # Dir => ps[served[q]] = q
               /\ \A r \in Above(q) : Resolve(served, r) = {Dir}
    BY <2>2 DEF TreeOK, Resolve
  <2> QED BY <2>3, <2>4 DEF ServedIsFound, ps, n
<1> QED BY <1>1, <1>2, <1>3, PTL DEF Spec

-----------------------------------------------------------------------------
(* What ended, and whose metadata there is *)

LEMMA BatchesIs ==
    ASSUME NEW s \in Seq(RecordType)
    PROVE  /\ BatchesTo(s, 0) = << >>
           /\ \A n \in 0..Len(s) : BatchesTo(s, n) \in Seq(Nat)
           /\ \A n \in 0..(Len(s) - 1) :
                 BatchesTo(s, n + 1) = IF s[n + 1].tag = "f" THEN BatchesTo(s, n) \o s[n + 1].batch
                                                             ELSE BatchesTo(s, n)
<1> DEFINE N == Len(s)
           p == [i \in 1..N |-> IF s[i].tag = "f" THEN s[i].batch ELSE << >>]
<1>0. N \in Nat  BY LenProperties
<1>1. p \in [1..N -> Seq(Nat)]
  <2> SUFFICES ASSUME NEW i \in 1..N PROVE s[i].batch \in Seq(Nat)  OBVIOUS
  <2>1. s[i] \in RecordType  BY ElementOfSeq
  <2> QED BY <2>1 DEF RecordType
<1>2. \A i \in 1..N : p[i] = IF s[i].tag = "f" THEN s[i].batch ELSE << >>  OBVIOUS
<1>3. \A n \in 0..N : BatchesTo(s, n) = FlatTo(p, n)
  <2> SUFFICES ASSUME NEW n \in 0..N PROVE BatchesTo(s, n) = FlatTo(p, n)  OBVIOUS
  <2> DEFINE u == [i \in 1..n |-> IF s[i].tag = "f" THEN s[i].batch ELSE << >>]
             v == [i \in 1..n |-> p[i]]
  <2>1. \A i \in 1..n : i \in 1..N  BY <1>0
  <2>2. u = v
    <3>1. \A i \in 1..n : p[i] = IF s[i].tag = "f" THEN s[i].batch ELSE << >>  BY <1>2, <2>1
    <3> HIDE DEF p
    <3> QED BY <3>1
  <2>3. BatchesTo(s, n) = FlattenSeq(u) /\ FlatTo(p, n) = FlattenSeq(v)
    <3> HIDE DEF p
    <3> QED BY DEF BatchesTo, FlatTo
  <2> HIDE DEF u, v
  <2> QED BY <2>2, <2>3
<1> HIDE DEF p, N
<1>4. /\ FlatTo(p, 0) = << >> /\ \A n \in 0..N : FlatTo(p, n) \in Seq(Nat)
      /\ \A n \in 0..(N - 1) : FlatTo(p, n + 1) = FlatTo(p, n) \o p[n + 1]
  BY <1>0, <1>1, FlatToIs
<1>5. BatchesTo(s, 0) = << >>  BY <1>0, <1>3, <1>4
<1>6. \A n \in 0..N : BatchesTo(s, n) \in Seq(Nat)  BY <1>3, <1>4
<1>7. ASSUME NEW n \in 0..(N - 1)
      PROVE  BatchesTo(s, n + 1) = IF s[n + 1].tag = "f" THEN BatchesTo(s, n) \o s[n + 1].batch
                                                         ELSE BatchesTo(s, n)
  <2>1. n \in 0..N /\ n + 1 \in 0..N /\ n + 1 \in 1..N  BY <1>0
  <2>2. BatchesTo(s, n + 1) = BatchesTo(s, n) \o p[n + 1] /\ BatchesTo(s, n) \in Seq(Nat)
    BY <1>3, <1>4, <2>1
  <2>3. BatchesTo(s, n) \o << >> = BatchesTo(s, n)  BY <2>2
  <2>4. p[n + 1] = IF s[n + 1].tag = "f" THEN s[n + 1].batch ELSE << >>  BY <1>2, <2>1
  <2> QED BY <2>2, <2>3, <2>4
<1> QED BY <1>5, <1>6, <1>7 DEF N

LEMMA EndedIs ==
    ASSUME NEW s \in Seq(RecordType)
    PROVE  /\ EndedTo(s, 0) = << >>
           /\ \A n \in 0..Len(s) : EndedTo(s, n) \in Seq(Nat)
           /\ \A n \in 0..(Len(s) - 1) :
                 EndedTo(s, n + 1) = IF n + 1 \in Ends(s) THEN EndedTo(s, n) \o <<s[n + 1].file>>
                                                          ELSE EndedTo(s, n)
           /\ \A a \in 0..Len(s) : \A b \in a..Len(s) :
                 /\ (\A i \in (a + 1)..b : i \notin Ends(s)) => EndedTo(s, b) = EndedTo(s, a)
                 /\ Len(EndedTo(s, a)) <= Len(EndedTo(s, b))
                 /\ \A k \in 1..Len(EndedTo(s, a)) : EndedTo(s, b)[k] = EndedTo(s, a)[k]
<1> DEFINE N == Len(s)
           E == Ends(s)
           p == [i \in 1..N |-> IF i \in E THEN <<s[i].file>> ELSE << >>]
<1>0. N \in Nat  BY LenProperties
<1>1. \A i \in 1..N : s[i].file \in Nat
  <2> SUFFICES ASSUME NEW i \in 1..N PROVE s[i].file \in Nat  OBVIOUS
  <2>1. s[i] \in RecordType  BY ElementOfSeq
  <2> QED BY <2>1 DEF RecordType
<1>2. p \in [1..N -> Seq(Nat)]
  <2> HIDE DEF E, N
  <2> QED BY <1>1
<1>3. \A i \in 1..N : p[i] = IF i \in E THEN <<s[i].file>> ELSE << >>  OBVIOUS
<1>4. \A n \in 0..N : EndedTo(s, n) = FlatTo(p, n)
  <2> SUFFICES ASSUME NEW n \in 0..N PROVE EndedTo(s, n) = FlatTo(p, n)  OBVIOUS
  <2> DEFINE u == [i \in 1..n |-> IF i \in E THEN <<s[i].file>> ELSE << >>]
             v == [i \in 1..n |-> p[i]]
  <2>1. \A i \in 1..n : i \in 1..N  BY <1>0
  <2>2. u = v
    <3>1. \A i \in 1..n : p[i] = IF i \in E THEN <<s[i].file>> ELSE << >>  BY <1>3, <2>1
    <3> HIDE DEF p, E
    <3> QED BY <3>1
  <2>3. EndedTo(s, n) = FlattenSeq(u) /\ FlatTo(p, n) = FlattenSeq(v)
    <3> HIDE DEF p
    <3> QED BY DEF EndedTo, FlatTo
  <2> HIDE DEF u, v
  <2> QED BY <2>2, <2>3
<1> HIDE DEF p, N
<1>5. /\ FlatTo(p, 0) = << >> /\ \A n \in 0..N : FlatTo(p, n) \in Seq(Nat)
      /\ \A n \in 0..(N - 1) : FlatTo(p, n + 1) = FlatTo(p, n) \o p[n + 1]
  BY <1>0, <1>2, FlatToIs
<1>6. EndedTo(s, 0) = << >>  BY <1>0, <1>4, <1>5
<1>7. \A n \in 0..N : EndedTo(s, n) \in Seq(Nat)  BY <1>4, <1>5
<1>8. ASSUME NEW n \in 0..(N - 1)
      PROVE  EndedTo(s, n + 1) = IF n + 1 \in E THEN EndedTo(s, n) \o <<s[n + 1].file>> ELSE EndedTo(s, n)
  <2>1. n \in 0..N /\ n + 1 \in 0..N /\ n + 1 \in 1..N  BY <1>0
  <2>2. EndedTo(s, n + 1) = EndedTo(s, n) \o p[n + 1] /\ EndedTo(s, n) \in Seq(Nat)
    BY <1>4, <1>5, <2>1
  <2>3. EndedTo(s, n) \o << >> = EndedTo(s, n)  BY <2>2
  <2>4. p[n + 1] = IF n + 1 \in E THEN <<s[n + 1].file>> ELSE << >>  BY <1>3, <2>1
  <2> HIDE DEF E
  <2> QED BY <2>2, <2>3, <2>4
<1>9. ASSUME NEW a \in 0..N, NEW b \in a..N
      PROVE  /\ (\A i \in (a + 1)..b : i \notin E) => EndedTo(s, b) = EndedTo(s, a)
             /\ Len(EndedTo(s, a)) <= Len(EndedTo(s, b))
             /\ \A k \in 1..Len(EndedTo(s, a)) : EndedTo(s, b)[k] = EndedTo(s, a)[k]
  <2>1. b \in 0..N /\ \A i \in (a + 1)..b : i \in 1..N  BY <1>0
  <2>2. EndedTo(s, a) = FlatTo(p, a) /\ EndedTo(s, b) = FlatTo(p, b)  BY <1>4, <2>1
  <2>3. (\A i \in (a + 1)..b : i \notin E) => \A i \in (a + 1)..b : p[i] = << >>  BY <1>3, <2>1
  <2>4. (\A i \in (a + 1)..b : i \notin E) => FlatTo(p, b) = FlatTo(p, a)
    <3> HIDE DEF E
    <3> SUFFICES ASSUME \A i \in (a + 1)..b : p[i] = << >> PROVE FlatTo(p, b) = FlatTo(p, a)  BY <2>3
    <3> QED BY <1>0, <1>2, FlatToSame
  <2>5. /\ Len(FlatTo(p, a)) <= Len(FlatTo(p, b))
        /\ \A k \in 1..Len(FlatTo(p, a)) : FlatTo(p, b)[k] = FlatTo(p, a)[k]
    BY <1>0, <1>2, FlatToGrows
  <2> HIDE DEF E
  <2> QED BY <2>2, <2>4, <2>5
<1> QED BY <1>6, <1>7, <1>8, <1>9 DEF N

(* Contents are distinct, and each is of an end. *)
LEMMA ContentsAre ==
    ASSUME NEW a \in Archives, NEW s, s = a.stream, NEW n \in 0..Len(s)
    PROVE  /\ \A e \in 1..Len(EndedTo(s, n)) :
                 \E i \in Ends(s) : i <= n /\ EndedTo(s, n)[e] = s[i].file
           /\ \A i \in Ends(s) : i <= n => \E e \in 1..Len(EndedTo(s, n)) : EndedTo(s, n)[e] = s[i].file
           /\ \A d, e \in 1..Len(EndedTo(s, n)) : EndedTo(s, n)[d] = EndedTo(s, n)[e] => d = e
<1> DEFINE N == Len(s)
           X(m) == EndedTo(s, m)
           From1(m) == \A e \in 1..Len(X(m)) : \E i \in Ends(s) : i <= m /\ X(m)[e] = s[i].file
           All(m)   == \A i \in Ends(s) : i <= m => \E e \in 1..Len(X(m)) : X(m)[e] = s[i].file
           Once(m)  == \A d, e \in 1..Len(X(m)) : X(m)[d] = X(m)[e] => d = e
           T == {m \in 0..N : From1(m) /\ All(m) /\ Once(m)}
<1>0. s \in Seq(RecordType) /\ N \in Nat  BY ArchivesAssumption, LenProperties
<1>1. Ends(s) \subseteq 1..N /\ \A i, j \in Ends(s) : s[i].file = s[j].file => i = j
  <2>1. Ends(s) \subseteq 1..N /\ \A i \in Ends(s) : s[i].tag = "n"  BY DEF Ends
  <2> QED BY <2>1, LayoutAssumption
<1>2. 0 \in T
  <2>1. X(0) = << >>  BY <1>0, EndedIs
  <2>2. \A i \in Ends(s) : ~ (i <= 0)  BY <1>0, <1>1
  <2> QED BY <1>0, <2>1, <2>2
<1>3. ASSUME NEW m \in 0..(N - 1), m \in T PROVE m + 1 \in T
  <2> DEFINE x == X(m)  z == X(m + 1)
  <2>1. m \in Nat /\ m + 1 \in 0..N /\ x \in Seq(Nat) /\ Len(x) \in Nat
    <3>1. m \in 0..N  BY <1>0
    <3>2. X(m) \in Seq(Nat)  BY <1>0, <3>1, EndedIs
    <3> QED BY <1>0, <3>1, <3>2, LenProperties
  <2>2. z = IF m + 1 \in Ends(s) THEN x \o <<s[m + 1].file>> ELSE x  BY <1>0, EndedIs
  <2>3. /\ \A e \in 1..Len(x) : \E i \in Ends(s) : i <= m /\ x[e] = s[i].file
        /\ \A i \in Ends(s) : i <= m => \E e \in 1..Len(x) : x[e] = s[i].file
        /\ \A d, e \in 1..Len(x) : x[d] = x[e] => d = e
    BY <1>3
  <2> DEFINE y == s[m + 1].file
  <2>4. (From1(m + 1) /\ All(m + 1) /\ Once(m + 1)) <=>
          /\ \A e \in 1..Len(z) : \E i \in Ends(s) : i <= m + 1 /\ z[e] = s[i].file
          /\ \A i \in Ends(s) : i <= m + 1 => \E e \in 1..Len(z) : z[e] = s[i].file
          /\ \A d, e \in 1..Len(z) : z[d] = z[e] => d = e
    OBVIOUS
  <2> HIDE DEF x, z, From1, All, Once, X
  <2>5. \A i \in Ends(s) : i \in Nat /\ (i <= m + 1 => i <= m \/ i = m + 1) /\ (i <= m => i <= m + 1)
    BY <1>0, <1>1, <2>1
  <2>6. CASE m + 1 \notin Ends(s)
    <3>1. z = x  BY <2>2, <2>6
    <3>2. \A i \in Ends(s) : i <= m + 1 => i <= m  BY <2>5, <2>6
    <3> QED BY <2>1, <2>3, <2>4, <2>5, <3>1, <3>2
  <2>7. CASE m + 1 \in Ends(s)
    <3>1. y \in Nat
      <4>1. s[m + 1] \in RecordType  BY <1>0, <1>1, <2>7, ElementOfSeq
      <4> QED BY <4>1 DEF RecordType
    <3>2. z = x \o <<y>>  BY <2>2, <2>7
    <3>3. /\ Len(z) = Len(x) + 1 /\ z[Len(x) + 1] = y
          /\ \A e \in 1..Len(x) : z[e] = x[e]
      <4> HIDE DEF y
      <4> QED BY <2>1, <3>1, <3>2
    <3>4. \A e \in 1..Len(x) : x[e] # y
      <4> SUFFICES ASSUME NEW e \in 1..Len(x), x[e] = y PROVE FALSE  OBVIOUS
      <4>1. PICK i \in Ends(s) : i <= m /\ x[e] = s[i].file  BY <2>3
      <4>2. i = m + 1  BY <1>1, <2>7, <4>1
      <4> QED BY <2>1, <4>1, <4>2
    <3> HIDE DEF y
    <3>5. \A e \in 1..Len(z) : e \in 1..Len(x) \/ e = Len(x) + 1  BY <2>1, <3>3
    <3>6. \A e \in 1..Len(x) : e \in 1..Len(z)  BY <2>1, <3>3
    <3>7. Len(x) + 1 \in 1..Len(z)  BY <2>1, <3>3
    <3>8. \A e \in 1..Len(z) : \E i \in Ends(s) : i <= m + 1 /\ z[e] = s[i].file
      <4> SUFFICES ASSUME NEW e \in 1..Len(z) PROVE \E i \in Ends(s) : i <= m + 1 /\ z[e] = s[i].file
        OBVIOUS
      <4>1. CASE e \in 1..Len(x)
        <5>1. PICK i \in Ends(s) : i <= m /\ x[e] = s[i].file  BY <2>3, <4>1
        <5>2. i <= m + 1 /\ z[e] = s[i].file  BY <2>5, <3>3, <4>1, <5>1
        <5> QED BY <5>2
      <4>2. CASE e = Len(x) + 1
        <5>1. z[e] = s[m + 1].file  BY <3>3, <4>2 DEF y
        <5>2. m + 1 <= m + 1  BY <2>1
        <5> QED BY <2>7, <5>1, <5>2
      <4> QED BY <3>5, <4>1, <4>2
    <3>9. ASSUME NEW i \in Ends(s), i <= m + 1 PROVE \E e \in 1..Len(z) : z[e] = s[i].file
      <4>1. CASE i <= m  BY <2>3, <3>3, <3>6, <4>1
      <4>2. CASE i = m + 1  BY <3>3, <3>7, <4>2 DEF y
      <4> QED BY <2>5, <3>9, <4>1, <4>2
    <3>10. \A d, e \in 1..Len(z) : z[d] = z[e] => d = e  BY <2>3, <3>3, <3>4, <3>5
    <3> QED BY <2>1, <2>4, <3>8, <3>9, <3>10
  <2> QED BY <2>6, <2>7
<1>4. 0..N \subseteq T
  <2> HIDE DEF T, N
  <2> QED BY <1>0, <1>2, <1>3, AllUpTo
<1>5. n \in T  BY <1>4
<1> QED BY <1>5

-----------------------------------------------------------------------------
(* An undamaged archive *)

Regular == Clean /\ (call.walk = "index" => \A i \in Records : ~ Inside(i))
Ordered == readable /\ SizesAgree

(* What is collected at p: the chunks so far of the content that ends next.  *)
CurIs(c, p) ==
    /\ \A j \in Ends(Stream) : p <= j /\ (\A k \in Ends(Stream) : ~ (p <= k /\ k < j))
                                => c = OwnTo(Stream, Stream[j].file, p - 1)
    /\ (\A j \in Ends(Stream) : j < p) => c = << >>

(* The records of the tree that are of none of the first n contents. *)
Unnamed(n) == {r \in 1..Len(archive.tree) : /\ archive.tree[r].size > 0
                                            /\ \A e \in 1..n : archive.tree[r].file # Contents[e]}

(* A walk at p with n files emitted. *)
At(p, c, l, lab, n) ==
    /\ p \in 1..(Len(Stream) + 1) /\ n = Len(EndedTo(Stream, p - 1)) /\ CurIs(c, p)
    /\ call.walk = "extract" => lab = Len(BatchesTo(Stream, p - 1))
    /\ Ordered => l = Unnamed(n)

Right(em) ==
    \A e \in 1..Len(em) :
       /\ e <= Len(Contents) /\ em[e].chunks = Own(Contents[e])
       /\ em[e].meta \in {0, Contents[e]}
       /\ Ordered => em[e].rec # 0 /\ archive.tree[em[e].rec].file = Contents[e]

LEMMA StreamIs ==
    ASSUME archive \in Archives, NEW s, s = Stream
    PROVE  /\ s \in Seq(RecordType) /\ Len(s) \in Nat /\ s = archive.stream
           /\ Ends(s) \subseteq 1..Len(s) /\ \A j \in Ends(s) : j \in Nat /\ s[j].tag = "n"
<1>1. s \in Seq(RecordType) /\ Len(s) \in Nat /\ s = archive.stream  BY ArchivesAssumption, LenProperties DEF Stream
<1>2. Ends(s) \subseteq 1..Len(s) /\ \A j \in Ends(s) : s[j].tag = "n"  BY DEF Ends
<1> QED BY <1>1, <1>2

LEMMA OwnSame ==
    ASSUME NEW s \in Seq(RecordType), NEW y, NEW a \in 0..Len(s), NEW b \in a..Len(s),
           \A i \in (a + 1)..b : ~ IsChunk(s, y, i)
    PROVE  OwnTo(s, y, b) = OwnTo(s, y, a)
<1>1. \A d \in 0..Len(s) : \A e \in d..Len(s) :
         (\A i \in (d + 1)..e : ~ IsChunk(s, y, i)) => OwnTo(s, y, e) = OwnTo(s, y, d)
  BY OwnIs
<1>2. (\A i \in (a + 1)..b : ~ IsChunk(s, y, i)) => OwnTo(s, y, b) = OwnTo(s, y, a)  BY <1>1
<1> QED BY <1>2

LEMMA FirstEnd ==
    ASSUME archive \in Archives, NEW p \in Nat, \E j \in Ends(Stream) : p <= j
    PROVE  \E j \in Ends(Stream) : p <= j /\ \A k \in Ends(Stream) : ~ (p <= k /\ k < j)
<1> DEFINE S == {j \in Ends(Stream) : p <= j}
<1>1. Ends(Stream) \subseteq Nat  BY StreamIs
<1>2. S \subseteq Nat /\ S # {}  BY <1>1
<1>3. PICK j \in S : \A k \in S : j <= k  BY <1>2, LeastNat
<1>4. \A k \in Ends(Stream) : ~ (p <= k /\ k < j)  BY <1>1, <1>3
<1> QED BY <1>3, <1>4

LEMMA CurChunk ==
    ASSUME archive \in Archives, NEW i \in Records, Tag(i) = "m", NEW c, CurIs(c, i)
    PROVE  CurIs(Append(c, Chunk(i)), i + 1)
<1> DEFINE s == Stream
<1>1. s \in Seq(RecordType) /\ Len(s) \in Nat /\ s = archive.stream /\ Ends(s) \subseteq Nat
      /\ i \in 1..Len(s) /\ s[i].tag = "m" /\ i \notin Ends(s)
  BY StreamIs DEF Records, Tag
<1>2. ASSUME NEW j \in Ends(s), i + 1 <= j, \A k \in Ends(s) : ~ (i + 1 <= k /\ k < j)
      PROVE  Append(c, Chunk(i)) = OwnTo(s, s[j].file, i)
  <2> DEFINE y == s[j].file
  <2>1. j \in Nat /\ i <= j /\ \A k \in Ends(s) : ~ (i <= k /\ k < j)  BY <1>1, <1>2
  <2>2. c = OwnTo(s, y, i - 1)  BY <2>1 DEF CurIs
  <2>3. \A k \in Ends(s) : ~ (i < k /\ k < j)  BY <1>1, <2>1
  <2>4. i \in 1..(j - 1)  BY <1>1, <1>2, <2>1
  <2>5. s[i].file = y  BY <1>1, <2>3, <2>4, ChunkOfNextEnd
  <2> HIDE DEF s, y
  <2>6. i - 1 \in 0..(Len(s) - 1) /\ (i - 1) + 1 = i  BY <1>1
  <2>7. OwnTo(s, y, i) = OwnTo(s, y, i - 1) \o <<Chunk(i)>>
    <3>1. IsChunk(s, y, (i - 1) + 1)  BY <1>1, <2>5, <2>6 DEF IsChunk
    <3>2. OwnTo(s, y, (i - 1) + 1) = OwnTo(s, y, i - 1) \o <<Chunk((i - 1) + 1)>>  BY <1>1, <2>6, <3>1, OwnIs
    <3> QED BY <2>6, <3>2
  <2>8. c \in Seq(ChunkType)
    <3>1. i - 1 \in 0..Len(s)  BY <1>1
    <3> QED BY <1>1, <2>2, <3>1, OwnIs
  <2>9. Append(c, Chunk(i)) = c \o <<Chunk(i)>>  BY <2>8
  <2> QED BY <2>2, <2>7, <2>9 DEF y
<1>3. \E j \in Ends(s) : i + 1 <= j
  <2>1. PICK j \in Ends(s) : i < j  BY <1>1, EndOfChunk
  <2> QED BY <1>1, <2>1
<1>4. (i + 1) - 1 = i  BY <1>1
<1> QED BY <1>1, <1>2, <1>3, <1>4 DEF CurIs

(* No chunk of the next content stands in front of another end. *)
LEMMA CurEnd ==
    ASSUME archive \in Archives, NEW i \in Records, Tag(i) = "n", NEW c, CurIs(c, i)
    PROVE  /\ CurIs(<< >>, i + 1)
           /\ i \in Ends(Stream) => c = Own(Stream[i].file) /\ c # << >>
           /\ i \notin Ends(Stream) => c = << >>
<1> DEFINE s == Stream
<1>1. s \in Seq(RecordType) /\ Len(s) \in Nat /\ s = archive.stream /\ Ends(s) \subseteq 1..Len(s)
      /\ i \in 1..Len(s) /\ s[i].tag = "n"
  BY StreamIs DEF Records, Tag
<1>2. ASSUME NEW j \in Ends(s), i < j
      PROVE  OwnTo(s, s[j].file, i) = << >> /\ OwnTo(s, s[j].file, i - 1) = << >>
  <2> DEFINE y == s[j].file
  <2>1. \A k \in 1..Len(s) : IsChunk(s, y, k) => k < j /\ \A h \in k..(j - 1) : s[h].tag # "n"
    BY <1>1, ChunksOfEnd
  <2>2. ASSUME NEW k \in 1..i, IsChunk(s, y, k) PROVE FALSE
    <3>1. k \in 1..Len(s) /\ i \in k..(j - 1)  BY <1>1, <1>2
    <3> QED BY <1>1, <2>1, <2>2, <3>1
  <2> HIDE DEF s, y
  <2>3. OwnTo(s, y, 0) = << >>  BY <1>1, OwnIs
  <2>4. ASSUME NEW b \in 0..i PROVE OwnTo(s, y, b) = << >>
    <3>1. 0 \in 0..Len(s) /\ b \in 0..Len(s) /\ \A k \in (0 + 1)..b : k \in 1..i  BY <1>1
    <3>2. \A k \in (0 + 1)..b : ~ IsChunk(s, y, k)  BY <2>2, <3>1
    <3>3. OwnTo(s, y, b) = OwnTo(s, y, 0)  BY <1>1, <3>1, <3>2, OwnSame
    <3> QED BY <2>3, <3>3
  <2>5. i \in 0..i /\ i - 1 \in 0..i  BY <1>1
  <2> QED BY <2>4, <2>5 DEF y
<1>3. CurIs(<< >>, i + 1)
  <2>1. (i + 1) - 1 = i /\ \A j \in Ends(s) : i + 1 <= j => i < j  BY <1>1
  <2> HIDE DEF s
  <2> QED BY <1>2, <2>1 DEF CurIs, s
<1>4. ASSUME i \in Ends(s) PROVE c = Own(s[i].file) /\ c # << >>
  <2>1. i <= i /\ \A k \in Ends(s) : ~ (i <= k /\ k < i)  BY <1>1
  <2>2. c = OwnTo(s, s[i].file, i - 1)  BY <1>4, <2>1 DEF CurIs
  <2> QED BY <1>4, <2>2, ContentIs
<1>5. ASSUME i \notin Ends(s) PROVE c = << >>
  <2>1. CASE \A j \in Ends(s) : j < i  BY <2>1 DEF CurIs
  <2>2. CASE \E j \in Ends(s) : i <= j
    <3>1. PICK j \in Ends(s) : i <= j /\ \A k \in Ends(s) : ~ (i <= k /\ k < j)  BY <1>1, <2>2, FirstEnd
    <3>2. c = OwnTo(s, s[j].file, i - 1) /\ i < j  BY <1>1, <1>5, <3>1 DEF CurIs
    <3> QED BY <1>2, <3>2
  <2> QED BY <1>1, <2>1, <2>2
<1> QED BY <1>3, <1>4, <1>5

LEMMA CurBatch ==
    ASSUME archive \in Archives, NEW i \in Records, NEW c, CurIs(c, i), NEW p \in (i + 1)..(Len(Stream) + 1),
           \A k \in i..(p - 1) : Tag(k) # "m" /\ k \notin Ends(Stream)
    PROVE  CurIs(c, p)
<1> DEFINE s == Stream
<1>1. s \in Seq(RecordType) /\ Len(s) \in Nat /\ Ends(s) \subseteq 1..Len(s) /\ i \in 1..Len(s)
  BY StreamIs DEF Records
<1>2. i \in Nat /\ p \in Nat /\ i < p /\ p <= Len(s) + 1 /\ \A j \in Ends(s) : j \in Nat /\ (i <= j => p <= j)
  BY <1>1
<1>3. ASSUME NEW j \in Ends(s) PROVE OwnTo(s, s[j].file, p - 1) = OwnTo(s, s[j].file, i - 1)
  <2> DEFINE y == s[j].file
  <2>1. i - 1 \in 0..Len(s) /\ p - 1 \in (i - 1)..Len(s) /\ (i - 1) + 1 = i  BY <1>1, <1>2
  <2>2. \A k \in ((i - 1) + 1)..(p - 1) : ~ IsChunk(s, y, k)  BY <2>1 DEF IsChunk, Tag
  <2> DEFINE a == i - 1  b == p - 1
  <2>3. a \in 0..Len(s) /\ b \in a..Len(s) /\ \A k \in (a + 1)..b : ~ IsChunk(s, y, k)  BY <2>1, <2>2
  <2> HIDE DEF s, y, a, b
  <2>4. OwnTo(s, y, b) = OwnTo(s, y, a)  BY <1>1, <2>3, OwnSame
  <2> QED BY <2>4 DEF y, a, b
<1> HIDE DEF s
<1>4. ASSUME NEW j \in Ends(s), p <= j, \A k \in Ends(s) : ~ (p <= k /\ k < j)
      PROVE  c = OwnTo(s, s[j].file, p - 1)
  <2>1. i <= j /\ \A k \in Ends(s) : ~ (i <= k /\ k < j)  BY <1>2, <1>4
  <2>2. c = OwnTo(s, s[j].file, i - 1)  BY <2>1 DEF CurIs, s
  <2> QED BY <1>3, <2>2
<1>5. ASSUME \A j \in Ends(s) : j < p PROVE c = << >>
  <2>1. \A j \in Ends(s) : j < i  BY <1>2, <1>5
  <2> QED BY <2>1 DEF CurIs, s
<1> QED BY <1>4, <1>5 DEF CurIs, s

-----------------------------------------------------------------------------
(* One record on *)

LEMMA EndedNext ==
    ASSUME NEW s \in Seq(RecordType), NEW i \in 1..Len(s)
    PROVE  /\ EndedTo(s, i) = IF i \in Ends(s) THEN EndedTo(s, i - 1) \o <<s[i].file>> ELSE EndedTo(s, i - 1)
           /\ EndedTo(s, i) \in Seq(Nat) /\ EndedTo(s, i - 1) \in Seq(Nat)
<1> DEFINE a == i - 1
<1>1. a \in 0..(Len(s) - 1) /\ a \in 0..Len(s) /\ i \in 0..Len(s) /\ i = a + 1  BY LenProperties
<1> HIDE DEF a
<1>2. EndedTo(s, a + 1) = IF a + 1 \in Ends(s) THEN EndedTo(s, a) \o <<s[a + 1].file>> ELSE EndedTo(s, a)
  BY <1>1, EndedIs
<1>3. EndedTo(s, i) \in Seq(Nat) /\ EndedTo(s, a) \in Seq(Nat)  BY <1>1, EndedIs
<1>4. EndedTo(s, i) = IF i \in Ends(s) THEN EndedTo(s, a) \o <<s[i].file>> ELSE EndedTo(s, a)
  BY <1>1, <1>2
<1> QED BY <1>3, <1>4 DEF a

(* With nothing damaged, a search passes no chunk and no end of a content.   *)
LEMMA JumpClean ==
    ASSUME archive \in Archives, call.walk \in {"index", "extract"}, Regular,
           NEW i \in Records, Tag(i) = "f", NEW p \in (i + 1)..(Len(Stream) + 1),
           \A k \in (i + 1)..(p - 1) : ~ Firm(k)
    PROVE  \A k \in i..(p - 1) : Tag(k) # "m" /\ k \notin Ends(Stream)
<1> DEFINE s == Stream
<1>1. s \in Seq(RecordType) /\ Len(s) \in Nat /\ s = archive.stream /\ Ends(s) \subseteq 1..Len(s)
      /\ i \in 1..Len(s) /\ i \in Nat /\ p \in Nat /\ \A j \in Ends(s) : Tag(j) = "n"
  BY StreamIs DEF Records, Tag
<1>2. \A k \in (i + 1)..(p - 1) : k \in Records /\ k \in Nat /\ i < k /\ k < p  BY <1>1 DEF Records
<1>3. \A k \in (i + 1)..(p - 1) : Tag(k) \notin {"m"} /\ (call.walk = "extract" => Tag(k) # "n")
  <2> SUFFICES ASSUME NEW k \in (i + 1)..(p - 1) PROVE Tag(k) \notin {"m"} /\ (call.walk = "extract" => Tag(k) # "n")
    OBVIOUS
  <2>1. k \in Records /\ ~ Firm(k) /\ damage[k] = "none"  BY <1>2 DEF Regular, Clean
  <2>2. Sound(k) <=> Tag(k) \in {"m", "n"}  BY <2>1 DEF Sound, Signed, TypeByte
  <2> QED BY <2>1, <2>2 DEF Firm
<1>4. ASSUME NEW k \in (i + 1)..(p - 1), k \in Ends(s) PROVE FALSE
  <2>1. Tag(k) = "n" /\ k \in Nat /\ i < k /\ k < p /\ k \in 1..Len(s)  BY <1>1, <1>2, <1>4
  <2>2. call.walk = "index"  BY <1>3, <2>1
  <2>3. PICK c \in 1..(k - 1) : IsChunk(s, s[k].file, c)  BY <1>1, <1>4, ChunksOfEnd
  <2>4. c \in 1..Len(s) /\ c < k  BY <1>1, <2>1
  <2>5. \A h \in c..(k - 1) : Tag(h) # "n"
    <3>1. \A h \in c..(k - 1) : s[h].tag # "n"  BY <1>1, <1>4, <2>3, <2>4, ChunksOfEnd
    <3> QED BY <3>1 DEF Tag
  <2>6. c < i
    <3>1. Tag(c) = "m"  BY <2>3 DEF IsChunk, Tag
    <3>2. c # i  BY <3>1
    <3>3. c \notin (i + 1)..(p - 1)  BY <1>3, <3>1
    <3> QED BY <1>1, <2>1, <2>4, <3>2, <3>3
  <2>7. CASE k = i + 1
    <3>1. Inside(i)  BY <1>4, <2>7 DEF Inside
    <3> QED BY <2>2, <3>1 DEF Regular
  <2>8. CASE k # i + 1
    <3>1. i + 1 \in c..(k - 1) /\ i + 1 \in (i + 1)..(p - 1) /\ i + 1 \in Records /\ i \in 1..(Len(s) - 1)
      BY <1>1, <1>2, <2>1, <2>4, <2>6, <2>8
    <3>2. Tag(i + 1) = "f"  BY <1>3, <2>5, <3>1, TagIs
    <3> QED BY <1>1, <3>1, <3>2, LayoutAssumption DEF Tag
  <2> QED BY <2>7, <2>8
<1>5. i \notin Ends(s)  BY <1>1
<1>6. \A k \in i..(p - 1) : k = i \/ k \in (i + 1)..(p - 1)  BY <1>1
<1> QED BY <1>3, <1>4, <1>5, <1>6

LEMMA PassChunk ==
    ASSUME archive \in Archives, NEW i \in Records, Tag(i) = "m", NEW c, NEW l, NEW lab, NEW n,
           At(i, c, l, lab, n)
    PROVE  At(i + 1, Append(c, Chunk(i)), l, lab, n)
<1> DEFINE s == Stream
<1>1. s \in Seq(RecordType) /\ Len(s) \in Nat /\ i \in 1..Len(s) /\ s[i].tag = "m" /\ i \notin Ends(s)
  BY StreamIs DEF Records, Tag
<1>2. i - 1 \in 0..(Len(s) - 1) /\ (i - 1) + 1 = i /\ (i + 1) - 1 = i /\ i + 1 \in 1..(Len(s) + 1)  BY <1>1
<1>3. EndedTo(s, (i - 1) + 1) = EndedTo(s, i - 1) /\ BatchesTo(s, (i - 1) + 1) = BatchesTo(s, i - 1)
  BY <1>1, <1>2, EndedIs, BatchesIs
<1>4. CurIs(Append(c, Chunk(i)), i + 1)  BY CurChunk DEF At
<1> QED BY <1>2, <1>3, <1>4 DEF At

LEMMA PassEnd ==
    ASSUME archive \in Archives, NEW i \in Records, Tag(i) = "n", NEW c, NEW l, NEW lab, NEW n,
           At(i, c, l, lab, n)
    PROVE  \/ c = << >> /\ At(i + 1, << >>, l, lab, n)
           \/ /\ c # << >> /\ n + 1 <= Len(Contents) /\ c = Own(Contents[n + 1]) /\ n \in Nat
              /\ \A l2 : (Ordered => l2 = Unnamed(n + 1)) => At(i + 1, << >>, l2, lab, n + 1)
<1> DEFINE s == Stream  E == EndedTo(s, i - 1)  E2 == EndedTo(s, (i - 1) + 1)
<1>1. s \in Seq(RecordType) /\ Len(s) \in Nat /\ i \in 1..Len(s) /\ s[i].tag = "n"
  BY StreamIs DEF Records, Tag
<1>2. /\ i - 1 \in 0..(Len(s) - 1) /\ (i - 1) + 1 = i /\ (i + 1) - 1 = i /\ i + 1 \in 1..(Len(s) + 1)
      /\ i - 1 \in 0..Len(s) /\ i \in 0..Len(s) /\ Len(s) \in i..Len(s)
  BY <1>1
<1>3. BatchesTo(s, (i - 1) + 1) = BatchesTo(s, i - 1)  BY <1>1, <1>2, BatchesIs
<1>4. /\ CurIs(<< >>, i + 1)
      /\ i \in Ends(s) => c = Own(s[i].file) /\ c # << >>
      /\ i \notin Ends(s) => c = << >>
  BY CurEnd DEF At
<1>5. CASE i \notin Ends(s)
  <2>1. E2 = E  BY <1>1, <1>2, <1>5, EndedIs
  <2> QED BY <1>2, <1>3, <1>4, <1>5, <2>1 DEF At
<1>6. CASE i \in Ends(s)
  <2> DEFINE y == s[i].file
  <2>1. E2 = E \o <<y>> /\ E \in Seq(Nat)
    <3>1. EndedTo(s, i - 1) \in Seq(Nat) /\ EndedTo(s, i) = EndedTo(s, i - 1) \o <<s[i].file>>
      <4> HIDE DEF s
      <4> QED BY <1>1, <1>6, EndedNext
    <3> QED BY <1>2, <3>1
  <2>2. y \in Nat
    <3>1. s[i] \in RecordType  BY <1>1, ElementOfSeq
    <3> QED BY <3>1 DEF RecordType
  <2>3. Len(E) \in Nat /\ Len(E2) = Len(E) + 1 /\ E2[Len(E) + 1] = y
    <3> HIDE DEF s, E, E2, y
    <3>1. Len(E) \in Nat  BY <2>1, LenProperties
    <3> QED BY <2>1, <2>2, <3>1
  <2>4. Len(E2) <= Len(Contents) /\ \A k \in 1..Len(E2) : Contents[k] = E2[k]
    <3>1. E2 = EndedTo(s, i)  BY <1>2
    <3> HIDE DEF E2, s
    <3> QED BY <1>1, <1>2, <3>1, EndedIs DEF Contents, s
  <2>5. n = Len(E)  BY DEF At
  <2> HIDE DEF E, E2
  <2>6. Contents[n + 1] = y /\ n + 1 <= Len(Contents)  BY <2>3, <2>4, <2>5
  <2>7. ASSUME NEW l2, Ordered => l2 = Unnamed(n + 1) PROVE At(i + 1, << >>, l2, lab, n + 1)
    <3>1. n + 1 = Len(EndedTo(s, (i + 1) - 1))  BY <1>2, <2>3, <2>5 DEF E2
    <3> QED BY <1>2, <1>3, <1>4, <2>7, <3>1 DEF At
  <2> QED BY <1>4, <1>6, <2>3, <2>5, <2>6, <2>7
<1> QED BY <1>5, <1>6

LEMMA PassBatch ==
    ASSUME archive \in Archives, call.walk \in {"index", "extract"}, Regular,
           NEW i \in Records, Tag(i) = "f", NEW c, NEW l, NEW lab, NEW n, At(i, c, l, lab, n),
           NEW p \in (i + 1)..(Len(Stream) + 1), \A k \in (i + 1)..(p - 1) : ~ Firm(k),
           NEW lab2, call.walk = "extract" => p = i + 1 /\ lab2 = lab + Len(Stream[i].batch)
    PROVE  At(p, c, l, lab2, n)
<1> DEFINE s == Stream
<1>1. s \in Seq(RecordType) /\ Len(s) \in Nat /\ i \in 1..Len(s) /\ s[i].tag = "f" /\ p \in Nat /\ i < p
  BY StreamIs DEF Records, Tag
<1>2. \A k \in i..(p - 1) : Tag(k) # "m" /\ k \notin Ends(s)  BY JumpClean
<1>3. CurIs(c, p)  BY <1>2, CurBatch DEF At
<1>4. EndedTo(s, p - 1) = EndedTo(s, i - 1)
  <2> DEFINE a == i - 1  b == p - 1
  <2>1. a \in 0..Len(s) /\ b \in a..Len(s) /\ \A k \in (a + 1)..b : k \notin Ends(s)  BY <1>1, <1>2
  <2> HIDE DEF s, a, b
  <2>2. EndedTo(s, b) = EndedTo(s, a)
    <3>1. (\A k \in (a + 1)..b : k \notin Ends(s)) => EndedTo(s, b) = EndedTo(s, a)  BY <1>1, <2>1, EndedIs
    <3> QED BY <2>1, <3>1
  <2> QED BY <2>2 DEF a, b
<1>5. ASSUME call.walk = "extract" PROVE lab2 = Len(BatchesTo(s, p - 1))
  <2>1. i - 1 \in 0..(Len(s) - 1) /\ (i - 1) + 1 = i /\ p - 1 = i /\ i - 1 \in 0..Len(s)  BY <1>1, <1>5
  <2>2. BatchesTo(s, (i - 1) + 1) = BatchesTo(s, i - 1) \o s[i].batch /\ BatchesTo(s, i - 1) \in Seq(Nat)
    BY <1>1, <2>1, BatchesIs
  <2>3. s[i].batch \in Seq(Nat)
    <3>1. s[i] \in RecordType  BY <1>1, ElementOfSeq
    <3> QED BY <3>1 DEF RecordType
  <2>4. Len(BatchesTo(s, i - 1) \o s[i].batch) = Len(BatchesTo(s, i - 1)) + Len(s[i].batch)
    <3> DEFINE x == BatchesTo(s, i - 1)  z == s[i].batch
    <3>1. x \in Seq(Nat) /\ z \in Seq(Nat)  BY <2>2, <2>3
    <3> HIDE DEF x, z
    <3>2. Len(x \o z) = Len(x) + Len(z)  BY <3>1
    <3> QED BY <3>2 DEF x, z
  <2>5. lab = Len(BatchesTo(s, i - 1)) /\ lab2 = lab + Len(s[i].batch)  BY <1>5 DEF At
  <2> QED BY <2>1, <2>2, <2>4, <2>5
<1>6. p \in 1..(Len(s) + 1)  BY <1>1
<1> QED BY <1>3, <1>4, <1>5, <1>6 DEF At

(* A batch labels files that are there already, each with what is its own.   *)
Labels(lab, batch) ==
    \A e \in (lab + 1)..(lab + Len(batch)) : e <= Len(Contents) /\ batch[e - lab] = Contents[e]

LEMMA BatchLabels ==
    ASSUME archive \in Archives, NEW i \in Records, Tag(i) = "f", NEW lab, lab = Len(BatchesTo(Stream, i - 1)),
           NEW batch, batch = Stream[i].batch
    PROVE  /\ batch \in Seq(Nat) /\ lab \in Nat /\ Len(batch) \in Nat
           /\ lab + Len(batch) <= Len(EndedTo(Stream, i - 1))
           /\ Labels(lab, batch)
<1> DEFINE s == Stream  x == BatchesTo(s, i - 1)  E == EndedTo(s, i)
<1>1. s \in Seq(RecordType) /\ Len(s) \in Nat /\ s = archive.stream /\ i \in 1..Len(s) /\ s[i].tag = "f"
      /\ i \notin Ends(s)
  BY StreamIs DEF Records, Tag
<1>2. i - 1 \in 0..(Len(s) - 1) /\ (i - 1) + 1 = i /\ i - 1 \in 0..Len(s) /\ i \in 0..Len(s) /\ Len(s) \in i..Len(s)
  BY <1>1
<1>3. BatchesTo(s, (i - 1) + 1) = x \o batch /\ x \in Seq(Nat)  BY <1>1, <1>2, BatchesIs
<1>4. batch \in Seq(Nat)
  <2>1. s[i] \in RecordType  BY <1>1, ElementOfSeq
  <2> QED BY <2>1 DEF RecordType
<1>5. E \in Seq(Nat) /\ E = EndedTo(s, i - 1) /\ Contents \in Seq(Nat)
  <2>1. EndedTo(s, i) \in Seq(Nat) /\ EndedTo(s, Len(s)) \in Seq(Nat)  BY <1>1, <1>2, EndedIs
  <2>2. EndedTo(s, i) = EndedTo(s, i - 1)
    <3> HIDE DEF s
    <3> QED BY <1>1, EndedNext
  <2> QED BY <2>1, <2>2 DEF Contents
<1>6. Len(E) <= Len(Contents) /\ \A k \in 1..Len(E) : Contents[k] = E[k]
  <2> HIDE DEF s
  <2> QED BY <1>1, <1>2, EndedIs DEF Contents, s
<1>7. IsPrefix(x \o batch, E)
  <2>1. IsPrefix(BatchesTo(s, i), E)  BY <1>1, BatchesAssumption
  <2> QED BY <1>2, <1>3, <2>1
<1>8. x \o batch \in Seq(Nat) /\ Len(x) \in Nat /\ Len(batch) \in Nat /\ Len(E) \in Nat
      /\ Len(Contents) \in Nat
  <2> HIDE DEF x, E
  <2> QED BY <1>3, <1>4, <1>5, LenProperties
<1>9. E = EndedTo(s, i - 1)  BY <1>5
<1> HIDE DEF s, x, E
<1>10. Len(x \o batch) <= Len(E) /\ \A k \in 1..Len(x \o batch) : (x \o batch)[k] = E[k]
  <2> DEFINE z == x \o batch
  <2>1. z \in Seq(Nat) /\ E \in Seq(Nat) /\ IsPrefix(z, E)  BY <1>5, <1>7, <1>8
  <2> HIDE DEF z
  <2>2. Len(z) <= Len(E) /\ \A k \in 1..Len(z) : z[k] = E[k]  BY <2>1, PrefixIs
  <2> QED BY <2>2 DEF z
<1>11. /\ Len(x \o batch) = Len(x) + Len(batch)
       /\ \A k \in (Len(x) + 1)..(Len(x) + Len(batch)) : (x \o batch)[k] = batch[k - Len(x)]
  BY <1>3, <1>4, <1>8
<1>12. lab = Len(x)  BY DEF x, s
<1>13. \A e \in (lab + 1)..(lab + Len(batch)) : e \in 1..Len(x \o batch) /\ e \in 1..Len(E) /\ e <= Len(Contents)
  <2> SUFFICES ASSUME NEW e \in (lab + 1)..(lab + Len(batch))
               PROVE  e \in 1..Len(x \o batch) /\ e \in 1..Len(E) /\ e <= Len(Contents)
    OBVIOUS
  <2> DEFINE u == Len(x \o batch)  v == Len(E)  w == Len(Contents)  d == Len(batch)
  <2>1. u = lab + d /\ lab \in Nat /\ d \in Nat /\ v \in Nat /\ w \in Nat /\ u <= v /\ v <= w
    BY <1>6, <1>8, <1>10, <1>11, <1>12
  <2>2. e \in (lab + 1)..(lab + d)  OBVIOUS
  <2> HIDE DEF u, v, w, d
  <2>3. e \in 1..u /\ e \in 1..v /\ e <= w  BY <2>1, <2>2
  <2> QED BY <2>3 DEF u, v, w
<1>14. \A e \in (lab + 1)..(lab + Len(batch)) : batch[e - lab] = Contents[e]
  BY <1>6, <1>10, <1>11, <1>12, <1>13
<1>15. Labels(lab, batch)  BY <1>13, <1>14 DEF Labels
<1>16. lab + Len(batch) <= Len(EndedTo(Stream, i - 1))  BY <1>9, <1>10, <1>11, <1>12 DEF s
<1>17. lab \in Nat  BY <1>8, <1>12
<1> QED BY <1>4, <1>8, <1>15, <1>16, <1>17

LEMMA AllContents ==
    ASSUME archive \in Archives
    PROVE  /\ Contents \in Seq(Nat) /\ Len(Contents) \in Nat
           /\ \A e \in 1..Len(Contents) : \E i \in Ends(Stream) : Contents[e] = Stream[i].file
           /\ \A i \in Ends(Stream) : \E e \in 1..Len(Contents) : Contents[e] = Stream[i].file
           /\ \A d, e \in 1..Len(Contents) : Contents[d] = Contents[e] => d = e
<1> DEFINE s == Stream
<1>1. s \in Seq(RecordType) /\ Len(s) \in Nat /\ s = archive.stream /\ Ends(s) \subseteq 1..Len(s)
      /\ Len(s) \in 0..Len(s)
  BY StreamIs
<1>2. Contents \in Seq(Nat)  BY <1>1, EndedIs DEF Contents
<1>3. \A i \in Ends(s) : i <= Len(s)  BY <1>1
<1> DEFINE C == EndedTo(s, Len(s))
<1>4. /\ \A e \in 1..Len(C) : \E i \in Ends(s) : i <= Len(s) /\ C[e] = s[i].file
      /\ \A i \in Ends(s) : i <= Len(s) => \E e \in 1..Len(C) : C[e] = s[i].file
      /\ \A d, e \in 1..Len(C) : C[d] = C[e] => d = e
  <2> DEFINE m == Len(s)
  <2>1. m \in 0..Len(s)  BY <1>1
  <2> HIDE DEF s, m
  <2>2. /\ \A e \in 1..Len(EndedTo(s, m)) : \E i \in Ends(s) : i <= m /\ EndedTo(s, m)[e] = s[i].file
        /\ \A i \in Ends(s) : i <= m => \E e \in 1..Len(EndedTo(s, m)) : EndedTo(s, m)[e] = s[i].file
        /\ \A d, e \in 1..Len(EndedTo(s, m)) : EndedTo(s, m)[d] = EndedTo(s, m)[e] => d = e
    <3>1. archive \in Archives /\ s = archive.stream /\ m \in 0..Len(s)  BY <1>1, <2>1
    <3> QED BY <3>1, ContentsAre
  <2> QED BY <2>2 DEF m
<1>5. C = Contents  BY DEF Contents
<1> HIDE DEF C, s
<1>6. Len(Contents) \in Nat  BY <1>2, LenProperties
<1> QED BY <1>2, <1>3, <1>4, <1>5, <1>6 DEF s

(* The next content gets the record that is its own.                         *)
LEMMA NameRight ==
    ASSUME archive \in Archives, SizesAgree, NEW n \in Nat, left = Unnamed(n),
           n + 1 <= Len(Contents), cur = Own(Contents[n + 1])
    PROVE  Named # 0 /\ archive.tree[Named].file = Contents[n + 1] /\ left \ {Named} = Unnamed(n + 1)
<1> DEFINE t == archive.tree
           full == {r \in 1..Len(t) : t[r].size > 0}
           y == Contents[n + 1]
           S == {r \in left : t[r].size = SizeOf(cur)}
<1>1. /\ t \in Seq(NameType) /\ Len(t) \in Nat
      /\ \A i \in Ends(Stream) : \E r \in full :
            t[r].file = Stream[i].file /\ t[r].size = SizeIn(Stream, OwnTo(Stream, Stream[i].file, Len(Stream)))
      /\ \A r \in full : \E i \in Ends(Stream) : Stream[i].file = t[r].file
      /\ \A q, r \in full : t[q].file = t[r].file => q = r
  BY ArchivesAssumption, TreeAssumption, LenProperties DEF Stream
<1>2. n + 1 \in 1..Len(Contents) /\ \A e \in 1..n : e \in 1..Len(Contents) /\ e # n + 1  BY AllContents
<1>3. PICK i \in Ends(Stream) : y = Stream[i].file  BY <1>2, AllContents
<1>4. PICK r \in full : t[r].file = y /\ t[r].size = SizeOf(cur)
  <2>1. SizeOf(cur) = SizeIn(Stream, OwnTo(Stream, Stream[i].file, Len(Stream)))  BY <1>3 DEF SizeOf, Own
  <2> QED BY <1>1, <1>3, <2>1
<1>5. r \in S
  <2>1. \A e \in 1..n : Contents[e] # y  BY <1>2, AllContents
  <2> QED BY <1>4, <2>1 DEF Unnamed
<1>6. ASSUME NEW q \in S PROVE r <= q
  <2>1. q \in full /\ \A e \in 1..n : t[q].file # Contents[e]  BY DEF Unnamed
  <2>2. PICK k \in 1..Len(Contents) : Contents[k] = t[q].file
    <3>1. PICK h \in Ends(Stream) : Stream[h].file = t[q].file  BY <1>1, <2>1
    <3>2. \E k \in 1..Len(Contents) : Contents[k] = Stream[h].file  BY AllContents
    <3> QED BY <3>1, <3>2
  <2>3. k \notin 1..n  BY <2>1, <2>2
  <2>4. k = n + 1 \/ n + 1 < k  BY <2>3
  <2>5. CASE k = n + 1
    <3>1. q = r  BY <1>1, <1>4, <2>1, <2>2, <2>5
    <3>2. r \in 1..Len(t)  BY <1>4
    <3>3. r \in Nat  BY <1>1, <3>2
    <3> QED BY <3>1, <3>3
  <2>6. CASE n + 1 < k
    <3>1. t[r].size = t[q].size  BY <1>4
    <3>2. r \in 1..Len(t) /\ q \in 1..Len(t)  BY <1>4, <2>1
    <3>3. r < q  BY <1>2, <1>4, <2>1, <2>2, <2>6, <3>1 DEF SizesAgree
    <3> QED BY <1>1, <3>2, <3>3
  <2> QED BY <2>4, <2>5, <2>6
<1>7. S \subseteq Nat \ {0}  BY <1>1 DEF Unnamed
<1>8. Named = Smallest(S)  BY DEF Named
<1> HIDE DEF S
<1>9. Named = r
  <2>1. S \subseteq Nat /\ S # {}  BY <1>5, <1>7
  <2>2. Smallest(S) \in S /\ \A x \in S : Smallest(S) <= x  BY <2>1, SmallestOfNat
  <2>3. r \in Nat /\ Smallest(S) \in Nat /\ Smallest(S) <= r /\ r <= Smallest(S)  BY <1>5, <1>6, <1>7, <2>2
  <2> QED BY <1>8, <2>3
<1>10. left \ {r} = Unnamed(n + 1)
  <2>1. \A q \in 1..Len(t) : q \in Unnamed(n + 1) <=>
           t[q].size > 0 /\ (\A e \in 1..n : t[q].file # Contents[e]) /\ t[q].file # y
    <3>1. \A e \in 1..(n + 1) : e \in 1..n \/ e = n + 1  OBVIOUS
    <3>2. \A e \in 1..n : e \in 1..(n + 1)  OBVIOUS
    <3>3. n + 1 \in 1..(n + 1)  OBVIOUS
    <3> QED BY <3>1, <3>2, <3>3 DEF Unnamed
  <2>2. \A q \in full : t[q].file # y <=> q # r  BY <1>1, <1>4
  <2>3. left \subseteq 1..Len(t) /\ Unnamed(n + 1) \subseteq 1..Len(t)  BY DEF Unnamed
  <2>4. \A q \in 1..Len(t) : q \in left <=> t[q].size > 0 /\ (\A e \in 1..n : t[q].file # Contents[e])
    BY DEF Unnamed
  <2> QED BY <2>1, <2>2, <2>3, <2>4
<1> QED BY <1>4, <1>7, <1>5, <1>9, <1>10

LEMMA AtStart ==
    ASSUME archive \in Archives, NEW l, Ordered => l = {r \in 1..Len(archive.tree) : archive.tree[r].size > 0}
    PROVE  At(1, << >>, l, 0, 0)
<1> DEFINE s == Stream
<1>1. s \in Seq(RecordType) /\ Len(s) \in Nat /\ Ends(s) \subseteq 1..Len(s)  BY StreamIs
<1>2. EndedTo(s, 0) = << >> /\ BatchesTo(s, 0) = << >>  BY <1>1, EndedIs, BatchesIs
<1>3. \A j \in Ends(s) : OwnTo(s, s[j].file, 0) = << >>  BY <1>1, OwnIs
<1>4. Ordered => l = Unnamed(0)  BY DEF Unnamed
<1>5. CurIs(<< >>, 1)  BY <1>3 DEF CurIs
<1> QED BY <1>1, <1>2, <1>4, <1>5 DEF At

LEMMA AtLast ==
    ASSUME archive \in Archives, NEW p, NEW c, NEW l, NEW lab, NEW n, At(p, c, l, lab, n),
           \A j \in Ends(Stream) : j < p
    PROVE  c = << >> /\ n = Len(Contents)
<1> DEFINE s == Stream  a == p - 1  b == Len(s)
<1>1. s \in Seq(RecordType) /\ b \in Nat /\ Ends(s) \subseteq 1..b  BY StreamIs
<1>2. p \in 1..(b + 1)  BY DEF At
<1>3. a \in 0..b /\ b \in a..b /\ \A k \in (a + 1)..b : k \notin Ends(s)
  <2>1. \A k \in (a + 1)..b : ~ (k < p)  BY <1>1, <1>2
  <2> QED BY <1>1, <1>2, <2>1
<1>4. n = Len(EndedTo(s, a))  BY DEF At
<1> HIDE DEF s, a
<1>5. EndedTo(s, b) = EndedTo(s, a)
  <2>1. (\A k \in (a + 1)..b : k \notin Ends(s)) => EndedTo(s, b) = EndedTo(s, a)  BY <1>1, <1>3, EndedIs
  <2> QED BY <1>3, <2>1
<1> QED BY <1>4, <1>5 DEF Contents, s, At, CurIs

-----------------------------------------------------------------------------
(* The steps *)

RightNext ==
    /\ Right(emitted')
    /\ phase' = "walk" => At(pos', cur', left', labelled', Len(emitted'))
    /\ phase' \in {"done", "serving"} /\ call.limit = NoLimit => Len(emitted') = Len(Contents)

LEMMA CleanAfter ==
    ASSUME archive \in Archives, Clean, call.walk = "extract", NEW i \in Records
    PROVE  /\ Tag(i) # "f" => After(i) = i + 1
           /\ Tag(i) = "f" => After(i) = i + 1 \/ (After(i) = 0 /\ i = Len(Stream))
<1>1. /\ i \in Nat /\ i <= Len(Stream) /\ Len(Stream) \in Nat /\ 0 < i
      /\ \A k \in Records : Tag(k) \in {"m", "n", "f"}
  BY TagIs
<1>2. \A k \in Records : (Sound(k) <=> Tag(k) # "f") /\ (Signed(k) <=> Tag(k) # "f")
  BY <1>1 DEF Clean, Sound, Signed, TypeByte
<1>3. CASE Tag(i) # "f"  BY <1>2, <1>3 DEF After
<1>4. CASE Tag(i) = "f"
  <2> DEFINE S == Near(i) \cap Starts
  <2>1. After(i) = Smallest(S)  BY <1>2, <1>4 DEF After, NextRecord
  <2>2. i + 1 \in Near(i) /\ Near(i) \subseteq Nat /\ \A k \in Near(i) : i + 1 <= k
    BY <1>1, ArchivesAssumption DEF Near
  <2>3. CASE i = Len(Stream)
    <3>1. \A k \in Starts : k <= Len(Stream) + 1  BY <1>1 DEF Starts, Records
    <3>2. \A k \in S : k = i + 1  BY <1>1, <2>2, <2>3, <3>1
    <3>3. CASE S = {}  BY <1>4, <2>1, <2>3, <3>3 DEF Smallest
    <3>4. CASE S # {}
      <4>1. S \subseteq Nat  BY <2>2
      <4> HIDE DEF S
      <4>2. Smallest(S) \in S  BY <3>4, <4>1, SmallestOfNat
      <4> QED BY <1>4, <2>1, <3>2, <4>2
    <3> QED BY <3>3, <3>4
  <2>4. CASE i # Len(Stream)
    <3>1. i \in 1..(Len(Stream) - 1) /\ i + 1 \in Records  BY <1>1, <2>4 DEF Records
    <3>2. Tag(i + 1) # "f"  BY <1>4, <3>1, LayoutAssumption DEF Tag, Stream
    <3>3. i + 1 \in S  BY <1>2, <2>2, <3>1, <3>2 DEF Starts
    <3>4. S \subseteq Nat /\ S # {} /\ \A k \in S : i + 1 <= k  BY <2>2, <3>3
    <3> HIDE DEF S
    <3>5. Smallest(S) \in S /\ \A x \in S : Smallest(S) <= x  BY <3>4, SmallestOfNat
    <3>6. Smallest(S) = i + 1
      <4>1. Smallest(S) \in Nat /\ Smallest(S) <= i + 1 /\ i + 1 <= Smallest(S)  BY <3>3, <3>4, <3>5
      <4> QED BY <1>1, <4>1
    <3> QED BY <1>4, <2>1, <3>6
  <2> QED BY <2>3, <2>4
<1> QED BY <1>3, <1>4

LEMMA CleanSearch ==
    ASSUME archive \in Archives, Clean, call.walk = "index", NEW i \in Records, Tag(i) = "f",
           NEW p, p = IF NextChunk(i) = 0 THEN Len(Stream) + 1 ELSE NextChunk(i)
    PROVE  p \in (i + 1)..(Len(Stream) + 1) /\ \A k \in (i + 1)..(p - 1) : ~ Firm(k)
<1>1. i \in Nat /\ i <= Len(Stream) /\ Len(Stream) \in Nat /\ 0 < i  BY TagIs
<1> DEFINE S == {j \in Near(i) \cap Records : Tag(j) = "m" /\ Sound(j)}
<1>2. NextChunk(i) = Smallest(S)  BY DEF NextChunk
<1>3. S \subseteq Nat \ {0}  BY <1>1 DEF Records
<1>4. CASE NextChunk(i) = 0
  <2>1. S = {}
    <3>1. S \subseteq Nat  BY <1>3
    <3> HIDE DEF S
    <3>2. S # {} => Smallest(S) \in S  BY <3>1, SmallestOfNat
    <3> QED BY <1>2, <1>3, <1>4, <3>2
  <2>2. ASSUME NEW k \in (i + 1)..Len(Stream), Firm(k) PROVE FALSE
    <3>1. Tag(k) = "m"  BY <2>2 DEF Firm
    <3>2. PICK h \in (i + 1)..(i + Lookahead) : h <= k /\ Tag(h) = "m"
      <4>1. i \in 1..Len(Stream)  BY DEF Records
      <4> QED BY <3>1, <4>1, BatchesAssumption DEF Tag, Stream
    <3>3. h \in Records /\ h \in Near(i)  BY <1>1, <2>2, <3>2, ArchivesAssumption DEF Records, Near
    <3>4. Sound(h)  BY <3>2, <3>3 DEF Clean, Sound, Signed, TypeByte
    <3> QED BY <2>1, <3>2, <3>3, <3>4
  <2> QED BY <1>1, <1>4, <2>2
<1>5. CASE NextChunk(i) # 0
  <2>1. S # {}  BY <1>2, <1>5 DEF Smallest
  <2>2. NextChunk(i) \in S
    <3>1. S \subseteq Nat  BY <1>3
    <3> HIDE DEF S
    <3> QED BY <1>2, <2>1, <3>1, SmallestOfNat
  <2>3. NextChunk(i) \in Records /\ i < NextChunk(i)  BY <1>1, <2>2, ArchivesAssumption DEF Near
  <2>4. \A k \in (i + 1)..(NextChunk(i) - 1) : ~ Firm(k)  BY <1>5, Searches DEF Jumps
  <2> QED BY <1>1, <1>5, <2>3, <2>4 DEF Records
<1> QED BY <1>4, <1>5

LEMMA EmitClean ==
    ASSUME WalkTypes, Right(emitted), NEW i \in Records, Tag(i) = "n",
           At(i, cur, left, labelled, Len(emitted)), phase = "walk", Emit(i + 1), UNCHANGED labelled
    PROVE  RightNext
<1> DEFINE n == Len(emitted)
<1>0. archive \in Archives /\ emitted \in Seq(FileType) /\ n \in Nat /\ i + 1 # 0
  BY LenProperties, TagIs DEF WalkTypes
<1>1. \/ cur = << >> /\ At(i + 1, << >>, left, labelled, n)
      \/ /\ cur # << >> /\ n + 1 <= Len(Contents) /\ cur = Own(Contents[n + 1])
         /\ \A l2 : (Ordered => l2 = Unnamed(n + 1)) => At(i + 1, << >>, l2, labelled, n + 1)
  BY <1>0, PassEnd
<1>2. CASE phase' = "raised" /\ UNCHANGED emitted  BY <1>2 DEF RightNext
<1>3. CASE cur = << >> /\ emitted' = emitted /\ left' = left /\ cur' = << >> /\ Proceed(i + 1)
  BY <1>0, <1>1, <1>3 DEF RightNext, Proceed
<1>4. CASE /\ cur # << >> /\ emitted' = Append(emitted, [chunks |-> cur, rec |-> Named, meta |-> 0])
           /\ left' = left \ {Named} /\ cur' = << >> /\ Proceed(i + 1)
  <2> DEFINE new == [chunks |-> cur, rec |-> Named, meta |-> 0]
  <2>1. new \in FileType
    <3>1. Named \in left \cup {0}  BY NamedType
    <3>2. Named \in Nat /\ cur \in Seq(ChunkType)  BY <3>1 DEF WalkTypes
    <3> QED BY <3>2 DEF FileType
  <2>2. new.chunks = cur /\ new.rec = Named /\ new.meta = 0  OBVIOUS
  <2> HIDE DEF new
  <2>3. /\ Len(emitted') = n + 1 /\ emitted'[n + 1] = new
        /\ \A e \in 1..n : emitted'[e] = emitted[e]
    BY <1>0, <1>4, <2>1 DEF new
  <2>4. /\ n + 1 <= Len(Contents) /\ cur = Own(Contents[n + 1])
        /\ \A l2 : (Ordered => l2 = Unnamed(n + 1)) => At(i + 1, << >>, l2, labelled, n + 1)
    BY <1>1, <1>4
  <2>5. Ordered => Named # 0 /\ archive.tree[Named].file = Contents[n + 1] /\ left' = Unnamed(n + 1)
    <3> SUFFICES ASSUME Ordered
                 PROVE  Named # 0 /\ archive.tree[Named].file = Contents[n + 1] /\ left' = Unnamed(n + 1)
      OBVIOUS
    <3>1. left = Unnamed(n) /\ SizesAgree  BY DEF At, Ordered
    <3> QED BY <1>0, <1>4, <2>4, <3>1, NameRight
  <2>6. Right(emitted')
    <3> SUFFICES ASSUME NEW e \in 1..(n + 1)
                 PROVE  /\ e <= Len(Contents) /\ emitted'[e].chunks = Own(Contents[e])
                        /\ emitted'[e].meta \in {0, Contents[e]}
                        /\ Ordered => emitted'[e].rec # 0 /\ archive.tree[emitted'[e].rec].file = Contents[e]
      BY <2>3 DEF Right
    <3>1. CASE e \in 1..n  BY <2>3, <3>1 DEF Right
    <3>2. CASE e = n + 1  BY <2>2, <2>3, <2>4, <2>5, <3>2
    <3> QED BY <1>0, <3>1, <3>2
  <2>7. At(i + 1, << >>, left', labelled, n + 1)  BY <2>4, <2>5
  <2> HIDE DEF n
  <2> QED BY <1>0, <1>4, <2>3, <2>6, <2>7 DEF RightNext, Proceed
<1> QED BY <1>2, <1>3, <1>4 DEF Emit, EmitAnd

LEMMA BatchClean ==
    ASSUME WalkTypes, Clean, Regular, Right(emitted), NEW i \in Records, Tag(i) = "f", call.walk = "extract",
           At(i, cur, left, labelled, Len(emitted)), phase = "walk", ExtractBatch(i)
    PROVE  RightNext
<1> DEFINE n == Len(emitted)  batch == Stream[i].batch  F == [e \in 1..Len(emitted) |->
                     IF e \in (labelled + 1)..(labelled + Len(batch))
                     THEN [emitted[e] EXCEPT !.meta = batch[e - labelled]] ELSE emitted[e]]
<1>0. archive \in Archives /\ emitted \in Seq(FileType) /\ n \in Nat  BY LenProperties DEF WalkTypes
<1>1. n = Len(EndedTo(Stream, i - 1)) /\ labelled = Len(BatchesTo(Stream, i - 1))  BY DEF At
<1>2. /\ batch \in Seq(Nat) /\ labelled \in Nat /\ Len(batch) \in Nat /\ labelled + Len(batch) <= n
      /\ \A e \in (labelled + 1)..(labelled + Len(batch)) : e <= Len(Contents) /\ batch[e - labelled] = Contents[e]
  <2>1. batch = Stream[i].batch  OBVIOUS
  <2> DEFINE m == Len(EndedTo(Stream, i - 1))
  <2> HIDE DEF batch, n, m
  <2>2. batch \in Seq(Nat) /\ labelled \in Nat /\ Len(batch) \in Nat  BY <1>0, <1>1, <2>1, BatchLabels
  <2>3. labelled + Len(batch) <= m  BY <1>0, <1>1, <2>1, BatchLabels DEF m
  <2>4. Labels(labelled, batch)  BY <1>0, <1>1, <2>1, BatchLabels
  <2> QED BY <1>1, <2>2, <2>3, <2>4 DEF m, Labels
<1>3. ApplyBatch(batch)
  <2>1. damage[i] = "none"  BY DEF Clean
  <2>2. PICK k \in 0..Len(batch) : k = Len(batch) /\ ApplyBatch(SubSeq(batch, 1, k))
    BY <2>1 DEF ExtractBatch
  <2> HIDE DEF batch
  <2>3. SubSeq(batch, 1, Len(batch)) = batch  BY <1>2, SubSeqFull
  <2> QED BY <2>2, <2>3
<1>4. emitted' = F  BY <1>3 DEF ApplyBatch, Label
<1>5. labelled' = labelled + Len(batch)
  <2> DEFINE S == {labelled + Len(batch), n}
  <2>1. labelled' = Smallest(S)  BY <1>3 DEF ApplyBatch, Smallest
  <2>2. S \subseteq Nat /\ S # {}  BY <1>0, <1>2
  <2>3. labelled + Len(batch) \in S /\ \A x \in S : labelled + Len(batch) <= x  BY <1>0, <1>2
  <2> HIDE DEF S, batch
  <2>4. Smallest(S) \in S /\ \A x \in S : Smallest(S) <= x  BY <2>2, SmallestOfNat
  <2>5. Smallest(S) \in Nat  BY <2>2, <2>4
  <2>6. labelled + Len(batch) \in Nat
    <3> DEFINE d == Len(batch)
    <3>1. labelled \in Nat /\ d \in Nat  BY <1>2
    <3> HIDE DEF d
    <3>2. labelled + d \in Nat  BY <3>1
    <3> QED BY <3>2 DEF d
  <2> QED BY <2>1, <2>3, <2>4, <2>5, <2>6
<1>6. After(i) = i + 1 /\ pos' = i + 1 /\ UNCHANGED <<phase, cur, left>>
  <2>1. After(i) # 0 /\ pos' = After(i) /\ UNCHANGED <<phase, cur, left>>
    BY DEF ExtractBatch, Extracting
  <2> QED BY <1>0, <2>1, CleanAfter
<1>7. Len(F) = n /\ \A e \in 1..n : emitted[e] \in FileType  BY <1>0
<1>8. ASSUME NEW e \in 1..n
      PROVE  /\ e <= Len(Contents) /\ F[e].chunks = Own(Contents[e]) /\ F[e].meta \in {0, Contents[e]}
             /\ Ordered => F[e].rec # 0 /\ archive.tree[F[e].rec].file = Contents[e]
  <2>1. emitted[e] \in FileType  BY <1>7
  <2> DEFINE x == emitted[e]
  <2>2. F[e].chunks = x.chunks /\ F[e].rec = x.rec  BY <2>1 DEF FileType
  <2>3. F[e].meta \in {x.meta, Contents[e]}
    <3>1. CASE e \in (labelled + 1)..(labelled + Len(batch))
      <4>1. F[e].meta = batch[e - labelled]  BY <2>1, <3>1 DEF FileType
      <4>2. batch[e - labelled] = Contents[e]  BY <1>2, <3>1
      <4> QED BY <4>1, <4>2
    <3>2. CASE e \notin (labelled + 1)..(labelled + Len(batch))  BY <3>2
    <3> QED BY <3>1, <3>2
  <2> HIDE DEF F
  <2> QED BY <2>2, <2>3 DEF Right
<1> HIDE DEF F
<1>9. Right(emitted')  BY <1>4, <1>7, <1>8 DEF Right
<1>10. At(i + 1, cur, left, labelled', n)
  <2>1. i + 1 \in (i + 1)..(Len(Stream) + 1) /\ \A k \in (i + 1)..((i + 1) - 1) : ~ Firm(k)
    BY <1>0, TagIs
  <2> HIDE DEF n, batch
  <2> QED BY <1>0, <1>5, <2>1, PassBatch DEF n, batch
<1> QED BY <1>4, <1>6, <1>7, <1>9, <1>10 DEF RightNext

CleanInv ==
    Regular => /\ Right(emitted)
               /\ phase = "walk" => At(pos, cur, left, labelled, Len(emitted))
               /\ Ended => Len(emitted) = Len(Contents)

LEMMA BeginClean ==
    ASSUME WalkTypes, Base, Right(emitted), Begin
    PROVE  RightNext
<1>1. archive \in Archives /\ pos = 1 /\ cur = << >> /\ emitted = << >> /\ labelled = 0
  <2>1. phase = "begin"  BY DEF Begin
  <2>2. emitted = << >> /\ pos = 1 /\ cur = << >>  BY <2>1 DEF Base
  <2>3. Len(emitted) = 0  BY <2>2
  <2>4. labelled \in Nat /\ labelled <= 0  BY <2>3 DEF WalkTypes
  <2> QED BY <2>2, <2>4 DEF WalkTypes
<1>2. UNCHANGED <<pos, cur, emitted, labelled>> /\ phase' \in {"walk", "raised"}  BY DEF Begin
<1>3. phase' = "walk" /\ readable => left' = {r \in 1..Len(archive.tree) : archive.tree[r].size > 0}
  BY DEF Begin
<1>4. phase' = "walk" => At(1, << >>, left', 0, 0)
  <2> SUFFICES ASSUME phase' = "walk" PROVE At(1, << >>, left', 0, 0)  OBVIOUS
  <2>1. Ordered => left' = {r \in 1..Len(archive.tree) : archive.tree[r].size > 0}  BY <1>3 DEF Ordered
  <2> QED BY <1>1, <2>1, AtStart
<1>5. Len(emitted') = 0  BY <1>1, <1>2
<1> QED BY <1>1, <1>2, <1>4, <1>5 DEF RightNext

LEMMA IndexClean ==
    ASSUME WalkTypes, Base, Regular, Right(emitted), NEW i \in Records, Indexing(i),
           At(i, cur, left, labelled, Len(emitted)),
           IndexChunk(i) \/ IndexEnd(i) \/ IndexStop(i) \/ IndexRaise(i) \/ IndexSearch(i)
    PROVE  RightNext
<1>1. /\ archive \in Archives /\ phase = "walk" /\ pos = i /\ call.walk = "index" /\ UNCHANGED labelled
      /\ Clean /\ damage[i] = "none" /\ TypeByte(i) = Tag(i) /\ Tag(i) \in {"m", "n", "f"}
  <2>1. archive \in Archives /\ Clean  BY DEF WalkTypes, Regular
  <2>2. damage[i] = "none"  BY <2>1 DEF Clean
  <2> QED BY <2>1, <2>2, TagIs DEF Indexing, TypeByte
<1>2. CASE IndexChunk(i)
  <2>1. cur' = Append(cur, Chunk(i)) /\ pos' = i + 1 /\ UNCHANGED <<phase, left, emitted>> /\ Tag(i) = "m"
    BY <1>1, <1>2 DEF IndexChunk, Collect
  <2>2. At(i + 1, Append(cur, Chunk(i)), left, labelled, Len(emitted))  BY <1>1, <2>1, PassChunk
  <2> QED BY <1>1, <2>1, <2>2 DEF RightNext
<1>3. CASE IndexEnd(i)
  <2>1. Emit(i + 1) /\ Tag(i) = "n"  BY <1>1, <1>3 DEF IndexEnd
  <2> QED BY <1>1, <2>1, EmitClean
<1>4. CASE IndexStop(i) \/ IndexRaise(i)
  BY <1>1, <1>4 DEF IndexStop, IndexRaise, Stops, Inflates
<1>5. CASE IndexSearch(i)
  <2>1. Tag(i) = "f"  BY <1>1, <1>5 DEF IndexSearch
  <2> DEFINE p == IF NextChunk(i) = 0 THEN Len(Stream) + 1 ELSE NextChunk(i)
  <2>2. p \in (i + 1)..(Len(Stream) + 1) /\ \A k \in (i + 1)..(p - 1) : ~ Firm(k)
    BY <1>1, <2>1, CleanSearch
  <2>3. At(p, cur, left, labelled, Len(emitted))
    <3> HIDE DEF p
    <3> QED BY <1>1, <2>1, <2>2, PassBatch
  <2>4. CASE NextChunk(i) = 0
    <3>1. phase' = "done" /\ UNCHANGED <<pos, cur, left, emitted>>  BY <1>5, <2>4 DEF IndexSearch, Finish
    <3>2. \A j \in Ends(Stream) : j < p  BY <1>1, <2>4, StreamIs
    <3>3. Len(emitted) = Len(Contents)
      <4> HIDE DEF p
      <4> QED BY <1>1, <2>3, <3>2, AtLast
    <3> QED BY <3>1, <3>3 DEF RightNext
  <2>5. CASE NextChunk(i) # 0
    <3>1. pos' = p /\ UNCHANGED <<phase, cur, left, emitted>>  BY <1>5, <2>5 DEF IndexSearch, Pass
    <3> QED BY <1>1, <2>3, <3>1 DEF RightNext
  <2> QED BY <2>4, <2>5
<1> QED BY <1>2, <1>3, <1>4, <1>5

LEMMA ExtractClean ==
    ASSUME WalkTypes, Base, Regular, Right(emitted), NEW i \in Records, Extracting(i),
           At(i, cur, left, labelled, Len(emitted)),
           ExtractChunk(i) \/ ExtractEnd(i) \/ ExtractBatch(i) \/ ExtractSkip(i)
    PROVE  RightNext
<1>1. /\ archive \in Archives /\ phase = "walk" /\ pos = i /\ call.walk = "extract" /\ After(i) # 0
      /\ Clean /\ damage[i] = "none" /\ TypeByte(i) = Tag(i) /\ Tag(i) \in {"m", "n", "f"}
  <2>1. archive \in Archives /\ Clean  BY DEF WalkTypes, Regular
  <2>2. damage[i] = "none"  BY <2>1 DEF Clean
  <2> QED BY <2>1, <2>2, TagIs DEF Extracting, TypeByte
<1>2. After(i) = i + 1  BY <1>1, CleanAfter
<1>3. CASE ExtractChunk(i)
  <2>1. Tag(i) = "m" /\ Sound(i)  BY <1>1, <1>3 DEF ExtractChunk, Sound, Signed
  <2>2. cur' = Append(cur, Chunk(i)) /\ pos' = i + 1 /\ UNCHANGED <<phase, left, emitted, labelled>>
    BY <1>2, <1>3, <2>1 DEF ExtractChunk, Collect
  <2>3. At(i + 1, Append(cur, Chunk(i)), left, labelled, Len(emitted))  BY <1>1, <2>1, PassChunk
  <2> QED BY <1>1, <2>2, <2>3 DEF RightNext
<1>4. CASE ExtractEnd(i)
  <2>1. Emit(i + 1) /\ Tag(i) = "n" /\ UNCHANGED labelled  BY <1>1, <1>2, <1>4 DEF ExtractEnd
  <2> QED BY <1>1, <2>1, EmitClean
<1>5. CASE ExtractBatch(i)
  <2>1. Tag(i) = "f"  BY <1>1, <1>5 DEF ExtractBatch
  <2> QED BY <1>1, <1>5, <2>1, BatchClean
<1>6. CASE ExtractSkip(i)  BY <1>1, <1>6 DEF ExtractSkip
<1> QED BY <1>3, <1>4, <1>5, <1>6

LEMMA DoneClean ==
    ASSUME WalkTypes, Base, Regular, Right(emitted), phase = "walk",
           At(pos, cur, left, labelled, Len(emitted)), IndexDone \/ ExtractDone
    PROVE  RightNext
<1>1. archive \in Archives /\ Clean /\ pos \in Nat \ {0}  BY DEF WalkTypes, Regular, Base
<1>2. \A j \in Ends(Stream) : j < pos
  <2>1. /\ Len(Stream) \in Nat /\ Ends(Stream) \subseteq 1..Len(Stream)
        /\ \A j \in Ends(Stream) : j \in Nat /\ Tag(j) = "n"
    BY <1>1, StreamIs DEF Tag
  <2>2. CASE pos > Len(Stream)  BY <1>1, <2>1, <2>2
  <2>3. CASE ~ (pos > Len(Stream))
    <3>1. ExtractDone  BY <2>3 DEF IndexDone
    <3>2. pos \in Records  BY <1>1, <2>1, <2>3 DEF Records
    <3>3. After(pos) = 0 /\ call.walk = "extract"  BY <3>1, <3>2 DEF ExtractDone
    <3>4. Tag(pos) = "f" /\ pos = Len(Stream)  BY <1>1, <3>2, <3>3, CleanAfter
    <3> QED BY <1>1, <2>1, <3>4
  <2> QED BY <2>2, <2>3
<1>3. cur = << >> /\ Len(emitted) = Len(Contents)  BY <1>1, <1>2, AtLast
<1>4. phase' = "done" /\ emitted' = emitted
  <2>1. CASE IndexDone  BY <2>1 DEF IndexDone, Finish
  <2>2. CASE ExtractDone  BY <1>3, <2>2 DEF ExtractDone, Emit, EmitAnd, Proceed
  <2> QED BY <2>1, <2>2
<1> QED BY <1>3, <1>4 DEF RightNext

LEMMA NextClean ==
    ASSUME WalkTypes, Base, CleanInv, [Next]_vars
    PROVE  CleanInv'
<1>1. CASE UNCHANGED vars
  BY <1>1 DEF vars, CleanInv, Regular, Clean, Inside, Records, Tag, Stream, Right, At, CurIs, Unnamed, Ordered,
              SizesAgree, Ended, Contents, Own
<1>2. CASE Next
  <2>1. UNCHANGED <<archive, damage, readable, call>>
    <3> USE DEF Fixed
    <3>1. CASE Begin \/ IndexDone \/ ExtractDone \/ Serve  BY <3>1 DEF Begin, IndexDone, ExtractDone, Serve
    <3>2. ASSUME NEW i \in Records,
                 IndexChunk(i) \/ IndexEnd(i) \/ IndexStop(i) \/ IndexRaise(i) \/ IndexSearch(i)
                 \/ ExtractChunk(i) \/ ExtractEnd(i) \/ ExtractBatch(i) \/ ExtractSkip(i)
          PROVE  UNCHANGED <<archive, damage, readable, call>>
      BY <3>2 DEF IndexChunk, IndexEnd, IndexStop, IndexRaise, IndexSearch, Indexing,
                  ExtractChunk, ExtractEnd, ExtractBatch, ExtractSkip, Extracting
    <3> QED BY <1>2, <3>1, <3>2 DEF Next
  <2>2. Regular => RightNext
    <3> SUFFICES ASSUME Regular PROVE RightNext  OBVIOUS
    <3>1. /\ Right(emitted) /\ (phase = "walk" => At(pos, cur, left, labelled, Len(emitted)))
          /\ (Ended => Len(emitted) = Len(Contents))
      BY DEF CleanInv
    <3>2. CASE Begin  BY <3>1, <3>2, BeginClean
    <3>3. CASE Serve
      <4>1. phase = "done" /\ phase' = "serving" /\ UNCHANGED emitted  BY <3>3 DEF Serve
      <4> QED BY <3>1, <4>1 DEF Ended, RightNext
    <3>4. CASE IndexDone \/ ExtractDone
      <4>1. phase = "walk"  BY <3>4 DEF IndexDone, ExtractDone
      <4> QED BY <3>1, <3>4, <4>1, DoneClean
    <3>5. ASSUME NEW i \in Records,
                 IndexChunk(i) \/ IndexEnd(i) \/ IndexStop(i) \/ IndexRaise(i) \/ IndexSearch(i)
          PROVE  RightNext
      <4>1. Indexing(i) /\ phase = "walk" /\ pos = i
        BY <3>5 DEF IndexChunk, IndexEnd, IndexStop, IndexRaise, IndexSearch, Indexing
      <4> QED BY <3>1, <3>5, <4>1, IndexClean
    <3>6. ASSUME NEW i \in Records,
                 ExtractChunk(i) \/ ExtractEnd(i) \/ ExtractBatch(i) \/ ExtractSkip(i)
          PROVE  RightNext
      <4>1. Extracting(i) /\ phase = "walk" /\ pos = i
        BY <3>6 DEF ExtractChunk, ExtractEnd, ExtractBatch, ExtractSkip, Extracting
      <4> QED BY <3>1, <3>6, <4>1, ExtractClean
    <3> QED BY <1>2, <3>2, <3>3, <3>4, <3>5, <3>6 DEF Next
  <2>3. /\ Regular' <=> Regular
        /\ Right(emitted)' <=> Right(emitted')
        /\ At(pos, cur, left, labelled, Len(emitted))' <=> At(pos', cur', left', labelled', Len(emitted'))
        /\ Contents' = Contents /\ (Ended' <=> phase' \in {"done", "serving"} /\ call.limit = NoLimit)
    BY <2>1 DEF Regular, Clean, Inside, Records, Tag, Stream, Right, At, CurIs, Unnamed, Ordered,
                SizesAgree, Ended, Contents, Own
  <2> QED BY <2>2, <2>3 DEF CleanInv, RightNext
<1> QED BY <1>1, <1>2

(* The index notes no metadata. *)
NoMeta == call.walk = "index" => \A e \in 1..Len(emitted) : emitted[e].meta = 0

LEMMA EmitMeta ==
    ASSUME WalkTypes, NoMeta, NEW next, Emit(next), UNCHANGED call
    PROVE  NoMeta'
<1>1. CASE UNCHANGED emitted  BY <1>1 DEF NoMeta
<1>2. CASE emitted' = Append(emitted, [chunks |-> cur, rec |-> Named, meta |-> 0])
  <2> DEFINE new == [chunks |-> cur, rec |-> Named, meta |-> 0]
  <2>1. new \in FileType
    <3>1. Named \in left \cup {0}  BY NamedType
    <3>2. Named \in Nat /\ cur \in Seq(ChunkType)  BY <3>1 DEF WalkTypes
    <3> QED BY <3>2 DEF FileType
  <2>2. new.meta = 0 /\ emitted \in Seq(FileType)  BY DEF WalkTypes
  <2> HIDE DEF new
  <2>3. /\ Len(emitted') = Len(emitted) + 1 /\ Len(emitted) \in Nat
        /\ \A e \in 1..Len(emitted) : emitted'[e] = emitted[e]
        /\ emitted'[Len(emitted) + 1] = new
    BY <1>2, <2>1, <2>2, LenProperties DEF new
  <2> QED BY <2>2, <2>3 DEF NoMeta
<1> QED BY <1>1, <1>2 DEF Emit, EmitAnd

LEMMA NextMeta == ASSUME WalkTypes, NoMeta, [Next]_vars PROVE NoMeta'
<1> USE DEF Fixed
<1>1. CASE UNCHANGED <<call, emitted>>  BY <1>1 DEF NoMeta
<1>2. CASE Begin \/ IndexDone \/ Serve  BY <1>1, <1>2 DEF Begin, IndexDone, Finish, Serve
<1>3. CASE ExtractDone  BY <1>3, EmitMeta DEF ExtractDone
<1>4. ASSUME NEW i \in Records, IndexChunk(i) \/ IndexStop(i) \/ IndexRaise(i) \/ IndexSearch(i) PROVE NoMeta'
  BY <1>1, <1>4 DEF IndexChunk, IndexStop, IndexRaise, IndexSearch, Indexing, Collect, Finish, Raise, Pass
<1>5. ASSUME NEW i \in Records, IndexEnd(i) PROVE NoMeta'  BY <1>5, EmitMeta DEF IndexEnd, Indexing
<1>6. ASSUME NEW i \in Records, ExtractChunk(i) \/ ExtractEnd(i) \/ ExtractBatch(i) \/ ExtractSkip(i)
      PROVE  NoMeta'
  <2>1. call.walk = "extract" /\ UNCHANGED call
    BY <1>6 DEF ExtractChunk, ExtractEnd, ExtractBatch, ExtractSkip, Extracting
  <2> QED BY <2>1 DEF NoMeta
<1> QED BY <1>1, <1>2, <1>3, <1>4, <1>5, <1>6 DEF Next, vars

LEMMA CleanHolds == ASSUME WalkTypes, CleanInv, NoMeta, Base PROVE CleanIsExact
<1> SUFFICES ASSUME Clean PROVE CleanIsExact  BY DEF CleanIsExact
<1>1. archive \in Archives /\ Len(emitted) \in Nat  BY LenProperties DEF WalkTypes
<1>2. ASSUME Regular, NEW e \in 1..Len(emitted)
      PROVE  emitted[e].meta \in {0, Stream[emitted[e].chunks[1].at].file}
  <2>1. /\ e <= Len(Contents) /\ emitted[e].chunks = Own(Contents[e])
        /\ emitted[e].meta \in {0, Contents[e]}
    BY <1>2 DEF CleanInv, Right
  <2>2. e \in 1..Len(Contents)  BY <1>1, <2>1, AllContents
  <2>3. PICK i \in Ends(Stream) : Contents[e] = Stream[i].file  BY <1>1, <2>2, AllContents
  <2>4. PICK k \in 1..(i - 1) : /\ IsChunk(Stream, Stream[i].file, k)
                                /\ OwnTo(Stream, Stream[i].file, Len(Stream))[1] = Chunk(k)
    BY <1>1, ChunksOfEnd DEF Stream
  <2>5. emitted[e].chunks[1].at = k  BY <2>1, <2>3, <2>4 DEF Own, Chunk
  <2> QED BY <2>1, <2>3, <2>4, <2>5 DEF IsChunk
<1>3. ASSUME ~ Regular PROVE call.walk = "index"  BY <1>3 DEF Regular
<1> QED BY <1>2, <1>3 DEF CleanIsExact, Regular, CleanInv, Right, Ordered, NoMeta

(* An undamaged archive is read exactly, by both walks and whatever archive: *)
(* every file with content, in order, with its own chunks, its own name as   *)
(* long as files of one size come in tree order, and its own metadata        *)
(* (build_index, extract_files, apply_batch).                                *)
THEOREM CleanForAll == Spec => []CleanIsExact
<1>1. Init => NamesInv /\ Fresh /\ Base /\ CleanInv /\ NoMeta
  <2>1. Init => NamesInv /\ Fresh /\ Base  BY InitNames, InitBase DEF Init, Fresh
  <2>2. Init => CleanInv /\ NoMeta  BY DEF Init, CleanInv, Right, Ended, NoMeta
  <2> QED BY <2>1, <2>2
<1>2. NamesInv /\ Fresh /\ Base /\ CleanInv /\ NoMeta /\ [Next]_vars
      => (NamesInv /\ Fresh /\ Base /\ CleanInv /\ NoMeta)'
  <2>1. NamesInv /\ Fresh /\ [Next]_vars => NamesInv' /\ Fresh'  BY NextNames, NextFresh
  <2>2. NamesInv => WalkTypes  BY DEF NamesInv
  <2>3. NamesInv' => WalkTypes'  BY DEF NamesInv
  <2> QED BY <2>1, <2>2, <2>3, NextBase, NextClean, NextMeta
<1>3. NamesInv /\ Base /\ CleanInv /\ NoMeta => CleanIsExact
  BY CleanHolds DEF NamesInv
<1> QED BY <1>1, <1>2, <1>3, PTL DEF Spec
=============================================================================

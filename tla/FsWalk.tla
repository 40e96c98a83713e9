------------------------------- MODULE FsWalk -------------------------------
(***************************************************************************)
(* The two walks over the body of a file-mode archive: build_index of      *)
(* tibread/fs_browse.py, which looks at headers only and notes where the   *)
(* chunks of each file are, and extract_files of tibread/chunkmap_fs.py,   *)
(* which inflates them.  The body is a stream of records: m, a chunk of a  *)
(* file's content; n, the end of a file; f, a batch of metadata of files   *)
(* before it.  No record names its file.  The names are in a tree at the   *)
(* end of the archive, and are given to contents by size, in tree order.   *)
(*                                                                         *)
(* Any record may be damaged, in one of the ways that the two walks tell   *)
(* apart.  A walk is one thread; a step is one record.                     *)
(***************************************************************************)
EXTENDS Integers, FiniteSetsExt, FsTree

CONSTANTS Archives,    \* records [stream, tree, hit], see below
          MaxDamaged,  \* bound on the damaged records
          Lookahead,   \* records that a search for the next one covers
          Limits,      \* max_files of a call, or NoLimit
          NoLimit,
          RawSize,     \* size of a chunk that is a record as it stands
          NotNamed     \* directory of the files without a name

(* stream  records [tag, file, size, batch], in order; file is the number of *)
(*         the file they are of, which no reader is told, and batch the      *)
(*         files whose metadata an f record holds                            *)
(* tree    records [file, path, size] in the order of the tree; the path is  *)
(*         normalised, without its drive                                     *)
(* hit     do bytes behind the body look like the start of a record?         *)

RecordType == [tag : {"m", "n", "f"}, file : Nat, size : Nat, batch : Seq(Nat)]
NameType   == [file : Nat, path : Seq(STRING), size : Nat]

ASSUME ArchivesAssumption ==
    /\ \A a \in Archives : a.stream \in Seq(RecordType) /\ a.tree \in Seq(NameType)
    /\ Lookahead \in Nat \ {0}

Chunk(i) == [at |-> i, raw |-> FALSE]
Raw(i)   == [at |-> i, raw |-> TRUE]

SizeIn(s, cs) == FoldLeft(LAMBDA n, c : n + (IF c.raw THEN RawSize ELSE s[c.at].size), 0, cs)

(* What is in the first n records of a stream s: the chunks of a file, the   *)
(* files with content that end there, and whose metadata there is.           *)
OwnTo(s, y, n) ==
    FlattenSeq([i \in 1..n |-> IF s[i].tag = "m" /\ s[i].file = y THEN <<Chunk(i)>> ELSE << >>])
Ends(s) == {i \in 1..Len(s) : s[i].tag = "n" /\ OwnTo(s, s[i].file, Len(s)) # << >>}
EndedTo(s, n) ==
    LET ends == Ends(s)
    IN  FlattenSeq([i \in 1..n |-> IF i \in ends THEN <<s[i].file>> ELSE << >>])
BatchesTo(s, n) == FlattenSeq([i \in 1..n |-> IF s[i].tag = "f" THEN s[i].batch ELSE << >>])

(* How the archiver writes: the chunks of a file come together and then its  *)
(* only end, and a batch is all there is between two records of contents.    *)
ASSUME LayoutAssumption ==
    \A a \in Archives : LET s == a.stream IN
       /\ \A i, j \in 1..Len(s) :
             s[i].tag = "n" /\ s[j].tag = "n" /\ s[i].file = s[j].file => i = j
       /\ \A i \in 1..Len(s) : s[i].tag = "m" =>
             \E j \in (i + 1)..Len(s) : /\ s[j].tag = "n" /\ s[j].file = s[i].file
                                        /\ \A k \in i..(j - 1) : s[k].tag # "n"
       /\ \A i \in 1..(Len(s) - 1) : s[i].tag = "f" => s[i + 1].tag # "f"

(* Batches are of the files before them, in order, and a search from one     *)
(* reaches the next chunk.                                                   *)
ASSUME BatchesAssumption ==
    \A a \in Archives : LET s == a.stream IN
       \A i \in 1..Len(s) : s[i].tag = "f" =>
          /\ IsPrefix(BatchesTo(s, i), EndedTo(s, i))
          /\ \A j \in (i + 1)..Len(s) : s[j].tag = "m" =>
                \E k \in (i + 1)..(i + Lookahead) : k <= j /\ s[k].tag = "m"

(* In the tree each file with content has one record, with its size.         *)
ASSUME TreeAssumption ==
    \A a \in Archives : LET s == a.stream
                            t == a.tree
                            full == {r \in 1..Len(t) : t[r].size > 0} IN
       /\ \A i \in Ends(s) : \E r \in full :
             t[r].file = s[i].file /\ t[r].size = SizeIn(s, OwnTo(s, s[i].file, Len(s)))
       /\ \A r \in full : \E i \in Ends(s) : s[i].file = t[r].file
       /\ \A q, r \in full : t[q].file = t[r].file => q = r

VARIABLES archive,
          damage,    \* damage[i]: what is wrong with record i
          readable,  \* can the tree be decoded?
          call,      \* which walk, and with which arguments
          phase,
          pos,       \* the next record
          cur,       \* chunks of the file being collected
          left,      \* records of the tree not given away yet (by_size)
          emitted,   \* the files so far: chunks, record of the tree or 0, metadata or 0
          labelled,  \* how many of them have had their turn for metadata
          served     \* the tree that is browsed

vars == <<archive, damage, readable, call, phase, pos, cur, left, emitted, labelled, served>>

Stream    == archive.stream
Records   == 1..Len(Stream)
Tag(i)    == Stream[i].tag
TypeByte(i) == IF damage[i] = "tag" THEN "?" ELSE Tag(i)

(* tag      the type byte is none that is known                              *)
(* magic    no zlib header                                                   *)
(* block    a stored block whose length and complement disagree              *)
(* code     a block that is not stored, and does not inflate                 *)
(* data     content that fails its checksum                                  *)
(* cut      bytes of a batch look like the start of a chunk                  *)
Kinds == [m |-> {"tag", "magic", "block", "code", "data"}, n |-> {"tag", "magic", "code"}, f |-> {"cut"}]

Calls == [walk : {"index"}, limit : {NoLimit}, rename : {FALSE}]
         \cup [walk : {"extract"}, limit : Limits, rename : BOOLEAN]

Init == /\ archive  \in Archives
        /\ \E k \in 0..MaxDamaged : \E S \in kSubset(k, Records) :
              \E kind \in [S -> UNION {Kinds[t] : t \in {"m", "n", "f"}}] :
                 /\ \A i \in S : kind[i] \in Kinds[Tag(i)]
                 /\ damage = [i \in Records |-> IF i \in S THEN kind[i] ELSE "none"]
        /\ readable \in BOOLEAN
        /\ call     \in Calls
        /\ phase    = "begin"
        /\ pos      = 1
        /\ cur      = << >>
        /\ left     = {}
        /\ emitted  = << >>
        /\ labelled = 0
        /\ served   = Root

-----------------------------------------------------------------------------
(* Records *)

Signed(i) == TypeByte(i) \in {"m", "n"} /\ damage[i] # "magic"
Sound(i)  == Signed(i) /\ damage[i] = "none"
Near(i)   == (i + 1)..(i + Lookahead)

(* _skip_zlib_chunk reads the headers of stored blocks; anything else it     *)
(* inflates.                                                                 *)
Skips(i)   == damage[i] \in {"none", "data"}
Stops(i)   == damage[i] \in {"magic", "block"}    \* ValueError
Inflates(i) == damage[i] = "code"                 \* zlib.error

(* Where the search after record i ends, 0 for nowhere: the index wants a    *)
(* chunk that inflates, the extraction any record that begins like one.      *)
Smallest(S) == IF S = {} THEN 0 ELSE Min(S)
NextChunk(i)  == Smallest({j \in Near(i) \cap Records : Tag(j) = "m" /\ Sound(j)})
Starts        == {j \in Records : Signed(j)} \cup (IF archive.hit THEN {Len(Stream) + 1} ELSE {})

NextRecordHere(i) == Smallest(({i} \cup Near(i)) \cap Starts)    \* from its own first byte
NextRecordLast(i) == IF Near(i) \cap Starts = {} THEN 0 ELSE Max(Near(i) \cap Starts)
NextRecord(i)     == Smallest(Near(i) \cap Starts)

-----------------------------------------------------------------------------
(* Files *)

SizeOf(cs) == SizeIn(Stream, cs)

PathOf(es, e) == IF es[e].rec = 0 THEN <<NotNamed, e>> ELSE archive.tree[es[e].rec].path
Paths(es)     == [e \in 1..Len(es) |-> PathOf(es, e)]

(* Writing under its own name fails when a directory of it is a file, or it  *)
(* is itself a directory.                                                    *)
Refused(r) ==
    /\ call.rename /\ r # 0
    /\ \E e \in 1..Len(emitted) :
          emitted[e].rec # 0 /\ LET p == archive.tree[r].path
                                    q == PathOf(emitted, e)
                                IN  Under(p, q) \/ Under(q, p)

Proceed(next) ==
    IF next = 0 \/ (call.limit # NoLimit /\ Len(emitted') >= call.limit)
    THEN phase' = "done" /\ UNCHANGED pos
    ELSE pos' = next /\ UNCHANGED phase

Named == Smallest({r \in left : archive.tree[r].size = SizeOf(cur)})

EmitAnd(next, kept, taken) ==
    IF cur # << >> /\ Refused(Named)
    THEN phase' = "raised" /\ UNCHANGED <<pos, cur, left, emitted>>
    ELSE /\ emitted' = IF cur = << >> THEN emitted
                       ELSE Append(emitted, [chunks |-> cur, rec |-> Named, meta |-> 0])
         /\ left' = IF cur = << >> THEN left ELSE left \ taken
         /\ cur' = kept
         /\ Proceed(next)

EmitKeeping(next)    == EmitAnd(next, cur, {Named})     \* the chunks are not forgotten
EmitNotPopping(next) == EmitAnd(next, << >>, {})        \* the name stays in its bucket

(* End of a file: with no chunks there is nothing to emit. *)
Emit(next) == EmitAnd(next, << >>, {Named})

Collect(c, next) == cur' = Append(cur, c) /\ pos' = next /\ UNCHANGED <<phase, left, emitted>>
Pass(next)       == pos' = next /\ UNCHANGED <<phase, cur, left, emitted>>
Finish           == phase' = "done" /\ UNCHANGED <<pos, cur, left, emitted>>
Raise            == phase' = "raised" /\ UNCHANGED <<pos, cur, left, emitted>>

Fixed == UNCHANGED <<archive, damage, readable, call, served>>

(* Without a tree the extraction numbers its files; the index gives up. *)
Begin == /\ phase = "begin"
         /\ IF readable \/ call.walk = "extract"
            THEN /\ phase' = "walk"
                 /\ left' = IF readable THEN {r \in 1..Len(archive.tree) : archive.tree[r].size > 0}
                                        ELSE {}
            ELSE phase' = "raised" /\ UNCHANGED left
         /\ UNCHANGED <<pos, cur, emitted, labelled>> /\ Fixed

-----------------------------------------------------------------------------
(* build_index *)

Indexing(i) == phase = "walk" /\ call.walk = "index" /\ pos = i /\ i \in Records
               /\ UNCHANGED labelled /\ Fixed

IndexChunk(i) == Indexing(i) /\ TypeByte(i) = "m" /\ Skips(i) /\ Collect(Chunk(i), i + 1)
IndexEnd(i)   == Indexing(i) /\ TypeByte(i) = "n" /\ Skips(i) /\ Emit(i + 1)
IndexStop(i)  == Indexing(i) /\ TypeByte(i) \in {"m", "n"} /\ Stops(i) /\ Finish
IndexRaise(i) == Indexing(i) /\ TypeByte(i) \in {"m", "n"} /\ Inflates(i) /\ Raise

(* In a batch, or a record of no known type: on with the next chunk. *)
IndexSearch(i) ==
    /\ Indexing(i) /\ TypeByte(i) \notin {"m", "n"}
    /\ IF NextChunk(i) = 0 THEN Finish ELSE Pass(NextChunk(i))

IndexDone == /\ phase = "walk" /\ call.walk = "index" /\ pos > Len(Stream)
             /\ Finish /\ UNCHANGED labelled /\ Fixed

-----------------------------------------------------------------------------
(* extract_files over walk_fs_records *)

(* A record that does not inflate reaches to the next that begins like one.  *)
(* When there is none, the walk returns without yielding it.                 *)
After(i) == IF Sound(i) THEN i + 1 ELSE NextRecord(i)

Extracting(i) == phase = "walk" /\ call.walk = "extract" /\ pos = i /\ i \in Records /\ After(i) # 0 /\ Fixed

(* Without a zlib header a record is yielded as it stands, and taken for a   *)
(* chunk by its type byte.                                                   *)
ExtractChunk(i) ==
    /\ Extracting(i) /\ TypeByte(i) = "m" /\ damage[i] \in {"none", "magic"}
    /\ Collect(IF Sound(i) THEN Chunk(i) ELSE Raw(i), After(i))
    /\ UNCHANGED labelled

(* An end of file counts even if it does not inflate. *)
ExtractEnd(i) ==
    Extracting(i) /\ TypeByte(i) = "n" /\ Emit(After(i)) /\ UNCHANGED labelled

Label(batch) == emitted' = [e \in 1..Len(emitted) |->
                              IF e \in (labelled + 1)..(labelled + Len(batch))
                              THEN [emitted[e] EXCEPT !.meta = batch[e - labelled]] ELSE emitted[e]]

(* apply_batch: the files that had no turn yet, from the first of them. *)
ApplyBatch(batch) == Label(batch) /\ labelled' = Min({labelled + Len(batch), Len(emitted)})

ExtractBatch(i) ==
    /\ Extracting(i) /\ TypeByte(i) = "f"
    /\ \E k \in 0..Len(Stream[i].batch) :
          /\ damage[i] = "none" => k = Len(Stream[i].batch)
          /\ ApplyBatch(SubSeq(Stream[i].batch, 1, k))
    /\ pos' = After(i) /\ UNCHANGED <<phase, cur, left>>

ExtractSkip(i) ==
    /\ Extracting(i)
    /\ TypeByte(i) = "?" \/ (TypeByte(i) = "m" /\ damage[i] \notin {"none", "magic"})
    /\ Pass(After(i)) /\ UNCHANGED labelled

(* What was collected without an end of file is emitted too. *)
ExtractDone == /\ phase = "walk" /\ call.walk = "extract"
               /\ pos \in Records => After(pos) = 0
               /\ Emit(0) /\ UNCHANGED labelled /\ Fixed

-----------------------------------------------------------------------------
Serve == /\ phase = "done" /\ call.walk = "index"
         /\ phase' = "serving" /\ served' = BuildTree(Paths(emitted))
         /\ UNCHANGED <<archive, damage, readable, call, pos, cur, left, emitted, labelled>>

Next == Begin \/ IndexDone \/ ExtractDone \/ Serve
        \/ \E i \in Records :
              \/ IndexChunk(i) \/ IndexEnd(i) \/ IndexStop(i) \/ IndexRaise(i) \/ IndexSearch(i)
              \/ ExtractChunk(i) \/ ExtractEnd(i) \/ ExtractBatch(i) \/ ExtractSkip(i)

Spec == Init /\ [][Next]_vars /\ WF_vars(Next)

-----------------------------------------------------------------------------
(* Properties *)

Own(y)   == OwnTo(Stream, y, Len(Stream))
Contents == EndedTo(Stream, Len(Stream))

Clean   == \A i \in Records : damage[i] = "none"
Ended   == phase \in {"done", "serving"} /\ call.limit = NoLimit

(* A batch that stands between the last chunk of a file and its end. *)
Inside(i) == Tag(i) = "f" /\ i + 1 \in Ends(Stream)

(* Files of one size are in the same order in the tree and in the stream. *)
SizesAgree ==
    \A j, k \in 1..Len(Contents) : \A q, r \in 1..Len(archive.tree) :
       /\ archive.tree[q].file = Contents[j] /\ archive.tree[r].file = Contents[k]
       /\ archive.tree[q].size = archive.tree[r].size /\ j < k
       => q < r

(* From an undamaged archive both walks get the same files: every file with  *)
(* content, in order, with its own chunks, under its own name, as long as    *)
(* files of one size come in tree order (build_index, extract_files).  The   *)
(* index relies on batches coming between files; and a file that has         *)
(* metadata has its own, though batches come late (apply_batch).             *)
CleanIsExact ==
    Clean =>
       /\ \A e \in 1..Len(emitted) : emitted[e].meta \in {0, Stream[emitted[e].chunks[1].at].file}
       /\ (call.walk = "index" => \A i \in Records : ~ Inside(i)) =>
             /\ \A e \in 1..Len(emitted) :
                   /\ e <= Len(Contents) /\ emitted[e].chunks = Own(Contents[e])
                   /\ readable /\ SizesAgree => /\ emitted[e].rec # 0
                                                /\ archive.tree[emitted[e].rec].file = Contents[e]
             /\ Ended => Len(emitted) = Len(Contents)

(* Damage reaches no further than the file it is in and the one after it:    *)
(* when a walk has passed a file that is whole, and the file with content    *)
(* before it is whole, the file is there with exactly its chunks             *)
(* (build_index, walk_fs_records).                                           *)
Whole(i) == damage[i] \in {"none", "cut"} /\ (call.walk = "index" => ~ Inside(i))

From(j) == LET before == {i \in Ends(Stream) : i < j}
           IN  IF before = {} THEN 1 ELSE Own(Stream[Max(before)].file)[1].at

DamageIsLocal ==
    \A j \in Ends(Stream) :
       pos > j /\ (\A i \in From(j)..j : Whole(i)) =>
          \E e \in 1..Len(emitted) : emitted[e].chunks = Own(Stream[j].file)

(* Whatever is damaged, no name is given to two contents (by_size).          *)
NamedOnce ==
    \A d, e \in 1..Len(emitted) : emitted[d].rec = emitted[e].rec /\ emitted[d].rec # 0 => d = e

(* A file of the index is found where its path says, unless its path is, or  *)
(* goes through, that of another, or has no name in it; and what is found is *)
(* at its own path in directories all the way up (_build_tree,               *)
(* _resolve_path).                                                           *)
Disturbs(p, q) == p = q \/ Under(p, q) \/ Under(q, p)

ServedIsFound ==
    phase = "serving" =>
       LET ps == Paths(emitted) IN
       /\ \A e \in 1..Len(emitted) :
             ps[e] # << >> /\ (\A d \in (1..Len(emitted)) \ {e} : ~ Disturbs(ps[d], ps[e]))
             => Resolve(served, ps[e]) = {e}
       /\ \A q \in DOMAIN served : /\ served[q] # Dir => ps[served[q]] = q
                                   /\ \A r \in Above(q) : Resolve(served, r) = {Dir}

(* Every walk ends (build_index, walk_fs_records). *)
WalkEnds == <>(phase \in {"done", "raised", "serving"})
=============================================================================

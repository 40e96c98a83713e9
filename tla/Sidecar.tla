------------------------------ MODULE Sidecar ------------------------------
(***************************************************************************)
(* The index files that tibread keeps beside an archive: .tib.idx of a     *)
(* sector-mode archive (tibread/indexer.py and the constructor of          *)
(* TibReader), .fs.idx of a file-mode one (fs_browse.py) and .segidx of a  *)
(* .tibx (tibx/segment_map.py).                                            *)
(*                                                                         *)
(* A process that opens an archive takes the index from the file if it     *)
(* accepts what it finds there, else builds it and writes the file, in     *)
(* place and without a lock.  Processes run side by side, crash, and fail  *)
(* to write; the archive may be replaced.  The three kinds differ in what  *)
(* they accept and in what they do next.                                   *)
(*                                                                         *)
(* An archive is known by its version; versions differ in size or mtime.   *)
(* A file is a sequence of parts, the header first, as far as they were    *)
(* written; a part says of which version it was made and, in the header,   *)
(* which version was there when size and mtime were taken.  Building reads *)
(* the archive in one step.  A file is read in pieces of any size, from    *)
(* the front, while others may truncate it and write it anew.              *)
(***************************************************************************)
EXTENDS Integers, Sequences

CONSTANTS Processes,
          MaxVersion,    \* bound on the replacements of the archive
          Records(_),    \* Records(v): parts of an index of v after the header
          Missing,       \* no such file
          Gap,           \* bytes never written, before others that were
          BadMagic, Truncated,  \* ValueErrors of TibReader's constructor
          NotSaved       \* OSError

ASSUME SidecarAssumption ==
    /\ MaxVersion \in Nat
    /\ \A v \in 0..MaxVersion : Records(v) \in Nat \ {0}

Versions == 0..MaxVersion
Kinds    == {"sector", "files", "segments"}

VARIABLES kind,     \* which index this is
          archive,  \* the version that is there
          file,     \* the index file, or Missing
          pc,       \* pc[p]: where process p is
          call,     \* call[p]: its mode, and the version there when it began
          built,    \* built[p]: the version p walked, and the one p took size and mtime of
          written,  \* written[p]: parts p has written
          fetched,  \* fetched[p]: parts p has read, of the file it is reading
          overtaken,\* overtaken[p]: was that file truncated since p began to read it?
          result,   \* result[p]: the index p got, or what it raised
          shared,   \* have two processes written the file side by side?
          torn      \* did a writer stop in the middle of it?

reading == <<fetched, overtaken>>
vars == <<kind, archive, file, pc, call, built, written, reading, result, shared, torn>>

Labels == {"idle", "load", "read", "build", "stat", "open", "write", "done"}

Part(b, i) == [of |-> b.of, at |-> i, stamp |-> b.stamp]
Length(v)  == 1 + Records(v)
Whole(b)   == [i \in 1..Length(b.of) |-> Part(b, i)]
Builds     == [of : Versions, stamp : Versions]
Parts      == {Gap} \cup UNION {{Part(b, i) : i \in 1..Length(b.of)} : b \in Builds}

NotBuilt  == [of |-> 0, stamp |-> 0]
NoIndex   == << >>
Errors    == {BadMagic, Truncated, NotSaved}

ASSUME ErrorsAssumption ==
    /\ Missing \notin Seq(Parts) /\ \A e \in Errors : e \notin Seq(Parts)
    /\ \A b \in Builds : \A i \in 1..Length(b.of) : Part(b, i) # Gap

Init == /\ kind    \in Kinds
        /\ archive = 0
        /\ file    = Missing
        /\ pc      = [p \in Processes |-> "idle"]
        /\ call    = [p \in Processes |-> [mode |-> "open", at |-> 0]]
        /\ built   = [p \in Processes |-> NotBuilt]
        /\ written = [p \in Processes |-> 0]
        /\ fetched = [p \in Processes |-> << >>]
        /\ overtaken = [p \in Processes |-> FALSE]
        /\ result  = [p \in Processes |-> NoIndex]
        /\ shared  = FALSE
        /\ torn    = FALSE

Goto(p, l)   == pc' = [pc EXCEPT ![p] = l]
Leave(p, l)  == /\ Goto(p, l)
                /\ built'   = [built EXCEPT ![p] = NotBuilt]
                /\ written' = [written EXCEPT ![p] = 0]
End(p, r)    == Leave(p, "done") /\ result' = [result EXCEPT ![p] = r]
Go(p, l)     == Goto(p, l) /\ UNCHANGED <<built, written, result>>
Writing(p)   == pc[p] = "write"
Reading(p)   == pc[p] = "read"
StopReading(p) == /\ fetched'   = [fetched EXCEPT ![p] = << >>]
                  /\ overtaken' = [overtaken EXCEPT ![p] = FALSE]
Alone(p)     == \A q \in Processes \ {p} : ~ Writing(q)

-----------------------------------------------------------------------------
(* What a file is accepted as *)

Headed(f) == f # << >> /\ f[1] # Gap
Enough(f) == Len(f) >= Length(f[1].of)
Taken(f)  == SubSeq(f, 1, Length(f[1].of))

(* JSON ends where the document ends.  What two writers left of one document *)
(* each may by chance be one.                                                *)
Complete(f) == /\ Headed(f) /\ Len(f) = Length(f[1].of)
               /\ \A i \in 1..Len(f) : f[i] # Gap
Uniform(f)  == \A i \in 1..Len(f) : f[i] = [f[1] EXCEPT !.at = i]
Parsed(f, luck) == Complete(f) /\ (Uniform(f) \/ luck)

-----------------------------------------------------------------------------
(* Opening *)

(* build_index with and without force; get_or_build_index with and without  *)
(* use_cache, and the command that builds anew; load_seg_index with and     *)
(* without write_cache.                                                     *)
Modes == CASE kind = "sector"   -> {"open", "rebuild"}
           [] kind = "files"    -> {"open", "rebuild", "nocache"}
           [] kind = "segments" -> {"open", "nocache"}

Begin(p) ==
    /\ pc[p] \in {"idle", "done"}
    /\ \E m \in Modes :
          /\ call' = [call EXCEPT ![p] = [mode |-> m, at |-> archive]]
          /\ Goto(p, IF m = "rebuild" \/ (kind = "files" /\ m = "nocache")
                     THEN "build" ELSE "load")
    /\ result' = [result EXCEPT ![p] = NoIndex]
    /\ UNCHANGED <<kind, archive, file, built, written, reading, shared, torn>>

(* Any file is taken up, of whatever age and length. *)
Load(p) ==
    /\ pc[p] = "load"
    /\ Go(p, IF file = Missing THEN "build" ELSE "read")
    /\ UNCHANGED <<kind, archive, file, call, reading, shared, torn>>

(* The constructor of TibReader reads what the header it has read counts,    *)
(* the two others to the end; a file may become shorter while it is read.    *)
Ended(p) ==
    \/ Len(fetched[p]) >= Len(file)
    \/ /\ kind = "sector" /\ fetched[p] # << >>
       /\ Headed(fetched[p]) => Enough(fetched[p])

Fetch(p) ==
    /\ Reading(p) /\ ~ Ended(p)
    /\ fetched' = [fetched EXCEPT ![p] = Append(@, file[Len(@) + 1])]
    /\ UNCHANGED <<kind, archive, file, pc, call, built, written, overtaken, result, shared, torn>>

Construct(p) ==
    End(p, IF ~ Headed(fetched[p]) THEN BadMagic
           ELSE IF ~ Enough(fetched[p]) THEN Truncated ELSE fetched[p])

(* load_index without the comparison with the archive. *)
LoadFilesUnchecked(p) ==
    \E luck \in BOOLEAN :
       IF Parsed(fetched[p], luck)
       THEN End(p, fetched[p])
       ELSE Go(p, "build")

LoadFiles(p) ==
    \E luck \in BOOLEAN :
       IF Parsed(fetched[p], luck) /\ fetched[p][1].stamp = archive
       THEN End(p, fetched[p])
       ELSE Go(p, "build")

(* The count not compared with the length. *)
LoadSegmentsShort(p) ==
    IF Headed(fetched[p])
    THEN End(p, fetched[p])
    ELSE Go(p, "build")

LoadSegments(p) ==
    IF Headed(fetched[p]) /\ Enough(fetched[p])
    THEN End(p, Taken(fetched[p]))
    ELSE Go(p, "build")

Accept(p) ==
    /\ Reading(p) /\ Ended(p)
    /\ \/ kind = "sector"   /\ Construct(p)
       \/ kind = "files"    /\ LoadFiles(p)
       \/ kind = "segments" /\ LoadSegments(p)
    /\ StopReading(p)
    /\ UNCHANGED <<kind, archive, file, call, shared, torn>>

-----------------------------------------------------------------------------
(* Building and saving *)

Saves(p) == call[p].mode # "nocache"

Build(p) ==
    /\ pc[p] = "build"
    /\ IF kind = "files" \/ Saves(p)
       THEN /\ built' = [built EXCEPT ![p] = [of |-> archive, stamp |-> archive]]
            /\ Goto(p, IF kind = "files" THEN "stat" ELSE "open")
            /\ UNCHANGED <<written, result>>
       ELSE End(p, Whole([of |-> archive, stamp |-> archive]))
    /\ UNCHANGED <<kind, archive, file, call, reading, shared, torn>>

(* fs_browse takes size and mtime after the walk. *)
Stat(p) ==
    /\ pc[p] = "stat"
    /\ LET b == [built[p] EXCEPT !.stamp = archive] IN
       IF Saves(p)
       THEN built' = [built EXCEPT ![p] = b] /\ Goto(p, "open") /\ UNCHANGED <<written, result>>
       ELSE End(p, Whole(b))
    /\ UNCHANGED <<kind, archive, file, call, reading, shared, torn>>

(* Not truncated: the old parts stay until they are written over. *)
OpenKeeping(p) ==
    /\ pc[p] = "open"
    /\ file'    = IF file = Missing THEN << >> ELSE file
    /\ written' = [written EXCEPT ![p] = 0]
    /\ Goto(p, "write")
    /\ shared'  = ~ Alone(p) /\ torn' = FALSE
    /\ overtaken' = [q \in Processes |-> overtaken[q] \/ Reading(q)]
    /\ UNCHANGED <<kind, archive, call, built, fetched, result>>

Open(p) ==
    /\ pc[p] = "open"
    /\ file'    = << >>
    /\ written' = [written EXCEPT ![p] = 0]
    /\ Goto(p, "write")
    /\ shared'  = ~ Alone(p) /\ torn' = FALSE
    /\ overtaken' = [q \in Processes |-> overtaken[q] \/ Reading(q)]
    /\ UNCHANGED <<kind, archive, call, built, fetched, result>>

(* The next part, at the writer's own position in the file. *)
Write(p) ==
    /\ Writing(p) /\ written[p] < Length(built[p].of)
    /\ LET i == written[p] + 1
           n == IF Len(file) > i THEN Len(file) ELSE i
       IN /\ file' = [j \in 1..n |-> IF j = i THEN Part(built[p], i)
                                     ELSE IF j <= Len(file) THEN file[j] ELSE Gap]
          /\ written' = [written EXCEPT ![p] = i]
    /\ shared' = (shared \/ ~ Alone(p))
    /\ UNCHANGED <<kind, archive, pc, call, built, reading, result, torn>>

(* The last part still in a buffer. *)
CloseLate(p) ==
    /\ Writing(p) /\ written[p] >= Length(built[p].of) - 1
    /\ IF kind = "sector" /\ call[p].mode = "open"
       THEN Go(p, "read")
       ELSE End(p, IF call[p].mode = "rebuild" THEN NoIndex ELSE Whole(built[p]))
    /\ UNCHANGED <<kind, archive, file, call, reading, shared, torn>>

(* The command that builds anew ends; an open of a sector-mode archive goes *)
(* on to the file, the others keep what they have in memory.                *)
Close(p) ==
    /\ Writing(p) /\ written[p] = Length(built[p].of)
    /\ IF kind = "sector" /\ call[p].mode = "open"
       THEN Go(p, "read")
       ELSE End(p, IF call[p].mode = "rebuild" THEN NoIndex ELSE Whole(built[p]))
    /\ UNCHANGED <<kind, archive, file, call, reading, shared, torn>>

(* The file cannot be opened, or not be written on: only build_index of a   *)
(* sector-mode archive and the two commands that build anew raise.          *)
Fail(p) ==
    /\ pc[p] = "open" \/ (Writing(p) /\ written[p] < Length(built[p].of))
    /\ End(p, IF kind = "sector" \/ call[p].mode = "rebuild" THEN NotSaved ELSE Whole(built[p]))
    /\ torn' = (torn \/ Writing(p))
    /\ UNCHANGED <<kind, archive, file, call, reading, shared>>

-----------------------------------------------------------------------------
Crash(p) ==
    /\ pc[p] \notin {"idle", "done"}
    /\ Leave(p, "idle")
    /\ torn' = (torn \/ Writing(p))
    /\ StopReading(p)
    /\ UNCHANGED <<kind, archive, file, call, result, shared>>

Replace == /\ archive < MaxVersion
           /\ archive' = archive + 1
           /\ UNCHANGED <<kind, file, pc, call, built, written, reading, result, shared, torn>>

Step(p) == \/ Load(p) \/ Fetch(p) \/ Accept(p) \/ Build(p) \/ Stat(p)
           \/ Open(p) \/ Write(p) \/ Close(p)

Next == Replace \/ \E p \in Processes : Begin(p) \/ Step(p) \/ Fail(p) \/ Crash(p)

Spec == Init /\ [][Next]_vars
-----------------------------------------------------------------------------
(* Properties *)

IsIndex(r) == r \notin Errors /\ r # NoIndex

(* Whatever crashes, failed writes and replaced archives left beside the     *)
(* archive, a process that takes an index from the file takes the whole of   *)
(* an index, of one version, unless two processes wrote the file side by     *)
(* side or another began it anew between two of the process's reads          *)
(* (load_index, load_seg_index_cache, TibReader's constructor).              *)
AcceptedIsWhole ==
    [][\A p \in Processes :
          Reading(p) /\ pc'[p] = "done" /\ ~ shared /\ ~ overtaken[p] /\ IsIndex(result'[p])
          => \E b \in Builds : result'[p] = Whole(b)]_vars

(* An index of a file-mode archive, from the file or built, is of a version  *)
(* that was there at some time during the call, unless it was replaced       *)
(* between its walk and the stat (load_index, build_index).                  *)
FilesAreCurrent ==
    \A p \in Processes :
       kind = "files" /\ pc[p] = "done" /\ IsIndex(result[p]) =>
          LET head == result[p][1]
          IN head.of = head.stamp => head.of >= call[p].at

(* A sector-mode archive fails to open only when a writer of its index       *)
(* stopped in the middle, is in the middle, or was not alone, or when the    *)
(* index was begun anew between two reads of it (build_index, TibReader's    *)
(* constructor).                                                             *)
RejectedForCause ==
    [][\A p \in Processes :
          Reading(p) /\ pc'[p] = "done" /\ result'[p] \in {BadMagic, Truncated}
          => torn \/ shared \/ overtaken[p] \/ ~ Alone(p)]_vars

(* A save that nobody disturbs leaves an index that the next open accepts,   *)
(* whatever was in the file before (save_index, save_seg_index, build_index).*)
SavedIsFound ==
    file # Missing /\ ~ torn /\ ~ shared /\ (\A p \in Processes : ~ Writing(p))
    => Complete(file) /\ Uniform(file)
=============================================================================

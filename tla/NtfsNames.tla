------------------------------ MODULE NtfsNames ------------------------------
(***************************************************************************)
(* Names of an NTFS volume (tibread/ntfs.py: _build_path_index, _resolve,  *)
(* stat, list_dir, the sizes of read_file and open) and the two file       *)
(* systems that serve them: FUSE (tibread/mount/fuse.py) and WinFsp        *)
(* (tools/tibwinmount.py).                                                 *)
(*                                                                         *)
(* The index maps a directory's record number and a folded name to a       *)
(* record.  It is built by whoever first resolves a path, and callers may  *)
(* be threads: each that finds it unbuilt walks the whole $MFT itself, all *)
(* of them into the same dictionaries.  A read of the disk may fail and    *)
(* end such a walk half way.                                               *)
(*                                                                         *)
(* mft maps the record numbers that parse to                               *)
(*   inUse, dir                                                            *)
(*   links    the $FILE_NAMEs: [ns, name, parent, size]                    *)
(*   data     size of the unnamed $DATA, or NoData (compressed by WOF, the *)
(*            size is there though the content is elsewhere)               *)
(* A path is the sequence of names the caller joined with separators.      *)
(***************************************************************************)
EXTENDS Integers, Sequences, FiniteSets, TLC, SequencesExt

CONSTANTS Threads,
          Volumes,        \* the volumes to choose from
          Calls(_, _),    \* what a thread asks of one
          Lower(_),       \* str.lower
          NameOrder,      \* all names, in the order of their folded forms
          Lead(_), Trail(_), \* a name without the white space it starts, ends with
          Cut(_),         \* the components, none of them empty, of a name with
                          \* separators in it
          Empty,          \* the empty name
          Dot, DotDot,    \* "." and ".."
          NoData, None,
          Root, FirstUser,   \* 5 and 16: records under FirstUser are NTFS's own
          Total,             \* records of the $MFT
          MaxFaults,         \* reads of the $MFT that fail
          MaxPos             \* bound on the position of a handle

VARIABLES mft, children, allRecs, built, pc, todo, call, reply, listed, handle, faults

vars == <<mft, children, allRecs, built, pc, todo, call, reply, listed, handle, faults>>

(* Names of a record: Win32 before Win32 and DOS, then POSIX, then DOS, and  *)
(* among those of one kind the first.                                        *)

Rank == [win32 |-> 0, both |-> 1, posix |-> 2, dos |-> 3]

Before(links, i, j) == \/ Rank[links[i].ns] < Rank[links[j].ns]
                       \/ Rank[links[i].ns] = Rank[links[j].ns] /\ i < j

Best(links, S) == links[CHOOSE i \in S : \A j \in S \ {i} : Before(links, i, j)]

LinkType   == [ns : DOMAIN Rank, name : Range(NameOrder), parent : Nat, size : Nat]
RecordType == [inUse : BOOLEAN, dir : BOOLEAN, links : Seq(LinkType), data : Nat \cup {NoData}]

LongLinks(links) == {i \in DOMAIN links : links[i].ns # "dos"}

(* A directory holds a name once.  A call is made of a path, an enumeration  *)
(* from the start.                                                           *)
NamesAssumption ==
    /\ MaxFaults \in Nat
    /\ FirstUser \in Nat
    /\ Root \in Nat
    /\ Total \in Nat
    /\ None \notin Nat
    /\ NameOrder \in Seq(Range(NameOrder)) /\ IsInjective(NameOrder)
    /\ {None, Empty, DotDot} \cap Range(NameOrder) = {} /\ DotDot # None
    /\ \A m \in Volumes :
          /\ DOMAIN m \subseteq 0..(Total - 1)
          /\ \A n \in DOMAIN m : m[n] \in RecordType
          /\ \A n1, n2 \in {n \in DOMAIN m : m[n].inUse} :
                \A i \in LongLinks(m[n1].links), j \in LongLinks(m[n2].links) :
                    (/\ m[n1].links[i].parent = m[n2].links[j].parent
                     /\ m[n1].links[i].name = m[n2].links[j].name) => n1 = n2
          /\ \A t \in Threads : \A c \in Calls(m, t) :
                /\ {"op", "path"} \subseteq DOMAIN c
                /\ c.path \in Seq(Range(c.path))
                /\ c.op = "enumerate" => "marker" \in DOMAIN c /\ c.marker = None
ASSUME NamesAssumption

-----------------------------------------------------------------------------
(* What _build_path_index sets for a record: the keys of its names but the   *)
(* DOS ones, each folded name once, whatever its parent.                     *)
KeysOf(rec) ==
    LET links == rec.links
        long  == LongLinks(links)
        first == {i \in long : \A j \in long \ {i} :
                     Lower(links[j].name) = Lower(links[i].name) => Before(links, i, j)}
    IN {<<links[i].parent, Lower(links[i].name)>> : i \in first}

Indexed(n) == n >= FirstUser \/ n = Root

-----------------------------------------------------------------------------
(* Paths *)

Stripped(path, i) == LET name == IF i = 1 THEN Lead(path[i]) ELSE path[i]
                     IN IF i = Len(path) THEN Trail(name) ELSE name

SplitPath(path) == FlattenSeq([i \in 1..Len(path) |-> Cut(Stripped(path, i))])

(* The case of the name kept. *)
ChildExact(index, d, name) == IF <<d, name>> \in DOMAIN index THEN index[<<d, name>>] ELSE None

Child(index, d, name) == IF <<d, Lower(name)>> \in DOMAIN index
                         THEN index[<<d, Lower(name)>>] ELSE None

ResolveIn(index, path) ==
    LET names == SplitPath(path)
        at[i \in 0..Len(names)] ==
            IF i = 0 THEN Root ELSE Child(index, at[i - 1], names[i])
    IN at[Len(names)]
Resolve(path)          == ResolveIn(children, path)

(* The size of the best name for that of the data. *)
SizeOfName(rec) == IF rec.dir THEN 0
                   ELSE IF rec.links # << >> THEN Best(rec.links, DOMAIN rec.links).size ELSE rec.data

(* The size of a file is that of its unnamed $DATA, or, where that is none   *)
(* or 0, what its best name says.                                            *)
SizeOf(rec) ==
    LET data == IF rec.data = NoData THEN 0 ELSE rec.data
    IN CASE rec.dir -> 0
         [] ~rec.dir /\ data = 0 /\ rec.links # << >> -> Best(rec.links, DOMAIN rec.links).size
         [] OTHER -> data

Used(n) == n \in DOMAIN mft /\ mft[n].inUse

EntryFor(n, name) == [rec |-> n, name |-> name, dir |-> mft[n].dir, size |-> SizeOf(mft[n])]

Raise(error) == [error |-> error]
Raised(x)    == "error" \in DOMAIN x

Stat(path) ==
    LET names == SplitPath(path)
    IN IF Used(Resolve(path))
       THEN EntryFor(Resolve(path), IF names = << >> THEN Empty ELSE Last(names))
       ELSE Raise("FileNotFoundError")

(* The name of record n as it appears under directory d.                     *)
DisplayName(n, d) ==
    LET links == mft[n].links
        here  == {i \in LongLinks(links) : links[i].parent = d}
    IN Best(links, IF here # {} THEN here ELSE DOMAIN links).name

Children(d) == {n \in {children[k] : k \in {k \in DOMAIN children : k[1] = d}} : Used(n)}

ListDir(path) ==
    LET d == Resolve(path)
    IN IF d = None THEN Raise("FileNotFoundError")
       ELSE IF d \notin DOMAIN mft \/ ~mft[d].dir THEN Raise("NotADirectoryError")
       ELSE [entries |-> {EntryFor(n, DisplayName(n, d)) : n \in Children(d)}]

(* How many bytes read_file returns.                                         *)
ReadFile(path, offset, length) ==
    LET n    == Resolve(path)
        size == IF mft[n].data = NoData THEN 0 ELSE mft[n].data
        want == IF length < 0 THEN size - offset ELSE length
    IN IF n = None \/ n \notin DOMAIN mft THEN Raise("FileNotFoundError")
       ELSE IF mft[n].dir THEN Raise("IsADirectoryError")
       ELSE [count |-> CHOOSE k \in 0..size :
                k = IF offset >= size \/ want <= 0 THEN 0
                    ELSE IF want < size - offset THEN want ELSE size - offset]

-----------------------------------------------------------------------------
(* What the mounts make of it.                                               *)

(* FUSE: a missing path is ENOENT; of a file, readdir lets NotADirectoryError *)
(* through.                                                                  *)
GetAttr(path) ==
    IF path = << >> THEN [rec |-> Root, name |-> Empty, dir |-> TRUE, size |-> 0]
    ELSE IF Raised(Stat(path)) THEN Raise("ENOENT") ELSE Stat(path)

ReadDir(path) ==
    LET list == ListDir(path)
    IN IF Raised(list)
       THEN IF list.error = "FileNotFoundError" THEN Raise("ENOENT") ELSE list
       ELSE [names |-> {Dot, DotDot} \cup ({e.name : e \in list.entries} \ {Empty})]

FuseRead(path, offset, length) ==
    LET data == ReadFile(path, offset, length)
    IN IF ~Raised(data) THEN data
       ELSE IF data.error = "IsADirectoryError" THEN Raise("EISDIR") ELSE Raise("ENOENT")

(* WinFsp asks for what follows marker, the last name that fitted before, of *)
(* the names in order.                                                       *)
InOrder(names) ==
    FlattenSeq([i \in DOMAIN NameOrder |->
                   IF NameOrder[i] \in names THEN <<NameOrder[i]>> ELSE << >>])

Items(path, entries) == (IF path = << >> THEN << >> ELSE <<DotDot>>)
                          \o InOrder({e.name : e \in entries})

(* From the marker on, not after it. *)
FollowingFrom(items, marker) ==
    LET at == {i \in DOMAIN items : items[i] = marker /\ i > 1}
    IN IF at = {} THEN items
       ELSE IF at = {Len(items)} THEN << >> ELSE SubSeq(items, CHOOSE i \in at : TRUE, Len(items))

Following(items, marker) ==
    LET at    == {i \in DOMAIN items : items[i] = marker}
        first == CHOOSE i \in at : \A j \in at : i <= j
    IN IF marker = None \/ at = {} THEN items ELSE SubSeq(items, first + 1, Len(items))

ReadDirectory(path, marker) ==
    LET list == ListDir(path)
    IN IF Raised(list) THEN Raise("ObjectNameNotFound")
       ELSE [names |-> Following(Items(path, list.entries), marker)]

(* statfs: the records in use that are not NTFS's own.                       *)
TotalFiles == Cardinality({n \in allRecs : n >= FirstUser})

Reply(c) == CASE c.op = "getattr"   -> GetAttr(c.path)
              [] c.op = "open"      -> GetAttr(c.path)
              [] c.op = "readdir"   -> ReadDir(c.path)
              [] c.op = "read"      -> FuseRead(c.path, c.off, c.len)
              [] c.op = "enumerate" -> ReadDirectory(c.path, c.marker)
              [] c.op = "statfs"    -> [files |-> TotalFiles]
              [] c.op = "file"      -> IF Resolve(c.path) = None THEN Raise("FileNotFoundError")
                                       ELSE IF mft[Resolve(c.path)].dir
                                       THEN Raise("IsADirectoryError") ELSE Stat(c.path)

-----------------------------------------------------------------------------
Init == /\ mft \in Volumes
        /\ children = << >>
        /\ allRecs = {}
        /\ built = FALSE
        /\ pc = [t \in Threads |-> "idle"]
        /\ todo = [t \in Threads |-> 0]
        /\ call = [t \in Threads |-> None]
        /\ reply = [t \in Threads |-> None]
        /\ listed = [t \in Threads |-> << >>]
        /\ handle = [t \in Threads |-> None]
        /\ faults = 0

Begin(t) ==
    /\ pc[t] = "idle"
    /\ \E c \in Calls(mft, t) : call' = [call EXCEPT ![t] = c]
    /\ pc' = [pc EXCEPT ![t] = IF built THEN "answer" ELSE "build"]
    /\ todo' = [todo EXCEPT ![t] = 0]
    /\ reply' = [reply EXCEPT ![t] = None]
    /\ listed' = [listed EXCEPT ![t] = << >>]
    /\ handle' = [handle EXCEPT ![t] = None]
    /\ UNCHANGED <<mft, children, allRecs, built, faults>>

(* A record not in use not counted. *)
BuildRecordStuck(t) ==
    /\ pc[t] = "build"
    /\ todo[t] < Total
    /\ todo' = [todo EXCEPT ![t] = IF @ \in DOMAIN mft /\ mft[@].inUse THEN @ + 1 ELSE @]
    /\ UNCHANGED <<mft, children, allRecs, built, pc, call, reply, listed, handle, faults>>

(* One record of the walk: dict.setdefault for each of its keys, if it is in *)
(* use.                                                                      *)
BuildRecord(t) ==
    /\ pc[t] = "build"
    /\ todo[t] < Total
    /\ LET n    == todo[t]
           used == Used(n)
           keys == IF used /\ Indexed(n) THEN KeysOf(mft[n]) ELSE {}
       IN /\ allRecs' = IF used THEN allRecs \cup {n} ELSE allRecs
          /\ children' = [k \in DOMAIN children \cup keys |->
                             IF k \in DOMAIN children THEN children[k] ELSE n]
    /\ todo' = [todo EXCEPT ![t] = @ + 1]
    /\ UNCHANGED <<mft, built, pc, call, reply, listed, handle, faults>>

(* The index taken for built though the walk died. *)
BuildRaiseBuilt(t) ==
    /\ pc[t] = "build"
    /\ faults < MaxFaults
    /\ faults' = faults + 1
    /\ built' = TRUE
    /\ pc' = [pc EXCEPT ![t] = "idle"]
    /\ reply' = [reply EXCEPT ![t] = Raise("OSError")]
    /\ UNCHANGED <<mft, children, allRecs, todo, call, listed, handle>>

(* The disk raises.                                                          *)
BuildRaise(t) ==
    /\ pc[t] = "build"
    /\ faults < MaxFaults
    /\ faults' = faults + 1
    /\ pc' = [pc EXCEPT ![t] = "idle"]
    /\ reply' = [reply EXCEPT ![t] = Raise("OSError")]
    /\ UNCHANGED <<mft, children, allRecs, built, todo, call, listed, handle>>

BuildEnd(t) ==
    /\ pc[t] = "build"
    /\ todo[t] = Total
    /\ built' = TRUE
    /\ pc' = [pc EXCEPT ![t] = "answer"]
    /\ UNCHANGED <<mft, children, allRecs, todo, call, reply, listed, handle, faults>>

Answer(t) ==
    /\ pc[t] = "answer"
    /\ \E r \in {Reply(call[t])} :
          /\ reply' = [reply EXCEPT ![t] = r]
          /\ pc' = [pc EXCEPT ![t] =
                IF call[t].op = "enumerate" /\ ~Raised(r) /\ r.names # << >>
                THEN "fill" ELSE "idle"]
          /\ handle' = [handle EXCEPT ![t] =
                IF call[t].op = "file" /\ ~Raised(r)
                THEN [path |-> call[t].path, pos |-> 0,
                      size |-> IF mft[r.rec].data = NoData THEN 0 ELSE mft[r.rec].data]
                ELSE None]
    /\ UNCHANGED <<mft, children, allRecs, built, todo, call, listed, faults>>

(* The kernel has room for some of the names, at least one, and comes back   *)
(* with the last of them.                                                    *)
Fill(t) ==
    /\ pc[t] = "fill"
    /\ \E k \in 1..Len(reply[t].names) :
          /\ listed' = [listed EXCEPT ![t] = @ \o SubSeq(reply[t].names, 1, k)]
          /\ call' = [call EXCEPT ![t].marker = reply[t].names[k]]
    /\ pc' = [pc EXCEPT ![t] = "answer"]
    /\ UNCHANGED <<mft, children, allRecs, built, todo, reply, handle, faults>>

-----------------------------------------------------------------------------
(* An open file: a position, and reads of the path at it.                    *)

HandleSeek(t) ==
    /\ pc[t] = "idle"
    /\ handle[t] # None
    /\ \E from \in {0, handle[t].pos, handle[t].size}, d \in {-2, 0, 1} :
          /\ from + d <= MaxPos
          /\ handle' = [handle EXCEPT ![t].pos = IF from + d < 0 THEN 0 ELSE from + d]
    /\ reply' = [reply EXCEPT ![t] = None]
    /\ UNCHANGED <<mft, children, allRecs, built, pc, todo, call, listed, faults>>

HandleRead(t) ==
    /\ pc[t] = "idle"
    /\ handle[t] # None
    /\ \E n \in {-1, 0, 1, 2} :
          LET h    == handle[t]
              want == IF n < 0 THEN h.size - h.pos ELSE n
              data == IF want <= 0 \/ h.pos >= h.size THEN [count |-> 0]
                      ELSE ReadFile(h.path, h.pos, want)
          IN /\ reply' = [reply EXCEPT ![t] =
                    IF Raised(data) THEN data
                    ELSE [from |-> h.pos, want |-> want, count |-> data.count]]
             /\ handle' = [handle EXCEPT ![t].pos = IF Raised(data) THEN @ ELSE @ + data.count]
    /\ UNCHANGED <<mft, children, allRecs, built, pc, todo, call, listed, faults>>

Build(t) == BuildRecord(t) \/ BuildEnd(t)
Serve(t) == Answer(t) \/ Fill(t)

Next == \E t \in Threads : \/ Begin(t)
                           \/ Build(t)
                           \/ BuildRaise(t)
                           \/ Serve(t)
                           \/ HandleSeek(t)
                           \/ HandleRead(t)

Spec == Init /\ [][Next]_vars

(* A thread in a call goes on.  The second conjunct is WF_vars(Serve(t)) with *)
(* ENABLED <<Serve(t)>>_vars for what it is: every reply is computed.        *)
FairSpec ==
    /\ Spec
    /\ \A t \in Threads :
          /\ WF_vars(Build(t))
          /\ []<>(pc[t] \notin {"answer", "fill"}) \/ []<><<Serve(t)>>_vars

-----------------------------------------------------------------------------
(* Properties *)

(* The records that claim a key, and the one of them a single walk gives it. *)
Claimants(k) == {n \in DOMAIN mft : mft[n].inUse /\ Indexed(n) /\ k \in KeysOf(mft[n])}
Owner(k)     == CHOOSE n \in Claimants(k) : \A m \in Claimants(k) : n <= m

(* However many walks fill the index, wherever they stand and whichever of   *)
(* them died, no entry differs from the one an undisturbed walk makes, and   *)
(* once one walk has ended nothing is missing: a caller let in by            *)
(* _path_index_built never sees part of the volume.                          *)
IndexIsMft ==
    /\ \A k \in DOMAIN children : k \in UNION {KeysOf(mft[n]) : n \in Claimants(k)}
                                  /\ children[k] = Owner(k)
    /\ built => /\ \A n \in DOMAIN mft : n \in allRecs <=> mft[n].inUse
                /\ \A n \in allRecs : Indexed(n) => KeysOf(mft[n]) \subseteq DOMAIN children

Plain(n) == Lead(n) = n /\ Trail(n) = n /\ Cut(n) = <<n>>

(* What a directory lists can be looked up under the listed name, and is the *)
(* same record with the same size: list_dir and stat agree through the       *)
(* folding of names.  But for names the path syntax of _split_path cannot    *)
(* hold (white space at its ends, a separator), names of another record that *)
(* differ in case only, which get the first, and a hard link whose folded    *)
(* name the same file has in another directory before, which is shown and    *)
(* not indexed (see AliasesFound).                                           *)
ListedIsFound ==
    \A t \in Threads :
        LET c == call[t]
        IN (/\ pc[t] = "idle" /\ c # None /\ reply[t] # None
            /\ c.op = "readdir" /\ ~Raised(reply[t])
            /\ \A i \in DOMAIN c.path : Plain(c.path[i]))
           => \A e \in ListDir(c.path).entries :
                 LET key == <<Resolve(c.path), Lower(e.name)>>
                     s   == Stat(Append(c.path, e.name))
                 IN /\ e.name \in reply[t].names
                    /\ \/ ~Plain(e.name)
                       \/ ~Raised(s) /\ s.rec = e.rec /\ s.size = e.size /\ s.dir = e.dir
                       \/ Cardinality(Claimants(key)) > 1
                       \/ key \notin KeysOf(mft[e.rec])

(* The size getattr and open give is what a read from 0 returns, and a read  *)
(* through an open file stops short of what was asked only at the end, so    *)
(* that no loop over it ends early or runs on.  But for records without an   *)
(* unnamed $DATA or with an empty one, whose size is that of a name.         *)
SizesAgree ==
    \A t \in Threads :
        /\ (/\ pc[t] = "idle" /\ call[t] # None /\ reply[t] # None
            /\ call[t].op \in {"getattr", "open"} /\ ~Raised(reply[t]) /\ ~reply[t].dir)
           => LET whole == ReadFile(call[t].path, 0, -1)
              IN \/ whole = [count |-> reply[t].size]
                 \/ whole = [count |-> 0] /\ mft[reply[t].rec].data \in {NoData, 0}
        /\ handle[t] # None /\ reply[t] # None
           => LET r == reply[t]
              IN /\ ~Raised(r)
                 /\ "from" \in DOMAIN r =>
                       /\ r.count = 0 => r.want <= 0 \/ r.from >= handle[t].size
                       /\ r.count < r.want => handle[t].pos >= handle[t].size
                       /\ handle[t].pos = r.from + r.count

(* A directory read in pieces of any sizes, each asked for by the last name  *)
(* of the one before, comes out whole, in order and without a name twice,    *)
(* though read_directory lists it afresh and searches the marker in it.      *)
EnumerationExact ==
    \A t \in Threads :
        (/\ call[t] # None /\ pc[t] \in {"fill", "answer", "idle"} /\ built
         /\ call[t].op = "enumerate" /\ reply[t] # None /\ ~Raised(reply[t]))
        => LET whole == ReadDirectory(call[t].path, None).names
           IN /\ IsPrefix(listed[t], whole)
              /\ IsInjective(listed[t])
              /\ pc[t] = "fill" => whole = listed[t] \o reply[t].names
              /\ pc[t] = "idle" =>
                    /\ listed[t] = whole
                    /\ \A n \in Children(Resolve(call[t].path)) :
                          DisplayName(n, Resolve(call[t].path)) \in Range(listed[t])

(* Every call returns: an enumeration too comes to its end.                  *)
CallsReturn == \A t \in Threads : pc[t] # "idle" ~> pc[t] = "idle"

(* "Index every namespace-1/3/0 alias under its parent." (ntfs.py:1192)      *)
AliasesFound ==
    built => \A n \in DOMAIN mft : mft[n].inUse /\ Indexed(n) =>
                \A i \in DOMAIN mft[n].links :
                    LET l == mft[n].links[i]
                    IN l.ns # "dos" => <<l.parent, Lower(l.name)>> \in DOMAIN children
=============================================================================

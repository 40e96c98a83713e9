----------------------------- MODULE NtfsUnits -----------------------------
(***************************************************************************)
(* Reads of files of a mounted NTFS volume (tibread/ntfs.py, class         *)
(* NtfsVolume: read_file, _read_compressed_attr, _decompress_cu, _read_wof *)
(* and _read_mft_record_raw) by the threads of the mount.                  *)
(*                                                                         *)
(* Plain streams are read through their runs (module NtfsRuns).  LZNT1     *)
(* streams are read unit by unit, XPRESS files (WOF) as a whole; what was  *)
(* decompressed is kept in an LRU cache, one OrderedDict without a lock    *)
(* for all threads, made by the first thread that puts something in it.    *)
(* Several threads may find that there is none yet, so there may be more   *)
(* than one: a dictionary is named by the thread that made it.             *)
(*                                                                         *)
(* The image does not change, so a thread's reads of it are one step; each *)
(* access to the cache is a step of its own.  Records were parsed and kept *)
(* before the threads start, so a file stands for the attribute that is    *)
(* the cache's key.                                                        *)
(***************************************************************************)
EXTENDS NtfsRuns, OrderedDict

CONSTANTS Threads,
          Volumes,         \* what may be mounted
          Requests(_, _),  \* Requests(v, t): what t may ask for, [file, off, len]
          Lznt1(_),        \* the plaintext of a unit's stored bytes
          Xpress(_, _),    \* the plaintext of a whole file of a given size
          XpressError,
          UnitCacheMax,    \* _CU_CACHE_MAX
          NoDict,
          KeyError, IsADirectoryError

ASSUME UnitsAssumption ==
    UnitCacheMax \in Nat /\ NoDict \notin Threads /\ IsFiniteSet(Threads)

(* A file: [kind, runs, real, init, unit, size, content], the real and      *)
(* initialised bytes of its stream, the clusters of a compression unit, the *)
(* size of an XPRESS file, and the bytes of a resident stream (of an XPRESS *)
(* file when there are no runs).                                            *)
Kinds == {"dir", "nodata", "resident", "plain", "lznt1", "wof", "nopayload", "mft"}

FileType == [kind : Kinds, runs : Seq(RunType), real : Nat, init : Nat,
             unit : Nat \ {0}, size : Nat, content : Seq(Int)]

(* The stream whose bytes go into the decoder of an XPRESS file. *)
Payload(v, f) == IF f.runs = << >> THEN f.content
                 ELSE [i \in 1..f.real |-> StreamByte(v, f.runs, i - 1)]

(* The shift is that of a $MFT that was found (NtfsVolume.__init__), and   *)
(* no override leaves a run of it with less than no clusters.               *)
ASSUME VolumesAssumption ==
    \A v \in Volumes :
       /\ v.origin \in Seq(Nat) /\ v.bpb \in Nat /\ v.shift \in Int /\ v.bpb + v.shift \in Nat
       /\ v.map \in Seq([from : Nat, shift : Int])
       /\ \A n \in DOMAIN v.files :
             LET f == v.files[n] IN
             /\ f \in FileType
             /\ f.kind = "nodata" => f.real = 0
             /\ f.kind = "mft" => BootstrapMft(v, f.runs).runs \in Seq(RunType)

(* What a file was compressed to decodes to a file of its size, or not at   *)
(* all.                                                                     *)
ASSUME PayloadsAssumption ==
    \A v \in Volumes : \A n \in DOMAIN v.files :
       LET f == v.files[n] IN
       f.kind = "wof" => LET plain == Xpress(Payload(v, f), f.size)
                         IN plain = XpressError \/ Len(plain) = f.size

(* A record of $MFT has a size; a length of -1 asks for the rest of a file. *)
ASSUME RequestsAssumption ==
    \A v \in Volumes : \A t \in Threads : \A r \in Requests(v, t) :
       /\ r \in [file : DOMAIN v.files, off : Nat, len : Int]
       /\ v.files[r.file].kind = "mft" => r.len \in Nat

VARIABLES volume,  \* the volume mounted
          pc,      \* pc[t]: where thread t is in its call
          call,    \* call[t]: the request, off and len clipped once entered
          out,     \* out[t]: the bytes so far
          unit,    \* unit[t]: next unit, and the first byte wanted of it
          held,    \* held[t]: the decompressed data it holds
          ref,     \* ref[t]: the dictionary it holds
          cu,      \* the dictionary in _cu_cache, or NoDict
          order,   \* order[d]: keys of dictionary d, oldest first
          data,    \* data[d]: what d has under each of its keys
          result   \* result[t]: what its last call returned or raised

local == <<call, out, unit, held, ref>>
cache == <<cu, order, data>>
vars  == <<volume, pc, local, cache, result>>

Labels == {"idle", "enter", "loop", "look", "get", "touch", "build", "refer",
           "create", "assign", "move", "check", "pop", "use", "done"}

Files   == volume.files
File(t) == Files[call[t].file]

Init == /\ volume \in Volumes
        /\ pc     = [t \in Threads |-> "idle"]
        /\ call   = [t \in Threads |-> [file |-> "", off |-> 0, len |-> 0]]
        /\ out    = [t \in Threads |-> << >>]
        /\ unit   = [t \in Threads |-> [at |-> 0, from |-> 0]]
        /\ held   = [t \in Threads |-> << >>]
        /\ ref    = [t \in Threads |-> NoDict]
        /\ cu     = NoDict
        /\ order  = [d \in Threads |-> << >>]
        /\ data   = [d \in Threads |-> << >>]
        /\ result = [t \in Threads |-> << >>]

Goto(t, l) == pc' = [pc EXCEPT ![t] = l]

Finish(t, r) == /\ Goto(t, "done")
                /\ result' = [result EXCEPT ![t] = r]
                /\ out'    = [out EXCEPT ![t] = << >>]
                /\ unit'   = [unit EXCEPT ![t] = [at |-> 0, from |-> 0]]
                /\ held'   = [held EXCEPT ![t] = << >>]
                /\ ref'    = [ref EXCEPT ![t] = NoDict]
                /\ UNCHANGED call

-----------------------------------------------------------------------------
(* Decompressing *)

UnitBytes(f) == f.unit * ClusterSize

(* The clusters of run i inside unit u: the first, and the one after the last. *)
Inside(f, u, i) == [from |-> Larger(Starts(f.runs)[i], u * f.unit),
                    to   |-> Smaller(Starts(f.runs)[i + 1], (u + 1) * f.unit)]

(* Its clusters that are stored, or sparse. *)
Clusters(f, u, sparse) ==
    LET n[i \in 0..Len(f.runs)] ==
            IF i = 0 THEN 0
            ELSE LET p == Inside(f, u, i)
                 IN n[i - 1] + (IF p.from < p.to /\ (f.runs[i].lcn = Hole <=> sparse)
                                THEN p.to - p.from ELSE 0)
    IN n[Len(f.runs)]

(* What is stored of it. *)
StoredBytes(v, f, u) ==
    FlattenSeq([i \in 1..Len(f.runs) |->
                   LET p == Inside(f, u, i)
                   IN IF p.from < p.to /\ f.runs[i].lcn # Hole
                      THEN ReadClusters(v, f.runs[i].lcn + p.from - Starts(f.runs)[i],
                                        p.to - p.from)
                      ELSE << >>])

Padded(s, n) == s \o Zeros(n - Len(s))

(* _decompress_cu *)
DecompressUnit(v, f, u) ==
    IF Clusters(f, u, FALSE) = 0 THEN Zeros(UnitBytes(f))
    ELSE IF Clusters(f, u, FALSE) = f.unit /\ Clusters(f, u, TRUE) = 0 THEN StoredBytes(v, f, u)
    ELSE Padded(Lznt1(StoredBytes(v, f, u)), UnitBytes(f))

WofPayload(v, f) == IF f.runs = << >> THEN f.content
                    ELSE ReadViaRuns(v, f.runs, {}, 0, f.real, FALSE)

Decoded(v, f, u) == IF f.kind = "wof" THEN Xpress(WofPayload(v, f), f.size)
                    ELSE DecompressUnit(v, f, u)

-----------------------------------------------------------------------------
(* read_file *)

Begin(t) ==
    /\ pc[t] \in {"idle", "done"}
    /\ \E r \in Requests(volume, t) : call' = [call EXCEPT ![t] = r]
    /\ Goto(t, "enter")
    /\ result' = [result EXCEPT ![t] = << >>]
    /\ UNCHANGED <<volume, out, unit, held, ref, cache>>

SizeOf(f) == CASE f.kind = "resident" -> Len(f.content)
               [] f.kind \in {"wof", "nopayload"} -> f.size
               [] OTHER -> f.real

(* A request clipped to a size; a negative length asks for the rest. *)
Clipped(r, size) ==
    LET n == IF r.len < 0 THEN size - r.off ELSE r.len
    IN [r EXCEPT !.len = IF r.off >= size \/ n <= 0 THEN 0
                         ELSE Smaller(n, size - r.off)]

Simple == {"dir", "nodata", "resident", "plain", "mft"}

(* What is answered without the cache. *)
Answer(f, r) ==
    CASE f.kind = "dir"      -> IsADirectoryError
      [] f.kind = "nodata"   -> << >>
      [] f.kind = "resident" -> SubSeq(f.content, r.off + 1, r.off + r.len)
      [] f.kind = "mft"      ->
            LET m == BootstrapMft(volume, f.runs)
            IN ReadViaRuns(volume, m.runs, m.found, r.off, r.len, TRUE)
      [] f.kind = "plain"    ->
            IF r.off >= f.init THEN Zeros(r.len)
            ELSE Padded(ReadViaRuns(volume, f.runs, {}, r.off,
                                    Smaller(r.len, f.init - r.off), FALSE), r.len)

Enter(t) ==
    /\ pc[t] = "enter"
    /\ LET f == File(t)
           r == IF f.kind = "mft" THEN call[t] ELSE Clipped(call[t], SizeOf(f))
       IN IF f.kind \in Simple THEN Finish(t, Answer(f, r))
          ELSE IF r.len = 0 THEN Finish(t, << >>)
          ELSE /\ call' = [call EXCEPT ![t] = r]
               /\ unit' = [unit EXCEPT ![t] =
                     IF f.kind = "lznt1" THEN [at   |-> r.off \div UnitBytes(f),
                                               from |-> r.off % UnitBytes(f)] ELSE @]
               /\ Goto(t, IF f.kind = "lznt1" THEN "loop" ELSE "look")
               /\ UNCHANGED <<out, held, ref, result>>
    /\ UNCHANGED <<volume, cache>>

(* _read_compressed_attr's loop *)
Loop(t) ==
    /\ pc[t] = "loop"
    /\ LET need == call[t].len - Len(out[t]) IN
       IF need <= 0 THEN Finish(t, out[t])
       ELSE IF call[t].off + Len(out[t]) >= File(t).init
       THEN Finish(t, out[t] \o Zeros(need))
       ELSE Goto(t, "look") /\ UNCHANGED <<local, result>>
    /\ UNCHANGED <<volume, cache>>

-----------------------------------------------------------------------------
(* _cu_cache_get and _cu_cache_put *)

(* The cache's key is (id(attr), unit); one for the whole of a WOF file.    *)

(* The unit left out of it. *)
KeyOfFile(t) == <<call[t].file, 0>>

Key(t) == <<call[t].file, unit[t].at>>

Look(t) ==
    /\ pc[t] = "look"
    /\ ref' = [ref EXCEPT ![t] = cu]
    /\ Goto(t, IF cu = NoDict THEN "build" ELSE "get")
    /\ UNCHANGED <<volume, call, out, unit, held, cache, result>>

Get(t) ==
    /\ pc[t] = "get"
    /\ IF Key(t) \in DOMAIN data[ref[t]]
       THEN /\ held' = [held EXCEPT ![t] = data[ref[t]][Key(t)]]
            /\ Goto(t, "touch")
       ELSE Goto(t, "build") /\ UNCHANGED held
    /\ UNCHANGED <<volume, call, out, unit, ref, cache, result>>

(* move_to_end, which raises when the key was evicted meanwhile; after a    *)
(* get, and again after an assignment.                                      *)
MoveToEnd(t, next) ==
    /\ IF InSeq(Key(t), order[ref[t]])
       THEN /\ order' = [order EXCEPT ![ref[t]] = MovedToEnd(@, Key(t))]
            /\ Goto(t, next)
            /\ UNCHANGED <<local, result>>
       ELSE Finish(t, KeyError) /\ UNCHANGED order
    /\ UNCHANGED <<volume, cu, data>>

Touch(t) == pc[t] = "touch" /\ MoveToEnd(t, "use")

(* A miss.  An XPRESS file that does not decode, or whose payload is not    *)
(* there, is zeros, and nothing is cached.                                  *)
Build(t) ==
    /\ pc[t] = "build"
    /\ LET value == Decoded(volume, File(t), unit[t].at) IN
       IF File(t).kind = "nopayload" \/ value = XpressError
       THEN Finish(t, Zeros(call[t].len))
       ELSE /\ held' = [held EXCEPT ![t] = value]
            /\ Goto(t, "refer")
            /\ UNCHANGED <<call, out, unit, ref, result>>
    /\ UNCHANGED <<volume, cache>>

Refer(t) ==
    /\ pc[t] = "refer"
    /\ ref' = [ref EXCEPT ![t] = cu]
    /\ Goto(t, IF cu = NoDict THEN "create" ELSE "assign")
    /\ UNCHANGED <<volume, call, out, unit, held, cache, result>>

Create(t) ==
    /\ pc[t] = "create"
    /\ ref' = [ref EXCEPT ![t] = t]
    /\ cu'  = t
    /\ Goto(t, "assign")
    /\ UNCHANGED <<volume, call, out, unit, held, order, data, result>>

Assign(t) ==
    /\ pc[t] = "assign"
    /\ data'  = [data EXCEPT ![ref[t]] =
                    [k \in DOMAIN @ \cup {Key(t)} |-> IF k = Key(t) THEN held[t] ELSE @[k]]]
    /\ order' = [order EXCEPT ![ref[t]] = Assigned(@, Key(t))]
    /\ Goto(t, "move")
    /\ UNCHANGED <<volume, local, cu, result>>

Move(t) == pc[t] = "move" /\ MoveToEnd(t, "check")

Over(n) == n > UnitCacheMax

Check(t) ==
    /\ pc[t] = "check"
    /\ Goto(t, IF Over(Len(order[ref[t]])) THEN "pop" ELSE "use")
    /\ UNCHANGED <<volume, local, cache, result>>

(* popitem(last=False), which raises on an empty dictionary. *)
Pop(t) ==
    /\ pc[t] = "pop"
    /\ LET d == ref[t] IN
       IF order[d] # << >>
       THEN /\ data'  = [data EXCEPT ![d] = [k \in DOMAIN @ \ {Head(order[d])} |-> @[k]]]
            /\ order' = [order EXCEPT ![d] = Tail(@)]
            /\ Goto(t, "check")
            /\ UNCHANGED <<local, result>>
       ELSE Finish(t, KeyError) /\ UNCHANGED <<order, data>>
    /\ UNCHANGED <<volume, cu>>

-----------------------------------------------------------------------------
(* What is taken of the data: of a unit, bytes past the initialised size    *)
(* are zeros.                                                               *)

Part(s, from, n) == SubSeq(s, from + 1, Smaller(from + n, Len(s)))

Taken(t) ==
    LET f     == File(t)
        need  == call[t].len - Len(out[t])
        chunk == Part(held[t], unit[t].from, Smaller(need, UnitBytes(f) - unit[t].from))
        first == unit[t].at * UnitBytes(f) + unit[t].from
    IN [i \in 1..Len(chunk) |-> IF first + i - 1 < f.init THEN chunk[i] ELSE Zero]

(* The next unit found from the bytes so far: one that came up short is     *)
(* asked for again.                                                         *)
UseByCursor(t) ==
    /\ pc[t] = "use"
    /\ IF File(t).kind = "wof"
       THEN Finish(t, Part(held[t], call[t].off, call[t].len))
       ELSE /\ out'  = [out EXCEPT ![t] = @ \o Taken(t)]
            /\ LET x == call[t].off + Len(out[t]) + Len(Taken(t)) IN
               unit' = [unit EXCEPT ![t] = [at   |-> x \div UnitBytes(File(t)),
                                            from |-> x % UnitBytes(File(t))]]
            /\ held' = [held EXCEPT ![t] = << >>]
            /\ ref'  = [ref EXCEPT ![t] = NoDict]
            /\ Goto(t, "loop")
            /\ UNCHANGED <<call, result>>
    /\ UNCHANGED <<volume, cache>>

Use(t) ==
    /\ pc[t] = "use"
    /\ IF File(t).kind = "wof"
       THEN Finish(t, Part(held[t], call[t].off, call[t].len))
       ELSE /\ out'  = [out EXCEPT ![t] = @ \o Taken(t)]
            /\ unit' = [unit EXCEPT ![t] = [at |-> @.at + 1, from |-> 0]]
            /\ held' = [held EXCEPT ![t] = << >>]
            /\ ref'  = [ref EXCEPT ![t] = NoDict]
            /\ Goto(t, "loop")
            /\ UNCHANGED <<call, result>>
    /\ UNCHANGED <<volume, cache>>

Step(t) == \/ Enter(t) \/ Loop(t) \/ Look(t) \/ Get(t) \/ Touch(t) \/ Build(t)
           \/ Refer(t) \/ Create(t) \/ Assign(t) \/ Move(t) \/ Check(t) \/ Pop(t)
           \/ Use(t)

Next == \E t \in Threads : Begin(t) \/ Step(t)

Spec == Init /\ [][Next]_vars
Busy(t) == pc[t] \notin {"idle", "done"}

(* Weak fairness of Step(t): it is enabled exactly while t is in a call, and *)
(* every step of it moves pc[t].  Spelled out, since TLC would recompute all *)
(* of a step's reads to find ENABLED.                                        *)
FairSpec == Spec /\ \A t \in Threads : []<>~ Busy(t) \/ []<><<TRUE>>_(pc[t])

-----------------------------------------------------------------------------
(* What a read is entitled to *)

LcnIn(f, u, i) == LcnOf(f.runs, u * f.unit + i - 1)

ClusterBytes(v, lcn) == [i \in 1..ClusterSize |-> OriginalByte(v, lcn, i - 1)]

(* A unit of an LZNT1 stream: sparse, stored as it is, or compressed into   *)
(* the clusters that are not sparse.                                        *)
UnitOf(v, f, u) ==
    LET raw == FlattenSeq([i \in 1..f.unit |->
                              IF LcnIn(f, u, i) = Hole THEN << >>
                              ELSE ClusterBytes(v, LcnIn(f, u, i))])
    IN IF \A i \in 1..f.unit : LcnIn(f, u, i) = Hole THEN Zeros(UnitBytes(f))
       ELSE IF \A i \in 1..f.unit : LcnIn(f, u, i) # Hole THEN raw
       ELSE Padded(Lznt1(raw), UnitBytes(f))

FileByte(v, f, x) ==
    CASE f.kind = "resident" -> f.content[x + 1]
      [] f.kind = "mft"      -> StreamByte(v, f.runs, x)
      [] f.kind = "plain"    -> IF x < f.init THEN StreamByte(v, f.runs, x) ELSE Zero
      [] f.kind = "lznt1"    -> IF x < f.init
                                THEN UnitOf(v, f, x \div UnitBytes(f))[(x % UnitBytes(f)) + 1]
                                ELSE Zero
      [] f.kind = "wof"      -> IF Xpress(Payload(v, f), f.size) = XpressError THEN Zero
                                ELSE Xpress(Payload(v, f), f.size)[x + 1]
      [] OTHER               -> Zero

Entitled(f, r) == IF f.kind = "mft" THEN r ELSE Clipped(r, SizeOf(f))

(* The clusters of its stream that a request depends on. *)
Needed(f, r) ==
    LET first == r.off  last == r.off + r.len - 1
        ub == UnitBytes(f)
    IN CASE f.kind \in {"plain", "mft"} ->
                (first \div ClusterSize)..(last \div ClusterSize)
         [] f.kind = "lznt1" ->
                ((first \div ub) * f.unit)..((last \div ub + 1) * f.unit - 1)
         [] f.kind = "wof"   -> 0..((f.real - 1) \div ClusterSize)
         [] OTHER            -> {}

(* The archive has them, and what the reader was told of them is true.      *)
Clean(v, f, r) ==
    LET m == BootstrapMft(v, f.runs) IN
    /\ f.kind \in {"plain", "wof"} => Straight(v, f.runs, {}, FALSE)
    /\ f.kind = "mft" => Straight(v, m.runs, m.found, TRUE)
    /\ \A c \in Needed(f, r) : IF f.kind = "mft" THEN MftKept(v, f.runs, c)
                               ELSE Kept(v, LcnOf(f.runs, c))

Answered(t) == pc[t] = "done" /\ File(t).kind # "dir" /\ result[t] # KeyError

Typed(s) == \A i \in 1..Len(s) : s[i] \in Int

(* Every variable holds a value of its kind, and a thread in the middle of  *)
(* a put or of a touch holds a dictionary that some thread has made.        *)
TypeOK ==
    /\ volume \in Volumes /\ pc \in [Threads -> Labels]
    /\ \A t \in Threads :
          /\ pc[t] # "idle" => call[t].file \in DOMAIN Files
          /\ Typed(out[t]) /\ Typed(held[t])
          /\ unit[t].at \in Nat /\ unit[t].from \in Nat
          /\ ref[t] \in Threads \cup {NoDict}
          /\ pc[t] \in {"get", "touch", "assign", "move", "check", "pop"}
                => ref[t] \in Threads
    /\ cu \in Threads \cup {NoDict}
    /\ \A d \in Threads : \A i \in 1..Len(order[d]) : order[d][i] \in (DOMAIN Files) \X Nat

(* Whatever the order in which threads miss, put, touch and evict, each     *)
(* dictionary lists its keys once, and holds under a key the plaintext of   *)
(* that unit of that file (_cu_cache_put, _read_compressed_attr, _read_wof).*)
CacheSound ==
    \A d \in Threads :
       /\ Distinct(order[d])
       /\ DOMAIN data[d] = {order[d][i] : i \in 1..Len(order[d])}
       /\ \A k \in DOMAIN data[d] :
             LET f == Files[k[1]]
                 whole == IF f.kind = "wof" THEN [off |-> 0, len |-> f.size]
                          ELSE [off |-> k[2] * UnitBytes(f), len |-> UnitBytes(f)]
             IN Clean(volume, f, whole) =>
                   data[d][k] = IF f.kind = "wof" THEN Xpress(Payload(volume, f), f.size)
                                ELSE UnitOf(volume, f, k[2])

(* A dictionary exceeds _CU_CACHE_MAX by at most the threads that have      *)
(* assigned to it and not yet evicted (_cu_cache_put).                      *)
CacheBounded ==
    \A d \in Threads :
       Len(order[d]) <= UnitCacheMax
           + Cardinality({t \in Threads : ref[t] = d /\ pc[t] \in {"move", "check", "pop"}})

CacheInv == TypeOK /\ CacheSound /\ CacheBounded

(* A read that returns, and of which the image has all clusters it depends  *)
(* on, each where the reader was told, returns the bytes of the file:       *)
(* through runs before, in, after and across the gap, through the map of    *)
(* shifts, the runs found for $MFT, and the cached units of compressed      *)
(* files (read_file, _read_mft_record_raw).  Any other, also where what the *)
(* reader was told is wrong, has the length asked for, clipped at the end   *)
(* of the file: the mount's answer never ends early, but of an XPRESS file  *)
(* whose payload is damaged (a chunk of it may then decode short).          *)
ReadIsFile ==
    \A t \in Threads :
       Answered(t) => LET f == File(t)  r == Entitled(f, call[t]) IN
           /\ (f.kind = "wof" => Clean(volume, f, r)) => Len(result[t]) = r.len
           /\ r.len > 0 /\ Clean(volume, f, r) =>
                  \A i \in 1..r.len : result[t][i] = FileByte(volume, f, r.off + i - 1)

(* Two threads that race in the cache cost each other work, never an answer *)
(* (REVIEW_NOTES.md on _cu_cache_get and _cu_cache_put).                    *)
RacesAreHarmless == \A t \in Threads : result[t] # KeyError

(* A call ends, also when units come up short (_read_compressed_attr), unless *)
(* other threads go on calling for ever: each time a thread has evicted an    *)
(* entry another may have put one, and it finds the dictionary too long again *)
(* (_cu_cache_put).                                                           *)
ReadReturns ==
    \A t \in Threads : \/ []<>~ Busy(t)
                       \/ []<>(\E u \in Threads \ {t} : pc[u] = "enter")
=============================================================================

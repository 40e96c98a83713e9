----------------------------- MODULE TibxAdapter -----------------------------
(***************************************************************************)
(* Reads of a partition inside a .tibx archive                             *)
(* (tibread/tibx/disk_adapter.py, class TibxDiskAdapter, with the page and *)
(* segment reads of tibx/reader.py and tibx/segment.py it makes).          *)
(*                                                                         *)
(* A read walks its range over the sorted extents of the volume: zeros in  *)
(* the holes, and inside an extent the plaintext of its segment, from the  *)
(* adapter's segment cache or else read from the archive: one page with    *)
(* the segment header, its payload, and its continuation pages.            *)
(*                                                                         *)
(* The extents and the segment index are built before the mount starts its *)
(* threads.  The cache has no lock, and all threads use the one file       *)
(* handle of the TibxReader: between a thread's seek and its read another  *)
(* may seek.  "by" and "raced" only record whether that has happened.      *)
(*                                                                         *)
(* In a slice of a split archive the segment index holds global pages:     *)
(* the read of the header subtracts the slice's base, the reads of the     *)
(* payload do not.  Where the base is smaller than the number of pages,    *)
(* one number names two pages of the file, and a segment is served that    *)
(* has the header of one and the payload of the other.                     *)
(***************************************************************************)
EXTENDS Integers, Sequences, FiniteSets, OrderedDict

CONSTANTS Threads,           \* FUSE worker threads, or the one of the CLI
          Requests,          \* Requests[t]: what t may ask for, each [off, len]
          Segments,          \* segment ids
          Extents,           \* Extents[i]: [off, len, seg], sorted by off
          SegIndex,          \* SegIndex[s]: page of s, or NotIndexed
          NotIndexed,
          NumPages,          \* pages of the archive file
          FirstPage,         \* global page of its first page, 0 for a whole archive
          Kind,              \* Kind[p]: "sg", "data" or "other"
          Span,              \* Span[p]: pages of the segment headed by page p
          Sealed,            \* pages whose header says encrypted
          Inflate(_, _),     \* Inflate(p, r): payloads r decoded by p's header
          Undecodable,       \* what Inflate gives for bytes it refuses
          Byte, Zero,
          CacheSize,         \* segment_cache_size
          NotCached

FilePages == 0..(NumPages - 1)

(* Where a read of the file begins: the start of a page, its payload after  *)
(* a segment header, or somewhere else in it.                               *)
Spot == {"page", "payload", "inside"}

(* What a thread reads when nobody moves the handle: the payloads from page *)
(* p on, as many as the header of page h says.                              *)
Payloads(h, p) == [k \in 1..Span[h] |-> IF k = 1 THEN <<p, "payload">>
                                                 ELSE <<p + k - 1, "page">>]

(* What it may read when others do.                                         *)
Raws(p) == [1..Span[p] -> FilePages \X Spot]

ASSUME AdapterAssumption ==
    /\ Requests \in [Threads -> SUBSET [off : Int, len : Int]]
    /\ NumPages \in Nat /\ CacheSize \in Nat /\ Zero \in Byte
    /\ Extents \in Seq([off : Nat, len : Nat \ {0}, seg : Segments])
    /\ SegIndex \in [Segments -> Nat \cup {NotIndexed}] /\ NotIndexed \notin Nat
    /\ Kind \in [FilePages -> {"sg", "data", "other"}]
    /\ Span \in [FilePages -> Nat \ {0}]

ASSUME ThreadsAssumption == IsFiniteSet(Threads)

ASSUME InflateAssumption ==
    \A p \in FilePages : Kind[p] = "sg" =>
        \A r \in Raws(p) : Inflate(p, r) # Undecodable =>
            /\ Inflate(p, r) \in Seq(Byte)
            /\ Inflate(p, r) # NotCached

(* Extents are sorted, and one ends before the next offset begins.          *)
ASSUME ExtentsAssumption ==
    \A i, j \in 1..Len(Extents) : i < j =>
        \/ Extents[i].off = Extents[j].off
        \/ Extents[i].off + Extents[i].len <= Extents[j].off

ASSUME BaseAssumption == FirstPage \in Nat

-----------------------------------------------------------------------------
(* The image the extents describe *)

(* A global page of this slice, as a page of the file.                      *)
Rebased(p) == IF FirstPage # 0 /\ p >= FirstPage THEN p - FirstPage ELSE p

(* The header of page h and the payloads from page p on make a segment.     *)
Proper(h, p) == /\ h \in FilePages /\ Kind[h] = "sg" /\ h \notin Sealed
                /\ p \in FilePages
                /\ \A k \in 2..Span[h] : p + k - 1 \in FilePages /\ Kind[p + k - 1] = "data"
                /\ Inflate(h, Payloads(h, p)) # Undecodable

(* What the archive has for a segment: the payload of the page the index    *)
(* names, decoded by the header of that page without the base.              *)
HeadPage(s) == Rebased(SegIndex[s])
Served(s)   == SegIndex[s] # NotIndexed /\ Proper(HeadPage(s), SegIndex[s])
Plain(s)    == Inflate(HeadPage(s), Payloads(HeadPage(s), SegIndex[s]))

(* A segment of this file named by its own page: header and payload are of  *)
(* the same page.                                                           *)
Readable(s) == Served(s) /\ HeadPage(s) = SegIndex[s]

(* The extent in force at byte x, the last of those with the greatest       *)
(* offset up to x.                                                          *)
Reaches(i, x) == Extents[i].off <= x /\ x < Extents[i].off + Extents[i].len
InForce(i, x) == Reaches(i, x) /\ \A j \in 1..Len(Extents) :
                                      j > i => ~ (Extents[j].off <= x)

SegmentByte(i, x) == LET v == Plain(Extents[i].seg)  k == x - Extents[i].off
                     IN IF k < Len(v) THEN v[k + 1] ELSE Zero

ImageByte(x) == IF \E i \in 1..Len(Extents) : InForce(i, x)
                THEN SegmentByte(CHOOSE i \in 1..Len(Extents) : InForce(i, x), x)
                ELSE Zero

Sound(x) == \A i \in 1..Len(Extents) : InForce(i, x) => Readable(Extents[i].seg)

-----------------------------------------------------------------------------
VARIABLES pc,      \* pc[t]: where thread t is in read
          call,    \* call[t]: offset and length of its call
          cursor,  \* cursor[t]: the next byte of the range
          out,     \* out[t]: the bytes so far
          head,    \* head[t]: the page whose header it parsed
          raw,     \* raw[t]: the payloads it read
          plain,   \* plain[t]: the plaintext it holds
          fpos,    \* the file position, and who set it
          order,   \* keys of the segment cache, oldest first
          data,    \* data[s]: cached plaintext of s, or NotCached
          result,  \* result[t]: what its last call returned or raised
          raced    \* has a read begun where another thread seeked?

local == <<head, raw, plain>>
cache == <<order, data>>
file  == <<fpos, raced>>
adapterVars == <<pc, call, cursor, out, local, cache, file, result>>

Errors == {"ValueError", "KeyError", "IndexError", "IOError", "TibxAdapterError",
           "NotImplementedError"}
Err(e) == <<"raised", e>>

Labels == {"idle", "enter", "loop", "touch", "seekhead", "readhead", "seekbody",
           "readbody", "seeknext", "readnext", "store", "check", "pop", "done"}

AtRest == [page |-> 0, at |-> "page", by |-> "nobody"]

AdapterInit == /\ pc     = [t \in Threads |-> "idle"]
               /\ call   = [t \in Threads |-> [off |-> 0, len |-> 1]]
               /\ cursor = [t \in Threads |-> 0]
               /\ out    = [t \in Threads |-> << >>]
               /\ head   = [t \in Threads |-> 0]
               /\ raw    = [t \in Threads |-> << >>]
               /\ plain  = [t \in Threads |-> << >>]
               /\ fpos   = AtRest
               /\ order  = << >>
               /\ data   = [s \in Segments |-> NotCached]
               /\ result = [t \in Threads |-> << >>]
               /\ raced  = FALSE

-----------------------------------------------------------------------------
(* Walking the extents *)

EndOf(r) == r.off + r.len

(* bisect_right(offsets, x) - 1, as an index into Extents; 0 for none. *)
ExtentAt(x) == Cardinality({i \in 1..Len(Extents) : Extents[i].off <= x})
ExtentEnd(i) == Extents[i].off + Extents[i].len

InHole(x) == ExtentAt(x) # 0 => x >= ExtentEnd(ExtentAt(x))

Nearer(a, b) == IF a < b THEN a ELSE b

(* The end of the extent before the hole, not the start of the one after.   *)
HoleEndBefore(x, end) ==
    IF ExtentAt(x) = 0 \/ ExtentAt(x) >= Len(Extents) THEN end
    ELSE Nearer(end, ExtentEnd(ExtentAt(x)))

(* The request's end forgotten. *)
HoleEndOpen(x, end) ==
    IF ExtentAt(x) = 0 \/ ExtentAt(x) >= Len(Extents) THEN end
    ELSE Extents[ExtentAt(x) + 1].off

(* Where the zeros end: before the first extent they run to the end of the  *)
(* request.                                                                 *)
HoleEnd(x, end) ==
    IF ExtentAt(x) = 0 \/ ExtentAt(x) >= Len(Extents) THEN end
    ELSE Nearer(end, Extents[ExtentAt(x) + 1].off)

Zeros(n) == [i \in 1..n |-> Zero]

(* Bytes a..b-1 of v, padded with zeros where v is too short. *)
Padded(v, a, b) == [i \in 1..(b - a) |-> IF a + i <= Len(v) THEN v[a + i] ELSE Zero]

Segment(t) == Extents[ExtentAt(cursor[t])].seg

EndCall(t, r) == /\ pc'     = [pc EXCEPT ![t] = "done"]
                 /\ result' = [result EXCEPT ![t] = r]
                 /\ cursor' = [cursor EXCEPT ![t] = 0]
                 /\ out'    = [out EXCEPT ![t] = << >>]
                 /\ head'   = [head EXCEPT ![t] = 0]
                 /\ raw'    = [raw EXCEPT ![t] = << >>]
                 /\ plain'  = [plain EXCEPT ![t] = << >>]

Raise(t, e) == EndCall(t, Err(e))
Goto(t, l)  == pc' = [pc EXCEPT ![t] = l]

Begin(t) ==
    /\ pc[t] \in {"idle", "done"}
    /\ \E r \in Requests[t] : call' = [call EXCEPT ![t] = r]
    /\ Goto(t, "enter")
    /\ result' = [result EXCEPT ![t] = << >>]
    /\ UNCHANGED <<cursor, out, local, cache, file>>

Enter(t) ==
    /\ pc[t] = "enter"
    /\ IF call[t].len <= 0 \/ call[t].off < 0
       THEN Raise(t, "ValueError")
       ELSE /\ Goto(t, "loop")
            /\ cursor' = [cursor EXCEPT ![t] = call[t].off]
            /\ UNCHANGED <<out, local, result>>
    /\ UNCHANGED <<call, cache, file>>

More(t) == pc[t] = "loop" /\ cursor[t] < EndOf(call[t])

Return(t) == /\ pc[t] = "loop" /\ cursor[t] >= EndOf(call[t])
             /\ EndCall(t, out[t])
             /\ UNCHANGED <<call, cache, file>>

FillHole(t) ==
    /\ More(t) /\ InHole(cursor[t])
    /\ LET next == HoleEnd(cursor[t], EndOf(call[t])) IN
       /\ out'    = [out EXCEPT ![t] = @ \o Zeros(next - cursor[t])]
       /\ cursor' = [cursor EXCEPT ![t] = next]
    /\ UNCHANGED <<pc, call, local, cache, file, result>>

(* What the extent under the cursor contributes, out of plaintext v. *)
CopyFrom(t, v) ==
    LET i == ExtentAt(cursor[t])
        e == Nearer(EndOf(call[t]), ExtentEnd(i))
    IN /\ out'    = [out EXCEPT ![t] = @ \o Padded(v, cursor[t] - Extents[i].off,
                                                      e - Extents[i].off)]
       /\ cursor' = [cursor EXCEPT ![t] = e]
       /\ head'   = [head EXCEPT ![t] = 0]
       /\ raw'    = [raw EXCEPT ![t] = << >>]
       /\ plain'  = [plain EXCEPT ![t] = << >>]
       /\ Goto(t, "loop")

-----------------------------------------------------------------------------
(* The segment cache *)

(* _segment_cache.get *)
Get(t) ==
    /\ More(t) /\ ~ InHole(cursor[t]) /\ data[Segment(t)] # NotCached
    /\ plain' = [plain EXCEPT ![t] = data[Segment(t)]]
    /\ Goto(t, "touch")
    /\ UNCHANGED <<call, cursor, out, head, raw, cache, file, result>>

(* move_to_end, which raises when the key was evicted meanwhile. *)
Touch(t) ==
    /\ pc[t] = "touch"
    /\ IF InSeq(Segment(t), order)
       THEN /\ order' = MovedToEnd(order, Segment(t))
            /\ CopyFrom(t, plain[t])
            /\ UNCHANGED result
       ELSE /\ Raise(t, "KeyError")
            /\ UNCHANGED order
    /\ UNCHANGED <<call, data, file>>

Miss(t) ==
    /\ More(t) /\ ~ InHole(cursor[t]) /\ data[Segment(t)] = NotCached
    /\ IF SegIndex[Segment(t)] = NotIndexed
       THEN Raise(t, "TibxAdapterError")
       ELSE /\ Goto(t, "seekhead")
            /\ UNCHANGED <<cursor, out, local, result>>
    /\ UNCHANGED <<call, cache, file>>

Store(t) ==
    /\ pc[t] = "store"
    /\ data'  = [data EXCEPT ![Segment(t)] = plain[t]]
    /\ order' = Assigned(order, Segment(t))
    /\ Goto(t, "check")
    /\ UNCHANGED <<call, cursor, out, local, file, result>>

Over(n) == n > CacheSize

Check(t) ==
    /\ pc[t] = "check"
    /\ IF Over(Len(order))
       THEN Goto(t, "pop") /\ UNCHANGED <<cursor, out, local>>
       ELSE CopyFrom(t, plain[t])
    /\ UNCHANGED <<call, cache, file, result>>

(* popitem(last=False), which raises on an empty cache. *)
Pop(t) ==
    /\ pc[t] = "pop"
    /\ IF order # << >>
       THEN /\ order' = Tail(order)
            /\ data'  = [data EXCEPT ![Head(order)] = NotCached]
            /\ CopyFrom(t, plain[t])
            /\ UNCHANGED result
       ELSE Raise(t, "KeyError") /\ UNCHANGED cache
    /\ UNCHANGED <<call, file>>

-----------------------------------------------------------------------------
(* Reading a segment; every seek and every read of the file is a step. *)

SeekTo(t, p, at) == fpos' = [page |-> p, at |-> at, by |-> t] /\ UNCHANGED raced

BeforeRead(t) == pc[t] \in {"readhead", "readbody", "readnext"}

(* A read leaves the handle at page p.  Where it stays is only kept while   *)
(* another thread has seeked and not read: every read follows a seek.       *)
ReadUpTo(t, p, at) ==
    /\ fpos'  = IF \E u \in Threads \ {t} : BeforeRead(u)
                THEN [page |-> p, at |-> at, by |-> t] ELSE AtRest
    /\ raced' = (raced \/ fpos.by # t)

Wanted(t) == SegIndex[Segment(t)]

(* _raw_read_page *)
SeekHead(t) ==
    /\ pc[t] = "seekhead"
    /\ IF Rebased(Wanted(t)) >= NumPages
       THEN Raise(t, "IndexError") /\ UNCHANGED file
       ELSE /\ Goto(t, "readhead") /\ SeekTo(t, Rebased(Wanted(t)), "page")
            /\ UNCHANGED <<cursor, out, local, result>>
    /\ UNCHANGED <<call, cache>>

(* A whole page is left from the file position on.                          *)
WholePage == fpos.page + (IF fpos.at = "page" THEN 1 ELSE 2) <= NumPages

(* A short read ends with the file.                                         *)
AfterShort(t) == IF fpos.page >= NumPages THEN ReadUpTo(t, fpos.page, fpos.at)
                                          ELSE ReadUpTo(t, NumPages, "page")

AfterPage(t) == IF WholePage THEN ReadUpTo(t, fpos.page + 1, fpos.at) ELSE AfterShort(t)

(* Bytes that do not start at a page are not taken for one.                 *)
PageRead(kind) == WholePage /\ fpos.at = "page" /\ Kind[fpos.page] = kind

(* parse_sg_header, and the first check of decompress_segment *)
ReadHead(t) ==
    /\ pc[t] = "readhead"
    /\ AfterPage(t)
    /\ IF ~ WholePage
       THEN Raise(t, "IOError")
       ELSE IF ~ PageRead("sg")
       THEN Raise(t, "TibxAdapterError")
       ELSE IF fpos.page \in Sealed
       THEN Raise(t, "NotImplementedError")
       ELSE /\ head' = [head EXCEPT ![t] = fpos.page]
            /\ Goto(t, "seekbody")
            /\ UNCHANGED <<cursor, out, raw, plain, result>>
    /\ UNCHANGED <<call, cache>>

(* The payload of the page after the header's. *)
SeekBodyNext(t) ==
    /\ pc[t] = "seekbody"
    /\ SeekTo(t, Wanted(t) + 1, "payload") /\ Goto(t, "readbody")
    /\ UNCHANGED <<call, cursor, out, local, cache, result>>

(* The payload behind the header of the page the index names. *)
SeekBody(t) ==
    /\ pc[t] = "seekbody"
    /\ SeekTo(t, Wanted(t), "payload") /\ Goto(t, "readbody")
    /\ UNCHANGED <<call, cursor, out, local, cache, result>>

(* Raw is whole: decode it.  Else go on with the next page. *)
Decode(t, r) ==
    IF Len(r) < Span[head[t]]
    THEN /\ raw' = [raw EXCEPT ![t] = r]
         /\ Goto(t, "seeknext")
         /\ UNCHANGED <<cursor, out, head, plain, result>>
    ELSE IF Inflate(head[t], r) = Undecodable
    THEN Raise(t, "IOError")
    ELSE /\ plain' = [plain EXCEPT ![t] = Inflate(head[t], r)]
         /\ raw'   = [raw EXCEPT ![t] = r]
         /\ Goto(t, "store")
         /\ UNCHANGED <<cursor, out, head, result>>

(* A payload that goes on ends with its page.  From inside the last page    *)
(* the file may be too short for it.                                        *)
ReadBody(t) ==
    /\ pc[t] = "readbody"
    /\ \/ /\ fpos.page >= NumPages \/ (fpos.page = NumPages - 1 /\ fpos.at = "inside")
          /\ Raise(t, "IOError")
          /\ AfterShort(t)
       \/ /\ fpos.page < NumPages
          /\ Decode(t, << <<fpos.page, fpos.at>> >>)
          /\ IF fpos.at = "payload" /\ Span[head[t]] > 1
             THEN ReadUpTo(t, fpos.page + 1, "page")
             ELSE ReadUpTo(t, fpos.page, "inside")
    /\ UNCHANGED <<call, cache>>

NextPage(t) == Wanted(t) + Len(raw[t])

SeekNext(t) ==
    /\ pc[t] = "seeknext"
    /\ IF NextPage(t) >= NumPages
       THEN Raise(t, "IOError") /\ UNCHANGED file
       ELSE /\ Goto(t, "readnext") /\ SeekTo(t, NextPage(t), "page")
            /\ UNCHANGED <<cursor, out, local, result>>
    /\ UNCHANGED <<call, cache>>

(* A continuation page must be a data page without a header of its own. *)
ReadNext(t) ==
    /\ pc[t] = "readnext"
    /\ AfterPage(t)
    /\ IF ~ PageRead("data")
       THEN Raise(t, "IOError")
       ELSE Decode(t, Append(raw[t], <<fpos.page, "page">>))
    /\ UNCHANGED <<call, cache>>

-----------------------------------------------------------------------------
Step(t) == \/ Enter(t) \/ FillHole(t) \/ Get(t) \/ Touch(t) \/ Miss(t)
           \/ SeekHead(t) \/ ReadHead(t) \/ SeekBody(t) \/ ReadBody(t)
           \/ SeekNext(t) \/ ReadNext(t) \/ Store(t) \/ Check(t) \/ Pop(t)
           \/ Return(t)

AdapterNext == \E t \in Threads : Begin(t) \/ Step(t)

AdapterSpec == AdapterInit /\ [][AdapterNext]_adapterVars

(* Nothing in read waits for another thread, and the interpreter runs every *)
(* thread that can run.                                                     *)
FairSpec == AdapterSpec /\ \A t \in Threads : WF_adapterVars(Step(t))
-----------------------------------------------------------------------------
(* Properties *)

(* The type of every variable.  Only the seek to a payload may put the      *)
(* handle past the end of the file: pages are checked against it.           *)
AdapterTypeOK ==
    /\ pc \in [Threads -> Labels]
    /\ call \in [Threads -> [off : Int, len : Int]]
    /\ cursor \in [Threads -> Int]
    /\ out \in [Threads -> Seq(Byte)]
    /\ head \in [Threads -> FilePages \cup {0}]
    /\ raw \in [Threads -> Seq(FilePages \X Spot)]
    /\ plain \in [Threads -> Seq(Byte)]
    /\ fpos \in [page : Nat, at : Spot, by : Threads \cup {"nobody"}]
    /\ fpos.page > NumPages => fpos.at = "payload"
    /\ order \in Seq(Segments)
    /\ DOMAIN data = Segments
    /\ \A s \in Segments : data[s] # NotCached => data[s] \in Seq(Byte)
    /\ DOMAIN result = Threads
    /\ raced \in BOOLEAN

(* As long as no read began where another thread had seeked, the cache only *)
(* holds what the archive has for the segments they are filed under: losing *)
(* a key to an eviction, storing one twice or popping for another thread    *)
(* never mixes segments.  What the archive has for a segment whose number   *)
(* is a global and a local page of the file is itself a mixture, of the     *)
(* header of the one and the payload of the other (_raw_read_page and       *)
(* payload_offset).                                                         *)
CacheSound ==
    ~ raced => \A s \in Segments : data[s] # NotCached => Served(s) /\ data[s] = Plain(s)

(* Each thread between its store and its eviction may add one segment to    *)
(* the limit, and keys and contents of the cache always agree.              *)
CacheBounded ==
    /\ Distinct(order)
    /\ Len(order) <= CacheSize + Cardinality({t \in Threads : pc[t] \in {"check", "pop"}})
    /\ \A s \in Segments : data[s] # NotCached <=> InSeq(s, order)

CacheInv == AdapterTypeOK /\ CacheSound /\ CacheBounded

(* A call that ended with no such read, over sound extents, whose segments  *)
(* are each named by their own page.                                        *)
Undisturbed(t) == /\ pc[t] = "done" /\ ~ raced
                  /\ call[t].off >= 0 /\ call[t].len > 0
                  /\ \A x \in call[t].off..(EndOf(call[t]) - 1) : Sound(x)

IsImage(t) == \/ result[t] = [i \in 1..call[t].len |-> ImageByte(call[t].off + i - 1)]
              \/ result[t] = Err("KeyError")

(* Such a call that does not begin before the first extent returns exactly  *)
(* the image the extents describe, over holes, short segments and the end   *)
(* of the last extent; all that can happen to it is a KeyError from a key   *)
(* another thread evicted.                                                  *)
ReadIsImage ==
    \A t \in Threads :
        Undisturbed(t) /\ (Extents # << >> => call[t].off >= Extents[1].off) => IsImage(t)

(* Every call returns or raises. *)
ReadReturns == \A t \in Threads : pc[t] \notin {"idle", "done"} ~> pc[t] = "done"

(* The comment on the hole fill of _read_partition: "In a sparse hole.      *)
(* Zero-fill until the next extent (or the requested end, whichever is      *)
(* sooner)."  So a call that begins in any hole returns the image.          *)
HoleEndsAtExtent == \A t \in Threads : Undisturbed(t) => IsImage(t)

(* disk_adapter.py's _read_segment_plaintext: "Return the (cached)          *)
(* decompressed plaintext of segment ``seg_id``."                           *)
SegmentIsItsOwn ==
    \A t \in Threads : pc[t] \in {"touch", "check", "pop"} =>
        plain[t] = Plain(Segment(t))
=============================================================================

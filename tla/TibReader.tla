------------------------------ MODULE TibReader ------------------------------
(***************************************************************************)
(* Concurrent random access to a sector-mode .tib archive                  *)
(* (tibread/reader.py, classes LRUCache and TibReader).                    *)
(*                                                                         *)
(* The archive is a sequence of blocks of ClustersPerBlock clusters.  A    *)
(* block's preamble is a bitmap of the clusters it stores; its zlib stream *)
(* inflates to exactly those clusters, in cluster order.  The FUSE worker  *)
(* threads call read(offset, length) on one shared reader.  A call walks   *)
(* its range cluster by cluster, and for a stored cluster either finds the *)
(* inflated block in the shared, locked LRU cache or seeks and reads it on *)
(* the thread's own file handle and then stores it in the cache.  Every    *)
(* step between two lock or system calls is one action, so two threads may *)
(* miss on one block together, evict each other's blocks and so on.        *)
(***************************************************************************)
EXTENDS Integers, Sequences, FiniteSets, OrderedDict

CONSTANTS Threads,           \* FUSE worker threads
          Offsets, Lengths,  \* the requests they make
          BlockCount,        \* blocks listed in the index
          ClustersPerBlock,  \* 128 or 64 in the code
          ClusterSize,       \* 4096 in the code
          CacheBlocks,       \* maxsize of the LRU cache
          Byte, Zero,        \* byte values; the one a sparse cluster reads as
          Disk,              \* Disk[c]: the cluster backed up at LCN c
          Preamble,          \* Preamble[b][i]: set bits of byte i of b's bitmap
          Archive,           \* Archive[b]: the clusters b's stream inflates to
          CorruptRecord,     \* blocks whose index record has comp_len too small
          BadStream,         \* blocks whose bytes zlib refuses
          NotCached          \* what data[b] is while block b is not cached

Blocks        == 0..(BlockCount - 1)
PreambleLen   == ClustersPerBlock \div 8
PartitionSize == BlockCount * (ClustersPerBlock * ClusterSize)
Cluster       == {s \in Seq(Byte) : Len(s) = ClusterSize}

ASSUME GeometryAssumption ==
    /\ BlockCount \in Nat
    /\ ClustersPerBlock \in Nat \ {0} /\ ClustersPerBlock % 8 = 0
    /\ ClusterSize \in Nat \ {0}
    /\ CacheBlocks \in Nat
    /\ Offsets \subseteq Int /\ Lengths \subseteq Int

ASSUME ContentAssumption ==
    /\ Zero \in Byte
    /\ DOMAIN Disk = 0..(BlockCount * ClustersPerBlock - 1)
    /\ \A c \in DOMAIN Disk : Disk[c] \in Seq(Byte) /\ Len(Disk[c]) = ClusterSize
    /\ Preamble \in [Blocks -> [0..(PreambleLen - 1) -> SUBSET (0..7)]]
    /\ DOMAIN Archive = Blocks
    /\ \A b \in Blocks : /\ Archive[b] \in Seq(Seq(Byte))
                         /\ \A k \in 1..Len(Archive[b]) : Len(Archive[b][k]) = ClusterSize
                         /\ Archive[b] # NotCached
    /\ CorruptRecord \subseteq Blocks /\ BadStream \subseteq Blocks

-----------------------------------------------------------------------------
(* Addressing *)

ClusterOf(x) == x \div ClusterSize
BlockOf(x)   == ClusterOf(x) \div ClustersPerBlock
LocalOf(x)   == ClusterOf(x) % ClustersPerBlock

(* Is cluster l of block b stored?  (_bit_set) *)
BitSet(b, l) == (l % 8) \in Preamble[b][l \div 8]

(* The stored clusters of b before cluster l, counted whole byte by whole   *)
(* byte and then under a mask in the byte of l itself (_popcount_before).   *)
FullByteBits(b, l) ==
    {p \in (0..((l \div 8) - 1)) \X (0..7) : p[2] \in Preamble[b][p[1]]}
MaskedBits(b, l) ==
    IF l % 8 = 0 THEN {} ELSE {j \in Preamble[b][l \div 8] : j < l % 8}

(* A mask one bit too wide counts cluster l itself. *)
PopcountThrough(b, l) ==
    Cardinality(FullByteBits(b, l)) + Cardinality({j \in Preamble[b][l \div 8] : j <= l % 8})

PopcountBefore(b, l) ==
    Cardinality(FullByteBits(b, l)) + Cardinality(MaskedBits(b, l))

(* A stored cluster: an indexed block with the bit set. *)
Present(x) == BlockOf(x) < BlockCount /\ BitSet(BlockOf(x), LocalOf(x))

-----------------------------------------------------------------------------
(* The image the reader must expose *)

Bits(b) == {l \in 0..(ClustersPerBlock - 1) : BitSet(b, l)}

(* The stream of b still holds exactly the stored clusters, in LCN order.   *)
HoldsClusters(b) ==
    LET n == Len(Archive[b]) IN
    \E e \in [1..n -> Bits(b)] :
        /\ \A j, k \in 1..n : j < k => e[j] < e[k]
        /\ \A l \in Bits(b) : \E k \in 1..n : e[k] = l
        /\ \A k \in 1..n : Archive[b][k] = Disk[ClustersPerBlock * b + e[k]]

IntactBlocks == {b \in Blocks \ (CorruptRecord \cup BadStream) : HoldsClusters(b)}

ImageByte == [x \in 0..(PartitionSize - 1) |->
                 IF Present(x) THEN Disk[ClusterOf(x)][(x % ClusterSize) + 1]
                               ELSE Zero]

Damaged == {x \in 0..(PartitionSize - 1) : Present(x) /\ BlockOf(x) \notin IntactBlocks}

-----------------------------------------------------------------------------
VARIABLES pc,      \* pc[t]: where thread t is in read
          call,    \* call[t]: offset and length of its call
          cur,     \* cur[t]: the next byte of the range
          out,     \* out[t]: the bytearray being filled
          block,   \* block[t]: the inflated block it holds, once read
          fpos,    \* fpos[h]: block at which file handle h stands
          order,   \* keys of the LRU cache, least recently used first
          data,    \* data[b]: cached block b, or NotCached
          result   \* result[t]: what its last call returned or raised

vars == <<pc, call, cur, out, block, fpos, order, data, result>>

ValueErr  == <<"ValueError">>
ZlibErr   == <<"zlib.error">>

Labels == {"idle", "enter", "loop", "seek", "read", "put", "done"}

Init ==
    /\ pc     = [t \in Threads |-> "idle"]
    /\ call   = [t \in Threads |-> [off |-> 0, len |-> 0]]
    /\ cur    = [t \in Threads |-> 0]
    /\ out    = [t \in Threads |-> << >>]
    /\ block  = [t \in Threads |-> << >>]
    /\ fpos   = [t \in Threads |-> 0]
    /\ order  = << >>
    /\ data   = [b \in Blocks |-> NotCached]
    /\ result = [t \in Threads |-> << >>]

-----------------------------------------------------------------------------
(* LRUCache: both operations run under the cache's lock. *)

(* Dropping from the front while there are more than maxsize keys. *)
Kept(s) == IF Len(s) > CacheBlocks
           THEN SubSeq(s, Len(s) - CacheBlocks + 1, Len(s)) ELSE s

(* Evicting once the cache is one past its limit. *)
LatePut(b, v) ==
    /\ order' = LET s == MovedToEnd(order, b)
                IN IF Len(s) > CacheBlocks + 1 THEN Tail(s) ELSE s
    /\ data'  = [x \in Blocks |-> IF ~ InSeq(x, order') THEN NotCached
                                  ELSE IF x = b THEN v ELSE data[x]]

CachePut(b, v) ==
    /\ order' = Kept(MovedToEnd(order, b))
    /\ data'  = [x \in Blocks |-> IF ~ InSeq(x, order') THEN NotCached
                                  ELSE IF x = b THEN v ELSE data[x]]

CacheTouch(b) == order' = MovedToEnd(order, b) /\ UNCHANGED data

-----------------------------------------------------------------------------
(* TibReader.read *)

EndOf(r) == IF r.off + r.len < PartitionSize THEN r.off + r.len ELSE PartitionSize

(* Python's s[a:b]. *)
Slice(s, a, b) == SubSeq(s, a + 1, IF b < Len(s) THEN b ELSE Len(s))

(* Python's s[a:a+n] = piece on a bytearray: the tail moves when the piece  *)
(* is not n bytes long.                                                     *)
Splice(s, a, n, piece) == Slice(s, 0, a) \o piece \o Slice(s, a + n, Len(s))

InCluster(x) == x % ClusterSize

(* To the end of the cluster even when the range ends first. *)
UnclippedTake(t) == ClusterSize - InCluster(cur[t])

(* Nothing from the last byte of a cluster. *)
ShortTake(t) == LET left == EndOf(call[t]) - cur[t]
                    room == ClusterSize - 1 - InCluster(cur[t])
                IN IF left < room THEN left ELSE room

(* Bytes of the range in the current cluster, or all that is left when no   *)
(* index record covers it.                                                  *)
Take(t) == LET left == EndOf(call[t]) - cur[t]
               room == ClusterSize - InCluster(cur[t])
           IN IF BlockOf(cur[t]) >= BlockCount \/ left < room THEN left ELSE room

(* The bytes of the current cluster in inflated block v. *)
Piece(t, v) ==
    LET p == PopcountBefore(BlockOf(cur[t]), LocalOf(cur[t]))
        c == IF p < Len(v) THEN v[p + 1] ELSE << >>
    IN Slice(c, InCluster(cur[t]), InCluster(cur[t]) + Take(t))

CopyFrom(t, v) ==
    /\ out' = [out EXCEPT ![t] = Splice(@, cur[t] - call[t].off, Take(t), Piece(t, v))]
    /\ cur' = [cur EXCEPT ![t] = @ + Take(t)]
    /\ pc'  = [pc EXCEPT ![t] = "loop"]

(* The call returns or raises r; its local variables are gone. *)
Finish(t, r) == /\ pc'     = [pc EXCEPT ![t] = "done"]
                /\ result' = [result EXCEPT ![t] = r]
                /\ cur'    = [cur EXCEPT ![t] = 0]
                /\ out'    = [out EXCEPT ![t] = << >>]
                /\ block'  = [block EXCEPT ![t] = << >>]

(* A thread of the mount calls read. *)
Begin(t) ==
    /\ pc[t] \in {"idle", "done"}
    /\ \E off \in Offsets, len \in Lengths :
          call' = [call EXCEPT ![t] = [off |-> off, len |-> len]]
    /\ pc'     = [pc EXCEPT ![t] = "enter"]
    /\ result' = [result EXCEPT ![t] = << >>]
    /\ UNCHANGED <<cur, out, block, fpos, order, data>>

(* The checks before the loop. *)
Enter(t) ==
    /\ pc[t] = "enter"
    /\ LET r == call[t] IN
       \/ /\ r.off < 0
          /\ Finish(t, ValueErr)
       \/ /\ r.off >= 0
          /\ r.len <= 0 \/ EndOf(r) <= r.off
          /\ Finish(t, << >>)
       \/ /\ r.off >= 0 /\ r.len > 0 /\ EndOf(r) > r.off
          /\ pc'  = [pc EXCEPT ![t] = "loop"]
          /\ cur' = [cur EXCEPT ![t] = r.off]
          /\ out' = [out EXCEPT ![t] = [i \in 1..(EndOf(r) - r.off) |-> Zero]]
          /\ UNCHANGED <<block, result>>
    /\ UNCHANGED <<call, fpos, order, data>>

More(t) == pc[t] = "loop" /\ cur[t] < EndOf(call[t])

(* A sparse cluster: the buffer already holds zeros. *)
SkipSparse(t) ==
    /\ More(t) /\ ~ Present(cur[t])
    /\ cur' = [cur EXCEPT ![t] = @ + Take(t)]
    /\ UNCHANGED <<pc, call, out, block, fpos, order, data, result>>

(* cache.get finds the block and makes it the most recently used. *)
Hit(t) ==
    /\ More(t) /\ Present(cur[t])
    /\ data[BlockOf(cur[t])] # NotCached
    /\ CacheTouch(BlockOf(cur[t]))
    /\ CopyFrom(t, data[BlockOf(cur[t])])
    /\ UNCHANGED <<call, block, fpos, result>>

(* cache.get misses; the index record is looked at. *)
Miss(t) ==
    /\ More(t) /\ Present(cur[t])
    /\ data[BlockOf(cur[t])] = NotCached
    /\ IF BlockOf(cur[t]) \in CorruptRecord
       THEN Finish(t, ValueErr)
       ELSE /\ pc' = [pc EXCEPT ![t] = "seek"]
            /\ UNCHANGED <<cur, out, block, result>>
    /\ UNCHANGED <<call, fpos, order, data>>

(* One handle for every thread. *)
SharedHandle(t) == CHOOSE x \in Threads : TRUE

(* _file(): the handle in the thread's own threading.local slot. *)
Handle(t) == t

Seek(t) ==
    /\ pc[t] = "seek"
    /\ fpos' = [fpos EXCEPT ![Handle(t)] = BlockOf(cur[t])]
    /\ pc'   = [pc EXCEPT ![t] = "read"]
    /\ UNCHANGED <<call, cur, out, block, order, data, result>>

(* Read and inflate from wherever the handle stands. *)
ReadInflate(t) ==
    /\ pc[t] = "read"
    /\ LET b == fpos[Handle(t)] IN
       IF b \in BadStream
       THEN Finish(t, ZlibErr)
       ELSE /\ block' = [block EXCEPT ![t] = Archive[b]]
            /\ pc'    = [pc EXCEPT ![t] = "put"]
            /\ UNCHANGED <<cur, out, result>>
    /\ UNCHANGED <<call, fpos, order, data>>

(* cache.put, then the copy out of the block just read. *)
Put(t) ==
    /\ pc[t] = "put"
    /\ CachePut(BlockOf(cur[t]), block[t])
    /\ CopyFrom(t, block[t])
    /\ block' = [block EXCEPT ![t] = << >>]
    /\ UNCHANGED <<call, fpos, result>>

Return(t) ==
    /\ pc[t] = "loop" /\ cur[t] >= EndOf(call[t])
    /\ Finish(t, out[t])
    /\ UNCHANGED <<call, fpos, order, data>>

(* A thread's own steps once it was called. *)
Step(t) == \/ Enter(t) \/ SkipSparse(t) \/ Hit(t) \/ Miss(t)
           \/ Seek(t) \/ ReadInflate(t) \/ Put(t) \/ Return(t)

Next == \E t \in Threads : Begin(t) \/ Step(t)

Spec == Init /\ [][Next]_vars

(* No step of read waits for anything another thread must do, and the       *)
(* interpreter schedules every runnable thread.                             *)
FairSpec == Spec /\ \A t \in Threads : WF_vars(Step(t))

-----------------------------------------------------------------------------
(* Properties *)

InLoop == {"loop", "seek", "read", "put"}

(* The type of every variable. *)
TypeOK ==
    /\ pc \in [Threads -> Labels]
    /\ call \in [Threads -> [off : Int, len : Int]]
    /\ cur \in [Threads -> Int]
    /\ out \in [Threads -> Seq(Byte)]
    /\ block \in [Threads -> Seq(Seq(Byte))]
    /\ fpos \in [Threads -> Blocks \cup {0}]
    /\ order \in Seq(Blocks)
    /\ DOMAIN data = Blocks
    /\ DOMAIN result = Threads

(* The shared cache never holds anything but what the archive's stream of   *)
(* that very block inflates to, whatever the threads' seeks, reads and puts *)
(* interleave to; a corrupt record or stream leaves nothing behind.         *)
CacheSound ==
    \A b \in Blocks : data[b] # NotCached =>
        data[b] = Archive[b] /\ b \notin CorruptRecord \cup BadStream

(* Keys and contents of the cache agree, no key is listed twice, and the    *)
(* cache is never left over its limit, even at limit 0 or when two threads  *)
(* put the same block.                                                      *)
CacheBounded ==
    /\ Len(order) <= CacheBlocks
    /\ \A b \in Blocks : data[b] # NotCached <=> InSeq(b, order)
    /\ Distinct(order)

(* A finished read that asked for nothing the archive has lost returned the *)
(* bytes of the backed-up partition, zeros for sparse clusters, clipped at  *)
(* the end: whatever its alignment, the threads beside it and the damaged   *)
(* blocks those met.                                                        *)
I == INSTANCE TibImage WITH
        status <- [t \in Threads |->
                     IF pc[t] = "idle" THEN "idle"
                     ELSE IF pc[t] = "done" THEN "done" ELSE "busy"]

ReadIsImage ==
    \A t \in Threads :
        pc[t] = "done" /\ I!Clean(call[t]) => result[t] = I!SliceOf(call[t])

(* The reader implements the abstract image: between its call and its       *)
(* return a read changes nothing anyone else can see, and it returns once.  *)
ImplementsImage == I!Spec

(* A thread never leaves the indexed blocks: the reader's own clipping      *)
(* makes its "beyond indexed area" branch unreachable.                      *)
WithinIndex ==
    \A t \in Threads : pc[t] \in InLoop /\ cur[t] < EndOf(call[t]) =>
        BlockOf(cur[t]) \in Blocks

(* What holds of the state whatever the reads are for. *)
WellFormed == TypeOK /\ CacheBounded /\ WithinIndex

(* Every read returns or raises. *)
ReadReturns == \A t \in Threads : pc[t] \notin {"idle", "done"} ~> pc[t] = "done"

(* reader.py's read: "Read `length` bytes starting at `offset` of the       *)
(* original partition image ... Reads past partition end are clipped": a    *)
(* call that returns bytes returns the number asked for, clipped.           *)
ReadIsFull ==
    \A t \in Threads :
        pc[t] = "done" /\ result[t] \notin {ValueErr, ZlibErr} =>
            Len(result[t]) = Len(I!SliceOf(call[t]))
=============================================================================

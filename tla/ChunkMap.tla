------------------------------- MODULE ChunkMap -------------------------------
(***************************************************************************)
(* Building the index of a sector-mode .tib (tibread/chunkmap_locator.py,  *)
(* chunkmap.py, chunkmap_legacy.py, indexer.py).                           *)
(*                                                                         *)
(* A modern archive has one chunk map behind its blocks, found through a   *)
(* signature in the metadata at its end.  A legacy one has pieces of the   *)
(* map between its blocks, found by walking the whole stream.              *)
(*                                                                         *)
(* arch.items is the file behind its header, each item at its offset:      *)
(*   block   a bitmap of `pre' bytes, then a zlib stream of z bytes        *)
(*   inline  the byte L = pre - 1, L bytes of TLV, a zlib stream           *)
(*   map     the same, for the modern chunk map                            *)
(*   other   anything else                                                 *)
(* first is the first byte where it is one that a legacy map may start     *)
(* with, or None.  early is where the bytes 78 01 first appear in the      *)
(* bitmap, or None.  good: the zlib stream inflates; pages: to a positive  *)
(* multiple of 4096 no longer than a block.                                *)
(***************************************************************************)
EXTENDS Integers, Sequences, FiniteSets, SequencesExt, FiniteSetsExt

CONSTANTS Archives, None,
          Word,         \* 2^32
          DataStart,    \* 32
          Modern,       \* 16, the bitmap of a modern block
          Legacy,       \* 8, that of a legacy block until a map says otherwise
          Window,       \* 32, INLINE_TLV_SCAN_WINDOW
          MaxSkip,      \* 128 KiB
          ScanWindow,   \* 4096
          MaxBack,      \* 1 GiB
          MinSize, MaxSize   \* 1024 and 100 MiB

VARIABLES arch, numpy, phase, cur, mds, cpb, plen, locked, recs, index, error

mapVars == <<arch, numpy, phase, cur, mds, cpb, plen, locked, recs, index, error>>

ChunkMapAssumption == /\ Word \in Nat \ {0} /\ Word % 2 = 0
                      /\ {DataStart, Modern, Legacy, Window, MaxSkip, ScanWindow,
                          MaxBack, MinSize, MaxSize} \subseteq Nat
                      /\ None \notin Nat
ASSUME ChunkMapAssumption

-----------------------------------------------------------------------------
(* Decoding: the words of all records, column after column (low and high     *)
(* word of the delta, length), are put in rows.  A delta's lowest bit is its *)
(* sign; an offset is the end of the block before plus the delta, in 64 bits.*)

Wide == Word * Word

Transpose(buf, rows, cols) ==
    [k \in 1..(rows * cols) |-> buf[((k - 1) % cols) * rows + ((k - 1) \div cols) + 1]]

(* The sign is left out. *)
DeltaUnsigned(lo, hi) == (hi \div 2) * Word + (lo \div 2) + (hi % 2) * (Word \div 2)

Delta(lo, hi) == LET mag == (hi \div 2) * Word + (lo \div 2) + (hi % 2) * (Word \div 2)
                 IN IF lo % 2 = 1 THEN (Wide - mag) % Wide ELSE mag

Row(rows, i) == SubSeq(rows, 3 * i - 2, 3 * i)

OffsetFrom(running, r) == (running + Delta(r[1], r[2])) % Wide

DecodeLoop(rows, count) ==
    LET ends[i \in 0..count] ==
            IF i = 0 THEN 0 ELSE (OffsetFrom(ends[i - 1], Row(rows, i)) + Row(rows, i)[3]) % Wide
    IN [i \in 1..count |-> [off |-> OffsetFrom(ends[i - 1], Row(rows, i)), len |-> Row(rows, i)[3]]]

(* With numpy: the sums of all steps at once, the first one apart.           *)
StepTo(rows, i) == LET r == Row(rows, i)
                   IN (Delta(r[1], r[2]) + (IF i = 1 THEN 0 ELSE Row(rows, i - 1)[3])) % Wide

DecodeNumpy(rows, count) ==
    LET offs[i \in 0..count] == IF i = 0 THEN 0 ELSE (offs[i - 1] + StepTo(rows, i)) % Wide
    IN [i \in 1..count |-> [off |-> offs[i], len |-> Row(rows, i)[3]]]

(* numpy cannot take the first of no records.                                *)
CanDecode(count) == ~(numpy /\ count = 0)

DecodeRecords(rows, count) ==
    IF numpy THEN DecodeNumpy(rows, count) ELSE DecodeLoop(rows, count)

Decoded(plain) == LET count == Len(plain) \div 3
                  IN DecodeRecords(Transpose(plain, count, 3), count)

-----------------------------------------------------------------------------
(* The file *)

Item(i)  == arch.items[i]
Items    == DOMAIN arch.items
ZlibAt(i) == Item(i).at + Item(i).pre
Size(i)  == Item(i).pre + Item(i).z
FileEnd  == LET i == Len(arch.items) IN Item(i).at + Size(i)
At(p)    == {i \in Items : Item(i).at = p}
Zlib(p)  == {i \in Items : Item(i).kind # "other" /\ ZlibAt(i) = p}

(* The last of the volumes 1, 2, ... with no number left out.                *)
LastVolume == CHOOSE n \in 1..(Cardinality(arch.volumes) + 1) :
                  n + 1 \notin arch.volumes /\ 2..n \subseteq arch.volumes
FindLastVolume == IF arch.name = None \/ LastVolume = 1 THEN arch.name ELSE LastVolume

Refuse(why) == /\ phase' = "error"
               /\ error' = why
               /\ UNCHANGED <<arch, numpy, cur, mds, cpb, plen, locked, recs, index>>

GoOn(label) == /\ phase' = label
               /\ UNCHANGED <<arch, numpy, cur, mds, cpb, plen, locked, recs, index, error>>

MapInit == /\ arch \in Archives
           /\ numpy \in BOOLEAN
           /\ phase = "header"
           /\ cur = DataStart
           /\ mds = << >>
           /\ cpb = 8 * Legacy
           /\ plen = Legacy
           /\ locked = FALSE
           /\ recs = << >>
           /\ index = None
           /\ error = None

(* What the header says of the file, in the order it is asked.               *)
HeaderError ==
    CASE arch.magic # "sector"                         -> "format"
      [] arch.magic = "sector" /\ arch.seq > 1         -> "volume"
      [] arch.magic = "sector" /\ arch.seq = 1 /\ arch.name # None
            /\ FindLastVolume # arch.name              -> "volume"
      [] OTHER -> IF arch.version = 1 /\ arch.fourK THEN "very legacy"
                  ELSE IF arch.version # 0 THEN "version" ELSE None

ReadHeader ==
    /\ phase = "header"
    /\ \/ HeaderError # None /\ Refuse(HeaderError)
       \/ HeaderError = None /\ GoOn("trailer")

(* The magic that ends the last slice, and the offset of the metadata, of    *)
(* four to eight bytes.                                                      *)
TrailerError == CASE arch.trailer # "sector"          -> "trailer"
                  [] ~(arch.metaLen \in 4..8)         -> "metadata offset"
                  [] 3 + arch.metaLen > arch.bodyLen  -> "metadata offset"
                  [] OTHER                            -> None

ReadTrailer ==
    /\ phase = "trailer"
    /\ \/ TrailerError # None /\ Refuse(TrailerError)
       \/ TrailerError = None /\ GoOn("locate")

(* Signatures of a locator close to the trailer whose numbers make sense.    *)
Candidates(a) == {c \in a.cands : /\ c.at >= a.trailerAt - ScanWindow
                                  /\ c.V > 0 /\ c.V < a.meta
                                  /\ a.meta - c.V < MaxBack
                                  /\ c.S > MinSize /\ c.S < MaxSize}

Foremost(a, c) == \A d \in Candidates(a) : c.V < d.V \/ (c.V = d.V /\ c.at <= d.at)

(* The locator nearest to the metadata rather than the farthest from it. *)
ChosenLast == CHOOSE c \in Candidates(arch) : \A d \in Candidates(arch) : c.V > d.V \/ c = d

Chosen == CHOOSE c \in Candidates(arch) : Foremost(arch, c)

(* Where no map is, the bytes are taken not to look like a zlib stream.      *)
Locate ==
    /\ phase = "locate"
    /\ \/ Candidates(arch) = {} /\ GoOn("walk")
       \/ /\ Candidates(arch) # {}
          /\ \/ At(DataStart + Chosen.V) = {} /\ Refuse("zlib offset")
             \/ \E i \in At(DataStart + Chosen.V) :
                   IF Item(i).kind = "map"
                   THEN /\ cur' = i
                        /\ phase' = "map"
                        /\ UNCHANGED <<arch, numpy, mds, cpb, plen, locked, recs, index, error>>
                   ELSE Refuse("zlib offset")

(* zlib.decompress wants the whole stream and lets what follows it be.       *)
DecodeChunkMap ==
    /\ phase = "map"
    /\ LET m == Item(cur) IN
       IF ~m.good \/ Chosen.S - m.pre < m.z THEN Refuse("zlib")
       ELSE IF Len(m.plain) % 3 # 0 \/ ~CanDecode(Len(m.plain) \div 3) THEN Refuse("records")
       ELSE /\ recs' = Decoded(m.plain)
            /\ plen' = Modern
            /\ cpb' = 8 * Modern
            /\ cur' = ZlibAt(cur)
            /\ phase' = "write"
            /\ UNCHANGED <<arch, numpy, mds, locked, index, error>>

-----------------------------------------------------------------------------
(* The walk over a legacy archive *)

(* Length of the TLV when the bytes at cur look like a piece of the map:     *)
(* the right first byte, and 78 01 early on, but not where the stream of a   *)
(* block would start.                                                        *)
Magics(i) == {Item(i).early, Item(i).pre} \ {None}
InlineAt == {i \in At(cur) :
                /\ Item(i).kind # "other" /\ Item(i).first # None
                /\ Min(Magics(i)) < Min({Window, FileEnd - cur - 1})
                /\ Min(Magics(i)) # plen}

WalkEnd == IF mds = << >> THEN Refuse("no map")
           ELSE /\ cur' = 1
                /\ phase' = "decode"
                /\ UNCHANGED <<arch, numpy, mds, cpb, plen, locked, recs, index, error>>

WalkStop == /\ phase = "walk"
            /\ \/ cur >= FileEnd
               \/ FileEnd - cur < plen + 2
               \/ InlineAt = {} /\ Zlib(cur + plen) = {}
            /\ WalkEnd

(* The first piece found sets the geometry for the rest of the walk.  Its    *)
(* zlib stream is not guarded: damage in it ends the whole run.              *)
WalkInline ==
    /\ phase = "walk" /\ cur < FileEnd /\ FileEnd - cur >= plen + 2
    /\ \E i \in InlineAt :
          LET stream == {j \in Zlib(cur + 1 + Item(i).first) : Item(j).good} IN
          \/ stream = {} /\ Refuse("zlib")
          \/ \E j \in stream :
                /\ cpb' = IF ~locked /\ Item(i).cpb # None THEN Item(i).cpb ELSE cpb
                /\ plen' = IF locked THEN plen ELSE cpb' \div 8
                /\ locked' = TRUE
                /\ mds' = Append(mds, cur)
                /\ cur' = Item(j).at + Size(j)
                /\ phase' = IF cur' >= FileEnd THEN "walk" ELSE "skip"
                /\ UNCHANGED <<arch, numpy, recs, index, error>>

(* The offset is not moved past a block. *)
WalkBlockStuck == /\ phase = "walk" /\ InlineAt = {}
                  /\ \E i \in Zlib(cur + plen) : IF Item(i).good THEN UNCHANGED mapVars ELSE WalkEnd

(* A damaged block ends the walk without an error.                           *)
WalkBlock ==
    /\ phase = "walk" /\ cur < FileEnd /\ FileEnd - cur >= plen + 2
    /\ InlineAt = {}
    /\ \E i \in Zlib(cur + plen) :
          \/ ~Item(i).good /\ WalkEnd
          \/ /\ Item(i).good
             /\ cur' = ZlibAt(i) + Item(i).z
             /\ UNCHANGED <<arch, numpy, phase, mds, cpb, plen, locked, recs, index, error>>

(* Only the very next byte is tried. *)
NextBlocksHere == {p \in {cur} : \E i \in Zlib(p + plen) : Item(i).good /\ Item(i).pages}

(* _find_next_block: behind a piece of the map, the first offset from which  *)
(* a whole block can be read.                                                *)
NextBlocks == {p \in cur..(Min({cur + MaxSkip, FileEnd}) - plen - 2) :
                  \E i \in Zlib(p + plen) : Item(i).good /\ Item(i).pages}

FindNextBlock ==
    /\ phase = "skip"
    /\ \/ NextBlocks = {} /\ WalkEnd
       \/ /\ NextBlocks # {}
          /\ cur' = Min(NextBlocks)
          /\ phase' = "walk"
          /\ UNCHANGED <<arch, numpy, mds, cpb, plen, locked, recs, index, error>>

(* decode_inline_chunkmap, for one piece after another; here cur counts them.*)
DecodeInline ==
    /\ phase = "decode" /\ cur <= Len(mds)
    /\ \E i \in At(mds[cur]) :
          LET m == Item(i) IN
          IF m.kind # "inline" \/ m.first \notin 8..64 \/ m.count = None THEN Refuse("no count")
          ELSE IF Len(m.plain) # 3 * m.count \/ ~CanDecode(m.count) THEN Refuse("records")
          ELSE /\ recs' = recs \o Decoded(m.plain)
               /\ cur' = cur + 1
               /\ UNCHANGED <<arch, numpy, phase, mds, cpb, plen, locked, index, error>>

DecodeEnd == /\ phase = "decode" /\ cur > Len(mds)
             /\ GoOn("write")

-----------------------------------------------------------------------------
(* The index: for each block of the partition its place in the file, its     *)
(* bitmap and its length, all zero for one that is not stored.               *)

BitmapAt(p) == {Item(i).pb : i \in {j \in At(p) : Item(j).kind = "block" /\ Item(j).pre = plen}}

Entry(r) == IF r.len > 0
            THEN [off |-> r.off + DataStart, len |-> r.len, pre |-> BitmapAt(r.off + DataStart)]
            ELSE [off |-> 0, len |-> 0, pre |-> {}]

DataEnd == IF mds = << >> THEN cur ELSE Last(mds)

BuildIndex ==
    /\ phase = "write"
    /\ index' = [end |-> DataEnd, cpb |-> cpb, plen |-> plen,
                 blocks |-> [b \in DOMAIN recs |-> Entry(recs[b])]]
    /\ phase' = "done"
    /\ UNCHANGED <<arch, numpy, cur, mds, cpb, plen, locked, recs, error>>

BuildOver == phase \in {"done", "error"} /\ UNCHANGED mapVars

Walk == WalkStop \/ WalkInline \/ WalkBlock \/ FindNextBlock

MapNext == \/ ReadHeader \/ ReadTrailer \/ Locate \/ DecodeChunkMap
           \/ Walk \/ DecodeInline \/ DecodeEnd \/ BuildIndex
           \/ BuildOver

MapSpec == MapInit /\ [][MapNext]_mapVars
FairMapSpec == MapSpec /\ WF_mapVars(MapNext)

-----------------------------------------------------------------------------
(* What a writer leaves.  place gives for each block of the partition the    *)
(* item it is in, or 0, told the record that the map has of it, pieces the   *)
(* items that are pieces of the map, and the field `from' of a piece how     *)
(* many blocks the pieces before it tell of.                                 *)

EndOf(it) == it.at + it.pre + it.z

(* Bytes of a bitmap, one bit a cluster.                                     *)
Geometry(a) ==
    CASE \E i \in DOMAIN a.items : a.items[i].kind = "map"              -> Modern
      [] a.pieces # << >> /\ a.items[a.pieces[1]].cpb # None            -> a.items[a.pieces[1]].cpb \div 8
      [] OTHER                                                          -> Legacy

(* The items fill the file, one behind the other; bitmaps are of one length, *)
(* and only a block inflates to pages.                                       *)
LaidOut(a) ==
    /\ a.items \in Seq({a.items[i] : i \in DOMAIN a.items}) /\ a.items # << >>
    /\ a.items[1].at = DataStart
    /\ \A i \in DOMAIN a.items :
          /\ {a.items[i].at, a.items[i].pre, a.items[i].z} \subseteq Nat /\ a.items[i].z > 0
          /\ a.items[i].kind \in {"block", "inline", "map", "other"}
          /\ i + 1 \in DOMAIN a.items => a.items[i + 1].at = EndOf(a.items[i])
          /\ a.items[i].kind # "other" =>
                /\ {a.items[i].first, a.items[i].early, a.items[i].cpb} \subseteq Nat \cup {None}
                /\ a.items[i].pages => a.items[i].kind = "block"
          /\ a.items[i].kind = "block" => a.items[i].pre = Geometry(a)
          /\ a.items[i].kind = "map" => a.pieces = << >>

(* A piece as the walk expects it, behind bitmaps of n bytes.                *)
Recognizable(it, n) == /\ it.first = it.pre - 1 /\ it.early = None
                       /\ n < it.pre /\ it.pre < Window /\ it.z > 1

(* Up to the last piece there are blocks and pieces, and filler behind a     *)
(* piece; a piece is longer than a bitmap.  There may be pieces with nothing *)
(* between them, and any item may be damaged.                                *)
PiecesAmidBlocks(a) ==
    /\ a.pieces \in Seq(DOMAIN a.items)
    /\ {a.pieces[k] : k \in DOMAIN a.pieces} = {i \in DOMAIN a.items : a.items[i].kind = "inline"}
    /\ \A k, l \in DOMAIN a.pieces : k < l => a.pieces[k] < a.pieces[l]
    /\ \A k \in DOMAIN a.pieces :
          /\ a.items[a.pieces[k]].first \in {None, a.items[a.pieces[k]].pre - 1}
          /\ \A i \in 1..a.pieces[k] :
                a.items[i].kind = "other" => i > 1 /\ a.items[i - 1].kind \in {"inline", "other"}
    /\ a.pieces # << >> => Legacy <= Geometry(a) /\ Legacy < a.items[a.pieces[1]].pre
    /\ \A k \in DOMAIN a.pieces \ {1} : Recognizable(a.items[a.pieces[k]], Geometry(a))

(* A record's offset is written as the distance to the end of the block      *)
(* before it, in its lowest bit the sign.                                    *)
Zigzag(d) == IF d < 0 THEN 2 * (-d) + 1 ELSE 2 * d

Writes(plain, told, from, n) ==
    LET before(k) == IF k = 1 THEN 0 ELSE told[from + k - 1].off + told[from + k - 1].len
    IN /\ n \in Nat /\ Len(plain) = 3 * n /\ plain \in Seq(0..(Word - 1))
       /\ \A k \in 1..n : /\ plain[k] + Word * plain[n + k] = Zigzag(told[from + k].off - before(k))
                          /\ plain[2 * n + k] = told[from + k].len

(* How many blocks the pieces before the k-th tell of.                       *)
From(a, k) == IF k \in DOMAIN a.pieces THEN a.items[a.pieces[k]].from ELSE Len(a.told)

Tells(a) ==
    /\ a.told \in Seq([off : Nat, len : Nat]) /\ Len(a.told) = Len(a.place)
    /\ \A b \in DOMAIN a.told :
          /\ a.told[b].off + a.told[b].len < Wide
          /\ \/ a.place[b] = 0 /\ a.told[b].len = 0
             \/ /\ a.place[b] \in DOMAIN a.items /\ a.items[a.place[b]].kind = "block"
                /\ a.items[a.place[b]].pb = b
                /\ a.told[b].off = a.items[a.place[b]].at - DataStart
                /\ a.told[b].len = a.items[a.place[b]].pre + a.items[a.place[b]].z
    /\ \A i \in DOMAIN a.items :
          (a.items[i].kind = "map" /\ Len(a.items[i].plain) % 3 = 0)
              => Writes(a.items[i].plain, a.told, 0, Len(a.told))
    /\ \A k \in DOMAIN a.pieces :
          /\ From(a, k) \in 0..Len(a.told)
          /\ Writes(a.items[a.pieces[k]].plain, a.told, From(a, k), From(a, k + 1) - From(a, k))
    /\ a.pieces # << >> => From(a, 1) = 0

(* An archive that is not odd has the locator of its own map foremost, and   *)
(* something in that map; or it begins with blocks of the usual geometry,    *)
(* has a piece, and none but pieces look like one.                           *)
Usual(a) ==
    \/ /\ a.pieces = << >> /\ Candidates(a) # {}
       /\ \A c \in Candidates(a) : Foremost(a, c) =>
             \E i \in DOMAIN a.items :
                 /\ a.items[i].kind = "map" /\ a.items[i].at = DataStart + c.V
                 /\ a.items[i].z <= c.S - a.items[i].pre
                 /\ a.items[i].plain # << >> /\ Len(a.items[i].plain) % 3 = 0
    \/ /\ a.pieces # << >> /\ Candidates(a) = {}
       /\ Recognizable(a.items[a.pieces[1]], Legacy)
       /\ a.pieces[1] > 1 => Geometry(a) = Legacy
       /\ \A k \in DOMAIN a.pieces :
             LET it == a.items[a.pieces[k]]
             IN it.first \in 8..64 /\ it.count = From(a, k + 1) - From(a, k) /\ it.count > 0
       /\ \A i \in DOMAIN a.items : a.items[i].kind = "block" =>
             None \in {a.items[i].first, a.items[i].early} \/ a.items[i].early >= a.items[i].pre

ArchivesAssumption ==
    \A a \in Archives :
        /\ LaidOut(a) /\ PiecesAmidBlocks(a) /\ Tells(a)
        /\ \A c \in a.cands : {c.at, c.V, c.S} \subseteq Nat
        /\ a.odd \/ Usual(a)
ASSUME ArchivesAssumption

-----------------------------------------------------------------------------

Expected(b) == LET i == arch.place[b] IN
               IF i = 0 THEN [off |-> 0, len |-> 0, pre |-> {}]
               ELSE [off |-> Item(i).at, len |-> Size(i), pre |-> {b}]

(* The pieces that the walk did not find, and the blocks that those in front *)
(* of the first of them tell of.                                             *)
Missed == {k \in DOMAIN arch.pieces : Item(arch.pieces[k]).at \notin Range(mds)}
Known  == IF Missed = {} THEN Len(arch.place) ELSE From(arch, Min(Missed))

(* A finished index has an entry for every block that the pieces in front of *)
(* the first missed one tell of, and it is the place, the length and the     *)
(* bitmap of that block, however the blocks lie in the file, with numpy or   *)
(* without, and although the walk meets bitmaps that look like pieces of the *)
(* map and skips what is between.  It has other entries only where the walk  *)
(* stepped over a piece to a later one; those are not of their blocks        *)
(* (decode_records, _find_next_block).                                       *)
EntriesAreExact ==
    phase = "done" =>
        /\ \A b \in 1..Known : b \in DOMAIN index.blocks /\ index.blocks[b] = Expected(b)
        /\ Len(index.blocks) > Known => \E k \in Missed : Item(arch.pieces[k]).at < index.end

Damaged == {i \in Items : Item(i).kind # "other" /\ ~Item(i).good}

(* A whole block, and one that the search behind item i may try.             *)
Found(it)        == it.kind = "block" /\ it.good /\ it.pages
InReach(a, i, j) == a.items[j].at + a.items[j].pre + 2 <= EndOf(a.items[i]) + MaxSkip

(* Between the n-th piece and the next a block is damaged, or none is whole  *)
(* and near enough to the n-th.                                              *)
Between(a, n) == (a.pieces[n] + 1)..(a.pieces[n + 1] - 1)
Cause(a, n) == \/ \E i \in Between(a, n) : a.items[i].kind = "block" /\ ~a.items[i].good
               \/ \A i \in Between(a, n) : ~(Found(a.items[i]) /\ InReach(a, a.pieces[n], i))

(* Whatever is damaged, the first piece that the walk misses is missed for   *)
(* what lies between it and the one before: a block that cannot be inflated, *)
(* or no block that _find_next_block could have found (the breaks of         *)
(* discover_inline_chunkmaps_legacy raise nothing).                          *)
MissedForCause ==
    (phase = "done" /\ Missed # {}) => Min(Missed) > 1 /\ Cause(arch, Min(Missed) - 1)

(* An archive that is whole, of one volume and of the geometry the walk      *)
(* starts with, is never refused, wherever its locator and its blocks are.   *)
Ordinary == /\ HeaderError = None /\ TrailerError = None
            /\ Damaged = {} /\ ~arch.odd

WholeIsIndexed == phase = "error" => ~Ordinary

(* The build comes to an end, with an index or an error.                     *)
BuildEnds == <>(phase \in {"done", "error"})

(* "Open the highest-numbered `_vN.tib` file instead."                       *)
(* (chunkmap_locator.py:222): of the highest-numbered file that is not said. *)
HintOpens == (phase = "error" /\ error = "volume") => arch.name # LastVolume
=============================================================================

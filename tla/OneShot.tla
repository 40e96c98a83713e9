-------------------------------- MODULE OneShot --------------------------------
(***************************************************************************)
(* The parts of the program that take an input once, and keep nothing: the *)
(* decompressors of NTFS, the decoders of a page of cells and of a record  *)
(* of $MFT, the check of a page's sum and the walk of a chain of backups.  *)
(* Each has a module of its own.  Here they are run, a step at a time, on  *)
(* what a writer may have written and on what damage left of it.           *)
(*                                                                         *)
(* The state is the job, which says what was written and what became of    *)
(* it, and known, what the decoder knows so far.                           *)
(***************************************************************************)
EXTENDS Integers, Sequences, FiniteSets, SequencesExt, FiniteSetsExt

CONSTANTS ByteBits,          \* bits of a byte, in the decompressors
          Literals, Nibbles, Shifts, ChunkSizes,
          Group, Least, Most,
          Digit, LongestLeb, MaxLength, MapBits, History, ChildSize,
          Poly, Magic, Ahead, Behind,
          Sector, RunByte, Nibble, Priority, ChunkOf,
          Zero

(* The jobs of each kind.                                                    *)
CONSTANTS XpressJobs,   \* [kind, chunks, chunk, cut, at, by]
          Lznt1Jobs,    \* [kind, blocks, ntfs, cut, slack]
          CellJobs,     \* [kind, mem, magic, keySize, valSize, cells, count, codec, block, cut]
          PageJobs,     \* [kind, head, body, flips, fec]
          RecordJobs,   \* [kind, attrs, older, sectors]
          ChainJobs     \* [kind, slices, from]

XP == INSTANCE Xpress WITH B <- ByteBits
LZ == INSTANCE Lznt1 WITH Bits <- ByteBits
LC == INSTANCE LsmCells
PC == INSTANCE PageCrc
NR == INSTANCE NtfsRecord
SC == INSTANCE SliceChains

VARIABLES job, known

jobVars == <<job, known>>

(* A reference of LZNT1 is two bytes, and so is a header; the length of a    *)
(* match is a word at most.                                                  *)
ASSUME BitsAssumption == /\ Least + Most = 2 * ByteBits
                         /\ Least <= Most
                         /\ Group <= ByteBits
                         /\ Most + 1 < 2 * ByteBits

(* A flip of up to two bits is told from any other: no two bits have the     *)
(* same sum, and no three cancel out.                                        *)
ASSUME PolyAssumption ==
    \A I \in SUBSET (1..PC!Size) :
        1 <= Cardinality(I) /\ Cardinality(I) <= 3
            => ~ PC!Verify(PC!Flip(PC!PageOf([i \in 1..(Ahead - Len(Magic)) |-> 0],
                                          [i \in 1..Behind |-> 0]), I))

(* Slices have ids of their own. *)
ASSUME ChainsAssumption ==
    /\ \A j \in XpressJobs \cup Lznt1Jobs \cup CellJobs \cup PageJobs \cup RecordJobs : j.kind # "chain"
    /\ \A j \in ChainJobs :
          /\ j.kind = "chain"
          /\ j.slices \in Seq({j.slices[k] : k \in DOMAIN j.slices})
          /\ \A k, l \in DOMAIN j.slices : j.slices[k].uuid = j.slices[l].uuid => k = l

-----------------------------------------------------------------------------
(* What the decoder is given *)

Shortened(src, n) == SubSeq(src, 1, Len(src) - n)
Changed(src, at, by) == IF at \in DOMAIN src THEN [src EXCEPT ![at] = by] ELSE src

Flat(seqs) == FoldLeft(LAMBDA o, q : o \o q, << >>, seqs)

XpressPlain(j) == Flat([k \in DOMAIN j.chunks |-> XP!Plain(j.chunks[k].tokens)])
XpressStart(j) == XP!Start(Shortened(Changed(XP!Stream(j.chunks), j.at, j.by), j.cut),
                          Len(XpressPlain(j)), j.chunk)

Lznt1Plain(j)  == Flat([k \in DOMAIN j.blocks |-> LZ!Contents(j.blocks[k])])
Lznt1Stream(j) == LET split == [place \in 0..LZ!Block |->
                                 IF j.ntfs THEN LZ!NtfsLengthBits(place) ELSE LZ!LengthBits(place)]
                  IN LZ!Stream(split, j.blocks)
Lznt1Start(j)  == LZ!Start(Shortened(Lznt1Stream(j), j.cut), Len(Lznt1Plain(j)) + j.slack)

CellBytes(j) == IF j.keySize = 0 THEN LC!VariableBytes(j.cells)
                ELSE IF j.magic = "LDIR" THEN LC!FixedBytes(j.cells) ELSE LC!CompactBytes(j.cells)

CellStart(j) ==
    LET bytes  == CellBytes(j)
        stream == IF j.codec = 0 THEN bytes ELSE LC!Pack(bytes, j.block)
        page   == [magic |-> j.magic, encrypted |-> FALSE, codec |-> j.codec, count |-> j.count,
                   size |-> Len(bytes), onDisk |-> Len(stream), stream |-> Shortened(stream, j.cut),
                   keySize |-> j.keySize, valSize |-> j.valSize]
    IN IF j.mem THEN LC!StartMem(page) ELSE LC!Start(page)

PageWritten(j) == PC!PageOf(j.head, j.body)
PageStart(j)   == [read |-> PC!ReadPage(PC!Flip(PageWritten(j), j.flips), j.fec),
                   verified |-> PC!Verify(PC!Flip(PageWritten(j), j.flips))]

RecordSectors == 2
RecordStart(j) == NR!Start(NR!Torn(NR!Record(j.older, 2, RecordSectors), NR!Record(j.attrs, 1, RecordSectors),
                                 j.sectors), 7)

ChainStart(j) == SC!WalkStart(j.from)

-----------------------------------------------------------------------------
JobInit == \/ job \in XpressJobs /\ known = XpressStart(job)
           \/ job \in Lznt1Jobs  /\ known = Lznt1Start(job)
           \/ job \in CellJobs   /\ known = CellStart(job)
           \/ job \in PageJobs   /\ known = PageStart(job)
           \/ job \in RecordJobs /\ known = RecordStart(job)
           \/ job \in ChainJobs  /\ known = ChainStart(job)

Ended == CASE job.kind = "xpress" -> XP!Ended(known)
           [] job.kind = "lznt1"  -> LZ!Ended(known)
           [] job.kind = "cells"  -> LC!Ended(known)
           [] job.kind = "page"   -> TRUE
           [] job.kind = "record" -> NR!Ended(known)
           [] job.kind = "chain"  -> known.stopped

Decompress == job.kind = "xpress" /\ ~ Ended /\ known' = XP!DecompressStep(known) /\ UNCHANGED job
Expand     == job.kind = "lznt1"  /\ ~ Ended /\ known' = LZ!DecompressStep(known) /\ UNCHANGED job
Decode     == job.kind = "cells"  /\ ~ Ended /\ known' = LC!DecodeStep(known) /\ UNCHANGED job
Parse      == job.kind = "record" /\ ~ Ended /\ known' = NR!ParseStep(known) /\ UNCHANGED job
Ascend     == job.kind = "chain"  /\ ~ Ended /\ known' = SC!WalkStep(job.slices, known) /\ UNCHANGED job
Finished   == Ended /\ UNCHANGED jobVars

Work == Decompress \/ Expand \/ Decode \/ Parse \/ Ascend
JobNext == Work \/ Finished

(* A call runs to its end: nothing else is waited for.                       *)
JobSpec == JobInit /\ [][JobNext]_jobVars /\ WF_jobVars(Work)

-----------------------------------------------------------------------------
Zeros(n) == [k \in 1..n |-> 0]

AllSectors == 1..RecordSectors

Whole == CASE job.kind = "xpress" -> job.cut = 0 /\ job.at = 0
           [] job.kind = "lznt1"  -> job.cut = 0
           [] job.kind = "cells"  -> job.cut = 0
           [] job.kind = "page"   -> job.flips = {}
           [] job.kind = "record" -> job.sectors = AllSectors
           [] job.kind = "chain"  -> TRUE

(* What a record says of an attribute; those that are encrypted are left out.*)
Told(a) == [type |-> a.type, name |-> a.name, content |-> a.content, runs |-> a.runs,
            unit |-> IF a.runs = << >> \/ a.flags # NR!Compressed THEN 0 ELSE IF a.unit = 0 THEN 4 ELSE a.unit,
            real |-> IF a.runs = << >> THEN Len(a.content) ELSE a.real]

ToldOf(attrs) == LET Open(a) == a.flags # NR!Encrypted
                     open == SelectSeq(attrs, Open)
                 IN [k \in DOMAIN open |-> Told(open[k])]

(* The attributes that end within the first sector.                          *)
EndOf(attrs, k) == NR!HeaderLen + RecordSectors + 1 + Len(Flat([i \in 1..k |-> NR!AttrCells(attrs[i])]))
InFirst(attrs)  == SubSeq(attrs, 1, Cardinality({k \in DOMAIN attrs : EndOf(attrs, k) <= Sector}))

NamesIn(attrs) == UNION {NR!ParseFileName(attrs[k].content) : k \in {i \in DOMAIN attrs : attrs[i].type = NR!Names}}

(* What was written is what is decoded, whatever the layout, the tables and  *)
(* the places of the pieces: by Xpress Huffman, where bytes stand between    *)
(* the words of the stream; by LZNT1 as lznt1.py describes it; in cells raw  *)
(* or packed, with and without lengths and bitmaps, up to the count of the   *)
(* page also within a group; in a record behind its fixups, of whose names   *)
(* none is of a better name space than the one taken.                        *)
DecodedIsWritten ==
    Ended /\ Whole =>
        CASE job.kind = "xpress" -> ~ known.error /\ known.plain = XpressPlain(job)
          [] job.kind = "lznt1"  -> job.ntfs \/ known.out = Lznt1Plain(job) \o Zeros(job.slack)
          [] job.kind = "cells"  -> ~ known.error /\ known.cells = SubSeq(job.cells, 1, job.count)
          [] job.kind = "page"   -> known.verified /\ known.read = {PageWritten(job)}
          [] job.kind = "record" ->
                /\ ~ known.none /\ ~ known.error /\ known.attrs = ToldOf(job.attrs)
                /\ NamesIn(job.attrs) # {} =>
                      /\ known.best \in NamesIn(job.attrs)
                      /\ \A n \in NamesIn(job.attrs) : Priority[known.best.space] <= Priority[n.space]
          [] job.kind = "chain"  -> TRUE

(* What damage leaves is never taken for something else: a packed file is    *)
(* refused or has its size; a unit cut short is what was written up to some  *)
(* byte, and zeros; a page of cells cut short is refused; a page with one or *)
(* two wrong bits is refused or has become right again, and with a repair    *)
(* one wrong bit outside its mark always does; of a record of which sectors  *)
(* are old, what the first sector holds of attributes is of one version.     *)
DamageIsCaught ==
    Ended /\ ~ Whole =>
        CASE job.kind = "xpress" -> known.error \/ Len(known.plain) = Len(XpressPlain(job))
          [] job.kind = "lznt1"  ->
                LET plain == Lznt1Plain(job) \o Zeros(job.slack)
                IN /\ Len(known.out) = Len(plain)
                   /\ \E n \in 0..Len(plain) : known.out = SubSeq(plain, 1, n) \o Zeros(Len(plain) - n)
          [] job.kind = "cells"  -> known.error
          [] job.kind = "page"   ->
                /\ ~ known.verified
                /\ known.read \subseteq {PageWritten(job)}
                /\ (job.fec /\ Cardinality(job.flips) = 1 /\ job.flips \cap DOMAIN Magic = {}) =>
                      known.read # {}
          [] job.kind = "record" ->
                LET first == ToldOf(InFirst(IF 1 \in job.sectors THEN job.attrs ELSE job.older))
                IN ~ known.none /\ Len(known.attrs) >= Len(first) /\ SubSeq(known.attrs, 1, Len(first)) = first
          [] job.kind = "chain"  -> TRUE

(* A chain of backups goes from child to parent, visits no slice twice, and  *)
(* ends at a full backup, or where the parent is gone, none, or visited      *)
(* before; and iter_chains puts every slice in one chain: that of its full   *)
(* backup, or with those that have none.                                     *)
ChainsAreLineages ==
    Ended /\ job.kind = "chain" =>
        LET c == known.chain
            n == Len(c)
            chains == SC!IterChains(job.slices)
            Fulls(k) == {i \in chains[k] : SC!IsFull(job.slices[i])}
        IN /\ \A i, j \in 1..n : c[i].uuid = c[j].uuid => i = j
           /\ \A i \in 1..(n - 1) : ~ SC!IsFull(c[i]) /\ c[i + 1].uuid = c[i].parent
           /\ n = 0 => job.from \notin SC!Uuids(job.slices)
           /\ n > 0 => /\ c[1].uuid = job.from
                       /\ \/ SC!IsFull(c[n])
                          \/ c[n].parent \notin SC!Uuids(job.slices)
                          \/ \E i \in 1..n : c[i].uuid = c[n].parent
           /\ \A i \in DOMAIN job.slices : Cardinality({k \in DOMAIN chains : i \in chains[k]}) = 1
           /\ \A k \in DOMAIN chains : \A i \in chains[k] :
                  LET last == Last(SC!WalkChain(job.slices, job.slices[i].uuid))
                  IN IF SC!IsFull(last) THEN Fulls(k) = {j \in DOMAIN job.slices : job.slices[j] = last}
                     ELSE Fulls(k) = {}

(* Every call returns: each token, cell, attribute or slice moves on.        *)
EveryJobEnds == <>Ended

(* lznt1.py:2 "the algorithm used by NTFS for compressed $DATA attributes":  *)
(* what NTFS has packed comes out as it was.                                 *)
NtfsUnitsDecode ==
    Ended /\ job.kind = "lznt1" /\ job.ntfs /\ job.cut = 0 =>
        known.out = Lznt1Plain(job) \o Zeros(job.slack)
=============================================================================

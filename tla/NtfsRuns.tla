------------------------------ MODULE NtfsRuns ------------------------------
(***************************************************************************)
(* Where tibread's NTFS reader looks for the clusters of a file            *)
(* (tibread/ntfs.py: _read_via_runs, _read_clusters, _shift_for_lcn and    *)
(* the patching of $MFT's runs in _bootstrap_mft).                         *)
(*                                                                         *)
(* An NTFS run list names clusters of the original disk (LCNs).  The image *)
(* that an archive supplies may have left clusters out, so that an LCN is  *)
(* found elsewhere in it: all LCNs from the boot sector's $MFT on moved by *)
(* one shift, or a sorted map of shifts, or runs of $MFT found one by one. *)
(*                                                                         *)
(* A volume is a record                                                    *)
(*   origin     origin[p + 1] is the LCN stored as cluster p of the image  *)
(*   lost       clusters of the image the archive can no longer supply     *)
(*   bpb        LCN of $MFT according to the boot sector                   *)
(*   shift      lcn_shift                                                  *)
(*   map        lcn_shift_map: sorted [from, shift] records, or << >>      *)
(*   overrides  mft_extent_overrides: [run, lcn, prefix, len] records      *)
(*   files      what is on it (module NtfsUnits)                           *)
(* Only origin and lost are the truth about the image; the other fields    *)
(* are what the reader was told about it, truly or not.                    *)
(***************************************************************************)
EXTENDS Integers, Sequences, FiniteSets, SequencesExt

CONSTANTS ClusterSize,   \* bytes per cluster
          Image(_),      \* Image(x): byte x of the image
          Zero,
          Hole,          \* the LCN of a sparse run
          Unset          \* length_override not given

ASSUME ClusterAssumption == ClusterSize \in Nat \ {0} /\ Hole \notin Nat

RunType == [len : Nat, lcn : Nat \cup {Hole}]

Zeros(n) == [i \in 1..n |-> Zero]

Smaller(a, b) == IF a < b THEN a ELSE b
Larger(a, b)  == IF a > b THEN a ELSE b

-----------------------------------------------------------------------------
(* The truth *)

Stored(v, lcn) == \E p \in 1..Len(v.origin) : v.origin[p] = lcn
PlaceOf(v, lcn) == (CHOOSE p \in 1..Len(v.origin) : v.origin[p] = lcn) - 1

(* Byte i of cluster lcn of the original disk. *)
OriginalByte(v, lcn, i) ==
    IF lcn # Hole /\ Stored(v, lcn) THEN Image(PlaceOf(v, lcn) * ClusterSize + i)
                                    ELSE Zero

(* Does the archive still have it? *)
Sound(v, lcn) == lcn # Hole /\ Stored(v, lcn) => PlaceOf(v, lcn) \notin v.lost

-----------------------------------------------------------------------------
(* Run lists: sequences of [len, lcn], one after the other in the stream. *)

(* The cluster of the stream at which run i starts. *)
Starts(runs) == LET s[i \in 1..(Len(runs) + 1)] ==
                        IF i = 1 THEN 0 ELSE s[i - 1] + runs[i - 1].len
                IN s

(* The LCN of cluster c of the stream; past the last run there is a hole. *)
LcnOf(runs, c) ==
    LET start == Starts(runs)
        Has(i) == start[i] <= c /\ c < start[i + 1]
    IN IF \E i \in 1..Len(runs) : Has(i)
       THEN LET i == CHOOSE j \in 1..Len(runs) : Has(j)
            IN IF runs[i].lcn = Hole THEN Hole ELSE runs[i].lcn + c - start[i]
       ELSE Hole

StreamByte(v, runs, x) ==
    OriginalByte(v, LcnOf(runs, x \div ClusterSize), x % ClusterSize)

-----------------------------------------------------------------------------
(* disk.read: clipped at the end of the image; bytes of a lost cluster are *)
(* missing and the rest moves up (see TibReader).                          *)
Supplied(v, x) == /\ x < Len(v.origin) * ClusterSize
                  /\ (x \div ClusterSize) \notin v.lost

DiskRead(v, off, n) ==
    LET read[i \in 0..n] ==
            IF i = 0 THEN << >>
            ELSE IF Supplied(v, off + i - 1) THEN Append(read[i - 1], Image(off + i - 1))
            ELSE read[i - 1]
    IN read[n]

(* _shift_for_lcn, with a map: bisect_right of the thresholds. *)
ShiftForLcn(map, lcn) ==
    LET below == {i \in 1..Len(map) : map[i].from <= lcn}
    IN map[IF below = {} THEN 1 ELSE Cardinality(below)].shift

(* The cluster of the image that is read for lcn; negative: zeros. *)
Nowhere == -1
Placed(v, mapped, lcn) ==
    IF mapped THEN lcn + ShiftForLcn(v.map, lcn)
    ELSE IF lcn >= v.bpb THEN lcn + v.shift
    ELSE IF lcn >= v.bpb + v.shift THEN Nowhere ELSE lcn

(* Bytes off..off+n-1 of a run, cluster by cluster. *)
ByCluster(v, mapped, lcn, off, n) ==
    LET first == off \div ClusterSize
        Piece(c) == LET lo == Larger(off, c * ClusterSize)
                        hi == Smaller(off + n, (c + 1) * ClusterSize)
                        p  == Placed(v, mapped, lcn + c)
                    IN IF p < 0 THEN Zeros(hi - lo)
                       ELSE DiskRead(v, p * ClusterSize + lo - c * ClusterSize, hi - lo)
    IN FlattenSeq([k \in 1..((off + n - 1) \div ClusterSize - first + 1) |->
                      Piece(first + k - 1)])

(* The shift of the whole chunk decided by its first cluster alone. *)
ChunkOfRunFirst(v, run, off, n, found, mft) ==
    LET first == run.lcn + off \div ClusterSize IN
    CASE run.lcn = Hole -> Zeros(n)
      [] run.lcn # Hole /\ ~ found /\ v.map # << >> /\ ~ mft ->
            ByCluster(v, TRUE, run.lcn, off, n)
      [] OTHER ->
            DiskRead(v, (run.lcn + (IF ~ found /\ v.shift # 0 /\ first >= v.bpb
                                    THEN v.shift ELSE 0)) * ClusterSize + off, n)

(* One iteration of _read_via_runs' loop: n bytes of a run from its byte    *)
(* off.  found: an override gave the place of this run of $MFT.             *)
ChunkOfRun(v, run, off, n, found, mft) ==
    LET first == run.lcn + off \div ClusterSize
        last  == run.lcn + (off + n - 1) \div ClusterSize
        From(lcn) == DiskRead(v, lcn * ClusterSize + off, n)
    IN CASE run.lcn = Hole                -> Zeros(n)
         [] run.lcn # Hole /\ found       -> From(run.lcn)
         [] run.lcn # Hole /\ ~ found /\ v.map # << >> /\ ~ mft ->
                ByCluster(v, TRUE, run.lcn, off, n)
         [] run.lcn # Hole /\ ~ found /\ (v.map = << >> \/ mft) ->
                IF v.shift = 0 THEN From(run.lcn)
                ELSE IF first >= v.bpb THEN From(run.lcn + v.shift)
                ELSE IF last < v.bpb + v.shift THEN From(run.lcn)
                ELSE ByCluster(v, FALSE, run.lcn, off, n)

(* _read_via_runs.  What a read of the image is short of is missing in the  *)
(* middle: the next run is then read further, and zeros close the end.      *)
ReadViaRuns(v, runs, found, off, n, mft) ==
    LET start == Starts(runs)
        walk[i \in 0..Len(runs)] ==
            IF i = 0 THEN [at |-> off, out |-> << >>]
            ELSE LET acc == walk[i - 1]
                     lo  == Larger(acc.at, start[i] * ClusterSize)
                     hi  == Smaller(acc.at + n - Len(acc.out), start[i + 1] * ClusterSize)
                 IN IF hi <= lo THEN acc
                    ELSE [at  |-> hi,
                          out |-> acc.out \o ChunkOfRun(v, runs[i],
                                                        lo - start[i] * ClusterSize,
                                                        hi - lo, i \in found, mft)]
        all == walk[Len(runs)].out
    IN IF n <= 0 THEN << >> ELSE all \o Zeros(n - Len(all))

(* _read_clusters *)
ReadClusters(v, lcn, n) ==
    IF v.map = << >> /\ v.shift = 0
    THEN DiskRead(v, lcn * ClusterSize, n * ClusterSize)
    ELSE ByCluster(v, v.map # << >>, lcn, 0, n * ClusterSize)

-----------------------------------------------------------------------------
(* _bootstrap_mft: $MFT's runs with the overrides applied, the last run     *)
(* first, and the set of runs that were found.  A run whose first clusters  *)
(* were left out becomes two.                                               *)
ApplyOverride(acc, o) ==
    IF o.run \notin 1..Len(acc.runs) THEN acc
    ELSE LET whole == acc.runs[o.run].len
             here  == [len |-> IF o.len # Unset THEN o.len ELSE whole - o.prefix,
                       lcn |-> o.lcn]
         IN IF o.prefix > 0
            THEN [runs  |-> SubSeq(acc.runs, 1, o.run - 1)
                            \o << [len |-> o.prefix, lcn |-> Hole], here >>
                            \o SubSeq(acc.runs, o.run + 1, Len(acc.runs)),
                  found |-> acc.found \cup {o.run + 1}]
            ELSE [runs  |-> [acc.runs EXCEPT ![o.run] = here],
                  found |-> acc.found \cup {o.run}]

BootstrapMft(v, runs) ==
    LET sorted == SortSeq(v.overrides, LAMBDA a, b : a.run > b.run)
        patched[i \in 0..Len(sorted)] ==
            IF i = 0 THEN [runs |-> runs, found |-> {}]
            ELSE ApplyOverride(patched[i - 1], sorted[i])
    IN patched[Len(sorted)]

-----------------------------------------------------------------------------
(* What the reader was told of the image, by hand, on the command line, or  *)
(* by another tool's search for the gaps, may be wrong, or right of some    *)
(* clusters only.                                                           *)

TruePlace(v, lcn) == IF lcn = Hole \/ ~ Stored(v, lcn) THEN Nowhere ELSE PlaceOf(v, lcn)

(* The archive has not lost the cluster, and the shifts told for it lead to *)
(* where it is, or tell that the image leaves it out.                       *)
Kept(v, lcn) ==
    Sound(v, lcn) /\ (lcn # Hole => Placed(v, v.map # << >>, lcn) = TruePlace(v, lcn))

(* Where the cluster c of $MFT is looked for, with the overrides m of its   *)
(* runs; past them there are zeros.                                         *)
MftPlaced(v, m, c) ==
    LET Has(j) == Starts(m.runs)[j] <= c /\ c < Starts(m.runs)[j + 1]
        i      == CHOOSE j \in 1..Len(m.runs) : Has(j)
    IN IF (\A j \in 1..Len(m.runs) : ~ Has(j)) \/ m.runs[i].lcn = Hole THEN Nowhere
       ELSE IF i \in m.found THEN LcnOf(m.runs, c) ELSE Placed(v, FALSE, LcnOf(m.runs, c))

MftKept(v, runs, c) ==
    /\ Sound(v, LcnOf(runs, c))
    /\ MftPlaced(v, BootstrapMft(v, runs), c) = TruePlace(v, LcnOf(runs, c))

(* One shift down reads the clusters of any run by the shift of each; one   *)
(* up does not, of a run on both sides of the boot sector's LCN of $MFT.    *)
Straight(v, runs, found, mft) ==
    v.shift > 0 /\ (mft \/ v.map = << >>) =>
        \A i \in (1..Len(runs)) \ found :
           \/ runs[i].lcn = Hole \/ runs[i].lcn >= v.bpb
           \/ runs[i].lcn + runs[i].len <= v.bpb
=============================================================================

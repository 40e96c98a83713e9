----------------------------- MODULE MCNtfsUnits -----------------------------
(* Volumes of two-byte clusters, one for each way to place LCNs.             *)
EXTENDS NtfsUnits

CONSTANTS t1, t2

MCImage(x) == x + 1
MCZero == 0

(* Each stored byte decodes to two; a unit of four bytes is padded or not.   *)
MCLznt1(raw) == [i \in 1..(2 * Len(raw)) |-> 100 + 2 * raw[(i + 1) \div 2] + (i % 2)]

(* The payload starts with the byte that a sound one starts with, or the     *)
(* decoder refuses it; it decodes to what the payload says, repeated.        *)
MCXpress(raw, size) == IF raw[1] = 0 THEN XpressError
                       ELSE [i \in 1..size |-> 200 + raw[((i - 1) % Len(raw)) + 1]]

Stream(kind, runs, real, init) ==
    [kind |-> kind, runs |-> runs, real |-> real, init |-> init, unit |-> 2,
     size |-> 3, content |-> <<7, 8, 9>>]
Run(len, lcn) == [len |-> len, lcn |-> lcn]
Keep(run, lcn)        == [run |-> run, lcn |-> lcn, prefix |-> 0, len |-> Unset]
KeepFrom(run, lcn, p) == [run |-> run, lcn |-> lcn, prefix |-> p, len |-> Unset]

(* LCNs 2 and 3 were left out: those from 4 on are two clusters earlier.     *)
(* "across" has runs before, over and after the gap, a sparse one, and an    *)
(* uninitialised end.                                                        *)
Gap == [origin |-> <<0, 1, 4, 5, 6, 7>>, lost |-> {}, bpb |-> 4, shift |-> -2,
        map |-> << >>, overrides |-> << >>,
        files |->
          "across" :> Stream("plain", <<Run(5, 1), Run(1, Hole), Run(1, 0), Run(2, 6)>>, 17, 15)
          @@ "inside" :> Stream("resident", << >>, 0, 0)
          @@ "none" :> Stream("nodata", << >>, 0, 0)
          @@ "dir" :> Stream("dir", << >>, 0, 0)
          @@ "bad" :> Stream("wof", <<Run(1, 2)>>, 2, 2)
          @@ "empty" :> Stream("nopayload", << >>, 0, 0)
          @@ "$MFT" :> Stream("mft", <<Run(2, 4), Run(1, 1)>>, 6, 6)]

(* "small" has a verbatim, a sparse and a compressed unit, the last          *)
(* initialised up to its middle.                                             *)
GapUnits == [Gap EXCEPT !.files =
          "small" :> Stream("lznt1", <<Run(2, 4), Run(3, Hole), Run(1, 6)>>, 12, 11)
          @@ "packed" :> Stream("wof", <<Run(1, 5)>>, 2, 2)]

(* Two regions, each moved by its own shift, with the $MFT in the second     *)
(* found by hand and its first cluster left out.                             *)
Mapped == [origin |-> <<0, 1, 4, 5, 9, 10>>, lost |-> {}, bpb |-> 4, shift |-> -2,
           map |-> <<[from |-> 0, shift |-> 0], [from |-> 4, shift |-> -2],
                     [from |-> 9, shift |-> -5]>>,
           overrides |-> <<Keep(1, 2), KeepFrom(2, 4, 1)>>,
           files |->
             "across" :> Stream("plain", <<Run(2, 0), Run(2, 4), Run(2, 9)>>, 11, 12)
             @@ "$MFT" :> Stream("mft", <<Run(2, 4), Run(3, 8)>>, 10, 10)]

MappedUnits == [Mapped EXCEPT !.files =
          "small" :> Stream("lznt1", <<Run(1, 9), Run(1, Hole), Run(1, 4), Run(1, 10)>>, 8, 8)
          @@ "packed" :> Stream("wof", << >>, 0, 0)]

(* The archive has lost cluster 1 and ends before the last LCN.              *)
Cut == [origin |-> <<0, 1, 2, 3>>, lost |-> {1}, bpb |-> 9, shift |-> 0,
        map |-> << >>, overrides |-> << >>,
        files |-> "across" :> Stream("plain", <<Run(2, 0), Run(1, 3), Run(2, 2)>>, 10, 10)]

CutUnits == [Cut EXCEPT !.files =
          "small" :> Stream("lznt1", <<Run(2, 0), Run(2, 3), Run(1, 2), Run(1, Hole)>>, 12, 12)
          @@ "packed" :> Stream("wof", <<Run(1, 1)>>, 2, 2)]

(* The $MFT was found above where the boot sector has it: LCNs 2 and 3 are   *)
(* two clusters later, LCN 8 is not where it is looked for.  "over" is on    *)
(* both sides of LCN 2.  The sparse prefix of run 1 of $MFT moves run 2 away *)
(* from its override.                                                        *)
Up == [origin |-> <<0, 1, 8, 9, 2, 3>>, lost |-> {}, bpb |-> 2, shift |-> 2,
       map |-> << >>, overrides |-> <<KeepFrom(1, 3, 1), Keep(2, 4)>>,
       files |->
         "across" :> Stream("plain", <<Run(2, 0), Run(2, 2), Run(1, 8)>>, 10, 10)
         @@ "over" :> Stream("plain", <<Run(3, 1), Run(1, 0)>>, 8, 8)
         @@ "bad" :> Stream("wof", <<Run(2, 1)>>, 3, 3)
         @@ "$MFT" :> Stream("mft", <<Run(1, 2), Run(2, 8), Run(1, 2)>>, 8, 8)]

MCUnits == {GapUnits}

MCVolumes == {Gap, GapUnits, Mapped, MappedUnits, Cut, CutUnits, Up}

(* Where there are compressed files the second thread races the first, for   *)
(* their units and the places in the cache; elsewhere the first reads alone. *)
MCRequests(v, t) ==
    CASE t = t1 /\ "across" \in DOMAIN v.files ->
            {[file |-> f, off |-> o, len |-> n] :
                f \in DOMAIN v.files, o \in 0..10, n \in {1, 2, 5, 6}}
            \cup {[file |-> "across", off |-> o, len |-> -1] : o \in {0, 3, 16, 20}}
      [] t = t1 /\ "across" \notin DOMAIN v.files ->
            {[file |-> "small", off |-> o, len |-> n] : o \in {1, 5}, n \in {6, -1}}
            \cup {[file |-> f, off |-> 1, len |-> 2] : f \in {"packed"} \cap DOMAIN v.files}
      [] t = t2 -> {[file |-> f, off |-> 2, len |-> 5] : f \in {"small"} \cap DOMAIN v.files}
                   \cup {[file |-> f, off |-> 0, len |-> 3] :
                            f \in {"packed"} \cap DOMAIN v.files}
=============================================================================

------------------------------ MODULE MCSidecar ------------------------------
(* Two processes and an archive that is replaced once, by one with fewer     *)
(* files, so that a new index is shorter than the old one.                   *)
EXTENDS Sidecar, TLC

CONSTANTS p1, p2

MCRecords(v) == IF v = 0 THEN 2 ELSE 1
MCSymmetry == Permutations(Processes)
=============================================================================

------------------------------ MODULE MCTibxLsm ------------------------------
(* A tree of two keys over two ctree slots: enough for a key to have a cell  *)
(* in the mem-tree and in both slots at once, and to be deleted in one layer *)
(* and written again in another.                                             *)
EXTENDS TibxLsm, TLC

MCSymmetry == Permutations(Keys) \cup Permutations(Values)
=============================================================================

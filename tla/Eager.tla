--------------------------------- MODULE Eager ---------------------------------
(* Op(v), with v evaluated once however often Op uses it: the decoders hand  *)
(* on their whole state from operator to operator.                           *)
Given(v, Op(_)) == CHOOSE r \in {Op(u) : u \in {v}} : TRUE
=============================================================================

----------------------------- MODULE SliceChains -----------------------------
(***************************************************************************)
(* The chains of backups in a .tibx: find_slice_by_uuid,                   *)
(* walk_chain_from_uuid and iter_chains of tibread/tibx/chains.py, over    *)
(* the slices enumerate_slices lists.                                      *)
(*                                                                         *)
(* A slice has an id, its place in the list, and names its parent; a full  *)
(* backup ends a chain.  Backups are deleted, so a parent may be gone, and *)
(* nothing in the records keeps parents from forming a circle.             *)
(***************************************************************************)
EXTENDS Integers, Sequences, FiniteSets, SequencesExt, FiniteSetsExt

CONSTANT Zero       \* ZERO_UUID

(* slices: a sequence in the order of the ids of records                     *)
(* [uuid, parent, flags], the flags a set of "diff", "edited" and "inc", the *)
(* last for any of the bits that make a slice incremental.                   *)

SliceType(flags) == CASE "diff" \in flags -> "diff"
                      [] "diff" \notin flags /\ "edited" \in flags -> "edited"
                      [] flags = {"inc"} -> "inc"
                      [] OTHER -> "full"

(* By its type, or because it has no parent.                                 *)
IsFull(s) == SliceType(s.flags) = "full" \/ s.parent = Zero

Uuids(slices) == {slices[k].uuid : k \in DOMAIN slices}

(* find_slice_by_uuid, and the dictionary of the walk: one slice, or none.   *)
BySlice(slices, u) == slices[CHOOSE k \in DOMAIN slices : slices[k].uuid = u]

(* One round of the walk w from a slice to its parent.                       *)
WalkStart(u) == [cur |-> u, chain |-> << >>, stopped |-> FALSE]

Visited(w) == {w.chain[k].uuid : k \in DOMAIN w.chain}

(* A full backup is passed if it names a parent. *)
WalkPast(slices, w) ==
    IF w.cur \notin Uuids(slices) \/ w.cur \in Visited(w) THEN [w EXCEPT !.stopped = TRUE]
    ELSE LET s == BySlice(slices, w.cur)
         IN [w EXCEPT !.chain = Append(@, s), !.cur = s.parent, !.stopped = s.parent = Zero]

WalkStep(slices, w) ==
    IF w.cur \notin Uuids(slices) \/ w.cur \in Visited(w) THEN [w EXCEPT !.stopped = TRUE]
    ELSE LET s == BySlice(slices, w.cur)
         IN [w EXCEPT !.chain = Append(@, s),
                      !.cur = IF IsFull(s) THEN @ ELSE s.parent, !.stopped = IsFull(s)]

(* walk_chain_from_uuid; a walk has no more rounds than slices, and one.     *)
WalkOn(slices, w) == IF w.stopped THEN w ELSE WalkStep(slices, w)

WalkChain(slices, u) ==
    LET walk[k \in 0..(Len(slices) + 1)] == IF k = 0 THEN WalkStart(u) ELSE WalkOn(slices, walk[k - 1])
    IN walk[Len(slices) + 1].chain

-----------------------------------------------------------------------------
(* iter_chains: for each full backup the slices whose walk ends in it, then  *)
(* all that are left.                                                        *)

EndsIn(slices, k, full) ==
    LET walk == WalkChain(slices, slices[k].uuid)
    IN walk # << >> /\ Last(walk).uuid = slices[full].uuid

Member(slices, used, full, k) ==
    k = full \/ (slices[k].uuid \notin used /\ EndsIn(slices, k, full))

(* One round of the loop over the full backups. *)
Collect(slices, c, full) ==
    IF ~ IsFull(slices[full]) THEN c
    ELSE LET chain == {k \in DOMAIN slices : Member(slices, c.used, full, k)}
         IN [chains |-> Append(c.chains, chain), used |-> c.used \cup {slices[k].uuid : k \in chain}]

Collected(slices) ==
    LET taken[k \in 0..Len(slices)] == IF k = 0 THEN [chains |-> << >>, used |-> {}]
                                       ELSE Collect(slices, taken[k - 1], k)
    IN taken[Len(slices)]

(* The chains as sets of ids: each is listed in the order of the ids.        *)
IterChains(slices) ==
    LET fulls == Collected(slices)
        orphans == {k \in DOMAIN slices : slices[k].uuid \notin fulls.used}
    IN IF orphans = {} THEN fulls.chains ELSE Append(fulls.chains, orphans)
=============================================================================

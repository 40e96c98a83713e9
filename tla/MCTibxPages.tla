----------------------------- MODULE MCTibxPages -----------------------------
(* Archives of four slices.  Their sizes make some gaps as long as other     *)
(* slices; some begin with a page 0, whose slice has no base to tell.  One   *)
(* tree has a page that is referred to twice, one refers to itself, and one  *)
(* has a page that does not decode.                                          *)
EXTENDS TibxPages

Slice(n, k) == [start |-> n, pages |-> k]
Dir(kids)   == [type |-> "ldir", kids |-> kids]
Leaf        == [type |-> "leaf", kids |-> << >>]
Of(t)       == [type |-> t, kids |-> << >>]

Uneven == <<Slice(2, 2), Slice(4, 1), Slice(5, 2), Slice(7, 3)>>
Even   == <<Slice(4, 2), Slice(6, 2), Slice(8, 2), Slice(10, 2)>>
Zero   == <<Slice(0, 2), Slice(2, 2), Slice(4, 1), Slice(5, 2)>>

Plain  == 5 :> Dir(<<6, 8, 9>>) @@ 6 :> Leaf @@ 8 :> Dir(<<7, 4, 10>>) @@ 7 :> Leaf @@ 4 :> Leaf
          @@ 10 :> Of("bad") @@ 9 :> Leaf
Twice  == 4 :> Dir(<<5, 6, 5>>) @@ 5 :> Leaf @@ 6 :> Dir(<<3, 5>>) @@ 3 :> Of("other")
Cycle  == 4 :> Dir(<<5, 6>>) @@ 5 :> Leaf @@ 6 :> Dir(<<5, 4, 7>>) @@ 7 :> Leaf
Sealed == 4 :> Dir(<<5, 6, 9>>) @@ 5 :> Leaf @@ 6 :> Of("sealed") @@ 9 :> Leaf

Archive(slices, page, root, limit) == [slices |-> slices, page |-> page, root |-> root, limit |-> limit]

MCArchives ==
    {Archive(Uneven, Plain, 5, 20), Archive(Even, Plain, 5, 20), Archive(Even, Cycle, 4, 20),
     Archive(Even, Cycle, 4, 4), Archive(Zero, Twice, 4, 20), Archive(Uneven, Twice, 4, 20),
     Archive(Uneven, Sealed, 4, 20)}
=============================================================================

----------------------------- MODULE MCNtfsNames -----------------------------
(* Three volumes, with each kind of name and of content.                     *)
EXTENDS NtfsNames

CONSTANTS t1, t2

MCLower(n) == CASE n = "Foo" -> "foo" [] n = "B" -> "b" [] OTHER -> n
MCNameOrder == <<" pad", ".", "a\\b", "B", "b", "d", "e", "Foo", "foo", "long", "pad">>
MCLead(n)  == IF n = " pad" THEN "pad" ELSE n
MCTrail(n) == IF n = "d " THEN "d" ELSE n
MCCut(n)   == CASE n = "a\\b" -> <<"a", "b">> [] n = "" -> << >> [] OTHER -> <<n>>

Link(ns, name, parent)    == [ns |-> ns, name |-> name, parent |-> parent, size |-> 0]
Old(ns, name, parent, sz) == [Link(ns, name, parent) EXCEPT !.size = sz]
Rec(dir, links, data)     == [inUse |-> TRUE, dir |-> dir, links |-> links, data |-> data]

RootRec == 1 :> Rec(TRUE, <<Link("both", ".", 1)>>, NoData)

(* A system file, a directory, a file with a DOS name and links in two       *)
(* directories, one whose $DATA is in another record, and that record; a     *)
(* directory below; a deleted file.                                          *)
Links == RootRec
    @@ 2 :> Rec(FALSE, <<Link("both", "b", 1)>>, 1)
    @@ 3 :> Rec(TRUE, <<Link("both", "d", 1)>>, NoData)
    @@ 4 :> Rec(FALSE, <<Link("dos", "e", 1), Link("win32", "long", 1), Link("win32", "b", 3)>>, 3)
    @@ 5 :> Rec(FALSE, <<Old("both", "Foo", 3, 2)>>, NoData)
    @@ 6 :> Rec(FALSE, << >>, 2)
    @@ 7 :> Rec(TRUE, <<Link("both", "e", 3)>>, NoData)
    @@ 8 :> [Rec(FALSE, <<Link("both", "d", 1)>>, 1) EXCEPT !.inUse = FALSE]

(* Names that differ in case, a file linked twice in its directory, names    *)
(* the path syntax cannot hold, an empty file, a name whose directory is     *)
(* gone.                                                                     *)
Odd == RootRec
    @@ 3 :> Rec(FALSE, <<Link("posix", "Foo", 1)>>, 2)
    @@ 4 :> Rec(FALSE, <<Link("posix", "foo", 1), Link("posix", "B", 1)>>, 1)
    @@ 5 :> Rec(FALSE, <<Link("win32", " pad", 1)>>, 0)
    @@ 6 :> Rec(FALSE, <<Link("posix", "a\\b", 1)>>, 1)
    @@ 7 :> Rec(FALSE, <<Link("both", "e", 0)>>, 1)

(* A hard link with the same name in a second directory; another, with a     *)
(* further name there.                                                       *)
Twice == RootRec
    @@ 3 :> Rec(TRUE, <<Link("both", "d", 1)>>, NoData)
    @@ 4 :> Rec(FALSE, <<Link("win32", "b", 1), Link("win32", "b", 3)>>, 3)
    @@ 5 :> Rec(FALSE, <<Link("win32", "e", 3), Link("win32", "e", 1), Link("win32", "long", 1)>>, 2)

MCVolumes == {Links, Odd, Twice}

Ask(op, p)     == [op |-> op, path |-> p]
Enumerate(p)   == [op |-> "enumerate", path |-> p, marker |-> None]
Read(p, o, n)  == [op |-> "read", path |-> p, off |-> o, len |-> n]

MCCalls(m, t) ==
    CASE t = t2 -> {IF m = Links THEN Enumerate(<<"d">>) ELSE Ask("readdir", << >>)}
      [] t = t1 /\ m = Links ->
            {Ask("readdir", <<"d">>), Ask("getattr", <<"d">>), Ask("open", <<"long">>),
             Ask("getattr", <<"D", "foo">>), Ask("file", <<".", "d", "B">>), Enumerate(<<"d">>),
             Read(<<"d">>, 0, 2), Read(<<"d", "b">>, 2, -1), Ask("readdir", <<"long">>),
             Ask("statfs", << >>)}
      [] t = t1 /\ m = Odd ->
            {Ask("readdir", << >>), Ask("getattr", <<"foo">>), Ask("open", <<" pad">>),
             Ask("file", <<"b">>), Enumerate(<< >>), Read(<<"foo">>, 1, 4)}
      [] OTHER ->
            {Ask("readdir", <<"d">>), Ask("readdir", <<"d ">>), Enumerate(<< >>)}
=============================================================================

------------------------------ MODULE MCFsWalk ------------------------------
(* Two archives.  In the first, two files have one size, one is empty, and   *)
(* batches come between files.  In the second, batches come inside files,    *)
(* something behind the body looks like a record, a file's path goes through *)
(* another's and two are the same (they came from several drives), and files *)
(* of one size are in another order in the tree.                             *)
EXTENDS FsWalk

M(y, s) == [tag |-> "m", file |-> y, size |-> s, batch |-> << >>]
N(y)    == [tag |-> "n", file |-> y, size |-> 0, batch |-> << >>]
F(ys)   == [tag |-> "f", file |-> 0, size |-> 0, batch |-> ys]
Rec(y, p, s) == [file |-> y, path |-> p, size |-> s]

Between == [stream |-> <<M(1, 2), M(1, 1), N(1), M(2, 3), N(2), F(<<1, 2>>), N(3), M(4, 2), N(4), F(<<4>>)>>,
            tree   |-> <<Rec(0, <<"d">>, 0), Rec(4, <<"d", "Z">>, 2), Rec(1, <<"d", "a">>, 3),
                         Rec(2, <<"b">>, 3), Rec(3, <<"c">>, 0)>>,
            hit    |-> FALSE]
Within  == [stream |-> <<M(1, 1), N(1), M(2, 2), F(<<1>>), M(2, 1), F(<< >>), N(2),
                         M(3, 1), N(3), F(<<2, 3>>), M(4, 1), N(4)>>,
            tree   |-> <<Rec(3, <<"a">>, 1), Rec(1, <<"a", "b">>, 1), Rec(2, <<"a", "b">>, 3), Rec(4, <<"e">>, 1)>>,
            hit    |-> TRUE]

MCArchives == {Between, Within}
MCLimits == {NoLimit, 2}
=============================================================================

------------------------------- MODULE FsTree -------------------------------
(***************************************************************************)
(* The tree that the HTTP browser of tibread/fs_browse.py makes of the     *)
(* paths of an index.  A tree is a function from the paths that are there  *)
(* to the number of an entry, or Dir; a path is a sequence of names.       *)
(***************************************************************************)
EXTENDS SequencesExt

CONSTANT Dir

Root == [q \in {<< >>} |-> Dir]

Above(path) == {SubSeq(path, 1, n) : n \in 0..(Len(path) - 1)}
Under(path, q) == Len(q) > Len(path) /\ IsPrefix(path, q)

(* A file on the way is not noticed. *)
AddThrough(t, path, e) ==
    IF path = << >>
    THEN t
    ELSE [q \in {r \in DOMAIN t : ~ Under(path, r)} \cup Above(path) \cup {path} |->
             IF q = path THEN e ELSE IF q \in DOMAIN t THEN t[q] ELSE Dir]

(* One entry: its directories are made as far as no file is in the way, and  *)
(* its leaf replaces what has its name, a directory with all below it too.   *)
Add(t, path, e) ==
    IF path = << >> \/ \E q \in Above(path) \cap DOMAIN t : t[q] # Dir
    THEN t
    ELSE [q \in {r \in DOMAIN t : ~ Under(path, r)} \cup Above(path) \cup {path} |->
             IF q = path THEN e ELSE IF q \in DOMAIN t THEN t[q] ELSE Dir]

BuildTree(paths) ==
    LET built[e \in 0..Len(paths)] == IF e = 0 THEN Root ELSE Add(built[e - 1], paths[e], e)
    IN  built[Len(paths)]

(* What a URL leads to. *)
Resolve(t, path) == IF path \in DOMAIN t THEN {t[path]} ELSE {}
=============================================================================

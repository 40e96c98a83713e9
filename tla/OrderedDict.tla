----------------------------- MODULE OrderedDict -----------------------------
(***************************************************************************)
(* The key order of Python's collections.OrderedDict, on which the caches  *)
(* of tibread are built: a sequence of distinct keys, the oldest first.    *)
(* What popitem(last=False) leaves is the tail.                            *)
(***************************************************************************)
EXTENDS Integers, Sequences

InSeq(b, s) == \E i \in 1..Len(s) : s[i] = b

Distinct(s) == \A i, j \in 1..Len(s) : i # j => s[i] # s[j]

(* The keys in order without b. *)
Without(s, b) == IF ~ InSeq(b, s) THEN s
                 ELSE LET i == CHOOSE j \in 1..Len(s) : s[j] = b
                      IN SubSeq(s, 1, i - 1) \o SubSeq(s, i + 1, Len(s))

MovedToEnd(s, b) == Append(Without(s, b), b)

(* d[b] = v: a new key goes to the end, a known one keeps its place. *)
Assigned(s, b) == IF InSeq(b, s) THEN s ELSE Append(s, b)
=============================================================================

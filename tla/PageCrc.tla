------------------------------- MODULE PageCrc -------------------------------
(***************************************************************************)
(* The checksum of a page of a .tibx, and the repair of one wrong bit:     *)
(* read_page, _validate_or_recover_crc and _attempt_single_bit_fec of      *)
(* tibread/tibx/reader.py, compute_page_crc32 of tibread/tibx/format.py.   *)
(*                                                                         *)
(* A page is a row of bits: Ahead bits, of which the first Magic mark a     *)
(* page, the checksum, the body.  The checksum is the remainder by a       *)
(* polynomial of the page with zeros in the place of the checksum.  The    *)
(* polynomial is a parameter: CRC-32C detects any three wrong bits in a    *)
(* page of 4096 bytes, and the one of an instance has to do the same for   *)
(* its pages.                                                              *)
(***************************************************************************)
EXTENDS Integers, Sequences, FiniteSets, SequencesExt, FiniteSetsExt

CONSTANTS Poly,   \* the polynomial less its highest term, highest first
          Magic,  \* the first bits of every page
          Ahead,  \* bits before the checksum
          Behind  \* bits behind it

Width == Len(Poly)
Field == (Ahead + 1)..(Ahead + Width)
Size  == Ahead + Width + Behind

Xor(a, b)  == [i \in DOMAIN a |-> (a[i] + b[i]) % 2]
Flip(p, I) == [i \in DOMAIN p |-> IF i \in I THEN 1 - p[i] ELSE p[i]]
Weight(a)  == Cardinality({i \in DOMAIN a : a[i] = 1})

-----------------------------------------------------------------------------
(* One bit into the register, the highest out.                               *)
Shift(r, b) == LET moved == Append(Tail(r), 0)
               IN IF (r[1] + b) % 2 = 1 THEN Xor(moved, Poly) ELSE moved

Ones   == [i \in 1..Width |-> 1]
Crc(p) == Xor(Ones, FoldLeft(Shift, Ones, p))

Zeroed(p) == [i \in DOMAIN p |-> IF i \in Field THEN 0 ELSE p[i]]
Stored(p) == SubSeq(p, Ahead + 1, Ahead + Width)
Put(p, crc) == [i \in DOMAIN p |-> IF i \in Field THEN crc[i - Ahead] ELSE p[i]]

Computed(p) == Crc(Zeroed(p))

(* verify_page *)
Verify(p) == Computed(p) = Stored(p)

(* Any difference is taken for wrong bits of the checksum. *)
RecoveredBlindly(p) == IF Computed(p) # Stored(p) THEN {Put(p, Computed(p))} ELSE {}

(* Either one bit of the checksum is wrong, or the first bit elsewhere whose *)
(* change gives the checksum that is stored.                                 *)
Recovered(p) ==
    LET guesses == {i \in (1..Size) \ Field : Crc(Flip(Zeroed(p), {i})) = Stored(p)}
    IN IF Weight(Xor(Computed(p), Stored(p))) = 1 THEN {Put(p, Computed(p))}
       ELSE IF guesses # {} THEN {Flip(p, {Min(guesses)})}
       ELSE {}

(* The pages read_page may return: one, or none when it raises.              *)
ReadPage(p, fec) ==
    CASE SubSeq(p, 1, Len(Magic)) # Magic -> {}
      [] SubSeq(p, 1, Len(Magic)) = Magic /\ Verify(p) -> {p}
      [] OTHER -> IF fec THEN Recovered(p) ELSE {}

-----------------------------------------------------------------------------
(* The writer's side *)

PageOf(head, body) ==
    LET p == Magic \o head \o [i \in 1..Width |-> 0] \o body IN Put(p, Crc(p))
=============================================================================

------------------------------- MODULE Ring -------------------------------
(***************************************************************************)
(* The chairs of a poker table and the clockwise order around them.       *)
(*                                                                         *)
(* The engine keeps its seats in an array indexed 0 .. maxSeats-1 and     *)
(* walks subsets of them as ascending arrays ("rings"): nextInRing and    *)
(* prevInRing step to a neighbour, wrapping, also from a chair that is    *)
(* not on the ring.  Measured as a clockwise distance both steps are      *)
(* the same idea, which oddChipDistance of the showdown uses by name.     *)
(***************************************************************************)
EXTENDS Integers, FiniteSets

CONSTANT MaxSeats           \* TableConfig.maxSeats

\* TableConfig: "2..9".
ASSUME MaxSeatsAssumption == MaxSeats \in 2 .. 9

Seats == 0 .. (MaxSeats - 1)

Smaller(a, b) == IF a <= b THEN a ELSE b
Larger(a, b)  == IF a >= b THEN a ELSE b

\* Chairs passed when walking clockwise from `from` (exclusive) to `to`;
\* MaxSeats - 1 when they are the same chair.
Distance(from, to) == (to - from - 1) % MaxSeats

\* The first chair of the ring R strictly clockwise of `from`, or `from`
\* itself when it is the only one on R.
NextInRing(R, from) ==
  CHOOSE s \in R : \A q \in R : Distance(from, s) <= Distance(from, q)

PrevInRing(R, from) ==
  CHOOSE s \in R : \A q \in R : Distance(s, from) <= Distance(q, from)

\* The lowest-numbered chair of R.
FirstOf(R) == CHOOSE s \in R : \A q \in R : s <= q

AtLeastTwo(R) == \E a, b \in R : a # b

(***************************************************************************)
(* The sum of f over the chairs.  A table never has more than nine, so    *)
(* the sum is written out, which makes it a plain arithmetic term for     *)
(* the proofs.                                                             *)
(***************************************************************************)
SeatSum(f) ==
  LET At(i) == IF i \in Seats THEN f[i] ELSE 0
  IN  At(0) + At(1) + At(2) + At(3) + At(4) + At(5) + At(6) + At(7) + At(8)
=============================================================================

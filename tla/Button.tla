------------------------------ MODULE Button ------------------------------
(***************************************************************************)
(* The rotation of the button and the blinds                              *)
(* (packages/engine/src/button.ts), over any sequence of hands in which   *)
(* players come, go, sit out and sit back in between the deals.           *)
(*                                                                         *)
(* Nothing else of the table matters to the rotation: what it reads is    *)
(* the ring of seats dealt in and the big blind of the last hand.         *)
(***************************************************************************)
EXTENDS Ring

CONSTANT NoSeat             \* null

ASSUME NoSeatAssumption == NoSeat \notin Seats

\* Mutants: the rotation starts over when the last big blind has left; the
\* big blind skips a seat.
AssignStartingOver(ring, lastBigBlindSeat) ==
  LET bb == IF lastBigBlindSeat \in ring
            THEN NextInRing(ring, lastBigBlindSeat) ELSE FirstOf(ring)
      sb == PrevInRing(ring, bb)
  IN  [bb |-> bb, sb |-> sb,
       button |-> IF Cardinality(ring) = 2 THEN sb ELSE PrevInRing(ring, sb),
       headsUp |-> Cardinality(ring) = 2]
AssignSkipping(ring, lastBigBlindSeat) ==
  LET bb == NextInRing(ring, NextInRing(ring, IF lastBigBlindSeat = NoSeat
                                              THEN FirstOf(ring) ELSE lastBigBlindSeat))
      sb == PrevInRing(ring, bb)
  IN  [bb |-> bb, sb |-> sb,
       button |-> IF Cardinality(ring) = 2 THEN sb ELSE PrevInRing(ring, sb),
       headsUp |-> Cardinality(ring) = 2]

\* assignButtonAndBlinds: the big blind moves to the next seat dealt in;
\* the small blind and the button are the two before it.  Heads-up the
\* button is the small blind.
AssignButtonAndBlinds(ring, lastBigBlindSeat) ==
  LET headsUp == Cardinality(ring) = 2
      first   == FirstOf(ring)
      bb == IF lastBigBlindSeat # NoSeat
            THEN NextInRing(ring, lastBigBlindSeat)
            ELSE IF headsUp THEN NextInRing(ring, first)
                            ELSE NextInRing(ring, NextInRing(ring, first))
      sb == IF headsUp THEN NextInRing(ring, bb) ELSE PrevInRing(ring, bb)
  IN  [bb |-> bb, sb |-> sb,
       button |-> IF headsUp THEN sb ELSE PrevInRing(ring, sb),
       headsUp |-> headsUp]
=============================================================================

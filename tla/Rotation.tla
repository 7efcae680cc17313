----------------------------- MODULE Rotation -----------------------------
(***************************************************************************)
(* The button and the blinds over a session: hand after hand, each dealt  *)
(* to whichever seats are in at that moment (players join, leave, bust    *)
(* and sit out between hands), with the opening draw of the table server  *)
(* before the first one.                                                   *)
(***************************************************************************)
EXTENDS Button

VARIABLES
  dealtIn,            \* the ring of the hand being played; {} before any
  lastBigBlindSeat,   \* TableState.lastBigBlindSeat
  smallBlindSeat,
  buttonSeat,         \* TableState.buttonSeat
  unpaid              \* history: unpaid[x] are the seats dealt in to every
                      \* hand since x's last big blind that posted none since

rotation == <<dealtIn, lastBigBlindSeat, smallBlindSeat, buttonSeat, unpaid>>

Rings == {R \in SUBSET Seats : AtLeastTwo(R)}

RotationInit ==
  /\ dealtIn = {}
  /\ lastBigBlindSeat = NoSeat
  /\ smallBlindSeat = NoSeat
  /\ buttonSeat = 0
  /\ unpaid = [x \in Seats |-> {}]

\* A hand dealt to `ring` on a table whose last big blind is `lastBb`.
DealTo(ring, lastBb) ==
  LET pos == AssignButtonAndBlinds(ring, lastBb)
  IN  /\ dealtIn' = ring
      /\ lastBigBlindSeat' = pos.bb
      /\ smallBlindSeat' = pos.sb
      /\ buttonSeat' = pos.button
      /\ unpaid' = [x \in Seats |-> IF x = pos.bb
                                   THEN ring \ {pos.bb}
                                   ELSE (unpaid[x] \cap ring) \ {pos.bb}]

\* Mutant: heads-up is seeded like any other table.
SeedOneFurther(ring, winner) == NextInRing(ring, winner)

\* startNextHand before the table's first hand: the winner of the opening
\* draw is to get the button, so the last big blind is seeded for the
\* rotation to put it there.
SeedFor(ring, winner) ==
  IF Cardinality(ring) = 2 THEN winner ELSE NextInRing(ring, winner)

FirstHand(ring, winner) ==
  /\ lastBigBlindSeat = NoSeat
  /\ DealTo(ring, SeedFor(ring, winner))

\* The engine alone, without the server's draw.
FirstHandUnseeded(ring) ==
  /\ lastBigBlindSeat = NoSeat
  /\ DealTo(ring, NoSeat)

NextHand(ring) ==
  /\ lastBigBlindSeat # NoSeat
  /\ DealTo(ring, lastBigBlindSeat)

RotationNext ==
  \E ring \in Rings :
    \/ \E winner \in ring : FirstHand(ring, winner)
    \/ FirstHandUnseeded(ring)
    \/ NextHand(ring)

RotationSpec == RotationInit /\ [][RotationNext]_rotation

-----------------------------------------------------------------------------
\* "Never skips, never repeats" (types.ts 88-95) over any number of hands: by
\* the time a player posts the big blind again, everyone who has been dealt in
\* ever since has posted one too, whoever came and went in between.
BlindsGoRound ==
  [][unpaid[lastBigBlindSeat'] \cap dealtIn' \subseteq {lastBigBlindSeat'}]_rotation

\* Whoever was big blind last hand and is still in posts the small blind now:
\* nobody gets away with only one of the two.
BigBlindThenSmall ==
  [][(lastBigBlindSeat \in dealtIn') => smallBlindSeat' = lastBigBlindSeat]_rotation

\* The opening draw's winner has the button of the first hand, at any number
\* of players (liveTable.ts 1234-1240).
DrawWinnerHasButton ==
  [][\A ring \in Rings, winner \in Seats :
       winner \in ring /\ FirstHand(ring, winner) => buttonSeat' = winner]_rotation

\* RULES.md 13-15: the button "always advances to the next live (dealt-in)
\* seat and never repeats or skips one, even across seats sitting out".
\* It does not hold: the button is derived from the big blind, and stays or
\* skips when players join or leave.
ButtonAdvances ==
  [][lastBigBlindSeat # NoSeat =>
       buttonSeat' = NextInRing(dealtIn', buttonSeat)]_rotation
=============================================================================

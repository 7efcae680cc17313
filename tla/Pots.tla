------------------------------- MODULE Pots -------------------------------
(***************************************************************************)
(* Pot construction (packages/engine/src/pots.ts) and the split of a pot  *)
(* among its winners (showdown.ts), as functions of what each seat has    *)
(* committed over the hand.                                                *)
(*                                                                         *)
(*   c       committedThisHand, one amount per seat                        *)
(*   live    the seats that have not folded                                *)
(*                                                                         *)
(* buildPots walks the distinct positive amounts of c upwards.  Each      *)
(* level makes a pot for the live seats that reached it; a level no live  *)
(* seat reached is merged into the pot below.  A pot is identified here   *)
(* by its level, the `cappedAt` of the code.                               *)
(***************************************************************************)
EXTENDS Ring

Contributors(c) == {s \in Seats : c[s] > 0}

Levels(c) == {c[s] : s \in Contributors(c)}

Highest(S) == CHOOSE k \in S : \A j \in S : j <= k

(***************************************************************************)
(* Pots.                                                                   *)
(***************************************************************************)
\* Mutants: the pot is open to folded seats; to seats that paid less.
EligibleFolded(c, live, level) == {s \in Contributors(c) : c[s] >= level}
EligibleShort(c, live, level) == live \cap Contributors(c)

Eligible(c, live, level) == {s \in live \cap Contributors(c) : c[s] >= level}

PotLevels(c, live) == {k \in Levels(c) : Eligible(c, live, k) # {}}

\* Mutant: `prev` never moves, so a pot takes the tiers below it again.
LevelBelowNone(c, level) == 0

\* `prev` when the loop of buildPots reaches `level`.
LevelBelow(c, level) == Highest({0} \cup {k \in Levels(c) : k < level})

\* The pot of the highest live level also takes every tier above it.
TopOfPot(c, live, level) ==
  IF \E k \in PotLevels(c, live) : k > level THEN level ELSE Highest(Levels(c))

\* Mutant: chips above the highest live level belong to no pot.
TopAtLevel(c, live, level) == level

\* The ante belongs to no seat's commitment; it goes into the main pot.
PotAmount(c, live, ante, level) ==
  SeatSum([s \in Seats |-> Smaller(c[s], TopOfPot(c, live, level))
                             - Smaller(c[s], LevelBelow(c, level))])
    + (IF \E k \in PotLevels(c, live) : k < level THEN 0 ELSE ante)

\* The sum of f(level) over the pots: each level counted at its first seat.
SumOverPots(c, live, f(_)) ==
  SeatSum([s \in Seats |->
             IF c[s] \in PotLevels(c, live) /\ \A q \in Seats : c[q] = c[s] => s <= q
             THEN f(c[s])
             ELSE 0])

\* buildPots' own assertion; it throws when this does not hold.
PotsAddUp(c, live, ante) ==
  SumOverPots(c, live, LAMBDA level : PotAmount(c, live, ante, level))
    = SeatSum(c) + ante

(***************************************************************************)
(* One pot split among its winners W: equal shares, and the odd chips one *)
(* each to the winners nearest clockwise from the button.                  *)
(***************************************************************************)
ShareOf(amount, W, button, s) ==
  IF s \notin W
  THEN 0
  ELSE LET n      == Cardinality(W)
           before == Cardinality({w \in W : Distance(button, w) < Distance(button, s)})
       IN  amount \div n + (IF before < amount % n THEN 1 ELSE 0)

(***************************************************************************)
(* The uncalled part of the top bet (returnUncalledBet).  The top         *)
(* contributor is the seat that put in most, whether it folded or not.    *)
(***************************************************************************)
TopContributor(c) ==
  FirstOf({s \in Contributors(c) : \A q \in Contributors(c) : c[q] <= c[s]})

SecondHighest(c) == Highest({0} \cup {c[s] : s \in Contributors(c) \ {TopContributor(c)}})

UncalledExcess(c, live) ==
  IF /\ AtLeastTwo(Contributors(c))
     /\ Cardinality({c[s] : s \in Contributors(c) \cap live}) <= 2
  THEN c[TopContributor(c)] - SecondHighest(c)
  ELSE 0
=============================================================================

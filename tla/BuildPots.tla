----------------------------- MODULE BuildPots -----------------------------
(***************************************************************************)
(* buildPots (packages/engine/src/pots.ts) level by level, as the code     *)
(* runs it.  Pots.tla says in one formula what each pot holds, and the     *)
(* engine model pays out by that formula; this module is the loop the      *)
(* formula is compared with.                                               *)
(***************************************************************************)
EXTENDS Pots, Sequences, Folds

\* What the loop carries from level to level: the level below, the chips of
\* levels nobody can win that wait for the first pot, and the pots so far.
BeforeLevels == [prev |-> 0, carryForward |-> 0, pots |-> <<>>]

\* Mutant: every level is measured from nothing.
LayerFromNothing(c, at, level) == SeatSum([s \in Seats |-> Smaller(c[s], level)])

\* What all seats put in between the level below and this one.
Layer(c, at, level) ==
  SeatSum([s \in Seats |-> Smaller(c[s], level) - Smaller(c[s], at.prev)])

\* The chips of a level nobody can win go back into the pot below, or wait for
\* the first pot.
Unwinnable(c, at, level) ==
  IF at.pots = <<>>
  THEN [at EXCEPT !.prev = level, !.carryForward = @ + Layer(c, at, level)]
  ELSE [at EXCEPT !.prev = level, !.pots[Len(at.pots)].amount = @ + Layer(c, at, level)]

NewPot(c, live, at, level) ==
  [prev |-> level, carryForward |-> 0,
   pots |-> Append(at.pots, [amount |-> Layer(c, at, level) + at.carryForward,
                             cappedAt |-> level,
                             eligible |-> Eligible(c, live, level)])]

TakeLevel(c, live, at, level) ==
  IF Eligible(c, live, level) = {} THEN Unwinnable(c, at, level) ELSE NewPot(c, live, at, level)

\* The levels of T, from the lowest up.
Looped(c, live, T) ==
  MapThenFoldSet(LAMBDA level, at : TakeLevel(c, live, at, level), BeforeLevels,
                 LAMBDA level : level, Highest, T)

LoopedPots(c, live, ante) ==
  LET looped == Looped(c, live, Levels(c)) IN
  IF looped.pots = <<>> THEN <<>> ELSE [looped.pots EXCEPT ![1].amount = @ + ante]

\* The loop makes the pots Pots.tla describes: one for each level a live seat
\* reached, with those seats eligible and that amount.
LoopAgrees(c, live, ante) ==
  LET pots == LoopedPots(c, live, ante) IN
  /\ {pots[i].cappedAt : i \in DOMAIN pots} = PotLevels(c, live)
  /\ \A i \in DOMAIN pots :
       /\ pots[i].eligible = Eligible(c, live, pots[i].cappedAt)
       /\ pots[i].amount = PotAmount(c, live, ante, pots[i].cappedAt)
=============================================================================

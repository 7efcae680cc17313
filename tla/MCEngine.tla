----------------------------- MODULE MCEngine -----------------------------
(***************************************************************************)
(* A TLC instance of Engine: tables whose players sit with any of a set   *)
(* of stacks in front of them (0: an empty chair), of two kinds.  At the  *)
(* first kind one hand is left to be played before MaxHands, without ante *)
(* or straddle; at the second two, with both, so that what one hand       *)
(* leaves behind reaches the next.  The clockwise order is all that tells *)
(* the chairs apart, so one last big blind -- and the table that never    *)
(* had one -- covers every position.                                       *)
(***************************************************************************)
EXTENDS Engine

CONSTANTS OneHandStacks, SessionStacks

TableWith(stacks, lastBb, owing, hands) ==
  [status |-> [s \in Seats |-> IF stacks[s] > 0 THEN "active" ELSE "empty"],
   stack |-> stacks,
   committedThisStreet |-> [s \in Seats |-> 0],
   committedThisHand |-> [s \in Seats |-> 0],
   hasActedThisRound |-> [s \in Seats |-> FALSE],
   lastActedAtBet |-> [s \in Seats |-> 0],
   missedBigBlind |-> [s \in Seats |-> s \in owing],
   handNumber |-> MaxHands - hands, phase |-> "waiting", street |-> "preflop",
   ante |-> IF hands = 1 THEN 0 ELSE MaxAnte,
   straddleEnabled |-> hands > 1,
   buttonSeat |-> 0, lastBigBlindSeat |-> lastBb, straddleSeat |-> NoSeat,
   actingSeat |-> NoSeat, currentBet |-> 0,
   lastFullRaiseIncrement |-> BigBlind, lastFullBetAmount |-> 0,
   anteTotal |-> 0, allInRevealed |-> FALSE]

OneHandTables == {TableWith(f, 0, {}, 1) : f \in [Seats -> OneHandStacks]}

\* A table that never dealt.
FreshTables == {TableWith(f, NoSeat, {}, 2) : f \in [Seats -> SessionStacks]}

\* Players who changed seats away from the big blind owe one: up to two do.
OwingTables ==
  {TableWith(f, 0, o, 2) : f \in [Seats -> SessionStacks],
                           o \in {p \in SUBSET Seats : Cardinality(p) <= 2}}

\* Every table in the middle of a session: an empty chair owes nothing.
SessionTables ==
  FreshTables \cup
    {t \in OwingTables : \A s \in Seats : t.missedBigBlind[s] => t.stack[s] > 0}

AllTables == OneHandTables \cup SessionTables
=============================================================================

------------------------------ MODULE Engine ------------------------------
(***************************************************************************)
(* The hand state machine of packages/engine: startHand and applyAction   *)
(* over one TableState, with the blinds, the betting rules, the street    *)
(* loop (`advance`), pots and showdown.                                    *)
(*                                                                         *)
(* The code works on a draft copy of the table and every public call ends *)
(* in `advance`.  The operators below follow it: each takes a draft and   *)
(* returns the next one, and an action of the specification is one public *)
(* call, run to the point where the code returns.                          *)
(*                                                                         *)
(* Cards are abstracted: which hand beats which is a ranking of the seats *)
(* chosen when the showdown is reached (lower is stronger, as in          *)
(* evaluator.ts).  The fields used only for display -- isAllowedToRaise,  *)
(* lastAggressorSeat, board, deck, burned, the events -- are left out.     *)
(***************************************************************************)
EXTENDS BuildPots, Button

CONSTANTS
  SmallBlind, BigBlind,                         \* TableConfig
  MaxAnte,                                      \* bound on the ante of a TableConfig
  Ranks,                                        \* hand strengths
  StartingTables,                               \* tables the server may begin from
  MaxHands                                      \* bound on handNumber

VARIABLE table

ASSUME ConfigAssumption ==
  /\ SmallBlind \in Nat \ {0}
  /\ BigBlind \in Nat
  /\ SmallBlind <= BigBlind
  /\ MaxAnte \in Nat
  /\ Ranks \subseteq Nat
  /\ MaxHands \in Nat

Status == {"active", "folded", "all-in", "sitting-out", "empty"}
Street == {"preflop", "flop", "turn", "river"}
Phase  == {"waiting", "in-hand", "hand-complete"}

\* TableState, its seats' fields as functions of the seat, in one of `phases`.
TablesIn(phases) ==
  [status : [Seats -> Status],
   stack : [Seats -> Nat],
   committedThisStreet : [Seats -> Nat],
   committedThisHand : [Seats -> Nat],
   hasActedThisRound : [Seats -> BOOLEAN],
   lastActedAtBet : [Seats -> Nat],
   missedBigBlind : [Seats -> BOOLEAN],
   handNumber : Nat,
   phase : phases,
   street : Street,
   ante : 0 .. MaxAnte,
   straddleEnabled : BOOLEAN,
   buttonSeat : Seats,
   lastBigBlindSeat : Seats \cup {NoSeat},
   straddleSeat : Seats \cup {NoSeat},
   actingSeat : Seats \cup {NoSeat},
   currentBet : Nat,
   lastFullRaiseIncrement : Nat,
   lastFullBetAmount : Nat,
   anteTotal : Nat,
   allInRevealed : BOOLEAN]

Tables == TablesIn(Phase)

\* createTable (factory.ts) makes a table on which no hand was dealt.
ASSUME StartingTablesAssumption ==
  \A t \in StartingTables : t \in Tables /\ t.phase = "waiting"

(***************************************************************************)
(* Reading a draft.                                                        *)
(***************************************************************************)
Contending(d)  == {s \in Seats : d.status[s] \in {"active", "all-in"}}
DealtIn(d)     == {s \in Seats : d.status[s] = "active" /\ d.stack[s] > 0}
Live(d)        == {s \in Seats : d.status[s] # "folded"}

\* Mutants: a seat that acted is not asked again after a raise; a seat alone
\* with chips is asked for a decision.
NeedsToActOnce(d) == {s \in Seats : d.status[s] = "active" /\ ~d.hasActedThisRound[s]}
NeedsToAct(d) ==
  {s \in Seats : /\ d.status[s] = "active"
                 /\ \/ ~d.hasActedThisRound[s]
                    \/ d.committedThisStreet[s] < d.currentBet}

PendingAlways(d) == NeedsToAct(d)

\* With at most one contender left with chips, only a seat that owes a call
\* is asked for a decision.
Pending(d) ==
  {s \in NeedsToAct(d) : \/ AtLeastTwo(DealtIn(d))
                         \/ d.committedThisStreet[s] < d.currentBet}

(***************************************************************************)
(* Moving chips.                                                           *)
(***************************************************************************)
\* Seat s puts x of its chips in; a seat left with none is all-in.
Commit(d, s, x) ==
  [d EXCEPT !.stack[s] = @ - x,
            !.committedThisStreet[s] = @ + x,
            !.committedThisHand[s] = @ + x,
            !.status[s] = IF d.stack[s] = x THEN "all-in" ELSE @]

\* returnUncalledBet.
ReturnUncalledBet(d) ==
  LET c      == d.committedThisHand
      excess == UncalledExcess(c, Live(d))
      top    == TopContributor(c)
  IN  IF excess <= 0
      THEN d
      ELSE [d EXCEPT !.committedThisHand[top] = @ - excess,
                     !.committedThisStreet[top] = Larger(0, @ - excess),
                     !.stack[top] = @ + excess,
                     !.status[top] = IF @ = "all-in" THEN "active" ELSE @]

PotAmountOf(d, level) == PotAmount(d.committedThisHand, Live(d), d.anteTotal, level)

\* Seat s receives, from each pot, its share as one of the pot's winners.
Winnings(d, winners(_), s) ==
  SumOverPots(d.committedThisHand, Live(d),
    LAMBDA level : ShareOf(PotAmountOf(d, level), winners(level), d.buttonSeat, s))

\* The pots are paid out and the hand is over.
PayOut(d, winners(_)) ==
  [d EXCEPT !.stack = [s \in Seats |-> d.stack[s] + Winnings(d, winners, s)],
            !.phase = "hand-complete",
            !.actingSeat = NoSeat]

\* Everyone but w has folded: w takes every pot.
AwardFoldWin(d, w) == PayOut(d, LAMBDA level : {w})

\* The strongest eligible hands take each pot.
RunShowdown(d, rank) ==
  LET best(level) ==
        LET E == Eligible(d.committedThisHand, Live(d), level)
        IN  {s \in E : \A q \in E : rank[s] <= rank[q]}
  IN  PayOut(d, best)
(***************************************************************************)
(* The street loop.  `advance` repeats: a hand with one contender left is *)
(* won; otherwise the next seat with a decision is prompted; with nobody  *)
(* left to ask, the street is closed and the next one dealt.  `running`   *)
(* is TRUE while the loop goes round again; "showdown" is the phase of a  *)
(* draft that leaves the loop for runShowdown.                             *)
(***************************************************************************)
NextStreet(street) ==
  CASE street = "preflop" -> "flop" [] street = "flop" -> "turn" [] OTHER -> "river"

\* dealFlop/dealTurn/dealRiver: resetBettingForNewStreet, and advance sets
\* the acting seat to the button.
DealNextStreet(d) ==
  [d EXCEPT !.street = NextStreet(@),
            !.currentBet = 0,
            !.lastFullRaiseIncrement = BigBlind,
            !.lastFullBetAmount = 0,
            !.actingSeat = d.buttonSeat,
            !.committedThisStreet = [s \in Seats |-> 0],
            !.lastActedAtBet = [s \in Seats |-> 0],
            !.hasActedThisRound =
               [s \in Seats |-> d.hasActedThisRound[s] /\ d.status[s] # "active"],
            !.allInRevealed = @ \/ ~AtLeastTwo(DealtIn(d))]

AdvanceOnce(d) ==
  LET stop(e) == [draft |-> e, running |-> FALSE]
  IN  IF ~AtLeastTwo(Contending(d))
      THEN stop(AwardFoldWin(ReturnUncalledBet(d), CHOOSE w \in Contending(d) : TRUE))
      ELSE IF Pending(d) # {}
      THEN stop([d EXCEPT !.actingSeat = NextInRing(Pending(d), d.actingSeat)])
      ELSE IF d.street = "river"
      THEN stop([ReturnUncalledBet(d) EXCEPT !.phase = "showdown"])
      ELSE [draft |-> DealNextStreet(d), running |-> TRUE]

Again(r) == IF r.running THEN AdvanceOnce(r.draft) ELSE r

\* The loop goes round once per street at most.
Advance(d) == Again(Again(Again(AdvanceOnce(d)))).draft

(***************************************************************************)
(* Starting a hand (hand.ts).                                              *)
(***************************************************************************)
ResetSeats(d) ==
  [d EXCEPT !.status = [s \in Seats |->
                          IF d.status[s] \notin {"folded", "all-in"} THEN d.status[s]
                          ELSE IF d.stack[s] > 0 THEN "active" ELSE "sitting-out"],
            !.committedThisStreet = [s \in Seats |-> 0],
            !.committedThisHand   = [s \in Seats |-> 0],
            !.hasActedThisRound   = [s \in Seats |-> FALSE],
            !.lastActedAtBet      = [s \in Seats |-> 0]]

\* The whole table's ante is paid by the big blind, out of its stack.
PostAnte(d, bb) ==
  LET a == Smaller(d.ante, d.stack[bb])
  IN  [d EXCEPT !.stack[bb] = @ - a, !.anteTotal = a]

\* Mutant: a blind is posted in full, whatever the seat has.
PostBlindInFull(d, s, blind) == Commit(d, s, blind)

\* A forced bet of at most the seat's chips.
PostBlind(d, s, blind) == Commit(d, s, Smaller(blind, d.stack[s]))

\* Mutant: the bet to call is the nominal big blind.
OpenBettingNominal(d, sb, bb) ==
  [d EXCEPT !.currentBet = BigBlind,
            !.lastFullRaiseIncrement = BigBlind,
            !.lastFullBetAmount = BigBlind]

\* What has to be called is what was actually posted.
OpenBetting(d, sb, bb) ==
  LET opening == Larger(d.committedThisStreet[sb], d.committedThisStreet[bb])
  IN  [d EXCEPT !.currentBet = opening,
                !.lastFullRaiseIncrement = BigBlind,
                !.lastFullBetAmount = opening]

\* Mutant: the straddle is posted but does not become the bet to call.
PostStraddleAside(d, pos) ==
  LET utg      == NextInRing(Contending(d), pos.bb)
      straddle == Smaller(2 * BigBlind, d.stack[utg] + d.committedThisStreet[utg])
  IN  IF ~d.straddleEnabled \/ pos.headsUp \/ utg \notin DealtIn(d)
      THEN d
      ELSE [Commit(d, utg, straddle - d.committedThisStreet[utg]) EXCEPT !.straddleSeat = utg]

\* Under the gun straddles for two big blinds, or all-in for less; only a
\* straddle above the opening bet becomes the bet to call.
PostStraddle(d, pos) ==
  LET utg      == NextInRing(Contending(d), pos.bb)
      straddle == Smaller(2 * BigBlind, d.stack[utg] + d.committedThisStreet[utg])
      posted   == [Commit(d, utg, straddle - d.committedThisStreet[utg])
                     EXCEPT !.straddleSeat = utg]
  IN  IF ~d.straddleEnabled \/ pos.headsUp \/ utg \notin DealtIn(d)
      THEN d
      ELSE IF straddle <= d.currentBet
      THEN posted
      ELSE [posted EXCEPT !.currentBet = straddle,
                          !.lastFullRaiseIncrement = straddle,
                          !.lastFullBetAmount = straddle]

\* A big blind skipped by changing seats is posted live, never for more
\* than there is to call.
PostMissedBigBlinds(d) ==
  LET target == Smaller(BigBlind, d.currentBet)
      owed(s) ==
        IF d.missedBigBlind[s] /\ d.status[s] = "active"
        THEN Larger(0, Smaller(target - d.committedThisStreet[s], d.stack[s]))
        ELSE 0
  IN  [d EXCEPT
        !.missedBigBlind = [s \in Seats |-> d.missedBigBlind[s] /\ s \notin Contending(d)],
        !.stack = [s \in Seats |-> d.stack[s] - owed(s)],
        !.committedThisStreet = [s \in Seats |-> d.committedThisStreet[s] + owed(s)],
        !.committedThisHand = [s \in Seats |-> d.committedThisHand[s] + owed(s)],
        !.status = [s \in Seats |-> IF owed(s) > 0 /\ owed(s) = d.stack[s]
                                    THEN "all-in" ELSE d.status[s]]]

Deal(d, pos) ==
  [d EXCEPT !.lastBigBlindSeat = pos.bb,
            !.phase = "in-hand",
            !.actingSeat = IF d.straddleSeat # NoSeat THEN d.straddleSeat ELSE pos.bb]

\* prepareAndDealHand, for a table with at least two seats to deal in.
PrepareAndDealHand(d0) ==
  LET pos   == AssignButtonAndBlinds(DealtIn(d0), d0.lastBigBlindSeat)
      fresh == [d0 EXCEPT !.buttonSeat = pos.button, !.street = "preflop",
                          !.allInRevealed = FALSE, !.anteTotal = 0,
                          !.straddleSeat = NoSeat, !.handNumber = @ + 1]
      ante  == PostAnte(fresh, pos.bb)
      small == PostBlind(ante, pos.sb, SmallBlind)
      big   == [PostBlind(small, pos.bb, BigBlind) EXCEPT !.missedBigBlind[pos.bb] = FALSE]
      open  == OpenBetting(big, pos.sb, pos.bb)
  IN  Deal(PostMissedBigBlinds(PostStraddle(open, pos)), pos)

\* A draft becomes the table when the engine returns it; the cards decide
\* a showdown.
Return(d) ==
  IF d.phase = "showdown"
  THEN \E rank \in [Seats -> Ranks] : table' = RunShowdown(d, rank)
  ELSE table' = d

\* Mutant: the deal is not prepared.
SitOutNobody(d) == d

\* prepareNextOrbit, which the server runs before each deal: a seat that sat
\* back in without chips is sat out again.
SitOutBusted(d) ==
  [d EXCEPT !.status = [s \in Seats |-> IF d.status[s] = "active" /\ d.stack[s] = 0
                                       THEN "sitting-out" ELSE d.status[s]]]

StartHand ==
  /\ table.phase # "in-hand"
  /\ table.handNumber < MaxHands
  /\ LET d == ResetSeats(SitOutBusted(table))
     IN  /\ AtLeastTwo(DealtIn(d))
         /\ Return(Advance(PrepareAndDealHand(d)))

(***************************************************************************)
(* What a seat may do (legalActions.ts).                                   *)
(***************************************************************************)
ToCall(d, s) == d.currentBet - d.committedThisStreet[s]

MaxCommit(d, s) == d.stack[s] + d.committedThisStreet[s]

\* Mutant: only more than a full raise reopens.
IsReopenedByMore(d, s) ==
  \/ ~d.hasActedThisRound[s]
  \/ d.currentBet - d.lastActedAtBet[s] > d.lastFullRaiseIncrement

\* A seat that has acted may raise again only after the bet grew by a full
\* raise since.
IsReopened(d, s) ==
  \/ ~d.hasActedThisRound[s]
  \/ d.currentBet - d.lastActedAtBet[s] >= d.lastFullRaiseIncrement

\* Sized off the last FULL bet, which a short all-in does not move.
MinimumTo(d) == Larger(d.lastFullBetAmount + d.lastFullRaiseIncrement, d.currentBet + 1)

CanBetOrRaise(d, s) ==
  /\ d.stack[s] > 0
  /\ \/ d.currentBet = 0
     \/ MaxCommit(d, s) > d.currentBet /\ IsReopened(d, s)

(***************************************************************************)
(* What a seat does (betting.ts); every action ends in `advance`.          *)
(***************************************************************************)
\* Mutant: nobody notes that the seat has acted.
ActedUnnoted(d, s) == [d EXCEPT !.lastActedAtBet[s] = d.currentBet]
Acted(d, s) == [d EXCEPT !.hasActedThisRound[s] = TRUE, !.lastActedAtBet[s] = d.currentBet]

\* Mutant: a raise, short or full, makes everyone's action count as new.
RaiseToAfresh(d, s, to) ==
  LET increment == to - d.currentBet
      put == [Commit(d, s, to - d.committedThisStreet[s]) EXCEPT
                !.currentBet = to, !.hasActedThisRound = [q \in Seats |-> FALSE]]
      full == IF increment >= d.lastFullRaiseIncrement
              THEN [put EXCEPT !.lastFullRaiseIncrement = increment, !.lastFullBetAmount = to]
              ELSE put
  IN  Acted(full, s)

RaiseTo(d, s, to) ==
  LET increment == to - d.currentBet
      put == [Commit(d, s, to - d.committedThisStreet[s]) EXCEPT !.currentBet = to]
      full == IF increment >= d.lastFullRaiseIncrement
              THEN [put EXCEPT !.lastFullRaiseIncrement = increment, !.lastFullBetAmount = to]
              ELSE put
  IN  Acted(full, s)

Turn(s) ==
  /\ table.phase = "in-hand"
  /\ table.actingSeat = s
  /\ table.status[s] = "active"

Fold(s) ==
  /\ Turn(s)
  /\ Return(Advance(Acted([table EXCEPT !.status[s] = "folded"], s)))

Check(s) ==
  /\ Turn(s)
  /\ ToCall(table, s) <= 0
  /\ Return(Advance(Acted(table, s)))

Call(s) ==
  /\ Turn(s)
  /\ ToCall(table, s) > 0
  /\ Return(Advance(Acted(Commit(table, s, Smaller(ToCall(table, s), table.stack[s])), s)))

BetOrRaise(s, to) ==
  /\ Turn(s)
  /\ CanBetOrRaise(table, s)
  /\ to >= Smaller(MinimumTo(table), MaxCommit(table, s))
  /\ to <= MaxCommit(table, s)
  /\ Return(Advance(RaiseTo(table, s, to)))

(***************************************************************************)
(* Between hands the server marks seats out and back in                    *)
(* (apps/server/src/game/liveTable.ts).                                    *)
(***************************************************************************)
SitOut(s) ==
  /\ table.phase # "in-hand"
  /\ table.handNumber < MaxHands
  /\ table.status[s] \in {"active", "folded", "all-in"}
  /\ table' = [table EXCEPT !.status[s] = "sitting-out"]

SitIn(s) ==
  /\ table.phase # "in-hand"
  /\ table.handNumber < MaxHands
  /\ table.status[s] = "sitting-out"
  /\ table' = [table EXCEPT !.status[s] = "active"]

Init == table \in StartingTables

Act(s) ==
  \/ Fold(s)
  \/ Check(s)
  \/ Call(s)
  \/ \E to \in 1 .. MaxCommit(table, s) : BetOrRaise(s, to)

Next ==
  \/ StartHand
  \/ \E s \in Seats : Act(s) \/ SitOut(s) \/ SitIn(s)

Spec == Init /\ [][Next]_table

(***************************************************************************)
(* The turn clock folds or checks for a player who does not act           *)
(* (handleTimeout), so no turn lasts for ever.  ClockRuns is               *)
(* WF_table(TurnEnds) with ENABLED replaced by what enables it, that it is *)
(* somebody's turn.                                                        *)
(***************************************************************************)
TurnEnds ==
  \E s \in Seats :
    /\ Turn(s)
    /\ \/ table'.actingSeat # s
       \/ table'.street # table.street
       \/ table'.phase # "in-hand"

ClockRuns ==
  \/ []<>(~\E s \in Seats : Turn(s))
  \/ []<><<TurnEnds>>_table

FairSpec == Spec /\ ClockRuns

-----------------------------------------------------------------------------
TypeOK == table \in Tables

InHand == table.phase = "in-hand"

\* The assertions buildPots ends with hold for every hand that is paid out:
\* the pots hold exactly what was put in (pots.ts 102-113).
PotsHoldEveryChip ==
  table.phase = "hand-complete" =>
    PotsAddUp(table.committedThisHand, Live(table), table.anteTotal)

\* The pots a hand is paid out from are those the loop of buildPots makes, and
\* they would be whoever had folded of those who put chips in, so also when
\* the highest stakes are those of seats that are out.
LoopMakesThesePots ==
  table.phase = "hand-complete" =>
    LET c == table.committedThisHand IN
    \A live \in (SUBSET Contributors(c)) \ {{}} : LoopAgrees(c, live, table.anteTotal)

\* In a hand, the bet to call is the largest amount committed on the street,
\* and some seat still in the hand has committed it (sim invariant 7, and
\* that nobody is asked to call a bet whose maker is gone).
BetCovers(d) == \A s \in Seats : d.committedThisStreet[s] <= d.currentBet

BetIsStanding ==
  InHand =>
    /\ BetCovers(table)
    /\ \E s \in Contending(table) : table.committedThisStreet[s] = table.currentBet

\* No folded seat has put more into the hand than everyone still in it, so
\* the uncalled part of a bet is never refunded to a seat that folded and no
\* pot is without a winner.
TopStakeContends ==
  InHand =>
    \E s \in Contending(table) : \A q \in Seats :
      table.committedThisHand[q] <= table.committedThisHand[s]

PaidAlike(d) ==
  \A s, q \in Seats :
    d.status[s] = "active" =>
      d.committedThisHand[q] - d.committedThisStreet[q]
        <= d.committedThisHand[s] - d.committedThisStreet[s]

\* When a street is dealt, every seat that can still bet had matched the
\* bet: what it paid on earlier streets is as much as anybody's.
NobodySeesAStreetCheaply == InHand => PaidAlike(table)

\* Hole cards turned up early are turned up for good reason: nobody acts again
\* in that hand (engine.ts 30-36, 59-65).
EarlyRevealEndsBetting == table.allInRevealed => ~InHand

\* Every step moves chips only as Custody allows: out of a stack by a forced
\* bet or on that seat's turn, out of the middle only to seats that have not
\* folded, none made and none lost, whatever refunds and side pots it takes.
Money ==
  INSTANCE Custody WITH
    Forced  <- Larger(MaxAnte + BigBlind, 2 * BigBlind),
    bank    <- table.stack,
    middle  <- IF InHand THEN SeatSum(table.committedThisHand) + table.anteTotal ELSE 0,
    playing <- IF InHand THEN Contending(table) ELSE {},
    turn    <- table.actingSeat

ImplementsCustody == Money!Spec

\* What each seat had when the hand began.
StackAtDeal(t, s) ==
  t.stack[s] + (IF t.phase = "in-hand"
                THEN t.committedThisHand[s]
                       + (IF s = t.lastBigBlindSeat THEN t.anteTotal ELSE 0)
                ELSE 0)

\* Nobody wins from another player more than they put at risk themselves:
\* an all-in for less can only win that much from each opponent, plus the
\* ante, whatever the side pots.
WinBoundedByStake ==
  [][\A s \in Seats :
       LET c == table'.committedThisHand
       IN  table'.phase = "hand-complete" =>
             table'.stack[s] - StackAtDeal(table, s)
               <= SeatSum([q \in Seats |-> IF q = s THEN 0 ELSE Smaller(c[q], c[s])])
                    + table'.anteTotal]_table

\* What s was paid out of the pots by the step that ended the hand.
PaidOut(s) ==
  table'.stack[s] - StackAtDeal(table, s) + table'.committedThisHand[s]
    + (IF s = table'.lastBigBlindSeat THEN table'.anteTotal ELSE 0)

\* RULES.md 35-40: pots and split pots "follow standard rules", "ties split
\* the pot with odd chips awarded" one by one.  When all who are left staked
\* the same there is one pot to split, and the shares of those who tie for it
\* differ by at most the odd chip.  It does not hold: a folded seat that staked
\* less makes a second pot, with an odd chip of its own.
TieSplitsEvenly ==
  [][InHand /\ table'.phase = "hand-complete" =>
       LET left == Contending(table')
       IN  (\A s, q \in left : table'.committedThisHand[s] = table'.committedThisHand[q]) =>
             \A s, q \in left :
               PaidOut(s) > 0 /\ PaidOut(q) > 0 => PaidOut(s) - PaidOut(q) <= 1]_table

\* RULES.md 28-33: a full bet or raise reopens the betting for everyone else
\* still to act, each may raise again if they have the chips; an all-in for
\* less does not, for those who have acted and do not owe a full raise by now.
FullRaiseReopens ==
  [][\A s \in Seats :
       /\ InHand /\ InHand'
       /\ table.actingSeat = s
       /\ table'.street = table.street
       => \A q \in Seats \ {s} : table'.status[q] = "active" =>
            /\ table'.currentBet - table.currentBet >= table.lastFullRaiseIncrement
                 => IsReopened(table', q)
            /\ table.hasActedThisRound[q]
               /\ ToCall(table', q) < table'.lastFullRaiseIncrement
                 => ~IsReopened(table', q)]_table

\* A seat without chips is never in a hand that is dealt, whether it busted,
\* sat out or sat back in since: the engine takes every seat marked active
\* for a contender, and only the server looks at the chips (liveTable.ts 1610).
BustedSitOut ==
  [][\A s \in Seats :
       table'.handNumber > table.handNumber /\ table.stack[s] = 0
         => s \notin Contending(table')]_table

\* A hand that is dealt is played to its end, as long as the clock runs.
HandsEnd == InHand ~> ~InHand
=============================================================================

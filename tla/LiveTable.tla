----------------------------- MODULE LiveTable -----------------------------
(***************************************************************************)
(* The seats of one table (LiveTable): who sits where with which chips,    *)
(* what has been asked for during a hand and has to wait for its end, and  *)
(* the book of the game, which must always tell what the table and the     *)
(* players' balances tell.                                                 *)
(*                                                                         *)
(* A hand is what Custody says of it: the players dealt in put chips in    *)
(* the middle, and some of those still in take them.  Time, the break and  *)
(* who may start a hand are HandBreak's.  Balances move with the handler   *)
(* here; what comes between its awaits is TableMoney's.                    *)
(***************************************************************************)
EXTENDS GameBook, Functions

CONSTANTS
  MaxSeats,          \* the most seats a table can have
  FirstSeats,        \* the seats it starts with
  Users,
  Nobody, NoSeat,
  Balance,           \* what every player has to begin with
  BuyInSize,         \* chips a seat is taken with
  RebuySize,         \* chips the owner adds at a time
  Ante,
  DealMayEndHand,    \* TRUE: some blinds are short enough to end a hand at the deal
  MaxChips,          \* bound on the chips in the game, the players' balances included
  MaxRequests,       \* bound on what is asked for in one game
  MaxHands,          \* bound on the hands of a game
  MaxGames           \* bound on the games played at the table

Seats == 0 .. MaxSeats - 1

\* The engine's playerId of a computer player seated at s.
BotAt(s) == <<"bot", s>>
Bots == {BotAt(s) : s \in Seats}
Keys == Users \cup Bots

ASSUME TableAssumption ==
  /\ MaxSeats \in Nat \ {0} /\ FirstSeats \subseteq Seats
  /\ IsFiniteSet(Users) /\ Nobody \notin Keys /\ NoSeat \notin Seats /\ Users \cap Bots = {}
  /\ Balance \in Nat /\ BuyInSize \in Nat \ {0} /\ RebuySize \in Nat \ {0} /\ Ante \in Nat
  /\ DealMayEndHand \in BOOLEAN
  /\ MaxRequests \in Nat /\ MaxHands \in Nat /\ MaxGames \in Nat

VARIABLES
  inHand,
  seat,          \* engine seat and live seat together, see Place
  removed,       \* removedSeatIds, and the numbers not in use yet
  dealt,         \* currentHandInitialState: who sat where, with how much
  bigBlind,      \* lastBigBlindSeat, who paid the ante
  anteTotal,
  handChipAdds,
  handLeavers,   \* who left a seat during the hand, with how much
  book,
  balance,       \* users.chips
  opened,        \* history: the balances when the book was opened
  unbooked,      \* history: players of whom the book missed something
  requests,      \* counts what was asked for in this game, for MaxRequests
  handNumber,
  game           \* gameCount

handVars == <<dealt, bigBlind, anteTotal, handChipAdds, handLeavers>>
vars == <<inHand, seat, removed, handVars, book, balance, opened, unbooked, requests, handNumber, game>>

(***************************************************************************)
(* Seats.                                                                  *)
(***************************************************************************)
Empty ==
  [who |-> Nobody, status |-> "empty", stack |-> 0,
   bet |-> 0,              \* committedThisHand, while the hand lasts
   here |-> FALSE,         \* the live seat has a user or a bot: not one that left
   pendingChips |-> 0, pendingRemoval |-> "no", pendingMoveTo |-> NoSeat,
   joinsNextHand |-> FALSE, sitsOut |-> FALSE, sitsIn |-> FALSE]

Playing == {"active", "all-in", "folded"}

NobodyLeft == [s \in Seats |-> [key |-> Nobody, stack |-> 0]]
NothingAdded == [s \in Seats |-> 0]
NobodyDealt == [s \in Seats |-> [who |-> Nobody, stack |-> 0]]

IsInCurrentHand(s) == inHand /\ seat[s].status \in Playing
NewlySeatedStatus == IF inHand THEN "sitting-out" ELSE "active"

\* Mutant: a seat somebody is going to move to is up for grabs.
UsableThoughHeld(s, at, gone) == s \notin gone /\ at[s].status = "empty"
\* checkSeatUsable
Usable(s, at, gone) ==
  /\ s \notin gone /\ at[s].status = "empty"
  /\ \A t \in Seats : at[t].pendingMoveTo # s

CashOutAmount(s) == seat[s].stack + seat[s].pendingChips
\* Mutant: the ante is not given back.
RefundWithoutAnte(s) == CashOutAmount(s) + seat[s].bet
VoidedHandRefund(s) ==
  CashOutAmount(s)
    + (IF inHand THEN seat[s].bet + (IF s = bigBlind THEN anteTotal ELSE 0) ELSE 0)

IsUser(s) == seat[s].here /\ seat[s].who \in Users
SeatsOf(k) == {s \in Seats : seat[s].who = k}
Seated(u) == \E s \in SeatsOf(u) : seat[s].here

SumOver(S, f(_)) == SumFunction([x \in S |-> f(x)])
TableChips == SumOver(Seats, LAMBDA s : seat[s].stack + seat[s].pendingChips + seat[s].bet)
                + anteTotal
AllChips == TableChips + SumOver(Users, LAMBDA u : balance[u])

Init ==
  /\ inHand = FALSE
  /\ seat = [s \in Seats |-> Empty]
  /\ removed = Seats \ FirstSeats
  /\ dealt = NobodyDealt /\ bigBlind = NoSeat /\ anteTotal = 0
  /\ handChipAdds = NothingAdded /\ handLeavers = NobodyLeft
  /\ book = NoEntries(Keys)
  /\ balance = [u \in Users |-> Balance] /\ opened = balance
  /\ unbooked = {}
  /\ requests = 0 /\ handNumber = 0 /\ game = 1

(***************************************************************************)
(* Coming and going.                                                       *)
(***************************************************************************)
Newcomer(k, amount) ==
  [Empty EXCEPT !.who = k, !.stack = amount, !.here = TRUE, !.status = NewlySeatedStatus,
                !.joinsNextHand = inHand]

\* take-seat: one seat to a player, and the chips from their balance.
TakeSeat(u, s) ==
  /\ ~Seated(u) /\ Usable(s, seat, removed)
  /\ balance[u] >= BuyInSize
  /\ seat' = [seat EXCEPT ![s] = Newcomer(u, BuyInSize)]
  /\ balance' = [balance EXCEPT ![u] = @ - BuyInSize]
  /\ book' = BuyIn(book, u, BuyInSize)
  /\ UNCHANGED <<inHand, removed, handVars, opened, unbooked>>

\* addBot names a computer player for its seat; one that has moved away keeps
\* the name, and the book takes the two for one.
AddBot(s) ==
  /\ Usable(s, seat, removed)
  /\ AllChips + BuyInSize <= MaxChips
  /\ seat' = [seat EXCEPT ![s] = Newcomer(BotAt(s), BuyInSize)]
  /\ book' = BuyIn(book, BotAt(s), BuyInSize)
  /\ unbooked' = IF SeatsOf(BotAt(s)) # {} THEN unbooked \cup {BotAt(s)} ELSE unbooked
  /\ UNCHANGED <<inHand, removed, handVars, balance, opened>>

\* What is left of the seat of a folded player until the hand is over.
LeaveFolded(s) ==
  [Empty EXCEPT !.who = seat[s].who, !.status = seat[s].status, !.bet = seat[s].bet,
                !.pendingRemoval = "player"]

\* leaveSeat: the money goes with the player at once.  From a hand they folded
\* they are noted to leave with chips still pending too, which count as won in
\* that hand.
LeaveSeat(s) ==
  /\ IsUser(s)
  /\ ~(inHand /\ seat[s].status \in {"active", "all-in"})
  /\ LET u == seat[s].who  amount == CashOutAmount(s) IN
     /\ book' = CashOut(book, u, amount)
     /\ balance' = [balance EXCEPT ![u] = @ + amount]
     /\ IF IsInCurrentHand(s)
        THEN /\ handLeavers' = [handLeavers EXCEPT ![s] = [key |-> u, stack |-> amount]]
             /\ seat' = [seat EXCEPT ![s] = LeaveFolded(s)]
             /\ unbooked' = IF seat[s].pendingChips > 0 THEN unbooked \cup {u} ELSE unbooked
        ELSE seat' = [seat EXCEPT ![s] = Empty] /\ UNCHANGED <<handLeavers, unbooked>>
  /\ UNCHANGED <<inHand, removed, dealt, bigBlind, anteTotal, handChipAdds, opened>>

Credit(bal, s, amount) == IF IsUser(s) THEN [bal EXCEPT ![seat[s].who] = @ + amount] ELSE bal

\* removeSeatOccupant of a seat that is not in the hand; `gone`: the seat goes too.
RemoveNow(s, gone) ==
  /\ seat[s].status # "empty" /\ ~IsInCurrentHand(s)
  /\ seat' = [seat EXCEPT ![s] = Empty]
  /\ book' = CashOut(book, seat[s].who, CashOutAmount(s))
  /\ balance' = Credit(balance, s, CashOutAmount(s))
  /\ removed' = IF gone THEN removed \cup {s} ELSE removed
  /\ UNCHANGED <<inHand, handVars, opened, unbooked>>

RemoveAfterHand(s, gone) ==
  /\ IsInCurrentHand(s)
  /\ seat' = [seat EXCEPT ![s].pendingRemoval = IF gone THEN "seat" ELSE "player",
                          ![s].sitsOut = TRUE]
  /\ UNCHANGED <<inHand, removed, handVars, book, balance, opened, unbooked>>

RemoveEmpty(s) ==
  /\ s \notin removed /\ seat[s].status = "empty"
  /\ removed' = removed \cup {s}
  /\ UNCHANGED <<inHand, seat, handVars, book, balance, opened, unbooked>>

\* remove-player and remove-bot
RemovePlayer(s) == RemoveNow(s, FALSE) \/ RemoveAfterHand(s, FALSE)

\* delete-seat
DeleteSeat(s) ==
  /\ Cardinality(Seats \ removed) > 2
  /\ RemoveNow(s, TRUE) \/ RemoveAfterHand(s, TRUE) \/ RemoveEmpty(s)

\* addSeat: the lowest seat that is missing.
AddSeat ==
  /\ removed # {}
  /\ removed' = removed \ {Min(removed)}
  /\ UNCHANGED <<inHand, seat, handVars, book, balance, opened, unbooked>>

\* addChips by the owner: to the balance of a player first, then on the table.
AddChips(s) ==
  /\ seat[s].here /\ seat[s].pendingRemoval = "no"
  /\ IF IsUser(s) THEN balance[seat[s].who] >= RebuySize ELSE AllChips + RebuySize <= MaxChips
  /\ book' = BuyIn(book, seat[s].who, RebuySize)
  /\ balance' = Credit(balance, s, -RebuySize)
  /\ LET waits == IsInCurrentHand(s) /\ seat[s].status # "folded"
         back == seat[s].status = "sitting-out"
     IN
     /\ seat' = [seat EXCEPT ![s] =
          [seat[s] EXCEPT
                    !.sitsOut = FALSE,
                    !.pendingChips = IF waits THEN @ + RebuySize ELSE @,
                    !.stack = IF waits THEN @ ELSE @ + RebuySize,
                    !.joinsNextHand = @ \/ (back /\ inHand),
                    !.status = IF back /\ ~inHand THEN "active" ELSE @]]
     /\ handChipAdds' =
          IF inHand /\ ~waits THEN [handChipAdds EXCEPT ![s] = @ + RebuySize] ELSE handChipAdds
  /\ UNCHANGED <<inHand, removed, dealt, bigBlind, anteTotal, handLeavers, opened, unbooked>>

SitOut(s) ==
  /\ IsUser(s)
  /\ seat' = [seat EXCEPT ![s].sitsOut = TRUE,
                          ![s].status = IF @ = "active" /\ ~inHand THEN "sitting-out" ELSE @]
  /\ UNCHANGED <<inHand, removed, handVars, book, balance, opened, unbooked>>

\* Mutant: back at once, in the middle of a hand.
SitInNow(s) ==
  /\ IsUser(s)
  /\ seat' = [seat EXCEPT ![s].sitsOut = FALSE,
                          ![s].status = IF @ = "sitting-out" THEN "active" ELSE @]
  /\ UNCHANGED <<inHand, removed, handVars, book, balance, opened, unbooked>>
SitIn(s) ==
  /\ IsUser(s)
  /\ LET back == seat[s].status = "sitting-out" IN
     seat' = [seat EXCEPT ![s].sitsOut = FALSE,
                          ![s].sitsIn = @ \/ (back /\ inHand),
                          ![s].status = IF back /\ ~inHand THEN "active" ELSE @]
  /\ UNCHANGED <<inHand, removed, handVars, book, balance, opened, unbooked>>

(***************************************************************************)
(* Changing seats (moveSeat, moveBot): after the hand for who is in it.    *)
(***************************************************************************)
\* Mutant: the wish to sit out stays at the old seat.
MovedWithoutWish(at, from, to) ==
  [at EXCEPT ![to] = [at[from] EXCEPT !.pendingMoveTo = NoSeat, !.sitsOut = FALSE],
             ![from] = [Empty EXCEPT !.sitsOut = at[from].sitsOut]]
Moved(at, from, to) ==
  [at EXCEPT ![to] = [at[from] EXCEPT !.pendingMoveTo = NoSeat], ![from] = Empty]

ChipAddsMove(from, to) ==
  handChipAdds' = [handChipAdds EXCEPT ![from] = 0,
                     ![to] = IF handChipAdds[from] > 0 THEN handChipAdds[from] ELSE @]

ChangeSeat(from, to) ==
  /\ seat[from].here /\ seat[from].pendingRemoval = "no"
  /\ from # to /\ Usable(to, seat, removed)
  /\ IF IsInCurrentHand(from)
     THEN seat' = [seat EXCEPT ![from].pendingMoveTo = to] /\ UNCHANGED handChipAdds
     ELSE seat' = Moved(seat, from, to) /\ ChipAddsMove(from, to)
  /\ UNCHANGED <<inHand, removed, dealt, bigBlind, anteTotal, handLeavers, book, balance,
                 opened, unbooked>>

(***************************************************************************)
(* Dealing a hand (start-hand: prepareNextOrbit, startNextHand).           *)
(***************************************************************************)
CanStartHand(at) ==
  /\ ~inHand
  /\ \E s \in Seats : at[s].here /\ at[s].who \in Users
  /\ Cardinality({s \in Seats : at[s].status \in Playing /\ at[s].stack > 0}) >= 2

\* applyPendingSitOuts, and busted players sat out.
SitsOutNext(p) ==
  \/ p.status = "sitting-out" /\ ~(p.sitsIn /\ ~p.sitsOut /\ p.stack > 0)
  \/ p.status \in Playing /\ p.sitsOut
  \/ p.status = "active" /\ p.stack = 0
Prepared(p) ==
  [p EXCEPT !.sitsIn = FALSE,
            !.status = IF SitsOutNext(p) THEN "sitting-out"
                       ELSE IF p.status = "sitting-out" THEN "active" ELSE @]

\* resetSeatForNewHand
ForNewHand(p) ==
  [p EXCEPT !.status = IF @ \in {"folded", "all-in"}
                       THEN IF p.stack > 0 THEN "active" ELSE "sitting-out" ELSE @]

PutIn(p, amount) ==
  [p EXCEPT !.stack = @ - amount, !.status = IF p.stack = amount THEN "all-in" ELSE @]

\* Every way the middle can go to those still in the hand.
Contending(at) == {s \in Seats : at[s].status \in {"active", "all-in"}}
Middle(at) == SumOver(Seats, LAMBDA s : at[s].bet)
Awards(at, middle) ==
  {won \in [Contending(at) -> 0 .. middle] :
     SumOver(Contending(at), LAMBDA s : won[s]) = middle}
Awarded(at, won) ==
  [s \in Seats |-> [at[s] EXCEPT !.bet = 0,
                                 !.stack = @ + IF s \in DOMAIN won THEN won[s] ELSE 0]]

Deal(at) ==
  LET ring == {s \in Seats : at[s].status = "active" /\ at[s].stack > 0} IN
  \E bb \in ring :
    LET ante == Min({Ante, at[bb].stack})
        blind == Min({1, at[bb].stack - ante})
        posted == [at EXCEPT ![bb] = [PutIn(at[bb], ante + blind) EXCEPT !.bet = blind]]
    IN
    /\ bigBlind' = bb
    /\ handChipAdds' = NothingAdded /\ handLeavers' = NobodyLeft
    /\ \/ /\ inHand' = TRUE
          /\ seat' = posted /\ anteTotal' = ante
          /\ dealt' = [s \in Seats |-> [who |-> seat[s].who, stack |-> seat[s].stack]]
          /\ UNCHANGED unbooked
       \* over already, and neither booked nor cleared up after
       \/ /\ DealMayEndHand
          /\ \E won \in Awards(posted, ante + blind) : seat' = Awarded(posted, won)
          /\ anteTotal' = 0 /\ dealt' = NobodyDealt
          /\ unbooked' = unbooked \cup {at[s].who : s \in ring}
          /\ UNCHANGED inHand

StartHand ==
  /\ CanStartHand(seat)
  /\ LET prepared == [s \in Seats |-> Prepared(seat[s])] IN
     IF CanStartHand(prepared)
     THEN Deal([s \in Seats |-> ForNewHand(prepared[s])])
     ELSE seat' = prepared /\ UNCHANGED <<inHand, handVars, unbooked>>
  /\ UNCHANGED <<removed, book, balance, opened>>

(***************************************************************************)
(* The end of a hand (applyPlayerAction): booked first, then everything    *)
(* that had to wait for it.                                                *)
(***************************************************************************)
\* bookHand: how each player dealt in came out of the hand.
Left(s) == handLeavers[s].key = dealt[s].who
PlayedHand(s, fin) ==
  /\ dealt[s].who # Nobody
  /\ Left(s) \/ (fin[s].who = dealt[s].who /\ fin[s].status \in Playing)
\* Mutant: chips added during the hand are won in it.
ResultWithAdds(s, fin) ==
  (IF Left(s) THEN handLeavers[s].stack ELSE fin[s].stack) - dealt[s].stack
ResultOf(s, fin) ==
  (IF Left(s) THEN handLeavers[s].stack ELSE fin[s].stack)
    - handChipAdds[s] - dealt[s].stack

Results(fin) ==
  LET played == {s \in Seats : PlayedHand(s, fin)} IN
  [k \in {dealt[s].who : s \in played} |->
     ResultOf(Max({s \in played : dealt[s].who = k}), fin)]

\* applyHandEndChanges, seat by seat: removals, chips, newcomers ...
Settled(p) ==
  IF p.pendingRemoval # "no" THEN Empty
  ELSE [p EXCEPT !.stack = @ + p.pendingChips, !.pendingChips = 0, !.joinsNextHand = FALSE,
                 !.status = IF p.joinsNextHand /\ @ = "sitting-out" /\ ~p.sitsOut
                                /\ p.stack + p.pendingChips > 0
                            THEN "active" ELSE @]

\* Mutant: a move is forgotten when somebody else is removed.
MovesUnlessRemovals(at, gone) ==
  {s \in Seats : /\ gone = removed
                 /\ at[s].pendingMoveTo # NoSeat /\ at[s].here
                 /\ at[at[s].pendingMoveTo].status = "empty"
                 /\ at[s].pendingMoveTo \notin gone}
\* ... and then the moves: each to the seat held for it, unless that was deleted.
Moves(at, gone) ==
  {s \in Seats : /\ at[s].pendingMoveTo # NoSeat /\ at[s].here
                 /\ Usable(at[s].pendingMoveTo, [at EXCEPT ![s].pendingMoveTo = NoSeat], gone)}

AfterMoves(at, gone) ==
  LET movers == Moves(at, gone)
      targets == {at[m].pendingMoveTo : m \in movers}
  IN  [s \in Seats |->
         IF s \in targets
         THEN [at[CHOOSE m \in movers : at[m].pendingMoveTo = s] EXCEPT !.pendingMoveTo = NoSeat]
         ELSE IF s \in movers THEN Empty ELSE [at[s] EXCEPT !.pendingMoveTo = NoSeat]]

LeavingNow(fin) == {s \in Seats : fin[s].pendingRemoval # "no" /\ fin[s].here}
\* Mutant: chips still to come are not paid out.
OwedWithoutPending(p) == p.stack
Owed(p) == p.stack + p.pendingChips

HandOver(fin) ==
  LET booked == RecordHand(book, Results(fin))
      PaidOut(k) == SumOver({s \in LeavingNow(fin) : fin[s].who = k}, LAMBDA s : Owed(fin[s]))
      deleted == {s \in Seats : fin[s].pendingRemoval = "seat"}
      settled == [s \in Seats |-> Settled(fin[s])]
  IN
  /\ inHand' = FALSE
  /\ removed' = removed \cup deleted
  /\ seat' = AfterMoves(settled, removed')
  /\ book' = [k \in Keys |-> CashOut(booked, k, PaidOut(k))[k]]
  /\ balance' = [u \in Users |-> balance[u] + PaidOut(u)]
  /\ dealt' = NobodyDealt /\ anteTotal' = 0
  /\ handChipAdds' = NothingAdded /\ handLeavers' = NobodyLeft
  /\ UNCHANGED <<bigBlind, opened, unbooked>>

\* A player's turn: a check, a chip more, or a fold (their own, or because
\* the clock ran out or they are being removed).
Turns(p) ==
  {p, [p EXCEPT !.status = "folded"], [PutIn(p, 1) EXCEPT !.bet = p.bet + 1]}

Act(s) ==
  /\ inHand /\ seat[s].status = "active"
  /\ \E p \in Turns(seat[s]) :
       LET after == [seat EXCEPT ![s] = p] IN
       \/ /\ Cardinality(Contending(after)) > 1
          /\ \E t \in Seats : after[t].status = "active"
          /\ seat' = after
          /\ UNCHANGED <<inHand, removed, handVars, book, balance, opened, unbooked>>
       \/ \E won \in Awards(after, Middle(after) + anteTotal) : HandOver(Awarded(after, won))

(***************************************************************************)
(* resetTable: a hand being played is void, everybody is paid, and a new   *)
(* game with a new book begins.                                            *)
(***************************************************************************)
Refunds(u) == SumOver({s \in SeatsOf(u) : seat[s].here}, VoidedHandRefund)

\* A seat that is out of the hand and whose bets of the hand are still in the middle.
LeftBetsBehind(s) == inHand /\ ~seat[s].here /\ VoidedHandRefund(s) > 0

ResetTable ==
  /\ inHand' = FALSE
  /\ balance' = [u \in Users |-> balance[u] + Refunds(u)]
  /\ opened' = balance'
  /\ seat' = [s \in Seats |-> Empty]
  /\ book' = NoEntries(Keys) /\ unbooked' = {}
  /\ dealt' = NobodyDealt /\ bigBlind' = NoSeat /\ anteTotal' = 0
  /\ handChipAdds' = NothingAdded /\ handLeavers' = NobodyLeft
  /\ UNCHANGED removed

\* What the players and the owner ask for, in a hand or between two.
Request(s) ==
  \/ \E u \in Users : TakeSeat(u, s)
  \/ AddBot(s) \/ LeaveSeat(s) \/ RemovePlayer(s) \/ DeleteSeat(s)
  \/ AddChips(s) \/ SitOut(s) \/ SitIn(s)
  \/ \E t \in Seats : ChangeSeat(s, t)

Next ==
  /\ game <= MaxGames
  /\ \/ /\ requests < MaxRequests
        /\ AddSeat \/ \E s \in Seats : Request(s)
        /\ requests' = requests + 1
        /\ UNCHANGED <<handNumber, game>>
     \/ /\ handNumber < MaxHands
        /\ StartHand
        /\ handNumber' = handNumber + 1
        /\ UNCHANGED <<requests, game>>
     \/ (\E s \in Seats : Act(s)) /\ UNCHANGED <<requests, handNumber, game>>
     \/ ResetTable /\ requests' = 0 /\ handNumber' = 0 /\ game' = game + 1

Spec == Init /\ [][Next]_vars

(***************************************************************************)
(* Properties.                                                             *)
(***************************************************************************)
Place ==
  [who : Keys \cup {Nobody}, status : {"empty", "active", "all-in", "folded", "sitting-out"},
   stack : Nat, bet : Nat, here : BOOLEAN, pendingChips : Nat,
   pendingRemoval : {"no", "player", "seat"}, pendingMoveTo : Seats \cup {NoSeat},
   joinsNextHand : BOOLEAN, sitsOut : BOOLEAN, sitsIn : BOOLEAN]

\* Every seat, the snapshot of the hand and the balances are what they should
\* be; nobody owes chips, and an empty seat holds nothing that waits.
TypeOK ==
  /\ inHand \in BOOLEAN
  /\ seat \in [Seats -> Place]
  /\ \A s \in Seats : seat[s].status = "empty" => seat[s] = Empty
  /\ removed \subseteq Seats
  /\ dealt \in [Seats -> [who : Keys \cup {Nobody}, stack : Nat]]
  /\ bigBlind \in Seats \cup {NoSeat} /\ anteTotal \in Nat
  /\ handChipAdds \in [Seats -> Nat]
  /\ handLeavers \in [Seats -> [key : Keys \cup {Nobody}, stack : Nat]]
  /\ book \in [Keys -> [chips : Int, net : Int]]
  /\ balance \in [Users -> Nat] /\ opened \in [Users -> Nat]
  /\ unbooked \subseteq Keys
  /\ requests \in Nat /\ handNumber \in Nat /\ game \in Nat

ChipsHeldBy(k) == SumOver({s \in SeatsOf(k) : seat[s].here}, CashOutAmount)

\* Between hands the book knows what everybody has on the table, however they
\* came by it: seated in the middle of a hand, with chips added during it,
\* after a move, or having left a hand they had folded and come back
\* (reconcileBook would not report a mismatch).  And at every moment the chips
\* of the book are the chips of the table, those in the middle included.
BookAgrees ==
  /\ ~inHand => Mismatched(book, [k \in Keys |-> ChipsHeldBy(k)]) \subseteq unbooked
  /\ unbooked = {} => SumOver(Keys, LAMBDA k : book[k].chips) = TableChips

\* What the book says a player has won or lost is what the game has done to
\* their balance and their chips on the table.
NetIsReal ==
  ~inHand => \A u \in Users \ unbooked :
               balance[u] + ChipsHeldBy(u) = opened[u] + book[u].net

\* Nobody takes part in a hand they were not dealt into: whoever takes a seat,
\* comes back from sitting out or is given chips during a hand waits for the
\* next one, and the seats of the hand keep their players to its end.
OnlyDealtInPlay ==
  inHand => \A s \in Seats :
              seat[s].status \in Playing =>
                /\ seat[s].who = dealt[s].who /\ dealt[s].stack > 0
                /\ dealt[s].who # Nobody

\* A seat that somebody in the hand is to move to stays free for them alone.
HeldSeatStaysFree ==
  \A s, t \in Seats :
    seat[s].pendingMoveTo = t =>
      /\ seat[t].status = "empty"
      /\ \A r \in Seats : seat[r].pendingMoveTo = t => r = s

NothingWaits ==
  \A s \in Seats :
    /\ seat[s].pendingRemoval = "no" /\ seat[s].pendingChips = 0
    /\ seat[s].pendingMoveTo = NoSeat /\ ~seat[s].joinsNextHand

\* What was put off to the end of a hand is done when it ends, all of it, and
\* one does not get in the way of the other: nothing waits any more, who was
\* removed is gone, and who asked for another seat is in it, unless they were
\* removed or the seat was deleted -- never in two seats, never in none.
PutOffIsDone ==
  [][inHand /\ ~inHand' /\ game' = game =>
       /\ NothingWaits'
       /\ \A s \in Seats :
            seat[s].pendingRemoval # "no" => seat'[s].who # seat[s].who
       /\ \A s, t \in Seats :
            (seat[s].pendingMoveTo = t /\ seat[s].pendingRemoval = "no") =>
              IF t \in removed' THEN seat'[s].who = seat[s].who /\ seat'[t].who = Nobody
              ELSE seat'[t].who = seat[s].who /\ seat'[s].who # seat[s].who]_vars

\* When a game is closed every player has been paid what its book says: a hand
\* cut short costs nobody anything.  (Except who had folded it and left, below.)
ClosedGameIsPaid ==
  [][ResetTable =>
       \A u \in Users \ unbooked :
         (\A s \in SeatsOf(u) : ~LeftBetsBehind(s)) =>
           balance'[u] = opened[u] + book[u].net]_vars

\* The same of every player: "every chip bet in it was returned" (the line
\* closeBook writes into the book about the hand).  It does not hold.
EveryBetReturned ==
  [][ResetTable => \A u \in Users \ unbooked : balance'[u] = opened[u] + book[u].net]_vars

\* "Results always sum to zero" (bookHand).  It does not hold.
ResultsSumToZero == SumOver(Keys, LAMBDA k : book[k].net) = 0

\* The payments a report proposes leave nobody owing or owed anything, only who
\* lost pays and only who won is paid, and there are fewer of them than players.
SettlementClears ==
  ~inHand /\ unbooked = {} =>
    LET nets == [k \in Keys |-> book[k].net]
        payments == Payments(nets)
    IN
    /\ Cleared(AfterPayments(nets)[Cardinality(Keys) - 1])
    /\ \A n \in DOMAIN payments :
         /\ payments[n].amount > 0
         /\ nets[payments[n].from] < 0 /\ nets[payments[n].to] > 0
=============================================================================

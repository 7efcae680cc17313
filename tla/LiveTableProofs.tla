--------------------------- MODULE LiveTableProofs ---------------------------
(***************************************************************************)
(* LiveTable for any number of seats and players, any stacks, and whatever *)
(* is asked for in whatever order.                                         *)
(*                                                                         *)
(* IInv is about who takes part in a hand and who a seat is held for; it   *)
(* does not need the rest.  Good adds to it what the seats are between     *)
(* hands and in one (Sound) and what the book knows of each of them        *)
(* (Books).  Most requests are about one seat, and OneSeatStaysSound and   *)
(* OneSeatStaysBooked say what one seat has to see to; a move, the deal    *)
(* and the end of a hand are about several and have lemmas of their own.   *)
(***************************************************************************)
EXTENDS LiveTable, SumsProofs

Placed == seat \in [Seats -> Place]

\* A seat that is not empty is somebody's.
Occupied == \A s \in Seats : seat[s].status # "empty" => seat[s].who \in Keys

\* Who is to act in a hand has chips to act with.
ActiveHasChips == inHand => \A s \in Seats : seat[s].status = "active" => seat[s].stack > 0

IInv == Placed /\ Occupied /\ ActiveHasChips /\ OnlyDealtInPlay /\ HeldSeatStaysFree

-----------------------------------------------------------------------------
LEMMA MinOfTwo ==
  ASSUME NEW a \in Int, NEW b \in Int
  PROVE  Min({a, b}) = IF a <= b THEN a ELSE b
<1>. DEFINE least == IF a <= b THEN a ELSE b
            IsMin(x) == x \in {a, b} /\ \A y \in {a, b} : x <= y
<1>1. IsMin(least)
  OBVIOUS
<1>2. \A x : IsMin(x) => x = least
  OBVIOUS
<1>3. Min({a, b}) = CHOOSE x \in {a, b} : \A y \in {a, b} : x <= y
  BY DEF Min
<1>. QED
  BY <1>1, <1>2, <1>3

LEMMA EmptyIsPlace == Empty \in Place /\ Empty.status = "empty" /\ Empty.pendingMoveTo = NoSeat
BY DEF Empty, Place

\* No seat is the seat nobody is to move to.
LEMMA NoSeatIsNone == NoSeat \notin Seats
BY TableAssumption

\* One seat gets a new record: nobody enters a hand by that, and nobody sits
\* down in a seat that is held, or has a seat held that is not free.
LEMMA OneSeatChanges ==
  ASSUME IInv, NEW s \in Seats, NEW r \in Place,
         seat' = [seat EXCEPT ![s] = r], inHand' = inHand, dealt' = dealt,
         r.status # "empty" => r.who \in Keys,
         inHand /\ r.status \in Playing => seat[s].status \in Playing /\ r.who = seat[s].who,
         inHand /\ r.status = "active" => r.stack > 0,
         r.status # "empty" =>
           seat[s].status # "empty" \/ \A t \in Seats : seat[t].pendingMoveTo # s,
         r.pendingMoveTo \in {NoSeat, seat[s].pendingMoveTo}
           \/ /\ seat[r.pendingMoveTo].status = "empty" /\ r.pendingMoveTo # s
              /\ \A t \in Seats : seat[t].pendingMoveTo # r.pendingMoveTo
  PROVE  IInv'
<1>1. seat'[s] = r /\ \A t \in Seats \ {s} : seat'[t] = seat[t]
  BY DEF IInv, Placed
<1>2. Placed'
  BY DEF IInv, Placed
<1>3. Occupied' /\ ActiveHasChips'
  BY <1>1 DEF IInv, Occupied, ActiveHasChips
<1>4. OnlyDealtInPlay'
  BY <1>1 DEF IInv, OnlyDealtInPlay
<1>5. HeldSeatStaysFree'
  <2>. SUFFICES ASSUME NEW x \in Seats, NEW t \in Seats, seat'[x].pendingMoveTo = t
                PROVE  /\ seat'[t].status = "empty"
                       /\ \A y \in Seats : seat'[y].pendingMoveTo = t => y = x
    BY DEF HeldSeatStaysFree
  <2>1. CASE \E z \in Seats : seat[z].pendingMoveTo = t
    <3>1. PICK z \in Seats : seat[z].pendingMoveTo = t
      BY <2>1
    <3>2. seat[t].status = "empty" /\ \A y \in Seats : seat[y].pendingMoveTo = t => y = z
      BY <3>1 DEF IInv, HeldSeatStaysFree
    <3>3. \A y \in Seats : seat'[y].pendingMoveTo = t => y = z
      BY <1>1, <3>1, <3>2, NoSeatIsNone
    <3>4. seat'[t].status = "empty"
      BY <1>1, <3>1, <3>2
    <3>. QED
      BY <3>3, <3>4
  <2>2. CASE ~\E z \in Seats : seat[z].pendingMoveTo = t
    BY <1>1, <2>2, NoSeatIsNone
  <2>. QED
    BY <2>1, <2>2
<1>. QED
  BY <1>2, <1>3, <1>4, <1>5 DEF IInv

\* A seat is emptied that nobody in the hand sits in.
LEMMA SeatIsEmptied ==
  ASSUME IInv, NEW s \in Seats, seat' = [seat EXCEPT ![s] = Empty],
         inHand' = inHand, dealt' = dealt
  PROVE  IInv'
<1>1. Empty.status \notin Playing /\ Empty.status # "active"
  BY EmptyIsPlace DEF Playing
<1>. QED
  BY <1>1, EmptyIsPlace, OneSeatChanges

\* Seats that are held stay so while no empty seat is filled and no seat is asked for.
LEMMA HeldAsBefore ==
  ASSUME HeldSeatStaysFree,
         \A s \in Seats : seat[s].status = "empty" => seat'[s].status = "empty",
         \A s \in Seats : seat'[s].pendingMoveTo \in {NoSeat, seat[s].pendingMoveTo}
  PROVE  HeldSeatStaysFree'
<1>1. \A s, t \in Seats : seat'[s].pendingMoveTo = t => seat[s].pendingMoveTo = t
  BY NoSeatIsNone
<1>. QED
  BY <1>1 DEF HeldSeatStaysFree

LEMMA IInvInit == Init => IInv
<1>. SUFFICES ASSUME Init PROVE IInv
  OBVIOUS
<1>1. \A s \in Seats : seat[s] = Empty
  BY DEF Init
<1>2. Placed
  BY EmptyIsPlace DEF Init, Placed
<1>. QED
  BY <1>1, <1>2, EmptyIsPlace, NoSeatIsNone
     DEF Init, IInv, Occupied, ActiveHasChips, OnlyDealtInPlay, HeldSeatStaysFree

-----------------------------------------------------------------------------
\* Coming and going.
LEMMA NewcomerIsPlace ==
  ASSUME NEW k \in Keys, inHand \in BOOLEAN
  PROVE  /\ Newcomer(k, BuyInSize) \in Place
         /\ Newcomer(k, BuyInSize).who = k
         /\ Newcomer(k, BuyInSize).pendingMoveTo = NoSeat
         /\ inHand => Newcomer(k, BuyInSize).status = "sitting-out"
BY TableAssumption DEF Newcomer, NewlySeatedStatus, Empty, Place

LEMMA SeatIsTaken ==
  ASSUME IInv, inHand \in BOOLEAN, NEW s \in Seats, NEW k \in Keys, Usable(s, seat, removed),
         seat' = [seat EXCEPT ![s] = Newcomer(k, BuyInSize)], inHand' = inHand, dealt' = dealt
  PROVE  IInv'
<1>1. \A t \in Seats : seat[t].pendingMoveTo # s
  BY DEF Usable
<1>2. "sitting-out" \notin Playing
  BY DEF Playing
<1>. QED
  BY <1>1, <1>2, NewcomerIsPlace, OneSeatChanges

LEMMA LeaveSeatKeeps ==
  ASSUME IInv, NEW s \in Seats, LeaveSeat(s)
  PROVE  IInv'
<1>1. seat[s] \in Place /\ seat[s].who \in Users
  BY DEF IInv, Placed, LeaveSeat, IsUser
<1>2. inHand' = inHand /\ dealt' = dealt
  BY DEF LeaveSeat
<1>3. CASE IsInCurrentHand(s)
  <2>1. seat' = [seat EXCEPT ![s] = LeaveFolded(s)]
    BY <1>3 DEF LeaveSeat
  <2>2. /\ LeaveFolded(s) \in Place
        /\ LeaveFolded(s).who = seat[s].who /\ LeaveFolded(s).status = seat[s].status
        /\ LeaveFolded(s).pendingMoveTo = NoSeat
    BY <1>1 DEF LeaveFolded, Empty, Place
  <2>3. seat[s].status \in Playing \ {"active", "all-in"} /\ seat[s].who \in Keys
    BY <1>1, <1>3 DEF LeaveSeat, IsInCurrentHand, Keys
  <2>. QED
    BY <1>2, <2>1, <2>2, <2>3, OneSeatChanges DEF Playing
<1>4. CASE ~IsInCurrentHand(s)
  BY <1>2, <1>4, SeatIsEmptied DEF LeaveSeat
<1>. QED
  BY <1>3, <1>4

LEMMA RemoveAfterHandKeeps ==
  ASSUME IInv, NEW s \in Seats, NEW gone \in BOOLEAN, RemoveAfterHand(s, gone)
  PROVE  IInv'
<1>. DEFINE r == [seat[s] EXCEPT !.pendingRemoval = IF gone THEN "seat" ELSE "player",
                                 !.sitsOut = TRUE]
<1>1. seat[s] \in Place
  BY DEF IInv, Placed
<1>2. seat' = [seat EXCEPT ![s] = r]
  BY <1>1 DEF RemoveAfterHand, IInv, Placed, Place
<1>3. /\ r \in Place /\ r.who = seat[s].who /\ r.status = seat[s].status
      /\ r.stack = seat[s].stack /\ r.pendingMoveTo = seat[s].pendingMoveTo
  BY <1>1 DEF Place
<1>4. inHand' = inHand /\ dealt' = dealt
  BY DEF RemoveAfterHand, handVars
<1>. QED
  BY <1>2, <1>3, <1>4, OneSeatChanges DEF IInv, Occupied, ActiveHasChips

LEMMA RemovalKeeps ==
  ASSUME IInv, NEW s \in Seats, RemovePlayer(s) \/ DeleteSeat(s)
  PROVE  IInv'
<1>1. ASSUME NEW gone \in BOOLEAN, RemoveNow(s, gone) PROVE IInv'
  BY <1>1, SeatIsEmptied DEF RemoveNow, handVars
<1>2. ASSUME NEW gone \in BOOLEAN, RemoveAfterHand(s, gone) PROVE IInv'
  BY <1>2, RemoveAfterHandKeeps
<1>3. CASE RemoveEmpty(s)
  BY <1>3 DEF RemoveEmpty, handVars, IInv, Placed, Occupied, ActiveHasChips, OnlyDealtInPlay,
              HeldSeatStaysFree
<1>. QED
  BY <1>1, <1>2, <1>3 DEF RemovePlayer, DeleteSeat

-----------------------------------------------------------------------------
\* Chips, sitting out and in, and another seat.
LEMMA AddChipsKeeps ==
  ASSUME IInv, NEW s \in Seats, AddChips(s)
  PROVE  IInv'
<1>. DEFINE p == seat[s]
            waits == IsInCurrentHand(s) /\ p.status # "folded"
            back == p.status = "sitting-out"
            r == [p EXCEPT !.sitsOut = FALSE,
                           !.pendingChips = IF waits THEN @ + RebuySize ELSE @,
                           !.stack = IF waits THEN @ ELSE @ + RebuySize,
                           !.joinsNextHand = @ \/ (back /\ inHand),
                           !.status = IF back /\ ~inHand THEN "active" ELSE @]
<1>1. p \in Place
  BY DEF IInv, Placed
<1>2. seat' = [seat EXCEPT ![s] = r]
  BY DEF AddChips
<1>3. r.status = (IF back /\ ~inHand THEN "active" ELSE p.status)
  BY <1>1 DEF Place
<1>4. /\ r.who = p.who /\ r.pendingMoveTo = p.pendingMoveTo
      /\ r.stack = IF waits THEN p.stack ELSE p.stack + RebuySize
  BY <1>1 DEF Place
<1>5. r \in Place
  <2>1. /\ (IF waits THEN p.pendingChips + RebuySize ELSE p.pendingChips) \in Nat
        /\ (IF waits THEN p.stack ELSE p.stack + RebuySize) \in Nat
        /\ (p.joinsNextHand \/ (back /\ inHand)) \in BOOLEAN
        /\ (IF back /\ ~inHand THEN "active" ELSE p.status) \in {"empty", "active", "all-in", "folded", "sitting-out"}
    BY <1>1, TableAssumption DEF Place
  <2>. QED
    BY <1>1, <2>1 DEF Place
<1>6. inHand' = inHand /\ dealt' = dealt
  BY DEF AddChips
<1>7. inHand /\ r.status = "active" => r.stack > 0
  BY <1>1, <1>3, <1>4, TableAssumption DEF IInv, ActiveHasChips, Place
<1>8. r.status # "empty" => p.status # "empty"
  BY <1>3
<1>. QED
  BY <1>2, <1>3, <1>4, <1>5, <1>6, <1>7, <1>8, OneSeatChanges DEF IInv, Occupied

LEMMA SitOutKeeps ==
  ASSUME IInv, NEW s \in Seats, SitOut(s)
  PROVE  IInv'
<1>. DEFINE r == [seat[s] EXCEPT !.sitsOut = TRUE,
                                 !.status = IF @ = "active" /\ ~inHand THEN "sitting-out" ELSE @]
<1>1. seat[s] \in Place
  BY DEF IInv, Placed
<1>2. seat' = [seat EXCEPT ![s] = r]
  BY <1>1 DEF SitOut, IInv, Placed, Place
<1>3. /\ r \in Place /\ r.who = seat[s].who /\ r.stack = seat[s].stack
      /\ r.pendingMoveTo = seat[s].pendingMoveTo
      /\ r.status = IF seat[s].status = "active" /\ ~inHand THEN "sitting-out" ELSE seat[s].status
  BY <1>1 DEF Place
<1>4. inHand' = inHand /\ dealt' = dealt
  BY DEF SitOut, handVars
<1>. QED
  BY <1>2, <1>3, <1>4, OneSeatChanges DEF IInv, Occupied, ActiveHasChips

LEMMA SitInKeeps ==
  ASSUME IInv, NEW s \in Seats, SitIn(s)
  PROVE  IInv'
<1>. DEFINE back == seat[s].status = "sitting-out"
            r == [seat[s] EXCEPT !.sitsOut = FALSE, !.sitsIn = @ \/ (back /\ inHand),
                                 !.status = IF back /\ ~inHand THEN "active" ELSE @]
<1>1. seat[s] \in Place
  BY DEF IInv, Placed
<1>2. seat' = [seat EXCEPT ![s] = r]
  BY <1>1 DEF SitIn, IInv, Placed, Place
<1>3. /\ r.who = seat[s].who /\ r.stack = seat[s].stack
      /\ r.pendingMoveTo = seat[s].pendingMoveTo
      /\ r.status = IF back /\ ~inHand THEN "active" ELSE seat[s].status
  BY <1>1 DEF Place
<1>4. r \in Place
  BY <1>1 DEF Place
<1>5. inHand' = inHand /\ dealt' = dealt
  BY DEF SitIn, handVars
<1>. QED
  BY <1>2, <1>3, <1>4, <1>5, OneSeatChanges DEF IInv, Occupied, ActiveHasChips

\* A move at once: the player is not in the hand, so neither seat is.
LEMMA ChangeSeatKeeps ==
  ASSUME IInv, NEW from \in Seats, NEW to \in Seats, ChangeSeat(from, to)
  PROVE  IInv'
<1>1. seat[from] \in Place /\ seat[to] \in Place
  BY DEF IInv, Placed
<1>2. /\ inHand' = inHand /\ dealt' = dealt /\ from # to
      /\ seat[to].status = "empty" /\ \A t \in Seats : seat[t].pendingMoveTo # to
  BY DEF ChangeSeat, Usable
<1>3. CASE IsInCurrentHand(from)
  <2>. DEFINE r == [seat[from] EXCEPT !.pendingMoveTo = to]
  <2>1. seat' = [seat EXCEPT ![from] = r]
    BY <1>1, <1>3 DEF ChangeSeat, IInv, Placed, Place
  <2>2. /\ r \in Place /\ r.who = seat[from].who /\ r.status = seat[from].status
        /\ r.stack = seat[from].stack /\ r.pendingMoveTo = to
    BY <1>1 DEF Place
  <2>3. seat[from].status # "empty"
    BY <1>3 DEF IsInCurrentHand, Playing
  <2>. QED
    BY <1>2, <2>1, <2>2, <2>3, OneSeatChanges DEF IInv, Occupied, ActiveHasChips
<1>4. CASE ~IsInCurrentHand(from)
  <2>. DEFINE r == [seat[from] EXCEPT !.pendingMoveTo = NoSeat]
  <2>1. seat' = [seat EXCEPT ![to] = r, ![from] = Empty]
    BY <1>4 DEF ChangeSeat, Moved
  <2>2. /\ r \in Place /\ r.who = seat[from].who /\ r.status = seat[from].status
        /\ r.pendingMoveTo = NoSeat
    BY <1>1 DEF Place
  <2>3. /\ seat'[to] = r /\ seat'[from] = Empty
        /\ \A t \in Seats \ {from, to} : seat'[t] = seat[t]
    BY <1>2, <2>1 DEF IInv, Placed
  <2>4. Placed'
    BY <2>1, <2>2, EmptyIsPlace DEF IInv, Placed
  <2>5. Occupied'
    BY <2>2, <2>3, EmptyIsPlace DEF IInv, Occupied
  <2>6. inHand => seat[from].status \notin Playing
    BY <1>4 DEF IsInCurrentHand
  <2>7. ActiveHasChips' /\ OnlyDealtInPlay'
    <3>1. "active" \in Playing /\ "empty" \notin Playing
      BY DEF Playing
    <3>2. \A t \in Seats : inHand /\ seat'[t].status \in Playing => seat'[t] = seat[t]
      BY <2>2, <2>3, <2>6, <3>1, EmptyIsPlace
    <3>. QED
      BY <1>2, <3>1, <3>2 DEF IInv, ActiveHasChips, OnlyDealtInPlay
  <2>8. \A x, t \in Seats : seat'[x].pendingMoveTo = t =>
          x \notin {from, to} /\ t # to /\ seat[x].pendingMoveTo = t
    BY <1>2, <2>2, <2>3, EmptyIsPlace, NoSeatIsNone
  <2>9. \A t \in Seats \ {to} : seat[t].status = "empty" => seat'[t].status = "empty"
    BY <2>3, EmptyIsPlace
  <2>10. HeldSeatStaysFree'
    BY <2>8, <2>9 DEF IInv, HeldSeatStaysFree
  <2>. QED
    BY <2>4, <2>5, <2>7, <2>10 DEF IInv
<1>. QED
  BY <1>3, <1>4

-----------------------------------------------------------------------------
\* The deal.  Whoever plays has chips, sat there before, and nobody is moved.
ReadyToPlay(q, p) ==
  /\ q \in Place
  /\ q.who = p.who /\ q.stack = p.stack /\ q.pendingMoveTo = p.pendingMoveTo
  /\ q.status = "empty" <=> p.status = "empty"
  /\ q.status \in Playing => q.status = "active" /\ q.stack > 0

LEMMA PreparedIsPlace ==
  ASSUME NEW p \in Place
  PROVE  /\ Prepared(p) \in Place
         /\ Prepared(p).who = p.who /\ Prepared(p).stack = p.stack
         /\ Prepared(p).pendingMoveTo = p.pendingMoveTo
         /\ Prepared(p).status = "empty" <=> p.status = "empty"
         /\ Prepared(p).status = "active" => p.stack > 0
<1>1. Prepared(p).status = IF SitsOutNext(p) THEN "sitting-out"
                           ELSE IF p.status = "sitting-out" THEN "active" ELSE p.status
  BY DEF Prepared, Place
<1>2. /\ Prepared(p) \in Place
      /\ Prepared(p).who = p.who /\ Prepared(p).stack = p.stack
      /\ Prepared(p).pendingMoveTo = p.pendingMoveTo
  BY DEF Prepared, Place
<1>3. p.status = "empty" => ~SitsOutNext(p)
  BY DEF SitsOutNext, Playing
<1>4. p.status \in {"sitting-out", "active"} /\ ~SitsOutNext(p) => p.stack > 0
  BY DEF SitsOutNext, Place
<1>. QED
  BY <1>1, <1>2, <1>3, <1>4

LEMMA ForNewHandIsReady ==
  ASSUME NEW p \in Place
  PROVE  ReadyToPlay(ForNewHand(Prepared(p)), p)
<1>. DEFINE q == Prepared(p)
            r == ForNewHand(q)
<1>1. q \in Place
  BY PreparedIsPlace
<1>2. r.status = IF q.status \in {"folded", "all-in"}
                 THEN IF q.stack > 0 THEN "active" ELSE "sitting-out" ELSE q.status
  BY <1>1 DEF ForNewHand, Place
<1>3. r \in Place /\ r.who = q.who /\ r.stack = q.stack /\ r.pendingMoveTo = q.pendingMoveTo
  BY <1>1 DEF ForNewHand, Place
<1>4. r.status = "empty" <=> q.status = "empty"
  BY <1>2
<1>5. r.status \in Playing => r.status = "active" /\ r.stack > 0
  BY <1>2, <1>3, PreparedIsPlace DEF Playing
<1>. QED
  BY <1>3, <1>4, <1>5, PreparedIsPlace DEF ReadyToPlay

\* Putting chips in leaves a seat all-in, or with chips.
LEMMA PutInIsPlace ==
  ASSUME NEW p \in Place, p.status = "active", NEW amount \in Nat, amount <= p.stack
  PROVE  /\ PutIn(p, amount) \in Place
         /\ PutIn(p, amount).who = p.who /\ PutIn(p, amount).pendingMoveTo = p.pendingMoveTo
         /\ PutIn(p, amount).bet = p.bet
         /\ PutIn(p, amount).status \in {"active", "all-in"}
         /\ PutIn(p, amount).status = "active" => PutIn(p, amount).stack > 0
<1>1. p.stack - amount \in Nat /\ (p.stack # amount => p.stack - amount > 0)
  BY DEF Place
<1>2. PutIn(p, amount).status = IF p.stack = amount THEN "all-in" ELSE "active"
  BY DEF PutIn, Place
<1>3. PutIn(p, amount) \in Place /\ PutIn(p, amount).stack = p.stack - amount
  BY <1>1 DEF PutIn, Place
<1>. QED
  BY <1>1, <1>2, <1>3 DEF PutIn, Place

\* The pots are paid out: only stacks change.
LEMMA AwardedIsPlace ==
  ASSUME NEW at \in [Seats -> Place], NEW middle, NEW won \in Awards(at, middle), NEW s \in Seats
  PROVE  /\ Awarded(at, won)[s] \in Place
         /\ Awarded(at, won)[s].who = at[s].who
         /\ Awarded(at, won)[s].status = at[s].status
         /\ Awarded(at, won)[s].pendingMoveTo = at[s].pendingMoveTo
         /\ Awarded(at, won)[s].pendingRemoval = at[s].pendingRemoval
<1>. DEFINE more == IF s \in DOMAIN won THEN won[s] ELSE 0
<1>1. won \in [Contending(at) -> 0 .. middle]
  BY DEF Awards
<1>2. more \in Nat
  BY <1>1
<1>3. at[s] \in Place
  OBVIOUS
<1>. DEFINE p == at[s]
            chips == p.stack + more
            r == [p EXCEPT !.bet = 0, !.stack = chips]
<1>4. Awarded(at, won)[s] = r
  BY DEF Awarded
<1>5. p \in Place /\ chips \in Nat
  BY <1>2, <1>3 DEF Place
<1>. HIDE DEF chips, p
<1>6. /\ r \in Place /\ r.who = p.who /\ r.status = p.status
      /\ r.pendingMoveTo = p.pendingMoveTo /\ r.pendingRemoval = p.pendingRemoval
  BY <1>5 DEF Place
<1>. QED
  BY <1>4, <1>6 DEF p

LEMMA DealKeeps ==
  ASSUME IInv, ~inHand, NEW at \in [Seats -> Place],
         \A s \in Seats : ReadyToPlay(at[s], seat[s]), Deal(at)
  PROVE  IInv'
<1>. DEFINE ring == {s \in Seats : at[s].status = "active" /\ at[s].stack > 0}
<1>1. PICK bb \in ring :
        LET ante == Min({Ante, at[bb].stack})
            blind == Min({1, at[bb].stack - ante})
            posted == [at EXCEPT ![bb] = [PutIn(at[bb], ante + blind) EXCEPT !.bet = blind]]
        IN  \/ /\ inHand' = TRUE /\ seat' = posted
               /\ dealt' = [s \in Seats |-> [who |-> seat[s].who, stack |-> seat[s].stack]]
            \/ /\ \E won \in Awards(posted, ante + blind) : seat' = Awarded(posted, won)
               /\ UNCHANGED inHand
  BY DEF Deal
<1>. DEFINE ante == Min({Ante, at[bb].stack})
            blind == Min({1, at[bb].stack - ante})
            first == PutIn(at[bb], ante + blind)
            paid == [first EXCEPT !.bet = blind]
            posted == [at EXCEPT ![bb] = paid]
<1>2. bb \in Seats /\ at[bb] \in Place /\ at[bb].stack \in Nat /\ at[bb].status = "active"
  BY DEF Place
<1>3. ante \in Nat /\ ante <= at[bb].stack
  BY <1>2, MinOfTwo, TableAssumption
<1>4. blind \in Nat /\ ante + blind <= at[bb].stack /\ ante + blind \in Nat
  <2>. HIDE DEF ante
  <2>1. at[bb].stack - ante \in Nat
    BY <1>2, <1>3
  <2>2. blind = IF 1 <= at[bb].stack - ante THEN 1 ELSE at[bb].stack - ante
    BY <2>1, MinOfTwo
  <2>. QED
    BY <1>2, <1>3, <2>1, <2>2
<1>5. /\ first \in Place /\ first.who = at[bb].who
      /\ first.pendingMoveTo = at[bb].pendingMoveTo
      /\ first.status \in {"active", "all-in"} /\ (first.status = "active" => first.stack > 0)
  BY <1>2, <1>4, PutInIsPlace
<1>6. /\ paid \in Place /\ paid.who = at[bb].who /\ paid.pendingMoveTo = at[bb].pendingMoveTo
      /\ paid.status = first.status /\ paid.stack = first.stack
  BY <1>4, <1>5 DEF Place
<1>7. /\ posted \in [Seats -> Place] /\ posted[bb] = paid
      /\ \A s \in Seats \ {bb} : posted[s] = at[s]
  BY <1>2, <1>6
<1>8. \A s \in Seats : /\ posted[s].who = seat[s].who
                       /\ posted[s].pendingMoveTo = seat[s].pendingMoveTo
                       /\ posted[s].status = "empty" <=> seat[s].status = "empty"
                       /\ posted[s].status \in Playing => seat[s].stack > 0
                       /\ posted[s].status = "active" => posted[s].stack > 0
  <2>1. bb \in Seats /\ ReadyToPlay(at[bb], seat[bb]) /\ at[bb].stack > 0
    BY <1>2
  <2>2. \A s \in Seats : ReadyToPlay(at[s], seat[s])
    OBVIOUS
  <2>3. "active" \in Playing
    BY DEF Playing
  <2>. QED
    BY <1>2, <1>5, <1>6, <1>7, <2>1, <2>2, <2>3 DEF ReadyToPlay
<1>9. CASE /\ inHand' = TRUE /\ seat' = posted
           /\ dealt' = [s \in Seats |-> [who |-> seat[s].who, stack |-> seat[s].stack]]
  <2>1. Placed'
    BY <1>7, <1>9 DEF Placed
  <2>2. Occupied' /\ ActiveHasChips'
    BY <1>8, <1>9 DEF IInv, Occupied, ActiveHasChips
  <2>3. Nobody \notin Keys
    BY TableAssumption
  <2>4. \A s \in Seats : dealt'[s].who = seat[s].who /\ dealt'[s].stack = seat[s].stack
    BY <1>9
  <2>5. "empty" \notin Playing
    BY DEF Playing
  <2>6. OnlyDealtInPlay'
    <3>. SUFFICES ASSUME NEW s \in Seats, seat'[s].status \in Playing
                  PROVE  seat'[s].who = dealt'[s].who /\ dealt'[s].stack > 0 /\ dealt'[s].who # Nobody
      BY DEF OnlyDealtInPlay
    <3>1. seat[s].status # "empty" /\ seat[s].who \in Keys
      BY <1>8, <1>9, <2>5 DEF IInv, Occupied
    <3>. QED
      BY <1>8, <1>9, <2>3, <2>4, <3>1
  <2>7. HeldSeatStaysFree'
    BY <1>8, <1>9, HeldAsBefore DEF IInv
  <2>. QED
    BY <2>1, <2>2, <2>6, <2>7 DEF IInv
<1>10. CASE /\ \E won \in Awards(posted, ante + blind) : seat' = Awarded(posted, won)
            /\ UNCHANGED inHand
  <2>1. PICK won \in Awards(posted, ante + blind) : seat' = Awarded(posted, won)
    BY <1>10
  <2>. HIDE DEF posted, ante, blind
  <2>2. \A s \in Seats : /\ seat'[s] \in Place /\ seat'[s].who = posted[s].who
                         /\ seat'[s].status = posted[s].status
                         /\ seat'[s].pendingMoveTo = posted[s].pendingMoveTo
    BY <1>7, <2>1, AwardedIsPlace
  <2>3. Placed'
    BY <2>1, <2>2 DEF Placed, Awarded
  <2>4. HeldSeatStaysFree'
    BY <1>8, <2>2, HeldAsBefore DEF IInv
  <2>. QED
    BY <1>8, <1>10, <2>2, <2>3, <2>4 DEF IInv, Occupied, ActiveHasChips, OnlyDealtInPlay
<1>. QED
  BY <1>1, <1>9, <1>10

LEMMA StartHandKeeps ==
  ASSUME IInv, StartHand
  PROVE  IInv'
<1>. DEFINE prepared == [s \in Seats |-> Prepared(seat[s])]
            at == [s \in Seats |-> ForNewHand(prepared[s])]
<1>1. ~inHand
  BY DEF StartHand, CanStartHand
<1>2. \A s \in Seats : seat[s] \in Place
  BY DEF IInv, Placed
<1>3. CASE CanStartHand(prepared)
  <2>1. Deal(at)
    BY <1>3 DEF StartHand
  <2>2. \A s \in Seats : ReadyToPlay(at[s], seat[s])
    BY <1>2, ForNewHandIsReady
  <2>3. at \in [Seats -> Place]
    BY <2>2 DEF ReadyToPlay
  <2>. HIDE DEF at
  <2>. QED
    BY <1>1, <2>1, <2>2, <2>3, DealKeeps
<1>4. CASE ~CanStartHand(prepared)
  <2>1. seat' = prepared /\ inHand' = inHand
    BY <1>4 DEF StartHand
  <2>2. \A s \in Seats : /\ seat'[s] \in Place /\ seat'[s].who = seat[s].who
                         /\ seat'[s].pendingMoveTo = seat[s].pendingMoveTo
                         /\ seat'[s].status = "empty" <=> seat[s].status = "empty"
    BY <1>2, <2>1, PreparedIsPlace
  <2>3. Placed'
    BY <2>1, <2>2 DEF Placed
  <2>4. HeldSeatStaysFree'
    BY <2>2, HeldAsBefore DEF IInv
  <2>. QED
    BY <1>1, <2>1, <2>2, <2>3, <2>4 DEF IInv, Occupied, ActiveHasChips, OnlyDealtInPlay
<1>. QED
  BY <1>3, <1>4

-----------------------------------------------------------------------------
\* The end of a hand: nobody plays and nothing is held any more.
LEMMA SettledIsPlace ==
  ASSUME NEW p \in Place
  PROVE  /\ Settled(p) \in Place
         /\ Settled(p).status # "empty" => p.status # "empty" /\ Settled(p).who = p.who
<1>1. CASE p.pendingRemoval # "no"
  BY <1>1, EmptyIsPlace DEF Settled
<1>2. CASE p.pendingRemoval = "no"
  <2>. DEFINE joins == /\ p.joinsNextHand /\ p.status = "sitting-out" /\ ~p.sitsOut
                       /\ p.stack + p.pendingChips > 0
              status == IF joins THEN "active" ELSE p.status
              chips == p.stack + p.pendingChips
              r == [p EXCEPT !.stack = chips, !.pendingChips = 0, !.joinsNextHand = FALSE,
                             !.status = status]
  <2>1. Settled(p) = r
    BY <1>2 DEF Settled
  <2>2. chips \in Nat
        /\ status \in {"empty", "active", "all-in", "folded", "sitting-out"}
    BY DEF Place
  <2>3. p.status = "empty" => status = "empty"
    OBVIOUS
  <2>. HIDE DEF status, chips
  <2>4. r \in Place /\ r.status = status /\ r.who = p.who
    BY <2>2 DEF Place
  <2>. QED
    BY <2>1, <2>3, <2>4
<1>. QED
  BY <1>1, <1>2 DEF Place

LEMMA AfterMovesIsPlace ==
  ASSUME NEW at \in [Seats -> Place], NEW gone, NEW s \in Seats,
         \A t \in Seats : at[t].status # "empty" => at[t].who \in Keys
  PROVE  /\ AfterMoves(at, gone)[s] \in Place
         /\ AfterMoves(at, gone)[s].pendingMoveTo = NoSeat
         /\ AfterMoves(at, gone)[s].status # "empty" => AfterMoves(at, gone)[s].who \in Keys
<1>. DEFINE movers == Moves(at, gone)
            targets == {at[m].pendingMoveTo : m \in movers}
            mover == CHOOSE m \in movers : at[m].pendingMoveTo = s
            Stay(t) == [at[t] EXCEPT !.pendingMoveTo = NoSeat]
<1>1. AfterMoves(at, gone)[s] =
        IF s \in targets THEN Stay(mover) ELSE IF s \in movers THEN Empty ELSE Stay(s)
  BY DEF AfterMoves
<1>2. s \in targets => mover \in Seats
  <2>. SUFFICES ASSUME s \in targets PROVE mover \in Seats
    OBVIOUS
  <2>1. \E m \in movers : at[m].pendingMoveTo = s
    OBVIOUS
  <2>2. mover \in movers
    BY <2>1
  <2>. QED
    BY <2>2 DEF Moves
<1>3. ASSUME NEW t \in Seats
      PROVE  Stay(t) \in Place /\ Stay(t).pendingMoveTo = NoSeat
             /\ Stay(t).status = at[t].status /\ Stay(t).who = at[t].who
  BY DEF Place
<1>. HIDE DEF Stay, mover, movers, targets
<1>. QED
  BY <1>1, <1>2, <1>3, EmptyIsPlace

LEMMA HandOverKeeps ==
  ASSUME NEW fin \in [Seats -> Place],
         \A s \in Seats : fin[s].status # "empty" => fin[s].who \in Keys,
         HandOver(fin)
  PROVE  IInv'
<1>. DEFINE settled == [s \in Seats |-> Settled(fin[s])]
<1>1. inHand' = FALSE /\ seat' = AfterMoves(settled, removed')
  BY DEF HandOver
<1>2. settled \in [Seats -> Place]
  BY SettledIsPlace
<1>3. \A s \in Seats : settled[s].status # "empty" => settled[s].who \in Keys
  BY SettledIsPlace
<1>. HIDE DEF settled
<1>4. \A s \in Seats : /\ seat'[s] \in Place /\ seat'[s].pendingMoveTo = NoSeat
                       /\ seat'[s].status # "empty" => seat'[s].who \in Keys
  BY <1>1, <1>2, <1>3, AfterMovesIsPlace
<1>5. Placed'
  BY <1>1, <1>4 DEF Placed, AfterMoves
<1>. QED
  BY <1>1, <1>4, <1>5, NoSeatIsNone
     DEF IInv, Occupied, ActiveHasChips, OnlyDealtInPlay, HeldSeatStaysFree

LEMMA TurnsArePlaces ==
  ASSUME NEW p \in Place, p.status = "active", p.stack > 0, NEW r \in Turns(p)
  PROVE  /\ r \in Place /\ r.who = p.who /\ r.pendingMoveTo = p.pendingMoveTo
         /\ r.status \in Playing /\ (r.status = "active" => r.stack > 0)
<1>1. CASE r = p
  BY <1>1 DEF Playing
<1>2. CASE r = [p EXCEPT !.status = "folded"]
  BY <1>2 DEF Playing, Place
<1>3. CASE r = [PutIn(p, 1) EXCEPT !.bet = p.bet + 1]
  <2>1. p.stack \in Nat /\ p.bet + 1 \in Nat
    BY DEF Place
  <2>2. 1 <= p.stack
    BY <2>1
  <2>3. /\ PutIn(p, 1) \in Place
        /\ PutIn(p, 1).who = p.who /\ PutIn(p, 1).pendingMoveTo = p.pendingMoveTo
        /\ PutIn(p, 1).status \in {"active", "all-in"}
        /\ PutIn(p, 1).status = "active" => PutIn(p, 1).stack > 0
    BY <2>2, PutInIsPlace
  <2>. QED
    BY <1>3, <2>1, <2>3 DEF Place, Playing
<1>. QED
  BY <1>1, <1>2, <1>3 DEF Turns

LEMMA ActKeeps ==
  ASSUME IInv, NEW s \in Seats, Act(s)
  PROVE  IInv'
<1>1. inHand /\ seat[s] \in Place /\ seat[s].status = "active" /\ seat[s].stack > 0
  BY DEF Act, IInv, Placed, ActiveHasChips
<1>2. PICK r \in Turns(seat[s]) :
        LET after == [seat EXCEPT ![s] = r] IN
        \/ seat' = after /\ UNCHANGED <<inHand, handVars>>
        \/ \E won \in Awards(after, Middle(after) + anteTotal) : HandOver(Awarded(after, won))
  BY DEF Act
<1>. DEFINE after == [seat EXCEPT ![s] = r]
<1>3. /\ r \in Place /\ r.who = seat[s].who /\ r.pendingMoveTo = seat[s].pendingMoveTo
      /\ r.status \in Playing /\ (r.status = "active" => r.stack > 0)
  BY <1>1, TurnsArePlaces
<1>4. seat[s].status \in Playing /\ seat[s].who \in Keys
  BY <1>1 DEF Playing, IInv, Occupied
<1>5. CASE seat' = after /\ UNCHANGED <<inHand, handVars>>
  <2>1. inHand' = inHand /\ dealt' = dealt
    BY <1>5 DEF handVars
  <2>. QED
    BY <1>1, <1>3, <1>4, <1>5, <2>1, OneSeatChanges
<1>6. ASSUME NEW won \in Awards(after, Middle(after) + anteTotal), HandOver(Awarded(after, won))
      PROVE  IInv'
  <2>1. after \in [Seats -> Place]
    BY <1>3 DEF IInv, Placed
  <2>2. \A t \in Seats : after[t].status # "empty" => after[t].who \in Keys
    BY <1>3, <1>4 DEF IInv, Placed, Occupied
  <2>. DEFINE fin == Awarded(after, won)
  <2>. HIDE DEF after
  <2>3. \A t \in Seats : fin[t] \in Place /\ fin[t].who = after[t].who /\ fin[t].status = after[t].status
    BY <1>6, <2>1, AwardedIsPlace
  <2>4. fin \in [Seats -> Place]
    BY <2>3 DEF Awarded
  <2>5. \A t \in Seats : fin[t].status # "empty" => fin[t].who \in Keys
    BY <2>2, <2>3
  <2>6. HandOver(fin)
    BY <1>6
  <2>. HIDE DEF fin
  <2>. QED
    BY <2>4, <2>5, <2>6, HandOverKeeps
<1>. QED
  BY <1>2, <1>5, <1>6

LEMMA ResetTableKeeps == ResetTable => IInv'
<1>. SUFFICES ASSUME ResetTable PROVE IInv'
  OBVIOUS
<1>1. inHand' = FALSE /\ seat' = [s \in Seats |-> Empty]
  BY DEF ResetTable
<1>2. Placed'
  BY <1>1, EmptyIsPlace DEF Placed
<1>3. \A s \in Seats : seat'[s] = Empty
  BY <1>1
<1>. QED
  BY <1>1, <1>2, <1>3, EmptyIsPlace, NoSeatIsNone
     DEF IInv, Occupied, ActiveHasChips, OnlyDealtInPlay, HeldSeatStaysFree

-----------------------------------------------------------------------------
InHandIsBoolean == inHand \in BOOLEAN

LEMMA InHandStaysBoolean == InHandIsBoolean /\ [Next]_vars => InHandIsBoolean'
<1>. SUFFICES ASSUME InHandIsBoolean, [Next]_vars PROVE inHand' \in BOOLEAN
  BY DEF InHandIsBoolean
<1>1. ASSUME NEW s \in Seats, Request(s) PROVE inHand' = inHand
  BY <1>1 DEF Request, TakeSeat, AddBot, LeaveSeat, RemovePlayer, DeleteSeat, RemoveNow,
              RemoveAfterHand, RemoveEmpty, AddChips, SitOut, SitIn, ChangeSeat
<1>2. AddSeat => inHand' = inHand
  BY DEF AddSeat
<1>3. StartHand => inHand' \in {inHand, TRUE}
  BY DEF StartHand, Deal
<1>4. ASSUME NEW s \in Seats, Act(s) PROVE inHand' \in {inHand, FALSE}
  BY <1>4 DEF Act, HandOver
<1>5. ResetTable => inHand' = FALSE
  BY DEF ResetTable
<1>. QED
  BY <1>1, <1>2, <1>3, <1>4, <1>5 DEF Next, InHandIsBoolean, vars

LEMMA RequestKeeps ==
  ASSUME IInv, InHandIsBoolean, NEW s \in Seats, Request(s)
  PROVE  IInv'
<1>1. ASSUME NEW u \in Users, TakeSeat(u, s) PROVE IInv'
  BY <1>1, SeatIsTaken DEF TakeSeat, handVars, Keys, InHandIsBoolean
<1>2. CASE AddBot(s)
  <2>1. BotAt(s) \in Keys
    BY DEF Keys, Bots
  <2>. QED
    BY <1>2, <2>1, SeatIsTaken DEF AddBot, handVars, InHandIsBoolean
<1>3. ASSUME NEW t \in Seats, ChangeSeat(s, t) PROVE IInv'
  BY <1>3, ChangeSeatKeeps
<1>. QED
  BY <1>1, <1>2, <1>3, LeaveSeatKeeps, RemovalKeeps, AddChipsKeeps, SitOutKeeps, SitInKeeps
     DEF Request

LEMMA IInvNext == IInv /\ InHandIsBoolean /\ [Next]_vars => IInv'
<1>. SUFFICES ASSUME IInv, InHandIsBoolean, [Next]_vars PROVE IInv'
  OBVIOUS
<1>1. ASSUME NEW s \in Seats, Request(s) PROVE IInv'
  BY <1>1, RequestKeeps
<1>2. ASSUME NEW s \in Seats, Act(s) PROVE IInv'
  BY <1>2, ActKeeps
<1>3. CASE AddSeat
  BY <1>3 DEF AddSeat, handVars, IInv, Placed, Occupied, ActiveHasChips, OnlyDealtInPlay,
              HeldSeatStaysFree
<1>4. CASE UNCHANGED vars
  BY <1>4 DEF vars, handVars, IInv, Placed, Occupied, ActiveHasChips, OnlyDealtInPlay,
              HeldSeatStaysFree
<1>. QED
  BY <1>1, <1>2, <1>3, <1>4, StartHandKeeps, ResetTableKeeps DEF Next

LEMMA InvariantHolds == Spec => [](IInv /\ InHandIsBoolean)
<1>1. Init => InHandIsBoolean
  BY DEF Init, InHandIsBoolean
<1>. QED
  BY <1>1, IInvInit, IInvNext, InHandStaysBoolean, PTL DEF Spec

-----------------------------------------------------------------------------
\* Nobody takes part in a hand they were not dealt into, or without chips
\* (takeSeat, sitIn, addChips, startNextHand).
THEOREM OnlyTheDealtPlay == Spec => []OnlyDealtInPlay
BY InvariantHolds, PTL DEF IInv

\* A seat held for a move after the hand is given to nobody else (checkSeatUsable).
THEOREM HeldSeatIsKept == Spec => []HeldSeatStaysFree
BY InvariantHolds, PTL DEF IInv

-----------------------------------------------------------------------------
(***************************************************************************)
(* The seats between hands and in a hand: what waits for the end of a hand *)
(* only does so in it, who left a hand they had folded keeps nothing but   *)
(* their place in it, and nobody has two seats.                            *)
(***************************************************************************)
AtRest(p) ==
  /\ p.bet = 0 /\ p.pendingChips = 0 /\ p.pendingRemoval = "no" /\ p.pendingMoveTo = NoSeat
  /\ p.status # "empty" => p.here

HasLeft(p) == p.status # "empty" /\ ~p.here
GoneFrom(p) ==
  /\ p.status = "folded" /\ p.stack = 0 /\ p.pendingChips = 0
  /\ p.pendingRemoval # "no" /\ p.pendingMoveTo = NoSeat /\ ~p.joinsNextHand

\* p: a seat, plays: whether a hand is on, leaver: who is noted to have left it.
SeatIsSound(p, plays, leaver) ==
  /\ p.status = "empty" => p = Empty
  /\ p.joinsNextHand => plays
  /\ ~(plays /\ p.status \in Playing) => AtRest(p)
  /\ HasLeft(p) => GoneFrom(p) /\ leaver = p.who
  /\ leaver # Nobody => HasLeft(p)
SeatsAreSound == \A s \in Seats : SeatIsSound(seat[s], inHand, handLeavers[s].key)

HandIsClear ==
  IF inHand THEN bigBlind \in Seats /\ IsInCurrentHand(bigBlind)
  ELSE /\ dealt = NobodyDealt /\ anteTotal = 0
       /\ handChipAdds = NothingAdded /\ handLeavers = NobodyLeft

\* The players the book is right about.  A computer player whose name was given
\* twice may have two seats.
Tracked == Users \cup (Keys \ unbooked)
OneSeatEach ==
  \A s, t \in Seats :
    seat[s].here /\ seat[t].here /\ seat[s].who = seat[t].who /\ seat[s].who \in Tracked => s = t
OnePartEach ==
  \A s, t \in Seats :
    /\ IsInCurrentHand(s) /\ IsInCurrentHand(t)
    /\ seat[s].who = seat[t].who /\ seat[s].who \in Tracked
    => s = t

Sound == SeatsAreSound /\ HandIsClear /\ OneSeatEach /\ OnePartEach

LEMMA EmptyIsSound ==
  /\ AtRest(Empty) /\ ~HasLeft(Empty) /\ ~Empty.here /\ ~Empty.joinsNextHand
  /\ Empty.status \notin Playing /\ Empty.stack = 0 /\ Empty.who = Nobody
  /\ \A plays \in BOOLEAN : SeatIsSound(Empty, plays, Nobody)
BY DEF Empty, AtRest, HasLeft, SeatIsSound, Playing

LEMMA SoundInit == Init => Sound
<1>. SUFFICES ASSUME Init PROVE Sound
  OBVIOUS
<1>1. /\ \A s \in Seats : seat[s] = Empty /\ handLeavers[s].key = Nobody
      /\ inHand = FALSE /\ dealt = NobodyDealt /\ anteTotal = 0
      /\ handChipAdds = NothingAdded /\ handLeavers = NobodyLeft
  BY DEF Init, NobodyLeft
<1>. QED
  BY <1>1, EmptyIsSound
     DEF Sound, SeatsAreSound, HandIsClear, OneSeatEach, OnePartEach, IsInCurrentHand

\* One seat gets a new record, and what is noted of the hand at other seats stays.
OneSeat(s, r) ==
  /\ r \in Place /\ seat' = [seat EXCEPT ![s] = r]
  /\ UNCHANGED <<inHand, dealt, bigBlind, anteTotal>>
  /\ unbooked \subseteq unbooked'
  /\ \A t \in Seats \ {s} : handLeavers'[t] = handLeavers[t] /\ handChipAdds'[t] = handChipAdds[t]
  /\ ~inHand => UNCHANGED <<handChipAdds, handLeavers>>

\* The new record fits the seat: who is in the hand stays in it, and nobody sits
\* down who has a seat already, if they are to be kept track of.
Fits(s, r) ==
  /\ SeatIsSound(r, inHand, handLeavers'[s].key)
  /\ IsInCurrentHand(s) <=> inHand /\ r.status \in Playing
  /\ IsInCurrentHand(s) => r.who = seat[s].who
  /\ r.here => \/ seat[s].here /\ r.who = seat[s].who
               \/ r.who \notin Users /\ r.who \in unbooked'
               \/ \A t \in Seats : seat[t].here => seat[t].who # r.who

LEMMA OneSeatStaysSound ==
  ASSUME inHand \in BOOLEAN, Placed, Sound, NEW s \in Seats, NEW r, OneSeat(s, r), Fits(s, r)
  PROVE  Sound'
<1>1. seat'[s] = r /\ \A t \in Seats \ {s} : seat'[t] = seat[t]
  BY DEF OneSeat, Placed
<1>2. SeatsAreSound'
  BY <1>1 DEF Sound, SeatsAreSound, OneSeat, Fits
<1>3. inHand' = inHand /\ bigBlind' = bigBlind
  BY DEF OneSeat
<1>8. \A t \in Seats : inHand =>
        /\ seat'[t].status \in Playing <=> seat[t].status \in Playing
        /\ seat'[t].status \in Playing => seat'[t].who = seat[t].who
  <2>1. inHand => (r.status \in Playing <=> seat[s].status \in Playing)
    BY DEF Fits, IsInCurrentHand
  <2>2. inHand /\ seat[s].status \in Playing => r.who = seat[s].who
    BY DEF Fits, IsInCurrentHand
  <2>. QED
    BY <1>1, <2>1, <2>2
<1>4. HandIsClear'
  <2>1. CASE inHand
    BY <1>3, <1>8, <2>1 DEF Sound, HandIsClear, IsInCurrentHand
  <2>2. CASE ~inHand
    <3>1. /\ ~inHand' /\ dealt' = dealt /\ anteTotal' = anteTotal
          /\ handChipAdds' = handChipAdds /\ handLeavers' = handLeavers
      BY <2>2 DEF OneSeat
    <3>2. /\ dealt = NobodyDealt /\ anteTotal = 0
          /\ handChipAdds = NothingAdded /\ handLeavers = NobodyLeft
      BY <2>2 DEF Sound, HandIsClear
    <3>3. /\ dealt' = NobodyDealt /\ anteTotal' = 0
          /\ handChipAdds' = NothingAdded /\ handLeavers' = NobodyLeft
      BY <3>1, <3>2
    <3>. QED
      BY <3>1, <3>3 DEF HandIsClear, NobodyDealt, NothingAdded, NobodyLeft
  <2>. QED
    BY <2>1, <2>2
<1>5. \A k : k \in Tracked' => k \in Tracked
  BY DEF Tracked, OneSeat
<1>6. OnePartEach'
  <2>. SUFFICES ASSUME NEW x \in Seats, NEW y \in Seats,
                       IsInCurrentHand(x)', IsInCurrentHand(y)',
                       seat'[x].who = seat'[y].who, seat'[x].who \in Tracked'
                PROVE  x = y
    BY DEF OnePartEach
  <2>1. IsInCurrentHand(x) /\ IsInCurrentHand(y)
    BY <1>3, <1>8 DEF IsInCurrentHand
  <2>2. seat[x].who = seat[y].who /\ seat[x].who \in Tracked
    BY <1>3, <1>5, <1>8, <2>1 DEF IsInCurrentHand
  <2>. QED
    BY <2>1, <2>2 DEF Sound, OnePartEach
<1>7. OneSeatEach'
  <2>1. \A t \in Seats \ {s} : r.here /\ seat[t].here /\ r.who = seat[t].who => r.who \notin Tracked'
    <3>1. r.who \notin Users /\ r.who \in unbooked' => r.who \notin Tracked'
      BY DEF Tracked
    <3>. QED
      BY <1>5, <3>1 DEF Sound, OneSeatEach, Fits
  <2>. QED
    BY <1>1, <1>5, <2>1 DEF Sound, OneSeatEach
<1>. QED
  BY <1>2, <1>4, <1>6, <1>7 DEF Sound

-----------------------------------------------------------------------------
(***************************************************************************)
(* The book.  What it knows of a seat are the chips its player came to the *)
(* hand with and those added since, less what they left with, or, out of   *)
(* the hand, the chips of the seat.                                        *)
(***************************************************************************)
Part(s) == dealt[s].stack + handChipAdds[s]

KnownOf(p, plays, part, left) ==
  IF plays THEN IF p.here THEN part + p.pendingChips ELSE part - left
  ELSE IF p.here THEN p.stack + p.pendingChips ELSE 0
KnownAt(s) == KnownOf(seat[s], IsInCurrentHand(s), Part(s), handLeavers[s].stack)
KnownOfPlayer(k) == [s \in Seats |-> IF seat[s].who = k THEN KnownAt(s) ELSE 0]

\* ... and it is all the book has of a player.
ChipsAreBooked ==
  \A k \in Keys \ unbooked : Sum(KnownOfPlayer(k), Seats) = book[k].chips

\* What a player came to a hand with is in front of them, in the middle, or gone with them.
AnteOf(s) == IF s = bigBlind THEN anteTotal ELSE 0
StakeOf(p, left) == (IF p.here THEN p.stack ELSE left) + p.bet
StakesAreBooked ==
  \A s \in Seats : IsInCurrentHand(s) /\ seat[s].who \notin unbooked =>
                     StakeOf(seat[s], handLeavers[s].stack) + AnteOf(s) = Part(s)

BalanceIsBooked ==
  \A u \in Users : balance[u] + book[u].chips = opened[u] + book[u].net

Books == ChipsAreBooked /\ StakesAreBooked /\ BalanceIsBooked

LEMMA SeatsFinite == IsFiniteSet(Seats)
<1>1. MaxSeats - 1 \in Int
  BY TableAssumption
<1>. QED
  BY <1>1, FS_Interval DEF Seats

LEMMA BotsAreNotUsers == \A s \in Seats : BotAt(s) \in Keys /\ BotAt(s) \notin Users
BY TableAssumption DEF Keys, Bots

LEMMA KnownIsInt ==
  ASSUME TypeOK, NEW s \in Seats
  PROVE  KnownAt(s) \in Int
<1>1. seat[s] \in Place /\ dealt[s].stack \in Nat /\ handChipAdds[s] \in Nat /\ handLeavers[s].stack \in Nat
  BY DEF TypeOK
<1>. QED
  BY <1>1 DEF KnownAt, KnownOf, Part, Place

\* TypeOK but for its word on empty seats, which Sound has too.
Typed ==
  /\ inHand \in BOOLEAN
  /\ seat \in [Seats -> Place]
  /\ removed \subseteq Seats
  /\ dealt \in [Seats -> [who : Keys \cup {Nobody}, stack : Nat]]
  /\ bigBlind \in Seats \cup {NoSeat} /\ anteTotal \in Nat
  /\ handChipAdds \in [Seats -> Nat]
  /\ handLeavers \in [Seats -> [key : Keys \cup {Nobody}, stack : Nat]]
  /\ book \in [Keys -> [chips : Int, net : Int]]
  /\ balance \in [Users -> Nat] /\ opened \in [Users -> Nat]
  /\ unbooked \subseteq Keys
  /\ requests \in Nat /\ handNumber \in Nat /\ game \in Nat

LEMMA TypedIsTypeOK ==
  /\ TypeOK => Typed
  /\ Typed' /\ Sound' => TypeOK'
BY DEF TypeOK, Typed, Sound, SeatsAreSound, SeatIsSound

LEMMA KnownIsIntNext ==
  ASSUME Typed', NEW s \in Seats
  PROVE  KnownAt(s)' \in Int
<1>1. seat'[s] \in Place /\ dealt'[s].stack \in Nat /\ handChipAdds'[s] \in Nat /\ handLeavers'[s].stack \in Nat
  BY DEF Typed
<1>. QED
  BY <1>1 DEF KnownAt, KnownOf, Part, Place, IsInCurrentHand

\* One seat gets a new record, and k pays this many chips from their balance, if
\* they have one; the book knows.
Pays(s, r, k, amount) ==
  /\ amount \in Int
  /\ \A j \in Keys : /\ book'[j].chips = book[j].chips + (IF j = k THEN amount ELSE 0)
                     /\ book'[j].net = book[j].net
  /\ \A u \in Users : balance'[u] = balance[u] - (IF u = k THEN amount ELSE 0)
  /\ opened' = opened
  /\ \A j \in Keys \ unbooked' :
       (IF r.who = j THEN KnownOf(r, IsInCurrentHand(s), dealt[s].stack + handChipAdds'[s],
                                  handLeavers'[s].stack) ELSE 0)
         = (IF seat[s].who = j THEN KnownAt(s) ELSE 0) + (IF j = k THEN amount ELSE 0)
  /\ IsInCurrentHand(s) /\ r.who \notin unbooked' =>
       StakeOf(r, handLeavers'[s].stack) + AnteOf(s) = dealt[s].stack + handChipAdds'[s]

LEMMA OneSeatStaysBooked ==
  ASSUME TypeOK, Typed', Books, NEW s \in Seats, NEW r, OneSeat(s, r), Fits(s, r),
         NEW k, NEW amount, Pays(s, r, k, amount)
  PROVE  Books'
<1>1. /\ seat'[s] = r /\ \A t \in Seats \ {s} : seat'[t] = seat[t]
      /\ inHand' = inHand /\ bigBlind' = bigBlind /\ anteTotal' = anteTotal /\ dealt' = dealt
      /\ \A t \in Seats \ {s} : handLeavers'[t] = handLeavers[t] /\ handChipAdds'[t] = handChipAdds[t]
      /\ unbooked \subseteq unbooked'
  BY DEF OneSeat, TypeOK
<1>2. IsInCurrentHand(s)' = IsInCurrentHand(s)
  BY <1>1 DEF Fits, IsInCurrentHand, TypeOK
<1>3. \A t \in Seats \ {s} : /\ KnownAt(t)' = KnownAt(t)
  BY <1>1 DEF KnownAt, KnownOf, Part, IsInCurrentHand
<1>4. KnownAt(s)' = KnownOf(r, IsInCurrentHand(s), dealt[s].stack + handChipAdds'[s], handLeavers'[s].stack)
  BY <1>1, <1>2 DEF KnownAt, KnownOf, Part
<1>5. ChipsAreBooked'
  <2>. SUFFICES ASSUME NEW j \in Keys \ unbooked' PROVE Sum(KnownOfPlayer(j)', Seats) = book'[j].chips
    BY DEF ChipsAreBooked
  <2>. DEFINE f == KnownOfPlayer(j)
              g == [t \in Seats |-> IF seat'[t].who = j THEN KnownAt(t)' ELSE 0]
              more == IF j = k THEN amount ELSE 0
  <2>1. KnownOfPlayer(j)' = g
    BY DEF KnownOfPlayer
  <2>2. \A t \in Seats : f[t] \in Int
    BY KnownIsInt DEF KnownOfPlayer
  <2>3. \A t \in Seats : g[t] \in Int
    BY KnownIsIntNext
  <2>4. \A t \in Seats \ {s} : g[t] = f[t]
    BY <1>1, <1>3 DEF KnownOfPlayer
  <2>5. g[s] = f[s] + more
    BY <1>1, <1>4 DEF KnownOfPlayer, Pays
  <2>6. Sum(f, Seats) = book[j].chips /\ book[j].chips \in Int
    BY <1>1 DEF Books, ChipsAreBooked, TypeOK
  <2>7. book'[j].chips = book[j].chips + more /\ more \in Int
    BY DEF Pays
  <2>. HIDE DEF f, g, more
  <2>8. Sum(g, Seats) = Sum(f, Seats) + (g[s] - f[s])
    BY <2>2, <2>3, <2>4, SeatsFinite, SumChangesAt
  <2>9. f[s] \in Int
    BY <2>2
  <2>. QED
    BY <2>1, <2>5, <2>6, <2>7, <2>8, <2>9
<1>6. StakesAreBooked'
  <2>. SUFFICES ASSUME NEW t \in Seats, IsInCurrentHand(t)', seat'[t].who \notin unbooked'
                PROVE  (StakeOf(seat[t], handLeavers[t].stack) + AnteOf(t) = Part(t))'
    BY DEF StakesAreBooked
  <2>1. CASE t = s
    BY <1>1, <1>2, <2>1 DEF Pays, AnteOf, Part
  <2>2. CASE t # s
    <3>1. StakeOf(seat[t], handLeavers[t].stack) + AnteOf(t) = Part(t)
      BY <1>1, <2>2 DEF Books, StakesAreBooked, IsInCurrentHand
    <3>. QED
      BY <1>1, <2>2, <3>1 DEF StakeOf, AnteOf, Part
  <2>. QED
    BY <2>1, <2>2
<1>7. BalanceIsBooked'
  <2>. SUFFICES ASSUME NEW u \in Users PROVE (balance[u] + book[u].chips = opened[u] + book[u].net)'
    BY DEF BalanceIsBooked
  <2>. DEFINE more == IF u = k THEN amount ELSE 0
  <2>1. u \in Keys
    BY DEF Keys
  <2>2. /\ book'[u].chips = book[u].chips + more /\ book'[u].net = book[u].net
        /\ balance'[u] = balance[u] - more /\ opened'[u] = opened[u] /\ more \in Int
    BY <2>1 DEF Pays
  <2>3. balance[u] + book[u].chips = opened[u] + book[u].net
    BY DEF Books, BalanceIsBooked
  <2>4. balance[u] \in Int /\ book[u].chips \in Int /\ opened[u] \in Int /\ book[u].net \in Int
    BY <2>1 DEF TypeOK
  <2>. HIDE DEF more
  <2>. QED
    BY <2>2, <2>3, <2>4
<1>. QED
  BY <1>5, <1>6, <1>7 DEF Books

-----------------------------------------------------------------------------
\* What a request does to its seat, for the hand and for the book.
Keeps(s) == \E r, k, amount : OneSeat(s, r) /\ Fits(s, r) /\ Pays(s, r, k, amount)
Good == IInv /\ TypeOK /\ Sound /\ Books

LEMMA NewcomerFields ==
  ASSUME NEW k \in Keys, inHand \in BOOLEAN, NEW p, p = Newcomer(k, BuyInSize)
  PROVE  /\ p \in Place /\ p.who = k /\ p.stack = BuyInSize /\ p.bet = 0 /\ p.here
         /\ p.pendingChips = 0 /\ p.pendingRemoval = "no" /\ p.pendingMoveTo = NoSeat
         /\ p.joinsNextHand = inHand
         /\ p.status = IF inHand THEN "sitting-out" ELSE "active"
BY TableAssumption DEF Newcomer, NewlySeatedStatus, Empty, Place

LEMMA SeatIsEmpty ==
  ASSUME Good, NEW s \in Seats, seat[s].status = "empty"
  PROVE  /\ seat[s] = Empty /\ seat[s].who = Nobody /\ ~seat[s].here
         /\ handLeavers[s].key = Nobody /\ ~IsInCurrentHand(s)
BY EmptyIsSound DEF Good, Sound, SeatsAreSound, SeatIsSound, HasLeft, IsInCurrentHand

\* takeSeat and addBot
LEMMA NewcomerFits ==
  ASSUME Good, NEW s \in Seats, NEW k \in Keys, Usable(s, seat, removed),
         seat' = [seat EXCEPT ![s] = Newcomer(k, BuyInSize)],
         book' = BuyIn(book, k, BuyInSize),
         UNCHANGED <<inHand, handVars, opened>>, unbooked \subseteq unbooked',
         \A u \in Users : balance'[u] = balance[u] - (IF u = k THEN BuyInSize ELSE 0),
         (k \notin Users /\ k \in unbooked') \/ \A t \in Seats : seat[t].here => seat[t].who # k
  PROVE  Keeps(s)
<1>. DEFINE p == Newcomer(k, BuyInSize)
<1>0. inHand \in BOOLEAN /\ BuyInSize \in Nat
  BY TableAssumption DEF Good, TypeOK
<1>1. /\ p \in Place /\ p.who = k /\ p.stack = BuyInSize /\ p.bet = 0 /\ p.here
      /\ p.pendingChips = 0 /\ p.pendingRemoval = "no" /\ p.pendingMoveTo = NoSeat
      /\ p.joinsNextHand = inHand
      /\ p.status = IF inHand THEN "sitting-out" ELSE "active"
  BY <1>0, NewcomerFields
<1>2. /\ seat[s].status = "empty" /\ seat[s].who = Nobody /\ ~seat[s].here
      /\ handLeavers[s].key = Nobody /\ ~IsInCurrentHand(s)
  BY SeatIsEmpty DEF Usable
<1>3. seat' = [seat EXCEPT ![s] = p]
  OBVIOUS
<1>. HIDE DEF p
<1>4. OneSeat(s, p)
  BY <1>1, <1>3 DEF OneSeat, handVars
<1>5. ~(inHand /\ p.status \in Playing)
  BY <1>1 DEF Playing
<1>6. AtRest(p) /\ ~HasLeft(p) /\ p.status # "empty"
  BY <1>1 DEF AtRest, HasLeft
<1>7. Fits(s, p)
  BY <1>1, <1>2, <1>5, <1>6 DEF Fits, SeatIsSound, handVars
<1>8. Nobody \notin Keys
  BY TableAssumption
<1>9. \A j \in Keys : /\ book'[j].chips = book[j].chips + (IF j = k THEN BuyInSize ELSE 0)
                      /\ book'[j].net = book[j].net
  BY <1>0 DEF BuyIn, Good, TypeOK
<1>10. Pays(s, p, k, BuyInSize)
  BY <1>0, <1>1, <1>2, <1>8, <1>9 DEF Pays, KnownOf
<1>. QED
  BY <1>4, <1>7, <1>10 DEF Keeps

LEMMA TakeSeatGood ==
  ASSUME Good, NEW u \in Users, NEW s \in Seats, TakeSeat(u, s)
  PROVE  Keeps(s)
<1>1. u \in Keys
  BY DEF Keys
<1>2. \A t \in Seats : seat[t].here => seat[t].who # u
  BY DEF TakeSeat, Seated, SeatsOf
<1>3. \A j \in Users : balance'[j] = balance[j] - (IF j = u THEN BuyInSize ELSE 0)
  BY TableAssumption DEF TakeSeat, Good, TypeOK
<1>4. UNCHANGED <<inHand, handVars, opened>> /\ unbooked \subseteq unbooked'
  BY DEF TakeSeat
<1>. QED
  BY <1>1, <1>2, <1>3, <1>4, NewcomerFits DEF TakeSeat

LEMMA AddBotGood ==
  ASSUME Good, NEW s \in Seats, AddBot(s)
  PROVE  Keeps(s)
<1>1. BotAt(s) \in Keys /\ BotAt(s) \notin Users
  BY BotsAreNotUsers
<1>2. BotAt(s) \in unbooked' \/ \A t \in Seats : seat[t].here => seat[t].who # BotAt(s)
  BY DEF AddBot, SeatsOf
<1>3. \A j \in Users : balance'[j] = balance[j] - (IF j = BotAt(s) THEN BuyInSize ELSE 0)
  BY <1>1 DEF AddBot, Good, TypeOK
<1>4. UNCHANGED <<inHand, handVars, opened>> /\ unbooked \subseteq unbooked'
  BY DEF AddBot
<1>. QED
  BY <1>1, <1>2, <1>3, <1>4, NewcomerFits DEF AddBot

-----------------------------------------------------------------------------
\* What is known of a seat that is not empty.
LEMMA SeatFields ==
  ASSUME Good, NEW s \in Seats
  PROVE  /\ seat[s] \in Place /\ inHand \in BOOLEAN /\ seat[s].who \in Keys \cup {Nobody}
         /\ seat[s].stack \in Nat /\ seat[s].bet \in Nat /\ seat[s].pendingChips \in Nat
         /\ seat[s].status # "empty" => seat[s].who \in Keys
         /\ dealt[s].stack \in Nat /\ handChipAdds[s] \in Nat /\ handLeavers[s].stack \in Nat
         /\ anteTotal \in Nat
         /\ SeatIsSound(seat[s], inHand, handLeavers[s].key)
BY DEF Good, IInv, Occupied, TypeOK, Place, Sound, SeatsAreSound

LEMMA KeysAreNot == Nobody \notin Keys /\ Users \subseteq Keys
BY TableAssumption DEF Keys

\* leaveSeat from outside the hand, and removeSeatOccupant
LEMMA SeatCleared ==
  ASSUME Good, NEW s \in Seats, seat[s].status # "empty", ~IsInCurrentHand(s),
         seat' = [seat EXCEPT ![s] = Empty],
         book' = CashOut(book, seat[s].who, CashOutAmount(s)),
         UNCHANGED <<inHand, handVars, opened>>, unbooked \subseteq unbooked',
         \A u \in Users :
           balance'[u] = balance[u] + (IF u = seat[s].who THEN CashOutAmount(s) ELSE 0)
  PROVE  Keeps(s)
<1>. DEFINE k == seat[s].who
            owed == CashOutAmount(s)
            amount == -owed
<1>1. /\ seat[s] \in Place /\ inHand \in BOOLEAN /\ k \in Keys
      /\ seat[s].stack \in Nat /\ seat[s].pendingChips \in Nat
      /\ SeatIsSound(seat[s], inHand, handLeavers[s].key)
  BY SeatFields
<1>2. seat[s].here /\ handLeavers[s].key = Nobody
  BY <1>1 DEF SeatIsSound, IsInCurrentHand, AtRest, HasLeft
<1>3. OneSeat(s, Empty)
  BY EmptyIsPlace DEF OneSeat, handVars
<1>4. Fits(s, Empty)
  BY <1>1, <1>2, EmptyIsSound DEF Fits, handVars
<1>5. owed \in Nat /\ owed = seat[s].stack + seat[s].pendingChips
  BY <1>1 DEF CashOutAmount
<1>6. KnownAt(s) = owed
  BY <1>2, <1>5 DEF KnownAt, KnownOf
<1>7. \A j \in Keys : /\ book'[j].chips = book[j].chips + (IF j = k THEN amount ELSE 0)
                      /\ book'[j].net = book[j].net
  <2>1. \A j \in Keys : book[j] \in [chips : Int, net : Int] /\ book \in [Keys -> [chips : Int, net : Int]]
    BY DEF Good, TypeOK
  <2>2. book' = [book EXCEPT ![k].chips = @ - owed]
    BY DEF CashOut
  <2>. HIDE DEF owed, k
  <2>. QED
    BY <1>1, <1>5, <2>1, <2>2
<1>8. \A u \in Users : balance'[u] = balance[u] - (IF u = k THEN amount ELSE 0)
  <2>1. \A u \in Users : balance[u] \in Nat
    BY DEF Good, TypeOK
  <2>2. \A u \in Users : balance'[u] = balance[u] + (IF u = k THEN owed ELSE 0)
    OBVIOUS
  <2>. HIDE DEF owed, k
  <2>. QED
    BY <1>5, <2>1, <2>2
<1>9. Empty.who = Nobody /\ Nobody \notin Keys
  BY EmptyIsSound, KeysAreNot
<1>10. amount \in Int /\ owed + amount = 0
  <2>. HIDE DEF owed
  <2>. QED
    BY <1>5
<1>. HIDE DEF owed, amount
<1>11. Pays(s, Empty, k, amount)
  BY <1>6, <1>7, <1>8, <1>9, <1>10 DEF Pays
<1>. QED
  BY <1>3, <1>4, <1>11 DEF Keeps

LEMMA LeaveSeatGood ==
  ASSUME Good, NEW s \in Seats, LeaveSeat(s)
  PROVE  Keeps(s)
<1>. DEFINE k == seat[s].who
            owed == CashOutAmount(s)
            r == LeaveFolded(s)
<1>1. /\ seat[s] \in Place /\ inHand \in BOOLEAN /\ k \in Users /\ k \in Keys /\ seat[s].here
      /\ seat[s].stack \in Nat /\ seat[s].pendingChips \in Nat /\ seat[s].bet \in Nat
      /\ dealt[s].stack \in Nat /\ handChipAdds[s] \in Nat /\ anteTotal \in Nat
      /\ SeatIsSound(seat[s], inHand, handLeavers[s].key)
  BY SeatFields, KeysAreNot DEF LeaveSeat, IsUser
<1>2. /\ book' = CashOut(book, k, owed)
      /\ balance' = [balance EXCEPT ![k] = @ + owed]
      /\ UNCHANGED <<inHand, dealt, bigBlind, anteTotal, handChipAdds, opened>>
  BY DEF LeaveSeat
<1>3. CASE ~IsInCurrentHand(s)
  <2>1. seat' = [seat EXCEPT ![s] = Empty] /\ UNCHANGED <<handLeavers, unbooked>>
    BY <1>3 DEF LeaveSeat
  <2>2. \A u \in Users : balance'[u] = balance[u] + (IF u = k THEN owed ELSE 0)
    <3>. HIDE DEF owed
    <3>. QED
      BY <1>2 DEF Good, TypeOK
  <2>3. seat[s].status # "empty"
    BY <1>1, EmptyIsSound DEF SeatIsSound
  <2>. QED
    BY <1>2, <1>3, <2>1, <2>2, <2>3, SeatCleared DEF handVars
<1>4. CASE IsInCurrentHand(s)
  <2>1. /\ handLeavers' = [handLeavers EXCEPT ![s] = [key |-> k, stack |-> owed]]
        /\ seat' = [seat EXCEPT ![s] = r]
        /\ unbooked' = IF seat[s].pendingChips > 0 THEN unbooked \cup {k} ELSE unbooked
    BY <1>4 DEF LeaveSeat
  <2>2. inHand /\ seat[s].status = "folded"
    BY <1>4 DEF LeaveSeat, IsInCurrentHand, Playing
  <2>3. owed \in Nat /\ owed = seat[s].stack + seat[s].pendingChips
    BY <1>1 DEF CashOutAmount
  <2>4. /\ r \in Place /\ r.who = k /\ r.status = "folded" /\ r.bet = seat[s].bet /\ ~r.here
        /\ r.stack = 0 /\ r.pendingChips = 0 /\ r.pendingRemoval = "player"
        /\ r.pendingMoveTo = NoSeat /\ ~r.joinsNextHand
    BY <1>1, <2>2 DEF LeaveFolded, Empty, Place
  <2>5. handLeavers'[s].key = k /\ handLeavers'[s].stack = owed /\ handChipAdds'[s] = handChipAdds[s]
    <3>1. handLeavers \in [Seats -> [key : Keys \cup {Nobody}, stack : Nat]]
      BY DEF Good, TypeOK
    <3>. HIDE DEF owed, k
    <3>. QED
      BY <1>2, <2>1, <3>1
  <2>6. \A t \in Seats \ {s} : handLeavers'[t] = handLeavers[t] /\ handChipAdds'[t] = handChipAdds[t]
    BY <1>2, <2>1 DEF Good, TypeOK
  <2>. HIDE DEF r, owed
  <2>7. OneSeat(s, r)
    BY <1>2, <2>1, <2>2, <2>4, <2>6 DEF OneSeat
  <2>8. Fits(s, r)
    BY <1>4, <2>2, <2>4, <2>5 DEF Fits, SeatIsSound, HasLeft, GoneFrom, Playing
  <2>9. \A j \in Keys : /\ book'[j].chips = book[j].chips + (IF j = k THEN -owed ELSE 0)
                        /\ book'[j].net = book[j].net
    <3>1. \A j \in Keys : book[j] \in [chips : Int, net : Int] /\ book \in [Keys -> [chips : Int, net : Int]]
      BY DEF Good, TypeOK
    <3>2. book' = [book EXCEPT ![k].chips = @ - owed]
      BY <1>2 DEF CashOut
    <3>. HIDE DEF k
    <3>. QED
      BY <1>1, <2>3, <3>1, <3>2
  <2>10. \A u \in Users : balance'[u] = balance[u] - (IF u = k THEN -owed ELSE 0)
    BY <1>2, <2>3 DEF Good, TypeOK
  <2>11. k \notin unbooked' =>
            /\ seat[s].pendingChips = 0 /\ k \notin unbooked
    BY <1>1, <2>1
  <2>12. KnownAt(s) = Part(s) + seat[s].pendingChips
    BY <1>1, <1>4 DEF KnownAt, KnownOf
  <2>13. k \notin unbooked' => seat[s].stack + seat[s].bet + AnteOf(s) = Part(s)
    BY <1>1, <1>4, <2>11 DEF Good, Books, StakesAreBooked, StakeOf
  <2>14. AnteOf(s) \in Nat /\ Part(s) = dealt[s].stack + handChipAdds[s]
    BY <1>1 DEF AnteOf, Part
  <2>15. Pays(s, r, k, -owed)
    <3>1. -owed \in Int
      BY <2>3
    <3>2. k \notin unbooked' => owed = seat[s].stack /\ KnownAt(s) = Part(s)
      BY <1>1, <2>3, <2>11, <2>12, <2>14
    <3>3. k \notin unbooked' => StakeOf(r, handLeavers'[s].stack) + AnteOf(s) = dealt[s].stack + handChipAdds'[s]
      BY <1>1, <2>4, <2>5, <2>13, <2>14, <3>2 DEF StakeOf
    <3>4. KnownOf(r, IsInCurrentHand(s), dealt[s].stack + handChipAdds'[s], handLeavers'[s].stack) = Part(s) - owed
      BY <1>4, <2>4, <2>5, <2>14 DEF KnownOf
    <3>5. Part(s) - owed = Part(s) + (-owed)
      BY <1>1, <2>3, <2>14
    <3>6. \A j \in Keys \ unbooked' :
            (IF r.who = j THEN Part(s) - owed ELSE 0)
              = (IF k = j THEN KnownAt(s) ELSE 0) + (IF j = k THEN -owed ELSE 0)
      BY <2>4, <3>2, <3>5
    <3>. QED
      BY <1>2, <2>4, <2>9, <2>10, <3>1, <3>3, <3>4, <3>6 DEF Pays
  <2>. QED
    BY <2>7, <2>8, <2>15 DEF Keeps
<1>. QED
  BY <1>3, <1>4

-----------------------------------------------------------------------------
LEMMA RemoveNowGood ==
  ASSUME Good, NEW s \in Seats, NEW gone, RemoveNow(s, gone)
  PROVE  Keeps(s)
<1>. DEFINE k == seat[s].who
            owed == CashOutAmount(s)
<1>1. /\ seat[s] \in Place /\ k \in Keys
      /\ seat[s].stack \in Nat /\ seat[s].pendingChips \in Nat
      /\ SeatIsSound(seat[s], inHand, handLeavers[s].key)
      /\ seat[s].status # "empty" /\ ~IsInCurrentHand(s)
  BY SeatFields DEF RemoveNow
<1>2. seat[s].here
  BY <1>1 DEF SeatIsSound, IsInCurrentHand, AtRest
<1>3. \A u \in Users : balance'[u] = balance[u] + (IF u = k THEN owed ELSE 0)
  <2>1. balance' = IF k \in Users THEN [balance EXCEPT ![k] = @ + owed] ELSE balance
    BY <1>2 DEF RemoveNow, Credit, IsUser
  <2>2. \A u \in Users : balance[u] \in Nat
    BY DEF Good, TypeOK
  <2>3. balance \in [Users -> Nat]
    BY DEF Good, TypeOK
  <2>4. owed \in Nat
    BY <1>1 DEF CashOutAmount
  <2>. HIDE DEF owed, k
  <2>. QED
    BY <2>1, <2>2, <2>3, <2>4
<1>4. /\ seat' = [seat EXCEPT ![s] = Empty] /\ book' = CashOut(book, k, owed)
      /\ UNCHANGED <<inHand, handVars, opened, unbooked>>
  BY DEF RemoveNow
<1>. QED
  BY <1>1, <1>3, <1>4, SeatCleared

\* Requests that move no chips: the seat's player, chips and part in the hand stay.
SameChips(r, p) ==
  /\ r \in Place /\ r.who = p.who /\ r.stack = p.stack /\ r.bet = p.bet /\ r.here = p.here
  /\ r.pendingChips = p.pendingChips

LEMMA ChipsStay ==
  ASSUME Good, NEW s \in Seats, NEW r, SameChips(r, seat[s]),
         seat' = [seat EXCEPT ![s] = r],
         UNCHANGED <<inHand, handVars, book, balance, opened, unbooked>>,
         SeatIsSound(r, inHand, handLeavers[s].key),
         IsInCurrentHand(s) <=> inHand /\ r.status \in Playing
  PROVE  Keeps(s)
<1>1. OneSeat(s, r)
  BY DEF OneSeat, SameChips, handVars
<1>2. Fits(s, r)
  BY DEF Fits, SameChips, handVars
<1>3. /\ seat[s] \in Place /\ seat[s].stack \in Nat /\ seat[s].pendingChips \in Nat
      /\ dealt[s].stack \in Nat /\ handChipAdds[s] \in Nat /\ handLeavers[s].stack \in Nat
  BY SeatFields
<1>4. KnownOf(r, IsInCurrentHand(s), Part(s), handLeavers[s].stack) = KnownAt(s) /\ KnownAt(s) \in Int
  BY KnownIsInt DEF KnownOf, KnownAt, SameChips, Good
<1>5. IsInCurrentHand(s) /\ r.who \notin unbooked =>
        StakeOf(r, handLeavers[s].stack) + AnteOf(s) = Part(s)
  BY DEF Good, Books, StakesAreBooked, SameChips, StakeOf
<1>6. \A j \in Keys : book[j].chips \in Int
  BY DEF Good, TypeOK
<1>7. \A u \in Users : balance[u] \in Int
  BY DEF Good, TypeOK
<1>8. /\ book' = book /\ balance' = balance /\ opened' = opened /\ unbooked' = unbooked
      /\ dealt[s].stack + handChipAdds'[s] = Part(s) /\ handLeavers' = handLeavers
  BY DEF Part, handVars
<1>9. Pays(s, r, Nobody, 0)
  BY <1>4, <1>5, <1>6, <1>7, <1>8 DEF Pays, SameChips
<1>. QED
  BY <1>1, <1>2, <1>9 DEF Keeps

LEMMA RemoveAfterHandGood ==
  ASSUME Good, NEW s \in Seats, NEW gone, RemoveAfterHand(s, gone)
  PROVE  Keeps(s)
<1>. DEFINE r == [seat[s] EXCEPT !.pendingRemoval = IF gone THEN "seat" ELSE "player",
                                 !.sitsOut = TRUE]
<1>1. /\ seat[s] \in Place /\ SeatIsSound(seat[s], inHand, handLeavers[s].key)
      /\ seat \in [Seats -> Place]
  BY SeatFields DEF Good, TypeOK
<1>2. seat' = [seat EXCEPT ![s] = r]
  BY <1>1 DEF RemoveAfterHand, Place
<1>3. /\ SameChips(r, seat[s]) /\ r.status = seat[s].status
      /\ r.pendingRemoval # "no" /\ r.pendingMoveTo = seat[s].pendingMoveTo
      /\ r.joinsNextHand = seat[s].joinsNextHand
  BY <1>1 DEF Place, SameChips
<1>4. IsInCurrentHand(s) /\ UNCHANGED <<inHand, handVars, book, balance, opened, unbooked>>
  BY DEF RemoveAfterHand
<1>. HIDE DEF r
<1>5. inHand /\ r.status \in Playing /\ r.status # "empty"
  BY <1>3, <1>4 DEF IsInCurrentHand, Playing
<1>6. SeatIsSound(r, inHand, handLeavers[s].key)
  BY <1>1, <1>3, <1>5 DEF SeatIsSound, HasLeft, GoneFrom, SameChips
<1>. QED
  BY <1>2, <1>3, <1>4, <1>5, <1>6, ChipsStay

LEMMA SitOutGood ==
  ASSUME Good, NEW s \in Seats, SitOut(s)
  PROVE  Keeps(s)
<1>. DEFINE status == IF seat[s].status = "active" /\ ~inHand THEN "sitting-out" ELSE seat[s].status
            r == [seat[s] EXCEPT !.sitsOut = TRUE, !.status = status]
<1>1. /\ seat[s] \in Place /\ SeatIsSound(seat[s], inHand, handLeavers[s].key)
      /\ seat \in [Seats -> Place] /\ seat[s].here /\ inHand \in BOOLEAN
  BY SeatFields DEF Good, TypeOK, SitOut, IsUser
<1>2. seat' = [seat EXCEPT ![s] = r]
  BY <1>1 DEF SitOut, Place
<1>3. /\ SameChips(r, seat[s]) /\ r.status = status
      /\ r.pendingRemoval = seat[s].pendingRemoval /\ r.pendingMoveTo = seat[s].pendingMoveTo
      /\ r.joinsNextHand = seat[s].joinsNextHand
  BY <1>1 DEF Place, SameChips
<1>4. UNCHANGED <<inHand, handVars, book, balance, opened, unbooked>>
  BY DEF SitOut
<1>. HIDE DEF r
<1>5. IsInCurrentHand(s) <=> inHand /\ r.status \in Playing
  BY <1>1, <1>3 DEF IsInCurrentHand, Playing
<1>6. seat[s].status # "empty" /\ r.status # "empty"
  BY <1>1, <1>3, EmptyIsSound DEF SeatIsSound
<1>7. SeatIsSound(r, inHand, handLeavers[s].key)
  BY <1>1, <1>3, <1>5, <1>6 DEF SeatIsSound, HasLeft, AtRest, SameChips, IsInCurrentHand
<1>. QED
  BY <1>2, <1>3, <1>4, <1>5, <1>7, ChipsStay

LEMMA SitInGood ==
  ASSUME Good, NEW s \in Seats, SitIn(s)
  PROVE  Keeps(s)
<1>. DEFINE back == seat[s].status = "sitting-out"
            status == IF back /\ ~inHand THEN "active" ELSE seat[s].status
            r == [seat[s] EXCEPT !.sitsOut = FALSE, !.sitsIn = @ \/ (back /\ inHand),
                                 !.status = status]
<1>1. /\ seat[s] \in Place /\ SeatIsSound(seat[s], inHand, handLeavers[s].key)
      /\ seat \in [Seats -> Place] /\ seat[s].here /\ inHand \in BOOLEAN
  BY SeatFields DEF Good, TypeOK, SitIn, IsUser
<1>2. seat' = [seat EXCEPT ![s] = r]
  BY <1>1 DEF SitIn, Place
<1>3. /\ SameChips(r, seat[s]) /\ r.status = status
      /\ r.pendingRemoval = seat[s].pendingRemoval /\ r.pendingMoveTo = seat[s].pendingMoveTo
      /\ r.joinsNextHand = seat[s].joinsNextHand
  BY <1>1 DEF Place, SameChips
<1>4. UNCHANGED <<inHand, handVars, book, balance, opened, unbooked>>
  BY DEF SitIn
<1>. HIDE DEF r
<1>5. IsInCurrentHand(s) <=> inHand /\ r.status \in Playing
  BY <1>1, <1>3 DEF IsInCurrentHand, Playing
<1>6. seat[s].status # "empty" /\ r.status # "empty"
  BY <1>1, <1>3, EmptyIsSound DEF SeatIsSound
<1>7. SeatIsSound(r, inHand, handLeavers[s].key)
  BY <1>1, <1>3, <1>5, <1>6 DEF SeatIsSound, HasLeft, AtRest, SameChips, IsInCurrentHand
<1>. QED
  BY <1>2, <1>3, <1>4, <1>5, <1>7, ChipsStay

\* moveSeat during the hand
LEMMA MoveLaterGood ==
  ASSUME Good, NEW s \in Seats, NEW t \in Seats, ChangeSeat(s, t), IsInCurrentHand(s)
  PROVE  Keeps(s)
<1>. DEFINE r == [seat[s] EXCEPT !.pendingMoveTo = t]
<1>1. /\ seat[s] \in Place /\ SeatIsSound(seat[s], inHand, handLeavers[s].key)
      /\ seat \in [Seats -> Place] /\ seat[s].here /\ inHand \in BOOLEAN
  BY SeatFields DEF Good, TypeOK, ChangeSeat
<1>2. seat' = [seat EXCEPT ![s] = r]
  BY <1>1 DEF ChangeSeat, Place
<1>3. /\ SameChips(r, seat[s]) /\ r.status = seat[s].status
      /\ r.joinsNextHand = seat[s].joinsNextHand
  BY <1>1 DEF Place, SameChips
<1>4. UNCHANGED <<inHand, handVars, book, balance, opened, unbooked>>
  BY DEF ChangeSeat, handVars
<1>. HIDE DEF r
<1>5. inHand /\ r.status \in Playing /\ r.status # "empty"
  BY <1>3 DEF IsInCurrentHand, Playing
<1>6. SeatIsSound(r, inHand, handLeavers[s].key)
  BY <1>1, <1>3, <1>5 DEF SeatIsSound, HasLeft, SameChips
<1>. QED
  BY <1>2, <1>3, <1>4, <1>5, <1>6, ChipsStay

LEMMA AddChipsGood ==
  ASSUME Good, NEW s \in Seats, AddChips(s)
  PROVE  Keeps(s)
<1>. DEFINE p == seat[s]
            k == p.who
            waits == IsInCurrentHand(s) /\ p.status # "folded"
            back == p.status = "sitting-out"
            stack == IF waits THEN p.stack ELSE p.stack + RebuySize
            pending == IF waits THEN p.pendingChips + RebuySize ELSE p.pendingChips
            joins == p.joinsNextHand \/ (back /\ inHand)
            status == IF back /\ ~inHand THEN "active" ELSE p.status
            r == [p EXCEPT !.sitsOut = FALSE, !.pendingChips = pending, !.stack = stack,
                           !.joinsNextHand = joins, !.status = status]
            adds == IF inHand /\ ~waits THEN handChipAdds[s] + RebuySize ELSE handChipAdds[s]
<1>1. /\ p \in Place /\ SeatIsSound(p, inHand, handLeavers[s].key)
      /\ seat \in [Seats -> Place] /\ p.here /\ inHand \in BOOLEAN
      /\ p.stack \in Nat /\ p.pendingChips \in Nat /\ p.bet \in Nat
      /\ dealt[s].stack \in Nat /\ handChipAdds[s] \in Nat /\ anteTotal \in Nat
      /\ handChipAdds \in [Seats -> Nat]
  BY SeatFields DEF Good, TypeOK, AddChips
<1>2. RebuySize \in Nat
  BY TableAssumption
<1>3. /\ seat' = [seat EXCEPT ![s] = r]
      /\ handChipAdds' = IF inHand /\ ~waits THEN [handChipAdds EXCEPT ![s] = @ + RebuySize]
                         ELSE handChipAdds
      /\ book' = BuyIn(book, k, RebuySize)
      /\ UNCHANGED <<inHand, dealt, bigBlind, anteTotal, handLeavers, opened, unbooked>>
  BY DEF AddChips
<1>4. /\ stack \in Nat /\ pending \in Nat /\ joins \in BOOLEAN
      /\ status \in {"empty", "active", "all-in", "folded", "sitting-out"}
  BY <1>1, <1>2 DEF Place
<1>5. p.status # "empty" /\ status # "empty" /\ k \in Keys
  BY <1>1, EmptyIsSound, SeatFields DEF SeatIsSound
<1>6. IsInCurrentHand(s) <=> inHand /\ status \in Playing
  BY <1>1 DEF IsInCurrentHand, Playing
<1>7. inHand /\ status \in Playing => joins = p.joinsNextHand
  BY <1>1 DEF Playing, Place
<1>8. ~IsInCurrentHand(s) => ~waits
  OBVIOUS
<1>9. /\ waits => IsInCurrentHand(s) /\ stack = p.stack /\ pending = p.pendingChips + RebuySize
      /\ ~waits => stack = p.stack + RebuySize /\ pending = p.pendingChips
      /\ waits => adds = handChipAdds[s]
      /\ inHand /\ ~waits => adds = handChipAdds[s] + RebuySize
  OBVIOUS
<1>10. handChipAdds'[s] = adds /\ \A t \in Seats \ {s} : handChipAdds'[t] = handChipAdds[t]
  <2>. HIDE DEF waits
  <2>. QED
    BY <1>1, <1>3
<1>11. ~inHand => handChipAdds' = handChipAdds
  BY <1>3
<1>12. joins => inHand \/ p.joinsNextHand
  OBVIOUS
<1>. HIDE DEF stack, pending, joins, status, waits, back, adds
<1>13. /\ r \in Place /\ r.who = k /\ r.stack = stack /\ r.bet = p.bet /\ r.here
       /\ r.pendingChips = pending /\ r.status = status /\ r.joinsNextHand = joins
       /\ r.pendingRemoval = p.pendingRemoval /\ r.pendingMoveTo = p.pendingMoveTo
  BY <1>1, <1>4 DEF Place
<1>. HIDE DEF r
<1>14. OneSeat(s, r)
  BY <1>3, <1>10, <1>11, <1>13 DEF OneSeat
<1>15. SeatIsSound(r, inHand, handLeavers[s].key)
  <2>1. ~(inHand /\ status \in Playing) => AtRest(r)
    BY <1>1, <1>6, <1>8, <1>9, <1>13 DEF SeatIsSound, AtRest, IsInCurrentHand
  <2>2. ~HasLeft(r) /\ ~HasLeft(p)
    BY <1>1, <1>13 DEF HasLeft
  <2>. QED
    BY <1>1, <1>5, <1>12, <1>13, <2>1, <2>2 DEF SeatIsSound
<1>16. Fits(s, r)
  BY <1>1, <1>3, <1>6, <1>13, <1>15 DEF Fits
<1>17. KnownOf(r, IsInCurrentHand(s), dealt[s].stack + adds, handLeavers[s].stack) = KnownAt(s) + RebuySize
  <2>1. CASE IsInCurrentHand(s)
    <3>1. /\ KnownOf(r, IsInCurrentHand(s), dealt[s].stack + adds, handLeavers[s].stack)
               = dealt[s].stack + adds + pending
          /\ KnownAt(s) = dealt[s].stack + handChipAdds[s] + p.pendingChips /\ inHand
      BY <1>1, <1>13, <2>1 DEF KnownOf, KnownAt, Part, IsInCurrentHand
    <3>. QED
      BY <1>1, <1>2, <1>9, <3>1
  <2>2. CASE ~IsInCurrentHand(s)
    <3>1. /\ KnownOf(r, IsInCurrentHand(s), dealt[s].stack + adds, handLeavers[s].stack) = stack + pending
          /\ KnownAt(s) = p.stack + p.pendingChips
      BY <1>1, <1>13, <2>2 DEF KnownOf, KnownAt
    <3>. QED
      BY <1>1, <1>2, <1>8, <1>9, <2>2, <3>1
  <2>. QED
    BY <2>1, <2>2
<1>18. IsInCurrentHand(s) /\ k \notin unbooked =>
         StakeOf(r, handLeavers[s].stack) + AnteOf(s) = dealt[s].stack + adds
  <2>. SUFFICES ASSUME IsInCurrentHand(s), k \notin unbooked
                PROVE  stack + p.bet + AnteOf(s) = dealt[s].stack + adds
    BY <1>13 DEF StakeOf
  <2>1. p.stack + p.bet + AnteOf(s) = dealt[s].stack + handChipAdds[s]
    BY <1>1 DEF Good, Books, StakesAreBooked, StakeOf, Part
  <2>2. AnteOf(s) \in Nat /\ inHand
    BY <1>1 DEF AnteOf, IsInCurrentHand
  <2>. QED
    BY <1>1, <1>2, <1>9, <2>1, <2>2
<1>19. \A j \in Keys : /\ book'[j].chips = book[j].chips + (IF j = k THEN RebuySize ELSE 0)
                       /\ book'[j].net = book[j].net
  BY <1>2, <1>3, <1>5 DEF BuyIn, Good, TypeOK
<1>20. \A u \in Users : balance'[u] = balance[u] - (IF u = k THEN RebuySize ELSE 0)
  <2>1. balance' = IF k \in Users THEN [balance EXCEPT ![k] = @ + (-RebuySize)] ELSE balance
    BY <1>1 DEF AddChips, Credit, IsUser
  <2>2. balance \in [Users -> Nat]
    BY DEF Good, TypeOK
  <2>. QED
    BY <1>2, <2>1, <2>2
<1>21. Pays(s, r, k, RebuySize)
  BY <1>2, <1>3, <1>10, <1>13, <1>17, <1>18, <1>19, <1>20, KnownIsInt DEF Pays, Good
<1>. QED
  BY <1>14, <1>16, <1>21 DEF Keeps

-----------------------------------------------------------------------------
\* Steps that touch no seat, no hand and no chips.
LEMMA NothingMoves ==
  ASSUME Sound, Books, UNCHANGED <<inHand, seat, handVars, book, balance, opened, unbooked>>
  PROVE  Sound' /\ Books'
<1>1. Sound'
  BY DEF handVars, Sound, SeatsAreSound, HandIsClear, OneSeatEach, OnePartEach, IsInCurrentHand,
         Tracked, NobodyDealt, NothingAdded, NobodyLeft
<1>2. StakesAreBooked' /\ BalanceIsBooked'
  BY DEF handVars, Books, StakesAreBooked, BalanceIsBooked, IsInCurrentHand, StakeOf, AnteOf, Part
<1>3. ASSUME NEW k \in Keys \ unbooked PROVE KnownOfPlayer(k)' = KnownOfPlayer(k)
  BY DEF handVars, KnownOfPlayer, KnownAt, KnownOf, IsInCurrentHand, Part
<1>4. ChipsAreBooked'
  BY <1>3 DEF Books, ChipsAreBooked
<1>. QED
  BY <1>1, <1>2, <1>4 DEF Books

\* moveSeat out of a hand
LEMMA MoveNowGood ==
  ASSUME Good, NEW from \in Seats, NEW to \in Seats, ChangeSeat(from, to), ~IsInCurrentHand(from),
         Typed'
  PROVE  Sound' /\ Books'
<1>. DEFINE r == [seat[from] EXCEPT !.pendingMoveTo = NoSeat]
<1>1. /\ seat[from] \in Place /\ SeatIsSound(seat[from], inHand, handLeavers[from].key)
      /\ seat \in [Seats -> Place] /\ seat[from].here /\ inHand \in BOOLEAN /\ from # to
  BY SeatFields DEF Good, TypeOK, ChangeSeat
<1>2. /\ seat[to] = Empty /\ seat[to].who = Nobody /\ ~seat[to].here /\ seat[to].status = "empty"
      /\ handLeavers[to].key = Nobody /\ ~IsInCurrentHand(to)
  BY SeatIsEmpty DEF ChangeSeat, Usable
<1>3. /\ seat' = Moved(seat, from, to) /\ ChipAddsMove(from, to)
      /\ UNCHANGED <<inHand, dealt, bigBlind, anteTotal, handLeavers, book, balance, opened, unbooked>>
  BY DEF ChangeSeat
<1>4. AtRest(seat[from]) /\ handLeavers[from].key = Nobody /\ seat[from].status # "empty"
  BY <1>1, EmptyIsSound DEF SeatIsSound, IsInCurrentHand, HasLeft
<1>5. /\ r \in Place /\ r.who = seat[from].who /\ r.status = seat[from].status
      /\ r.stack = seat[from].stack /\ r.pendingChips = 0 /\ r.bet = 0 /\ r.here
      /\ r.joinsNextHand = seat[from].joinsNextHand /\ AtRest(r)
  BY <1>1, <1>4 DEF Place, AtRest
<1>6. /\ seat'[to] = r /\ seat'[from] = Empty
      /\ \A t \in Seats \ {from, to} : seat'[t] = seat[t]
  BY <1>1, <1>3 DEF Moved
<1>. HIDE DEF r
<1>7. ~inHand => handChipAdds' = handChipAdds
  <2>. SUFFICES ASSUME ~inHand PROVE handChipAdds' = handChipAdds
    OBVIOUS
  <2>1. handChipAdds = NothingAdded
    BY DEF Good, Sound, HandIsClear
  <2>2. handChipAdds' = [handChipAdds EXCEPT ![from] = 0, ![to] = handChipAdds[to]]
    BY <1>3, <2>1 DEF ChipAddsMove, NothingAdded
  <2>. QED
    BY <2>1, <2>2 DEF NothingAdded
<1>8. \A t \in Seats \ {from, to} : handChipAdds'[t] = handChipAdds[t]
  BY <1>3 DEF ChipAddsMove, Good, TypeOK
<1>9. \A t \in Seats : inHand /\ seat'[t].status \in Playing =>
        t \notin {from, to} /\ seat'[t] = seat[t] /\ seat[t].status \in Playing
  BY <1>2, <1>5, <1>6, EmptyIsSound DEF IsInCurrentHand
<1>10. SeatsAreSound'
  <2>1. SeatIsSound(r, inHand, Nobody)
    BY <1>1, <1>4, <1>5 DEF SeatIsSound, HasLeft
  <2>2. SeatIsSound(Empty, inHand, Nobody)
    BY <1>1, EmptyIsSound
  <2>. QED
    BY <1>2, <1>3, <1>4, <1>6, <2>1, <2>2 DEF Good, Sound, SeatsAreSound
<1>11. HandIsClear'
  <2>1. CASE inHand
    <3>1. bigBlind \in Seats /\ IsInCurrentHand(bigBlind)
      BY <2>1 DEF Good, Sound, HandIsClear
    <3>2. bigBlind \notin {from, to}
      BY <1>2, <3>1
    <3>. QED
      BY <1>3, <1>6, <2>1, <3>1, <3>2 DEF HandIsClear, IsInCurrentHand
  <2>2. CASE ~inHand
    <3>1. /\ ~inHand' /\ dealt' = dealt /\ anteTotal' = anteTotal
          /\ handChipAdds' = handChipAdds /\ handLeavers' = handLeavers
      BY <1>3, <1>7, <2>2
    <3>2. /\ dealt = NobodyDealt /\ anteTotal = 0
          /\ handChipAdds = NothingAdded /\ handLeavers = NobodyLeft
      BY <2>2 DEF Good, Sound, HandIsClear
    <3>3. /\ dealt' = NobodyDealt /\ anteTotal' = 0
          /\ handChipAdds' = NothingAdded /\ handLeavers' = NobodyLeft
      BY <3>1, <3>2
    <3>. QED
      BY <3>1, <3>3 DEF HandIsClear, NobodyDealt, NothingAdded, NobodyLeft
  <2>. QED
    BY <2>1, <2>2
<1>12. \A k : k \in Tracked' => k \in Tracked
  BY <1>3 DEF Tracked
<1>13. OneSeatEach'
  <2>. SUFFICES ASSUME NEW x \in Seats, NEW y \in Seats, seat'[x].here, seat'[y].here,
                       seat'[x].who = seat'[y].who, seat'[x].who \in Tracked'
                PROVE  x = y
    BY DEF OneSeatEach
  <2>. DEFINE Old(t) == IF t = to THEN from ELSE t
  <2>1. \A t \in Seats : seat'[t].here =>
          t # from /\ Old(t) \in Seats /\ seat[Old(t)].here /\ seat[Old(t)].who = seat'[t].who
    BY <1>1, <1>5, <1>6, EmptyIsSound
  <2>2. Old(x) = Old(y)
    <3>. HIDE DEF Old
    <3>. QED
      BY <1>12, <2>1 DEF Good, Sound, OneSeatEach
  <2>. QED
    BY <2>1, <2>2
<1>14. OnePartEach'
  <2>. SUFFICES ASSUME NEW x \in Seats, NEW y \in Seats, IsInCurrentHand(x)', IsInCurrentHand(y)',
                       seat'[x].who = seat'[y].who, seat'[x].who \in Tracked'
                PROVE  x = y
    BY DEF OnePartEach
  <2>1. /\ IsInCurrentHand(x) /\ IsInCurrentHand(y)
        /\ seat[x].who = seat'[x].who /\ seat[y].who = seat'[y].who
    BY <1>3, <1>9 DEF IsInCurrentHand
  <2>. QED
    BY <1>12, <2>1 DEF Good, Sound, OnePartEach
<1>15. KnownAt(from) = seat[from].stack /\ KnownAt(to) = 0
  BY <1>1, <1>2, <1>4 DEF KnownAt, KnownOf, AtRest, Place
<1>16. KnownAt(from)' = 0
  BY <1>6, EmptyIsSound DEF KnownAt, KnownOf, IsInCurrentHand
<1>17. KnownAt(to)' = seat[from].stack
  <2>1. ~IsInCurrentHand(to)'
    BY <1>3, <1>9 DEF IsInCurrentHand
  <2>. QED
    BY <1>1, <1>5, <1>6, <2>1 DEF KnownAt, KnownOf, Place
<1>18. \A t \in Seats \ {from, to} : KnownAt(t)' = KnownAt(t)
  BY <1>3, <1>6, <1>8 DEF KnownAt, KnownOf, Part, IsInCurrentHand
<1>19. ChipsAreBooked'
  <2>. SUFFICES ASSUME NEW j \in Keys \ unbooked' PROVE Sum(KnownOfPlayer(j)', Seats) = book'[j].chips
    BY DEF ChipsAreBooked
  <2>. DEFINE f == KnownOfPlayer(j)
              g == [t \in Seats |-> IF seat'[t].who = j THEN KnownAt(t)' ELSE 0]
  <2>1. KnownOfPlayer(j)' = g
    BY DEF KnownOfPlayer
  <2>2. \A t \in Seats : f[t] \in Int
    BY KnownIsInt DEF KnownOfPlayer, Good
  <2>3. \A t \in Seats : g[t] \in Int
    BY KnownIsIntNext
  <2>4. \A t \in Seats \ {from, to} : g[t] = f[t]
    BY <1>6, <1>18 DEF KnownOfPlayer
  <2>5. g[to] = f[from] /\ g[from] = 0 /\ f[to] = 0
    BY <1>2, <1>5, <1>6, <1>15, <1>16, <1>17, KeysAreNot, EmptyIsSound DEF KnownOfPlayer
  <2>6. Sum(f, Seats) = book[j].chips /\ book[j].chips \in Int /\ book' = book
    BY <1>3 DEF Good, Books, ChipsAreBooked, TypeOK
  <2>. HIDE DEF f, g
  <2>7. Sum(g, Seats) = Sum(f, Seats) + (g[from] - f[from]) + (g[to] - f[to])
    BY <1>1, <2>2, <2>3, <2>4, SeatsFinite, SumChangesAtTwo
  <2>8. f[from] \in Int
    BY <2>2
  <2>. QED
    BY <2>1, <2>5, <2>6, <2>7, <2>8
<1>20. StakesAreBooked'
  <2>. SUFFICES ASSUME NEW t \in Seats, IsInCurrentHand(t)', seat'[t].who \notin unbooked'
                PROVE  (StakeOf(seat[t], handLeavers[t].stack) + AnteOf(t) = Part(t))'
    BY DEF StakesAreBooked
  <2>1. t \notin {from, to} /\ seat'[t] = seat[t] /\ IsInCurrentHand(t)
    BY <1>3, <1>9 DEF IsInCurrentHand
  <2>2. StakeOf(seat[t], handLeavers[t].stack) + AnteOf(t) = Part(t)
    BY <1>3, <2>1 DEF Good, Books, StakesAreBooked
  <2>. QED
    BY <1>3, <1>8, <2>1, <2>2 DEF StakeOf, AnteOf, Part
<1>21. BalanceIsBooked'
  BY <1>3 DEF Good, Books, BalanceIsBooked
<1>. QED
  BY <1>10, <1>11, <1>13, <1>14, <1>19, <1>20, <1>21 DEF Sound, Books

-----------------------------------------------------------------------------
\* The deal.  What waits for the end of a hand does not come up before one.
Idle(q, p) ==
  /\ SameChips(q, p) /\ q.pendingRemoval = p.pendingRemoval /\ q.pendingMoveTo = p.pendingMoveTo
  /\ q.joinsNextHand = p.joinsNextHand
  /\ q.status = "empty" <=> p.status = "empty"
  /\ p = Empty => q = Empty

\* Two seats with the same of everything are the same.
LEMMA SamePlace ==
  ASSUME NEW p \in Place, NEW q \in Place,
         p.who = q.who, p.status = q.status, p.stack = q.stack, p.bet = q.bet, p.here = q.here,
         p.pendingChips = q.pendingChips, p.pendingRemoval = q.pendingRemoval,
         p.pendingMoveTo = q.pendingMoveTo, p.joinsNextHand = q.joinsNextHand,
         p.sitsOut = q.sitsOut, p.sitsIn = q.sitsIn
  PROVE  p = q
BY DEF Place

LEMMA PreparedIsIdle ==
  ASSUME NEW p \in Place
  PROVE  Idle(Prepared(p), p)
<1>1. /\ Prepared(p) \in Place /\ Prepared(p).who = p.who /\ Prepared(p).stack = p.stack
      /\ Prepared(p).pendingMoveTo = p.pendingMoveTo
      /\ Prepared(p).status = "empty" <=> p.status = "empty"
  BY PreparedIsPlace
<1>2. /\ Prepared(p).bet = p.bet /\ Prepared(p).here = p.here
      /\ Prepared(p).pendingChips = p.pendingChips
      /\ Prepared(p).pendingRemoval = p.pendingRemoval
      /\ Prepared(p).joinsNextHand = p.joinsNextHand
  BY DEF Prepared, Place
<1>3. p = Empty => Prepared(p) = Empty
  <2>. SUFFICES ASSUME p = Empty PROVE Prepared(p) = p
    OBVIOUS
  <2>1. p.status = "empty" /\ ~p.sitsIn
    BY DEF Empty
  <2>2. Prepared(p).status = p.status /\ Prepared(p).sitsIn = p.sitsIn
    BY <2>1 DEF Prepared, SitsOutNext, Playing, Place
  <2>3. Prepared(p).sitsOut = p.sitsOut
    BY DEF Prepared, Place
  <2>. QED
    BY <1>1, <1>2, <2>2, <2>3, SamePlace
<1>. QED
  BY <1>1, <1>2, <1>3 DEF Idle, SameChips

LEMMA ForNewHandIsIdle ==
  ASSUME NEW p \in Place
  PROVE  Idle(ForNewHand(Prepared(p)), p)
<1>. DEFINE q == Prepared(p)
            r == ForNewHand(q)
<1>1. q \in Place /\ Idle(q, p)
  BY PreparedIsPlace, PreparedIsIdle
<1>2. ReadyToPlay(r, p)
  BY ForNewHandIsReady
<1>. HIDE DEF q
<1>3. /\ r.bet = q.bet /\ r.here = q.here
      /\ r.pendingChips = q.pendingChips /\ r.pendingRemoval = q.pendingRemoval
      /\ r.joinsNextHand = q.joinsNextHand
  BY <1>1 DEF ForNewHand, Place
<1>4. q = Empty => r = Empty
  <2>. SUFFICES ASSUME q = Empty PROVE r = q
    OBVIOUS
  <2>1. q.status = "empty"
    BY EmptyIsPlace
  <2>2. /\ r.status = q.status /\ r.sitsIn = q.sitsIn /\ r.sitsOut = q.sitsOut
        /\ r.who = q.who /\ r.stack = q.stack /\ r.pendingMoveTo = q.pendingMoveTo
    BY <1>1, <2>1 DEF ForNewHand, Place
  <2>3. r \in Place
    BY <1>2 DEF ReadyToPlay
  <2>. HIDE DEF r
  <2>. QED
    BY <1>1, <1>3, <2>2, <2>3, SamePlace
<1>. HIDE DEF r
<1>5. Idle(r, p)
  BY <1>1, <1>2, <1>3, <1>4 DEF Idle, SameChips, ReadyToPlay
<1>. QED
  BY <1>5 DEF r, q

LEMMA PutInFields ==
  ASSUME NEW p \in Place, NEW amount \in Nat, amount <= p.stack
  PROVE  /\ PutIn(p, amount).stack = p.stack - amount /\ PutIn(p, amount).here = p.here
         /\ PutIn(p, amount).pendingChips = p.pendingChips /\ PutIn(p, amount).bet = p.bet
         /\ PutIn(p, amount).pendingRemoval = p.pendingRemoval
         /\ PutIn(p, amount).joinsNextHand = p.joinsNextHand
BY DEF PutIn, Place

LEMMA AwardedFields ==
  ASSUME NEW at \in [Seats -> Place], NEW middle, NEW won \in Awards(at, middle), NEW s \in Seats
  PROVE  /\ Awarded(at, won)[s].bet = 0
         /\ Awarded(at, won)[s].here = at[s].here
         /\ Awarded(at, won)[s].pendingChips = at[s].pendingChips
         /\ Awarded(at, won)[s].joinsNextHand = at[s].joinsNextHand
         /\ Awarded(at, won)[s].stack = at[s].stack + IF s \in Contending(at) THEN won[s] ELSE 0
         /\ s \in Contending(at) => won[s] \in 0 .. middle
         /\ at[s] = Empty => Awarded(at, won)[s] = Empty
<1>. DEFINE more == IF s \in Contending(at) THEN won[s] ELSE 0
            chips == at[s].stack + more
            r == [at[s] EXCEPT !.bet = 0, !.stack = chips]
<1>1. won \in [Contending(at) -> 0 .. middle] /\ at[s] \in Place
  BY DEF Awards
<1>2. Awarded(at, won)[s] = r
  BY <1>1 DEF Awarded
<1>. HIDE DEF chips
<1>3. /\ r.bet = 0 /\ r.here = at[s].here /\ r.pendingChips = at[s].pendingChips
      /\ r.joinsNextHand = at[s].joinsNextHand /\ r.stack = chips
  BY <1>1 DEF Place
<1>4. at[s] = Empty => r = Empty
  <2>. SUFFICES ASSUME at[s] = Empty PROVE r = Empty
    OBVIOUS
  <2>1. s \notin Contending(at) /\ at[s].stack = 0 /\ at[s].bet = 0
    BY EmptyIsPlace, EmptyIsSound DEF Contending, Empty
  <2>2. chips = at[s].stack
    BY <2>1 DEF chips
  <2>3. /\ r \in Place /\ r.who = at[s].who /\ r.status = at[s].status
        /\ r.pendingRemoval = at[s].pendingRemoval /\ r.pendingMoveTo = at[s].pendingMoveTo
        /\ r.sitsOut = at[s].sitsOut /\ r.sitsIn = at[s].sitsIn
    BY <1>1, <2>2 DEF Place
  <2>. HIDE DEF r
  <2>4. r = at[s]
    BY <1>1, <1>3, <2>1, <2>2, <2>3, SamePlace
  <2>. QED
    BY <2>4
<1>. QED
  BY <1>1, <1>2, <1>3, <1>4 DEF chips

\* Between two hands: seats wait, with the chips they have, and the book with them.
LEMMA BetweenHandsGood ==
  ASSUME Good, ~inHand, Typed', inHand' = inHand,
         dealt' = NobodyDealt, anteTotal' = 0, handChipAdds' = NothingAdded, handLeavers' = NobodyLeft,
         UNCHANGED <<book, balance, opened>>, unbooked \subseteq unbooked',
         \A s \in Seats : /\ seat'[s].who = seat[s].who /\ seat'[s].here = seat[s].here
                          /\ AtRest(seat'[s]) /\ ~seat'[s].joinsNextHand
                          /\ seat'[s].status = "empty" => seat'[s] = Empty
                          /\ seat[s].who \notin unbooked' => seat'[s].stack = seat[s].stack
  PROVE  Sound' /\ Books'
<1>1. \A s \in Seats : SeatIsSound(seat[s], inHand, handLeavers[s].key) /\ ~IsInCurrentHand(s)
  BY DEF Good, Sound, SeatsAreSound, IsInCurrentHand
<1>2. \A s \in Seats : ~IsInCurrentHand(s)'
  BY DEF IsInCurrentHand
<1>3. SeatsAreSound'
  <2>1. \A s \in Seats : handLeavers'[s].key = Nobody
    BY DEF NobodyLeft
  <2>2. \A s \in Seats : ~HasLeft(seat'[s])
    BY DEF HasLeft, AtRest
  <2>. QED
    BY <2>1, <2>2 DEF SeatsAreSound, SeatIsSound
<1>4. HandIsClear'
  BY DEF HandIsClear, NobodyDealt, NothingAdded, NobodyLeft
<1>5. \A k : k \in Tracked' => k \in Tracked
  BY DEF Tracked
<1>6. OneSeatEach' /\ OnePartEach'
  BY <1>2, <1>5 DEF OneSeatEach, OnePartEach, Good, Sound
<1>7. \A s \in Seats : seat[s].who \notin unbooked' => KnownAt(s)' = KnownAt(s)
  <2>. SUFFICES ASSUME NEW s \in Seats, seat[s].who \notin unbooked' PROVE KnownAt(s)' = KnownAt(s)
    OBVIOUS
  <2>1. AtRest(seat[s]) /\ ~IsInCurrentHand(s)
    BY <1>1 DEF SeatIsSound
  <2>2. ~IsInCurrentHand(s)' /\ seat'[s].pendingChips = 0 /\ seat[s].pendingChips = 0
    BY <1>2, <2>1 DEF AtRest
  <2>. QED
    BY <2>1, <2>2 DEF KnownAt, KnownOf
<1>8. ChipsAreBooked'
  <2>. SUFFICES ASSUME NEW j \in Keys \ unbooked' PROVE Sum(KnownOfPlayer(j)', Seats) = book'[j].chips
    BY DEF ChipsAreBooked
  <2>. DEFINE f == KnownOfPlayer(j)
              g == [t \in Seats |-> IF seat'[t].who = j THEN KnownAt(t)' ELSE 0]
  <2>1. KnownOfPlayer(j)' = g
    BY DEF KnownOfPlayer
  <2>2. \A t \in Seats : g[t] = f[t]
    BY <1>7 DEF KnownOfPlayer
  <2>3. Sum(f, Seats) = book'[j].chips
    BY DEF Good, Books, ChipsAreBooked
  <2>. HIDE DEF f, g
  <2>. QED
    BY <2>1, <2>2, <2>3, SeatsFinite, SumsAgree
<1>9. StakesAreBooked'
  BY <1>2 DEF StakesAreBooked
<1>10. BalanceIsBooked'
  BY DEF Good, Books, BalanceIsBooked
<1>. QED
  BY <1>3, <1>4, <1>6, <1>8, <1>9, <1>10 DEF Sound, Books

-----------------------------------------------------------------------------
LEMMA DealGood ==
  ASSUME Good, ~inHand, NEW at \in [Seats -> Place],
         \A s \in Seats : ReadyToPlay(at[s], seat[s]) /\ Idle(at[s], seat[s]),
         Deal(at), UNCHANGED <<book, balance, opened>>, Typed'
  PROVE  Sound' /\ Books'
<1>. DEFINE ring == {s \in Seats : at[s].status = "active" /\ at[s].stack > 0}
<1>1. PICK bb \in ring :
        LET ante == Min({Ante, at[bb].stack})
            blind == Min({1, at[bb].stack - ante})
            posted == [at EXCEPT ![bb] = [PutIn(at[bb], ante + blind) EXCEPT !.bet = blind]]
        IN  /\ bigBlind' = bb
            /\ handChipAdds' = NothingAdded /\ handLeavers' = NobodyLeft
            /\ \/ /\ inHand' = TRUE /\ seat' = posted /\ anteTotal' = ante
                  /\ dealt' = [s \in Seats |-> [who |-> seat[s].who, stack |-> seat[s].stack]]
                  /\ UNCHANGED unbooked
               \/ /\ \E won \in Awards(posted, ante + blind) : seat' = Awarded(posted, won)
                  /\ anteTotal' = 0 /\ dealt' = NobodyDealt
                  /\ unbooked' = unbooked \cup {at[s].who : s \in ring}
                  /\ UNCHANGED inHand
  BY DEF Deal
<1>. DEFINE ante == Min({Ante, at[bb].stack})
            blind == Min({1, at[bb].stack - ante})
            first == PutIn(at[bb], ante + blind)
            paid == [first EXCEPT !.bet = blind]
            posted == [at EXCEPT ![bb] = paid]
<1>2. bb \in Seats /\ at[bb] \in Place /\ at[bb].stack \in Nat /\ at[bb].status = "active"
  BY DEF Place
<1>3. ante \in Nat /\ ante <= at[bb].stack
  BY <1>2, MinOfTwo, TableAssumption
<1>4. blind \in Nat /\ ante + blind <= at[bb].stack /\ ante + blind \in Nat
  <2>. HIDE DEF ante
  <2>1. at[bb].stack - ante \in Nat
    BY <1>2, <1>3
  <2>2. blind = IF 1 <= at[bb].stack - ante THEN 1 ELSE at[bb].stack - ante
    BY <2>1, MinOfTwo
  <2>. QED
    BY <1>2, <1>3, <2>1, <2>2
<1>5. /\ first \in Place /\ first.who = at[bb].who
      /\ first.pendingMoveTo = at[bb].pendingMoveTo
      /\ first.status \in {"active", "all-in"}
      /\ first.stack = at[bb].stack - (ante + blind) /\ first.here = at[bb].here
      /\ first.pendingChips = at[bb].pendingChips
      /\ first.pendingRemoval = at[bb].pendingRemoval
      /\ first.joinsNextHand = at[bb].joinsNextHand
  BY <1>2, <1>4, PutInIsPlace, PutInFields
<1>. HIDE DEF first, ante, blind
<1>6. /\ paid \in Place /\ paid.bet = blind /\ paid.who = at[bb].who
      /\ paid.pendingMoveTo = at[bb].pendingMoveTo
      /\ paid.status = first.status /\ paid.stack = at[bb].stack - (ante + blind)
      /\ paid.here = at[bb].here
      /\ paid.pendingChips = at[bb].pendingChips
      /\ paid.pendingRemoval = at[bb].pendingRemoval
      /\ paid.joinsNextHand = at[bb].joinsNextHand
  BY <1>4, <1>5 DEF Place
<1>. HIDE DEF paid
<1>7. /\ posted \in [Seats -> Place] /\ posted[bb] = paid
      /\ \A s \in Seats \ {bb} : posted[s] = at[s]
  BY <1>2, <1>6
<1>8. \A s \in Seats : /\ AtRest(seat[s]) /\ ~seat[s].joinsNextHand /\ ~IsInCurrentHand(s)
                       /\ seat[s].status = "empty" => seat[s] = Empty
                       /\ seat[s].stack \in Nat
  BY DEF Good, Sound, SeatsAreSound, SeatIsSound, IsInCurrentHand, TypeOK, Place
<1>9. \A s \in Seats : /\ at[s].who = seat[s].who /\ at[s].here = seat[s].here
                       /\ at[s].stack = seat[s].stack /\ AtRest(at[s]) /\ ~at[s].joinsNextHand
                       /\ at[s].status = "empty" => seat[s].status = "empty" /\ at[s] = Empty
                       /\ at[s].status \in Playing => at[s].status = "active" /\ at[s].stack > 0
  BY <1>8 DEF ReadyToPlay, Idle, SameChips, AtRest
<1>. HIDE DEF posted
<1>10. \A s \in Seats : /\ posted[s].who = seat[s].who /\ posted[s].here = seat[s].here
                        /\ posted[s].status # "empty" => posted[s].here
                        /\ posted[s].pendingChips = 0 /\ posted[s].pendingRemoval = "no"
                        /\ posted[s].pendingMoveTo = NoSeat /\ ~posted[s].joinsNextHand
                        /\ posted[s].status = "empty" => posted[s] = Empty
                        /\ s # bb => posted[s].bet = 0 /\ posted[s].stack = seat[s].stack
  BY <1>2, <1>5, <1>6, <1>7, <1>9 DEF AtRest
<1>11. posted[bb].status \in Playing /\ posted[bb].bet = blind
       /\ posted[bb].stack = seat[bb].stack - (ante + blind)
  BY <1>2, <1>5, <1>6, <1>7, <1>9 DEF Playing
<1>12. CASE /\ inHand' = TRUE /\ seat' = posted /\ anteTotal' = ante /\ bigBlind' = bb
            /\ handChipAdds' = NothingAdded /\ handLeavers' = NobodyLeft
            /\ dealt' = [s \in Seats |-> [who |-> seat[s].who, stack |-> seat[s].stack]]
            /\ UNCHANGED unbooked
  <2>1. \A s \in Seats : handLeavers'[s].key = Nobody /\ handChipAdds'[s] = 0
    BY <1>12 DEF NothingAdded, NobodyLeft
  <2>2. SeatsAreSound'
    <3>. SUFFICES ASSUME NEW s \in Seats PROVE SeatIsSound(posted[s], TRUE, Nobody)
      BY <1>12, <2>1 DEF SeatsAreSound
    <3>1. ~HasLeft(posted[s])
      BY <1>10 DEF HasLeft
    <3>2. posted[s].status \notin Playing => AtRest(posted[s])
      BY <1>10, <1>11 DEF AtRest
    <3>. QED
      BY <1>10, <3>1, <3>2 DEF SeatIsSound
  <2>3. HandIsClear'
    BY <1>2, <1>11, <1>12 DEF HandIsClear, IsInCurrentHand
  <2>4. Tracked' = Tracked
    BY <1>12 DEF Tracked
  <2>5. OneSeatEach'
    BY <1>10, <1>12, <2>4 DEF OneSeatEach, Good, Sound
  <2>6. OnePartEach'
    <3>. SUFFICES ASSUME NEW x \in Seats, NEW y \in Seats, IsInCurrentHand(x)', IsInCurrentHand(y)',
                         seat'[x].who = seat'[y].who, seat'[x].who \in Tracked'
                  PROVE  x = y
      BY DEF OnePartEach
    <3>1. seat'[x].here /\ seat'[y].here
      BY <1>10, <1>12 DEF IsInCurrentHand, Playing
    <3>. QED
      BY <2>5, <3>1 DEF OneSeatEach
  <2>7. ASSUME NEW s \in Seats PROVE KnownAt(s)' = KnownAt(s)
    <3>1. KnownAt(s) = IF seat[s].here THEN seat[s].stack ELSE 0
      BY <1>8 DEF KnownAt, KnownOf, AtRest
    <3>2. CASE posted[s].status \in Playing
      <4>1. IsInCurrentHand(s)' /\ posted[s].here
        BY <1>10, <1>12, <3>2 DEF IsInCurrentHand, Playing
      <4>2. Part(s)' = seat[s].stack
        BY <1>8, <1>12, <2>1 DEF Part
      <4>. QED
        BY <1>8, <1>10, <1>12, <3>1, <4>1, <4>2 DEF KnownAt, KnownOf
    <3>3. CASE posted[s].status \notin Playing
      <4>1. ~IsInCurrentHand(s)' /\ s # bb
        BY <1>11, <1>12, <3>3 DEF IsInCurrentHand
      <4>. QED
        BY <1>8, <1>10, <1>12, <3>1, <4>1 DEF KnownAt, KnownOf
    <3>. QED
      BY <3>2, <3>3
  <2>8. ChipsAreBooked'
    <3>. SUFFICES ASSUME NEW j \in Keys \ unbooked' PROVE Sum(KnownOfPlayer(j)', Seats) = book'[j].chips
      BY DEF ChipsAreBooked
    <3>. DEFINE f == KnownOfPlayer(j)
                g == [t \in Seats |-> IF seat'[t].who = j THEN KnownAt(t)' ELSE 0]
    <3>1. KnownOfPlayer(j)' = g
      BY DEF KnownOfPlayer
    <3>2. \A t \in Seats : g[t] = f[t]
      BY <1>10, <1>12, <2>7 DEF KnownOfPlayer
    <3>3. Sum(f, Seats) = book'[j].chips
      BY <1>12 DEF Good, Books, ChipsAreBooked
    <3>. HIDE DEF f, g
    <3>. QED
      BY <3>1, <3>2, <3>3, SeatsFinite, SumsAgree
  <2>9. StakesAreBooked'
    <3>. SUFFICES ASSUME NEW s \in Seats, IsInCurrentHand(s)', seat'[s].who \notin unbooked'
                  PROVE  (StakeOf(seat[s], handLeavers[s].stack) + AnteOf(s) = Part(s))'
      BY DEF StakesAreBooked
    <3>1. posted[s].here
      BY <1>10, <1>12 DEF IsInCurrentHand, Playing
    <3>2. Part(s)' = seat[s].stack
      BY <1>8, <1>12, <2>1 DEF Part
    <3>3. CASE s = bb
      <4>1. seat'[s].stack = seat[s].stack - (ante + blind) /\ seat'[s].bet = blind /\ AnteOf(s)' = ante
        BY <1>11, <1>12, <3>3 DEF AnteOf
      <4>. QED
        BY <1>3, <1>4, <1>8, <1>12, <3>1, <3>2, <4>1 DEF StakeOf
    <3>4. CASE s # bb
      <4>1. seat'[s].stack = seat[s].stack /\ seat'[s].bet = 0 /\ AnteOf(s)' = 0
        BY <1>10, <1>12, <3>4 DEF AnteOf
      <4>. QED
        BY <1>8, <1>12, <3>1, <3>2, <4>1 DEF StakeOf
    <3>. QED
      BY <3>3, <3>4
  <2>10. BalanceIsBooked'
    BY DEF Good, Books, BalanceIsBooked
  <2>. QED
    BY <2>2, <2>3, <2>5, <2>6, <2>8, <2>9, <2>10 DEF Sound, Books
<1>13. CASE /\ \E won \in Awards(posted, ante + blind) : seat' = Awarded(posted, won)
            /\ handChipAdds' = NothingAdded /\ handLeavers' = NobodyLeft
            /\ anteTotal' = 0 /\ dealt' = NobodyDealt
            /\ unbooked' = unbooked \cup {at[s].who : s \in ring}
            /\ UNCHANGED inHand
  <2>1. PICK won \in Awards(posted, ante + blind) : seat' = Awarded(posted, won)
    BY <1>13
  <2>2. ASSUME NEW s \in Seats
        PROVE  /\ seat'[s].who = seat[s].who /\ seat'[s].here = seat[s].here
               /\ AtRest(seat'[s]) /\ ~seat'[s].joinsNextHand
               /\ seat'[s].status = "empty" => seat'[s] = Empty
    <3>1. /\ seat'[s].who = posted[s].who
          /\ seat'[s].status = posted[s].status
          /\ seat'[s].pendingMoveTo = posted[s].pendingMoveTo
          /\ seat'[s].pendingRemoval = posted[s].pendingRemoval
      BY <1>7, <2>1, AwardedIsPlace
    <3>2. /\ seat'[s].bet = 0
          /\ seat'[s].here = posted[s].here
          /\ seat'[s].pendingChips = posted[s].pendingChips
          /\ seat'[s].joinsNextHand = posted[s].joinsNextHand
          /\ posted[s] = Empty => seat'[s] = Empty
      BY <1>7, <2>1, AwardedFields
    <3>. QED
      BY <1>10, <3>1, <3>2 DEF AtRest
  <2>3. ASSUME NEW s \in Seats, seat[s].who \notin unbooked' PROVE seat'[s].stack = seat[s].stack
    <3>1. s \notin ring
      BY <1>9, <1>13, <2>3
    <3>2. posted[s] = at[s] /\ s # bb
      BY <1>7, <3>1
    <3>3. s \notin Contending(posted)
      BY <1>9, <3>1, <3>2 DEF Contending, Playing
    <3>4. seat'[s].stack = posted[s].stack + 0
      BY <1>7, <2>1, <3>3, AwardedFields
    <3>. QED
      BY <1>8, <1>10, <3>2, <3>4
  <2>4. unbooked \subseteq unbooked' /\ inHand' = inHand
    BY <1>13
  <2>. QED
    BY <1>13, <2>2, <2>3, <2>4, BetweenHandsGood
<1>. QED
  BY <1>1, <1>12, <1>13 DEF first, ante, blind, paid, posted

LEMMA StartHandGood ==
  ASSUME Good, StartHand, Typed'
  PROVE  Sound' /\ Books'
<1>. DEFINE prepared == [s \in Seats |-> Prepared(seat[s])]
            at == [s \in Seats |-> ForNewHand(prepared[s])]
<1>1. ~inHand /\ UNCHANGED <<removed, book, balance, opened>>
  BY DEF StartHand, CanStartHand
<1>2. \A s \in Seats : seat[s] \in Place
  BY DEF Good, TypeOK
<1>3. CASE CanStartHand(prepared)
  <2>1. Deal(at)
    BY <1>3 DEF StartHand
  <2>2. \A s \in Seats : ReadyToPlay(at[s], seat[s]) /\ Idle(at[s], seat[s])
    BY <1>2, ForNewHandIsReady, ForNewHandIsIdle
  <2>3. at \in [Seats -> Place]
    BY <2>2 DEF ReadyToPlay
  <2>. HIDE DEF at
  <2>. QED
    BY <1>1, <2>1, <2>2, <2>3, DealGood
<1>4. CASE ~CanStartHand(prepared)
  <2>1. seat' = prepared /\ UNCHANGED <<inHand, handVars, unbooked>>
    BY <1>4 DEF StartHand
  <2>2. \A s \in Seats : Idle(seat'[s], seat[s])
    BY <1>2, <2>1, PreparedIsIdle
  <2>3. \A s \in Seats : /\ AtRest(seat[s]) /\ ~seat[s].joinsNextHand
                         /\ seat[s].status = "empty" => seat[s] = Empty
    BY <1>1 DEF Good, Sound, SeatsAreSound, SeatIsSound
  <2>4. \A s \in Seats : /\ seat'[s].who = seat[s].who /\ seat'[s].here = seat[s].here
                         /\ AtRest(seat'[s]) /\ ~seat'[s].joinsNextHand
                         /\ seat'[s].status = "empty" => seat'[s] = Empty
                         /\ seat'[s].stack = seat[s].stack
    BY <2>2, <2>3 DEF Idle, SameChips, AtRest
  <2>5. /\ dealt = NobodyDealt /\ anteTotal = 0
        /\ handChipAdds = NothingAdded /\ handLeavers = NobodyLeft
    BY <1>1 DEF Good, Sound, HandIsClear
  <2>6. /\ dealt' = NobodyDealt /\ anteTotal' = 0 /\ inHand' = inHand
        /\ handChipAdds' = NothingAdded /\ handLeavers' = NobodyLeft /\ unbooked \subseteq unbooked'
    BY <2>1, <2>5 DEF handVars
  <2>. QED
    BY <1>1, <2>4, <2>6, BetweenHandsGood
<1>. QED
  BY <1>3, <1>4

-----------------------------------------------------------------------------
\* A turn.
LEMMA TurnFields ==
  ASSUME NEW p \in Place, p.status = "active", p.stack > 0, NEW r \in Turns(p)
  PROVE  /\ r \in Place /\ r.who = p.who /\ r.pendingMoveTo = p.pendingMoveTo
         /\ r.status \in Playing
         /\ r.stack + r.bet = p.stack + p.bet /\ r.here = p.here
         /\ r.pendingChips = p.pendingChips /\ r.pendingRemoval = p.pendingRemoval
         /\ r.joinsNextHand = p.joinsNextHand
<1>1. /\ r \in Place /\ r.who = p.who /\ r.pendingMoveTo = p.pendingMoveTo
      /\ r.status \in Playing
  BY TurnsArePlaces
<1>2. CASE r = p
  BY <1>1, <1>2
<1>3. CASE r = [p EXCEPT !.status = "folded"]
  <2>1. /\ r.stack = p.stack /\ r.bet = p.bet /\ r.here = p.here
        /\ r.pendingChips = p.pendingChips /\ r.pendingRemoval = p.pendingRemoval
        /\ r.joinsNextHand = p.joinsNextHand
    BY <1>3 DEF Place
  <2>. QED
    BY <1>1, <2>1
<1>4. CASE r = [PutIn(p, 1) EXCEPT !.bet = p.bet + 1]
  <2>. DEFINE q == PutIn(p, 1)
  <2>1. p.stack \in Nat /\ p.bet \in Nat /\ p.bet + 1 \in Nat
    BY DEF Place
  <2>2. /\ q \in Place /\ q.stack = p.stack - 1 /\ q.here = p.here
        /\ q.pendingChips = p.pendingChips /\ q.bet = p.bet
        /\ q.pendingRemoval = p.pendingRemoval
        /\ q.joinsNextHand = p.joinsNextHand
    <3>1. 1 <= p.stack
      BY <2>1
    <3>. QED
      BY <3>1, PutInIsPlace, PutInFields
  <2>. HIDE DEF q
  <2>3. /\ r.stack = q.stack /\ r.bet = p.bet + 1 /\ r.here = q.here
        /\ r.pendingChips = q.pendingChips /\ r.pendingRemoval = q.pendingRemoval
        /\ r.joinsNextHand = q.joinsNextHand
    BY <1>4, <2>1, <2>2 DEF q, Place
  <2>. QED
    BY <1>1, <2>1, <2>2, <2>3
<1>. QED
  BY <1>2, <1>3, <1>4 DEF Turns

\* Whose turn it is has not left.
LEMMA ActorIsHere ==
  ASSUME Good, inHand, NEW s \in Seats, seat[s].status = "active"
  PROVE  /\ IsInCurrentHand(s) /\ seat[s].here /\ seat[s].stack > 0 /\ handLeavers[s].key = Nobody
         /\ seat[s] \in Place
<1>1. SeatIsSound(seat[s], inHand, handLeavers[s].key) /\ seat[s] \in Place
  BY SeatFields
<1>2. ~HasLeft(seat[s])
  BY <1>1 DEF SeatIsSound, GoneFrom
<1>. QED
  BY <1>1, <1>2 DEF SeatIsSound, HasLeft, IsInCurrentHand, Playing, Good, IInv, ActiveHasChips

LEMMA TurnGood ==
  ASSUME Good, inHand, NEW s \in Seats, seat[s].status = "active", NEW r \in Turns(seat[s]),
         seat' = [seat EXCEPT ![s] = r],
         UNCHANGED <<inHand, handVars, book, balance, opened, unbooked>>
  PROVE  Keeps(s)
<1>1. /\ IsInCurrentHand(s) /\ seat[s].here /\ handLeavers[s].key = Nobody
      /\ seat[s] \in Place /\ seat[s].stack > 0
  BY ActorIsHere
<1>2. /\ r \in Place /\ r.who = seat[s].who /\ r.pendingMoveTo = seat[s].pendingMoveTo
      /\ r.status \in Playing
      /\ r.stack + r.bet = seat[s].stack + seat[s].bet /\ r.here = seat[s].here
      /\ r.pendingChips = seat[s].pendingChips /\ r.pendingRemoval = seat[s].pendingRemoval
      /\ r.joinsNextHand = seat[s].joinsNextHand
  BY <1>1, TurnFields
<1>3. OneSeat(s, r)
  BY <1>2 DEF OneSeat, handVars
<1>4. SeatIsSound(r, inHand, Nobody)
  BY <1>1, <1>2 DEF SeatIsSound, HasLeft, Playing
<1>5. Fits(s, r)
  BY <1>1, <1>2, <1>4 DEF Fits, handVars
<1>6. KnownOf(r, IsInCurrentHand(s), Part(s), handLeavers[s].stack) = KnownAt(s) /\ KnownAt(s) \in Int
  BY <1>1, <1>2, KnownIsInt DEF KnownOf, KnownAt, Good
<1>7. r.who \notin unbooked => StakeOf(r, handLeavers[s].stack) + AnteOf(s) = Part(s)
  BY <1>1, <1>2 DEF Good, Books, StakesAreBooked, StakeOf
<1>8. /\ \A j \in Keys : book[j].chips \in Int
      /\ \A u \in Users : balance[u] \in Int
  BY DEF Good, TypeOK
<1>9. /\ book' = book /\ balance' = balance /\ opened' = opened /\ unbooked' = unbooked
      /\ dealt[s].stack + handChipAdds'[s] = Part(s) /\ handLeavers' = handLeavers
  BY DEF Part, handVars
<1>10. Pays(s, r, Nobody, 0)
  BY <1>2, <1>6, <1>7, <1>8, <1>9 DEF Pays
<1>. QED
  BY <1>3, <1>5, <1>10 DEF Keeps

\* fin: the table when the middle has been paid out.
PaidOff(fin) ==
  /\ fin \in [Seats -> Place]
  /\ \A t \in Seats :
       /\ fin[t].who = seat[t].who /\ fin[t].here = seat[t].here /\ fin[t].bet = 0
       /\ fin[t].pendingChips = seat[t].pendingChips
       /\ fin[t].pendingRemoval = seat[t].pendingRemoval
       /\ fin[t].pendingMoveTo = seat[t].pendingMoveTo
       /\ fin[t].joinsNextHand = seat[t].joinsNextHand
       /\ fin[t].status \in Playing <=> seat[t].status \in Playing
       /\ fin[t].status = "empty" <=> seat[t].status = "empty"
       /\ fin[t].status = "empty" => fin[t] = Empty
       /\ seat[t].status \notin Playing \/ ~seat[t].here => fin[t].stack = seat[t].stack

LEMMA HandIsPaidOff ==
  ASSUME Good, inHand, NEW s \in Seats, seat[s].status = "active", NEW r \in Turns(seat[s]),
         NEW middle, NEW won \in Awards([seat EXCEPT ![s] = r], middle)
  PROVE  PaidOff(Awarded([seat EXCEPT ![s] = r], won))
<1>. DEFINE after == [seat EXCEPT ![s] = r]
            fin == Awarded(after, won)
<1>1. /\ IsInCurrentHand(s) /\ seat[s].here /\ seat[s] \in Place /\ seat[s].stack > 0
      /\ seat \in [Seats -> Place]
  BY ActorIsHere DEF Good, TypeOK
<1>2. /\ r \in Place /\ r.who = seat[s].who /\ r.pendingMoveTo = seat[s].pendingMoveTo
      /\ r.status \in Playing /\ r.here = seat[s].here
      /\ r.pendingChips = seat[s].pendingChips /\ r.pendingRemoval = seat[s].pendingRemoval
      /\ r.joinsNextHand = seat[s].joinsNextHand
  BY <1>1, TurnFields
<1>3. /\ after \in [Seats -> Place] /\ after[s] = r
      /\ \A t \in Seats \ {s} : after[t] = seat[t]
  BY <1>1, <1>2
<1>. HIDE DEF after
<1>4. ASSUME NEW t \in Seats
      PROVE  /\ fin[t] \in Place /\ fin[t].who = after[t].who /\ fin[t].status = after[t].status
             /\ fin[t].pendingMoveTo = after[t].pendingMoveTo
             /\ fin[t].pendingRemoval = after[t].pendingRemoval
             /\ fin[t].here = after[t].here /\ fin[t].bet = 0
             /\ fin[t].pendingChips = after[t].pendingChips
             /\ fin[t].joinsNextHand = after[t].joinsNextHand
             /\ t \notin Contending(after) => fin[t].stack = after[t].stack + 0
             /\ after[t] = Empty => fin[t] = Empty
  <2>1. won \in Awards(after, middle)
    BY DEF after
  <2>. QED
    BY <1>3, <2>1, AwardedIsPlace, AwardedFields
<1>5. fin \in [Seats -> Place]
  BY <1>4 DEF Awarded
<1>. HIDE DEF fin
<1>6. ASSUME NEW t \in Seats
      PROVE  /\ fin[t].who = seat[t].who /\ fin[t].here = seat[t].here /\ fin[t].bet = 0
             /\ fin[t].pendingChips = seat[t].pendingChips
             /\ fin[t].pendingRemoval = seat[t].pendingRemoval
             /\ fin[t].pendingMoveTo = seat[t].pendingMoveTo
             /\ fin[t].joinsNextHand = seat[t].joinsNextHand
             /\ fin[t].status \in Playing <=> seat[t].status \in Playing
             /\ fin[t].status = "empty" <=> seat[t].status = "empty"
             /\ fin[t].status = "empty" => fin[t] = Empty
             /\ seat[t].status \notin Playing \/ ~seat[t].here => fin[t].stack = seat[t].stack
  <2>1. CASE t = s
    <3>1. seat[s].status \in Playing /\ "empty" \notin Playing
      BY DEF Playing
    <3>. QED
      BY <1>1, <1>2, <1>3, <1>4, <2>1, <3>1
  <2>2. CASE t # s
    <3>1. after[t] = seat[t] /\ seat[t] \in Place /\ SeatIsSound(seat[t], inHand, handLeavers[t].key)
      BY <1>3, <2>2, SeatFields
    <3>2. seat[t].status = "empty" => seat[t] = Empty
      BY <3>1 DEF SeatIsSound
    <3>3. seat[t].status \notin Playing \/ ~seat[t].here => t \notin Contending(after)
      BY <3>1 DEF Contending, Playing, SeatIsSound, HasLeft, GoneFrom
    <3>4. seat[t].stack \in Nat
      BY <3>1 DEF Place
    <3>. QED
      BY <1>4, <3>1, <3>2, <3>3, <3>4
  <2>. QED
    BY <2>1, <2>2
<1>7. PaidOff(fin)
  BY <1>5, <1>6 DEF PaidOff
<1>. QED
  BY <1>7 DEF fin, after

-----------------------------------------------------------------------------
\* bookHand: the seats that are booked are the seats that were in the hand.
LEMMA MaxIsIn ==
  ASSUME NEW T \in SUBSET Seats, T # {}
  PROVE  Max(T) \in T
<1>1. MaxSeats \in Nat /\ T \in SUBSET (0 .. MaxSeats)
  BY TableAssumption DEF Seats
<1>2. \E n \in T : \A m \in T : n >= m
  BY <1>1, GreatestOf
<1>. QED
  BY <1>2 DEF Max

LEMMA PlayersAreBooked ==
  ASSUME Good, inHand, NEW fin, PaidOff(fin), NEW s \in Seats
  PROVE  /\ PlayedHand(s, fin) <=> IsInCurrentHand(s)
         /\ IsInCurrentHand(s) => /\ dealt[s].who = seat[s].who /\ seat[s].who \in Keys
                                  /\ Left(s) <=> ~seat[s].here
<1>1. /\ SeatIsSound(seat[s], inHand, handLeavers[s].key)
      /\ seat[s].status # "empty" => seat[s].who \in Keys
  BY SeatFields
<1>2. /\ fin[s].who = seat[s].who
      /\ fin[s].status \in Playing <=> seat[s].status \in Playing
  BY DEF PaidOff
<1>3. IsInCurrentHand(s) => dealt[s].who = seat[s].who /\ dealt[s].who # Nobody /\ seat[s].status # "empty"
  BY DEF Good, IInv, OnlyDealtInPlay, IsInCurrentHand, Playing
<1>4. dealt[s].who # Nobody /\ Left(s) => HasLeft(seat[s])
  BY <1>1 DEF Left, SeatIsSound
<1>5. HasLeft(seat[s]) => IsInCurrentHand(s)
  BY <1>1 DEF SeatIsSound, GoneFrom, IsInCurrentHand, Playing
<1>6. IsInCurrentHand(s) => (Left(s) <=> ~seat[s].here)
  BY <1>1, <1>3, <1>4 DEF SeatIsSound, HasLeft, Left
<1>7. PlayedHand(s, fin) => IsInCurrentHand(s)
  BY <1>2, <1>4, <1>5 DEF PlayedHand, IsInCurrentHand
<1>8. IsInCurrentHand(s) => PlayedHand(s, fin)
  BY <1>2, <1>3 DEF PlayedHand, IsInCurrentHand
<1>. QED
  BY <1>1, <1>3, <1>6, <1>7, <1>8

LEMMA ResultsAreInts ==
  ASSUME Good, inHand, NEW fin, PaidOff(fin), NEW k \in DOMAIN Results(fin)
  PROVE  Results(fin)[k] \in Int
<1>. DEFINE played == {s \in Seats : PlayedHand(s, fin)}
            seats == {s \in played : dealt[s].who = k}
<1>1. /\ k \in {dealt[s].who : s \in played}
      /\ Results(fin)[k] = ResultOf(Max(seats), fin)
  BY DEF Results
<1>2. seats \in SUBSET Seats /\ seats # {}
  BY <1>1
<1>. HIDE DEF seats
<1>3. Max(seats) \in Seats
  BY <1>2, MaxIsIn
<1>4. \A s \in Seats : ResultOf(s, fin) \in Int
  <2>. SUFFICES ASSUME NEW s \in Seats PROVE ResultOf(s, fin) \in Int
    OBVIOUS
  <2>1. /\ handLeavers[s].stack \in Nat /\ handChipAdds[s] \in Nat /\ dealt[s].stack \in Nat
        /\ fin[s].stack \in Nat
    BY SeatFields DEF PaidOff, Place
  <2>. QED
    BY <2>1 DEF ResultOf
<1>. QED
  BY <1>1, <1>3, <1>4

\* The chips a player has in front of them at seats `at`.
Held(at, k) ==
  [s \in Seats |-> IF at[s].who = k /\ at[s].here THEN at[s].stack + at[s].pendingChips ELSE 0]

\* With the hand booked, the book has what a player came out of it with.
LEMMA HandIsBooked ==
  ASSUME Good, inHand, NEW fin, PaidOff(fin), NEW k \in Keys \ unbooked
  PROVE  RecordHand(book, Results(fin))[k].chips = Sum(Held(fin, k), Seats)
<1>. DEFINE played == {s \in Seats : PlayedHand(s, fin)}
            f == KnownOfPlayer(k)
            g == Held(fin, k)
            booked == RecordHand(book, Results(fin))
<1>1. Sum(f, Seats) = book[k].chips /\ book[k].chips \in Int
  BY DEF Good, Books, ChipsAreBooked, TypeOK
<1>2. \A s \in Seats : f[s] \in Int
  BY KnownIsInt DEF KnownOfPlayer, Good
<1>3. \A s \in Seats : g[s] \in Int
  BY DEF Held, PaidOff, Place
<1>4. \A s \in Seats : ~IsInCurrentHand(s) => g[s] = f[s]
  <2>. SUFFICES ASSUME NEW s \in Seats, ~IsInCurrentHand(s) PROVE g[s] = f[s]
    OBVIOUS
  <2>1. /\ fin[s].who = seat[s].who /\ fin[s].here = seat[s].here
        /\ fin[s].pendingChips = seat[s].pendingChips /\ fin[s].stack = seat[s].stack
    BY DEF PaidOff, IsInCurrentHand
  <2>. QED
    BY <2>1 DEF Held, KnownOfPlayer, KnownAt, KnownOf
<1>5. played = {s \in Seats : IsInCurrentHand(s)}
  BY PlayersAreBooked
<1>6. \A s \in Seats : IsInCurrentHand(s) => dealt[s].who = seat[s].who
  BY PlayersAreBooked
<1>7. k \in Tracked
  BY DEF Tracked
<1>. HIDE DEF f, g, played
<1>8. CASE \A s \in played : seat[s].who # k
  <2>1. k \notin DOMAIN Results(fin)
    <3>1. DOMAIN Results(fin) = {dealt[s].who : s \in played}
      BY DEF Results, played
    <3>. QED
      BY <1>5, <1>6, <1>8, <3>1
  <2>2. booked[k] = book[k]
    BY <2>1 DEF RecordHand, Good, TypeOK
  <2>3. \A s \in Seats : g[s] = f[s]
    <3>1. \A s \in Seats : IsInCurrentHand(s) => f[s] = 0 /\ g[s] = 0
      <4>. SUFFICES ASSUME NEW s \in Seats, IsInCurrentHand(s) PROVE f[s] = 0 /\ g[s] = 0
        OBVIOUS
      <4>1. seat[s].who # k /\ fin[s].who = seat[s].who
        BY <1>5, <1>8 DEF PaidOff
      <4>. QED
        BY <4>1 DEF f, g, KnownOfPlayer, Held
    <3>. QED
      BY <1>4, <3>1
  <2>4. Sum(f, Seats) = Sum(g, Seats)
    BY <2>3, SeatsFinite, SumsAgree
  <2>. QED
    BY <1>1, <2>2, <2>4 DEF g
<1>9. ASSUME NEW s \in played, seat[s].who = k PROVE booked[k].chips = Sum(g, Seats)
  <2>1. s \in Seats /\ IsInCurrentHand(s) /\ dealt[s].who = k
    BY <1>5, <1>6, <1>9
  <2>2. \A t \in Seats : IsInCurrentHand(t) /\ seat[t].who = k => t = s
    BY <1>7, <1>9, <2>1 DEF Good, Sound, OnePartEach
  <2>3. {t \in played : dealt[t].who = k} = {s}
    BY <1>5, <1>6, <1>9, <2>1, <2>2
  <2>4. Max({s}) = s
    <3>1. {s} \in SUBSET Seats /\ {s} # {}
      BY <2>1
    <3>2. Max({s}) \in {s}
      BY <3>1, MaxIsIn
    <3>. QED
      BY <3>2
  <2>5. k \in DOMAIN Results(fin) /\ Results(fin)[k] = ResultOf(s, fin)
    <3>1. k \in {dealt[t].who : t \in played}
      BY <2>1
    <3>2. Results(fin) = [j \in {dealt[t].who : t \in played} |->
                            ResultOf(Max({t \in played : dealt[t].who = j}), fin)]
      BY DEF Results, played
    <3>. QED
      BY <2>3, <2>4, <3>1, <3>2
  <2>6. booked[k].chips = book[k].chips + ResultOf(s, fin)
    BY <2>5 DEF RecordHand, Good, TypeOK
  <2>7. g[s] = f[s] + ResultOf(s, fin)
    <3>1. /\ handLeavers[s].stack \in Nat /\ handChipAdds[s] \in Nat /\ dealt[s].stack \in Nat
          /\ fin[s].stack \in Nat /\ fin[s].pendingChips \in Nat
          /\ fin[s].who = seat[s].who /\ fin[s].here = seat[s].here
          /\ fin[s].pendingChips = seat[s].pendingChips
      BY <2>1, SeatFields DEF PaidOff, Place
    <3>2. Left(s) <=> ~seat[s].here
      BY <2>1, PlayersAreBooked
    <3>3. CASE seat[s].here
      <4>1. /\ f[s] = dealt[s].stack + handChipAdds[s] + fin[s].pendingChips
            /\ g[s] = fin[s].stack + fin[s].pendingChips
            /\ ResultOf(s, fin) = fin[s].stack - handChipAdds[s] - dealt[s].stack
        BY <1>9, <2>1, <3>1, <3>2, <3>3
           DEF f, g, KnownOfPlayer, Held, KnownAt, KnownOf, Part, ResultOf
      <4>. QED
        BY <3>1, <4>1
    <3>4. CASE ~seat[s].here
      <4>1. /\ f[s] = dealt[s].stack + handChipAdds[s] - handLeavers[s].stack
            /\ g[s] = 0
            /\ ResultOf(s, fin) = handLeavers[s].stack - handChipAdds[s] - dealt[s].stack
        BY <1>9, <2>1, <3>1, <3>2, <3>4
           DEF f, g, KnownOfPlayer, Held, KnownAt, KnownOf, Part, ResultOf
      <4>. QED
        BY <3>1, <4>1
    <3>. QED
      BY <3>3, <3>4
  <2>8. \A t \in Seats \ {s} : g[t] = f[t]
    <3>. SUFFICES ASSUME NEW t \in Seats \ {s}, IsInCurrentHand(t) PROVE g[t] = f[t]
      BY <1>4
    <3>1. seat[t].who # k /\ fin[t].who = seat[t].who
      BY <2>2 DEF PaidOff
    <3>. QED
      BY <3>1 DEF f, g, KnownOfPlayer, Held
  <2>9. Sum(g, Seats) = Sum(f, Seats) + (g[s] - f[s])
    BY <1>2, <1>3, <2>1, <2>8, SeatsFinite, SumChangesAt
  <2>10. f[s] \in Int /\ g[s] \in Int /\ ResultOf(s, fin) \in Int
    BY <1>2, <1>3, <2>1, <2>5, ResultsAreInts
  <2>. QED
    BY <1>1, <2>6, <2>7, <2>9, <2>10
<1>. QED
  BY <1>8, <1>9 DEF g

-----------------------------------------------------------------------------
\* applyHandEndChanges, for one seat.
LEMMA SettledFields ==
  ASSUME NEW p \in Place, NEW q, q = Settled(p)
  PROVE  /\ p.pendingRemoval # "no" => q = Empty
         /\ p.pendingRemoval = "no" =>
              /\ q.who = p.who /\ q.here = p.here /\ q.stack = p.stack + p.pendingChips
              /\ q.pendingChips = 0 /\ q.bet = p.bet /\ q.pendingRemoval = "no"
              /\ q.pendingMoveTo = p.pendingMoveTo /\ ~q.joinsNextHand
              /\ q.status = "empty" <=> p.status = "empty"
         /\ p = Empty => q = Empty
<1>1. CASE p.pendingRemoval # "no"
  BY <1>1 DEF Settled
<1>2. CASE p.pendingRemoval = "no"
  <2>. DEFINE joins == /\ p.joinsNextHand /\ p.status = "sitting-out" /\ ~p.sitsOut
                       /\ p.stack + p.pendingChips > 0
              status == IF joins THEN "active" ELSE p.status
              chips == p.stack + p.pendingChips
              r == [p EXCEPT !.stack = chips, !.pendingChips = 0, !.joinsNextHand = FALSE,
                             !.status = status]
  <2>1. q = r
    BY <1>2 DEF Settled
  <2>2. chips \in Nat /\ status \in {"empty", "active", "all-in", "folded", "sitting-out"}
    BY DEF Place
  <2>3. status = "empty" <=> p.status = "empty"
    OBVIOUS
  <2>4. p = Empty => chips = p.stack /\ status = p.status /\ p.pendingChips = 0 /\ p.joinsNextHand = FALSE
    BY DEF Empty
  <2>. HIDE DEF status, chips
  <2>5. /\ r \in Place /\ r.who = p.who /\ r.here = p.here /\ r.stack = chips
        /\ r.pendingChips = 0 /\ r.bet = p.bet /\ r.pendingRemoval = p.pendingRemoval
        /\ r.pendingMoveTo = p.pendingMoveTo /\ r.joinsNextHand = FALSE /\ r.status = status
        /\ r.sitsOut = p.sitsOut /\ r.sitsIn = p.sitsIn
    BY <2>2 DEF Place
  <2>. HIDE DEF r
  <2>6. p = Empty => r = p
    BY <2>4, <2>5, SamePlace
  <2>. QED
    BY <1>2, <2>1, <2>3, <2>5, <2>6 DEF chips
<1>. QED
  BY <1>1, <1>2

\* The moves after the hand: nobody is moved onto anybody.
LEMMA MoversAreApart ==
  ASSUME NEW at \in [Seats -> Place], \A t \in Seats : at[t].here => at[t].status # "empty",
         NEW gone, NEW m \in Moves(at, gone)
  PROVE  /\ m \in Seats /\ at[m].here
         /\ at[m].pendingMoveTo \in Seats /\ at[m].pendingMoveTo \notin gone
         /\ at[at[m].pendingMoveTo].status = "empty"
         /\ \A x \in Seats : at[x].pendingMoveTo = at[m].pendingMoveTo => x = m
<1>. DEFINE to == at[m].pendingMoveTo
            but == [at EXCEPT ![m].pendingMoveTo = NoSeat]
<1>1. /\ m \in Seats /\ at[m].here /\ to # NoSeat /\ Usable(to, but, gone)
      /\ at[m] \in Place
  BY DEF Moves
<1>2. to \in Seats
  BY <1>1 DEF Place
<1>3. /\ \A x \in Seats \ {m} : but[x] = at[x]
      /\ but[m].status = at[m].status
  BY <1>1 DEF Place
<1>4. to \notin gone /\ but[to].status = "empty" /\ \A x \in Seats : but[x].pendingMoveTo # to
  BY <1>1 DEF Usable
<1>. HIDE DEF but
<1>5. at[to].status = "empty"
  BY <1>2, <1>3, <1>4
<1>. QED
  BY <1>1, <1>2, <1>3, <1>4, <1>5

Stay(p) == [p EXCEPT !.pendingMoveTo = NoSeat]
GoesTo(at, gone, o) == IF o \in Moves(at, gone) THEN at[o].pendingMoveTo ELSE o

LEMMA StayFields ==
  ASSUME NEW p \in Place
  PROVE  /\ Stay(p) \in Place /\ Stay(p).who = p.who /\ Stay(p).here = p.here
         /\ Stay(p).stack = p.stack /\ Stay(p).pendingChips = p.pendingChips
         /\ Stay(p).bet = p.bet /\ Stay(p).pendingRemoval = p.pendingRemoval
         /\ Stay(p).pendingMoveTo = NoSeat /\ Stay(p).joinsNextHand = p.joinsNextHand
         /\ Stay(p).status = p.status
         /\ p = Empty => Stay(p) = Empty
<1>1. /\ Stay(p) \in Place /\ Stay(p).who = p.who /\ Stay(p).here = p.here
      /\ Stay(p).stack = p.stack /\ Stay(p).pendingChips = p.pendingChips
      /\ Stay(p).bet = p.bet /\ Stay(p).pendingRemoval = p.pendingRemoval
      /\ Stay(p).pendingMoveTo = NoSeat /\ Stay(p).joinsNextHand = p.joinsNextHand
      /\ Stay(p).status = p.status
      /\ Stay(p).sitsOut = p.sitsOut /\ Stay(p).sitsIn = p.sitsIn
  BY DEF Stay, Place
<1>2. p = Empty => Stay(p) = p
  BY <1>1, EmptyIsPlace, SamePlace
<1>. QED
  BY <1>1, <1>2

\* Where everybody is after the moves.
LEMMA AfterMovesAt ==
  ASSUME NEW at \in [Seats -> Place], \A t \in Seats : at[t].here => at[t].status # "empty",
         NEW gone, NEW s \in Seats
  PROVE  /\ at[s].here => /\ GoesTo(at, gone, s) \in Seats
                          /\ AfterMoves(at, gone)[GoesTo(at, gone, s)] = Stay(at[s])
         /\ \/ AfterMoves(at, gone)[s] = Empty /\ s \in Moves(at, gone)
            \/ \E o \in Seats : GoesTo(at, gone, o) = s /\ AfterMoves(at, gone)[s] = Stay(at[o])
<1>. DEFINE movers == Moves(at, gone)
            targets == {at[m].pendingMoveTo : m \in movers}
            Mover(t) == CHOOSE m \in movers : at[m].pendingMoveTo = t
            after == AfterMoves(at, gone)
            Dest(o) == GoesTo(at, gone, o)
<1>1. \A t \in Seats : after[t] = IF t \in targets THEN Stay(at[Mover(t)])
                                  ELSE IF t \in movers THEN Empty ELSE Stay(at[t])
  BY DEF AfterMoves, Stay
<1>2. \A m \in movers : /\ m \in Seats /\ at[m].here
                        /\ at[m].pendingMoveTo \in Seats
                        /\ at[at[m].pendingMoveTo].status = "empty"
                        /\ \A x \in Seats : at[x].pendingMoveTo = at[m].pendingMoveTo => x = m
  BY MoversAreApart
<1>3. \A t \in targets : Mover(t) \in movers /\ at[Mover(t)].pendingMoveTo = t
  <2>. SUFFICES ASSUME NEW t \in targets PROVE Mover(t) \in movers /\ at[Mover(t)].pendingMoveTo = t
    OBVIOUS
  <2>1. \E m \in movers : at[m].pendingMoveTo = t
    OBVIOUS
  <2>. QED
    BY <2>1
<1>4. \A m \in movers : at[m].pendingMoveTo \in targets /\ Mover(at[m].pendingMoveTo) = m
  <2>. SUFFICES ASSUME NEW m \in movers
                PROVE  at[m].pendingMoveTo \in targets /\ Mover(at[m].pendingMoveTo) = m
    OBVIOUS
  <2>1. at[m].pendingMoveTo \in targets
    OBVIOUS
  <2>. HIDE DEF movers, targets, Mover
  <2>. QED
    BY <1>2, <1>3, <2>1
<1>5. \A t \in targets : at[t].status = "empty" /\ ~at[t].here
  BY <1>2
<1>6. \A o : Dest(o) = IF o \in movers THEN at[o].pendingMoveTo ELSE o
  BY DEF GoesTo
<1>. HIDE DEF movers, targets, Mover, after, Dest
<1>7. at[s].here => Dest(s) \in Seats /\ after[Dest(s)] = Stay(at[s])
  BY <1>1, <1>2, <1>4, <1>5, <1>6
<1>8. \/ after[s] = Empty /\ s \in movers
      \/ \E o \in Seats : Dest(o) = s /\ after[s] = Stay(at[o])
  <2>1. CASE s \in targets
    BY <1>1, <1>2, <1>3, <1>6, <2>1
  <2>2. CASE s \notin targets
    BY <1>1, <1>6, <2>2
  <2>. QED
    BY <2>1, <2>2
<1>. QED
  BY <1>7, <1>8 DEF after, Dest, movers

-----------------------------------------------------------------------------
\* The seats when what was put off has been done: settled, and then moved.
AtEnd(fin) == [s \in Seats |-> Settled(fin[s])]
Stays(p) == p.here /\ p.pendingRemoval = "no"

LEMMA EndOfHand ==
  ASSUME Good, inHand, NEW fin, PaidOff(fin)
  PROVE  /\ AtEnd(fin) \in [Seats -> Place]
         /\ \A s \in Seats : AtEnd(fin)[s].here => AtEnd(fin)[s].status # "empty"
         /\ \A s \in Seats : ~Stays(fin[s]) => AtEnd(fin)[s] = Empty
         /\ \A s \in Seats : Stays(fin[s]) =>
              /\ fin[s].status # "empty" /\ AtEnd(fin)[s].status # "empty"
              /\ AtEnd(fin)[s].who = fin[s].who /\ AtEnd(fin)[s].here
              /\ AtEnd(fin)[s].stack = Owed(fin[s]) /\ AtEnd(fin)[s].pendingChips = 0
              /\ AtEnd(fin)[s].bet = 0 /\ AtEnd(fin)[s].pendingRemoval = "no"
              /\ AtEnd(fin)[s].pendingMoveTo = fin[s].pendingMoveTo
              /\ ~AtEnd(fin)[s].joinsNextHand
<1>. DEFINE at == AtEnd(fin)
<1>1. ASSUME NEW s \in Seats
      PROVE  /\ at[s] \in Place
             /\ ~Stays(fin[s]) => at[s] = Empty
             /\ Stays(fin[s]) =>
                  /\ fin[s].status # "empty" /\ at[s].status # "empty"
                  /\ at[s].who = fin[s].who /\ at[s].here
                  /\ at[s].stack = Owed(fin[s]) /\ at[s].pendingChips = 0
                  /\ at[s].bet = 0 /\ at[s].pendingRemoval = "no"
                  /\ at[s].pendingMoveTo = fin[s].pendingMoveTo
                  /\ ~at[s].joinsNextHand
  <2>1. /\ fin[s] \in Place /\ fin[s].bet = 0
        /\ fin[s].here = seat[s].here
        /\ fin[s].pendingRemoval = seat[s].pendingRemoval
        /\ fin[s].status = "empty" <=> seat[s].status = "empty"
        /\ fin[s].status = "empty" => fin[s] = Empty
    BY DEF PaidOff
  <2>2. at[s] = Settled(fin[s])
    BY DEF AtEnd
  <2>. HIDE DEF at
  <2>3. SeatIsSound(seat[s], inHand, handLeavers[s].key)
    BY SeatFields
  <2>4. fin[s].status # "empty" /\ ~fin[s].here => fin[s].pendingRemoval # "no"
    BY <2>1, <2>3 DEF SeatIsSound, HasLeft, GoneFrom
  <2>5. fin[s].here => fin[s].status # "empty"
    BY <2>1, EmptyIsSound
  <2>6. at[s] \in Place
    BY <2>1, <2>2, SettledIsPlace
  <2>7. /\ fin[s].pendingRemoval # "no" => at[s] = Empty
        /\ fin[s].pendingRemoval = "no" =>
             /\ at[s].who = fin[s].who /\ at[s].here = fin[s].here
             /\ at[s].stack = fin[s].stack + fin[s].pendingChips
             /\ at[s].pendingChips = 0 /\ at[s].bet = fin[s].bet /\ at[s].pendingRemoval = "no"
             /\ at[s].pendingMoveTo = fin[s].pendingMoveTo /\ ~at[s].joinsNextHand
             /\ at[s].status = "empty" <=> fin[s].status = "empty"
        /\ fin[s] = Empty => at[s] = Empty
    BY <2>1, <2>2, SettledFields
  <2>. QED
    BY <2>1, <2>4, <2>5, <2>6, <2>7 DEF Stays, Owed
<1>2. at \in [Seats -> Place]
  BY <1>1 DEF AtEnd
<1>. HIDE DEF at
<1>3. \A s \in Seats : at[s].here => at[s].status # "empty"
  BY <1>1, EmptyIsSound
<1>4. /\ at \in [Seats -> Place]
      /\ \A s \in Seats : at[s].here => at[s].status # "empty"
      /\ \A s \in Seats : ~Stays(fin[s]) => at[s] = Empty
      /\ \A s \in Seats : Stays(fin[s]) =>
           /\ fin[s].status # "empty" /\ at[s].status # "empty"
           /\ at[s].who = fin[s].who /\ at[s].here
           /\ at[s].stack = Owed(fin[s]) /\ at[s].pendingChips = 0
           /\ at[s].bet = 0 /\ at[s].pendingRemoval = "no"
           /\ at[s].pendingMoveTo = fin[s].pendingMoveTo
           /\ ~at[s].joinsNextHand
  BY <1>1, <1>2, <1>3
<1>. QED
  BY <1>4 DEF at

\* Everybody who stays is in one seat with their chips, and nobody else is in any.
LEMMA AfterHand ==
  ASSUME Good, inHand, NEW fin, PaidOff(fin), NEW gone, NEW s \in Seats, NEW after,
         after = AfterMoves(AtEnd(fin), gone)
  PROVE  /\ Stays(fin[s]) =>
              LET d == GoesTo(AtEnd(fin), gone, s) IN
              /\ d \in Seats /\ after[d].here /\ after[d].who = fin[s].who
              /\ after[d].stack = Owed(fin[s]) /\ after[d].pendingChips = 0
         /\ AtRest(after[s]) /\ ~after[s].joinsNextHand
         /\ after[s].status = "empty" => after[s] = Empty
         /\ after[s].here => \E o \in Seats : /\ Stays(fin[o]) /\ GoesTo(AtEnd(fin), gone, o) = s
                                              /\ after[s].who = fin[o].who
<1>. DEFINE at == AtEnd(fin)
            Dest(o) == GoesTo(at, gone, o)
<1>1. /\ at \in [Seats -> Place]
      /\ \A t \in Seats : at[t].here => at[t].status # "empty"
      /\ \A t \in Seats : ~Stays(fin[t]) => at[t] = Empty
      /\ \A t \in Seats : Stays(fin[t]) =>
           /\ at[t].status # "empty"
           /\ at[t].who = fin[t].who /\ at[t].here
           /\ at[t].stack = Owed(fin[t]) /\ at[t].pendingChips = 0
           /\ at[t].bet = 0 /\ at[t].pendingRemoval = "no" /\ ~at[t].joinsNextHand
  BY EndOfHand
<1>. HIDE DEF at
<1>2. /\ at[s].here => Dest(s) \in Seats /\ after[Dest(s)] = Stay(at[s])
      /\ \/ after[s] = Empty
         \/ \E o \in Seats : Dest(o) = s /\ after[s] = Stay(at[o])
  BY <1>1, AfterMovesAt DEF at
<1>. HIDE DEF Dest
<1>3. \A t \in Seats :
        /\ Stay(at[t]).who = at[t].who /\ Stay(at[t]).here = at[t].here
        /\ Stay(at[t]).stack = at[t].stack /\ Stay(at[t]).pendingChips = at[t].pendingChips
        /\ Stay(at[t]).bet = at[t].bet /\ Stay(at[t]).pendingRemoval = at[t].pendingRemoval
        /\ Stay(at[t]).pendingMoveTo = NoSeat /\ Stay(at[t]).joinsNextHand = at[t].joinsNextHand
        /\ Stay(at[t]).status = at[t].status
        /\ at[t] = Empty => Stay(at[t]) = Empty
  BY <1>1, StayFields
<1>4. Stays(fin[s]) => /\ Dest(s) \in Seats /\ after[Dest(s)].here /\ after[Dest(s)].who = fin[s].who
                       /\ after[Dest(s)].stack = Owed(fin[s]) /\ after[Dest(s)].pendingChips = 0
  BY <1>1, <1>2, <1>3
<1>5. CASE after[s] = Empty
  BY <1>4, <1>5, EmptyIsSound DEF at, Dest
<1>6. ASSUME NEW o \in Seats, Dest(o) = s, after[s] = Stay(at[o])
      PROVE  /\ AtRest(after[s]) /\ ~after[s].joinsNextHand
             /\ after[s].status = "empty" => after[s] = Empty
             /\ after[s].here => Stays(fin[o]) /\ after[s].who = fin[o].who
  <2>1. CASE Stays(fin[o])
    BY <1>1, <1>3, <1>6, <2>1 DEF AtRest
  <2>2. CASE ~Stays(fin[o])
    BY <1>1, <1>3, <1>6, <2>2, EmptyIsSound
  <2>. QED
    BY <2>1, <2>2
<1>7. CASE \E o \in Seats : Dest(o) = s /\ after[s] = Stay(at[o])
  BY <1>4, <1>6, <1>7 DEF at, Dest
<1>. QED
  BY <1>2, <1>5, <1>7

-----------------------------------------------------------------------------
\* Who leaves with the hand is paid what is in front of them.
PaidOutTo(fin, k) ==
  SumOver({s \in LeavingNow(fin) : fin[s].who = k}, LAMBDA s : Owed(fin[s]))

LEMMA PaidOutIsNat ==
  ASSUME NEW fin \in [Seats -> Place], NEW k
  PROVE  PaidOutTo(fin, k) \in Nat
<1>. DEFINE P == {s \in LeavingNow(fin) : fin[s].who = k}
            f == [s \in P |-> Owed(fin[s])]
<1>1. PaidOutTo(fin, k) = Sum(f, P)
  BY DEF PaidOutTo, SumOver, SumFunction, Sum, SumFunctionOnSet
<1>2. P \subseteq Seats
  BY DEF LeavingNow
<1>3. IsFiniteSet(P)
  BY <1>2, SeatsFinite, FS_Subset
<1>4. \A s \in P : f[s] \in Nat
  BY <1>2 DEF Owed, Place
<1>. HIDE DEF P, f
<1>. QED
  BY <1>1, <1>3, <1>4, SumIsNat

\* What a player has after the hand is what they came out of it with, less that.
LEMMA ChipsAfterHand ==
  ASSUME Good, inHand, NEW fin, PaidOff(fin), NEW gone, NEW k \in Keys \ unbooked, NEW after,
         after = AfterMoves(AtEnd(fin), gone)
  PROVE  Sum(Held(after, k), Seats) = Sum(Held(fin, k), Seats) - PaidOutTo(fin, k)
<1>. DEFINE P == {s \in LeavingNow(fin) : fin[s].who = k}
            f == [s \in P |-> Owed(fin[s])]
            g == Held(fin, k)
            h == Held(after, k)
            Dest(o) == GoesTo(AtEnd(fin), gone, o)
<1>1. PaidOutTo(fin, k) = Sum(f, P)
  BY DEF PaidOutTo, SumOver, SumFunction, Sum, SumFunctionOnSet
<1>2. /\ \A s \in Seats : fin[s].who = seat[s].who /\ fin[s].here = seat[s].here
                          /\ fin[s].stack \in Nat /\ fin[s].pendingChips \in Nat
      /\ k \in Tracked
  BY DEF PaidOff, Place, Tracked
<1>3. \A s, t \in Seats : fin[s].here /\ fin[t].here /\ fin[s].who = k /\ fin[t].who = k => s = t
  BY <1>2 DEF Good, Sound, OneSeatEach
<1>4. \A s \in Seats :
        /\ Stays(fin[s]) => /\ Dest(s) \in Seats /\ after[Dest(s)].here
                            /\ after[Dest(s)].who = fin[s].who
                            /\ after[Dest(s)].stack = Owed(fin[s])
                            /\ after[Dest(s)].pendingChips = 0
        /\ after[s].here => \E o \in Seats : /\ Stays(fin[o]) /\ Dest(o) = s
                                             /\ after[s].who = fin[o].who
  BY AfterHand
<1>5. \A s \in Seats : g[s] = IF fin[s].who = k /\ fin[s].here THEN Owed(fin[s]) ELSE 0
  BY DEF Held, Owed
<1>6. \A s \in Seats : h[s] = IF after[s].who = k /\ after[s].here
                              THEN after[s].stack + after[s].pendingChips ELSE 0
  BY DEF Held
<1>7. \A s \in Seats : Owed(fin[s]) \in Nat
  BY <1>2 DEF Owed
<1>8. \A s : s \in P <=> s \in Seats /\ fin[s].here /\ fin[s].who = k /\ fin[s].pendingRemoval # "no"
  BY DEF LeavingNow
<1>9. \A s \in P : f[s] = Owed(fin[s])
  OBVIOUS
<1>. HIDE DEF P, f, g, h, Dest
<1>10. CASE \A s \in Seats : ~(fin[s].here /\ fin[s].who = k)
  <2>1. \A s \in Seats : g[s] = 0 /\ h[s] = 0
    BY <1>4, <1>5, <1>6, <1>10 DEF Stays
  <2>2. P = {}
    BY <1>8, <1>10
  <2>3. Sum(g, Seats) = 0 /\ Sum(h, Seats) = 0
    BY <2>1, SeatsFinite, SumOfZeros
  <2>4. Sum(f, P) = 0
    BY <2>2, SumOfNone
  <2>. QED
    BY <1>1, <2>3, <2>4 DEF g, h
<1>11. ASSUME NEW o \in Seats, fin[o].here, fin[o].who = k
       PROVE  Sum(h, Seats) = Sum(g, Seats) - Sum(f, P)
  <2>1. \A s \in Seats \ {o} : g[s] = 0
    BY <1>3, <1>5, <1>11
  <2>2. g[o] = Owed(fin[o]) /\ g[o] \in Int
    BY <1>5, <1>7, <1>11
  <2>3. Sum(g, Seats) = g[o]
    BY <2>1, <2>2, SeatsFinite, SumOfTheOnly
  <2>4. \A s \in Seats : after[s].here /\ after[s].who = k => Stays(fin[o]) /\ s = Dest(o)
    BY <1>3, <1>4, <1>11 DEF Stays
  <2>5. CASE Stays(fin[o])
    <3>. DEFINE d == Dest(o)
    <3>1. d \in Seats /\ h[d] = Owed(fin[o]) + 0
      BY <1>4, <1>6, <1>11, <2>5
    <3>. HIDE DEF d
    <3>2. h[d] = Owed(fin[o]) /\ h[d] \in Int
      BY <1>7, <3>1
    <3>3. \A s \in Seats \ {d} : h[s] = 0
      BY <1>6, <2>4 DEF d
    <3>4. Sum(h, Seats) = h[d]
      BY <3>1, <3>2, <3>3, SeatsFinite, SumOfTheOnly
    <3>5. P = {}
      BY <1>3, <1>8, <1>11, <2>5 DEF Stays
    <3>6. Sum(f, P) = 0
      BY <3>5, SumOfNone
    <3>. QED
      BY <2>2, <2>3, <3>2, <3>4, <3>6
  <2>6. CASE ~Stays(fin[o])
    <3>1. \A s \in Seats : h[s] = 0
      BY <1>6, <2>4, <2>6
    <3>2. Sum(h, Seats) = 0
      BY <3>1, SeatsFinite, SumOfZeros
    <3>3. o \in P /\ P \ {o} = {}
      BY <1>3, <1>8, <1>11, <2>6 DEF Stays
    <3>4. P \subseteq Seats
      BY <1>8
    <3>5. IsFiniteSet(P)
      BY <3>4, SeatsFinite, FS_Subset
    <3>6. f[o] = Owed(fin[o])
      BY <1>9, <3>3
    <3>7. Sum(f, P) = f[o]
      BY <2>2, <3>3, <3>5, <3>6, SumOfTheOnly
    <3>. QED
      BY <2>2, <2>3, <3>2, <3>6, <3>7
  <2>. QED
    BY <2>5, <2>6
<1>. QED
  BY <1>1, <1>10, <1>11 DEF g, h

-----------------------------------------------------------------------------
LEMMA HandOverGood ==
  ASSUME Good, inHand, NEW fin, PaidOff(fin), HandOver(fin), Typed'
  PROVE  Sound' /\ Books'
<1>. DEFINE results == Results(fin)
            booked == RecordHand(book, results)
            gone == removed'
<1>1. /\ inHand' = FALSE /\ seat' = AfterMoves(AtEnd(fin), gone)
      /\ book' = [k \in Keys |-> CashOut(booked, k, PaidOutTo(fin, k))[k]]
      /\ balance' = [u \in Users |-> balance[u] + PaidOutTo(fin, u)]
      /\ dealt' = NobodyDealt /\ anteTotal' = 0
      /\ handChipAdds' = NothingAdded /\ handLeavers' = NobodyLeft
      /\ UNCHANGED <<bigBlind, opened, unbooked>>
  BY DEF HandOver, PaidOutTo, AtEnd
<1>2. \A s \in Seats :
        /\ AtRest(seat'[s]) /\ ~seat'[s].joinsNextHand
        /\ seat'[s].status = "empty" => seat'[s] = Empty
        /\ seat'[s].here => \E o \in Seats : /\ Stays(fin[o]) /\ GoesTo(AtEnd(fin), gone, o) = s
                                             /\ seat'[s].who = fin[o].who
  BY <1>1, AfterHand
<1>3. \A s \in Seats : ~IsInCurrentHand(s)'
  BY <1>1 DEF IsInCurrentHand
<1>4. SeatsAreSound'
  <2>1. \A s \in Seats : handLeavers'[s].key = Nobody
    BY <1>1 DEF NobodyLeft
  <2>2. \A s \in Seats : ~HasLeft(seat'[s])
    BY <1>2 DEF HasLeft, AtRest
  <2>. QED
    BY <1>1, <1>2, <2>1, <2>2 DEF SeatsAreSound, SeatIsSound
<1>5. HandIsClear'
  BY <1>1 DEF HandIsClear, NobodyDealt, NothingAdded, NobodyLeft
<1>6. Tracked' = Tracked
  BY <1>1 DEF Tracked
<1>7. OnePartEach' /\ StakesAreBooked'
  BY <1>3 DEF OnePartEach, StakesAreBooked
<1>8. OneSeatEach'
  <2>. SUFFICES ASSUME NEW x \in Seats, NEW y \in Seats, seat'[x].here, seat'[y].here,
                       seat'[x].who = seat'[y].who, seat'[x].who \in Tracked'
                PROVE  x = y
    BY DEF OneSeatEach
  <2>1. PICK o \in Seats : /\ Stays(fin[o]) /\ GoesTo(AtEnd(fin), gone, o) = x
                           /\ seat'[x].who = fin[o].who
    BY <1>2
  <2>2. PICK q \in Seats : /\ Stays(fin[q]) /\ GoesTo(AtEnd(fin), gone, q) = y
                           /\ seat'[y].who = fin[q].who
    BY <1>2
  <2>3. /\ seat[o].here /\ seat[q].here
        /\ seat[o].who = seat'[x].who /\ seat[q].who = seat'[y].who
    BY <2>1, <2>2 DEF Stays, PaidOff
  <2>4. o = q
    BY <1>6, <2>3 DEF Good, Sound, OneSeatEach
  <2>. QED
    BY <2>1, <2>2, <2>4
<1>9. \A k \in Keys : /\ booked \in [Keys -> [chips : Int, net : Int]]
                      /\ booked[k].net - booked[k].chips = book[k].net - book[k].chips
  <2>1. \A k \in DOMAIN results : results[k] \in Int
    BY ResultsAreInts
  <2>2. book \in [Keys -> [chips : Int, net : Int]]
    BY DEF Good, TypeOK
  <2>. HIDE DEF results
  <2>. QED
    BY <2>1, <2>2 DEF RecordHand
<1>10. fin \in [Seats -> Place]
  BY DEF PaidOff
<1>11. \A k \in Keys : PaidOutTo(fin, k) \in Nat
  BY <1>10, PaidOutIsNat
<1>12. \A k \in Keys : /\ book'[k].chips = booked[k].chips - PaidOutTo(fin, k)
                       /\ book'[k].net = booked[k].net
  <2>. HIDE DEF booked
  <2>. QED
    BY <1>1, <1>9 DEF CashOut
<1>13. ChipsAreBooked'
  <2>. SUFFICES ASSUME NEW k \in Keys \ unbooked' PROVE Sum(KnownOfPlayer(k)', Seats) = book'[k].chips
    BY DEF ChipsAreBooked
  <2>0. k \in Keys \ unbooked
    BY <1>1
  <2>. DEFINE after == AfterMoves(AtEnd(fin), gone)
              h == Held(after, k)
              g == [t \in Seats |-> IF seat'[t].who = k THEN KnownAt(t)' ELSE 0]
  <2>1. KnownOfPlayer(k)' = g
    BY DEF KnownOfPlayer
  <2>2. seat' = after
    BY <1>1
  <2>3. Sum(h, Seats) = Sum(Held(fin, k), Seats) - PaidOutTo(fin, k)
    BY <2>0, ChipsAfterHand
  <2>. HIDE DEF after
  <2>4. \A t \in Seats : g[t] = h[t]
    BY <1>3, <2>2 DEF KnownAt, KnownOf, Held
  <2>. HIDE DEF g, h
  <2>5. Sum(g, Seats) = Sum(h, Seats)
    BY <2>4, SeatsFinite, SumsAgree
  <2>6. booked[k].chips = Sum(Held(fin, k), Seats)
    BY <2>0, HandIsBooked
  <2>. HIDE DEF booked
  <2>. QED
    BY <1>12, <2>0, <2>1, <2>3, <2>5, <2>6
<1>14. BalanceIsBooked'
  <2>. SUFFICES ASSUME NEW u \in Users PROVE (balance[u] + book[u].chips = opened[u] + book[u].net)'
    BY DEF BalanceIsBooked
  <2>1. u \in Keys
    BY KeysAreNot
  <2>2. balance[u] + book[u].chips = opened[u] + book[u].net
    BY DEF Good, Books, BalanceIsBooked
  <2>3. /\ balance[u] \in Int /\ book[u].chips \in Int /\ opened[u] \in Int /\ book[u].net \in Int
    BY <2>1 DEF Good, TypeOK
  <2>4. /\ booked[u].chips \in Int /\ booked[u].net \in Int
        /\ booked[u].net - booked[u].chips = book[u].net - book[u].chips
    BY <1>9, <2>1
  <2>5. /\ balance'[u] = balance[u] + PaidOutTo(fin, u) /\ opened'[u] = opened[u]
        /\ book'[u].chips = booked[u].chips - PaidOutTo(fin, u) /\ book'[u].net = booked[u].net
        /\ PaidOutTo(fin, u) \in Nat
    BY <1>1, <1>11, <1>12, <2>1
  <2>. HIDE DEF booked
  <2>. QED
    BY <2>2, <2>3, <2>4, <2>5
<1>. QED
  BY <1>4, <1>5, <1>7, <1>8, <1>13, <1>14 DEF Sound, Books

-----------------------------------------------------------------------------
\* What is noted, booked and paid keeps its type; above all nobody's balance is
\* spent twice.
Notes ==
  /\ removed \subseteq Seats
  /\ dealt \in [Seats -> [who : Keys \cup {Nobody}, stack : Nat]]
  /\ bigBlind \in Seats \cup {NoSeat} /\ anteTotal \in Nat
  /\ handChipAdds \in [Seats -> Nat]
  /\ handLeavers \in [Seats -> [key : Keys \cup {Nobody}, stack : Nat]]
  /\ book \in [Keys -> [chips : Int, net : Int]]
  /\ balance \in [Users -> Nat] /\ opened \in [Users -> Nat]
  /\ unbooked \subseteq Keys

LEMMA GoodNotes == Good => Notes
BY DEF Good, TypeOK, Notes

LEMMA Booked ==
  ASSUME Notes, NEW k \in Keys, NEW amount \in Int
  PROVE  /\ BuyIn(book, k, amount) \in [Keys -> [chips : Int, net : Int]]
         /\ CashOut(book, k, amount) \in [Keys -> [chips : Int, net : Int]]
BY DEF Notes, BuyIn, CashOut

LEMMA RemovalIsNoted ==
  ASSUME Good, NEW s \in Seats, NEW gone,
         RemoveNow(s, gone) \/ RemoveAfterHand(s, gone) \/ RemoveEmpty(s)
  PROVE  Notes'
<1>1. CASE RemoveNow(s, gone)
  <2>1. /\ seat[s].who \in Keys /\ CashOutAmount(s) \in Nat
    BY <1>1, SeatFields DEF RemoveNow, CashOutAmount
  <2>2. Notes
    BY GoodNotes
  <2>. DEFINE owed == CashOutAmount(s)
  <2>3. book' \in [Keys -> [chips : Int, net : Int]]
    BY <1>1, <2>1, <2>2, Booked DEF RemoveNow
  <2>4. balance' = IF IsUser(s) THEN [balance EXCEPT ![seat[s].who] = @ + owed] ELSE balance
    BY <1>1 DEF RemoveNow, Credit
  <2>. HIDE DEF owed
  <2>5. balance' \in [Users -> Nat]
    BY <2>1, <2>2, <2>4 DEF Notes, owed, IsUser
  <2>. QED
    BY <1>1, <2>2, <2>3, <2>5 DEF RemoveNow, Notes, handVars
<1>2. CASE RemoveAfterHand(s, gone)
  BY <1>2, GoodNotes DEF RemoveAfterHand, Notes, handVars
<1>3. CASE RemoveEmpty(s)
  BY <1>3, GoodNotes DEF RemoveEmpty, Notes, handVars
<1>. QED
  BY <1>1, <1>2, <1>3

LEMMA RequestIsNoted ==
  ASSUME Good, NEW s \in Seats, Request(s)
  PROVE  Notes'
<1>0. /\ Notes /\ Nobody \notin Keys /\ Users \subseteq Keys
      /\ BuyInSize \in Nat /\ RebuySize \in Nat
      /\ BotAt(s) \in Keys /\ inHand \in BOOLEAN
  BY GoodNotes, KeysAreNot, BotsAreNotUsers, TableAssumption DEF Good, TypeOK
<1>1. ASSUME NEW u \in Users, TakeSeat(u, s) PROVE Notes'
  <2>1. book' \in [Keys -> [chips : Int, net : Int]]
    BY <1>0, <1>1, Booked DEF TakeSeat
  <2>2. balance' \in [Users -> Nat]
    BY <1>0, <1>1 DEF TakeSeat, Notes
  <2>. QED
    BY <1>0, <1>1, <2>1, <2>2 DEF TakeSeat, Notes, handVars
<1>2. CASE AddBot(s)
  <2>1. book' \in [Keys -> [chips : Int, net : Int]]
    BY <1>0, <1>2, Booked DEF AddBot
  <2>2. unbooked' \subseteq Keys
    BY <1>0, <1>2 DEF AddBot, Notes
  <2>. QED
    BY <1>0, <1>2, <2>1, <2>2 DEF AddBot, Notes, handVars
<1>3. CASE LeaveSeat(s)
  <2>. DEFINE k == seat[s].who
              owed == CashOutAmount(s)
  <2>1. k \in Users /\ k \in Keys /\ owed \in Nat
    BY <1>0, <1>3, SeatFields DEF LeaveSeat, IsUser, CashOutAmount
  <2>2. /\ book' = CashOut(book, k, owed)
        /\ balance' = [balance EXCEPT ![k] = @ + owed]
        /\ handLeavers' \in {handLeavers, [handLeavers EXCEPT ![s] = [key |-> k, stack |-> owed]]}
        /\ unbooked' \in {unbooked, unbooked \cup {k}}
        /\ UNCHANGED <<removed, dealt, bigBlind, anteTotal, handChipAdds, opened>>
    BY <1>3 DEF LeaveSeat
  <2>. HIDE DEF k, owed
  <2>3. book' \in [Keys -> [chips : Int, net : Int]]
    BY <1>0, <2>1, <2>2, Booked
  <2>4. balance' \in [Users -> Nat]
    BY <1>0, <2>1, <2>2 DEF Notes
  <2>5. handLeavers' \in [Seats -> [key : Keys \cup {Nobody}, stack : Nat]]
    BY <1>0, <2>1, <2>2 DEF Notes
  <2>. QED
    BY <1>0, <2>1, <2>2, <2>3, <2>4, <2>5 DEF Notes
<1>4. CASE RemovePlayer(s) \/ DeleteSeat(s)
  BY <1>4, RemovalIsNoted DEF RemovePlayer, DeleteSeat
<1>5. CASE AddChips(s)
  <2>. DEFINE k == seat[s].who
              waits == IsInCurrentHand(s) /\ seat[s].status # "folded"
  <2>1. k \in Keys
    BY <1>5, SeatFields, EmptyIsSound DEF AddChips, SeatIsSound
  <2>2. /\ book' = BuyIn(book, k, RebuySize)
        /\ balance' = IF IsUser(s) THEN [balance EXCEPT ![k] = @ + (-RebuySize)] ELSE balance
        /\ IsUser(s) => balance[k] >= RebuySize
        /\ \/ handChipAdds' = handChipAdds
           \/ handChipAdds' = [handChipAdds EXCEPT ![s] = handChipAdds[s] + RebuySize]
        /\ UNCHANGED <<removed, dealt, bigBlind, anteTotal, handLeavers, opened, unbooked>>
    BY <1>5 DEF AddChips, Credit
  <2>3. IsUser(s) => k \in Users
    BY DEF IsUser
  <2>. HIDE DEF k
  <2>4. book' \in [Keys -> [chips : Int, net : Int]]
    BY <1>0, <2>1, <2>2, Booked
  <2>5. balance' \in [Users -> Nat]
    BY <1>0, <2>2, <2>3 DEF Notes
  <2>6. handChipAdds' \in [Seats -> Nat]
    <3>1. handChipAdds \in [Seats -> Nat] /\ handChipAdds[s] + RebuySize \in Nat
      BY <1>0 DEF Notes
    <3>. QED
      BY <2>2, <3>1
  <2>. QED
    BY <1>0, <2>2, <2>4, <2>5, <2>6 DEF Notes
<1>6. CASE SitOut(s)
  BY <1>0, <1>6 DEF SitOut, Notes, handVars
<1>7. CASE SitIn(s)
  BY <1>0, <1>7 DEF SitIn, Notes, handVars
<1>8. ASSUME NEW t \in Seats, ChangeSeat(s, t) PROVE Notes'
  <2>1. handChipAdds' = handChipAdds \/ ChipAddsMove(s, t)
    BY <1>8 DEF ChangeSeat
  <2>2. handChipAdds' \in [Seats -> Nat]
    <3>1. handChipAdds \in [Seats -> Nat] /\ s # t
      BY <1>0, <1>8 DEF Notes, ChangeSeat
    <3>2. CASE ChipAddsMove(s, t)
      BY <3>1, <3>2 DEF ChipAddsMove
    <3>. QED
      BY <2>1, <3>1, <3>2
  <2>. QED
    BY <1>0, <1>8, <2>2 DEF ChangeSeat, Notes
<1>. QED
  BY <1>1, <1>2, <1>3, <1>4, <1>5, <1>6, <1>7, <1>8 DEF Request

LEMMA StartIsNoted ==
  ASSUME Good, StartHand
  PROVE  Notes'
<1>0. Notes
  BY GoodNotes
<1>. DEFINE prepared == [s \in Seats |-> Prepared(seat[s])]
            at == [s \in Seats |-> ForNewHand(prepared[s])]
<1>1. CASE CanStartHand(prepared)
  <2>1. \A s \in Seats : ReadyToPlay(at[s], seat[s])
    BY ForNewHandIsReady DEF Good, TypeOK
  <2>2. Deal(at) /\ UNCHANGED <<removed, book, balance, opened>>
    BY <1>1 DEF StartHand
  <2>. HIDE DEF at
  <2>. DEFINE ring == {s \in Seats : at[s].status = "active" /\ at[s].stack > 0}
  <2>3. PICK bb \in ring :
          LET ante == Min({Ante, at[bb].stack}) IN
          /\ bigBlind' = bb
          /\ handChipAdds' = NothingAdded /\ handLeavers' = NobodyLeft
          /\ \/ /\ anteTotal' = ante /\ unbooked' = unbooked
                /\ dealt' = [s \in Seats |-> [who |-> seat[s].who, stack |-> seat[s].stack]]
             \/ /\ anteTotal' = 0 /\ dealt' = NobodyDealt
                /\ unbooked' = unbooked \cup {at[s].who : s \in ring}
    BY <2>2 DEF Deal
  <2>4. at[bb].stack \in Int /\ Ante \in Nat
    BY <2>1, TableAssumption DEF ReadyToPlay, Place
  <2>5. Min({Ante, at[bb].stack}) \in Nat
    <3>1. at[bb].stack \in Nat
      BY <2>1 DEF ReadyToPlay, Place
    <3>. QED
      BY <2>4, <3>1, MinOfTwo
  <2>6. \A s \in ring : at[s].who \in Keys
    <3>. SUFFICES ASSUME NEW s \in ring PROVE at[s].who \in Keys
      OBVIOUS
    <3>1. seat[s].status # "empty" /\ at[s].who = seat[s].who
      BY <2>1 DEF ReadyToPlay
    <3>. QED
      BY <3>1, SeatFields
  <2>7. \A s \in Seats : seat[s].who \in Keys \cup {Nobody} /\ seat[s].stack \in Nat
    BY SeatFields
  <2>8. anteTotal' \in Nat /\ unbooked' \subseteq Keys /\ bigBlind' \in Seats
    BY <1>0, <2>3, <2>5, <2>6 DEF Notes
  <2>9. dealt' \in [Seats -> [who : Keys \cup {Nobody}, stack : Nat]]
    BY <2>3, <2>7 DEF NobodyDealt
  <2>10. /\ handChipAdds' \in [Seats -> Nat]
         /\ handLeavers' \in [Seats -> [key : Keys \cup {Nobody}, stack : Nat]]
    BY <2>3 DEF NothingAdded, NobodyLeft
  <2>. QED
    BY <1>0, <2>2, <2>8, <2>9, <2>10 DEF Notes
<1>2. CASE ~CanStartHand(prepared)
  BY <1>0, <1>2 DEF StartHand, Notes, handVars
<1>. QED
  BY <1>1, <1>2

LEMMA HandOverIsNoted ==
  ASSUME Good, inHand, NEW fin, PaidOff(fin), HandOver(fin)
  PROVE  Notes'
<1>. DEFINE results == Results(fin)
            booked == RecordHand(book, results)
            deleted == {s \in Seats : fin[s].pendingRemoval = "seat"}
<1>0. Notes
  BY GoodNotes
<1>1. /\ removed' = removed \cup deleted
      /\ book' = [k \in Keys |-> CashOut(booked, k, PaidOutTo(fin, k))[k]]
      /\ balance' = [u \in Users |-> balance[u] + PaidOutTo(fin, u)]
      /\ dealt' = NobodyDealt /\ anteTotal' = 0
      /\ handChipAdds' = NothingAdded /\ handLeavers' = NobodyLeft
      /\ UNCHANGED <<bigBlind, opened, unbooked>>
  BY DEF HandOver, PaidOutTo
<1>2. \A k : PaidOutTo(fin, k) \in Nat
  BY PaidOutIsNat DEF PaidOff
<1>3. booked \in [Keys -> [chips : Int, net : Int]]
  <2>1. \A k \in DOMAIN results : results[k] \in Int
    BY ResultsAreInts
  <2>. HIDE DEF results
  <2>. QED
    BY <1>0, <2>1 DEF RecordHand, Notes
<1>4. book' \in [Keys -> [chips : Int, net : Int]]
  <2>. HIDE DEF booked
  <2>. QED
    BY <1>1, <1>2, <1>3 DEF CashOut
<1>5. balance' \in [Users -> Nat]
  BY <1>0, <1>1, <1>2 DEF Notes
<1>6. removed' \subseteq Seats
  BY <1>0, <1>1 DEF Notes
<1>7. /\ dealt' \in [Seats -> [who : Keys \cup {Nobody}, stack : Nat]]
      /\ handChipAdds' \in [Seats -> Nat]
      /\ handLeavers' \in [Seats -> [key : Keys \cup {Nobody}, stack : Nat]]
  BY <1>1 DEF NobodyDealt, NothingAdded, NobodyLeft
<1>. HIDE DEF booked, results, deleted
<1>. QED
  BY <1>0, <1>1, <1>4, <1>5, <1>6, <1>7 DEF Notes

LEMMA RefundIsNat ==
  ASSUME Good, NEW s \in Seats
  PROVE  VoidedHandRefund(s) \in Nat
BY SeatFields DEF VoidedHandRefund, CashOutAmount

LEMMA RefundsAreNat ==
  ASSUME Good, NEW u
  PROVE  Refunds(u) \in Nat
<1>. DEFINE P == {s \in SeatsOf(u) : seat[s].here}
            f == [s \in P |-> VoidedHandRefund(s)]
<1>1. Refunds(u) = Sum(f, P)
  BY DEF Refunds, SumOver, SumFunction, Sum, SumFunctionOnSet
<1>2. P \subseteq Seats
  BY DEF SeatsOf
<1>3. IsFiniteSet(P)
  BY <1>2, SeatsFinite, FS_Subset
<1>4. \A s \in P : f[s] \in Nat
  BY <1>2, RefundIsNat
<1>. HIDE DEF P, f
<1>. QED
  BY <1>1, <1>3, <1>4, SumIsNat

LEMMA ResetIsNoted ==
  ASSUME Good, ResetTable
  PROVE  Notes'
<1>0. Notes
  BY GoodNotes
<1>1. balance' \in [Users -> Nat]
  BY <1>0, RefundsAreNat DEF ResetTable, Notes
<1>2. book' \in [Keys -> [chips : Int, net : Int]]
  BY DEF ResetTable, NoEntries
<1>3. /\ dealt' \in [Seats -> [who : Keys \cup {Nobody}, stack : Nat]]
      /\ handChipAdds' \in [Seats -> Nat]
      /\ handLeavers' \in [Seats -> [key : Keys \cup {Nobody}, stack : Nat]]
  BY DEF ResetTable, NobodyDealt, NothingAdded, NobodyLeft
<1>. QED
  BY <1>0, <1>1, <1>2, <1>3 DEF ResetTable, Notes

-----------------------------------------------------------------------------
Counted == requests \in Nat /\ handNumber \in Nat /\ game \in Nat

LEMMA TypedParts ==
  /\ Typed <=> InHandIsBoolean /\ Placed /\ Notes /\ Counted
  /\ Typed' <=> InHandIsBoolean' /\ Placed' /\ Notes' /\ Counted'
BY DEF Typed, InHandIsBoolean, Placed, Notes, Counted

\* A new game, with nobody at the table and nothing in the book.
LEMMA ClearTable ==
  ASSUME inHand = FALSE, seat = [s \in Seats |-> Empty],
         dealt = NobodyDealt, anteTotal = 0, handChipAdds = NothingAdded, handLeavers = NobodyLeft,
         book = NoEntries(Keys), opened = balance, balance \in [Users -> Nat]
  PROVE  Sound /\ Books
<1>1. \A s \in Seats : seat[s] = Empty /\ handLeavers[s].key = Nobody /\ ~IsInCurrentHand(s)
  BY DEF NobodyLeft, IsInCurrentHand
<1>2. Sound
  BY <1>1, EmptyIsSound
     DEF Sound, SeatsAreSound, HandIsClear, OneSeatEach, OnePartEach, IsInCurrentHand
<1>3. ChipsAreBooked
  <2>. SUFFICES ASSUME NEW k \in Keys PROVE Sum(KnownOfPlayer(k), Seats) = book[k].chips
    BY DEF ChipsAreBooked
  <2>1. \A s \in Seats : KnownOfPlayer(k)[s] = 0
    BY <1>1, EmptyIsSound DEF KnownOfPlayer, KnownAt, KnownOf
  <2>2. Sum(KnownOfPlayer(k), Seats) = 0
    BY <2>1, SeatsFinite, SumOfZeros
  <2>. QED
    BY <2>2 DEF NoEntries
<1>4. StakesAreBooked
  BY <1>1 DEF StakesAreBooked
<1>5. BalanceIsBooked
  BY KeysAreNot DEF BalanceIsBooked, NoEntries
<1>. QED
  BY <1>2, <1>3, <1>4, <1>5 DEF Books

LEMMA GoodInit == Init => Good
<1>. SUFFICES ASSUME Init PROVE Good
  OBVIOUS
<1>1. Sound /\ Books
  BY TableAssumption, ClearTable DEF Init
<1>2. IInv
  BY IInvInit
<1>3. \A s \in Seats : seat[s] = Empty
  BY DEF Init
<1>4. TypeOK
  <2>1. /\ inHand \in BOOLEAN /\ seat \in [Seats -> Place] /\ removed \subseteq Seats
        /\ bigBlind \in Seats \cup {NoSeat} /\ anteTotal \in Nat
        /\ unbooked \subseteq Keys
        /\ requests \in Nat /\ handNumber \in Nat /\ game \in Nat
    BY EmptyIsPlace DEF Init
  <2>2. /\ dealt \in [Seats -> [who : Keys \cup {Nobody}, stack : Nat]]
        /\ handChipAdds \in [Seats -> Nat]
        /\ handLeavers \in [Seats -> [key : Keys \cup {Nobody}, stack : Nat]]
    BY DEF Init, NobodyDealt, NothingAdded, NobodyLeft
  <2>3. book \in [Keys -> [chips : Int, net : Int]]
    BY DEF Init, NoEntries
  <2>4. balance \in [Users -> Nat] /\ opened \in [Users -> Nat]
    BY TableAssumption DEF Init
  <2>. QED
    BY <1>3, <2>1, <2>2, <2>3, <2>4 DEF TypeOK
<1>. QED
  BY <1>1, <1>2, <1>4 DEF Good

LEMMA ResetTableGood ==
  ASSUME Good, ResetTable, Typed'
  PROVE  Sound' /\ Books'
<1>1. /\ inHand' = FALSE /\ seat' = [s \in Seats |-> Empty]
      /\ dealt' = NobodyDealt /\ anteTotal' = 0
      /\ handChipAdds' = NothingAdded /\ handLeavers' = NobodyLeft
      /\ book' = NoEntries(Keys) /\ opened' = balance' /\ balance' \in [Users -> Nat]
  BY DEF ResetTable, Typed
<1>2. \A s \in Seats : seat'[s] = Empty /\ handLeavers'[s].key = Nobody /\ ~IsInCurrentHand(s)'
  BY <1>1 DEF NobodyLeft, IsInCurrentHand
<1>3. Sound'
  <2>1. SeatsAreSound' /\ OneSeatEach' /\ OnePartEach'
    BY <1>1, <1>2, EmptyIsSound DEF SeatsAreSound, OneSeatEach, OnePartEach
  <2>2. HandIsClear'
    BY <1>1 DEF HandIsClear, NobodyDealt, NothingAdded, NobodyLeft
  <2>. QED
    BY <2>1, <2>2 DEF Sound
<1>4. ChipsAreBooked'
  <2>. SUFFICES ASSUME NEW k \in Keys PROVE Sum(KnownOfPlayer(k)', Seats) = book'[k].chips
    BY DEF ChipsAreBooked
  <2>. DEFINE g == [t \in Seats |-> IF seat'[t].who = k THEN KnownAt(t)' ELSE 0]
  <2>1. KnownOfPlayer(k)' = g
    BY DEF KnownOfPlayer
  <2>2. \A s \in Seats : g[s] = 0
    BY <1>2, EmptyIsSound DEF KnownAt, KnownOf
  <2>. HIDE DEF g
  <2>3. Sum(g, Seats) = 0
    BY <2>2, SeatsFinite, SumOfZeros
  <2>. QED
    BY <1>1, <2>1, <2>3 DEF NoEntries
<1>5. StakesAreBooked'
  BY <1>2 DEF StakesAreBooked
<1>6. BalanceIsBooked'
  BY <1>1, KeysAreNot DEF BalanceIsBooked, NoEntries
<1>. QED
  BY <1>3, <1>4, <1>5, <1>6 DEF Books

-----------------------------------------------------------------------------
LEMMA KeepsGood ==
  ASSUME Good, NEW s \in Seats, Keeps(s), Typed'
  PROVE  Sound' /\ Books'
<1>1. PICK r, k, amount : OneSeat(s, r) /\ Fits(s, r) /\ Pays(s, r, k, amount)
  BY DEF Keeps
<1>2. inHand \in BOOLEAN /\ Placed /\ Sound /\ Books /\ TypeOK
  BY DEF Good, IInv, TypeOK
<1>3. Sound'
  BY <1>1, <1>2, OneSeatStaysSound
<1>4. Books'
  BY <1>1, <1>2, OneSeatStaysBooked
<1>. QED
  BY <1>3, <1>4

LEMMA RequestGood ==
  ASSUME Good, NEW s \in Seats, Request(s), Typed'
  PROVE  Sound' /\ Books'
<1>1. ASSUME NEW gone, RemoveNow(s, gone) \/ RemoveAfterHand(s, gone) PROVE Sound' /\ Books'
  BY <1>1, RemoveNowGood, RemoveAfterHandGood, KeepsGood
<1>2. CASE RemoveEmpty(s)
  BY <1>2, NothingMoves DEF RemoveEmpty, Good
<1>3. ASSUME NEW t \in Seats, ChangeSeat(s, t) PROVE Sound' /\ Books'
  BY <1>3, MoveLaterGood, MoveNowGood, KeepsGood
<1>4. ASSUME NEW u \in Users, TakeSeat(u, s) PROVE Sound' /\ Books'
  BY <1>4, TakeSeatGood, KeepsGood
<1>5. CASE AddBot(s) \/ LeaveSeat(s) \/ AddChips(s) \/ SitOut(s) \/ SitIn(s)
  BY <1>5, AddBotGood, LeaveSeatGood, AddChipsGood, SitOutGood, SitInGood, KeepsGood
<1>. QED
  BY <1>1, <1>2, <1>3, <1>4, <1>5 DEF Request, RemovePlayer, DeleteSeat

\* A turn, the hand over with it or not.
LEMMA ActIsATurn ==
  ASSUME Good, NEW s \in Seats, Act(s)
  PROVE  /\ inHand /\ seat[s].status = "active"
         /\ \/ /\ Keeps(s)
               /\ UNCHANGED <<inHand, removed, handVars, book, balance, opened, unbooked>>
            \/ \E fin : PaidOff(fin) /\ HandOver(fin)
<1>1. inHand /\ seat[s].status = "active"
  BY DEF Act
<1>2. PICK r \in Turns(seat[s]) :
        LET after == [seat EXCEPT ![s] = r] IN
        \/ /\ seat' = after
           /\ UNCHANGED <<inHand, removed, handVars, book, balance, opened, unbooked>>
        \/ \E won \in Awards(after, Middle(after) + anteTotal) : HandOver(Awarded(after, won))
  BY DEF Act
<1>. DEFINE after == [seat EXCEPT ![s] = r]
<1>3. CASE /\ seat' = after
           /\ UNCHANGED <<inHand, removed, handVars, book, balance, opened, unbooked>>
  BY <1>1, <1>3, TurnGood
<1>4. ASSUME NEW won \in Awards(after, Middle(after) + anteTotal), HandOver(Awarded(after, won))
      PROVE  \E fin : PaidOff(fin) /\ HandOver(fin)
  <2>1. PaidOff(Awarded(after, won))
    BY <1>1, HandIsPaidOff
  <2>. QED
    BY <1>4, <2>1
<1>. QED
  BY <1>1, <1>2, <1>3, <1>4

LEMMA ActIsNoted ==
  ASSUME Good, NEW s \in Seats, Act(s)
  PROVE  Notes'
<1>1. inHand /\ \/ UNCHANGED <<inHand, removed, handVars, book, balance, opened, unbooked>>
                \/ \E fin : PaidOff(fin) /\ HandOver(fin)
  BY ActIsATurn
<1>2. CASE UNCHANGED <<inHand, removed, handVars, book, balance, opened, unbooked>>
  BY <1>2, GoodNotes DEF Notes, handVars
<1>3. CASE \E fin : PaidOff(fin) /\ HandOver(fin)
  BY <1>1, <1>3, HandOverIsNoted
<1>. QED
  BY <1>1, <1>2, <1>3

LEMMA ActGood ==
  ASSUME Good, NEW s \in Seats, Act(s), Typed'
  PROVE  Sound' /\ Books'
<1>1. inHand /\ (Keeps(s) \/ \E fin : PaidOff(fin) /\ HandOver(fin))
  BY ActIsATurn
<1>. QED
  BY <1>1, KeepsGood, HandOverGood

-----------------------------------------------------------------------------
LEMMA TypedNext ==
  ASSUME Good, [Next]_vars
  PROVE  IInv' /\ Typed'
<1>1. IInv /\ InHandIsBoolean /\ Notes /\ Counted
  BY GoodNotes DEF Good, TypeOK, InHandIsBoolean, Counted
<1>2. IInv' /\ InHandIsBoolean'
  BY <1>1, IInvNext, InHandStaysBoolean
<1>3. Notes'
  <2>1. CASE AddSeat
    <3>1. removed' \subseteq removed
      BY <2>1 DEF AddSeat
    <3>. QED
      BY <1>1, <2>1, <3>1 DEF AddSeat, Notes, handVars
  <2>2. ASSUME NEW s \in Seats, Request(s) \/ Act(s) PROVE Notes'
    BY <2>2, RequestIsNoted, ActIsNoted
  <2>3. CASE UNCHANGED vars
    BY <1>1, <2>3 DEF vars, handVars, Notes
  <2>. QED
    BY <2>1, <2>2, <2>3, StartIsNoted, ResetIsNoted DEF Next
<1>4. Counted'
  BY <1>1 DEF Next, vars, Counted
<1>. QED
  BY <1>2, <1>3, <1>4, TypedParts DEF IInv

LEMMA GoodNext == Good /\ [Next]_vars => Good'
<1>. SUFFICES ASSUME Good, [Next]_vars PROVE Good'
  OBVIOUS
<1>1. IInv' /\ Typed'
  BY TypedNext
<1>2. Sound' /\ Books'
  <2>1. CASE AddSeat
    BY <2>1, NothingMoves DEF AddSeat, Good
  <2>2. ASSUME NEW s \in Seats, Request(s) \/ Act(s) PROVE Sound' /\ Books'
    BY <1>1, <2>2, RequestGood, ActGood
  <2>3. CASE UNCHANGED vars
    BY <2>3, NothingMoves DEF vars, Good
  <2>. QED
    BY <1>1, <2>1, <2>2, <2>3, StartHandGood, ResetTableGood DEF Next
<1>3. TypeOK'
  BY <1>1, <1>2, TypedIsTypeOK
<1>. QED
  BY <1>1, <1>2, <1>3 DEF Good

LEMMA GoodHolds == Spec => []Good
BY GoodInit, GoodNext, PTL DEF Spec

-----------------------------------------------------------------------------
\* Everything of the table is what it should be; nobody pays more than they have
\* (takeSeat, addChips), and an empty seat keeps nothing of who left it.
THEOREM TypeCorrect == Spec => []TypeOK
<1>1. Good => TypeOK
  BY DEF Good
<1>. QED
  BY <1>1, GoodHolds, PTL

-----------------------------------------------------------------------------
(***************************************************************************)
(* What the book says is what the table says.                              *)
(***************************************************************************)
\* The chips that are somebody's share of a hand that is called off are the
\* chips the book knows of.
LEMMA KnownIsRefund ==
  ASSUME Good, NEW s \in Seats, seat[s].who \notin unbooked
  PROVE  /\ KnownAt(s) = VoidedHandRefund(s)
         /\ KnownAt(s) = (seat[s].stack + seat[s].pendingChips + seat[s].bet) + AnteOf(s)
         /\ AnteOf(s) \in Nat
         /\ ~inHand => KnownAt(s) = CashOutAmount(s)
         /\ ~seat[s].here => CashOutAmount(s) = 0
<1>1. /\ SeatIsSound(seat[s], inHand, handLeavers[s].key) /\ inHand \in BOOLEAN
      /\ seat[s].stack \in Nat /\ seat[s].bet \in Nat /\ seat[s].pendingChips \in Nat
      /\ dealt[s].stack \in Nat /\ handChipAdds[s] \in Nat /\ handLeavers[s].stack \in Nat
      /\ anteTotal \in Nat
  BY SeatFields
<1>2. AnteOf(s) \in Nat
  BY <1>1 DEF AnteOf
<1>3. VoidedHandRefund(s) =
        seat[s].stack + seat[s].pendingChips + (IF inHand THEN seat[s].bet + AnteOf(s) ELSE 0)
  BY DEF VoidedHandRefund, CashOutAmount, AnteOf
<1>4. ~seat[s].here => seat[s].stack = 0 /\ seat[s].pendingChips = 0
  <2>1. CASE seat[s].status = "empty"
    <3>1. seat[s] = Empty
      BY <1>1, <2>1 DEF SeatIsSound
    <3>. QED
      BY <3>1 DEF Empty
  <2>2. CASE seat[s].status # "empty"
    BY <1>1, <2>2 DEF SeatIsSound, HasLeft, GoneFrom
  <2>. QED
    BY <2>1, <2>2
<1>5. CASE IsInCurrentHand(s)
  <2>1. StakeOf(seat[s], handLeavers[s].stack) + AnteOf(s) = Part(s) /\ inHand
    BY <1>5 DEF Good, Books, StakesAreBooked, IsInCurrentHand
  <2>2. /\ (IF seat[s].here THEN seat[s].stack ELSE handLeavers[s].stack) + seat[s].bet + AnteOf(s)
             = dealt[s].stack + handChipAdds[s]
        /\ KnownAt(s) = IF seat[s].here THEN dealt[s].stack + handChipAdds[s] + seat[s].pendingChips
                        ELSE (dealt[s].stack + handChipAdds[s]) - handLeavers[s].stack
    BY <1>5, <2>1 DEF StakeOf, Part, KnownAt, KnownOf
  <2>3. CASE seat[s].here
    BY <1>1, <1>2, <1>3, <2>1, <2>2, <2>3
  <2>4. CASE ~seat[s].here
    <3>1. seat[s].stack = 0 /\ seat[s].pendingChips = 0 /\ CashOutAmount(s) = 0
      BY <1>4, <2>4 DEF CashOutAmount
    <3>2. KnownAt(s) = seat[s].bet + AnteOf(s)
      BY <1>1, <1>2, <2>2, <2>4
    <3>3. VoidedHandRefund(s) = seat[s].bet + AnteOf(s)
      BY <1>1, <1>2, <1>3, <2>1, <3>1
    <3>. QED
      BY <1>1, <1>2, <2>1, <3>1, <3>2, <3>3
  <2>. QED
    BY <2>3, <2>4
<1>6. CASE ~IsInCurrentHand(s)
  <2>1. seat[s].bet = 0
    BY <1>1, <1>6 DEF SeatIsSound, AtRest, IsInCurrentHand
  <2>2. AnteOf(s) = 0
    BY <1>6 DEF AnteOf, Good, Sound, HandIsClear
  <2>3. KnownAt(s) = seat[s].stack + seat[s].pendingChips
    BY <1>1, <1>4, <1>6 DEF KnownAt, KnownOf
  <2>. QED
    BY <1>1, <1>3, <1>4, <2>1, <2>2, <2>3 DEF CashOutAmount
<1>. QED
  BY <1>5, <1>6

\* Between hands the book has the chips of everybody it is right about.
LEMMA BookIsHeld ==
  ASSUME Good, ~inHand, NEW k \in Keys \ unbooked
  PROVE  book[k].chips = ChipsHeldBy(k)
<1>. DEFINE P == {s \in SeatsOf(k) : seat[s].here}
            f == [s \in P |-> CashOutAmount(s)]
            g == [s \in Seats |-> CashOutAmount(s)]
            h == KnownOfPlayer(k)
<1>1. ChipsHeldBy(k) = Sum(f, P)
  BY DEF ChipsHeldBy, SumOver, SumFunction, Sum, SumFunctionOnSet
<1>2. P \in SUBSET Seats /\ \A s \in P : seat[s].who = k /\ seat[s].here
  BY DEF SeatsOf
<1>3. \A s \in Seats : g[s] \in Int
  BY SeatFields DEF CashOutAmount
<1>4. \A s \in Seats : h[s] = IF s \in P THEN g[s] ELSE 0
  <2>. SUFFICES ASSUME NEW s \in Seats PROVE h[s] = IF s \in P THEN g[s] ELSE 0
    OBVIOUS
  <2>1. CASE seat[s].who = k
    <3>1. h[s] = CashOutAmount(s) /\ (~seat[s].here => CashOutAmount(s) = 0)
      BY <2>1, KnownIsRefund DEF KnownOfPlayer
    <3>2. s \in P <=> seat[s].here
      BY <2>1 DEF SeatsOf
    <3>. QED
      BY <3>1, <3>2
  <2>2. CASE seat[s].who # k
    BY <2>2 DEF KnownOfPlayer, SeatsOf
  <2>. QED
    BY <2>1, <2>2
<1>5. \A s \in P : f[s] = g[s]
  BY <1>2
<1>6. Sum(h, Seats) = book[k].chips
  BY DEF Good, Books, ChipsAreBooked
<1>. HIDE DEF P, f, g, h
<1>7. IsFiniteSet(P)
  BY <1>2, SeatsFinite, FS_Subset
<1>8. Sum(f, P) = Sum(g, P)
  BY <1>5, <1>7, SumsAgree
<1>9. Sum(g, P) = Sum(h, Seats)
  BY <1>2, <1>3, <1>4, SeatsFinite, SumOfPart
<1>. QED
  BY <1>1, <1>6, <1>8, <1>9

LEMMA KeysFinite == IsFiniteSet(Keys)
<1>. DEFINE bot == [s \in Seats |-> BotAt(s)]
<1>1. bot \in Surjection(Seats, Bots)
  BY DEF Surjection, Bots
<1>2. IsFiniteSet(Bots)
  BY <1>1, SeatsFinite, FS_Surjection
<1>. QED
  BY <1>2, TableAssumption, FS_Union DEF Keys

\* The ante is in one seat's account, or nobody's.
LEMMA AnteIsOnes ==
  ASSUME Good, NEW ante, ante = [s \in Seats |-> AnteOf(s)]
  PROVE  /\ \A s \in Seats : ante[s] \in Int
         /\ Sum(ante, Seats) = anteTotal
<1>1. anteTotal \in Nat /\ \A s \in Seats : ante[s] = IF s = bigBlind THEN anteTotal ELSE 0
  BY DEF AnteOf, Good, TypeOK
<1>2. \A s \in Seats : ante[s] \in Int
  BY <1>1
<1>3. CASE inHand
  <2>1. bigBlind \in Seats
    BY <1>3 DEF Good, Sound, HandIsClear
  <2>2. Sum(ante, Seats) = ante[bigBlind]
    BY <1>1, <1>2, <2>1, SeatsFinite, SumOfTheOnly
  <2>. QED
    BY <1>1, <1>2, <2>1, <2>2
<1>4. CASE ~inHand
  <2>1. anteTotal = 0
    BY <1>4 DEF Good, Sound, HandIsClear
  <2>2. \A s \in Seats : ante[s] = 0
    BY <1>1, <2>1
  <2>3. Sum(ante, Seats) = 0
    BY <2>2, SeatsFinite, SumOfZeros
  <2>. QED
    BY <1>2, <2>1, <2>3
<1>. QED
  BY <1>3, <1>4

\* All the chips of the book are all the chips of the table.
LEMMA BookIsTable ==
  ASSUME Good, unbooked = {}
  PROVE  SumOver(Keys, LAMBDA k : book[k].chips) = TableChips
<1>. DEFINE known == [s \in Seats |-> KnownAt(s)]
            who == [s \in Seats |-> seat[s].who]
            K == Keys \cup {Nobody}
            groups == GroupSums(known, Seats, who, K)
            chips == [k \in Keys |-> book[k].chips]
            there == [s \in Seats |-> seat[s].stack + seat[s].pendingChips + seat[s].bet]
            ante == [s \in Seats |-> AnteOf(s)]
<1>1. /\ SumOver(Keys, LAMBDA k : book[k].chips) = Sum(chips, Keys)
      /\ TableChips = Sum(there, Seats) + anteTotal
  BY DEF TableChips, SumOver, SumFunction, Sum, SumFunctionOnSet
<1>2. /\ \A s \in Seats : known[s] \in Int
      /\ \A s \in Seats : there[s] \in Int
      /\ \A s \in Seats : who[s] \in K
  BY SeatFields, KnownIsInt DEF Good
<1>3. /\ \A s \in Seats : ante[s] \in Int
      /\ Sum(ante, Seats) = anteTotal
  BY AnteIsOnes
<1>4. \A s \in Seats : known[s] = there[s] + ante[s]
  BY KnownIsRefund
<1>5. IsFiniteSet(K) /\ Nobody \in K /\ K \ {Nobody} = Keys
  BY KeysFinite, KeysAreNot, FS_AddElement
<1>6. \A k \in K : groups[k] = Sum(known, {s \in Seats : who[s] = k})
  BY DEF GroupSums
<1>7. ASSUME NEW k \in K PROVE groups[k] = Sum(KnownOfPlayer(k), Seats)
  <2>. DEFINE P == {s \in Seats : who[s] = k}
              g == KnownOfPlayer(k)
  <2>1. P \in SUBSET Seats
    OBVIOUS
  <2>2. \A s \in Seats : g[s] = IF s \in P THEN known[s] ELSE 0
    BY DEF KnownOfPlayer
  <2>3. groups[k] = Sum(known, P)
    BY <1>6
  <2>. HIDE DEF known, P, g, groups
  <2>4. Sum(known, P) = Sum(g, Seats)
    BY <1>2, <2>1, <2>2, SeatsFinite, SumOfPart
  <2>. QED
    BY <2>3, <2>4 DEF g
<1>8. \A k \in Keys : groups[k] = chips[k] /\ chips[k] \in Int
  BY <1>7 DEF Good, Books, ChipsAreBooked, TypeOK
<1>9. groups[Nobody] = 0
  <2>. DEFINE g == KnownOfPlayer(Nobody)
  <2>1. \A s \in Seats : g[s] = 0
    <3>. SUFFICES ASSUME NEW s \in Seats, seat[s].who = Nobody PROVE KnownAt(s) = 0
      BY DEF KnownOfPlayer
    <3>1. seat[s] = Empty
      BY SeatFields, KeysAreNot DEF SeatIsSound
    <3>. QED
      BY <3>1, EmptyIsSound DEF KnownAt, KnownOf, IsInCurrentHand
  <2>. HIDE DEF g
  <2>2. Sum(g, Seats) = 0
    BY <2>1, SeatsFinite, SumOfZeros
  <2>. QED
    BY <1>5, <1>7, <2>2 DEF g
<1>. HIDE DEF known, who, groups, chips, there, ante, K
<1>10. Sum(groups, K) = Sum(known, Seats)
  BY <1>2, <1>5, SeatsFinite, SumOfGroups DEF groups
<1>11. Sum(known, Seats) = Sum(there, Seats) + Sum(ante, Seats)
  BY <1>2, <1>3, <1>4, SeatsFinite, SumsAdd
<1>12. Sum(groups, K) = groups[Nobody] + Sum(groups, Keys)
  <2>1. \A k \in K : groups[k] \in Int
    BY <1>5, <1>8, <1>9
  <2>. QED
    BY <1>5, <2>1, SumTakes
<1>13. Sum(groups, Keys) = Sum(chips, Keys)
  BY <1>8, KeysFinite, SumsAgree
<1>14. Sum(chips, Keys) \in Int
  BY <1>8, KeysFinite, SumIsInt
<1>. QED
  BY <1>1, <1>3, <1>9, <1>10, <1>11, <1>12, <1>13, <1>14

\* GameBook and the table: reconcileBook has nothing to report, and the book
\* has the chips of the table at every moment.
THEOREM BookIsRight == Spec => []BookAgrees
<1>1. ASSUME Good PROVE BookAgrees
  <2>1. ~inHand => Mismatched(book, [k \in Keys |-> ChipsHeldBy(k)]) \subseteq unbooked
    <3>1. DOMAIN book = Keys
      BY <1>1 DEF Good, TypeOK
    <3>. QED
      BY <1>1, <3>1, BookIsHeld DEF Mismatched
  <2>. QED
    BY <1>1, <2>1, BookIsTable DEF BookAgrees
<1>. QED
  BY <1>1, GoodHolds, PTL

\* What a player has won or lost by the book is what they have gained or lost.
THEOREM NetIsRight == Spec => []NetIsReal
<1>1. ASSUME Good PROVE NetIsReal
  <2>. SUFFICES ASSUME ~inHand, NEW u \in Users \ unbooked
                PROVE  balance[u] + ChipsHeldBy(u) = opened[u] + book[u].net
    BY DEF NetIsReal
  <2>1. balance[u] + book[u].chips = opened[u] + book[u].net
    BY <1>1 DEF Good, Books, BalanceIsBooked
  <2>2. book[u].chips = ChipsHeldBy(u)
    BY <1>1, BookIsHeld, KeysAreNot
  <2>. QED
    BY <2>1, <2>2
<1>. QED
  BY <1>1, GoodHolds, PTL

-----------------------------------------------------------------------------
\* A hand called off: a player is refunded what the book has of them.
LEMMA RefundsAreKnown ==
  ASSUME Good, NEW u \in Users \ unbooked, \A s \in SeatsOf(u) : ~LeftBetsBehind(s)
  PROVE  Refunds(u) = book[u].chips
<1>. DEFINE P == {s \in SeatsOf(u) : seat[s].here}
            f == [s \in P |-> VoidedHandRefund(s)]
            g == [s \in Seats |-> VoidedHandRefund(s)]
            h == KnownOfPlayer(u)
<1>1. Refunds(u) = Sum(f, P)
  BY DEF Refunds, SumOver, SumFunction, Sum, SumFunctionOnSet
<1>2. P \in SUBSET Seats /\ \A s \in P : seat[s].who = u /\ seat[s].here
  BY DEF SeatsOf
<1>3. \A s \in Seats : g[s] \in Nat
  BY RefundIsNat
<1>4. \A s \in Seats : h[s] = IF s \in P THEN g[s] ELSE 0
  <2>. SUFFICES ASSUME NEW s \in Seats PROVE h[s] = IF s \in P THEN g[s] ELSE 0
    OBVIOUS
  <2>1. CASE seat[s].who = u
    <3>1. h[s] = VoidedHandRefund(s) /\ (~inHand => h[s] = CashOutAmount(s))
          /\ (~seat[s].here => CashOutAmount(s) = 0)
      BY <2>1, KnownIsRefund DEF KnownOfPlayer
    <3>2. s \in P <=> seat[s].here
      BY <2>1 DEF SeatsOf
    <3>3. ~seat[s].here => VoidedHandRefund(s) = 0
      <4>1. ~LeftBetsBehind(s)
        BY <2>1 DEF SeatsOf
      <4>2. VoidedHandRefund(s) \in Nat
        BY RefundIsNat
      <4>. QED
        BY <3>1, <4>1, <4>2 DEF LeftBetsBehind
    <3>. QED
      BY <3>1, <3>2, <3>3
  <2>2. CASE seat[s].who # u
    BY <2>2 DEF KnownOfPlayer, SeatsOf
  <2>. QED
    BY <2>1, <2>2
<1>5. \A s \in P : f[s] = g[s]
  BY <1>2
<1>6. Sum(h, Seats) = book[u].chips
  BY KeysAreNot DEF Good, Books, ChipsAreBooked
<1>. HIDE DEF P, f, g, h
<1>7. IsFiniteSet(P)
  BY <1>2, SeatsFinite, FS_Subset
<1>8. Sum(f, P) = Sum(g, P)
  BY <1>5, <1>7, SumsAgree
<1>9. Sum(g, P) = Sum(h, Seats)
  BY <1>2, <1>3, <1>4, SeatsFinite, SumOfPart
<1>. QED
  BY <1>1, <1>6, <1>8, <1>9

\* resetTable: a hand called off costs nobody who is still at the table anything.
THEOREM ClosedGameIsSettled == Spec => ClosedGameIsPaid
<1>. DEFINE Step == ResetTable =>
              \A u \in Users \ unbooked :
                (\A s \in SeatsOf(u) : ~LeftBetsBehind(s)) =>
                  balance'[u] = opened[u] + book[u].net
<1>1. ASSUME Good PROVE Step
  <2>. SUFFICES ASSUME ResetTable, NEW u \in Users \ unbooked,
                       \A s \in SeatsOf(u) : ~LeftBetsBehind(s)
                PROVE  balance'[u] = opened[u] + book[u].net
    OBVIOUS
  <2>1. balance'[u] = balance[u] + book[u].chips
    BY <1>1, RefundsAreKnown DEF ResetTable
  <2>. QED
    BY <1>1, <2>1 DEF Good, Books, BalanceIsBooked
<1>. QED
  BY <1>1, GoodHolds, PTL DEF ClosedGameIsPaid

-----------------------------------------------------------------------------
(***************************************************************************)
(* What was put off to the end of a hand.                                  *)
(***************************************************************************)
\* Who waits for something is sitting there.
LEMMA WaitersAreThere ==
  ASSUME Good, NEW s \in Seats
  PROVE  /\ seat[s].pendingRemoval # "no" => seat[s].who \in Keys
         /\ seat[s].pendingMoveTo # NoSeat =>
              seat[s].here /\ seat[s].status # "empty" /\ seat[s].who \in Keys
<1>1. /\ SeatIsSound(seat[s], inHand, handLeavers[s].key)
      /\ seat[s].status # "empty" => seat[s].who \in Keys
  BY SeatFields
<1>2. seat[s].status = "empty" => seat[s].pendingRemoval = "no" /\ seat[s].pendingMoveTo = NoSeat
  BY <1>1 DEF SeatIsSound, Empty
<1>3. HasLeft(seat[s]) => seat[s].pendingMoveTo = NoSeat
  BY <1>1 DEF SeatIsSound, GoneFrom
<1>. QED
  BY <1>1, <1>2, <1>3 DEF HasLeft

\* At the end of a hand: gone who was removed, and moved who asked for it.
LEMMA EndDoesIt ==
  ASSUME Good, inHand, NEW fin, PaidOff(fin), NEW gone, NEW after,
         after = AfterMoves(AtEnd(fin), gone)
  PROVE  /\ \A s \in Seats : seat[s].pendingRemoval # "no" => after[s].who # seat[s].who
         /\ \A s, t \in Seats :
              seat[s].pendingMoveTo = t /\ seat[s].pendingRemoval = "no" =>
                IF t \in gone THEN after[s].who = seat[s].who /\ after[t].who = Nobody
                ELSE after[t].who = seat[s].who /\ after[s].who # seat[s].who
<1>. DEFINE at == AtEnd(fin)
            movers == Moves(at, gone)
            Dest(o) == GoesTo(at, gone, o)
<1>1. /\ at \in [Seats -> Place]
      /\ \A s \in Seats : at[s].here => at[s].status # "empty"
      /\ \A s \in Seats : ~Stays(fin[s]) => at[s] = Empty
      /\ \A s \in Seats : Stays(fin[s]) =>
           /\ at[s].status # "empty" /\ at[s].who = fin[s].who /\ at[s].here
           /\ at[s].pendingMoveTo = fin[s].pendingMoveTo
  BY EndOfHand
<1>2. \A s \in Seats : /\ fin[s].who = seat[s].who /\ fin[s].here = seat[s].here
                       /\ fin[s].pendingRemoval = seat[s].pendingRemoval
                       /\ fin[s].pendingMoveTo = seat[s].pendingMoveTo
                       /\ fin[s].status = "empty" <=> seat[s].status = "empty"
  BY DEF PaidOff
<1>3. \A s, t \in Seats :
        seat[s].pendingMoveTo = t =>
          seat[t].status = "empty" /\ \A r \in Seats : seat[r].pendingMoveTo = t => r = s
  BY DEF Good, IInv, HeldSeatStaysFree
<1>4. /\ Nobody \notin Keys /\ NoSeat \notin Seats
      /\ Empty.who = Nobody /\ ~Empty.here /\ Empty.pendingMoveTo = NoSeat /\ Empty.status = "empty"
  BY KeysAreNot, NoSeatIsNone, EmptyIsPlace, EmptyIsSound
<1>5. \A s \in Seats : at[s].pendingMoveTo # NoSeat => at[s].pendingMoveTo = seat[s].pendingMoveTo
  BY <1>1, <1>2, <1>4
<1>6. \A t \in Seats : seat[t].status = "empty" => at[t] = Empty
  <2>. SUFFICES ASSUME NEW t \in Seats, seat[t].status = "empty" PROVE ~Stays(fin[t])
    BY <1>1
  <2>1. ~seat[t].here
    BY SeatIsEmpty
  <2>. QED
    BY <1>2, <2>1 DEF Stays
<1>. HIDE DEF at
<1>7. \A m \in movers : /\ m \in Seats /\ at[m].here
                        /\ at[m].pendingMoveTo \in Seats /\ at[m].pendingMoveTo \notin gone
                        /\ at[at[m].pendingMoveTo].status = "empty"
                        /\ \A x \in Seats : at[x].pendingMoveTo = at[m].pendingMoveTo => x = m
  BY <1>1, MoversAreApart
<1>8. \A o : Dest(o) = IF o \in movers THEN at[o].pendingMoveTo ELSE o
  BY DEF GoesTo
<1>9. \A s \in Seats : /\ at[s].here => after[Dest(s)] = Stay(at[s])
                       /\ \/ after[s] = Empty /\ s \in movers
                          \/ \E o \in Seats : Dest(o) = s /\ after[s] = Stay(at[o])
  BY <1>1, AfterMovesAt DEF at
<1>. HIDE DEF movers, Dest
<1>10. \A s \in Seats : Stay(at[s]).who = at[s].who
  BY <1>1, StayFields
\* A seat nobody moves to has its own player after, or nobody.
<1>11. ASSUME NEW s \in Seats, \A m \in movers : at[m].pendingMoveTo # s
       PROVE  after[s].who \in {Nobody, at[s].who} /\ (s \in movers => after[s].who = Nobody)
  <2>1. CASE after[s] = Empty /\ s \in movers
    BY <1>4, <2>1
  <2>2. ASSUME NEW o \in Seats, Dest(o) = s, after[s] = Stay(at[o])
        PROVE  after[s].who = at[s].who /\ s \notin movers
    <3>1. o \notin movers
      BY <1>8, <1>11, <2>2
    <3>2. o = s
      BY <1>8, <2>2, <3>1
    <3>. QED
      BY <1>10, <2>2, <3>1, <3>2
  <2>. QED
    BY <1>9, <2>1, <2>2
<1>12. ASSUME NEW s \in Seats, seat[s].pendingRemoval # "no"
       PROVE  after[s].who # seat[s].who
  <2>1. seat[s].who \in Keys /\ at[s] = Empty /\ seat[s].status # "empty"
    <3>1. seat[s].status # "empty"
      BY <1>12, SeatFields DEF SeatIsSound, Empty
    <3>. QED
      BY <1>1, <1>2, <1>12, <3>1, WaitersAreThere DEF Stays
  <2>2. \A m \in movers : at[m].pendingMoveTo # s
    <3>. SUFFICES ASSUME NEW m \in movers, at[m].pendingMoveTo = s PROVE FALSE
      OBVIOUS
    <3>1. m \in Seats /\ seat[m].pendingMoveTo = s
      BY <1>4, <1>5, <1>7
    <3>. QED
      BY <1>3, <2>1, <3>1
  <2>3. after[s].who = Nobody
    BY <1>4, <1>11, <2>1, <2>2
  <2>. QED
    BY <1>4, <2>1, <2>3
<1>13. ASSUME NEW s \in Seats, NEW t \in Seats,
              seat[s].pendingMoveTo = t, seat[s].pendingRemoval = "no"
       PROVE  IF t \in gone THEN after[s].who = seat[s].who /\ after[t].who = Nobody
              ELSE after[t].who = seat[s].who /\ after[s].who # seat[s].who
  <2>1. seat[s].here /\ seat[s].status # "empty" /\ seat[s].who \in Keys
    BY <1>4, <1>13, WaitersAreThere
  <2>2. /\ at[s].who = seat[s].who /\ at[s].here /\ at[s].pendingMoveTo = t
        /\ at[s].status # "empty"
    BY <1>1, <1>2, <1>13, <2>1 DEF Stays
  <2>3. at[t] = Empty /\ s # t
    BY <1>3, <1>6, <1>13, <2>1
  <2>4. \A m \in movers : at[m].pendingMoveTo # s
    BY <1>7, <2>2
  <2>5. \A m \in movers : at[m].pendingMoveTo = t => m = s
    BY <1>7, <2>2
  <2>6. CASE t \in gone
    <3>1. s \notin movers /\ \A m \in movers : at[m].pendingMoveTo # t
      BY <1>7, <2>2, <2>6
    <3>2. Dest(s) = s
      BY <1>8, <3>1
    <3>3. after[s].who = seat[s].who
      BY <1>9, <1>10, <2>2, <3>2
    <3>4. after[t].who = Nobody
      BY <1>4, <1>11, <2>3, <3>1
    <3>. QED
      BY <2>6, <3>3, <3>4
  <2>7. CASE t \notin gone
    <3>. DEFINE but == [at EXCEPT ![s].pendingMoveTo = NoSeat]
    <3>1. /\ but[s].pendingMoveTo = NoSeat /\ but[t] = at[t]
          /\ \A x \in Seats \ {s} : but[x] = at[x]
      BY <1>1, <2>3 DEF Place
    <3>. HIDE DEF but
    <3>2. \A x \in Seats : but[x].pendingMoveTo # t
      <4>1. \A x \in Seats : at[x].pendingMoveTo = t => x = s
        BY <1>3, <1>4, <1>5, <1>13
      <4>. QED
        BY <1>4, <3>1, <4>1
    <3>3. Usable(t, but, gone)
      BY <1>4, <2>3, <2>7, <3>1, <3>2 DEF Usable
    <3>4. s \in movers
      BY <1>4, <2>2, <3>3 DEF movers, Moves, but
    <3>5. Dest(s) = t
      BY <1>8, <2>2, <3>4
    <3>6. after[t].who = seat[s].who
      BY <1>9, <1>10, <2>2, <3>5
    <3>7. after[s].who = Nobody
      BY <1>11, <2>4, <3>4
    <3>. QED
      BY <1>4, <2>1, <2>7, <3>6, <3>7
  <2>. QED
    BY <2>6, <2>7
<1>. QED
  BY <1>12, <1>13

\* applyHandEndChanges: when a hand is over nothing waits any more, who was to
\* go is gone, and who was to move has moved, unless the seat was deleted.
THEOREM PutOffIsAllDone == Spec => PutOffIsDone
<1>. DEFINE Done == inHand /\ ~inHand' /\ game' = game =>
       /\ NothingWaits'
       /\ \A s \in Seats :
            seat[s].pendingRemoval # "no" => seat'[s].who # seat[s].who
       /\ \A s, t \in Seats :
            (seat[s].pendingMoveTo = t /\ seat[s].pendingRemoval = "no") =>
              IF t \in removed' THEN seat'[s].who = seat[s].who /\ seat'[t].who = Nobody
              ELSE seat'[t].who = seat[s].who /\ seat'[s].who # seat[s].who
<1>1. ASSUME Good, Next PROVE Done
  <2>. SUFFICES ASSUME inHand, ~inHand', game' = game PROVE Done
    OBVIOUS
  <2>1. game \in Nat
    BY <1>1 DEF Good, TypeOK
  <2>2. ~StartHand /\ ~(\E s \in Seats : Request(s)) /\ ~AddSeat
    BY DEF StartHand, CanStartHand, AddSeat, Request, TakeSeat, AddBot, LeaveSeat, RemovePlayer,
           DeleteSeat, RemoveNow, RemoveAfterHand, RemoveEmpty, AddChips, SitOut, SitIn, ChangeSeat
  <2>3. PICK s \in Seats : Act(s)
    BY <1>1, <2>1, <2>2 DEF Next
  <2>4. PICK fin : PaidOff(fin) /\ HandOver(fin)
    BY <1>1, <2>3, ActIsATurn
  <2>5. seat' = AfterMoves(AtEnd(fin), removed')
    BY <2>4 DEF HandOver, AtEnd
  <2>6. \A t \in Seats : AtRest(seat'[t]) /\ ~seat'[t].joinsNextHand
    BY <1>1, <2>4, <2>5, AfterHand
  <2>7. NothingWaits'
    BY <2>6 DEF NothingWaits, AtRest
  <2>. QED
    BY <1>1, <2>4, <2>5, <2>7, EndDoesIt
<1>2. ASSUME Good, UNCHANGED vars PROVE Done
  BY <1>2 DEF vars
<1>3. Good /\ [Next]_vars => Done
  BY <1>1, <1>2
<1>. HIDE DEF Done
<1>4. Spec => [][Done]_vars
  BY <1>3, GoodHolds, PTL DEF Spec
<1>. QED
  BY <1>4, PTL DEF PutOffIsDone, Done

-----------------------------------------------------------------------------
(***************************************************************************)
(* Who pays whom.  Every payment clears the account of one of the two, so  *)
(* one payment less than there are players is enough.                      *)
(***************************************************************************)
LEMMA LargestIsLargest ==
  ASSUME NEW K, IsFiniteSet(K), K # {}, NEW left \in [K -> Int]
  PROVE  Largest(left) \in K /\ \A j \in K : left[Largest(left)] >= left[j]
<1>. DEFINE Bad == {T \in SUBSET K : T # {} /\ ~ \E k \in T : \A j \in T : left[k] >= left[j]}
<1>1. Bad = {}
  <2>. SUFFICES ASSUME Bad # {} PROVE FALSE
    OBVIOUS
  <2>1. PICK m \in Bad : \A x \in m : m \ {x} \notin Bad
    <3>1. Bad \in SUBSET (SUBSET K)
      OBVIOUS
    <3>. HIDE DEF Bad
    <3>. QED
      BY <3>1, SmallestSet
  <2>2. m \in SUBSET K /\ m # {} /\ ~ \E k \in m : \A j \in m : left[k] >= left[j]
    OBVIOUS
  <2>3. PICK x : x \in m
    BY <2>2
  <2>4. m \ {x} \notin Bad
    BY <2>1, <2>3
  <2>5. CASE m \ {x} = {}
    <3>1. \A j \in m : j = x
      BY <2>5
    <3>2. left[x] \in Int
      BY <2>2, <2>3
    <3>. QED
      BY <2>2, <2>3, <3>1, <3>2
  <2>6. CASE m \ {x} # {}
    <3>1. PICK k \in m \ {x} : \A j \in m \ {x} : left[k] >= left[j]
      BY <2>2, <2>4, <2>6
    <3>2. left[k] \in Int /\ left[x] \in Int /\ \A j \in m : left[j] \in Int
      BY <2>2, <2>3, <3>1
    <3>3. CASE left[k] >= left[x]
      BY <2>2, <3>1, <3>2, <3>3
    <3>4. CASE ~(left[k] >= left[x])
      <4>1. \A j \in m : left[x] >= left[j]
        BY <3>1, <3>2, <3>4
      <4>. QED
        BY <2>2, <2>3, <4>1
    <3>. QED
      BY <3>3, <3>4
  <2>. QED
    BY <2>5, <2>6
<1>2. \E k \in K : \A j \in K : left[k] >= left[j]
  BY <1>1
<1>3. DOMAIN left = K
  OBVIOUS
<1>. QED
  BY <1>2, <1>3 DEF Largest

LEMMA SmallestIsSmallest ==
  ASSUME NEW K, IsFiniteSet(K), K # {}, NEW left \in [K -> Int]
  PROVE  Smallest(left) \in K /\ \A j \in K : left[Smallest(left)] <= left[j]
<1>. DEFINE owed == [k \in K |-> -left[k]]
<1>1. owed \in [K -> Int]
  OBVIOUS
<1>. DEFINE most == Largest(owed)
<1>2. most \in K /\ \A j \in K : owed[most] >= owed[j]
  <2>. HIDE DEF owed
  <2>. QED
    BY <1>1, LargestIsLargest
<1>. HIDE DEF most
<1>3. \A j \in K : left[most] <= left[j]
  <2>. SUFFICES ASSUME NEW j \in K PROVE left[most] <= left[j]
    OBVIOUS
  <2>1. -left[most] >= -left[j] /\ left[most] \in Int /\ left[j] \in Int
    BY <1>2
  <2>. QED
    BY <2>1
<1>. QED
  BY <1>2, <1>3 DEF Smallest

\* Who owes nothing is owed nothing, if everybody is like them and it adds up to nothing.
LEMMA NobodyOwed ==
  ASSUME NEW K, IsFiniteSet(K), NEW f, \A k \in K : f[k] \in Nat, Sum(f, K) = 0, NEW k \in K
  PROVE  f[k] = 0
<1>1. \A j \in K : f[j] \in Int
  OBVIOUS
<1>2. Sum(f, K) = f[k] + Sum(f, K \ {k})
  BY <1>1, SumTakes
<1>3. IsFiniteSet(K \ {k}) /\ \A j \in K \ {k} : f[j] \in Nat
  BY FS_RemoveElement
<1>4. Sum(f, K \ {k}) \in Nat
  BY <1>3, SumIsNat
<1>. QED
  BY <1>2, <1>4

\* What is still to pay, of what there was at first: less, on the same side, and
\* nothing in sum.
ToPay(left, K) == left \in [K -> Int] /\ Sum(left, K) = 0
Less(left, first, K) ==
  \A k \in K : /\ first[k] >= 0 => left[k] >= 0
               /\ first[k] <= 0 => left[k] <= 0
Unpaid(left, K) == {k \in K : left[k] # 0}

LEMMA SomebodyOwes ==
  ASSUME NEW K, IsFiniteSet(K), NEW left, ToPay(left, K), ~Cleared(left)
  PROVE  LET p == Payment(left) IN
         /\ p.from \in K /\ p.to \in K /\ left[p.from] < 0 /\ left[p.to] > 0
         /\ p.amount \in Int /\ p.amount > 0
         /\ p.amount <= left[p.to] /\ p.amount <= -left[p.from]
         /\ p.amount = left[p.to] \/ p.amount = -left[p.from]
<1>1. left \in [K -> Int] /\ Sum(left, K) = 0 /\ DOMAIN left = K
  BY DEF ToPay
<1>2. PICK k \in K : left[k] # 0
  BY <1>1 DEF Cleared
<1>. DEFINE from == Smallest(left)
            to == Largest(left)
            less == [j \in K |-> -left[j]]
<1>3. /\ from \in K /\ to \in K
      /\ \A j \in K : left[from] <= left[j] /\ left[j] <= left[to]
  <2>1. K # {}
    BY <1>2
  <2>2. to \in K /\ \A j \in K : left[to] >= left[j]
    BY <1>1, <2>1, LargestIsLargest
  <2>3. from \in K /\ \A j \in K : left[from] <= left[j]
    BY <1>1, <2>1, SmallestIsSmallest
  <2>4. \A j \in K : left[j] \in Int
    BY <1>1
  <2>. HIDE DEF from, to
  <2>. QED
    BY <2>2, <2>3, <2>4
<1>4. /\ Payment(left).from = from /\ Payment(left).to = to
      /\ Payment(left).amount = IF left[to] <= -left[from] THEN left[to] ELSE -left[from]
  BY DEF Payment
<1>. HIDE DEF from, to
<1>5. left[k] \in Int /\ left[from] \in Int /\ left[to] \in Int
  BY <1>1, <1>3
<1>6. left[from] < 0
  <2>. SUFFICES ASSUME left[from] >= 0 PROVE FALSE
    BY <1>5
  <2>1. \A j \in K : left[j] \in Nat
    <3>1. \A j \in K : left[j] \in Int /\ left[from] <= left[j]
      BY <1>1, <1>3
    <3>. QED
      BY <1>5, <3>1
  <2>. QED
    BY <1>1, <1>2, <2>1, NobodyOwed
<1>7. left[to] > 0
  <2>. SUFFICES ASSUME left[to] <= 0 PROVE FALSE
    BY <1>5
  <2>1. \A j \in K : left[j] \in Int /\ left[j] <= left[to]
    BY <1>1, <1>3
  <2>2. \A j \in K : less[j] \in Nat /\ less[j] \in Int /\ 0 = left[j] + less[j]
    BY <1>5, <2>1
  <2>. DEFINE none == [j \in K |-> 0]
  <2>3. \A j \in K : none[j] = left[j] + less[j] /\ none[j] = 0
    BY <2>2
  <2>4. less[k] # 0
    BY <1>2, <1>5
  <2>. HIDE DEF less, none
  <2>5. Sum(none, K) = Sum(left, K) + Sum(less, K)
    BY <2>1, <2>2, <2>3, SumsAdd
  <2>6. Sum(none, K) = 0
    BY <2>3, SumOfZeros
  <2>7. Sum(less, K) \in Int
    BY <2>2, SumIsInt
  <2>8. Sum(less, K) = 0
    BY <1>1, <2>5, <2>6, <2>7
  <2>. QED
    BY <1>2, <2>2, <2>4, <2>8, NobodyOwed
<1>. QED
  BY <1>3, <1>4, <1>5, <1>6, <1>7

LEMMA PaymentClearsOne ==
  ASSUME NEW K, IsFiniteSet(K), NEW left, ToPay(left, K), ~Cleared(left),
         NEW first \in [K -> Int], Less(left, first, K), NEW next, next = Paid(left, Payment(left))
  PROVE  /\ ToPay(next, K) /\ Less(next, first, K)
         /\ \E k \in Unpaid(left, K) : Unpaid(next, K) \subseteq Unpaid(left, K) \ {k}
<1>. DEFINE p == Payment(left)
            from == p.from
            to == p.to
            amount == p.amount
<1>1. /\ from \in K /\ to \in K /\ left[from] < 0 /\ left[to] > 0
      /\ amount \in Int /\ amount > 0
      /\ amount <= left[to] /\ amount <= -left[from]
      /\ amount = left[to] \/ amount = -left[from]
  BY SomebodyOwes
<1>2. left \in [K -> Int] /\ Sum(left, K) = 0
  BY DEF ToPay
<1>3. next = [left EXCEPT ![from] = @ + amount, ![to] = @ - amount]
  BY DEF Paid
<1>. HIDE DEF p, from, to, amount
<1>4. left[from] \in Int /\ left[to] \in Int /\ from # to
  BY <1>1, <1>2
<1>5. /\ next \in [K -> Int] /\ next[from] = left[from] + amount /\ next[to] = left[to] - amount
      /\ \A j \in K \ {from, to} : next[j] = left[j]
  BY <1>1, <1>2, <1>3, <1>4
<1>6. Sum(next, K) = 0
  <2>1. \A j \in K : left[j] \in Int /\ next[j] \in Int
    BY <1>2, <1>5
  <2>2. /\ from \in K /\ to \in K /\ from # to
        /\ \A j \in K \ {from, to} : next[j] = left[j]
    BY <1>1, <1>4, <1>5
  <2>3. Sum(next, K) = Sum(left, K) + (next[from] - left[from]) + (next[to] - left[to])
    BY <2>1, <2>2, SumChangesAtTwo
  <2>. QED
    BY <1>1, <1>2, <1>4, <1>5, <2>3
<1>7. Less(next, first, K)
  <2>. SUFFICES ASSUME NEW j \in K
                PROVE  /\ first[j] >= 0 => next[j] >= 0
                       /\ first[j] <= 0 => next[j] <= 0
    BY DEF Less
  <2>1. /\ first[j] >= 0 => left[j] >= 0
        /\ first[j] <= 0 => left[j] <= 0
        /\ first[j] \in Int /\ left[j] \in Int
    BY <1>2 DEF Less
  <2>2. CASE j = from
    BY <1>1, <1>4, <1>5, <2>1, <2>2
  <2>3. CASE j = to
    BY <1>1, <1>4, <1>5, <2>1, <2>3
  <2>4. CASE j \notin {from, to}
    BY <1>5, <2>1, <2>4
  <2>. QED
    BY <2>2, <2>3, <2>4
<1>8. \E k \in Unpaid(left, K) : Unpaid(next, K) \subseteq Unpaid(left, K) \ {k}
  <2>1. from \in Unpaid(left, K) /\ to \in Unpaid(left, K)
    BY <1>1, <1>4 DEF Unpaid
  <2>2. Unpaid(next, K) \subseteq Unpaid(left, K)
    BY <1>5, <2>1 DEF Unpaid
  <2>3. next[to] = 0 \/ next[from] = 0
    BY <1>1, <1>4, <1>5
  <2>4. to \notin Unpaid(next, K) \/ from \notin Unpaid(next, K)
    BY <2>3 DEF Unpaid
  <2>. QED
    BY <2>1, <2>2, <2>4
<1>. QED
  BY <1>5, <1>6, <1>7, <1>8 DEF ToPay

-----------------------------------------------------------------------------
\* The recursion of the payments describes a function.
PayOn(left) == IF Cleared(left) THEN left ELSE Paid(left, Payment(left))
PaysOn(g, nets, n) == g = [i \in 0 .. n |-> IF i = 0 THEN nets ELSE PayOn(g[i - 1])]

LEMMA PaymentsUnfold ==
  ASSUME NEW nets, NEW N \in Nat, N = Cardinality(DOMAIN nets)
  PROVE  PaysOn(AfterPayments(nets), nets, N)
<1>. DEFINE Bad == {n \in Nat : ~ \E g : PaysOn(g, nets, n)}
<1>1. Bad = {}
  <2>. SUFFICES ASSUME Bad # {} PROVE FALSE
    OBVIOUS
  <2>1. PICK n \in Bad : \A m \in Bad : n <= m
    <3>1. Bad \in SUBSET Nat
      OBVIOUS
    <3>. HIDE DEF Bad
    <3>. QED
      BY <3>1, LeastOf
  <2>2. n \in Nat /\ ~ \E g : PaysOn(g, nets, n)
    OBVIOUS
  <2>3. CASE n = 0
    <3>. DEFINE g == [i \in 0 .. 0 |-> nets]
    <3>1. g = [i \in 0 .. 0 |-> IF i = 0 THEN nets ELSE PayOn(g[i - 1])]
      OBVIOUS
    <3>. QED
      BY <2>2, <2>3, <3>1 DEF PaysOn
  <2>4. CASE n # 0
    <3>1. n - 1 \in Nat /\ ~(n <= n - 1)
      BY <2>2, <2>4
    <3>2. n - 1 \notin Bad
      BY <2>1, <3>1
    <3>3. PICK g : PaysOn(g, nets, n - 1)
      BY <3>1, <3>2
    <3>. DEFINE h == [i \in 0 .. n |-> IF i = n THEN PayOn(g[n - 1]) ELSE g[i]]
    <3>4. \A i \in 0 .. n - 1 : h[i] = g[i] /\ g[i] = IF i = 0 THEN nets ELSE PayOn(g[i - 1])
      <4>1. \A i \in 0 .. n - 1 : i \in 0 .. n /\ i # n
        BY <2>2
      <4>2. \A i \in 0 .. n - 1 : g[i] = IF i = 0 THEN nets ELSE PayOn(g[i - 1])
        BY <3>3 DEF PaysOn
      <4>. QED
        BY <4>1, <4>2
    <3>5. h[n] = PayOn(g[n - 1])
      BY <2>2
    <3>6. \A i \in 0 .. n : h[i] = IF i = 0 THEN nets ELSE PayOn(h[i - 1])
      <4>. SUFFICES ASSUME NEW i \in 0 .. n PROVE h[i] = IF i = 0 THEN nets ELSE PayOn(h[i - 1])
        OBVIOUS
      <4>. HIDE DEF h
      <4>1. CASE i = n
        <5>1. n - 1 \in 0 .. n - 1
          BY <2>2, <3>1
        <5>2. h[n - 1] = g[n - 1]
          BY <3>4, <5>1
        <5>. QED
          BY <2>4, <3>5, <4>1, <5>2
      <4>2. CASE i = 0
        <5>1. i \in 0 .. n - 1
          BY <3>1, <4>2
        <5>. QED
          BY <3>4, <4>2, <5>1
      <4>3. CASE i # n /\ i # 0
        <5>1. i \in 0 .. n - 1 /\ i - 1 \in 0 .. n - 1
          BY <2>2, <4>3
        <5>. QED
          BY <3>4, <4>3, <5>1
      <4>. QED
        BY <4>1, <4>2, <4>3
    <3>7. PaysOn(h, nets, n)
      <4>1. h = [i \in 0 .. n |-> h[i]]
        OBVIOUS
      <4>. HIDE DEF h
      <4>. QED
        BY <3>6, <4>1 DEF PaysOn
    <3>. QED
      BY <2>2, <3>7
  <2>. QED
    BY <2>3, <2>4
<1>2. \E g : PaysOn(g, nets, N)
  BY <1>1
<1>3. AfterPayments(nets) = CHOOSE g : PaysOn(g, nets, N)
  BY DEF AfterPayments, PaysOn, PayOn
<1>. QED
  BY <1>2, <1>3

\* After n payments the accounts of n players are cleared, or all.
LEMMA PaymentsGoOn ==
  ASSUME NEW K, IsFiniteSet(K), NEW nets, ToPay(nets, K), NEW n \in 0 .. Cardinality(K),
         NEW left, left = AfterPayments(nets)
  PROVE  /\ ToPay(left[n], K) /\ Less(left[n], nets, K)
         /\ Cleared(left[n]) \/ Cardinality(Unpaid(left[n], K)) + n <= Cardinality(K)
<1>. DEFINE N == Cardinality(K)
            Claim(i) == /\ ToPay(left[i], K) /\ Less(left[i], nets, K)
                        /\ Cleared(left[i]) \/ Cardinality(Unpaid(left[i], K)) + i <= N
            Bad == {i \in 0 .. N : ~Claim(i)}
<1>1. N \in Nat /\ DOMAIN nets = K /\ nets \in [K -> Int]
  BY FS_CardinalityType DEF ToPay
<1>2. PaysOn(left, nets, N)
  BY <1>1, PaymentsUnfold
<1>3. \A i \in 0 .. N : left[i] = IF i = 0 THEN nets ELSE PayOn(left[i - 1])
  BY <1>2 DEF PaysOn
<1>. HIDE DEF N
<1>4. Bad = {}
  <2>. SUFFICES ASSUME Bad # {} PROVE FALSE
    OBVIOUS
  <2>1. PICK i \in Bad : \A m \in Bad : i <= m
    <3>1. Bad \in SUBSET Nat
      BY <1>1
    <3>. HIDE DEF Bad
    <3>. QED
      BY <3>1, LeastOf
  <2>2. i \in 0 .. N /\ i \in Nat /\ ~Claim(i)
    BY <1>1
  <2>3. CASE i = 0
    <3>1. left[i] = nets
      BY <1>3, <2>2, <2>3
    <3>2. Less(nets, nets, K)
      BY DEF Less
    <3>3. Cardinality(Unpaid(nets, K)) \in Nat /\ Cardinality(Unpaid(nets, K)) <= N
      <4>1. Unpaid(nets, K) \subseteq K
        BY DEF Unpaid
      <4>. QED
        BY <4>1, FS_Subset, FS_CardinalityType DEF N
    <3>4. Cardinality(Unpaid(left[i], K)) + i <= N
      BY <1>1, <2>3, <3>1, <3>3
    <3>. QED
      BY <2>2, <3>1, <3>2, <3>4
  <2>4. CASE i # 0
    <3>1. i - 1 \in 0 .. N /\ ~(i <= i - 1)
      BY <1>1, <2>2, <2>4
    <3>2. Claim(i - 1)
      BY <2>1, <3>1
    <3>. DEFINE before == left[i - 1]
                now == left[i]
    <3>3. now = PayOn(before)
      BY <1>3, <2>2, <2>4
    <3>4. /\ ToPay(before, K) /\ Less(before, nets, K)
          /\ Cleared(before) \/ Cardinality(Unpaid(before, K)) + (i - 1) <= N
      BY <3>2
    <3>. HIDE DEF before, now
    <3>5. CASE Cleared(before)
      <4>1. now = before
        BY <3>3, <3>5 DEF PayOn
      <4>2. ToPay(now, K) /\ Less(now, nets, K) /\ Cleared(now)
        BY <3>4, <3>5, <4>1
      <4>. QED
        BY <2>2, <4>2 DEF now
    <3>6. CASE ~Cleared(before)
      <4>1. now = Paid(before, Payment(before))
        BY <3>3, <3>6 DEF PayOn
      <4>2. /\ ToPay(now, K) /\ Less(now, nets, K)
            /\ \E k \in Unpaid(before, K) : Unpaid(now, K) \subseteq Unpaid(before, K) \ {k}
        BY <1>1, <3>4, <3>6, <4>1, PaymentClearsOne
      <4>3. PICK k \in Unpaid(before, K) : Unpaid(now, K) \subseteq Unpaid(before, K) \ {k}
        BY <4>2
      <4>4. IsFiniteSet(Unpaid(before, K))
        <5>1. Unpaid(before, K) \subseteq K
          BY DEF Unpaid
        <5>. QED
          BY <5>1, FS_Subset
      <4>5. /\ IsFiniteSet(Unpaid(before, K) \ {k})
            /\ Cardinality(Unpaid(before, K) \ {k}) = Cardinality(Unpaid(before, K)) - 1
        BY <4>3, <4>4, FS_RemoveElement
      <4>6. /\ Cardinality(Unpaid(now, K)) <= Cardinality(Unpaid(before, K) \ {k})
            /\ IsFiniteSet(Unpaid(now, K))
        BY <4>3, <4>5, FS_Subset
      <4>7. Cardinality(Unpaid(now, K)) \in Nat /\ Cardinality(Unpaid(before, K)) \in Nat
        BY <4>4, <4>6, FS_CardinalityType
      <4>8. Cardinality(Unpaid(now, K)) + i <= N
        BY <1>1, <2>2, <3>4, <3>6, <4>5, <4>6, <4>7
      <4>. QED
        BY <2>2, <4>2, <4>8 DEF now
    <3>. QED
      BY <3>5, <3>6
  <2>. QED
    BY <2>3, <2>4
<1>5. n \in 0 .. N
  BY DEF N
<1>. QED
  BY <1>4, <1>5 DEF N

\* The payments clear all accounts, and each is from who lost to who won.
LEMMA PaymentsClear ==
  ASSUME NEW K, IsFiniteSet(K), K # {}, NEW nets, ToPay(nets, K)
  PROVE  /\ Cleared(AfterPayments(nets)[Cardinality(K) - 1])
         /\ \A n \in DOMAIN Payments(nets) :
              /\ Payments(nets)[n].amount > 0
              /\ nets[Payments(nets)[n].from] < 0 /\ nets[Payments(nets)[n].to] > 0
<1>. DEFINE N == Cardinality(K)
            left == AfterPayments(nets)
            payments == Payments(nets)
<1>1. N \in Nat /\ N # 0 /\ DOMAIN nets = K /\ nets \in [K -> Int]
  BY FS_CardinalityType, FS_EmptySet DEF ToPay
<1>2. \A n \in 0 .. N :
        /\ ToPay(left[n], K) /\ Less(left[n], nets, K)
        /\ Cleared(left[n]) \/ Cardinality(Unpaid(left[n], K)) + n <= N
  BY PaymentsGoOn
<1>3. payments = [n \in {i \in 1 .. N : ~Cleared(left[i - 1])} |-> Payment(left[n - 1])]
  BY <1>1 DEF Payments
<1>. HIDE DEF N, left, payments
<1>4. Cleared(left[N - 1])
  <2>. DEFINE last == left[N - 1]
              U == Unpaid(last, K)
  <2>1. N - 1 \in 0 .. N
    BY <1>1
  <2>2. ToPay(last, K) /\ (Cleared(last) \/ Cardinality(U) + (N - 1) <= N)
    BY <1>2, <2>1
  <2>. SUFFICES ASSUME ~Cleared(last) PROVE FALSE
    OBVIOUS
  <2>3. last \in [K -> Int] /\ Sum(last, K) = 0
    BY <2>2 DEF ToPay
  <2>4. PICK k \in K : last[k] # 0
    BY <2>3 DEF Cleared
  <2>5. k \in U /\ U \subseteq K
    BY <2>4 DEF Unpaid
  <2>6. IsFiniteSet(U) /\ Cardinality(U) \in Nat
    BY <2>5, FS_Subset, FS_CardinalityType
  <2>7. Cardinality(U) <= 1
    BY <1>1, <2>2, <2>6
  <2>8. \A j \in K \ {k} : last[j] = 0
    <3>. SUFFICES ASSUME NEW j \in K \ {k}, last[j] # 0 PROVE FALSE
      OBVIOUS
    <3>1. j \in U
      BY DEF Unpaid
    <3>. HIDE DEF U
    <3>2. /\ IsFiniteSet(U \ {k}) /\ Cardinality(U \ {k}) = Cardinality(U) - 1
      BY <2>5, <2>6, FS_RemoveElement
    <3>3. Cardinality(U \ {k}) = 0
      BY <2>6, <2>7, <3>2, FS_CardinalityType
    <3>4. U \ {k} = {}
      BY <3>2, <3>3, FS_EmptySet
    <3>. QED
      BY <3>1, <3>4
  <2>9. last[k] \in Int
    BY <2>3
  <2>. HIDE DEF last, U
  <2>10. Sum(last, K) = last[k]
    BY <2>8, <2>9, SumOfTheOnly
  <2>. QED
    BY <2>3, <2>4, <2>10
<1>5. ASSUME NEW n \in DOMAIN payments
      PROVE  /\ payments[n].amount > 0
             /\ nets[payments[n].from] < 0 /\ nets[payments[n].to] > 0
  <2>1. n \in 1 .. N /\ ~Cleared(left[n - 1]) /\ payments[n] = Payment(left[n - 1])
    BY <1>3
  <2>. DEFINE open == left[n - 1]
  <2>2. n - 1 \in 0 .. N
    BY <1>1, <2>1
  <2>3. ToPay(open, K) /\ Less(open, nets, K) /\ ~Cleared(open)
    BY <1>2, <2>1, <2>2
  <2>. DEFINE p == Payment(open)
  <2>. HIDE DEF open
  <2>4. /\ p.from \in K /\ p.to \in K /\ open[p.from] < 0 /\ open[p.to] > 0
        /\ p.amount > 0
    BY <2>3, SomebodyOwes
  <2>. HIDE DEF p
  <2>5. /\ nets[p.from] \in Int /\ nets[p.to] \in Int
        /\ open[p.from] \in Int /\ open[p.to] \in Int
    BY <1>1, <2>3, <2>4 DEF ToPay
  <2>6. nets[p.from] < 0 /\ nets[p.to] > 0
    BY <2>3, <2>4, <2>5 DEF Less
  <2>. QED
    BY <2>1, <2>4, <2>6 DEF p, open
<1>. QED
  BY <1>4, <1>5 DEF N, left, payments

-----------------------------------------------------------------------------
(***************************************************************************)
(* What is won and lost adds up to nothing.  Nobody brings chips to a hand *)
(* but who is dealt into it, and all of the middle is paid out.            *)
(***************************************************************************)
Nets == [k \in Keys |-> book[k].net]
NetsCancel == unbooked = {} => Sum(Nets, Keys) = 0

\* fin: the table when the middle has been paid out, all of it.
Stacks(at) == [s \in Seats |-> at[s].stack]
Stakes(at) == [s \in Seats |-> at[s].stack + at[s].bet]
PaidInFull(fin) == Sum(Stacks(fin), Seats) = Sum(Stakes(seat), Seats) + anteTotal

LEMMA AwardsAddUp ==
  ASSUME NEW at \in [Seats -> Place], NEW middle, NEW won \in Awards(at, middle)
  PROVE  Sum(Stacks(Awarded(at, won)), Seats) = Sum(Stacks(at), Seats) + middle
<1>. DEFINE P == Contending(at)
            f == [s \in Seats |-> IF s \in P THEN won[s] ELSE 0]
            g == Stacks(at)
            h == Stacks(Awarded(at, won))
            w == [s \in P |-> won[s]]
<1>1. won \in [P -> 0 .. middle] /\ Sum(w, P) = middle
  BY DEF Awards, SumOver, SumFunction, Sum, SumFunctionOnSet
<1>2. P \in SUBSET Seats
  BY DEF Contending
<1>3. \A s \in Seats : f[s] \in Int /\ (s \in P => f[s] = w[s])
  BY <1>1
<1>4. \A s \in Seats : g[s] \in Int
  BY DEF Stacks, Place
<1>5. \A s \in Seats : h[s] = g[s] + f[s]
  <2>1. \A s \in Seats : Awarded(at, won)[s].stack = at[s].stack + IF s \in P THEN won[s] ELSE 0
    BY AwardedFields
  <2>. QED
    BY <2>1 DEF Stacks
<1>6. \A s \in Seats : f[s] = IF s \in P THEN f[s] ELSE 0
  OBVIOUS
<1>. HIDE DEF P, f, g, h, w
<1>7. Sum(h, Seats) = Sum(g, Seats) + Sum(f, Seats)
  BY <1>3, <1>4, <1>5, SeatsFinite, SumsAdd
<1>8. Sum(f, P) = Sum(f, Seats)
  BY <1>2, <1>3, <1>6, SeatsFinite, SumOfPart
<1>9. Sum(f, P) = Sum(w, P)
  <2>1. IsFiniteSet(P)
    BY <1>2, SeatsFinite, FS_Subset
  <2>. QED
    BY <1>2, <1>3, <2>1, SumsAgree
<1>. QED
  BY <1>1, <1>7, <1>8, <1>9 DEF g, h

\* A turn moves chips from a stack to the middle, and the end of the hand pays
\* out the middle.
LEMMA MiddleGoesOut ==
  ASSUME Good, NEW s \in Seats, Act(s)
  PROVE  \/ UNCHANGED <<book, unbooked>>
         \/ \E fin : PaidOff(fin) /\ PaidInFull(fin) /\ HandOver(fin)
<1>1. inHand /\ seat[s].status = "active"
  BY DEF Act
<1>2. PICK r \in Turns(seat[s]) :
        LET after == [seat EXCEPT ![s] = r] IN
        \/ UNCHANGED <<book, unbooked>>
        \/ \E won \in Awards(after, Middle(after) + anteTotal) : HandOver(Awarded(after, won))
  BY DEF Act
<1>. DEFINE after == [seat EXCEPT ![s] = r]
<1>3. ASSUME NEW won \in Awards(after, Middle(after) + anteTotal)
      PROVE  PaidOff(Awarded(after, won)) /\ PaidInFull(Awarded(after, won))
  <2>1. PaidOff(Awarded(after, won))
    BY <1>1, HandIsPaidOff
  <2>2. seat[s] \in Place /\ seat[s].stack > 0 /\ seat \in [Seats -> Place] /\ anteTotal \in Nat
    BY <1>1, ActorIsHere DEF Good, TypeOK
  <2>3. r \in Place /\ r.stack + r.bet = seat[s].stack + seat[s].bet
    BY <1>1, <2>2, TurnFields
  <2>4. after \in [Seats -> Place] /\ \A t \in Seats : after[t] = IF t = s THEN r ELSE seat[t]
    BY <2>2, <2>3
  <2>. DEFINE fin == Awarded(after, won)
              g == Stacks(after)
              m == [t \in Seats |-> after[t].bet]
              h == Stakes(seat)
  <2>5. Middle(after) = Sum(m, Seats)
    BY DEF Middle, SumOver, SumFunction, Sum, SumFunctionOnSet
  <2>. HIDE DEF after
  <2>6. Sum(Stacks(fin), Seats) = Sum(g, Seats) + (Middle(after) + anteTotal)
    BY <2>4, AwardsAddUp
  <2>7. \A t \in Seats : g[t] \in Int /\ m[t] \in Int
    BY <2>4 DEF Stacks, Place
  <2>8. \A t \in Seats : h[t] = g[t] + m[t]
    BY <2>3, <2>4 DEF Stacks, Stakes
  <2>. HIDE DEF fin, g, m, h
  <2>9. Sum(h, Seats) = Sum(g, Seats) + Sum(m, Seats)
    BY <2>7, <2>8, SeatsFinite, SumsAdd
  <2>10. Sum(g, Seats) \in Int /\ Sum(m, Seats) \in Int
    BY <2>7, SeatsFinite, SumIsInt
  <2>11. Sum(Stacks(fin), Seats) = Sum(h, Seats) + anteTotal
    BY <2>2, <2>5, <2>6, <2>9, <2>10
  <2>. QED
    BY <2>1, <2>11 DEF PaidInFull, fin, h
<1>. QED
  BY <1>2, <1>3

\* What the book has of all players when a hand is booked is what it had before it.
LEMMA HandCostsNothing ==
  ASSUME Good, inHand, unbooked = {}, NEW fin, PaidOff(fin), PaidInFull(fin)
  PROVE  Sum([k \in Keys |-> RecordHand(book, Results(fin))[k].chips], Keys)
           = Sum([k \in Keys |-> book[k].chips], Keys)
<1>. DEFINE booked == RecordHand(book, Results(fin))
            now == [k \in Keys |-> booked[k].chips]
            chips == [k \in Keys |-> book[k].chips]
            stacks == Stacks(fin)
            stakes == Stakes(seat)
            coming == [s \in Seats |-> seat[s].pendingChips]
            held == [s \in Seats |-> fin[s].stack + fin[s].pendingChips]
            there == [s \in Seats |-> seat[s].stack + seat[s].pendingChips + seat[s].bet]
            who == [s \in Seats |-> fin[s].who]
            K == Keys \cup {Nobody}
            groups == GroupSums(held, Seats, who, K)
<1>1. ASSUME NEW s \in Seats
      PROVE  /\ seat[s].stack \in Int /\ seat[s].bet \in Int /\ seat[s].pendingChips \in Int
             /\ fin[s].stack \in Int /\ fin[s].pendingChips = seat[s].pendingChips
             /\ who[s] \in K
             /\ ~fin[s].here => fin[s].stack = 0 /\ fin[s].pendingChips = 0
             /\ fin[s].who = Nobody => ~fin[s].here
  <2>1. /\ SeatIsSound(seat[s], inHand, handLeavers[s].key) /\ seat[s].who \in K
        /\ seat[s].stack \in Nat /\ seat[s].bet \in Nat /\ seat[s].pendingChips \in Nat
        /\ seat[s].status # "empty" => seat[s].who \in Keys
    BY SeatFields
  <2>2. /\ fin[s].who = seat[s].who /\ fin[s].here = seat[s].here
        /\ fin[s].pendingChips = seat[s].pendingChips /\ fin[s].stack \in Int
        /\ ~seat[s].here => fin[s].stack = seat[s].stack
    BY DEF PaidOff, Place
  <2>3. ~seat[s].here => seat[s].stack = 0 /\ seat[s].pendingChips = 0
    BY <2>1 DEF SeatIsSound, HasLeft, GoneFrom, Empty
  <2>4. seat[s].who = Nobody => ~seat[s].here
    BY <2>1, KeysAreNot DEF SeatIsSound, Empty
  <2>. QED
    BY <2>1, <2>2, <2>3, <2>4
<1>2. IsFiniteSet(K) /\ Nobody \in K /\ K \ {Nobody} = Keys
  BY KeysFinite, KeysAreNot, FS_AddElement
<1>3. ASSUME NEW k \in K
      PROVE  groups[k] = Sum(Held(fin, k), Seats) /\ groups[k] \in Int
  <2>. DEFINE P == {s \in Seats : who[s] = k}
              g == Held(fin, k)
  <2>1. P \in SUBSET Seats /\ groups[k] = Sum(held, P)
    BY DEF GroupSums
  <2>2. \A s \in Seats : held[s] \in Int /\ g[s] = IF s \in P THEN held[s] ELSE 0
    BY <1>1 DEF Held
  <2>. HIDE DEF P, g, held, groups, who
  <2>3. Sum(held, P) = Sum(g, Seats) /\ Sum(held, P) \in Int
    BY <2>1, <2>2, SeatsFinite, SumOfPart, PartialSums
  <2>. QED
    BY <2>1, <2>3 DEF g
<1>4. \A k \in Keys : groups[k] = now[k]
  <2>. SUFFICES ASSUME NEW k \in Keys PROVE groups[k] = now[k]
    OBVIOUS
  <2>1. booked[k].chips = Sum(Held(fin, k), Seats)
    BY HandIsBooked
  <2>2. groups[k] = Sum(Held(fin, k), Seats)
    BY <1>3
  <2>. HIDE DEF booked, groups
  <2>. QED
    BY <2>1, <2>2
<1>5. groups[Nobody] = 0
  <2>. DEFINE g == Held(fin, Nobody)
  <2>1. \A s \in Seats : g[s] = 0
    BY <1>1 DEF Held
  <2>2. groups[Nobody] = Sum(g, Seats)
    BY <1>2, <1>3
  <2>. HIDE DEF g, groups
  <2>. QED
    BY <2>1, <2>2, SeatsFinite, SumOfZeros
<1>6. Sum(chips, Keys) = Sum(there, Seats) + anteTotal
  BY BookIsTable DEF TableChips, SumOver, SumFunction, Sum, SumFunctionOnSet
<1>7. \A s \in Seats : /\ stacks[s] \in Int /\ stakes[s] \in Int /\ coming[s] \in Int /\ held[s] \in Int
                       /\ held[s] = stacks[s] + coming[s] /\ there[s] = stakes[s] + coming[s]
  BY <1>1 DEF Stacks, Stakes
<1>8. \A s \in Seats : who[s] \in K
  BY <1>1
<1>. HIDE DEF booked, now, chips, stacks, stakes, coming, held, there, who, K, groups
<1>9. Sum(groups, K) = Sum(held, Seats)
  BY <1>2, <1>7, <1>8, SeatsFinite, SumOfGroups DEF groups
<1>10. Sum(groups, K) = groups[Nobody] + Sum(groups, Keys)
  BY <1>2, <1>3, SumTakes
<1>11. Sum(groups, Keys) = Sum(now, Keys) /\ Sum(groups, Keys) \in Int
  <2>1. \A k \in Keys : groups[k] \in Int
    BY <1>2, <1>3
  <2>. QED
    BY <1>4, <2>1, KeysFinite, SumsAgree, SumIsInt
<1>12. /\ Sum(held, Seats) = Sum(stacks, Seats) + Sum(coming, Seats)
       /\ Sum(there, Seats) = Sum(stakes, Seats) + Sum(coming, Seats)
  BY <1>7, SeatsFinite, SumsAdd
<1>13. Sum(stacks, Seats) = Sum(stakes, Seats) + anteTotal
  BY DEF PaidInFull, stacks, stakes
<1>14. Sum(stakes, Seats) \in Int /\ Sum(coming, Seats) \in Int /\ anteTotal \in Int
  BY <1>7, SeatsFinite, SumIsInt DEF Good, TypeOK
<1>15. Sum(now, Keys) = Sum(chips, Keys)
  <2>1. Sum(now, Keys) = Sum(held, Seats)
    BY <1>5, <1>9, <1>10, <1>11
  <2>2. Sum(held, Seats) = Sum(stakes, Seats) + anteTotal + Sum(coming, Seats)
    BY <1>12, <1>13, <1>14
  <2>. QED
    BY <1>6, <1>12, <1>14, <2>1, <2>2
<1>. QED
  BY <1>15 DEF now, chips, booked

LEMMA NetsAfterHand ==
  ASSUME Good, inHand, NetsCancel, NEW fin, PaidOff(fin), PaidInFull(fin), HandOver(fin)
  PROVE  NetsCancel'
<1>. SUFFICES ASSUME unbooked' = {} PROVE Sum(Nets', Keys) = 0
  BY DEF NetsCancel
<1>. DEFINE results == Results(fin)
            booked == RecordHand(book, results)
            now == [k \in Keys |-> booked[k].chips]
            chips == [k \in Keys |-> book[k].chips]
            nets == Nets
            netsNow == [k \in Keys |-> booked[k].net]
            both == [k \in Keys |-> book[k].net + booked[k].chips]
<1>1. /\ book' = [k \in Keys |-> CashOut(booked, k, PaidOutTo(fin, k))[k]]
      /\ unbooked' = unbooked
  BY DEF HandOver, PaidOutTo
<1>2. /\ booked \in [Keys -> [chips : Int, net : Int]]
      /\ book \in [Keys -> [chips : Int, net : Int]]
      /\ \A k \in Keys : booked[k].net - booked[k].chips = book[k].net - book[k].chips
  <2>1. \A k \in DOMAIN results : results[k] \in Int
    BY ResultsAreInts
  <2>2. book \in [Keys -> [chips : Int, net : Int]]
    BY DEF Good, TypeOK
  <2>. HIDE DEF results
  <2>. QED
    BY <2>1, <2>2 DEF RecordHand
<1>3. Nets' = netsNow
  <2>. HIDE DEF booked
  <2>1. \A k \in Keys : book'[k].net = booked[k].net
    BY <1>1, <1>2 DEF CashOut
  <2>. QED
    BY <2>1 DEF Nets
<1>4. Sum(nets, Keys) = 0
  BY <1>1 DEF NetsCancel
<1>5. Sum(now, Keys) = Sum(chips, Keys)
  BY <1>1, HandCostsNothing
<1>. HIDE DEF results, booked
<1>6. \A k \in Keys : /\ now[k] \in Int /\ chips[k] \in Int /\ nets[k] \in Int /\ netsNow[k] \in Int
                      /\ both[k] = nets[k] + now[k] /\ both[k] = netsNow[k] + chips[k]
  <2>. SUFFICES ASSUME NEW k \in Keys
                PROVE  /\ now[k] \in Int /\ chips[k] \in Int /\ nets[k] \in Int /\ netsNow[k] \in Int
                       /\ both[k] = nets[k] + now[k] /\ both[k] = netsNow[k] + chips[k]
    OBVIOUS
  <2>1. /\ booked[k].chips \in Int /\ booked[k].net \in Int /\ book[k].chips \in Int /\ book[k].net \in Int
        /\ booked[k].net - booked[k].chips = book[k].net - book[k].chips
    BY <1>2
  <2>2. book[k].net + booked[k].chips = booked[k].net + book[k].chips
    BY <2>1
  <2>. QED
    BY <2>1, <2>2 DEF Nets
<1>. HIDE DEF now, chips, nets, netsNow, both
<1>7. /\ Sum(both, Keys) = Sum(nets, Keys) + Sum(now, Keys)
      /\ Sum(both, Keys) = Sum(netsNow, Keys) + Sum(chips, Keys)
  BY <1>6, KeysFinite, SumsAdd
<1>8. Sum(chips, Keys) \in Int /\ Sum(netsNow, Keys) \in Int
  BY <1>6, KeysFinite, SumIsInt
<1>. QED
  BY <1>3, <1>4, <1>5, <1>7, <1>8

\* Nothing else is won or lost.
LEMMA NetsStay ==
  ASSUME Good, NetsCancel, unbooked \subseteq unbooked', \A k \in Keys : book'[k].net = book[k].net
  PROVE  NetsCancel'
<1>1. Nets' = Nets
  BY DEF Nets
<1>. QED
  BY <1>1 DEF NetsCancel

LEMMA RequestKeepsNets ==
  ASSUME Good, NEW s \in Seats, Request(s)
  PROVE  unbooked \subseteq unbooked' /\ \A k \in Keys : book'[k].net = book[k].net
<1>1. book \in [Keys -> [chips : Int, net : Int]]
  BY DEF Good, TypeOK
<1>2. ASSUME NEW k, NEW amount
      PROVE  \A j \in Keys : /\ BuyIn(book, k, amount)[j].net = book[j].net
                             /\ CashOut(book, k, amount)[j].net = book[j].net
  BY <1>1 DEF BuyIn, CashOut
<1>3. CASE UNCHANGED <<book, unbooked>>
  BY <1>3
<1>4. ASSUME NEW k, NEW amount, book' = BuyIn(book, k, amount) \/ book' = CashOut(book, k, amount)
      PROVE  \A j \in Keys : book'[j].net = book[j].net
  BY <1>2, <1>4
<1>5. ASSUME NEW u \in Users, TakeSeat(u, s)
      PROVE  unbooked \subseteq unbooked' /\ \A k \in Keys : book'[k].net = book[k].net
  BY <1>4, <1>5 DEF TakeSeat
<1>6. CASE AddBot(s)
  BY <1>4, <1>6 DEF AddBot
<1>7. CASE LeaveSeat(s)
  BY <1>4, <1>7 DEF LeaveSeat
<1>8. CASE AddChips(s)
  BY <1>4, <1>8 DEF AddChips
<1>9. ASSUME NEW gone, RemoveNow(s, gone) \/ RemoveAfterHand(s, gone)
      PROVE  unbooked \subseteq unbooked' /\ \A k \in Keys : book'[k].net = book[k].net
  BY <1>4, <1>9 DEF RemoveNow, RemoveAfterHand
<1>10. CASE RemoveEmpty(s) \/ SitOut(s) \/ SitIn(s) \/ \E t \in Seats : ChangeSeat(s, t)
  BY <1>3, <1>10 DEF RemoveEmpty, SitOut, SitIn, ChangeSeat
<1>. QED
  BY <1>5, <1>6, <1>7, <1>8, <1>9, <1>10 DEF Request, RemovePlayer, DeleteSeat

LEMMA StartKeepsNets ==
  ASSUME StartHand
  PROVE  unbooked \subseteq unbooked' /\ book' = book
<1>. DEFINE prepared == [s \in Seats |-> Prepared(seat[s])]
            at == [s \in Seats |-> ForNewHand(prepared[s])]
<1>1. book' = book /\ (Deal(at) \/ UNCHANGED unbooked)
  BY DEF StartHand
<1>2. ASSUME NEW a, Deal(a) PROVE unbooked \subseteq unbooked'
  BY <1>2 DEF Deal
<1>. HIDE DEF at
<1>. QED
  BY <1>1, <1>2

LEMMA NoNetsYet ==
  ASSUME NEW f, f = [k \in Keys |-> NoEntries(Keys)[k].net]
  PROVE  Sum(f, Keys) = 0
<1>1. \A k \in Keys : f[k] = 0
  BY DEF NoEntries
<1>. QED
  BY <1>1, KeysFinite, SumOfZeros

LEMMA NetsCancelNext == Good /\ NetsCancel /\ [Next]_vars => NetsCancel'
<1>. SUFFICES ASSUME Good, NetsCancel, [Next]_vars PROVE NetsCancel'
  OBVIOUS
<1>1. CASE AddSeat
  BY <1>1, NetsStay DEF AddSeat
<1>2. ASSUME NEW s \in Seats, Request(s) PROVE NetsCancel'
  BY <1>2, RequestKeepsNets, NetsStay
<1>3. CASE StartHand
  BY <1>3, StartKeepsNets, NetsStay
<1>4. ASSUME NEW s \in Seats, Act(s) PROVE NetsCancel'
  <2>1. inHand
    BY <1>4 DEF Act
  <2>2. CASE UNCHANGED <<book, unbooked>>
    BY <2>2, NetsStay
  <2>3. CASE \E fin : PaidOff(fin) /\ PaidInFull(fin) /\ HandOver(fin)
    BY <2>1, <2>3, NetsAfterHand
  <2>. QED
    BY <1>4, <2>2, <2>3, MiddleGoesOut
<1>5. CASE ResetTable
  <2>1. Nets' = [k \in Keys |-> NoEntries(Keys)[k].net]
    BY <1>5 DEF ResetTable, Nets
  <2>. QED
    BY <2>1, NoNetsYet DEF NetsCancel
<1>6. CASE UNCHANGED vars
  BY <1>6, NetsStay DEF vars
<1>. QED
  BY <1>1, <1>2, <1>3, <1>4, <1>5, <1>6 DEF Next

\* settle: whatever the hands of a game did, the payments the report proposes
\* clear all accounts, and fewer of them do than there are players.
THEOREM SettlementIsRight == Spec => []SettlementClears
<1>1. Init => NetsCancel
  <2>. SUFFICES ASSUME Init PROVE NetsCancel
    OBVIOUS
  <2>1. Nets = [k \in Keys |-> NoEntries(Keys)[k].net]
    BY DEF Init, Nets
  <2>. QED
    BY <2>1, NoNetsYet DEF NetsCancel
<1>2. Good /\ NetsCancel => SettlementClears
  <2>. SUFFICES ASSUME Good, unbooked = {}, Sum(Nets, Keys) = 0
                PROVE  /\ Cleared(AfterPayments(Nets)[Cardinality(Keys) - 1])
                       /\ \A n \in DOMAIN Payments(Nets) :
                            /\ Payments(Nets)[n].amount > 0
                            /\ Nets[Payments(Nets)[n].from] < 0 /\ Nets[Payments(Nets)[n].to] > 0
    BY DEF SettlementClears, NetsCancel, Nets
  <2>1. Nets \in [Keys -> Int]
    BY DEF Nets, Good, TypeOK
  <2>2. Keys # {}
    <3>1. 0 \in Seats
      BY TableAssumption DEF Seats
    <3>. QED
      BY <3>1 DEF Keys, Bots
  <2>. QED
    BY <2>1, <2>2, KeysFinite, PaymentsClear DEF ToPay
<1>3. Spec => []NetsCancel
  BY <1>1, NetsCancelNext, GoodHolds, PTL DEF Spec
<1>. QED
  BY <1>2, <1>3, GoodHolds, PTL
=============================================================================

----------------------------- MODULE OpenSeating -----------------------------
(***************************************************************************)
(* An open-invite table: whoever has its link picks a free seat, or waits  *)
(* in line for one.  While people wait, one free seat is held for a time   *)
(* for the first of them (LiveTable.syncSeatOffer); the socket server      *)
(* keeps the timer of that offer and has everything that can free or fill  *)
(* a seat looked at again, some of it only after the store has answered.   *)
(***************************************************************************)
EXTENDS Integers, Sequences, FiniteSets, SequencesExt

CONSTANTS
  Users, Seats,
  Free, Taken,     \* Taken: by a computer player, or somebody the owner seated
  Folded,          \* a player who left the hand they folded; free when it ends
  NoOffer, Off,
  OfferTicks,      \* SEAT_OFFER_MS
  MaxAsks,         \* bound on the take-seat requests under way
  MaxToTell        \* bound on the broadcasts still to come

ASSUME SeatingAssumption ==
  /\ Users \cap {Free, Taken, Folded} = {}
  /\ NoOffer \notin [to : Users, left : Nat] /\ Off \notin Nat
  /\ OfferTicks \in Nat /\ MaxAsks \in Nat /\ MaxToTell \in Nat

VARIABLES
  seat,
  waitlist,
  offer,       \* seatOffer: to whom, and for how much longer
  timer,       \* seatOfferTimers: what is left of it
  asks,        \* take-seat requests waiting for the store
  toTell       \* handlers that have freed or filled a seat, and broadcast
               \* when the store has answered

vars == <<seat, waitlist, offer, timer, asks, toTell>>

FreeSeats(at) == {s \in Seats : at[s] = Free}
Seated(u) == \E s \in Seats : seat[s] = u
Waits(u) == u \in ToSet(waitlist)

Init ==
  /\ seat = [s \in Seats |-> Free]
  /\ waitlist = <<>> /\ offer = NoOffer /\ timer = Off
  /\ asks = {} /\ toTell = 0

\* removeFromWaitlist.
Without(list, u) ==
  FoldLeft(LAMBDA kept, v : IF v = u THEN kept ELSE Append(kept, v), <<>>, list)

(***************************************************************************)
(* syncSeatOffer, of the table and of the socket server around it.         *)
(***************************************************************************)
Stands(at, list) ==
  /\ offer # NoOffer /\ offer.to \in ToSet(list)
  /\ FreeSeats(at) # {} /\ \A s \in Seats : at[s] # offer.to
\* Mutant: who missed their seat stays first in line.
MissedButWaiting(list) == list
\* Mutant: whoever is first in line is dropped.
MissedByFirst(list) == Tail(list)
\* Missed: off the list.
Missed(list) == Without(list, offer.to)

\* A new offer gets a new timer; without an offer there is none.
Rearmed(kept, next, armed) ==
  IF next = NoOffer THEN Off ELSE IF kept /\ armed # Off THEN armed ELSE next.left

\* at, list and armed: the seats, the waitlist and the timer the handler leaves.
SyncSeatOffer(at, list, armed) ==
  LET stands == Stands(at, list)
      expired == stands /\ offer.left = 0
      line == IF expired THEN Missed(list) ELSE list
      kept == stands /\ ~expired
      next == IF kept THEN offer
              ELSE IF line # <<>> /\ FreeSeats(at) # {} THEN [to |-> Head(line), left |-> OfferTicks]
              ELSE NoOffer
  IN  /\ waitlist' = line /\ offer' = next
      /\ timer' = Rearmed(kept, next, armed)

\* broadcastTable at the end of a handler, now or after the store has answered.
Later == toTell < MaxToTell /\ toTell' = toTell + 1 /\ UNCHANGED <<offer, timer>>
TellNow(list) == SyncSeatOffer(seat', list, timer) /\ UNCHANGED toTell
TellLater(list) == waitlist' = list /\ Later

\* Mutant: the handler forgets to broadcast.
TellNobody ==
  /\ toTell > 0 /\ toTell' = toTell - 1
  /\ UNCHANGED <<seat, waitlist, offer, timer, asks>>
Tell ==
  /\ toTell > 0 /\ toTell' = toTell - 1
  /\ SyncSeatOffer(seat, waitlist, timer)
  /\ UNCHANGED <<seat, asks>>

(***************************************************************************)
(* Taking a seat and leaving it.                                           *)
(***************************************************************************)
CanTakeOpenSeat(u) ==
  offer # NoOffer /\ offer.to # u => Cardinality(FreeSeats(seat)) > 1

\* take-seat up to its first await: which seat is free is not looked at yet.
AskSeat(u, s) ==
  /\ Cardinality(asks) < MaxAsks
  /\ ~Seated(u) /\ CanTakeOpenSeat(u)
  /\ asks' = asks \cup {[who |-> u, seat |-> s]}
  /\ UNCHANGED <<seat, waitlist, offer, timer, toTell>>

\* Mutant: who sits down stays on the waitlist.
StaysInLine(u) == waitlist
OffTheList(u) == Without(waitlist, u)
\* performTakeSeat: a guest's chips are debited before the broadcast.
Sit(a) ==
  /\ asks' = asks \ {a}
  /\ IF seat[a.seat] = Free
     THEN /\ seat' = [seat EXCEPT ![a.seat] = a.who]
          /\ TellNow(OffTheList(a.who)) \/ TellLater(OffTheList(a.who))
     ELSE UNCHANGED <<seat, waitlist, offer, timer, toTell>>    \* SEAT_TAKEN

\* leave-table and remove-player: paid before the broadcast.  A player who
\* folded leaves their seat in the hand.
Leave(s) ==
  /\ seat[s] \in Users
  /\ \E to \in {Free, Folded} : seat' = [seat EXCEPT ![s] = to]
  /\ TellLater(waitlist)
  /\ UNCHANGED asks

HandOver ==
  /\ \E s \in Seats : seat[s] = Folded
  /\ seat' = [s \in Seats |-> IF seat[s] = Folded THEN Free ELSE seat[s]]
  /\ TellNow(waitlist)
  /\ UNCHANGED asks

\* The owner seats somebody, or takes them away again.
OwnerFills(s) == seat[s] = Free /\ seat' = [seat EXCEPT ![s] = Taken]
OwnerFrees(s) == seat[s] = Taken /\ seat' = [seat EXCEPT ![s] = Free]
Owner(s) == (OwnerFills(s) \/ OwnerFrees(s)) /\ TellNow(waitlist) /\ UNCHANGED asks

(***************************************************************************)
(* The waitlist, and time.                                                 *)
(***************************************************************************)
JoinWaitlist(u) ==
  /\ ~Seated(u)
  /\ UNCHANGED <<seat, asks>>
  /\ TellNow(IF Waits(u) THEN waitlist ELSE Append(waitlist, u))

LeaveWaitlist(u) ==
  /\ UNCHANGED <<seat, asks>>
  /\ TellNow(OffTheList(u))

Tick ==
  /\ offer # NoOffer /\ offer.left > 0 /\ timer > 0
  /\ offer' = [offer EXCEPT !.left = @ - 1]
  /\ timer' = timer - 1
  /\ UNCHANGED <<seat, waitlist, asks, toTell>>

\* The timer is gone, and the table is broadcast.
TimerFires ==
  /\ timer = 0
  /\ UNCHANGED <<seat, asks>>
  /\ SyncSeatOffer(seat, waitlist, Off) /\ UNCHANGED toTell

Next ==
  \/ \E u \in Users : JoinWaitlist(u) \/ LeaveWaitlist(u) \/ \E s \in Seats : AskSeat(u, s)
  \/ \E a \in asks : Sit(a)
  \/ \E s \in Seats : Leave(s) \/ Owner(s)
  \/ HandOver \/ Tell \/ Tick \/ TimerFires

\* Time goes on, a timer that is due fires, and the store answers.
Spec == Init /\ [][Next]_vars /\ WF_vars(Tick) /\ WF_vars(TimerFires) /\ WF_vars(Tell)

(***************************************************************************)
(* Properties.                                                             *)
(***************************************************************************)
\* Nobody waits in line twice, or waits while they have a seat, whatever the
\* order in which requests to sit, to leave and to join the line come through;
\* and the timer that is running is the one of the offer that stands.
LineIsSound ==
  /\ waitlist \in Seq(Users) /\ IsInjective(waitlist)
  /\ \A u \in ToSet(waitlist) : ~Seated(u)
  /\ timer = IF offer = NoOffer THEN Off ELSE offer.left

\* A place in line is lost only by taking a seat, by giving it up, or by
\* missing an offer that ran its full time; nobody overtakes.
GaveUp(u) == LeaveWaitlist(u)
SatDown(u) == \E s \in Seats : seat[s] # u /\ seat'[s] = u
MissedOffer(u) == offer = [to |-> u, left |-> 0]
Place(list, u) == CHOOSE i \in 1 .. Len(list) : list[i] = u
PlaceKept ==
  [][\A u \in ToSet(waitlist) :
       \/ u \notin ToSet(waitlist') /\ (SatDown(u) \/ GaveUp(u) \/ MissedOffer(u))
       \/ /\ u \in ToSet(waitlist')
          /\ \A v \in ToSet(waitlist') :
               Place(waitlist', v) < Place(waitlist', u) =>
                 v \in ToSet(waitlist) /\ Place(waitlist, v) < Place(waitlist, u)]_vars

\* "one free seat is held for whoever is first in line" (syncSeatOffer), once
\* every handler is through.  It does not hold: who takes the seat they are
\* offered, leaves it and joins the line again, all before the first of these
\* handlers comes back from the store, keeps the offer from the back of the line.
OfferToFirst == offer # NoOffer /\ toTell = 0 => offer.to = Head(waitlist)

\* A seat that is free while somebody waits is offered or taken before long,
\* however it became free.
FreeSeatIsOffered ==
  (FreeSeats(seat) # {} /\ waitlist # <<>>)
     ~> (offer # NoOffer \/ FreeSeats(seat) = {} \/ waitlist = <<>>)

\* No offer stands for ever: the next in line get their turn.
OffersEnd == \A u \in Users : (offer # NoOffer /\ offer.to = u) ~> ~(offer # NoOffer /\ offer.to = u)
==============================================================================

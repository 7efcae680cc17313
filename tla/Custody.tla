------------------------------ MODULE Custody ------------------------------
(***************************************************************************)
(* What the engine promises about the players' chips, whatever the cards  *)
(* and the betting rules: chips are in front of a player or in the middle *)
(* of the table; a player's own chips leave their stack only by a forced  *)
(* bet or on their own turn; the middle goes to players still in the hand.*)
(***************************************************************************)
EXTENDS Ring

CONSTANT Forced    \* the most a seat can be made to put in by the deal

VARIABLES
  bank,      \* the chips in front of each seat
  middle,    \* the chips in the middle
  playing,   \* who is still in the hand; {} between hands
  turn       \* whose decision it is

custody == <<bank, middle, playing, turn>>

Init ==
  /\ bank \in [Seats -> Nat]
  /\ middle = 0
  /\ playing = {}

OthersKeep(S) == \A s \in Seats \ S : bank'[s] = bank[s]

\* The forced bets go to the middle.
Deal ==
  /\ playing = {}
  /\ AtLeastTwo(playing')
  /\ OthersKeep(playing')
  /\ \A s \in Seats : bank[s] - bank'[s] \in 0 .. Forced
  /\ middle' = SeatSum(bank) - SeatSum(bank')
  /\ turn' \in playing'

\* Forced bets that put everybody all-in decide a hand as it is dealt.
DealAndSettle ==
  /\ playing = {} /\ playing' = {}
  /\ \A s \in Seats : bank[s] - bank'[s] <= Forced
  /\ SeatSum(bank') = SeatSum(bank)
  /\ middle' = 0

\* A seat comes or goes, or waits, between hands.
Wait == playing = {} /\ playing' = {} /\ bank' = bank /\ middle' = 0

\* The seat whose turn it is pays into the middle, or leaves the hand.
Play ==
  /\ turn \in playing
  /\ \/ /\ playing' = playing
        /\ OthersKeep({turn})
        /\ bank'[turn] \in 0 .. bank[turn]
        /\ middle' = middle + bank[turn] - bank'[turn]
     \/ /\ playing' = playing \ {turn}
        /\ bank' = bank
        /\ middle' = middle
  /\ AtLeastTwo(playing')
  /\ turn' \in playing'

\* The last decision, and the payout: nobody but the seat that decided may
\* come out of it with less than before, nobody out of the hand with more.
PlayAndSettle ==
  /\ turn \in playing
  /\ playing' = {}
  /\ OthersKeep(playing)
  /\ \A s \in playing \ {turn} : bank'[s] >= bank[s]
  /\ SeatSum(bank') = SeatSum(bank) + middle
  /\ middle' = 0

Next == bank' \in [Seats -> Nat] /\ (Deal \/ DealAndSettle \/ Wait \/ Play \/ PlayAndSettle)

Spec == Init /\ [][Next]_custody
=============================================================================

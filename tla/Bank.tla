-------------------------------- MODULE Bank --------------------------------
(***************************************************************************)
(* What the server promises about a player's chips: they are in the        *)
(* player's purse or in front of the seat they sit in, they go from one to *)
(* the other all at once, and nobody but the owner brings new ones.        *)
(***************************************************************************)
EXTENDS Integers, Functions

CONSTANTS Players, Seats, Nobody

VARIABLES
  purse,     \* what each player owns away from the table
  holder,    \* who sits in each seat
  chips      \* what is in front of each seat

bank == <<purse, holder, chips>>

Init ==
  /\ purse \in [Players -> Nat]
  /\ holder = [s \in Seats |-> Nobody]
  /\ chips = [s \in Seats |-> 0]

\* What is put in front of a player is paid for by the player, but for what
\* the owner gives.
PutDown ==
  \E s \in Seats, p \in Players :
    /\ holder[s] \in {Nobody, p}
    /\ holder' = [holder EXCEPT ![s] = p]
    /\ chips'[s] > chips[s] /\ chips' = [chips EXCEPT ![s] = chips'[s]]
    /\ purse'[p] >= purse[p] - (chips'[s] - chips[s])
    /\ purse' = [purse EXCEPT ![p] = purse'[p]]

\* Players get up, each with what is in front of them.
PickUp ==
  \E S \in SUBSET Seats :
    /\ \A s \in S : holder[s] # Nobody
    /\ holder' = [s \in Seats |-> IF s \in S THEN Nobody ELSE holder[s]]
    /\ chips' = [s \in Seats |-> IF s \in S THEN 0 ELSE chips[s]]
    /\ purse' = [p \in Players |->
         purse[p] + SumFunctionOnSet(chips, {s \in S : holder[s] = p})]

\* Chips change hands at the table.
Play ==
  /\ UNCHANGED <<purse, holder>>
  /\ chips' \in [Seats -> Nat]
  /\ SumFunctionOnSet(chips', Seats) = SumFunctionOnSet(chips, Seats)
  /\ \A s \in Seats : holder[s] = Nobody => chips'[s] = 0

Next == PutDown \/ PickUp \/ Play

Spec == Init /\ [][Next]_bank
=============================================================================

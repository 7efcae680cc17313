----------------------------- MODULE TableMoney -----------------------------
(***************************************************************************)
(* The handlers that move a player's chips between the store and a table   *)
(* (socketServer.ts): taking a seat, adding chips, leaving, being removed, *)
(* a reset; and the end of a hand (settleHand), which enters its results.  *)
(* Each runs up to its next await and goes on when the store has answered, *)
(* with any number of the others in between.                               *)
(*                                                                         *)
(* The players are those whose balance pays, guests and the owner.  What a *)
(* handler still has to write is a list of store operations, `todo`.       *)
(***************************************************************************)
EXTENDS Integers, Sequences, FiniteSets, FiniteSetsExt, Functions

CONSTANTS
  Players, Seats, Nobody,
  Handlers,          \* requests and hands' ends that can be under way at a time
  OpeningBalance,
  StartingChips,     \* what an invite or an open seat brings the first time
  RebuySize,
  NeverLeft,         \* no kept stack
  MaxRequests        \* bound on the requests that put chips on the table

ASSUME MoneyAssumption ==
  /\ Nobody \notin Players /\ NeverLeft \notin Nat
  /\ IsFiniteSet(Players) /\ IsFiniteSet(Seats) /\ IsFiniteSet(Handlers)
  /\ OpeningBalance \in Nat /\ StartingChips \in Nat \ {0} /\ RebuySize \in Nat \ {0}
  /\ MaxRequests \in Nat

VARIABLES
  balance,    \* users.chips
  ledger,     \* the sum of a player's ledger entries
  won,        \* the part of it that hands made: the entries for pot_win
  kept,       \* guest stacks: what each player left this table with
  holder,     \* the user in each seat
  stack,
  job,        \* what each handler is waiting for and has left to do
  requests

store == <<balance, ledger, won, kept>>
table == <<holder, stack>>
vars == <<store, table, job, requests>>

Idle == [at |-> "idle"]
Writing(todo) == IF todo = <<>> THEN Idle ELSE [at |-> "writing", todo |-> todo]

Adjust(p, amount) == [op |-> "adjust", who |-> p, amount |-> amount]
Enter(p, amount) == [op |-> "ledger", who |-> p, amount |-> amount]
Keep(p, amount) == [op |-> "keep", who |-> p, amount |-> amount]
\* The entries of one hand, which recordLedgerEntries writes together.
PotWin(p, q, amount) == [op |-> "pot_win", who |-> p, from |-> q, amount |-> amount]

Init ==
  /\ balance = [p \in Players |-> OpeningBalance]
  /\ ledger = [p \in Players |-> 0]
  /\ won = [p \in Players |-> 0]
  /\ kept = [p \in Players |-> NeverLeft]
  /\ holder = [s \in Seats |-> Nobody]
  /\ stack = [s \in Seats |-> 0]
  /\ job = [h \in Handlers |-> Idle]
  /\ requests = 0

Start(h, j) == job[h] = Idle /\ job' = [job EXCEPT ![h] = j]
Goes(h, j) == job' = [job EXCEPT ![h] = j]

\* Mutant: an adjustment that no entry explains.
MoveUnentered(p, amount) == <<Adjust(p, amount)>>
\* grantFromOwner, a debit: the balance first, then the ledger.
Move(p, amount) == <<Adjust(p, amount), Enter(p, amount)>>
\* cashOut
CashOut(p, amount) ==
  (IF amount > 0 THEN Move(p, amount) ELSE <<>>) \o <<Keep(p, amount)>>
Shortfall(seen, amount) == IF seen >= amount THEN 0 ELSE amount - seen
\* The owner covers what the player, as they were read, cannot pay.
PayFor(p, seen, amount) ==
  (IF Shortfall(seen, amount) > 0 THEN Move(p, Shortfall(seen, amount)) ELSE <<>>)
    \o Move(p, -amount)

(***************************************************************************)
(* take-seat and redeem-seat-assignment                                    *)
(***************************************************************************)
SeatOfUser(p) == {s \in Seats : holder[s] = p}

TakeSeat(h, p, s) ==
  /\ requests < MaxRequests /\ requests' = requests + 1
  /\ SeatOfUser(p) = {}
  /\ Start(h, [at |-> "asking", who |-> p, seat |-> s])
  /\ UNCHANGED <<store, table>>

\* sitAmountForGuest: what they left with, if they have been here before.
ReadKept(h) ==
  /\ job[h].at = "asking"
  /\ LET p == job[h].who
         amount == IF kept[p] = NeverLeft THEN StartingChips ELSE kept[p]
     IN  Goes(h, IF amount = 0 THEN Idle      \* OUT_OF_CHIPS
                 ELSE [at |-> "paying", who |-> p, seat |-> job[h].seat, amount |-> amount])
  /\ UNCHANGED <<store, table, requests>>

ReadBalance(h) ==
  /\ job[h].at = "paying"
  /\ Goes(h, [at |-> "sitting", who |-> job[h].who, seat |-> job[h].seat,
              amount |-> job[h].amount, seen |-> balance[job[h].who]])
  /\ UNCHANGED <<store, table, requests>>

\* performTakeSeat after its read: in one go the seat is taken and the writes begin.
PerformTakeSeat(h) ==
  /\ job[h].at = "sitting"
  /\ LET p == job[h].who  s == job[h].seat  amount == job[h].amount IN
     \/ /\ holder[s] = Nobody
        /\ holder' = [holder EXCEPT ![s] = p]
        /\ stack' = [stack EXCEPT ![s] = amount]
        /\ Goes(h, Writing(PayFor(p, job[h].seen, amount)))
     \/ /\ holder[s] # Nobody      \* SEAT_TAKEN
        /\ Goes(h, Idle) /\ UNCHANGED table
  /\ UNCHANGED <<store, requests>>

(***************************************************************************)
(* admin-rebuy                                                             *)
(***************************************************************************)
AskRebuy(h, s) ==
  /\ requests < MaxRequests /\ requests' = requests + 1
  /\ holder[s] # Nobody
  /\ Start(h, [at |-> "reading", who |-> holder[s], seat |-> s])
  /\ UNCHANGED <<store, table>>

ReadRebuy(h) ==
  /\ job[h].at = "reading"
  /\ Goes(h, [at |-> "adding", who |-> job[h].who, seat |-> job[h].seat,
              seen |-> balance[job[h].who]])
  /\ UNCHANGED <<store, table, requests>>

\* Mutant: whether the player is still there is not looked at again.
StillThere(h) == TRUE
StillSeated(h) == holder[job[h].seat] = job[h].who

\* The chips go on the table at once, and are paid for after that.
AddChips(h) ==
  /\ job[h].at = "adding"
  /\ IF StillSeated(h)
     THEN /\ stack' = [stack EXCEPT ![job[h].seat] = @ + RebuySize]
          /\ Goes(h, Writing(PayFor(job[h].who, job[h].seen, RebuySize)))
     ELSE Goes(h, Idle) /\ UNCHANGED stack
  /\ UNCHANGED <<store, holder, requests>>

(***************************************************************************)
(* leave-table, remove-player, and the removals at the end of a hand; a    *)
(* reset pays one player after the other.                                  *)
(***************************************************************************)
Vacated(S) ==
  /\ holder' = [s \in Seats |-> IF s \in S THEN Nobody ELSE holder[s]]
  /\ stack' = [s \in Seats |-> IF s \in S THEN 0 ELSE stack[s]]

Leave(h, s) ==
  /\ holder[s] # Nobody
  /\ Vacated({s})
  /\ Start(h, Writing(CashOut(holder[s], stack[s])))
  /\ UNCHANGED <<store, requests>>

Refunds(S) == FoldSet(LAMBDA s, todo : todo \o CashOut(holder[s], stack[s]), <<>>, S)

ResetTable(h) ==
  LET taken == {s \in Seats : holder[s] # Nobody} IN
  /\ taken # {}
  /\ Vacated(taken)
  /\ Start(h, Writing(Refunds(taken)))
  /\ UNCHANGED <<store, requests>>

(***************************************************************************)
(* settleHand: chips go from one seat to another at the table, and the     *)
(* result is entered in the ledger for both.  No balance changes: what was *)
(* won gets there when its player leaves.                                  *)
(***************************************************************************)
PlayHand(h) ==
  \E s, t \in Seats :
    /\ s # t /\ holder[s] # Nobody /\ holder[t] # Nobody
    /\ \E n \in 1 .. stack[s] :
         /\ stack' = [stack EXCEPT ![s] = @ - n, ![t] = @ + n]
         /\ Start(h, Writing(<<PotWin(holder[t], holder[s], n)>>))
    /\ UNCHANGED <<store, holder, requests>>

(***************************************************************************)
(* The store answers: one operation of one handler.                        *)
(***************************************************************************)
\* What the hand comes to for a player; two seats of one account come to nothing.
Result(w, p) ==
  IF w.op # "pot_win" \/ w.who = w.from THEN 0
  ELSE CASE p = w.who -> w.amount [] p = w.from -> -w.amount [] OTHER -> 0

Applied(w) ==
  /\ balance' = IF w.op = "adjust" THEN [balance EXCEPT ![w.who] = @ + w.amount] ELSE balance
  /\ ledger' = IF w.op = "ledger" THEN [ledger EXCEPT ![w.who] = @ + w.amount]
               ELSE [p \in Players |-> ledger[p] + Result(w, p)]
  /\ won' = [p \in Players |-> won[p] + Result(w, p)]
  /\ kept' = IF w.op = "keep" THEN [kept EXCEPT ![w.who] = w.amount] ELSE kept

Write(h) ==
  /\ job[h].at = "writing"
  /\ Applied(Head(job[h].todo))
  /\ Goes(h, Writing(Tail(job[h].todo)))
  /\ UNCHANGED <<table, requests>>

Next ==
  \E h \in Handlers :
    \/ \E p \in Players, s \in Seats : TakeSeat(h, p, s)
    \/ \E s \in Seats : AskRebuy(h, s) \/ Leave(h, s)
    \/ ReadKept(h) \/ ReadBalance(h) \/ PerformTakeSeat(h)
    \/ ReadRebuy(h) \/ AddChips(h) \/ ResetTable(h) \/ PlayHand(h) \/ Write(h)

Spec == Init /\ [][Next]_vars

(***************************************************************************)
(* Properties.                                                             *)
(***************************************************************************)
\* What a list of operations comes to for a player's balance, or their ledger.
Share(w, p, op) == IF w.op = op /\ w.who = p THEN w.amount ELSE 0
Total(todo, p, op) == SumFunction([i \in DOMAIN todo |-> Share(todo[i], p, op)])

StillToCome(h, p, op) == IF job[h].at = "writing" THEN Total(job[h].todo, p, op) ELSE 0
UnderWay(p, op) == SumFunction([h \in Handlers |-> StillToCome(h, p, op)])

\* Whatever is under way, a player owns what the bank says: no interleaving of
\* the handlers pays a player twice, or takes chips for a seat they are not in.
B == INSTANCE Bank WITH
       purse <- [p \in Players |-> balance[p] + UnderWay(p, "adjust")], chips <- stack
ImplementsBank == B!Spec

\* Once the writes under way are through, a balance is the opening one and the
\* player's entries, those for hands apart: every change of it has its entry,
\* and no entry but a hand's stands for chips that were not moved.
LedgerExplains ==
  \A p \in Players :
    balance[p] + UnderWay(p, "adjust") =
      OpeningBalance + (ledger[p] - won[p]) + UnderWay(p, "ledger")

\* "every chip movement is a paired debit/credit row" (schema.ts 207): once
\* everybody has left, the sum of a player's rows would be what their balance
\* has come to.  It does not hold: a hand is entered when it is won, and once
\* more in what its players leave with.
LedgerIsBalance ==
  (\A s \in Seats : holder[s] = Nobody) /\ (\A h \in Handlers : job[h] = Idle)
    => \A p \in Players : balance[p] = OpeningBalance + ledger[p]
=============================================================================

------------------------------ MODULE GameBook ------------------------------
(***************************************************************************)
(* The book of one game (GameBook): for every player the chips the book    *)
(* thinks they have on the table, and what they have won or lost.  The     *)
(* totals of buy-ins and cash-outs are left out: what the report and the   *)
(* settlement use of them is their difference.                             *)
(***************************************************************************)
EXTENDS Integers, FiniteSets, FiniteSetsExt

\* Nothing booked yet.
NoEntries(Keys) == [k \in Keys |-> [chips |-> 0, net |-> 0]]

\* buyIn adds to the chips and to the buy-ins: no gain, no loss.
BuyIn(book, k, amount) == [book EXCEPT ![k].chips = @ + amount]

\* cashOut takes from the chips what it adds to the cash-outs.
CashOut(book, k, amount) == [book EXCEPT ![k].chips = @ - amount]

\* recordHand: what each player won or lost in the hand.
RecordHand(book, results) ==
  [k \in DOMAIN book |->
    IF k \in DOMAIN results
    THEN [chips |-> book[k].chips + results[k], net |-> book[k].net + results[k]]
    ELSE book[k]]

\* reconcile: the players for whom the book and the table disagree.
Mismatched(book, held) == {k \in DOMAIN book : book[k].chips # held[k]}

(***************************************************************************)
(* Who pays whom (settle): again and again the player who owes most pays   *)
(* the player who is owed most the smaller of the two amounts.             *)
(***************************************************************************)
Largest(left) == CHOOSE k \in DOMAIN left : \A j \in DOMAIN left : left[k] >= left[j]
Smallest(left) == CHOOSE k \in DOMAIN left : \A j \in DOMAIN left : left[k] <= left[j]

\* Mutant: always what the creditor is owed.
PayInFull(left) == LET to == Largest(left) IN
  [from |-> Smallest(left), to |-> to, amount |-> left[to]]
Payment(left) ==
  LET from == Smallest(left)  to == Largest(left)
  IN  [from |-> from, to |-> to,
       amount |-> IF left[to] <= -left[from] THEN left[to] ELSE -left[from]]

Paid(left, p) == [left EXCEPT ![p.from] = @ + p.amount, ![p.to] = @ - p.amount]

Cleared(left) == \A k \in DOMAIN left : left[k] = 0

\* What is left to pay after n payments.
AfterPayments(nets) ==
  LET after[n \in 0 .. Cardinality(DOMAIN nets)] ==
        IF n = 0 THEN nets
        ELSE IF Cleared(after[n - 1]) THEN after[n - 1]
        ELSE Paid(after[n - 1], Payment(after[n - 1]))
  IN  after

Payments(nets) ==
  LET left == AfterPayments(nets)
  IN  [n \in {i \in 1 .. Cardinality(DOMAIN nets) : ~Cleared(left[i - 1])} |->
         Payment(left[n - 1])]
=============================================================================

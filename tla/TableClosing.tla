---------------------------- MODULE TableClosing ----------------------------
(***************************************************************************)
(* The end of a table (closeTableWithNotice): the owner terminates it, the *)
(* table's timer runs out or the server stops, and everybody is paid what  *)
(* is in front of them, one after the other, with the store's answers in   *)
(* between.  Only when all are paid does the table leave the registry.     *)
(***************************************************************************)
EXTENDS TableMoney

CONSTANT Closers     \* the terminate request, the timer sweep, the shutdown

VARIABLES
  closing,   \* what each closer has left: seats to pay, and store operations
  closed,    \* the table is out of the registry
  due        \* history: what the players owned in all when closing began

closingVars == <<vars, closing, closed, due>>

NotClosing == [at |-> "no"]
Closing(c) == closing[c].at # "no"
PayingOut(seats, todo) == [at |-> "paying", seats |-> seats, todo |-> todo]

Owned == SumFunction([p \in Players |-> balance[p] + UnderWay(p, "adjust")])
           + SumFunctionOnSet(stack, Seats)

ClosingInit ==
  /\ Init
  /\ closing = [c \in Closers |-> NotClosing] /\ closed = FALSE /\ due = 0

\* The table is in the registry; its book is closed and the report written.
Close(c) ==
  /\ ~closed /\ ~Closing(c)
  /\ \A h \in Handlers : job[h].at \in {"idle", "writing"}
  /\ closing' = [closing EXCEPT ![c] = [at |-> "booking"]]
  /\ due' = IF \E d \in Closers : Closing(d) THEN due ELSE Owned
  /\ UNCHANGED <<vars, closed>>

\* The report is written: humanSeats, who sits where at this moment.
Booked(c) ==
  /\ closing[c].at = "booking"
  /\ closing' = [closing EXCEPT ![c] =
                   PayingOut([s \in {t \in Seats : holder[t] # Nobody} |-> holder[s]], <<>>)]
  /\ UNCHANGED <<vars, closed, due>>

\* The next player is paid what is in front of that seat by now.
PayNext(c) ==
  /\ closing[c].at = "paying" /\ closing[c].todo = <<>>
  /\ \E s \in DOMAIN closing[c].seats :
       closing' = [closing EXCEPT ![c] =
                     PayingOut(Restrict(@.seats, DOMAIN @.seats \ {s}),
                               CashOut(@.seats[s], stack[s]))]
  /\ UNCHANGED <<vars, closed, due>>

PayWrite(c) ==
  /\ closing[c].at = "paying" /\ closing[c].todo # <<>>
  /\ Applied(Head(closing[c].todo))
  /\ closing' = [closing EXCEPT ![c].todo = Tail(@)]
  /\ UNCHANGED <<table, job, requests, closed, due>>

\* registry.close
Remove(c) ==
  /\ closing[c] = PayingOut(<<>>, <<>>)
  /\ Vacated(Seats) /\ closed' = TRUE
  /\ closing' = [closing EXCEPT ![c] = NotClosing]
  /\ UNCHANGED <<store, job, requests, due>>

\* Players come and play until somebody closes the table; then they can leave.
Others ==
  /\ IF \E c \in Closers : Closing(c)
     THEN \E h \in Handlers : Write(h) \/ \E s \in Seats : Leave(h, s)
     ELSE IF closed THEN \E h \in Handlers : Write(h) ELSE Next
  /\ UNCHANGED <<closing, closed, due>>

ClosingNext ==
  \/ \E c \in Closers : Close(c) \/ Booked(c) \/ PayNext(c) \/ PayWrite(c) \/ Remove(c)
  \/ Others

ClosingSpec == ClosingInit /\ [][ClosingNext]_closingVars

\* "Closing each one exactly like the owner terminating it returns every
\* seated player's chips to their balance" (closeAllTables): when the table is
\* closed and everything is written, the players own what they owned before.
\* It does not hold: who leaves after they were paid is paid again.
ClosingReturnsChips ==
  (closed /\ \A c \in Closers : ~Closing(c)) => Owned = due
=============================================================================

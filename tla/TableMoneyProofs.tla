-------------------------- MODULE TableMoneyProofs --------------------------
(***************************************************************************)
(* Theorems about TableMoney, for any number of players, seats and         *)
(* handlers under way, and any amounts.                                    *)
(*                                                                         *)
(* What a handler has left to write is a list, and what it comes to for a  *)
(* player is a sum over the list (Total); what everybody has left is a sum *)
(* over the handlers (UnderWay).  The lemmas follow a list from where it   *)
(* is made to its last write; each action then changes one handler.        *)
(***************************************************************************)
EXTENDS TableMoney, SumsProofs, SequenceTheorems

Written ==
  {w \in [op : {"adjust", "ledger", "keep"}, who : Players, amount : Int] :
     w.op = "keep" => w.amount \in Nat}
    \cup [op : {"pot_win"}, who : Players, from : Players, amount : Int]

JobIsSound(j) ==
  \/ j = Idle
  \/ j.at = "asking" /\ j.who \in Players /\ j.seat \in Seats
  \/ j.at = "paying" /\ j.who \in Players /\ j.seat \in Seats /\ j.amount \in Nat \ {0}
  \/ /\ j.at = "sitting" /\ j.who \in Players /\ j.seat \in Seats
     /\ j.amount \in Nat \ {0} /\ j.seen \in Int
  \/ j.at = "reading" /\ j.who \in Players /\ j.seat \in Seats
  \/ j.at = "adding" /\ j.who \in Players /\ j.seat \in Seats /\ j.seen \in Int
  \/ j.at = "writing" /\ j.todo \in Seq(Written) /\ j.todo # <<>>

StoreIsSound ==
  /\ balance \in [Players -> Int] /\ ledger \in [Players -> Int] /\ won \in [Players -> Int]
  /\ kept \in [Players -> Nat \cup {NeverLeft}]
TableIsSound ==
  /\ holder \in [Seats -> Players \cup {Nobody}] /\ stack \in [Seats -> Nat]
  /\ \A s \in Seats : holder[s] = Nobody => stack[s] = 0
JobsAreSound == DOMAIN job = Handlers /\ \A h \in Handlers : JobIsSound(job[h])

Sound == StoreIsSound /\ TableIsSound /\ JobsAreSound
IInv == Sound /\ LedgerExplains

-----------------------------------------------------------------------------
\* What a list comes to.
Shares(todo, p, op) == [i \in DOMAIN todo |-> Share(todo[i], p, op)]

LEMMA ShareIsInt ==
  ASSUME NEW w \in Written, NEW p, NEW op
  PROVE  Share(w, p, op) \in Int
BY DEF Written, Share

LEMMA TotalIsSum ==
  ASSUME NEW todo \in Seq(Written), NEW p, NEW op
  PROVE  /\ Len(todo) \in Nat
         /\ \A i \in 1 .. Len(todo) : /\ Shares(todo, p, op)[i] = Share(todo[i], p, op)
                                      /\ Shares(todo, p, op)[i] \in Int
         /\ Total(todo, p, op) = Sum(Shares(todo, p, op), 1 .. Len(todo))
         /\ Total(todo, p, op) \in Int
<1>1. Len(todo) \in Nat /\ DOMAIN todo = 1 .. Len(todo) /\ \A i \in 1 .. Len(todo) : todo[i] \in Written
  BY LenProperties
<1>2. \A i \in 1 .. Len(todo) : /\ Shares(todo, p, op)[i] = Share(todo[i], p, op)
                                /\ Shares(todo, p, op)[i] \in Int
  BY <1>1, ShareIsInt DEF Shares
<1>3. Total(todo, p, op) = Sum(Shares(todo, p, op), 1 .. Len(todo))
  BY <1>1 DEF Total, Shares, SumFunction, Sum
<1>4. IsFiniteSet(1 .. Len(todo))
  BY <1>1, FS_Interval
<1>. QED
  BY <1>1, <1>2, <1>3, <1>4, SumIsInt

LEMMA TotalOfNone == \A p, op : Total(<<>>, p, op) = 0
<1>. SUFFICES ASSUME NEW p, NEW op PROVE Total(<<>>, p, op) = 0
  OBVIOUS
<1>1. <<>> \in Seq(Written) /\ 1 .. Len(<<>>) = {}
  OBVIOUS
<1>. QED
  BY <1>1, TotalIsSum, SumOfNone

LEMMA TotalOfBoth ==
  ASSUME NEW a \in Seq(Written), NEW b \in Seq(Written), NEW p, NEW op
  PROVE  a \o b \in Seq(Written) /\ Total(a \o b, p, op) = Total(a, p, op) + Total(b, p, op)
<1>. DEFINE c == a \o b
            m == Len(a)
            n == Len(b)
            f == Shares(a, p, op)
            g == Shares(b, p, op)
            h == Shares(c, p, op)
<1>1. /\ c \in Seq(Written) /\ Len(c) = m + n /\ m \in Nat /\ n \in Nat
      /\ \A i \in 1 .. m + n : c[i] = IF i <= m THEN a[i] ELSE b[i - m]
  BY ConcatProperties, LenProperties
<1>. HIDE DEF c
<1>2. /\ \A i \in 1 .. m : f[i] = Share(a[i], p, op) /\ f[i] \in Int
      /\ \A i \in 1 .. n : g[i] = Share(b[i], p, op) /\ g[i] \in Int
      /\ \A i \in 1 .. m + n : h[i] = Share(c[i], p, op)
      /\ Total(a, p, op) = Sum(f, 1 .. m) /\ Total(b, p, op) = Sum(g, 1 .. n)
      /\ Total(c, p, op) = Sum(h, 1 .. (m + n))
  <2>1. /\ \A i \in 1 .. m : f[i] = Share(a[i], p, op) /\ f[i] \in Int
        /\ Total(a, p, op) = Sum(f, 1 .. m)
    BY TotalIsSum
  <2>2. /\ \A i \in 1 .. n : g[i] = Share(b[i], p, op) /\ g[i] \in Int
        /\ Total(b, p, op) = Sum(g, 1 .. n)
    BY TotalIsSum
  <2>3. /\ \A i \in 1 .. Len(c) : h[i] = Share(c[i], p, op)
        /\ Total(c, p, op) = Sum(h, 1 .. Len(c))
    BY <1>1, TotalIsSum
  <2>. HIDE DEF f, g, h, m, n
  <2>. QED
    BY <1>1, <2>1, <2>2, <2>3
<1>. HIDE DEF f, g, h, m, n
<1>3. \A i \in 1 .. (m + n) : h[i] = IF i <= m THEN f[i] ELSE g[i - m]
  <2>1. \A i \in 1 .. (m + n) : IF i <= m THEN i \in 1 .. m ELSE i - m \in 1 .. n
    BY <1>1
  <2>. QED
    BY <1>1, <1>2, <2>1
<1>4. Appended(h, f, m, g, n)
  BY <1>1, <1>2, <1>3 DEF Appended
<1>5. Sum(h, 1 .. (m + n)) = Sum(f, 1 .. m) + Sum(g, 1 .. n)
  BY <1>4, SumOfAppended
<1>. QED
  BY <1>1, <1>2, <1>5 DEF c

LEMMA TotalOfOne ==
  ASSUME NEW w \in Written, NEW p, NEW op
  PROVE  <<w>> \in Seq(Written) /\ Total(<<w>>, p, op) = Share(w, p, op)
<1>. DEFINE todo == <<w>>
            f == Shares(todo, p, op)
            S == 1 .. Len(todo)
<1>1. todo \in Seq(Written) /\ S = {1} /\ todo[1] = w
  OBVIOUS
<1>2. f[1] = Share(w, p, op) /\ f[1] \in Int /\ Total(todo, p, op) = Sum(f, S)
  <2>. HIDE DEF todo
  <2>1. /\ \A i \in S : f[i] = Share(todo[i], p, op) /\ f[i] \in Int
        /\ Total(todo, p, op) = Sum(f, S)
    BY <1>1, TotalIsSum
  <2>. HIDE DEF f, S
  <2>2. 1 \in S
    BY <1>1
  <2>. QED
    BY <1>1, <2>1, <2>2
<1>3. Sum(f, S) = f[1]
  <2>. HIDE DEF f, S
  <2>. DEFINE a == 1
  <2>1. IsFiniteSet(S) /\ a \in S /\ f[a] \in Int /\ \A x \in S \ {a} : f[x] = 0
    BY <1>1, <1>2, FS_Singleton
  <2>. HIDE DEF a
  <2>2. Sum(f, S) = f[a]
    BY <2>1, SumOfTheOnly
  <2>. QED
    BY <2>2 DEF a
<1>. QED
  BY <1>1, <1>2, <1>3

\* The first of a list is written: that much less is left.
LEMMA TotalOfRest ==
  ASSUME NEW todo \in Seq(Written), todo # <<>>, NEW p, NEW op
  PROVE  /\ Head(todo) \in Written /\ Tail(todo) \in Seq(Written)
         /\ Total(todo, p, op) = Share(Head(todo), p, op) + Total(Tail(todo), p, op)
<1>1. Head(todo) \in Written /\ Tail(todo) \in Seq(Written)
  BY HeadTailProperties
<1>2. todo = <<Head(todo)>> \o Tail(todo)
  OBVIOUS
<1>. DEFINE w == Head(todo)
            first == <<w>>
            rest == Tail(todo)
<1>3. w \in Written /\ rest \in Seq(Written) /\ todo = first \o rest
  BY <1>1, <1>2
<1>4. first \in Seq(Written) /\ Total(first, p, op) = Share(w, p, op)
  <2>. HIDE DEF w
  <2>. QED
    BY <1>3, TotalOfOne
<1>5. Total(first \o rest, p, op) = Total(first, p, op) + Total(rest, p, op)
  <2>. HIDE DEF first, rest
  <2>. QED
    BY <1>3, <1>4, TotalOfBoth
<1>. QED
  BY <1>3, <1>4, <1>5

-----------------------------------------------------------------------------
\* The lists the handlers make.
Told(p, q, amount) == IF p = q THEN amount ELSE 0

LEMMA MoveIsWritten ==
  ASSUME NEW p \in Players, NEW amount \in Int
  PROVE  /\ Move(p, amount) \in Seq(Written) /\ Move(p, amount) # <<>>
         /\ \A q \in Players, op \in {"adjust", "ledger"} :
              Total(Move(p, amount), q, op) = Told(p, q, amount)
<1>. DEFINE x == Adjust(p, amount)
            y == Enter(p, amount)
            a == <<x>>
            b == <<y>>
<1>1. x \in Written /\ y \in Written
  BY DEF Adjust, Enter, Written
<1>2. Move(p, amount) = a \o b /\ Move(p, amount) # <<>>
  BY DEF Move
<1>3. ASSUME NEW q \in Players, NEW op \in {"adjust", "ledger"}
      PROVE  Share(x, q, op) + Share(y, q, op) = Told(p, q, amount)
  BY DEF Adjust, Enter, Share, Told
<1>. HIDE DEF x, y
<1>4. /\ a \in Seq(Written) /\ \A q, op : Total(a, q, op) = Share(x, q, op)
      /\ b \in Seq(Written) /\ \A q, op : Total(b, q, op) = Share(y, q, op)
  BY <1>1, TotalOfOne
<1>. HIDE DEF a, b
<1>5. a \o b \in Seq(Written) /\ \A q, op : Total(a \o b, q, op) = Total(a, q, op) + Total(b, q, op)
  BY <1>4, TotalOfBoth
<1>. QED
  BY <1>2, <1>3, <1>4, <1>5

LEMMA CashOutIsWritten ==
  ASSUME NEW p \in Players, NEW amount \in Nat
  PROVE  /\ CashOut(p, amount) \in Seq(Written) /\ CashOut(p, amount) # <<>>
         /\ \A q \in Players, op \in {"adjust", "ledger"} :
              Total(CashOut(p, amount), q, op) = Told(p, q, amount)
<1>. DEFINE x == Keep(p, amount)
            b == <<x>>
            a == IF amount > 0 THEN Move(p, amount) ELSE <<>>
<1>1. x \in Written /\ b # <<>> /\ \A q, op : op \in {"adjust", "ledger"} => Share(x, q, op) = 0
  BY DEF Keep, Written, Share
<1>2. CashOut(p, amount) = a \o b
  BY DEF CashOut
<1>. HIDE DEF x
<1>3. b \in Seq(Written) /\ \A q, op : Total(b, q, op) = Share(x, q, op)
  BY <1>1, TotalOfOne
<1>4. /\ a \in Seq(Written)
      /\ \A q \in Players, op \in {"adjust", "ledger"} : Total(a, q, op) = Told(p, q, amount)
  <2>1. CASE amount > 0
    <3>1. a = Move(p, amount)
      BY <2>1
    <3>. QED
      BY <3>1, MoveIsWritten
  <2>2. CASE ~(amount > 0)
    <3>1. a = <<>> /\ amount = 0 /\ a \in Seq(Written)
      BY <2>2
    <3>. QED
      BY <3>1, TotalOfNone DEF Told
  <2>. QED
    BY <2>1, <2>2
<1>5. a \o b # <<>>
  <2>1. b \in Seq(Written) /\ a \in Seq(Written) /\ b # <<>>
    BY <1>1, <1>3, <1>4
  <2>. HIDE DEF a, b
  <2>. QED
    BY <2>1, ConcatEqualIffEmpty
<1>. HIDE DEF a, b
<1>6. a \o b \in Seq(Written) /\ \A q, op : Total(a \o b, q, op) = Total(a, q, op) + Total(b, q, op)
  BY <1>3, <1>4, TotalOfBoth
<1>7. \A q \in Players, op \in {"adjust", "ledger"} :
        Total(a, q, op) \in Int /\ Total(b, q, op) = 0
  BY <1>1, <1>3, <1>4 DEF Told
<1>. QED
  BY <1>2, <1>4, <1>5, <1>6, <1>7

\* What is put down is paid for but for what the owner gives, which is not negative.
LEMMA PayForIsWritten ==
  ASSUME NEW p \in Players, NEW seen \in Int, NEW amount \in Nat
  PROVE  /\ PayFor(p, seen, amount) \in Seq(Written) /\ PayFor(p, seen, amount) # <<>>
         /\ Shortfall(seen, amount) \in Nat
         /\ \A q \in Players, op \in {"adjust", "ledger"} :
              Total(PayFor(p, seen, amount), q, op) = Told(p, q, Shortfall(seen, amount) - amount)
<1>. DEFINE gift == Shortfall(seen, amount)
            a == IF gift > 0 THEN Move(p, gift) ELSE <<>>
            price == -amount
            b == Move(p, price)
<1>1. gift \in Nat /\ price \in Int
  BY DEF Shortfall
<1>2. PayFor(p, seen, amount) = a \o b
  BY DEF PayFor
<1>3. /\ b \in Seq(Written) /\ b # <<>>
      /\ \A q \in Players, op \in {"adjust", "ledger"} : Total(b, q, op) = Told(p, q, price)
  <2>. HIDE DEF price
  <2>. QED
    BY <1>1, MoveIsWritten
<1>4. /\ a \in Seq(Written)
      /\ \A q \in Players, op \in {"adjust", "ledger"} : Total(a, q, op) = Told(p, q, gift)
  <2>. HIDE DEF gift
  <2>1. CASE gift > 0
    <3>1. a = Move(p, gift) /\ gift \in Int
      BY <1>1, <2>1
    <3>. QED
      BY <3>1, MoveIsWritten
  <2>2. CASE ~(gift > 0)
    <3>1. a = <<>> /\ gift = 0 /\ a \in Seq(Written)
      BY <1>1, <2>2
    <3>. QED
      BY <3>1, TotalOfNone DEF Told
  <2>. QED
    BY <2>1, <2>2
<1>. HIDE DEF a, b
<1>5. a \o b # <<>>
  BY <1>3, <1>4, ConcatEqualIffEmpty
<1>6. a \o b \in Seq(Written) /\ \A q, op : Total(a \o b, q, op) = Total(a, q, op) + Total(b, q, op)
  BY <1>3, <1>4, TotalOfBoth
<1>7. \A q : Told(p, q, gift) + Told(p, q, price) = Told(p, q, gift - amount)
  <2>. HIDE DEF gift
  <2>. QED
    BY <1>1 DEF Told
<1>. QED
  BY <1>1, <1>2, <1>3, <1>4, <1>5, <1>6, <1>7

-----------------------------------------------------------------------------
\* A reset pays one seat after the other.
Refunding(g, D) ==
  g = [T \in D |-> IF T = {} THEN <<>>
                   ELSE g[T \ {AnyOf(T)}] \o CashOut(holder[AnyOf(T)], stack[AnyOf(T)])]

LEMMA RefundsAreRecursive ==
  ASSUME NEW S
  PROVE  Refunds(S) = (CHOOSE g : Refunding(g, SUBSET S))[S]
BY DEF Refunds, FoldSet, MapThenFoldSet, Refunding, AnyOf

LEMMA RefundsExist ==
  ASSUME NEW S, IsFiniteSet(S)
  PROVE  \E g : Refunding(g, SUBSET S)
<1>. DEFINE D(n) == {s \in SUBSET S : Cardinality(s) <= n}
            Bad == {n \in Nat : ~ \E g : Refunding(g, D(n))}
            Paid(s) == CashOut(holder[AnyOf(s)], stack[AnyOf(s)])
<1>1. \A s \in SUBSET S : IsFiniteSet(s) /\ Cardinality(s) \in Nat
  BY FS_Subset, FS_CardinalityType
<1>2. Bad = {}
  <2>. SUFFICES ASSUME Bad # {} PROVE FALSE
    OBVIOUS
  <2>1. PICK n \in Bad : \A m \in Bad : n <= m
    BY LeastOf
  <2>2. n \in Nat /\ ~ \E g : Refunding(g, D(n))
    OBVIOUS
  <2>3. CASE n = 0
    <3>1. \A s \in D(0) : s = {}
      BY <1>1, FS_EmptySet
    <3>2. Refunding([s \in D(0) |-> <<>>], D(0))
      BY <3>1 DEF Refunding
    <3>. QED
      BY <2>2, <2>3, <3>2
  <2>4. CASE n # 0
    <3>1. n - 1 \in Nat /\ n - 1 \notin Bad
      <4>1. n - 1 \in Nat /\ ~(n <= n - 1)
        BY <2>2, <2>4
      <4>. HIDE DEF Bad
      <4>. QED
        BY <2>1, <4>1
    <3>2. PICK g : Refunding(g, D(n - 1))
      BY <3>1
    <3>. HIDE DEF Paid
    <3>. DEFINE h == [s \in D(n) |-> IF s = {} THEN <<>> ELSE g[s \ {AnyOf(s)}] \o Paid(s)]
    <3>3. ASSUME NEW s \in D(n - 1) PROVE s \in D(n) /\ h[s] = g[s]
      <4>1. s \in D(n)
        BY <1>1, <2>2
      <4>2. g[s] = IF s = {} THEN <<>> ELSE g[s \ {AnyOf(s)}] \o Paid(s)
        BY <3>2 DEF Refunding, Paid
      <4>. QED
        BY <4>1, <4>2
    <3>4. ASSUME NEW s \in D(n), s # {} PROVE h[s \ {AnyOf(s)}] = g[s \ {AnyOf(s)}]
      <4>1. AnyOf(s) \in s
        BY <3>4, AnyOfIsIn
      <4>2. Cardinality(s \ {AnyOf(s)}) = Cardinality(s) - 1
        BY <1>1, <4>1, FS_RemoveElement
      <4>3. s \ {AnyOf(s)} \in D(n - 1)
        BY <1>1, <2>2, <4>2
      <4>. QED
        BY <3>3, <4>3
    <3>. DEFINE next == [s \in D(n) |-> IF s = {} THEN <<>> ELSE h[s \ {AnyOf(s)}] \o Paid(s)]
    <3>5. \A s \in D(n) : h[s] = next[s]
      BY <3>4
    <3>6. Refunding(h, D(n))
      BY <3>5 DEF Refunding, Paid
    <3>. QED
      BY <2>2, <3>6
  <2>. QED
    BY <2>3, <2>4
<1>3. D(Cardinality(S)) = SUBSET S
  <2>1. \A s \in SUBSET S : Cardinality(s) <= Cardinality(S)
    BY FS_Subset
  <2>. QED
    BY <2>1
<1>4. Cardinality(S) \notin Bad /\ Cardinality(S) \in Nat
  BY <1>2, FS_CardinalityType
<1>. QED
  BY <1>3, <1>4

LEMMA RefundsAreUnique ==
  ASSUME NEW S, IsFiniteSet(S), NEW R \in SUBSET S,
         NEW g, Refunding(g, SUBSET S), NEW h, Refunding(h, SUBSET R)
  PROVE  Agree(g, h, R)
<1>. DEFINE Bad == {T \in SUBSET R : g[T] # h[T]}
            Paid(s) == CashOut(holder[AnyOf(s)], stack[AnyOf(s)])
<1>1. Bad = {}
  <2>. SUFFICES ASSUME Bad # {} PROVE FALSE
    OBVIOUS
  <2>1. PICK m \in Bad : \A x \in m : m \ {x} \notin Bad
    <3>. HIDE DEF Bad
    <3>1. Bad \in SUBSET (SUBSET S)
      BY DEF Bad
    <3>. QED
      BY <3>1, SmallestSet
  <2>2. m \in SUBSET S /\ m \in SUBSET R /\ g[m] # h[m]
    OBVIOUS
  <2>3. /\ g[m] = IF m = {} THEN <<>> ELSE g[m \ {AnyOf(m)}] \o Paid(m)
        /\ h[m] = IF m = {} THEN <<>> ELSE h[m \ {AnyOf(m)}] \o Paid(m)
    BY <2>2 DEF Refunding
  <2>. HIDE DEF Paid
  <2>4. m # {} => g[m \ {AnyOf(m)}] = h[m \ {AnyOf(m)}]
    BY <2>1, <2>2, AnyOfIsIn
  <2>. QED
    BY <2>2, <2>3, <2>4
<1>. QED
  BY <1>1 DEF Agree

LEMMA RefundsUnfold ==
  ASSUME NEW S, IsFiniteSet(S)
  PROVE  Refunds(S) = IF S = {} THEN <<>>
                      ELSE Refunds(S \ {AnyOf(S)}) \o CashOut(holder[AnyOf(S)], stack[AnyOf(S)])
<1>. DEFINE R == S \ {AnyOf(S)}
            g == CHOOSE g : Refunding(g, SUBSET S)
            h == CHOOSE h : Refunding(h, SUBSET R)
            last == CashOut(holder[AnyOf(S)], stack[AnyOf(S)])
<1>1. IsFiniteSet(R)
  BY FS_RemoveElement
<1>2. Refunding(g, SUBSET S) /\ Refunding(h, SUBSET R)
  BY <1>1, RefundsExist
<1>3. Refunds(S) = g[S] /\ Refunds(R) = h[R]
  BY RefundsAreRecursive
<1>4. g[S] = IF S = {} THEN <<>> ELSE g[R] \o last
  <2>. HIDE DEF g
  <2>. QED
    BY <1>2 DEF Refunding
<1>. HIDE DEF last
<1>5. g[R] = h[R]
  <2>. HIDE DEF g, h
  <2>1. R \in SUBSET S
    OBVIOUS
  <2>. HIDE DEF R
  <2>2. Agree(g, h, R)
    BY <1>2, <2>1, RefundsAreUnique
  <2>. QED
    BY <2>2 DEF Agree
<1>. QED
  BY <1>3, <1>4, <1>5 DEF last

\* In all, every player gets what is in front of them.
Chips(p) == [s \in Seats |-> Told(holder[s], p, stack[s])]

LEMMA ChipsAreNat ==
  ASSUME TableIsSound, NEW p
  PROVE  \A s \in Seats : Chips(p)[s] = Told(holder[s], p, stack[s]) /\ Chips(p)[s] \in Nat
BY DEF Chips, Told, TableIsSound

LEMMA SeatsFinite == IsFiniteSet(Seats) /\ \A S \in SUBSET Seats : IsFiniteSet(S)
BY MoneyAssumption, FS_Subset

LEMMA RefundsAreWritten ==
  ASSUME TableIsSound, NEW S \in SUBSET Seats, \A s \in S : holder[s] # Nobody
  PROVE  /\ Refunds(S) \in Seq(Written) /\ (S # {} => Refunds(S) # <<>>)
         /\ \A p \in Players, op \in {"adjust", "ledger"} : Total(Refunds(S), p, op) = Sum(Chips(p), S)
<1>. DEFINE Right(T) ==
              /\ Refunds(T) \in Seq(Written) /\ (T # {} => Refunds(T) # <<>>)
              /\ \A p \in Players, op \in {"adjust", "ledger"} : Total(Refunds(T), p, op) = Sum(Chips(p), T)
            Bad == {T \in SUBSET S : ~Right(T)}
<1>1. Bad = {}
  <2>. SUFFICES ASSUME Bad # {} PROVE FALSE
    OBVIOUS
  <2>1. PICK m \in Bad : \A x \in m : m \ {x} \notin Bad
    <3>1. Bad \in SUBSET (SUBSET S) /\ IsFiniteSet(S)
      BY SeatsFinite
    <3>. HIDE DEF Bad
    <3>. QED
      BY <3>1, SmallestSet
  <2>. DEFINE x == AnyOf(m)
              R == m \ {x}
              last == CashOut(holder[x], stack[x])
  <2>2. m \in SUBSET S /\ IsFiniteSet(m) /\ ~Right(m) /\ IsFiniteSet(R)
    BY SeatsFinite
  <2>3. Refunds(m) = IF m = {} THEN <<>> ELSE Refunds(R) \o last
    BY <2>2, RefundsUnfold
  <2>4. CASE m = {}
    <3>1. Refunds(m) = <<>> /\ Refunds(m) \in Seq(Written)
      BY <2>3, <2>4
    <3>2. \A p, op : Total(Refunds(m), p, op) = 0
      BY <3>1, TotalOfNone
    <3>3. \A p : Sum(Chips(p), m) = 0
      BY <2>4, SumOfNone
    <3>. QED
      BY <2>2, <2>4, <3>1, <3>2, <3>3
  <2>5. CASE m # {}
    <3>1. x \in m /\ x \in S /\ x \in Seats /\ R \in SUBSET S /\ R \notin Bad
      BY <2>1, <2>2, <2>5, AnyOfIsIn
    <3>2. Right(R)
      BY <3>1
    <3>3. holder[x] \in Players /\ stack[x] \in Nat
      BY <3>1 DEF TableIsSound
    <3>4. /\ last \in Seq(Written) /\ last # <<>>
          /\ \A p \in Players, op \in {"adjust", "ledger"} :
               Total(last, p, op) = Told(holder[x], p, stack[x])
      <4>. HIDE DEF x
      <4>. QED
        BY <3>3, CashOutIsWritten
    <3>5. \A p : Sum(Chips(p), m) = Chips(p)[x] + Sum(Chips(p), R) /\ Sum(Chips(p), R) \in Int
      <4>. SUFFICES ASSUME NEW p
                    PROVE  Sum(Chips(p), m) = Chips(p)[x] + Sum(Chips(p), R) /\ Sum(Chips(p), R) \in Int
        OBVIOUS
      <4>. DEFINE f == Chips(p)
      <4>1. \A s \in m : f[s] \in Int
        BY <2>2, ChipsAreNat
      <4>2. R \in SUBSET m
        OBVIOUS
      <4>. HIDE DEF f, x
      <4>3. Sum(f, m) = f[x] + Sum(f, m \ {x})
        BY <2>2, <3>1, <4>1, SumTakes
      <4>. HIDE DEF R
      <4>4. Sum(f, R) \in Int
        BY <2>2, <4>1, <4>2, PartialSums
      <4>. QED
        BY <4>3, <4>4 DEF f, R
    <3>6. \A p : Chips(p)[x] = Told(holder[x], p, stack[x]) /\ Chips(p)[x] \in Int
      BY <3>1, ChipsAreNat
    <3>. DEFINE first == Refunds(R)
    <3>7. /\ first \in Seq(Written)
          /\ \A p \in Players, op \in {"adjust", "ledger"} : Total(first, p, op) = Sum(Chips(p), R)
      BY <3>2
    <3>8. Refunds(m) = first \o last
      BY <2>3, <2>5
    <3>. HIDE DEF first, last, R, x
    <3>9. first \o last # <<>>
      BY <3>4, <3>7, ConcatEqualIffEmpty
    <3>10. /\ first \o last \in Seq(Written)
           /\ \A p, op : Total(first \o last, p, op) = Total(first, p, op) + Total(last, p, op)
      BY <3>4, <3>7, TotalOfBoth
    <3>11. \A p \in Players, op \in {"adjust", "ledger"} : Total(Refunds(m), p, op) = Sum(Chips(p), m)
      BY <3>4, <3>5, <3>6, <3>7, <3>8, <3>10
    <3>. QED
      BY <2>2, <3>8, <3>9, <3>10, <3>11
  <2>. QED
    BY <2>4, <2>5
<1>2. S \in SUBSET S
  OBVIOUS
<1>. HIDE DEF Right
<1>3. Right(S)
  BY <1>1, <1>2
<1>. QED
  BY <1>3 DEF Right

-----------------------------------------------------------------------------
\* What is under way, when one handler goes on.
ToCome(j, p, op) == IF j.at = "writing" THEN Total(j.todo, p, op) ELSE 0

LEMMA ToComeIsInt ==
  ASSUME NEW j, JobIsSound(j), NEW p, NEW op
  PROVE  ToCome(j, p, op) \in Int
<1>1. CASE j.at = "writing"
  <2>1. j.todo \in Seq(Written)
    BY <1>1 DEF JobIsSound, Idle
  <2>. QED
    BY <1>1, <2>1, TotalIsSum DEF ToCome
<1>2. CASE j.at # "writing"
  BY <1>2 DEF ToCome
<1>. QED
  BY <1>1, <1>2

LEMMA UnderWayIsSum ==
  ASSUME JobsAreSound, NEW p, NEW op
  PROVE  /\ UnderWay(p, op) = Sum([h \in Handlers |-> ToCome(job[h], p, op)], Handlers)
         /\ \A h \in Handlers : ToCome(job[h], p, op) \in Int
         /\ UnderWay(p, op) \in Int
<1>. DEFINE f == [h \in Handlers |-> ToCome(job[h], p, op)]
<1>1. UnderWay(p, op) = Sum(f, Handlers)
  <2>1. [h \in Handlers |-> StillToCome(h, p, op)] = f
    BY DEF StillToCome, ToCome
  <2>. QED
    BY <2>1 DEF UnderWay, SumFunction, Sum
<1>2. \A h \in Handlers : ToCome(job[h], p, op) \in Int
  BY ToComeIsInt DEF JobsAreSound
<1>3. IsFiniteSet(Handlers) /\ \A h \in Handlers : f[h] \in Int
  BY <1>2, MoneyAssumption
<1>4. Sum(f, Handlers) \in Int
  <2>. HIDE DEF f
  <2>. QED
    BY <1>3, SumIsInt
<1>. QED
  BY <1>1, <1>2, <1>4

GoesOn(h, j) ==
  h \in Handlers /\ JobsAreSound /\ JobIsSound(j) /\ job' = [job EXCEPT ![h] = j]

LEMMA HandlerGoesOn ==
  ASSUME NEW h, NEW j, GoesOn(h, j)
  PROVE  /\ JobsAreSound'
         /\ \A p, op : UnderWay(p, op)' = UnderWay(p, op) + (ToCome(j, p, op) - ToCome(job[h], p, op))
<1>0. h \in Handlers /\ JobsAreSound /\ JobIsSound(j) /\ job' = [job EXCEPT ![h] = j]
  BY DEF GoesOn
<1>1. /\ DOMAIN job = Handlers /\ DOMAIN job' = Handlers
      /\ job'[h] = j /\ \A k \in Handlers \ {h} : job'[k] = job[k]
  BY <1>0 DEF JobsAreSound
<1>2. JobsAreSound'
  <2>1. \A k \in Handlers : JobIsSound(job'[k])
    BY <1>0, <1>1 DEF JobsAreSound
  <2>. QED
    BY <1>1, <2>1 DEF JobsAreSound, JobIsSound
<1>. SUFFICES ASSUME NEW p, NEW op
              PROVE  UnderWay(p, op)' = UnderWay(p, op) + (ToCome(j, p, op) - ToCome(job[h], p, op))
  BY <1>2
<1>. DEFINE f == [k \in Handlers |-> ToCome(job[k], p, op)]
            g == [k \in Handlers |-> ToCome(job'[k], p, op)]
<1>3. UnderWay(p, op)' = Sum(g, Handlers)
  <2>1. [k \in Handlers |-> StillToCome(k, p, op)]' = g
    BY DEF StillToCome, ToCome
  <2>2. UnderWay(p, op)' = SumFunction(g)
    BY <2>1 DEF UnderWay
  <2>. QED
    BY <2>2 DEF SumFunction, Sum
<1>4. UnderWay(p, op) = Sum(f, Handlers) /\ \A k \in Handlers : f[k] \in Int
  BY <1>0, UnderWayIsSum
<1>5. /\ \A k \in Handlers : g[k] \in Int
      /\ \A k \in Handlers \ {h} : g[k] = f[k]
      /\ g[h] = ToCome(j, p, op) /\ f[h] = ToCome(job[h], p, op)
  <2>1. \A k \in Handlers : JobIsSound(job'[k])
    BY <1>0, <1>1 DEF JobsAreSound
  <2>2. \A k \in Handlers : ToCome(job'[k], p, op) \in Int
    BY <2>1, ToComeIsInt
  <2>. QED
    BY <1>0, <1>1, <2>2
<1>. HIDE DEF f, g
<1>6. Sum(g, Handlers) = Sum(f, Handlers) + (g[h] - f[h])
  BY <1>0, <1>4, <1>5, SumChangesAt, MoneyAssumption
<1>. QED
  BY <1>3, <1>4, <1>5, <1>6

\* Nothing changes for anybody but that a list is begun.
LEMMA ListIsBegun ==
  ASSUME JobsAreSound, NEW h \in Handlers, job[h].at # "writing",
         NEW todo \in Seq(Written), todo # <<>>, job' = [job EXCEPT ![h] = Writing(todo)]
  PROVE  /\ JobsAreSound'
         /\ \A p, op : UnderWay(p, op)' = UnderWay(p, op) + Total(todo, p, op)
<1>. DEFINE j == Writing(todo)
<1>1. j.at = "writing" /\ j.todo = todo /\ JobIsSound(j)
  BY DEF Writing, JobIsSound
<1>2. \A p, op : ToCome(j, p, op) = Total(todo, p, op) /\ ToCome(job[h], p, op) = 0
  BY <1>1 DEF ToCome
<1>3. job' = [job EXCEPT ![h] = j]
  OBVIOUS
<1>. HIDE DEF j
<1>4. GoesOn(h, j)
  BY <1>1, <1>3 DEF GoesOn
<1>6. /\ JobsAreSound'
      /\ \A p, op : UnderWay(p, op)' = UnderWay(p, op) + (ToCome(j, p, op) - ToCome(job[h], p, op))
  BY <1>4, HandlerGoesOn
<1>5. \A p, op : Total(todo, p, op) \in Int
  BY TotalIsSum
<1>. QED
  BY <1>2, <1>6, <1>5

\* A handler asks or reads, or gives up.
LEMMA NothingBegun ==
  ASSUME JobsAreSound, NEW h \in Handlers, job[h].at # "writing",
         NEW j, JobIsSound(j), j.at # "writing", job' = [job EXCEPT ![h] = j]
  PROVE  /\ JobsAreSound'
         /\ \A p, op : UnderWay(p, op)' = UnderWay(p, op)
<1>1. \A p, op : ToCome(j, p, op) = 0 /\ ToCome(job[h], p, op) = 0
  BY DEF ToCome
<1>2. \A p, op : UnderWay(p, op) \in Int
  BY UnderWayIsSum
<1>3. GoesOn(h, j)
  BY DEF GoesOn
<1>4. /\ JobsAreSound'
      /\ \A p, op : UnderWay(p, op)' = UnderWay(p, op) + (ToCome(j, p, op) - ToCome(job[h], p, op))
  BY <1>3, HandlerGoesOn
<1>. QED
  BY <1>1, <1>2, <1>4

LEMMA IdleIsSound == JobIsSound(Idle) /\ Idle.at = "idle"
BY DEF JobIsSound, Idle

-----------------------------------------------------------------------------
\* What is written was under way.
LEMMA WriteKeeps ==
  ASSUME Sound, NEW h \in Handlers, Write(h)
  PROVE  /\ Sound'
         /\ \A p \in Players :
              /\ balance'[p] + UnderWay(p, "adjust")' = balance[p] + UnderWay(p, "adjust")
              /\ ledger'[p] - won'[p] + UnderWay(p, "ledger")' = ledger[p] - won[p] + UnderWay(p, "ledger")
<1>. DEFINE todo == job[h].todo
            w == Head(todo)
            rest == Tail(todo)
            j == Writing(rest)
<1>1. job[h].at = "writing" /\ todo \in Seq(Written) /\ todo # <<>>
  BY DEF Write, Sound, JobsAreSound, JobIsSound, Idle
<1>2. /\ w \in Written /\ rest \in Seq(Written)
      /\ \A p, op : Total(todo, p, op) = Share(w, p, op) + Total(rest, p, op)
  <2>. HIDE DEF todo
  <2>. QED
    BY <1>1, TotalOfRest
<1>3. JobIsSound(j) /\ \A p, op : ToCome(j, p, op) = Total(rest, p, op)
  <2>1. CASE rest = <<>>
    <3>1. j = Idle
      BY <2>1 DEF Writing
    <3>2. \A p, op : Total(rest, p, op) = 0
      BY <2>1, TotalOfNone
    <3>. HIDE DEF j, rest
    <3>. QED
      BY <3>1, <3>2, IdleIsSound DEF ToCome
  <2>2. CASE rest # <<>>
    <3>1. j = [at |-> "writing", todo |-> rest]
      BY <2>2 DEF Writing
    <3>. HIDE DEF rest
    <3>. QED
      BY <1>2, <2>2, <3>1 DEF ToCome, JobIsSound
  <2>. QED
    BY <2>1, <2>2
<1>4. job' = [job EXCEPT ![h] = j] /\ Applied(w) /\ UNCHANGED <<holder, stack, requests>>
  BY DEF Write, Goes, table
<1>5. \A p, op : ToCome(job[h], p, op) = Total(todo, p, op)
  BY <1>1 DEF ToCome
<1>. HIDE DEF todo, w, rest, j
<1>6. /\ JobsAreSound'
      /\ \A p, op : UnderWay(p, op)' = UnderWay(p, op) + (ToCome(j, p, op) - ToCome(job[h], p, op))
  <2>1. GoesOn(h, j)
    BY <1>3, <1>4 DEF GoesOn, Sound
  <2>. QED
    BY <2>1, HandlerGoesOn
<1>7. \A p, op : /\ UnderWay(p, op) \in Int /\ Total(rest, p, op) \in Int /\ Share(w, p, op) \in Int
                 /\ UnderWay(p, op)' = UnderWay(p, op) - Share(w, p, op)
  <2>1. \A p, op : UnderWay(p, op) \in Int /\ Total(rest, p, op) \in Int /\ Share(w, p, op) \in Int
    BY <1>2, UnderWayIsSum, TotalIsSum, ShareIsInt DEF Sound
  <2>. QED
    BY <1>2, <1>3, <1>5, <1>6, <2>1
<1>8. ASSUME NEW p \in Players
      PROVE  /\ balance'[p] = balance[p] + Share(w, p, "adjust")
             /\ ledger'[p] = ledger[p] + Share(w, p, "ledger") + Result(w, p)
             /\ won'[p] = won[p] + Result(w, p)
             /\ balance[p] \in Int /\ ledger[p] \in Int /\ won[p] \in Int /\ Result(w, p) \in Int
  <2>1. /\ w.who \in Players /\ w.amount \in Int
        /\ balance[p] \in Int /\ ledger[p] \in Int /\ won[p] \in Int
    BY <1>2 DEF Written, Sound, StoreIsSound
  <2>2. balance'[p] = IF w.op = "adjust" /\ w.who = p THEN balance[p] + w.amount ELSE balance[p]
    BY <1>4, <2>1 DEF Applied, Sound, StoreIsSound
  <2>3. Result(w, p) \in Int /\ (w.op # "pot_win" => Result(w, p) = 0)
    BY <2>1 DEF Result
  <2>4. ledger'[p] = IF w.op = "ledger" THEN IF w.who = p THEN ledger[p] + w.amount ELSE ledger[p]
                     ELSE ledger[p] + Result(w, p)
    BY <1>4, <2>1 DEF Applied, Sound, StoreIsSound
  <2>5. won'[p] = won[p] + Result(w, p)
    BY <1>4 DEF Applied
  <2>. HIDE DEF Result
  <2>6. ledger'[p] = ledger[p] + Share(w, p, "ledger") + Result(w, p)
    BY <2>1, <2>3, <2>4 DEF Share
  <2>7. balance'[p] = balance[p] + Share(w, p, "adjust")
    BY <2>1, <2>2 DEF Share
  <2>. QED
    BY <2>1, <2>3, <2>5, <2>6, <2>7
<1>9. StoreIsSound'
  <2>1. /\ w.who \in Players /\ w.amount \in Int
        /\ w.op = "keep" => w.amount \in Nat
    BY <1>2 DEF Written
  <2>2. balance' \in [Players -> Int]
    BY <1>4, <2>1 DEF Applied, Sound, StoreIsSound
  <2>3. ledger' \in [Players -> Int]
    <3>1. CASE w.op = "ledger"
      BY <1>4, <2>1, <3>1 DEF Applied, Sound, StoreIsSound
    <3>2. CASE w.op # "ledger"
      <4>1. ledger' = [p \in Players |-> ledger[p] + Result(w, p)]
        BY <1>4, <3>2 DEF Applied
      <4>. QED
        BY <1>8, <4>1
    <3>. QED
      BY <3>1, <3>2
  <2>4. won' \in [Players -> Int]
    <3>1. won' = [p \in Players |-> won[p] + Result(w, p)]
      BY <1>4 DEF Applied
    <3>. QED
      BY <1>8, <3>1
  <2>5. kept' \in [Players -> Nat \cup {NeverLeft}]
    BY <1>4, <2>1 DEF Applied, Sound, StoreIsSound
  <2>. QED
    BY <2>2, <2>3, <2>4, <2>5 DEF StoreIsSound
<1>10. TableIsSound'
  BY <1>4 DEF Sound, TableIsSound
<1>11. Sound'
  BY <1>6, <1>9, <1>10 DEF Sound
<1>12. ASSUME NEW p \in Players
       PROVE  /\ balance'[p] + UnderWay(p, "adjust")' = balance[p] + UnderWay(p, "adjust")
              /\ ledger'[p] - won'[p] + UnderWay(p, "ledger")' = ledger[p] - won[p] + UnderWay(p, "ledger")
  <2>1. UnderWay(p, "adjust")' = UnderWay(p, "adjust") - Share(w, p, "adjust")
    BY <1>7
  <2>2. UnderWay(p, "ledger")' = UnderWay(p, "ledger") - Share(w, p, "ledger")
    BY <1>7
  <2>. QED
    BY <1>7, <1>8, <2>1, <2>2
<1>. QED
  BY <1>11, <1>12

-----------------------------------------------------------------------------
\* What a step can come to.
Amounts == {"adjust", "ledger"}

\* Nothing at the table changes, nor what a player owns or, hands apart, has on
\* their ledger.
Settles ==
  /\ Sound' /\ UNCHANGED table
  /\ \A p \in Players :
       /\ balance'[p] + UnderWay(p, "adjust")' = balance[p] + UnderWay(p, "adjust")
       /\ ledger'[p] - won'[p] + UnderWay(p, "ledger")' = ledger[p] - won[p] + UnderWay(p, "ledger")

PutBy(p, s, amount, gift) ==
  /\ holder[s] \in {Nobody, p}
  /\ holder' = [holder EXCEPT ![s] = p] /\ stack' = [stack EXCEPT ![s] = @ + amount]
  /\ \A q \in Players, op \in Amounts :
       UnderWay(q, op)' = UnderWay(q, op) + Told(p, q, gift - amount)
Puts ==
  /\ Sound' /\ UNCHANGED store
  /\ \E p \in Players, s \in Seats, amount \in Nat \ {0}, gift \in Nat : PutBy(p, s, amount, gift)

PickedUp(S) ==
  /\ \A s \in S : holder[s] # Nobody
  /\ Vacated(S)
  /\ \A q \in Players, op \in Amounts : UnderWay(q, op)' = UnderWay(q, op) + Sum(Chips(q), S)
Picks ==
  /\ Sound' /\ UNCHANGED store
  /\ \E S \in SUBSET Seats : PickedUp(S)

Plays ==
  /\ Sound' /\ UNCHANGED store /\ \E h \in Handlers : PlayHand(h)
  /\ \A q \in Players, op \in Amounts : UnderWay(q, op)' = UnderWay(q, op)

LEMMA SoundParts ==
  ASSUME Sound
  PROVE  /\ \A p \in Players : balance[p] \in Int /\ ledger[p] \in Int /\ won[p] \in Int
         /\ \A p, op : UnderWay(p, op) \in Int
         /\ JobsAreSound
BY UnderWayIsSum DEF Sound, StoreIsSound

\* A request asks or reads, or is given up.
LEMMA QuietStep ==
  ASSUME Sound, NEW h \in Handlers, job[h].at # "writing", NEW j, JobIsSound(j),
         j.at # "writing", job' = [job EXCEPT ![h] = j], UNCHANGED <<store, table>>
  PROVE  Settles
<1>1. /\ JobsAreSound' /\ \A p, op : UnderWay(p, op)' = UnderWay(p, op)
  BY SoundParts, NothingBegun
<1>2. Sound'
  BY <1>1 DEF Sound, StoreIsSound, TableIsSound, store, table
<1>. QED
  BY <1>1, <1>2 DEF Settles, store

LEMMA TakeSeatSettles ==
  ASSUME Sound, NEW h \in Handlers, NEW p \in Players, NEW s \in Seats, TakeSeat(h, p, s)
  PROVE  Settles
<1>. DEFINE j == [at |-> "asking", who |-> p, seat |-> s]
<1>1. job[h].at # "writing" /\ job' = [job EXCEPT ![h] = j] /\ UNCHANGED <<store, table>>
  BY DEF TakeSeat, Start, Idle
<1>2. JobIsSound(j) /\ j.at # "writing"
  BY DEF JobIsSound
<1>. HIDE DEF j
<1>. QED
  BY <1>1, <1>2, QuietStep

LEMMA AskRebuySettles ==
  ASSUME Sound, NEW h \in Handlers, NEW s \in Seats, AskRebuy(h, s)
  PROVE  Settles
<1>. DEFINE j == [at |-> "reading", who |-> holder[s], seat |-> s]
<1>1. job[h].at # "writing" /\ job' = [job EXCEPT ![h] = j] /\ UNCHANGED <<store, table>>
  BY DEF AskRebuy, Start, Idle
<1>2. holder[s] \in Players
  BY DEF AskRebuy, Sound, TableIsSound
<1>3. JobIsSound(j) /\ j.at # "writing"
  BY <1>2 DEF JobIsSound
<1>. HIDE DEF j
<1>. QED
  BY <1>1, <1>3, QuietStep

LEMMA ReadKeptSettles ==
  ASSUME Sound, NEW h \in Handlers, ReadKept(h)
  PROVE  Settles
<1>. DEFINE p == job[h].who
            amount == IF kept[p] = NeverLeft THEN StartingChips ELSE kept[p]
            next == [at |-> "paying", who |-> p, seat |-> job[h].seat, amount |-> amount]
            j == IF amount = 0 THEN Idle ELSE next
<1>1. /\ job[h].at = "asking" /\ job' = [job EXCEPT ![h] = j] /\ UNCHANGED <<store, table>>
  BY DEF ReadKept, Goes
<1>2. p \in Players /\ job[h].seat \in Seats
  BY <1>1 DEF Sound, JobsAreSound, JobIsSound, Idle
<1>3. amount \in Nat
  BY <1>2, MoneyAssumption DEF Sound, StoreIsSound
<1>. HIDE DEF amount, p
<1>4. amount # 0 => JobIsSound(next) /\ next.at # "writing"
  BY <1>2, <1>3 DEF JobIsSound
<1>. HIDE DEF next
<1>5. JobIsSound(j) /\ j.at # "writing"
  BY <1>4, IdleIsSound
<1>. HIDE DEF j
<1>. QED
  BY <1>1, <1>5, QuietStep

LEMMA ReadBalanceSettles ==
  ASSUME Sound, NEW h \in Handlers, ReadBalance(h)
  PROVE  Settles
<1>. DEFINE j == [at |-> "sitting", who |-> job[h].who, seat |-> job[h].seat,
                  amount |-> job[h].amount, seen |-> balance[job[h].who]]
<1>1. job[h].at = "paying" /\ job' = [job EXCEPT ![h] = j] /\ UNCHANGED <<store, table>>
  BY DEF ReadBalance, Goes
<1>2. job[h].who \in Players /\ job[h].seat \in Seats /\ job[h].amount \in Nat \ {0}
  BY <1>1 DEF Sound, JobsAreSound, JobIsSound, Idle
<1>3. balance[job[h].who] \in Int
  BY <1>2, SoundParts
<1>4. JobIsSound(j) /\ j.at # "writing"
  BY <1>2, <1>3 DEF JobIsSound
<1>. HIDE DEF j
<1>. QED
  BY <1>1, <1>4, QuietStep

LEMMA ReadRebuySettles ==
  ASSUME Sound, NEW h \in Handlers, ReadRebuy(h)
  PROVE  Settles
<1>. DEFINE j == [at |-> "adding", who |-> job[h].who, seat |-> job[h].seat,
                  seen |-> balance[job[h].who]]
<1>1. job[h].at = "reading" /\ job' = [job EXCEPT ![h] = j] /\ UNCHANGED <<store, table>>
  BY DEF ReadRebuy, Goes
<1>2. job[h].who \in Players /\ job[h].seat \in Seats
  BY <1>1 DEF Sound, JobsAreSound, JobIsSound, Idle
<1>3. balance[job[h].who] \in Int
  BY <1>2, SoundParts
<1>4. JobIsSound(j) /\ j.at # "writing"
  BY <1>2, <1>3 DEF JobIsSound
<1>. HIDE DEF j
<1>. QED
  BY <1>1, <1>4, QuietStep

LEMMA WriteSettles ==
  ASSUME Sound, NEW h \in Handlers, Write(h)
  PROVE  Settles
<1>1. UNCHANGED table
  BY DEF Write
<1>. QED
  BY <1>1, WriteKeeps DEF Settles

\* Chips are put in front of a player: the list of what they cost is begun.
LEMMA PutStep ==
  ASSUME Sound, NEW h \in Handlers, job[h].at # "writing",
         NEW p \in Players, NEW s \in Seats, NEW amount \in Nat \ {0}, NEW seen \in Int,
         holder[s] \in {Nobody, p},
         holder' = [holder EXCEPT ![s] = p], stack' = [stack EXCEPT ![s] = @ + amount],
         job' = [job EXCEPT ![h] = Writing(PayFor(p, seen, amount))], UNCHANGED store
  PROVE  Puts
<1>. DEFINE todo == PayFor(p, seen, amount)
            gift == Shortfall(seen, amount)
<1>1. /\ todo \in Seq(Written) /\ todo # <<>> /\ gift \in Nat
      /\ \A q \in Players, op \in Amounts : Total(todo, q, op) = Told(p, q, gift - amount)
  BY PayForIsWritten DEF Amounts
<1>2. job' = [job EXCEPT ![h] = Writing(todo)]
  OBVIOUS
<1>. HIDE DEF todo, gift
<1>3. /\ JobsAreSound' /\ \A q, op : UnderWay(q, op)' = UnderWay(q, op) + Total(todo, q, op)
  BY <1>1, <1>2, SoundParts, ListIsBegun
<1>4. TableIsSound'
  <2>1. /\ holder \in [Seats -> Players \cup {Nobody}] /\ stack \in [Seats -> Nat]
        /\ \A t \in Seats : holder[t] = Nobody => stack[t] = 0
    BY DEF Sound, TableIsSound
  <2>2. holder' \in [Seats -> Players \cup {Nobody}] /\ stack' \in [Seats -> Nat]
    BY <2>1
  <2>3. \A t \in Seats : holder'[t] = Nobody => stack'[t] = 0
    BY <2>1, MoneyAssumption
  <2>. QED
    BY <2>2, <2>3 DEF TableIsSound
<1>5. Sound'
  BY <1>3, <1>4 DEF Sound, StoreIsSound, store
<1>6. PutBy(p, s, amount, gift)
  BY <1>1, <1>3 DEF PutBy
<1>. QED
  BY <1>1, <1>5, <1>6 DEF Puts

LEMMA PerformTakeSeatPuts ==
  ASSUME Sound, NEW h \in Handlers, PerformTakeSeat(h)
  PROVE  Settles \/ Puts
<1>. DEFINE p == job[h].who
            s == job[h].seat
            amount == job[h].amount
            seen == job[h].seen
<1>1. /\ job[h].at = "sitting" /\ p \in Players /\ s \in Seats
      /\ amount \in Nat \ {0} /\ seen \in Int
  BY DEF PerformTakeSeat, Sound, JobsAreSound, JobIsSound, Idle
<1>2. UNCHANGED store
  BY DEF PerformTakeSeat
<1>3. CASE holder[s] # Nobody
  <2>1. job' = [job EXCEPT ![h] = Idle] /\ UNCHANGED table
    BY <1>3 DEF PerformTakeSeat, Goes
  <2>. QED
    BY <1>1, <1>2, <2>1, IdleIsSound, QuietStep
<1>4. CASE holder[s] = Nobody
  <2>1. /\ holder' = [holder EXCEPT ![s] = p] /\ stack' = [stack EXCEPT ![s] = amount]
        /\ job' = [job EXCEPT ![h] = Writing(PayFor(p, seen, amount))]
    BY <1>4 DEF PerformTakeSeat, Goes
  <2>2. stack[s] = 0 /\ stack \in [Seats -> Nat]
    BY <1>1, <1>4 DEF Sound, TableIsSound
  <2>3. job[h].at # "writing"
    BY <1>1
  <2>. HIDE DEF p, s, amount, seen
  <2>4. stack' = [stack EXCEPT ![s] = @ + amount]
    BY <1>1, <2>1, <2>2
  <2>. QED
    BY <1>1, <1>2, <1>4, <2>1, <2>3, <2>4, PutStep
<1>. QED
  BY <1>3, <1>4

LEMMA AddChipsPuts ==
  ASSUME Sound, NEW h \in Handlers, AddChips(h)
  PROVE  Settles \/ Puts
<1>. DEFINE p == job[h].who
            s == job[h].seat
            seen == job[h].seen
<1>1. /\ job[h].at = "adding" /\ p \in Players /\ s \in Seats /\ seen \in Int
  BY DEF AddChips, Sound, JobsAreSound, JobIsSound, Idle
<1>2. UNCHANGED <<store, holder>>
  BY DEF AddChips
<1>3. CASE ~StillSeated(h)
  <2>1. job' = [job EXCEPT ![h] = Idle] /\ UNCHANGED table
    BY <1>2, <1>3 DEF AddChips, Goes, table
  <2>. QED
    BY <1>1, <1>2, <2>1, IdleIsSound, QuietStep
<1>4. CASE StillSeated(h)
  <2>1. /\ holder[s] = p /\ stack' = [stack EXCEPT ![s] = @ + RebuySize]
        /\ job' = [job EXCEPT ![h] = Writing(PayFor(p, seen, RebuySize))]
    BY <1>4 DEF AddChips, Goes, StillSeated
  <2>2. holder' = [holder EXCEPT ![s] = p]
    BY <1>1, <1>2, <2>1 DEF Sound, TableIsSound
  <2>3. job[h].at # "writing"
    BY <1>1
  <2>. HIDE DEF p, s, seen
  <2>. QED
    BY <1>1, <1>2, <2>1, <2>2, <2>3, PutStep, MoneyAssumption
<1>. QED
  BY <1>3, <1>4

-----------------------------------------------------------------------------
\* Players get up: the list of what they are owed is begun.
LEMMA PickStep ==
  ASSUME Sound, NEW h \in Handlers, job[h].at # "writing", NEW S \in SUBSET Seats,
         \A s \in S : holder[s] # Nobody, Vacated(S),
         NEW todo \in Seq(Written), todo # <<>>,
         \A q \in Players, op \in Amounts : Total(todo, q, op) = Sum(Chips(q), S),
         job' = [job EXCEPT ![h] = Writing(todo)], UNCHANGED store
  PROVE  Picks
<1>1. /\ JobsAreSound' /\ \A q, op : UnderWay(q, op)' = UnderWay(q, op) + Total(todo, q, op)
  BY SoundParts, ListIsBegun
<1>2. TableIsSound'
  BY DEF Sound, TableIsSound, Vacated
<1>3. Sound'
  BY <1>1, <1>2 DEF Sound, StoreIsSound, store
<1>4. PickedUp(S)
  BY <1>1 DEF PickedUp
<1>. QED
  BY <1>3, <1>4 DEF Picks

LEMMA LeavePicks ==
  ASSUME Sound, NEW h \in Handlers, NEW s \in Seats, Leave(h, s)
  PROVE  Picks
<1>. DEFINE S == {s}
            todo == CashOut(holder[s], stack[s])
<1>1. /\ holder[s] # Nobody /\ Vacated(S) /\ job[h].at # "writing" /\ UNCHANGED store
      /\ job' = [job EXCEPT ![h] = Writing(todo)]
  BY DEF Leave, Start, Idle
<1>2. holder[s] \in Players /\ stack[s] \in Nat
  BY <1>1 DEF Sound, TableIsSound
<1>3. /\ todo \in Seq(Written) /\ todo # <<>>
      /\ \A q \in Players, op \in Amounts : Total(todo, q, op) = Told(holder[s], q, stack[s])
  BY <1>2, CashOutIsWritten DEF Amounts
<1>4. \A q \in Players : Sum(Chips(q), S) = Told(holder[s], q, stack[s])
  <2>. SUFFICES ASSUME NEW q \in Players PROVE Sum(Chips(q), S) = Told(holder[s], q, stack[s])
    OBVIOUS
  <2>. DEFINE f == Chips(q)
  <2>1. /\ f[s] = Told(holder[s], q, stack[s]) /\ f[s] \in Int
    BY <1>2 DEF Chips, Told
  <2>2. IsFiniteSet(S) /\ s \in S /\ \A x \in S \ {s} : f[x] = 0
    BY SeatsFinite
  <2>. HIDE DEF f, S
  <2>3. Sum(f, S) = f[s]
    BY <2>1, <2>2, SumOfTheOnly
  <2>. QED
    BY <2>1, <2>3 DEF f
<1>5. S \in SUBSET Seats /\ \A x \in S : holder[x] # Nobody
  BY <1>1
<1>. HIDE DEF S, todo
<1>6. \A q \in Players, op \in Amounts : Total(todo, q, op) = Sum(Chips(q), S)
  BY <1>3, <1>4
<1>. QED
  BY <1>1, <1>3, <1>5, <1>6, PickStep

LEMMA ResetTablePicks ==
  ASSUME Sound, NEW h \in Handlers, ResetTable(h)
  PROVE  Picks
<1>. DEFINE S == {s \in Seats : holder[s] # Nobody}
            todo == Refunds(S)
<1>1. /\ S # {} /\ Vacated(S) /\ job[h].at # "writing" /\ UNCHANGED store
      /\ job' = [job EXCEPT ![h] = Writing(todo)]
  BY DEF ResetTable, Start, Idle
<1>2. S \in SUBSET Seats /\ \A s \in S : holder[s] # Nobody
  OBVIOUS
<1>. HIDE DEF S
<1>3. /\ todo \in Seq(Written) /\ todo # <<>>
      /\ \A q \in Players, op \in Amounts : Total(todo, q, op) = Sum(Chips(q), S)
  BY <1>1, <1>2, RefundsAreWritten DEF Sound, Amounts
<1>. HIDE DEF todo
<1>. QED
  BY <1>1, <1>2, <1>3, PickStep

MovedBy(h, s, t, n) ==
  /\ s # t /\ holder[s] # Nobody /\ holder[t] # Nobody /\ n <= stack[s]
  /\ stack' = [stack EXCEPT ![s] = @ - n, ![t] = @ + n]
  /\ Start(h, Writing(<<PotWin(holder[t], holder[s], n)>>))

LEMMA HandMoves ==
  ASSUME Sound, NEW h \in Handlers, PlayHand(h)
  PROVE  \E s \in Seats, t \in Seats, n \in Nat : MovedBy(h, s, t, n)
<1>1. PICK s \in Seats, t \in Seats :
        /\ s # t /\ holder[s] # Nobody /\ holder[t] # Nobody
        /\ \E n \in 1 .. stack[s] :
             /\ stack' = [stack EXCEPT ![s] = @ - n, ![t] = @ + n]
             /\ Start(h, Writing(<<PotWin(holder[t], holder[s], n)>>))
  BY DEF PlayHand
<1>2. PICK n \in 1 .. stack[s] :
        /\ stack' = [stack EXCEPT ![s] = @ - n, ![t] = @ + n]
        /\ Start(h, Writing(<<PotWin(holder[t], holder[s], n)>>))
  BY <1>1
<1>3. n \in Nat /\ n <= stack[s]
  <2>1. stack[s] \in Nat
    BY DEF Sound, TableIsSound
  <2>. QED
    BY <1>2, <2>1
<1>. QED
  BY <1>1, <1>2, <1>3 DEF MovedBy

\* A hand at the table moves nothing off it: its result is entered as such.
LEMMA PlayHandPlays ==
  ASSUME Sound, NEW h \in Handlers, PlayHand(h)
  PROVE  Plays
<1>1. PICK s \in Seats, t \in Seats, n \in Nat : MovedBy(h, s, t, n)
  BY HandMoves
<1>2. UNCHANGED <<store, holder>>
  BY DEF PlayHand
<1>3. stack \in [Seats -> Nat] /\ n \in Nat /\ stack[s] - n \in Nat /\ stack[t] + n \in Nat
  BY <1>1 DEF MovedBy, Sound, TableIsSound
<1>4. TableIsSound'
  <2>1. stack' \in [Seats -> Nat]
    BY <1>1, <1>3 DEF MovedBy
  <2>2. \A x \in Seats : holder[x] = Nobody => stack'[x] = 0
    BY <1>1, <1>3 DEF MovedBy, Sound, TableIsSound
  <2>. QED
    BY <1>2, <2>1, <2>2 DEF Sound, TableIsSound
<1>. DEFINE w == PotWin(holder[t], holder[s], n)
            todo == <<w>>
<1>5. /\ w \in Written
      /\ \A q, op : op \in Amounts => Share(w, q, op) = 0
  <2>1. holder[t] \in Players /\ holder[s] \in Players
    BY <1>1 DEF MovedBy, Sound, TableIsSound
  <2>. QED
    BY <1>3, <2>1 DEF PotWin, Written, Share, Amounts
<1>6. job[h].at # "writing" /\ job' = [job EXCEPT ![h] = Writing(todo)] /\ todo # <<>>
  BY <1>1 DEF MovedBy, Start, Idle
<1>. HIDE DEF w
<1>7. todo \in Seq(Written) /\ \A q, op : op \in Amounts => Total(todo, q, op) = 0
  BY <1>5, TotalOfOne
<1>. HIDE DEF todo
<1>8. JobsAreSound' /\ \A q, op : UnderWay(q, op)' = UnderWay(q, op) + Total(todo, q, op)
  BY <1>6, <1>7, SoundParts, ListIsBegun
<1>9. Sound'
  BY <1>2, <1>4, <1>8 DEF Sound, StoreIsSound, store
<1>10. \A q \in Players, op \in Amounts : UnderWay(q, op)' = UnderWay(q, op)
  BY <1>7, <1>8, SoundParts
<1>. QED
  BY <1>2, <1>9, <1>10 DEF Plays

LEMMA StepsAre ==
  ASSUME Sound, [Next]_vars
  PROVE  Settles \/ Puts \/ Picks \/ Plays
<1>1. CASE UNCHANGED vars
  <2>1. UNCHANGED <<store, table, job>>
    BY <1>1 DEF vars
  <2>2. \A q, op : UnderWay(q, op)' = UnderWay(q, op)
    BY <2>1 DEF UnderWay, StillToCome
  <2>3. JobsAreSound'
    BY <2>1 DEF Sound, JobsAreSound, JobIsSound
  <2>4. Sound'
    BY <2>1, <2>3 DEF Sound, StoreIsSound, TableIsSound, store, table
  <2>. QED
    BY <2>1, <2>2, <2>4 DEF Settles, store
<1>2. CASE \E h \in Handlers, p \in Players, s \in Seats : TakeSeat(h, p, s)
  BY <1>2, TakeSeatSettles
<1>3. CASE \E h \in Handlers, s \in Seats : AskRebuy(h, s)
  BY <1>3, AskRebuySettles
<1>4. CASE \E h \in Handlers, s \in Seats : Leave(h, s)
  BY <1>4, LeavePicks
<1>5. CASE \E h \in Handlers : ReadKept(h)
  BY <1>5, ReadKeptSettles
<1>6. CASE \E h \in Handlers : ReadBalance(h)
  BY <1>6, ReadBalanceSettles
<1>7. CASE \E h \in Handlers : PerformTakeSeat(h)
  BY <1>7, PerformTakeSeatPuts
<1>8. CASE \E h \in Handlers : ReadRebuy(h)
  BY <1>8, ReadRebuySettles
<1>9. CASE \E h \in Handlers : AddChips(h)
  BY <1>9, AddChipsPuts
<1>10. CASE \E h \in Handlers : ResetTable(h)
  BY <1>10, ResetTablePicks
<1>11. CASE \E h \in Handlers : Write(h)
  BY <1>11, WriteSettles
<1>12. CASE \E h \in Handlers : PlayHand(h)
  BY <1>12, PlayHandPlays
<1>. QED
  BY <1>1, <1>2, <1>3, <1>4, <1>5, <1>6, <1>7, <1>8, <1>9, <1>10, <1>11, <1>12 DEF Next

-----------------------------------------------------------------------------
LEMMA InitIsSound ==
  ASSUME Init
  PROVE  /\ Sound
         /\ \A p \in Players :
              /\ balance[p] = OpeningBalance /\ ledger[p] = 0 /\ won[p] = 0
              /\ \A op \in {"adjust", "ledger"} : UnderWay(p, op) = 0
<1>1. \A h \in Handlers : job[h] = Idle /\ Idle.at # "writing"
  BY DEF Init, Idle
<1>2. Sound
  <2>1. StoreIsSound
    BY MoneyAssumption DEF Init, StoreIsSound
  <2>2. TableIsSound
    BY DEF Init, TableIsSound
  <2>3. JobsAreSound
    BY <1>1, IdleIsSound DEF Init, JobsAreSound
  <2>. QED
    BY <2>1, <2>2, <2>3 DEF Sound
<1>3. ASSUME NEW p, NEW op
      PROVE  UnderWay(p, op) = 0
  <2>. DEFINE f == [h \in Handlers |-> ToCome(job[h], p, op)]
  <2>1. UnderWay(p, op) = Sum(f, Handlers)
    BY <1>2, UnderWayIsSum DEF Sound
  <2>2. \A h \in Handlers : f[h] = 0
    BY <1>1 DEF ToCome
  <2>. HIDE DEF f
  <2>3. Sum(f, Handlers) = 0
    BY <2>2, SumOfZeros, MoneyAssumption
  <2>. QED
    BY <2>1, <2>3
<1>. QED
  BY <1>2, <1>3 DEF Init

\* What is in front of a player, as a sum over seats that are theirs.
LEMMA ChipsSum ==
  ASSUME Sound, NEW S \in SUBSET Seats, NEW p
  PROVE  /\ Sum(Chips(p), S) \in Int
         /\ Sum(stack, {s \in S : holder[s] = p}) = Sum(Chips(p), S)
<1>. DEFINE f == Chips(p)
            P == {s \in S : holder[s] = p}
<1>1. IsFiniteSet(S) /\ P \in SUBSET S
  BY SeatsFinite
<1>2. \A s \in S : f[s] = (IF s \in P THEN stack[s] ELSE 0) /\ stack[s] \in Int /\ f[s] \in Int
  BY DEF Chips, Told, Sound, TableIsSound
<1>. HIDE DEF f, P
<1>3. Sum(f, S) \in Int
  BY <1>1, <1>2, SumIsInt
<1>4. Sum(stack, P) = Sum(f, S)
  BY <1>1, <1>2, SumOfPart
<1>. QED
  BY <1>3, <1>4 DEF f, P

LEMMA UnderWayIsIntNext ==
  ASSUME JobsAreSound', NEW p, NEW op
  PROVE  UnderWay(p, op)' \in Int
<1>. DEFINE f == [h \in Handlers |-> ToCome(job'[h], p, op)]
<1>1. UnderWay(p, op)' = Sum(f, Handlers)
  <2>1. [h \in Handlers |-> StillToCome(h, p, op)]' = f
    BY DEF StillToCome, ToCome
  <2>2. UnderWay(p, op)' = SumFunction(f)
    BY <2>1 DEF UnderWay
  <2>. QED
    BY <2>2 DEF SumFunction, Sum
<1>2. \A h \in Handlers : f[h] \in Int
  <2>1. \A h \in Handlers : JobIsSound(job'[h])
    BY DEF JobsAreSound, JobIsSound
  <2>. QED
    BY <2>1, ToComeIsInt
<1>. HIDE DEF f
<1>. QED
  BY <1>1, <1>2, SumIsInt, MoneyAssumption

\* Both sides of the ledger's equation move alike.
LEMMA LedgerStays ==
  ASSUME Sound, LedgerExplains, [Next]_vars
  PROVE  LedgerExplains'
<1>1. Sound'
  BY StepsAre DEF Settles, Puts, Picks, Plays
<1>. SUFFICES ASSUME NEW p \in Players
              PROVE  balance'[p] + UnderWay(p, "adjust")' = OpeningBalance + (ledger'[p] - won'[p]) + UnderWay(p, "ledger")'
  BY DEF LedgerExplains
<1>. DEFINE b == balance[p]
            e == ledger[p] - won[p]
            u == UnderWay(p, "adjust")
            v == UnderWay(p, "ledger")
            bn == balance'[p]
            en == ledger'[p] - won'[p]
            un == UnderWay(p, "adjust")'
            vn == UnderWay(p, "ledger")'
<1>2. b \in Int /\ e \in Int /\ u \in Int /\ v \in Int /\ OpeningBalance \in Int
  BY SoundParts, MoneyAssumption
<1>3. b + u = OpeningBalance + e + v
  BY DEF LedgerExplains
<1>9. bn \in Int /\ en \in Int /\ un \in Int /\ vn \in Int
  <2>1. balance'[p] \in Int /\ ledger'[p] \in Int /\ won'[p] \in Int /\ JobsAreSound'
    BY <1>1 DEF Sound, StoreIsSound
  <2>2. UnderWay(p, "adjust")' \in Int /\ UnderWay(p, "ledger")' \in Int
    BY <2>1, UnderWayIsIntNext
  <2>. QED
    BY <2>1, <2>2
<1>4. CASE Settles
  <2>1. bn + un = b + u /\ en + vn = e + v
    BY <1>4 DEF Settles
  <2>. HIDE DEF b, e, u, v, bn, en, un, vn
  <2>2. bn + un = OpeningBalance + en + vn
    BY <1>2, <1>3, <1>9, <2>1
  <2>. QED
    BY <2>2 DEF bn, en, un, vn
<1>5. ASSUME UNCHANGED store, NEW d \in Int,
             \A op \in Amounts : UnderWay(p, op)' = UnderWay(p, op) + d
      PROVE  balance'[p] + UnderWay(p, "adjust")' = OpeningBalance + (ledger'[p] - won'[p]) + UnderWay(p, "ledger")'
  <2>1. bn = b /\ en = e
    BY <1>5 DEF store
  <2>2. un = u + d /\ vn = v + d
    BY <1>5 DEF Amounts
  <2>. HIDE DEF b, e, u, v, bn, en, un, vn
  <2>3. bn + un = OpeningBalance + en + vn
    BY <1>2, <1>3, <1>5, <2>1, <2>2
  <2>. QED
    BY <2>3 DEF bn, en, un, vn
<1>6. CASE Puts
  <2>1. PICK q \in Players, s \in Seats, amount \in Nat \ {0}, gift \in Nat : PutBy(q, s, amount, gift)
    BY <1>6 DEF Puts
  <2>. DEFINE d == Told(q, p, gift - amount)
  <2>2. d \in Int /\ \A op \in Amounts : UnderWay(p, op)' = UnderWay(p, op) + d
    BY <2>1 DEF PutBy, Told
  <2>. HIDE DEF d
  <2>. QED
    BY <1>5, <1>6, <2>2 DEF Puts
<1>7. CASE Picks
  <2>1. PICK S \in SUBSET Seats : PickedUp(S)
    BY <1>7 DEF Picks
  <2>. DEFINE d == Sum(Chips(p), S)
  <2>2. d \in Int
    BY ChipsSum
  <2>3. \A op \in Amounts : UnderWay(p, op)' = UnderWay(p, op) + d
    BY <2>1 DEF PickedUp
  <2>. HIDE DEF d
  <2>. QED
    BY <1>5, <1>7, <2>2, <2>3 DEF Picks
<1>8. CASE Plays
  <2>1. \A op \in Amounts : UnderWay(p, op)' = UnderWay(p, op) + 0
    BY <1>2, <1>8 DEF Plays, Amounts
  <2>2. UNCHANGED store /\ 0 \in Int
    BY <1>8 DEF Plays
  <2>. QED
    BY <1>5, <2>1, <2>2
<1>. QED
  BY <1>4, <1>6, <1>7, <1>8, StepsAre

\* Hands apart, the ledger explains every balance, however the writes of the
\* handlers and of the hands' ends fall.
THEOREM LedgerIsRight == Spec => []LedgerExplains
<1>1. Init => IInv
  <2>. SUFFICES ASSUME Init PROVE IInv
    OBVIOUS
  <2>1. \A p \in Players : /\ balance[p] = OpeningBalance /\ ledger[p] = 0 /\ won[p] = 0
                           /\ UnderWay(p, "adjust") = 0 /\ UnderWay(p, "ledger") = 0
    BY InitIsSound
  <2>2. LedgerExplains
    BY <2>1, MoneyAssumption DEF LedgerExplains
  <2>. QED
    BY <2>2, InitIsSound DEF IInv
<1>2. IInv /\ [Next]_vars => IInv'
  <2>. SUFFICES ASSUME IInv, [Next]_vars PROVE IInv'
    OBVIOUS
  <2>1. Sound'
    BY StepsAre DEF IInv, Settles, Puts, Picks, Plays
  <2>2. LedgerExplains'
    BY LedgerStays DEF IInv
  <2>. QED
    BY <2>1, <2>2 DEF IInv
<1>3. IInv => LedgerExplains
  BY DEF IInv
<1>. QED
  BY <1>1, <1>2, <1>3, PTL DEF Spec

-----------------------------------------------------------------------------
\* The bank: what a player owns is their balance and what is under way to it.
Purses == [p \in Players |-> balance[p] + UnderWay(p, "adjust")]

\* The sum that Bank brings in is TableMoney's.
LEMMA SameSum == \A f, S : B!SumFunctionOnSet(f, S) = Sum(f, S)
BY DEF B!SumFunctionOnSet, B!FoldFunctionOnSet, B!MapThenFoldSet,
       Sum, SumFunctionOnSet, FoldFunctionOnSet, MapThenFoldSet

LEMMA PursesAre ==
  ASSUME Sound, Sound'
  PROVE  /\ Purses = [p \in Players |-> Purses[p]] /\ Purses' = [p \in Players |-> Purses'[p]]
         /\ \A p \in Players : /\ Purses[p] = balance[p] + UnderWay(p, "adjust") /\ Purses[p] \in Int
                               /\ Purses'[p] = balance'[p] + UnderWay(p, "adjust")'
<1>1. \A p \in Players : balance[p] \in Int /\ UnderWay(p, "adjust") \in Int
  BY SoundParts
<1>. QED
  BY <1>1 DEF Purses

LEMMA SettlesStutters ==
  ASSUME Sound, Settles
  PROVE  Purses' = Purses /\ UNCHANGED <<holder, stack>>
<1>1. Sound' /\ \A p \in Players : Purses'[p] = Purses[p]
  BY PursesAre DEF Settles
<1>. QED
  BY <1>1, PursesAre DEF Settles, table

LEMMA PutsPutsDown ==
  ASSUME Sound, Puts
  PROVE  B!PutDown
<1>1. PICK p \in Players, s \in Seats, amount \in Nat \ {0}, gift \in Nat : PutBy(p, s, amount, gift)
  BY DEF Puts
<1>. DEFINE d == gift - amount
<1>2. /\ holder[s] \in {Nobody, p} /\ holder' = [holder EXCEPT ![s] = p]
      /\ stack' = [stack EXCEPT ![s] = @ + amount]
      /\ \A q \in Players : UnderWay(q, "adjust")' = UnderWay(q, "adjust") + Told(p, q, d)
  BY <1>1 DEF PutBy, Amounts
<1>3. stack \in [Seats -> Nat]
  BY DEF Sound, TableIsSound
<1>4. stack'[s] = stack[s] + amount /\ stack' = [stack EXCEPT ![s] = stack'[s]] /\ stack'[s] > stack[s]
  BY <1>2, <1>3
<1>5. d \in Int /\ d >= -(stack'[s] - stack[s])
  BY <1>3, <1>4
<1>. HIDE DEF d
<1>6. Sound' /\ \A q \in Players : balance'[q] = balance[q] /\ balance[q] \in Int /\ UnderWay(q, "adjust") \in Int
  BY SoundParts DEF Puts, store
<1>7. \A q \in Players : Purses'[q] = Purses[q] + Told(p, q, d)
  BY <1>2, <1>5, <1>6, PursesAre DEF Told
<1>8. Purses'[p] = Purses[p] + d /\ \A q \in Players \ {p} : Purses'[q] = Purses[q]
  BY <1>6, <1>7, PursesAre DEF Told
<1>9. Purses'[p] >= Purses[p] - (stack'[s] - stack[s])
  <2>1. Purses[p] \in Int /\ stack'[s] \in Int /\ stack[s] \in Int
    BY <1>3, <1>4, <1>6, PursesAre
  <2>. QED
    BY <1>5, <1>8, <2>1
<1>10. Purses' = [Purses EXCEPT ![p] = Purses'[p]]
  BY <1>6, <1>8, PursesAre
<1>. QED
  BY <1>2, <1>4, <1>9, <1>10 DEF B!PutDown, Purses

LEMMA PicksPicksUp ==
  ASSUME Sound, Picks
  PROVE  B!PickUp
<1>1. PICK S \in SUBSET Seats : PickedUp(S)
  BY DEF Picks
<1>2. /\ \A s \in S : holder[s] # Nobody
      /\ holder' = [s \in Seats |-> IF s \in S THEN Nobody ELSE holder[s]]
      /\ stack' = [s \in Seats |-> IF s \in S THEN 0 ELSE stack[s]]
      /\ \A q \in Players : UnderWay(q, "adjust")' = UnderWay(q, "adjust") + Sum(Chips(q), S)
  BY <1>1 DEF PickedUp, Vacated, Amounts
<1>3. Sound' /\ \A q \in Players : balance'[q] = balance[q] /\ balance[q] \in Int /\ UnderWay(q, "adjust") \in Int
  BY SoundParts DEF Picks, store
<1>4. \A q \in Players : Sum(Chips(q), S) \in Int /\ Sum(stack, {s \in S : holder[s] = q}) = Sum(Chips(q), S)
  BY ChipsSum
<1>5. \A q \in Players : Purses'[q] = Purses[q] + Sum(Chips(q), S)
  <2>. SUFFICES ASSUME NEW q \in Players PROVE Purses'[q] = Purses[q] + Sum(Chips(q), S)
    OBVIOUS
  <2>. DEFINE c == Sum(Chips(q), S)
              u == UnderWay(q, "adjust")
              b == balance[q]
  <2>1. Purses'[q] = b + (u + c) /\ Purses[q] = b + u
    BY <1>2, <1>3, PursesAre
  <2>2. c \in Int /\ u \in Int /\ b \in Int
    BY <1>3, <1>4
  <2>. HIDE DEF c, u, b
  <2>3. Purses'[q] = Purses[q] + c
    BY <2>1, <2>2
  <2>. QED
    BY <2>3 DEF c
<1>6. Purses' = [q \in Players |-> Purses[q] + B!SumFunctionOnSet(stack, {s \in S : holder[s] = q})]
  <2>1. \A q \in Players : Purses'[q] = Purses[q] + B!SumFunctionOnSet(stack, {s \in S : holder[s] = q})
    BY <1>4, <1>5, SameSum
  <2>. QED
    BY <1>3, <2>1, PursesAre
<1>. QED
  BY <1>2, <1>6 DEF B!PickUp, Purses

LEMMA PlaysPlay ==
  ASSUME Sound, Plays
  PROVE  B!Play
<1>1. UNCHANGED <<balance, holder>> /\ \A q \in Players : UnderWay(q, "adjust")' = UnderWay(q, "adjust")
  BY DEF Plays, PlayHand, store, Amounts
<1>2. Sound'
  BY DEF Plays
<1>3. Purses' = Purses
  <2>1. \A q \in Players : Purses'[q] = Purses[q]
    BY <1>1, <1>2, PursesAre
  <2>. QED
    BY <1>2, <2>1, PursesAre
<1>4. PICK h \in Handlers : PlayHand(h)
  BY DEF Plays
<1>5. PICK a \in Seats, b \in Seats, n \in Nat : MovedBy(h, a, b, n)
  BY <1>4, HandMoves
<1>6. a # b /\ stack' = [stack EXCEPT ![a] = @ - n, ![b] = @ + n]
  BY <1>5 DEF MovedBy
<1>7. /\ stack \in [Seats -> Nat] /\ stack' \in [Seats -> Nat]
      /\ \A s \in Seats : holder[s] = Nobody => stack'[s] = 0
  BY <1>1, <1>2 DEF Sound, TableIsSound
<1>8. Sum(stack', Seats) = Sum(stack, Seats)
  <2>. DEFINE f == stack
              g == stack'
  <2>1. /\ \A x \in Seats : f[x] \in Int /\ g[x] \in Int
        /\ \A x \in Seats \ {a, b} : g[x] = f[x]
        /\ g[a] = f[a] - n /\ g[b] = f[b] + n
    BY <1>6, <1>7
  <2>2. IsFiniteSet(Seats)
    BY SeatsFinite
  <2>. HIDE DEF f, g
  <2>3. Sum(g, Seats) = Sum(f, Seats) + (g[a] - f[a]) + (g[b] - f[b]) /\ Sum(f, Seats) \in Int
    BY <1>6, <2>1, <2>2, SumChangesAtTwo, SumIsInt
  <2>4. Sum(g, Seats) = Sum(f, Seats)
    BY <2>1, <2>3
  <2>. QED
    BY <2>4 DEF f, g
<1>. QED
  BY <1>1, <1>3, <1>7, <1>8, SameSum DEF B!Play, Purses

\* The handlers, however they interleave, do what the bank promises.
THEOREM TableKeepsBank == Spec => ImplementsBank
<1>1. Init => B!Init
  <2>. SUFFICES ASSUME Init PROVE B!Init
    OBVIOUS
  <2>1. \A p \in Players : balance[p] + UnderWay(p, "adjust") \in Nat
    BY InitIsSound, MoneyAssumption
  <2>. QED
    BY <2>1 DEF B!Init, Init
<1>2. Init => Sound
  BY InitIsSound
<1>3. Sound /\ [Next]_vars => Sound' /\ [B!Next]_(B!bank)
  <2>. SUFFICES ASSUME Sound, [Next]_vars PROVE Sound' /\ [B!Next]_(B!bank)
    OBVIOUS
  <2>1. Sound'
    BY StepsAre DEF Settles, Puts, Picks, Plays
  <2>2. CASE Settles
    BY <2>1, <2>2, SettlesStutters DEF B!bank, Purses
  <2>3. CASE Puts
    BY <2>1, <2>3, PutsPutsDown DEF B!Next
  <2>4. CASE Picks
    BY <2>1, <2>4, PicksPicksUp DEF B!Next
  <2>5. CASE Plays
    BY <2>1, <2>5, PlaysPlay DEF B!Next
  <2>. QED
    BY <2>2, <2>3, <2>4, <2>5, StepsAre
<1>. QED
  BY <1>1, <1>2, <1>3, PTL DEF Spec, ImplementsBank, B!Spec
=============================================================================

---------------------------- MODULE EngineProofs ----------------------------
(***************************************************************************)
(* Theorems about Engine, for tables of any size, any blinds and ante,     *)
(* any stacks and any number of hands.                                     *)
(*                                                                         *)
(* The engine works on drafts and its public calls end in `advance`, so    *)
(* the proof follows the drafts: a decision, or the deal, leaves a draft   *)
(* that is InPlay; the loop takes it through drafts that are OnPath; and   *)
(* what the engine returns is either a table at rest, with somebody asked, *)
(* or the last of those drafts paid off.                                   *)
(*                                                                         *)
(* First come the helpers of Ring and Pots: the way round the table is an  *)
(* order, pots and shares are amounts of chips, the pots hold every chip   *)
(* staked, the shares of a pot add up to it, and the loop of buildPots     *)
(* makes the pots of the formula.  Last come the theorems about Rotation,  *)
(* the blinds over a session of hands.                                     *)
(***************************************************************************)
EXTENDS Engine, Rotation, TLAPS, WellFoundedInduction, FiniteSetTheorems

\* A set of natural numbers that is not empty has a least element.
LEMMA LeastExists ==
  ASSUME NEW T \in SUBSET Nat, T # {}
  PROVE  \E k \in T : \A j \in T : k <= j
<1>. DEFINE R == {ss \in Nat \X Nat : ss[1] < ss[2]}
<1>1. IsWellFoundedOn(R, Nat)
  BY NatLessThanWellFounded, Zenon DEF OpToRel
<1>2. \E x \in T : \A y \in T : ~(<<y, x>> \in R)
  <2>. HIDE DEF R
  <2>. QED  BY <1>1, WFMin
<1>3. \A x, y \in Nat : y < x => <<y, x>> \in R
  OBVIOUS
<1>4. \A x, y \in Nat : y < x \/ x <= y
  OBVIOUS
<1>. HIDE DEF R
<1>. QED
  BY <1>2, <1>3, <1>4

\* The smallest value f takes on S.
LEMMA SmallestExists ==
  ASSUME NEW S, S # {}, NEW f \in [S -> Nat]
  PROVE  \E s \in S : \A q \in S : f[s] <= f[q]
<1>. DEFINE T == {f[s] : s \in S}
<1>1. PICK k \in T : \A j \in T : k <= j
  BY LeastExists
<1>2. PICK s \in S : f[s] = k
  BY <1>1
<1>3. \A q \in S : f[q] \in T
  OBVIOUS
<1>. QED
  BY <1>1, <1>2, <1>3

\* A set of natural numbers with an upper bound has a greatest element.
LEMMA GreatestExists ==
  ASSUME NEW T \in SUBSET Nat, T # {}, NEW m \in Nat, \A k \in T : k <= m
  PROVE  \E k \in T : \A j \in T : j <= k
<1>. DEFINE f == [k \in T |-> m - k]
<1>1. f \in [T -> Nat]
  OBVIOUS
<1>2. \E k \in T : \A j \in T : f[k] <= f[j]
  <2>. HIDE DEF f
  <2>. QED  BY <1>1, SmallestExists
<1>. QED
  BY <1>2

LEMMA SeatsType == Seats \subseteq 0 .. 8 /\ Seats \subseteq Nat
  BY MaxSeatsAssumption DEF Seats

LEMMA SeatsFinite ==
  ASSUME NEW S \in SUBSET Seats
  PROVE  IsFiniteSet(S) /\ Cardinality(S) \in Nat
<1>1. IsFiniteSet(Seats)
  BY FS_Interval, MaxSeatsAssumption DEF Seats
<1>. QED
  BY <1>1, FS_Subset, FS_CardinalityType

LEMMA DistanceType ==
  ASSUME NEW s \in Seats, NEW q \in Seats
  PROVE  Distance(s, q) \in Nat
  BY MaxSeatsAssumption DEF Seats, Distance

LEMMA FirstOfType ==
  ASSUME NEW R \in SUBSET Seats, R # {}
  PROVE  FirstOf(R) \in R
<1>1. \E q \in R : \A p \in R : q <= p
  BY LeastExists, SeatsType
<1>. QED
  BY <1>1 DEF FirstOf

\* A sum of natural numbers is one, and no less than any of its terms.
LEMMA SeatSumNat ==
  ASSUME NEW f \in [Seats -> Nat]
  PROVE  SeatSum(f) \in Nat /\ \A s \in Seats : f[s] <= SeatSum(f)
<1>. DEFINE At(i) == IF i \in Seats THEN f[i] ELSE 0
<1>1. \A i \in 0 .. 8 : At(i) \in Nat
  OBVIOUS
<1>2. SeatSum(f) = At(0) + At(1) + At(2) + At(3) + At(4) + At(5) + At(6) + At(7) + At(8)
  BY DEF SeatSum
<1>3. \A s \in Seats : f[s] = At(s) /\ s \in 0 .. 8
  BY SeatsType
<1>. HIDE DEF At
<1>4. \A i \in 0 .. 8 : At(i) <= SeatSum(f)
  BY <1>1, <1>2
<1>. QED
  BY <1>1, <1>2, <1>3, <1>4

-----------------------------------------------------------------------------
(* The way round the table.                                                *)

LEMMA DistanceCases ==
  ASSUME NEW s \in Seats, NEW q \in Seats
  PROVE  /\ q > s => Distance(s, q) = q - s - 1
         /\ q <= s => Distance(s, q) = q - s - 1 + MaxSeats
  BY MaxSeatsAssumption DEF Distance, Seats

\* Seen from b, what lies between b and x is nearer than x.
LEMMA Between ==
  ASSUME NEW a \in Seats, NEW b \in Seats, NEW q \in Seats, NEW x \in Seats,
         Distance(a, b) <= Distance(a, q), Distance(a, q) < Distance(a, x), q # b
  PROVE  Distance(b, q) < Distance(b, x)
<1>1. /\ Distance(a, b) = IF b > a THEN b - a - 1 ELSE b - a - 1 + MaxSeats
      /\ Distance(a, q) = IF q > a THEN q - a - 1 ELSE q - a - 1 + MaxSeats
      /\ Distance(a, x) = IF x > a THEN x - a - 1 ELSE x - a - 1 + MaxSeats
  BY DistanceCases, MaxSeatsAssumption DEF Seats
<1>2. /\ Distance(b, q) = IF q > b THEN q - b - 1 ELSE q - b - 1 + MaxSeats
      /\ Distance(b, x) = IF x > b THEN x - b - 1 ELSE x - b - 1 + MaxSeats
  BY DistanceCases, MaxSeatsAssumption DEF Seats
<1>. QED
  BY <1>1, <1>2, MaxSeatsAssumption DEF Seats

LEMMA NextInRingNearest ==
  ASSUME NEW R \in SUBSET Seats, R # {}, NEW s \in Seats
  PROVE  /\ NextInRing(R, s) \in R
         /\ \A q \in R : Distance(s, NextInRing(R, s)) <= Distance(s, q)
<1>. DEFINE f == [q \in R |-> Distance(s, q)]
<1>1. f \in [R -> Nat]
  BY DistanceType
<1>2. \E q \in R : \A p \in R : f[q] <= f[p]
  BY <1>1, SmallestExists
<1>. QED
  BY <1>2 DEF NextInRing

LEMMA PrevInRingNearest ==
  ASSUME NEW R \in SUBSET Seats, R # {}, NEW s \in Seats
  PROVE  /\ PrevInRing(R, s) \in R
         /\ \A q \in R : Distance(PrevInRing(R, s), s) <= Distance(q, s)
<1>. DEFINE f == [q \in R |-> Distance(q, s)]
<1>1. f \in [R -> Nat]
  BY DistanceType
<1>2. \E q \in R : \A p \in R : f[q] <= f[p]
  BY <1>1, SmallestExists
<1>. QED
  BY <1>2 DEF PrevInRing

\* Walking a ring that is not empty ends on the ring.
LEMMA NextInRingType ==
  ASSUME NEW R \in SUBSET Seats, R # {}, NEW s \in Seats
  PROVE  NextInRing(R, s) \in R
  BY NextInRingNearest

LEMMA PrevInRingType ==
  ASSUME NEW R \in SUBSET Seats, R # {}, NEW s \in Seats
  PROVE  PrevInRing(R, s) \in R
  BY PrevInRingNearest

\* Going round from a seat, the seat itself comes last, and every other seat
\* before it.
LEMMA SelfIsLast ==
  ASSUME NEW s \in Seats, NEW q \in Seats
  PROVE  Distance(s, q) <= Distance(s, s) /\ (q # s => Distance(s, q) < Distance(s, s))
  BY DistanceCases, MaxSeatsAssumption DEF Seats

LEMMA DistanceInjective ==
  ASSUME NEW s \in Seats, NEW q \in Seats, NEW r \in Seats, Distance(s, q) = Distance(s, r)
  PROVE  q = r
  BY DistanceCases, MaxSeatsAssumption DEF Seats

\* What comes no later than x seen from a comes no later than x seen from the
\* first stop b on the way.
LEMMA StepOn ==
  ASSUME NEW a \in Seats, NEW b \in Seats, NEW q \in Seats, NEW x \in Seats,
         Distance(a, b) <= Distance(a, q), Distance(a, q) <= Distance(a, x), q # b
  PROVE  Distance(b, q) <= Distance(b, x)
<1>1. CASE q = x
  BY <1>1, DistanceType
<1>2. CASE q # x
  <2>1. Distance(a, q) < Distance(a, x)
    BY <1>2, DistanceInjective, DistanceType
  <2>. QED
    BY <2>1, Between, DistanceType
<1>. QED
  BY <1>1, <1>2

\* Of the other seats of a ring, the one before s is the last to be reached
\* from s.
LEMMA PrevIsReachedLast ==
  ASSUME NEW R \in SUBSET Seats, NEW s \in R, NEW p \in R, p # s, p = PrevInRing(R, s),
         NEW q \in R, q # s
  PROVE  Distance(s, q) <= Distance(s, p)
<1>1. Distance(p, s) <= Distance(q, s)
  BY PrevInRingNearest
<1>. QED
  BY <1>1, DistanceCases, MaxSeatsAssumption DEF Seats

\* On a ring of two or more, a seat's neighbours are other seats.
LEMMA NeighbourIsAnother ==
  ASSUME NEW R \in SUBSET Seats, AtLeastTwo(R), NEW s \in R
  PROVE  NextInRing(R, s) # s /\ PrevInRing(R, s) # s
<1>1. PICK q \in R : q # s
  BY DEF AtLeastTwo
<1>2. /\ Distance(s, q) < Distance(s, s) /\ Distance(q, s) < Distance(s, s)
      /\ Distance(s, q) \in Nat /\ Distance(q, s) \in Nat /\ Distance(s, s) \in Nat
  <2>1. q \in Seats /\ s \in Seats /\ q # s
    BY <1>1
  <2>2. /\ Distance(s, q) = IF q > s THEN q - s - 1 ELSE q - s - 1 + MaxSeats
        /\ Distance(q, s) = IF s > q THEN s - q - 1 ELSE s - q - 1 + MaxSeats
        /\ Distance(s, s) = s - s - 1 + MaxSeats
    BY <2>1, DistanceCases, MaxSeatsAssumption DEF Seats
  <2>. QED
    BY <2>1, <2>2, MaxSeatsAssumption DEF Seats
<1>3. /\ Distance(s, NextInRing(R, s)) <= Distance(s, q)
      /\ Distance(PrevInRing(R, s), s) <= Distance(q, s)
  BY <1>1, NextInRingNearest, PrevInRingNearest
<1>. QED
  BY <1>2, <1>3

\* A ring of two seats.
LEMMA TwoSeats ==
  ASSUME NEW R \in SUBSET Seats, Cardinality(R) = 2, NEW s \in R, NEW q \in R, q # s
  PROVE  R = {s, q}
<1>1. IsFiniteSet(R) /\ IsFiniteSet(R \ {s}) /\ Cardinality(R \ {s}) = 1
  BY SeatsFinite, FS_RemoveElement
<1>2. PICK x : R \ {s} = {x}
  BY <1>1, FS_Singleton
<1>. QED
  BY <1>2

-----------------------------------------------------------------------------
(* Pots.                                                                   *)

LEMMA HighestType ==
  ASSUME NEW T \in SUBSET Nat, T # {}, NEW m \in Nat, \A k \in T : k <= m
  PROVE  Highest(T) \in T /\ \A j \in T : j <= Highest(T)
<1>1. \E k \in T : \A j \in T : j <= k
  BY GreatestExists
<1>. QED
  BY <1>1 DEF Highest

LEMMA LevelsType ==
  ASSUME NEW c \in [Seats -> Nat]
  PROVE  /\ Levels(c) \in SUBSET Nat
         /\ \A k \in Levels(c) : k > 0 /\ k <= SeatSum(c)
         /\ SeatSum(c) \in Nat
  BY SeatSumNat DEF Levels, Contributors

LEMMA LevelBelowType ==
  ASSUME NEW c \in [Seats -> Nat], NEW level \in Levels(c)
  PROVE  LevelBelow(c, level) \in Nat /\ LevelBelow(c, level) < level
<1>. DEFINE T == {0} \cup {k \in Levels(c) : k < level}
<1>1. T \in SUBSET Nat /\ T # {} /\ level \in Nat /\ \A k \in T : k < level
  BY LevelsType
<1>2. \A k \in T : k <= level
  BY <1>1
<1>3. Highest(T) \in T
  <2>. HIDE DEF T
  <2>. QED  BY <1>1, <1>2, HighestType
<1>. QED
  BY <1>1, <1>3 DEF LevelBelow

LEMMA TopOfPotType ==
  ASSUME NEW c \in [Seats -> Nat], NEW live, NEW level \in Levels(c)
  PROVE  TopOfPot(c, live, level) \in Nat /\ level <= TopOfPot(c, live, level)
<1>1. Levels(c) \in SUBSET Nat /\ Levels(c) # {} /\ SeatSum(c) \in Nat
        /\ \A k \in Levels(c) : k <= SeatSum(c)
  BY LevelsType
<1>2. Highest(Levels(c)) \in Levels(c) /\ \A j \in Levels(c) : j <= Highest(Levels(c))
  BY <1>1, HighestType
<1>. QED
  BY <1>1, <1>2 DEF TopOfPot

LEMMA PotAmountNat ==
  ASSUME NEW c \in [Seats -> Nat], NEW live, NEW ante \in Nat, NEW level \in Levels(c)
  PROVE  PotAmount(c, live, ante, level) \in Nat
<1>. DEFINE top   == TopOfPot(c, live, level)
            below == LevelBelow(c, level)
            layer == [s \in Seats |-> Smaller(c[s], top) - Smaller(c[s], below)]
<1>1. top \in Nat /\ below \in Nat /\ below <= top
  BY TopOfPotType, LevelBelowType, LevelsType
<1>2. layer \in [Seats -> Nat]
  <2>. HIDE DEF top, below
  <2>. QED  BY <1>1 DEF Smaller
<1>3. SeatSum(layer) \in Nat
  <2>. HIDE DEF layer
  <2>. QED  BY <1>2, SeatSumNat
<1>. QED
  BY <1>3 DEF PotAmount

LEMMA ShareOfNat ==
  ASSUME NEW amount \in Nat, NEW W \in SUBSET Seats, NEW button, NEW s
  PROVE  ShareOf(amount, W, button, s) \in Nat
<1>1. CASE s \notin W
  BY <1>1 DEF ShareOf
<1>2. CASE s \in W
  <2>1. Cardinality(W) \in Nat /\ Cardinality(W) # 0
    BY <1>2, SeatsFinite, FS_EmptySet
  <2>2. amount \div Cardinality(W) \in Nat
    BY <2>1
  <2>. QED
    BY <1>2, <2>2 DEF ShareOf
<1>. QED
  BY <1>1, <1>2

LEMMA SecondHighestType ==
  ASSUME NEW c \in [Seats -> Nat]
  PROVE  /\ SecondHighest(c) \in Nat
         /\ \A s \in Contributors(c) \ {TopContributor(c)} : c[s] <= SecondHighest(c)
<1>. DEFINE T == {0} \cup {c[s] : s \in Contributors(c) \ {TopContributor(c)}}
<1>1. T \in SUBSET Nat /\ T # {} /\ SeatSum(c) \in Nat /\ \A k \in T : k <= SeatSum(c)
  BY SeatSumNat DEF Contributors
<1>2. Highest(T) \in T /\ \A k \in T : k <= Highest(T)
  <2>. HIDE DEF T
  <2>. QED  BY <1>1, HighestType
<1>3. SecondHighest(c) = Highest(T)
  BY DEF SecondHighest
<1>. HIDE DEF SecondHighest
<1>. QED
  BY <1>1, <1>2, <1>3

LEMMA TopContributorType ==
  ASSUME NEW c \in [Seats -> Nat], Contributors(c) # {}
  PROVE  /\ TopContributor(c) \in Contributors(c)
         /\ \A q \in Seats : c[q] <= c[TopContributor(c)]
<1>. DEFINE T == {s \in Contributors(c) : \A q \in Contributors(c) : c[q] <= c[s]}
<1>1. \E k \in Levels(c) : \A j \in Levels(c) : j <= k
  BY LevelsType, GreatestExists DEF Levels
<1>2. T # {} /\ T \in SUBSET Seats
  BY <1>1 DEF Levels, Contributors
<1>3. FirstOf(T) \in T
  <2>. HIDE DEF T
  <2>. QED  BY <1>2, FirstOfType
<1>. QED
  BY <1>3 DEF TopContributor, Contributors

\* A refund is never more than the seat put in.
LEMMA UncalledExcessType ==
  ASSUME NEW c \in [Seats -> Nat], NEW live
  PROVE  /\ UncalledExcess(c, live) \in Int
         /\ UncalledExcess(c, live) > 0 =>
              /\ TopContributor(c) \in Seats
              /\ UncalledExcess(c, live) <= c[TopContributor(c)]
<1>1. CASE AtLeastTwo(Contributors(c))
  <2>1. TopContributor(c) \in Seats
    BY <1>1, TopContributorType DEF AtLeastTwo, Contributors
  <2>. QED
    BY <2>1, SecondHighestType DEF UncalledExcess
<1>2. CASE ~AtLeastTwo(Contributors(c))
  BY <1>2 DEF UncalledExcess
<1>. QED
  BY <1>1, <1>2

-----------------------------------------------------------------------------
(* Sums over the chairs.                                                   *)

\* A sum of whole numbers is one.
LEMMA SeatSumInt ==
  ASSUME NEW f \in [Seats -> Int]
  PROVE  SeatSum(f) \in Int
<1>. DEFINE At(i) == IF i \in Seats THEN f[i] ELSE 0
<1>1. \A i \in 0 .. 8 : At(i) \in Int
  OBVIOUS
<1>2. SeatSum(f) = At(0) + At(1) + At(2) + At(3) + At(4) + At(5) + At(6) + At(7) + At(8)
  BY DEF SeatSum
<1>. HIDE DEF At
<1>. QED
  BY <1>1, <1>2

\* Sums are added seat by seat.
LEMMA SeatSumAdds ==
  ASSUME NEW f \in [Seats -> Int], NEW g \in [Seats -> Int], NEW h \in [Seats -> Int],
         \A s \in Seats : h[s] = f[s] + g[s]
  PROVE  SeatSum(h) = SeatSum(f) + SeatSum(g)
<1>. DEFINE F(i) == IF i \in Seats THEN f[i] ELSE 0
            G(i) == IF i \in Seats THEN g[i] ELSE 0
            H(i) == IF i \in Seats THEN h[i] ELSE 0
<1>1. \A i \in 0 .. 8 : F(i) \in Int /\ G(i) \in Int /\ H(i) = F(i) + G(i)
  OBVIOUS
<1>2. /\ SeatSum(f) = F(0) + F(1) + F(2) + F(3) + F(4) + F(5) + F(6) + F(7) + F(8)
      /\ SeatSum(g) = G(0) + G(1) + G(2) + G(3) + G(4) + G(5) + G(6) + G(7) + G(8)
      /\ SeatSum(h) = H(0) + H(1) + H(2) + H(3) + H(4) + H(5) + H(6) + H(7) + H(8)
  BY DEF SeatSum
<1>. HIDE DEF F, G, H
<1>. QED
  BY <1>1, <1>2

\* A sum with one term.
LEMMA SeatSumOne ==
  ASSUME NEW f \in [Seats -> Int], NEW s \in Seats, \A q \in Seats \ {s} : f[q] = 0
  PROVE  SeatSum(f) = f[s]
<1>. DEFINE F(i) == IF i \in Seats THEN f[i] ELSE 0
<1>1. s \in 0 .. 8 /\ f[s] \in Int
  BY SeatsType
<1>2. \A i \in 0 .. 8 : F(i) = IF i = s THEN f[s] ELSE 0
  OBVIOUS
<1>3. SeatSum(f) = F(0) + F(1) + F(2) + F(3) + F(4) + F(5) + F(6) + F(7) + F(8)
  BY DEF SeatSum
<1>. HIDE DEF F
<1>. QED
  BY <1>1, <1>2, <1>3

LEMMA SeatSumMonotone ==
  ASSUME NEW f \in [Seats -> Int], NEW g \in [Seats -> Int], \A s \in Seats : f[s] <= g[s]
  PROVE  SeatSum(f) <= SeatSum(g)
<1>. DEFINE F(i) == IF i \in Seats THEN f[i] ELSE 0
            G(i) == IF i \in Seats THEN g[i] ELSE 0
<1>1. \A i \in 0 .. 8 : F(i) \in Int /\ G(i) \in Int /\ F(i) <= G(i)
  OBVIOUS
<1>2. /\ SeatSum(f) = F(0) + F(1) + F(2) + F(3) + F(4) + F(5) + F(6) + F(7) + F(8)
      /\ SeatSum(g) = G(0) + G(1) + G(2) + G(3) + G(4) + G(5) + G(6) + G(7) + G(8)
  BY DEF SeatSum
<1>. HIDE DEF F, G
<1>. QED
  BY <1>1, <1>2

\* A sum over the chairs of sums over the chairs may be taken in either order.
LEMMA SeatSumSwap ==
  ASSUME NEW M \in [Seats -> [Seats -> Int]]
  PROVE  SeatSum([s \in Seats |-> SeatSum([i \in Seats |-> M[s][i]])])
           = SeatSum([i \in Seats |-> SeatSum([s \in Seats |-> M[s][i]])])
<1>. DEFINE A(s, i) == IF s \in Seats /\ i \in Seats THEN M[s][i] ELSE 0
            Row(s) == A(s, 0) + A(s, 1) + A(s, 2) + A(s, 3) + A(s, 4) + A(s, 5) + A(s, 6)
                        + A(s, 7) + A(s, 8)
            Col(i) == A(0, i) + A(1, i) + A(2, i) + A(3, i) + A(4, i) + A(5, i) + A(6, i)
                        + A(7, i) + A(8, i)
<1>1. \A s, i \in 0 .. 8 : A(s, i) \in Int
  OBVIOUS
<1>2. \A s \in Seats : SeatSum([i \in Seats |-> M[s][i]]) = Row(s)
  BY DEF SeatSum
<1>3. \A i \in Seats : SeatSum([s \in Seats |-> M[s][i]]) = Col(i)
  BY DEF SeatSum
<1>4. \A s \in (0 .. 8) \ Seats : Row(s) = 0 /\ Col(s) = 0
  OBVIOUS
<1>. HIDE DEF A
<1>5. SeatSum([s \in Seats |-> SeatSum([i \in Seats |-> M[s][i]])])
        = Row(0) + Row(1) + Row(2) + Row(3) + Row(4) + Row(5) + Row(6) + Row(7) + Row(8)
  <2>. DEFINE f == [s \in Seats |-> SeatSum([i \in Seats |-> M[s][i]])]
              F(i) == IF i \in Seats THEN f[i] ELSE 0
  <2>1. \A s \in 0 .. 8 : F(s) = Row(s)
    <3>. HIDE DEF Row
    <3>. QED  BY <1>2, <1>4
  <2>2. SeatSum(f) = F(0) + F(1) + F(2) + F(3) + F(4) + F(5) + F(6) + F(7) + F(8)
    <3>. HIDE DEF f
    <3>. QED  BY DEF SeatSum
  <2>. HIDE DEF F, Row
  <2>. QED
    BY <2>1, <2>2
<1>6. SeatSum([i \in Seats |-> SeatSum([s \in Seats |-> M[s][i]])])
        = Col(0) + Col(1) + Col(2) + Col(3) + Col(4) + Col(5) + Col(6) + Col(7) + Col(8)
  <2>. DEFINE f == [i \in Seats |-> SeatSum([s \in Seats |-> M[s][i]])]
              F(i) == IF i \in Seats THEN f[i] ELSE 0
  <2>1. \A s \in 0 .. 8 : F(s) = Col(s)
    <3>. HIDE DEF Col
    <3>. QED  BY <1>3, <1>4
  <2>2. SeatSum(f) = F(0) + F(1) + F(2) + F(3) + F(4) + F(5) + F(6) + F(7) + F(8)
    <3>. HIDE DEF f
    <3>. QED  BY DEF SeatSum
  <2>. HIDE DEF F, Col
  <2>. QED
    BY <2>1, <2>2
<1>7. Row(0) + Row(1) + Row(2) + Row(3) + Row(4) + Row(5) + Row(6) + Row(7) + Row(8)
        = Col(0) + Col(1) + Col(2) + Col(3) + Col(4) + Col(5) + Col(6) + Col(7) + Col(8)
  BY <1>1
<1>. HIDE DEF Row, Col
<1>. QED
  BY <1>5, <1>6, <1>7

-----------------------------------------------------------------------------
(* The pots hold what was staked.                                          *)

\* Every level below one that makes a pot makes a pot.
LEMMA PotLevelsDown ==
  ASSUME NEW c \in [Seats -> Nat], NEW live, NEW v \in PotLevels(c, live),
         NEW k \in Levels(c), k <= v
  PROVE  k \in PotLevels(c, live)
<1>1. v \in Nat /\ k \in Nat
  BY LevelsType DEF PotLevels
<1>2. PICK s \in Eligible(c, live, v) : TRUE
  BY DEF PotLevels
<1>3. s \in Eligible(c, live, k)
  BY <1>1, <1>2 DEF Eligible, Contributors
<1>. QED
  BY <1>3 DEF PotLevels

\* The pots up to level v, each at the first seat that staked its level.
PotsUpTo(c, live, ante, v) ==
  [s \in Seats |->
     IF /\ c[s] \in PotLevels(c, live) /\ c[s] <= v
        /\ \A q \in Seats : c[q] = c[s] => s <= q
     THEN PotAmount(c, live, ante, c[s])
     ELSE 0]

\* What the seats staked, up to x.
CappedAt(c, x) == [s \in Seats |-> Smaller(c[s], x)]

\* The pots up to a level hold what every seat staked up to the top of that
\* pot, and the ante.
LEMMA PotsFill ==
  ASSUME NEW c \in [Seats -> Nat], NEW live, NEW ante \in Nat, NEW l \in PotLevels(c, live)
  PROVE  SeatSum(PotsUpTo(c, live, ante, l))
           = SeatSum(CappedAt(c, TopOfPot(c, live, l))) + ante
<1>. DEFINE P(v) == SeatSum(PotsUpTo(c, live, ante, v))
                      = SeatSum(CappedAt(c, TopOfPot(c, live, v))) + ante
            T == {v \in PotLevels(c, live) : ~P(v)}
<1>1. /\ PotLevels(c, live) \in SUBSET Levels(c) /\ Levels(c) \in SUBSET Nat
      /\ \A k \in Levels(c) : k > 0
  BY LevelsType DEF PotLevels
<1>. SUFFICES ASSUME T # {} PROVE FALSE
  OBVIOUS
<1>2. PICK v \in T : \A k \in T : v <= k
  <2>1. T \in SUBSET Nat
    BY <1>1
  <2>. QED
    BY <2>1, LeastExists
<1>3. v \in PotLevels(c, live) /\ v \in Levels(c) /\ v \in Nat /\ v > 0
  BY <1>1, <1>2
<1>. DEFINE p     == LevelBelow(c, v)
            top   == TopOfPot(c, live, v)
            layer == [s \in Seats |-> Smaller(c[s], top) - Smaller(c[s], p)]
            below == \E k \in PotLevels(c, live) : k < v
<1>4. p \in Nat /\ p < v /\ top \in Nat /\ v <= top
  BY <1>3, LevelBelowType, TopOfPotType
<1>5. /\ p = 0 \/ p \in Levels(c)
      /\ \A k \in Levels(c) : k < v => k <= p
  <2>. DEFINE B == {0} \cup {k \in Levels(c) : k < v}
  <2>1. B \in SUBSET Nat /\ B # {} /\ \A k \in B : k <= v
    BY <1>1, <1>3
  <2>2. Highest(B) \in B /\ \A k \in B : k <= Highest(B)
    <3>. HIDE DEF B
    <3>. QED  BY <1>3, <2>1, HighestType
  <2>3. p = Highest(B)
    BY DEF LevelBelow
  <2>. HIDE DEF p
  <2>. QED
    BY <2>2, <2>3
<1>6. PICK a \in Seats : c[a] = v /\ \A q \in Seats : c[q] = v => a <= q
  <2>. DEFINE A == {s \in Seats : c[s] = v}
  <2>1. A # {} /\ A \in SUBSET Nat
    BY <1>3, SeatsType DEF Levels, Contributors
  <2>2. \E a \in A : \A q \in A : a <= q
    <3>. HIDE DEF A
    <3>. QED  BY <2>1, LeastExists
  <2>. QED
    BY <2>2
<1>7. PotAmount(c, live, ante, v) = SeatSum(layer) + (IF below THEN 0 ELSE ante)
  BY DEF PotAmount
<1>8. \A k \in PotLevels(c, live) : PotAmount(c, live, ante, k) \in Nat
  BY <1>1, PotAmountNat
<1>. HIDE DEF p, top
<1>9. layer \in [Seats -> Int]
  BY <1>4 DEF Smaller
<1>. DEFINE f == PotsUpTo(c, live, ante, v)
            g == PotsUpTo(c, live, ante, p)
            e == [s \in Seats |-> IF s = a THEN PotAmount(c, live, ante, v) ELSE 0]
<1>10. f \in [Seats -> Int] /\ g \in [Seats -> Int] /\ e \in [Seats -> Int]
  BY <1>3, <1>8 DEF PotsUpTo
<1>11. SeatSum(e) = PotAmount(c, live, ante, v)
  <2>1. e[a] = PotAmount(c, live, ante, v) /\ \A q \in Seats \ {a} : e[q] = 0
    OBVIOUS
  <2>. HIDE DEF e
  <2>. QED
    BY <1>10, <2>1, SeatSumOne
<1>12. \A s \in Seats : f[s] = g[s] + e[s]
  <2>. SUFFICES ASSUME NEW s \in Seats PROVE f[s] = g[s] + e[s]
    OBVIOUS
  <2>1. CASE s = a
    BY <1>3, <1>4, <1>6, <1>8, <2>1 DEF PotsUpTo
  <2>2. CASE s # a /\ c[s] = v
    <3>1. ~(\A q \in Seats : c[q] = c[s] => s <= q)
      BY <1>6, <2>2, SeatsType
    <3>. QED
      BY <2>2, <3>1 DEF PotsUpTo
  <2>3. CASE c[s] # v
    <3>1. e[s] = 0
      BY <1>6, <2>3
    <3>2. c[s] \in PotLevels(c, live) => (c[s] <= v <=> c[s] <= p)
      BY <1>1, <1>3, <1>4, <1>5, <2>3
    <3>3. f[s] = g[s]
      BY <3>2 DEF PotsUpTo
    <3>. QED
      BY <1>10, <3>1, <3>3
  <2>. QED
    BY <2>1, <2>2, <2>3
<1>13. SeatSum(f) = SeatSum(g) + PotAmount(c, live, ante, v)
  <2>. HIDE DEF f, g, e
  <2>. QED
    BY <1>10, <1>11, <1>12, SeatSumAdds
<1>14. /\ CappedAt(c, top) \in [Seats -> Int] /\ CappedAt(c, p) \in [Seats -> Int]
       /\ \A s \in Seats : CappedAt(c, top)[s] = CappedAt(c, p)[s] + layer[s]
  BY <1>4 DEF CappedAt, Smaller
<1>15. SeatSum(CappedAt(c, top)) = SeatSum(CappedAt(c, p)) + SeatSum(layer)
  <2>. HIDE DEF layer
  <2>. QED
    BY <1>9, <1>14, SeatSumAdds
<1>16. SeatSum(CappedAt(c, p)) \in Int /\ SeatSum(layer) \in Int /\ SeatSum(g) \in Int
  <2>. HIDE DEF layer, g
  <2>. QED
    BY <1>9, <1>10, <1>14, SeatSumInt
<1>17. CASE p = 0
  <2>1. ~below
    BY <1>1, <1>5, <1>17
  <2>2. SeatSum(g) = 0 /\ SeatSum(CappedAt(c, p)) = 0
    <3>1. \A s \in Seats : g[s] = 0 /\ CappedAt(c, p)[s] = 0
      BY <1>1, <1>17 DEF PotsUpTo, CappedAt, Smaller
    <3>2. g[a] = 0 /\ CappedAt(c, p)[a] = 0
      BY <3>1
    <3>. HIDE DEF g
    <3>. QED
      BY <1>10, <1>14, <3>1, <3>2, SeatSumOne
  <2>3. P(v)
    <3>. HIDE DEF g, layer, below
    <3>. QED
      BY <1>7, <1>13, <1>15, <1>16, <2>1, <2>2 DEF top
  <2>. QED
    BY <1>2, <2>3
<1>18. CASE p # 0
  <2>1. p \in PotLevels(c, live)
    BY <1>3, <1>4, <1>5, <1>18, PotLevelsDown
  <2>2. below /\ TopOfPot(c, live, p) = p
    BY <1>3, <1>4, <2>1 DEF TopOfPot
  <2>3. P(p)
    <3>1. p \notin T
      BY <1>2, <1>3, <1>4
    <3>. QED
      BY <2>1, <3>1
  <2>4. P(v)
    <3>1. SeatSum(g) = SeatSum(CappedAt(c, p)) + ante
      BY <2>2, <2>3
    <3>. HIDE DEF g, layer, below
    <3>. QED
      BY <1>7, <1>13, <1>15, <1>16, <2>2, <3>1 DEF top
  <2>. QED
    BY <1>2, <2>4
<1>. QED
  BY <1>17, <1>18

\* With somebody left to win them, the pots hold every chip staked.
LEMMA PotsAreFull ==
  ASSUME NEW c \in [Seats -> Nat], NEW live, NEW ante \in Nat, PotLevels(c, live) # {}
  PROVE  PotsAddUp(c, live, ante)
<1>1. /\ PotLevels(c, live) \in SUBSET Levels(c) /\ Levels(c) \in SUBSET Nat
      /\ SeatSum(c) \in Nat /\ \A k \in Levels(c) : k <= SeatSum(c)
  BY LevelsType DEF PotLevels
<1>. DEFINE h == Highest(PotLevels(c, live))
            m == Highest(Levels(c))
<1>2. h \in PotLevels(c, live) /\ \A k \in PotLevels(c, live) : k <= h
  BY <1>1, HighestType
<1>3. m \in Levels(c) /\ \A k \in Levels(c) : k <= m
  BY <1>1, HighestType
<1>. HIDE DEF h
<1>4. TopOfPot(c, live, h) = m
  BY <1>1, <1>2 DEF TopOfPot
<1>. HIDE DEF m
<1>5. CappedAt(c, m) = c
  <2>1. \A s \in Seats : Smaller(c[s], m) = c[s]
    BY <1>1, <1>3 DEF Levels, Contributors, Smaller
  <2>. QED
    BY <2>1 DEF CappedAt
<1>6. SumOverPots(c, live, LAMBDA level : PotAmount(c, live, ante, level))
        = SeatSum(PotsUpTo(c, live, ante, h))
  <2>1. \A s \in Seats :
          (IF c[s] \in PotLevels(c, live) /\ \A q \in Seats : c[q] = c[s] => s <= q
           THEN PotAmount(c, live, ante, c[s]) ELSE 0) = PotsUpTo(c, live, ante, h)[s]
    BY <1>2 DEF PotsUpTo
  <2>2. [s \in Seats |->
          IF c[s] \in PotLevels(c, live) /\ \A q \in Seats : c[q] = c[s] => s <= q
          THEN PotAmount(c, live, ante, c[s]) ELSE 0] = PotsUpTo(c, live, ante, h)
    BY <2>1 DEF PotsUpTo
  <2>. QED
    BY <2>2 DEF SumOverPots
<1>7. SeatSum(PotsUpTo(c, live, ante, h)) = SeatSum(CappedAt(c, m)) + ante
  BY <1>2, <1>4, PotsFill
<1>. QED
  BY <1>5, <1>6, <1>7 DEF PotsAddUp

-----------------------------------------------------------------------------
(* Shares.                                                                 *)

\* The same for every seat of A.
Each(A, x) == [s \in Seats |-> IF s \in A THEN x ELSE 0]

LEMMA SumOfEach ==
  ASSUME NEW x \in Nat, NEW A \in SUBSET Seats
  PROVE  SeatSum(Each(A, x)) = Cardinality(A) * x
<1>. DEFINE Bad(n) == \E B \in SUBSET Seats : Cardinality(B) = n /\ SeatSum(Each(B, x)) # n * x
            T == {n \in Nat : Bad(n)}
<1>. SUFFICES ASSUME T # {} PROVE FALSE
  <2>1. Cardinality(A) \in Nat
    BY SeatsFinite
  <2>. QED
    BY <2>1
<1>1. PICK n \in T : \A m \in T : n <= m
  BY LeastExists
<1>2. PICK B \in SUBSET Seats : Cardinality(B) = n /\ SeatSum(Each(B, x)) # n * x
  BY <1>1
<1>3. \A D \in SUBSET Seats : Each(D, x) \in [Seats -> Int]
  BY DEF Each
<1>4. CASE B = {}
  <2>1. PICK s \in Seats : TRUE
    <3>1. 0 \in Seats
      BY MaxSeatsAssumption DEF Seats
    <3>. QED
      BY <3>1
  <2>2. \A q \in Seats : Each(B, x)[q] = 0
    BY <1>4 DEF Each
  <2>3. SeatSum(Each(B, x)) = 0
    BY <1>3, <2>1, <2>2, SeatSumOne
  <2>4. n = 0
    BY <1>2, <1>4, FS_EmptySet
  <2>. QED
    BY <1>2, <2>3, <2>4
<1>5. CASE B # {}
  <2>1. PICK a \in B : TRUE
    BY <1>5
  <2>. DEFINE D == B \ {a}
  <2>2. D \in SUBSET Seats /\ a \in Seats /\ n \in Nat
    BY <1>1, <2>1
  <2>3. Cardinality(D) = n - 1 /\ n - 1 \in Nat
    <3>1. IsFiniteSet(B)
      BY SeatsFinite
    <3>2. Cardinality(D) = Cardinality(B) - 1
      BY <2>1, <3>1, FS_RemoveElement
    <3>3. Cardinality(D) \in Nat
      BY <2>2, SeatsFinite
    <3>. QED
      BY <1>2, <3>2, <3>3
  <2>4. SeatSum(Each(D, x)) = (n - 1) * x
    <3>1. ~Bad(n - 1)
      BY <1>1, <2>2, <2>3
    <3>. QED
      BY <2>2, <2>3, <3>1
  <2>5. SeatSum(Each(B, x)) = SeatSum(Each(D, x)) + SeatSum(Each({a}, x))
    <3>1. \A s \in Seats : Each(B, x)[s] = Each(D, x)[s] + Each({a}, x)[s]
      BY <2>1 DEF Each
    <3>2. {a} \in SUBSET Seats
      BY <2>2
    <3>. QED
      BY <1>3, <2>2, <3>1, <3>2, SeatSumAdds
  <2>6. SeatSum(Each({a}, x)) = x
    <3>1. /\ {a} \in SUBSET Seats /\ Each({a}, x)[a] = x
          /\ \A q \in Seats \ {a} : Each({a}, x)[q] = 0
      BY <2>2 DEF Each
    <3>. QED
      BY <1>3, <2>2, <3>1, SeatSumOne
  <2>7. (n - 1) * x + x = n * x
    BY <2>2
  <2>. QED
    BY <1>2, <2>4, <2>5, <2>6, <2>7
<1>. QED
  BY <1>4, <1>5

\* The winners with fewer than r others nearer to the button.
FirstOfWinners(W, button, r) ==
  {s \in W : Cardinality({w \in W : Distance(button, w) < Distance(button, s)}) < r}

\* There are r of them: nobody is as near as another.
LEMMA CountFirst ==
  ASSUME NEW W \in SUBSET Seats, NEW button \in Seats, NEW r \in Nat, r <= Cardinality(W)
  PROVE  Cardinality(FirstOfWinners(W, button, r)) = r
<1>. DEFINE F(n) == FirstOfWinners(W, button, n)
            Nearer(s) == {w \in W : Distance(button, w) < Distance(button, s)}
            T == {n \in Nat : n <= Cardinality(W) /\ Cardinality(F(n)) # n}
<1>. SUFFICES ASSUME T # {} PROVE FALSE
  OBVIOUS
<1>1. PICK n \in T : \A m \in T : n <= m
  BY LeastExists
<1>2. /\ \A s \in W : Nearer(s) \in SUBSET W /\ Nearer(s) \in SUBSET Seats
      /\ \A D \in SUBSET W : IsFiniteSet(D) /\ Cardinality(D) \in Nat
      /\ \A s \in W : Distance(button, s) \in Nat
      /\ Cardinality(W) \in Nat
  BY SeatsFinite, DistanceType
<1>3. \A m : F(m) = {s \in W : Cardinality(Nearer(s)) < m}
  BY DEF FirstOfWinners
<1>. HIDE DEF F, Nearer
<1>4. CASE n = 0
  <2>1. F(0) = {}
    BY <1>2, <1>3
  <2>. QED
    BY <1>1, <1>4, <2>1, FS_EmptySet
<1>5. CASE n # 0
  <2>. DEFINE m == n - 1
  <2>1. m \in Nat /\ m < Cardinality(W) /\ m < n /\ n \in Nat /\ n <= Cardinality(W)
    BY <1>1, <1>2, <1>5
  <2>2. Cardinality(F(m)) = m
    BY <1>1, <1>2, <2>1
  <2>3. F(m) \in SUBSET W /\ W \ F(m) # {}
    <3>1. F(m) \in SUBSET W
      BY <1>3
    <3>2. F(m) # W
      BY <1>2, <2>1, <2>2
    <3>. QED
      BY <3>1, <3>2
  <2>4. PICK x \in W \ F(m) :
          \A q \in W \ F(m) : Distance(button, x) <= Distance(button, q)
    <3>. DEFINE S == W \ F(m)
                f == [q \in S |-> Distance(button, q)]
    <3>1. f \in [S -> Nat] /\ S # {}
      BY <1>2, <2>3
    <3>2. \E q \in S : \A p \in S : f[q] <= f[p]
      <4>. HIDE DEF f, S
      <4>. QED  BY <3>1, SmallestExists
    <3>. QED
      BY <3>2
  <2>5. Nearer(x) = F(m)
    <3>1. ASSUME NEW w \in Nearer(x) PROVE w \in F(m)
      <4>1. w \in W /\ Distance(button, w) < Distance(button, x)
        BY DEF Nearer
      <4>. QED
        BY <1>2, <2>4, <4>1
    <3>2. ASSUME NEW w \in F(m) PROVE w \in Nearer(x)
      <4>1. w \in W /\ Cardinality(Nearer(w)) < m
        BY <1>3
      <4>. SUFFICES ASSUME ~(Distance(button, w) < Distance(button, x)) PROVE FALSE
        BY <4>1 DEF Nearer
      <4>2. Nearer(x) \subseteq Nearer(w)
        <5>1. Distance(button, x) <= Distance(button, w)
          BY <1>2, <2>4, <4>1
        <5>. QED
          BY <1>2, <2>4, <4>1, <5>1 DEF Nearer
      <4>3. Cardinality(Nearer(x)) <= Cardinality(Nearer(w))
        BY <1>2, <4>1, <4>2, FS_Subset
      <4>4. Cardinality(Nearer(x)) < m
        BY <1>2, <2>1, <2>4, <4>1, <4>3
      <4>. QED
        BY <1>3, <2>4, <4>4
    <3>. QED
      BY <3>1, <3>2
  <2>6. F(n) = F(m) \cup {x}
    <3>1. x \in F(n)
      BY <1>3, <2>1, <2>2, <2>4, <2>5
    <3>2. F(m) \subseteq F(n)
      BY <1>2, <1>3, <2>1
    <3>3. ASSUME NEW y \in F(n), y \notin F(m), y # x PROVE FALSE
      <4>1. y \in W /\ Cardinality(Nearer(y)) = m
        BY <1>2, <1>3, <2>1, <3>3
      <4>2. Distance(button, x) < Distance(button, y)
        <5>1. Distance(button, x) <= Distance(button, y)
          BY <2>4, <3>3, <4>1
        <5>2. Distance(button, x) # Distance(button, y)
          BY <2>4, <3>3, <4>1, DistanceInjective
        <5>. QED
          BY <1>2, <2>4, <4>1, <5>1, <5>2
      <4>3. F(m) \cup {x} \subseteq Nearer(y)
        BY <1>2, <2>4, <2>5, <4>1, <4>2 DEF Nearer
      <4>4. Cardinality(F(m) \cup {x}) = m + 1
        BY <1>2, <2>2, <2>3, <2>4, FS_AddElement
      <4>5. Cardinality(F(m) \cup {x}) <= Cardinality(Nearer(y))
        BY <1>2, <4>1, <4>3, FS_Subset
      <4>. QED
        BY <2>1, <4>1, <4>4, <4>5
    <3>. QED
      BY <3>1, <3>2, <3>3
  <2>7. Cardinality(F(n)) = m + 1
    BY <1>2, <2>2, <2>3, <2>4, <2>6, FS_AddElement
  <2>. QED
    BY <1>1, <2>1, <2>7
<1>. QED
  BY <1>4, <1>5

\* What is left when an amount is divided is less than what divides it.
LEMMA DivisionLeaves ==
  ASSUME NEW amount \in Nat, NEW n \in Nat, n # 0
  PROVE  /\ amount \div n \in Nat /\ amount % n \in Nat /\ amount % n < n
         /\ n * (amount \div n) + (amount % n) = amount
  OBVIOUS

\* The shares of a pot with winners add up to the pot.
LEMMA SharesAddUp ==
  ASSUME NEW amount \in Nat, NEW W \in SUBSET Seats, W # {}, NEW button \in Seats
  PROVE  SeatSum([s \in Seats |-> ShareOf(amount, W, button, s)]) = amount
<1>. DEFINE n == Cardinality(W)
            q == amount \div n
            r == amount % n
            D == FirstOfWinners(W, button, r)
            f == [s \in Seats |-> ShareOf(amount, W, button, s)]
<1>1. n \in Nat /\ n # 0
  BY SeatsFinite, FS_EmptySet
<1>2. q \in Nat /\ r \in Nat /\ r < n /\ n * q + r = amount
  <2>. HIDE DEF n
  <2>. QED  BY <1>1, DivisionLeaves
<1>3. D \in SUBSET Seats /\ Cardinality(D) = r
  <2>1. D \in SUBSET Seats
    BY DEF FirstOfWinners
  <2>2. r <= Cardinality(W)
    BY <1>1, <1>2
  <2>. HIDE DEF r
  <2>. QED
    BY <1>2, <2>1, <2>2, CountFirst
<1>4. \A s \in Seats : f[s] = Each(W, q)[s] + Each(D, 1)[s]
  <2>. SUFFICES ASSUME NEW s \in Seats PROVE f[s] = Each(W, q)[s] + Each(D, 1)[s]
    OBVIOUS
  <2>1. CASE s \notin W
    BY <2>1 DEF ShareOf, Each, FirstOfWinners
  <2>2. CASE s \in W
    <3>1. f[s] = q + (IF s \in D THEN 1 ELSE 0)
      BY <2>2 DEF ShareOf, FirstOfWinners
    <3>. HIDE DEF f, q, D
    <3>. QED
      BY <2>2, <3>1 DEF Each
  <2>. QED
    BY <2>1, <2>2
<1>5. /\ f \in [Seats -> Int] /\ Each(W, q) \in [Seats -> Int] /\ Each(D, 1) \in [Seats -> Int]
  <2>1. \A s \in Seats : ShareOf(amount, W, button, s) \in Nat
    BY ShareOfNat
  <2>. HIDE DEF q, D
  <2>. QED
    BY <1>2, <2>1 DEF Each
<1>6. SeatSum(Each(W, q)) = n * q /\ SeatSum(Each(D, 1)) = r * 1
  <2>. HIDE DEF q, D, r
  <2>. QED  BY <1>2, <1>3, SumOfEach
<1>7. SeatSum(f) = SeatSum(Each(W, q)) + SeatSum(Each(D, 1))
  <2>. HIDE DEF f, q, D
  <2>. QED  BY <1>4, <1>5, SeatSumAdds
<1>. HIDE DEF f, q, D, r, n
<1>8. SeatSum(f) = amount
  BY <1>1, <1>2, <1>6, <1>7
<1>. QED
  BY <1>8 DEF f

\* No share is more than the pot.
LEMMA ShareWithinPot ==
  ASSUME NEW amount \in Nat, NEW W \in SUBSET Seats, NEW button \in Seats, NEW s \in Seats
  PROVE  ShareOf(amount, W, button, s) <= amount
<1>1. CASE s \notin W
  BY <1>1 DEF ShareOf
<1>2. CASE s \in W
  <2>. DEFINE f == [q \in Seats |-> ShareOf(amount, W, button, q)]
  <2>1. f \in [Seats -> Nat]
    BY ShareOfNat
  <2>2. SeatSum(f) = amount
    BY <1>2, SharesAddUp
  <2>3. f[s] <= SeatSum(f)
    <3>. HIDE DEF f
    <3>. QED  BY <2>1, SeatSumNat
  <2>. QED
    BY <2>2, <2>3
<1>. QED
  BY <1>1, <1>2

\* Where the largest stake is still in the hand, the pots a stake of x reaches
\* hold nothing above x.
LEMMA PotsWithinReach ==
  ASSUME NEW c \in [Seats -> Nat], NEW live \in SUBSET Seats, NEW x \in Nat,
         NEW w \in live, c[w] > 0, \A q \in Seats : c[q] <= c[w],
         \E k \in PotLevels(c, live) : k <= x
  PROVE  \E v \in PotLevels(c, live) :
           /\ TopOfPot(c, live, v) <= x
           /\ \A k \in PotLevels(c, live) : k <= x => k <= v
<1>. DEFINE T == {k \in PotLevels(c, live) : k <= x}
            v == Highest(T)
            m == Highest(Levels(c))
<1>1. /\ PotLevels(c, live) \in SUBSET Levels(c) /\ Levels(c) \in SUBSET Nat
      /\ SeatSum(c) \in Nat /\ \A k \in Levels(c) : k <= SeatSum(c)
  BY LevelsType DEF PotLevels
<1>2. v \in T /\ \A k \in T : k <= v
  <2>1. T \in SUBSET Nat /\ T # {} /\ \A k \in T : k <= x
    BY <1>1
  <2>. HIDE DEF T
  <2>. QED  BY <2>1, HighestType
<1>3. m \in Levels(c)
  <2>1. Levels(c) # {}
    BY <1>1
  <2>. QED
    BY <1>1, <2>1, HighestType
<1>. HIDE DEF v
<1>4. TopOfPot(c, live, v) <= x
  <2>1. CASE \E k \in PotLevels(c, live) : k > v
    BY <1>2, <2>1 DEF TopOfPot
  <2>2. CASE ~\E k \in PotLevels(c, live) : k > v
    <3>1. c[w] \in PotLevels(c, live)
      <4>1. c[w] \in Levels(c) /\ w \in Eligible(c, live, c[w])
        BY DEF Levels, Contributors, Eligible
      <4>. QED
        BY <4>1 DEF PotLevels
    <3>2. c[w] <= v
      BY <1>1, <1>2, <2>2, <3>1
    <3>3. m <= c[w]
      BY <1>3 DEF Levels, Contributors
    <3>4. TopOfPot(c, live, v) = m
      BY <2>2 DEF TopOfPot
    <3>. HIDE DEF m
    <3>. QED
      BY <1>1, <1>2, <1>3, <3>2, <3>3, <3>4
  <2>. QED
    BY <2>1, <2>2
<1>. QED
  BY <1>2, <1>4

\* The stakes a refund leaves: if a live seat had staked as much as any, one
\* still does, and has something staked.
LEMMA RefundLeavesTop ==
  ASSUME NEW c \in [Seats -> Nat], NEW live, NEW w \in Seats, c[w] > 0,
         \A q \in Seats : c[q] <= c[w], UncalledExcess(c, live) > 0
  PROVE  /\ TopContributor(c) = w
         /\ c[w] - UncalledExcess(c, live) > 0
         /\ \A q \in Seats \ {w} : c[q] <= c[w] - UncalledExcess(c, live)
<1>. DEFINE top == TopContributor(c)
            two == SecondHighest(c)
<1>1. UncalledExcess(c, live) = c[top] - two /\ AtLeastTwo(Contributors(c))
  BY DEF UncalledExcess
<1>2. top \in Contributors(c) /\ \A q \in Seats : c[q] <= c[top]
  BY <1>1, TopContributorType DEF AtLeastTwo
<1>3. two \in Nat /\ \A s \in Contributors(c) \ {top} : c[s] <= two
  BY SecondHighestType
<1>. HIDE DEF top, two
<1>4. top \in Seats
  BY <1>2 DEF Contributors
<1>5. top = w
  <2>1. c[w] = c[top]
    BY <1>2, <1>4
  <2>2. w \in Contributors(c)
    BY DEF Contributors
  <2>. QED
    BY <1>1, <1>3, <1>4, <2>1, <2>2
<1>6. PICK s \in Contributors(c) : s # top
  BY <1>1 DEF AtLeastTwo
<1>7. two > 0
  BY <1>3, <1>6 DEF Contributors
<1>8. c[w] - UncalledExcess(c, live) = two
  BY <1>1, <1>3, <1>4, <1>5
<1>9. \A q \in Seats \ {w} : c[q] <= two
  BY <1>3, <1>5 DEF Contributors
<1>. QED
  BY <1>5, <1>7, <1>8, <1>9 DEF top

-----------------------------------------------------------------------------
(* The loop of buildPots makes the pots of the formula.                    *)

LEMMA LevelsFinite ==
  ASSUME NEW c \in [Seats -> Nat]
  PROVE  /\ \A T \in SUBSET Levels(c) : IsFiniteSet(T)
         /\ \A T \in SUBSET Levels(c) : T # {} =>
              Highest(T) \in T /\ \A k \in T : k <= Highest(T)
<1>1. Levels(c) \in SUBSET Nat /\ SeatSum(c) \in Nat /\ \A k \in Levels(c) : k <= SeatSum(c)
  BY LevelsType
<1>2. Levels(c) \in SUBSET (0 .. SeatSum(c))
  BY <1>1
<1>3. IsFiniteSet(0 .. SeatSum(c))
  BY <1>1, FS_Interval
<1>. QED
  BY <1>1, <1>2, <1>3, FS_Subset, HighestType

\* g carries what the loop carries, for every set of levels in D.
Looping(g, c, live, D) ==
  g = [T \in D |-> IF T = {} THEN BeforeLevels
                   ELSE TakeLevel(c, live, g[T \ {Highest(T)}], Highest(T))]

LEMMA LoopIsRecursive ==
  ASSUME NEW c, NEW live, NEW T
  PROVE  Looped(c, live, T) = (CHOOSE g : Looping(g, c, live, SUBSET T))[T]
BY DEF Looped, MapThenFoldSet, Looping

LEMMA LoopExists ==
  ASSUME NEW c \in [Seats -> Nat], NEW live, NEW S \in SUBSET Levels(c)
  PROVE  \E g : Looping(g, c, live, SUBSET S)
<1>. DEFINE D(n) == {T \in SUBSET S : Cardinality(T) <= n}
            Bad == {n \in Nat : ~ \E g : Looping(g, c, live, D(n))}
            Take(at, T) == TakeLevel(c, live, at, Highest(T))
            Rest(T) == T \ {Highest(T)}
<1>1. /\ \A T \in SUBSET S : IsFiniteSet(T) /\ Cardinality(T) \in Nat
      /\ \A T \in SUBSET S : T # {} => Highest(T) \in T
  BY LevelsFinite, FS_CardinalityType
<1>2. Bad = {}
  <2>. SUFFICES ASSUME Bad # {} PROVE FALSE
    OBVIOUS
  <2>1. PICK n \in Bad : \A m \in Bad : n <= m
    BY LeastExists
  <2>2. n \in Nat /\ ~ \E g : Looping(g, c, live, D(n))
    OBVIOUS
  <2>3. CASE n = 0
    <3>1. \A T \in D(0) : T = {}
      BY <1>1, FS_EmptySet
    <3>2. Looping([T \in D(0) |-> BeforeLevels], c, live, D(0))
      BY <3>1 DEF Looping
    <3>. QED
      BY <2>2, <2>3, <3>2
  <2>4. CASE n # 0
    <3>1. n - 1 \in Nat /\ n - 1 \notin Bad
      <4>1. n - 1 \in Nat /\ ~(n <= n - 1)
        BY <2>2, <2>4
      <4>. HIDE DEF Bad
      <4>. QED
        BY <2>1, <4>1
    <3>2. PICK g : Looping(g, c, live, D(n - 1))
      BY <3>1
    <3>3. \A T \in D(n - 1) : g[T] = IF T = {} THEN BeforeLevels ELSE Take(g[Rest(T)], T)
      BY <3>2 DEF Looping
    <3>4. ASSUME NEW T \in D(n), T # {} PROVE Rest(T) \in D(n - 1)
      <4>1. Cardinality(Rest(T)) = Cardinality(T) - 1
        BY <1>1, <3>4, FS_RemoveElement
      <4>. QED
        BY <1>1, <2>2, <4>1
    <3>5. \A T \in D(n - 1) : T \in D(n)
      BY <1>1, <2>2
    <3>. DEFINE h == [T \in D(n) |-> IF T = {} THEN BeforeLevels ELSE Take(g[Rest(T)], T)]
    <3>. HIDE DEF Take, Rest
    <3>6. \A T \in D(n - 1) : h[T] = g[T]
      BY <3>3, <3>5
    <3>7. \A T \in D(n) : T # {} => h[Rest(T)] = g[Rest(T)]
      BY <3>4, <3>6
    <3>8. \A T \in D(n) : h[T] = IF T = {} THEN BeforeLevels ELSE Take(h[Rest(T)], T)
      BY <3>7
    <3>9. h = [T \in D(n) |-> IF T = {} THEN BeforeLevels ELSE Take(h[Rest(T)], T)]
      BY <3>8
    <3>10. Looping(h, c, live, D(n))
      BY <3>9 DEF Looping, Take, Rest
    <3>. QED
      BY <2>2, <3>10
  <2>. QED
    BY <2>3, <2>4
<1>3. D(Cardinality(S)) = SUBSET S
  <2>1. \A T \in SUBSET S : Cardinality(T) <= Cardinality(S)
    BY <1>1, FS_Subset
  <2>. QED
    BY <2>1
<1>4. Cardinality(S) \notin Bad /\ Cardinality(S) \in Nat
  BY <1>1, <1>2
<1>. QED
  BY <1>3, <1>4

SameAt(g, h, T) == g[T] = h[T]

LEMMA LoopIsUnique ==
  ASSUME NEW c \in [Seats -> Nat], NEW live, NEW S \in SUBSET Levels(c), NEW R \in SUBSET S,
         NEW g, Looping(g, c, live, SUBSET S), NEW h, Looping(h, c, live, SUBSET R)
  PROVE  SameAt(g, h, R)
<1>. DEFINE Bad == {n \in Nat : \E T \in SUBSET R : Cardinality(T) = n /\ g[T] # h[T]}
            Take(at, T) == TakeLevel(c, live, at, Highest(T))
            Rest(T) == T \ {Highest(T)}
<1>1. /\ \A T \in SUBSET R : IsFiniteSet(T) /\ Cardinality(T) \in Nat
      /\ \A T \in SUBSET R : T # {} => Highest(T) \in T
  BY LevelsFinite, FS_CardinalityType
<1>2. Bad = {}
  <2>. SUFFICES ASSUME Bad # {} PROVE FALSE
    OBVIOUS
  <2>1. PICK n \in Bad : \A m \in Bad : n <= m
    BY LeastExists
  <2>2. PICK T \in SUBSET R : Cardinality(T) = n /\ g[T] # h[T]
    OBVIOUS
  <2>3. /\ g[T] = IF T = {} THEN BeforeLevels ELSE Take(g[Rest(T)], T)
        /\ h[T] = IF T = {} THEN BeforeLevels ELSE Take(h[Rest(T)], T)
    BY DEF Looping
  <2>4. T # {} /\ g[Rest(T)] # h[Rest(T)]
    <3>. HIDE DEF Take, Rest
    <3>. QED
      BY <2>2, <2>3
  <2>5. Rest(T) \in SUBSET R /\ Cardinality(Rest(T)) = n - 1 /\ n \in Nat /\ n - 1 \in Nat
    <3>1. Rest(T) \in SUBSET R /\ IsFiniteSet(T) /\ Highest(T) \in T
      BY <1>1, <2>2, <2>4
    <3>2. Cardinality(Rest(T)) = Cardinality(T) - 1
      BY <3>1, FS_RemoveElement
    <3>3. Cardinality(Rest(T)) \in Nat /\ Cardinality(T) \in Nat
      BY <1>1, <2>2, <3>1
    <3>. QED
      BY <2>2, <3>1, <3>2, <3>3
  <2>6. n - 1 \in Bad
    BY <2>4, <2>5
  <2>. HIDE DEF Bad
  <2>. QED
    BY <2>1, <2>5, <2>6
<1>. QED
  BY <1>1, <1>2 DEF SameAt

\* The loop comes to a level after all below it.
LEMMA LoopUnfolds ==
  ASSUME NEW c \in [Seats -> Nat], NEW live, NEW S \in SUBSET Levels(c)
  PROVE  Looped(c, live, S) = IF S = {} THEN BeforeLevels
           ELSE TakeLevel(c, live, Looped(c, live, S \ {Highest(S)}), Highest(S))
<1>. DEFINE R == S \ {Highest(S)}
            g == CHOOSE g : Looping(g, c, live, SUBSET S)
            h == CHOOSE h : Looping(h, c, live, SUBSET R)
<1>1. Looping(g, c, live, SUBSET S) /\ Looping(h, c, live, SUBSET R)
  BY LoopExists
<1>2. Looped(c, live, S) = g[S] /\ Looped(c, live, R) = h[R]
  BY LoopIsRecursive
<1>3. g[S] = IF S = {} THEN BeforeLevels ELSE TakeLevel(c, live, g[R], Highest(S))
  <2>. HIDE DEF g
  <2>. QED
    BY <1>1 DEF Looping
<1>4. g[R] = h[R]
  <2>. HIDE DEF g, h
  <2>1. R \in SUBSET S
    OBVIOUS
  <2>. HIDE DEF R
  <2>2. SameAt(g, h, R)
    BY <1>1, <2>1, LoopIsUnique
  <2>. QED
    BY <2>2 DEF SameAt
<1>. QED
  BY <1>2, <1>3, <1>4

\* What the seats put in, up to x each.
UpTo(c, x) == SeatSum(CappedAt(c, x))

LEMMA LayerIsBetween ==
  ASSUME NEW c \in [Seats -> Nat], NEW x \in Nat, NEW y \in Nat
  PROVE  /\ UpTo(c, x) \in Int
         /\ SeatSum([s \in Seats |-> Smaller(c[s], x) - Smaller(c[s], y)]) = UpTo(c, x) - UpTo(c, y)
<1>. DEFINE layer == [s \in Seats |-> Smaller(c[s], x) - Smaller(c[s], y)]
            f == CappedAt(c, x)
            g == CappedAt(c, y)
<1>1. /\ layer \in [Seats -> Int] /\ f \in [Seats -> Int] /\ g \in [Seats -> Int]
      /\ \A s \in Seats : f[s] = layer[s] + g[s]
  BY DEF CappedAt, Smaller
<1>. HIDE DEF layer, f, g
<1>2. SeatSum(f) = SeatSum(layer) + SeatSum(g)
  BY <1>1, SeatSumAdds
<1>3. SeatSum(f) \in Int /\ SeatSum(layer) \in Int /\ SeatSum(g) \in Int
  BY <1>1, SeatSumInt
<1>4. SeatSum(layer) = SeatSum(f) - SeatSum(g)
  BY <1>2, <1>3
<1>. QED
  BY <1>3, <1>4 DEF UpTo, layer, f, g

PotRecords == [amount : Int, cappedAt : Nat, eligible : SUBSET Seats]

\* The levels the loop has been through are the lowest ones.
LowLevels(c, T) ==
  T \in SUBSET Levels(c) /\ \A t \in T, k \in Levels(c) : k <= t => k \in T

\* What the loop has made of the levels T: a pot for each that can be won, in
\* order; the last one has all there is from its own level's floor up.
Carried(c, live, T, at) ==
  /\ at \in [prev : Nat, carryForward : Nat, pots : Seq(PotRecords)]
  /\ at.carryForward = 0
  /\ at.prev = Highest({0} \cup T)
  /\ at.pots = <<>> <=> T = {}
  /\ \A i \in 1 .. Len(at.pots) :
       /\ at.pots[i].cappedAt \in T \cap PotLevels(c, live)
       /\ at.pots[i].eligible = Eligible(c, live, at.pots[i].cappedAt)
       /\ at.pots[i].amount = UpTo(c, IF i < Len(at.pots) THEN at.pots[i].cappedAt ELSE at.prev)
                                - UpTo(c, LevelBelow(c, at.pots[i].cappedAt))
  /\ \A k \in T \cap PotLevels(c, live) : \E i \in 1 .. Len(at.pots) : at.pots[i].cappedAt = k
  /\ \A i, j \in 1 .. Len(at.pots) : i < j => at.pots[i].cappedAt < at.pots[j].cappedAt

LEMMA NothingCarried ==
  ASSUME NEW c \in [Seats -> Nat], NEW live
  PROVE  Carried(c, live, {}, BeforeLevels)
<1>1. Highest({0}) = 0
  <2>. DEFINE Z == {0}
  <2>1. Z \in SUBSET Nat /\ Z # {} /\ \A k \in Z : k <= 0
    OBVIOUS
  <2>2. Highest(Z) \in Z
    <3>. HIDE DEF Z
    <3>. QED
      BY <2>1, HighestType
  <2>. QED
    BY <2>2
<1>2. <<>> \in Seq(PotRecords) /\ Len(<<>>) = 0
  OBVIOUS
<1>3. {0} \cup {} = {0}
  OBVIOUS
<1>. QED
  BY <1>1, <1>2, <1>3 DEF Carried, BeforeLevels

\* The lowest level can be won by everybody who is still in.
LEMMA LowestIsWon ==
  ASSUME NEW c \in [Seats -> Nat], NEW live \in SUBSET Contributors(c), live # {},
         NEW l \in Levels(c), \A k \in Levels(c) : l <= k
  PROVE  l \in PotLevels(c, live)
<1>1. PICK s \in live : TRUE
  OBVIOUS
<1>2. s \in Contributors(c) /\ c[s] \in Levels(c) /\ c[s] \in Nat /\ l \in Nat
  BY <1>1, LevelsType DEF Levels, Contributors
<1>3. c[s] >= l
  BY <1>2
<1>4. s \in Eligible(c, live, l)
  BY <1>1, <1>2, <1>3 DEF Eligible
<1>. QED
  BY <1>4 DEF PotLevels

\* A level nobody can win goes into the last pot.
LEMMA UnwinnableIsCarried ==
  ASSUME NEW c \in [Seats -> Nat], NEW live, NEW T, NEW l \in Levels(c), NEW at,
         Carried(c, live, T, at), T # {}, l \notin PotLevels(c, live),
         Highest({0} \cup T) \in Nat, Highest({0} \cup T \cup {l}) = l
  PROVE  Carried(c, live, T \cup {l}, Unwinnable(c, at, l))
<1>. DEFINE n == Len(at.pots)
            add == Layer(c, at, l)
            new == Unwinnable(c, at, l)
<1>1. /\ at \in [prev : Nat, carryForward : Nat, pots : Seq(PotRecords)] /\ at.pots # <<>>
      /\ at.prev \in Nat /\ l \in Nat /\ at.pots \in Seq(PotRecords)
      /\ n \in Nat /\ n >= 1 /\ n \in 1 .. n /\ DOMAIN at.pots = 1 .. n
      /\ \A i \in 1 .. n : at.pots[i] \in PotRecords
  BY LevelsType DEF Carried
<1>2. add = UpTo(c, l) - UpTo(c, at.prev) /\ UpTo(c, l) \in Int /\ UpTo(c, at.prev) \in Int
  BY <1>1, LayerIsBetween DEF Layer
<1>. DEFINE last == [at.pots[n] EXCEPT !.amount = @ + add]
            pots == [at.pots EXCEPT ![n] = last]
<1>3. new = [at EXCEPT !.prev = l, !.pots = pots]
  BY <1>1 DEF Unwinnable
<1>4. /\ last \in PotRecords /\ last.cappedAt = at.pots[n].cappedAt /\ last.eligible = at.pots[n].eligible
      /\ last.amount = at.pots[n].amount + add
  <2>. DEFINE p == at.pots[n]
  <2>1. p \in PotRecords /\ add \in Int
    BY <1>1, <1>2
  <2>. HIDE DEF p, add
  <2>2. last = [p EXCEPT !.amount = @ + add]
    BY DEF p
  <2>3. /\ [p EXCEPT !.amount = @ + add] \in PotRecords
        /\ [p EXCEPT !.amount = @ + add].cappedAt = p.cappedAt
        /\ [p EXCEPT !.amount = @ + add].eligible = p.eligible
        /\ [p EXCEPT !.amount = @ + add].amount = p.amount + add
    BY <2>1 DEF PotRecords
  <2>. HIDE DEF last
  <2>4. /\ last \in PotRecords /\ last.cappedAt = p.cappedAt /\ last.eligible = p.eligible
        /\ last.amount = p.amount + add
    BY <2>2, <2>3
  <2>. QED
    BY <2>4 DEF p
<1>. HIDE DEF last
<1>5. /\ pots \in Seq(PotRecords) /\ Len(pots) = n /\ pots # <<>>
      /\ pots[n] = last /\ \A i \in 1 .. n : i # n => pots[i] = at.pots[i]
  BY <1>1, <1>4
<1>. HIDE DEF pots, add
<1>6. /\ new \in [prev : Nat, carryForward : Nat, pots : Seq(PotRecords)]
      /\ new.prev = l /\ new.pots = pots /\ new.carryForward = 0
  BY <1>1, <1>3, <1>5 DEF Carried
<1>. HIDE DEF new
<1>7. \A i \in 1 .. n : pots[i].cappedAt = at.pots[i].cappedAt /\ pots[i].eligible = at.pots[i].eligible
  BY <1>4, <1>5
<1>8. UpTo(c, LevelBelow(c, at.pots[n].cappedAt)) \in Int
  <2>1. at.pots[n].cappedAt \in Levels(c)
    BY <1>1 DEF Carried, PotLevels
  <2>. QED
    BY <2>1, LevelBelowType, LayerIsBetween
<1>9. pots[n].amount = UpTo(c, l) - UpTo(c, LevelBelow(c, pots[n].cappedAt))
  <2>. DEFINE a == UpTo(c, at.prev)
              b == UpTo(c, LevelBelow(c, at.pots[n].cappedAt))
              d == UpTo(c, l)
  <2>1. at.pots[n].amount = UpTo(c, IF n < n THEN at.pots[n].cappedAt ELSE at.prev) - b
    BY <1>1 DEF Carried
  <2>2. (IF n < n THEN at.pots[n].cappedAt ELSE at.prev) = at.prev
    BY <1>1
  <2>3. at.pots[n].amount = a - b
    BY <2>1, <2>2
  <2>4. pots[n].amount = at.pots[n].amount + (d - a) /\ a \in Int /\ b \in Int /\ d \in Int
    BY <1>2, <1>4, <1>5, <1>8
  <2>5. b = UpTo(c, LevelBelow(c, pots[n].cappedAt))
    BY <1>1, <1>7
  <2>. HIDE DEF a, b, d
  <2>6. pots[n].amount = d - b
    BY <2>3, <2>4
  <2>. QED
    BY <2>5, <2>6 DEF d
<1>10. ASSUME NEW i \in 1 .. n
       PROVE  /\ pots[i].cappedAt \in (T \cup {l}) \cap PotLevels(c, live)
              /\ pots[i].eligible = Eligible(c, live, pots[i].cappedAt)
              /\ pots[i].amount = UpTo(c, IF i < n THEN pots[i].cappedAt ELSE l)
                                    - UpTo(c, LevelBelow(c, pots[i].cappedAt))
  <2>1. /\ at.pots[i].cappedAt \in T \cap PotLevels(c, live)
        /\ at.pots[i].eligible = Eligible(c, live, at.pots[i].cappedAt)
        /\ at.pots[i].amount = UpTo(c, IF i < n THEN at.pots[i].cappedAt ELSE at.prev)
                                 - UpTo(c, LevelBelow(c, at.pots[i].cappedAt))
    BY DEF Carried
  <2>2. CASE i = n
    BY <1>7, <1>9, <2>1, <2>2
  <2>3. CASE i # n
    <3>1. i < n /\ pots[i] = at.pots[i]
      BY <1>1, <1>5, <2>3
    <3>. QED
      BY <2>1, <3>1
  <2>. QED
    BY <2>2, <2>3
<1>11. \A k \in (T \cup {l}) \cap PotLevels(c, live) : \E i \in 1 .. n : pots[i].cappedAt = k
  BY <1>7 DEF Carried
<1>12. \A i, j \in 1 .. n : i < j => pots[i].cappedAt < pots[j].cappedAt
  BY <1>7 DEF Carried
<1>13. {0} \cup (T \cup {l}) = {0} \cup T \cup {l}
  OBVIOUS
<1>. QED
  BY <1>5, <1>6, <1>10, <1>11, <1>12, <1>13 DEF Carried, new

\* A level that can be won makes a pot of its own.
LEMMA NewPotIsCarried ==
  ASSUME NEW c \in [Seats -> Nat], NEW live, NEW T, LowLevels(c, T), NEW l \in Levels(c), NEW at,
         Carried(c, live, T, at), l \in PotLevels(c, live), \A k \in T : k < l,
         at.prev = LevelBelow(c, l), at.prev \in T \/ T = {}, \A k \in T : k <= at.prev,
         Highest({0} \cup T \cup {l}) = l
  PROVE  Carried(c, live, T \cup {l}, NewPot(c, live, at, l))
<1>. DEFINE n == Len(at.pots)
            amount == Layer(c, at, l) + at.carryForward
            pot == [amount |-> amount, cappedAt |-> l, eligible |-> Eligible(c, live, l)]
            pots == Append(at.pots, pot)
            new == NewPot(c, live, at, l)
<1>1. /\ at.prev \in Nat /\ l \in Nat /\ at.pots \in Seq(PotRecords) /\ at.carryForward = 0
      /\ n \in Nat /\ DOMAIN at.pots = 1 .. n
      /\ \A i \in 1 .. n : at.pots[i] \in PotRecords
  BY LevelsType DEF Carried
<1>2. amount = UpTo(c, l) - UpTo(c, LevelBelow(c, l)) /\ amount \in Int
  <2>1. Layer(c, at, l) = UpTo(c, l) - UpTo(c, at.prev)
    BY <1>1, LayerIsBetween DEF Layer
  <2>2. UpTo(c, l) \in Int /\ UpTo(c, at.prev) \in Int
    BY <1>1, LayerIsBetween
  <2>. QED
    BY <1>1, <2>1, <2>2
<1>. HIDE DEF amount
<1>3. pot \in PotRecords
  BY <1>1, <1>2 DEF PotRecords, Eligible, Contributors
<1>4. new = [prev |-> l, carryForward |-> 0, pots |-> pots]
  BY DEF NewPot, amount
<1>5. pot.cappedAt = l /\ pot.eligible = Eligible(c, live, l) /\ pot.amount = amount
  OBVIOUS
<1>. HIDE DEF pot
<1>6. /\ pots \in Seq(PotRecords) /\ Len(pots) = n + 1 /\ pots # <<>>
      /\ pots[n + 1] = pot /\ \A i \in 1 .. n : pots[i] = at.pots[i]
  BY <1>1, <1>3
<1>. HIDE DEF pots
<1>7. /\ new \in [prev : Nat, carryForward : Nat, pots : Seq(PotRecords)]
      /\ new.prev = l /\ new.pots = pots /\ new.carryForward = 0
  BY <1>1, <1>4, <1>6
<1>. HIDE DEF new
\* The pot that was the last ends at its own level: the level below this one.
<1>8. n >= 1 => at.pots[n].cappedAt = at.prev
  <2>. SUFFICES ASSUME n >= 1 PROVE at.pots[n].cappedAt = at.prev
    OBVIOUS
  <2>1. n \in 1 .. n /\ at.pots[n].cappedAt \in T
    BY <1>1 DEF Carried
  <2>2. at.prev \in T /\ at.prev < l
    BY <2>1
  <2>3. at.prev \in PotLevels(c, live)
    BY <1>1, <2>2, PotLevelsDown DEF LowLevels
  <2>4. PICK i \in 1 .. n : at.pots[i].cappedAt = at.prev
    BY <2>2, <2>3 DEF Carried
  <2>5. CASE i < n
    <3>1. at.prev < at.pots[n].cappedAt
      BY <2>1, <2>4, <2>5 DEF Carried
    <3>2. at.pots[n].cappedAt <= at.prev /\ at.pots[n].cappedAt \in Nat
      BY <1>1, <2>1 DEF PotRecords
    <3>. QED
      BY <1>1, <3>1, <3>2
  <2>6. CASE ~(i < n)
    BY <1>1, <2>4, <2>6
  <2>. QED
    BY <2>5, <2>6
<1>9. ASSUME NEW i \in 1 .. n + 1
      PROVE  /\ pots[i].cappedAt \in (T \cup {l}) \cap PotLevels(c, live)
             /\ pots[i].eligible = Eligible(c, live, pots[i].cappedAt)
             /\ pots[i].amount = UpTo(c, IF i < n + 1 THEN pots[i].cappedAt ELSE l)
                                   - UpTo(c, LevelBelow(c, pots[i].cappedAt))
  <2>1. CASE i = n + 1
    BY <1>1, <1>2, <1>5, <1>6, <2>1
  <2>2. CASE i # n + 1
    <3>1. i \in 1 .. n /\ i < n + 1 /\ n >= 1 /\ pots[i] = at.pots[i]
      BY <1>1, <1>6, <2>2
    <3>2. /\ at.pots[i].cappedAt \in T \cap PotLevels(c, live)
          /\ at.pots[i].eligible = Eligible(c, live, at.pots[i].cappedAt)
          /\ at.pots[i].amount = UpTo(c, IF i < n THEN at.pots[i].cappedAt ELSE at.prev)
                                   - UpTo(c, LevelBelow(c, at.pots[i].cappedAt))
      BY <3>1 DEF Carried
    <3>3. (IF i < n THEN at.pots[i].cappedAt ELSE at.prev) = at.pots[i].cappedAt
      BY <1>1, <1>8, <3>1
    <3>. QED
      BY <3>1, <3>2, <3>3
  <2>. QED
    BY <2>1, <2>2
<1>10. \A k \in (T \cup {l}) \cap PotLevels(c, live) : \E i \in 1 .. n + 1 : pots[i].cappedAt = k
  <2>. SUFFICES ASSUME NEW k \in (T \cup {l}) \cap PotLevels(c, live)
                PROVE  \E i \in 1 .. n + 1 : pots[i].cappedAt = k
    OBVIOUS
  <2>1. CASE k = l
    BY <1>1, <1>5, <1>6, <2>1
  <2>2. CASE k # l
    <3>1. PICK i \in 1 .. n : at.pots[i].cappedAt = k
      BY <2>2 DEF Carried
    <3>2. i \in 1 .. n + 1 /\ pots[i] = at.pots[i]
      BY <1>1, <1>6
    <3>. QED
      BY <3>1, <3>2
  <2>. QED
    BY <2>1, <2>2
<1>11. \A i, j \in 1 .. n + 1 : i < j => pots[i].cappedAt < pots[j].cappedAt
  <2>. SUFFICES ASSUME NEW i \in 1 .. n + 1, NEW j \in 1 .. n + 1, i < j
                PROVE  pots[i].cappedAt < pots[j].cappedAt
    OBVIOUS
  <2>1. i \in 1 .. n /\ pots[i] = at.pots[i]
    BY <1>1, <1>6
  <2>2. CASE j = n + 1
    BY <1>5, <1>6, <2>1, <2>2 DEF Carried
  <2>3. CASE j # n + 1
    <3>1. j \in 1 .. n /\ pots[j] = at.pots[j]
      BY <1>1, <1>6, <2>3
    <3>. QED
      BY <2>1, <3>1 DEF Carried
  <2>. QED
    BY <2>2, <2>3
<1>12. {0} \cup (T \cup {l}) = {0} \cup T \cup {l}
  OBVIOUS
<1>13. Carried(c, live, T \cup {l}, new)
  <2>. DEFINE m == n + 1
  <2>1. Len(new.pots) = m /\ m = n + 1
    BY <1>6, <1>7
  <2>. HIDE DEF m
  <2>2. \A i \in 1 .. m :
          /\ pots[i].cappedAt \in (T \cup {l}) \cap PotLevels(c, live)
          /\ pots[i].eligible = Eligible(c, live, pots[i].cappedAt)
          /\ pots[i].amount = UpTo(c, IF i < m THEN pots[i].cappedAt ELSE l)
                                - UpTo(c, LevelBelow(c, pots[i].cappedAt))
    BY <1>9, <2>1
  <2>3. \A k \in (T \cup {l}) \cap PotLevels(c, live) : \E i \in 1 .. m : pots[i].cappedAt = k
    BY <1>10, <2>1
  <2>4. \A i, j \in 1 .. m : i < j => pots[i].cappedAt < pots[j].cappedAt
    BY <1>11, <2>1
  <2>. QED
    BY <1>6, <1>7, <1>12, <2>1, <2>2, <2>3, <2>4 DEF Carried
<1>. QED
  BY <1>13 DEF new

LEMMA HighestIs ==
  ASSUME NEW T \in SUBSET Nat, NEW m \in T, \A k \in T : k <= m
  PROVE  Highest(T) = m
<1>1. Highest(T) \in T /\ \A k \in T : k <= Highest(T)
  BY HighestType
<1>2. m <= Highest(T) /\ Highest(T) <= m /\ m \in Nat /\ Highest(T) \in Nat
  BY <1>1
<1>. QED
  BY <1>2

\* The level l comes after the lowest levels, R.
ComesAfter(c, R, l) ==
  /\ l \in Levels(c) /\ l \in Nat
  /\ R \in SUBSET Levels(c) /\ \A k \in R : k < l
  /\ LowLevels(c, R)
  /\ \A k \in Levels(c) : k < l => k \in R
  /\ LevelBelow(c, l) = Highest({0} \cup R)
  /\ Highest({0} \cup R \cup {l}) = l

\* The highest of the lowest levels comes after all the others.
LEMMA HighestComesLast ==
  ASSUME NEW c \in [Seats -> Nat], NEW T \in SUBSET Levels(c), LowLevels(c, T), T # {},
         NEW R, NEW l, l = Highest(T), R = T \ {l}
  PROVE  T = R \cup {l} /\ ComesAfter(c, R, l)
<1>1. T \in SUBSET Levels(c) /\ Levels(c) \in SUBSET Nat
  BY LevelsType DEF LowLevels
<1>2. l \in T /\ l \in Levels(c) /\ l \in Nat /\ \A k \in T : k <= l
  BY <1>1, LevelsFinite
<1>3. T = R \cup {l} /\ R \in SUBSET Levels(c)
  BY <1>1, <1>2
<1>4. \A k \in R : k < l
  BY <1>1, <1>2
<1>5. \A k \in Levels(c) : k < l => k \in R
  BY <1>1, <1>2 DEF LowLevels
<1>6. LowLevels(c, R)
  <2>. SUFFICES ASSUME NEW t \in R, NEW k \in Levels(c), k <= t PROVE k \in R
    BY <1>3 DEF LowLevels
  <2>1. t \in Nat /\ k \in Nat /\ t < l
    BY <1>1, <1>4
  <2>2. k < l
    BY <1>2, <2>1
  <2>. QED
    BY <1>5, <2>2
<1>7. {k \in Levels(c) : k < l} = R
  BY <1>3, <1>4, <1>5
<1>8. LevelBelow(c, l) = Highest({0} \cup R)
  BY <1>7 DEF LevelBelow
<1>9. Highest({0} \cup R \cup {l}) = l
  <2>. DEFINE A == {0} \cup R \cup {l}
  <2>1. A \in SUBSET Nat /\ l \in A /\ \A k \in A : k <= l
    BY <1>1, <1>2, <1>3, <1>4
  <2>. HIDE DEF A
  <2>2. Highest(A) = l
    BY <2>1, HighestIs
  <2>. QED
    BY <2>2 DEF A
<1>. QED
  BY <1>2, <1>3, <1>4, <1>5, <1>6, <1>8, <1>9 DEF ComesAfter

\* One turn of the loop.
LEMMA LevelIsCarried ==
  ASSUME NEW c \in [Seats -> Nat], NEW live \in SUBSET Contributors(c), live # {},
         NEW T, LowLevels(c, T), T # {}, NEW R, NEW l, l = Highest(T), R = T \ {l},
         NEW at, Carried(c, live, R, at)
  PROVE  Carried(c, live, T, TakeLevel(c, live, at, l))
<1>1. /\ l \in Levels(c) /\ l \in Nat /\ T = R \cup {l}
      /\ R \in SUBSET Levels(c) /\ \A k \in R : k < l
      /\ LowLevels(c, R)
      /\ \A k \in Levels(c) : k < l => k \in R
      /\ LevelBelow(c, l) = Highest({0} \cup R)
      /\ Highest({0} \cup R \cup {l}) = l
  <2>1. T \in SUBSET Levels(c)
    BY DEF LowLevels
  <2>2. T = R \cup {l} /\ ComesAfter(c, R, l)
    BY <2>1, HighestComesLast
  <2>. QED
    BY <2>2 DEF ComesAfter
<1>2. /\ at.prev \in Nat /\ at.prev = LevelBelow(c, l)
      /\ at.prev \in R \/ R = {}
      /\ \A k \in R : k <= at.prev
      /\ Highest({0} \cup R) \in Nat
  <2>. DEFINE A == {0} \cup R
  <2>1. A \in SUBSET Nat /\ A # {} /\ \A k \in A : k <= l
    BY <1>1, LevelsType
  <2>2. at.prev = Highest(A)
    BY DEF Carried
  <2>3. Highest(A) \in A /\ \A k \in A : k <= Highest(A)
    <3>. HIDE DEF A
    <3>. QED
      BY <1>1, <2>1, HighestType
  <2>4. \A k \in R : k > 0 /\ k \in Nat
    BY <1>1, LevelsType
  <2>5. at.prev = 0 => R = {}
    BY <2>2, <2>3, <2>4
  <2>. QED
    BY <1>1, <2>1, <2>2, <2>3, <2>5
<1>3. CASE l \in PotLevels(c, live)
  <2>1. TakeLevel(c, live, at, l) = NewPot(c, live, at, l)
    BY <1>3 DEF TakeLevel, PotLevels
  <2>2. Carried(c, live, R \cup {l}, NewPot(c, live, at, l))
    BY <1>1, <1>2, <1>3, NewPotIsCarried
  <2>. QED
    BY <1>1, <2>1, <2>2
<1>4. CASE l \notin PotLevels(c, live)
  <2>1. TakeLevel(c, live, at, l) = Unwinnable(c, at, l)
    BY <1>1, <1>4 DEF TakeLevel, PotLevels
  <2>2. R # {}
    <3>. SUFFICES ASSUME R = {} PROVE FALSE
      OBVIOUS
    <3>1. \A k \in Levels(c) : l <= k
      BY <1>1, LevelsType
    <3>. QED
      BY <1>1, <1>4, <3>1, LowestIsWon
  <2>3. Highest({0} \cup R \cup {l}) = l
    BY <1>1
  <2>4. Carried(c, live, R \cup {l}, Unwinnable(c, at, l))
    BY <1>1, <1>2, <1>4, <2>2, <2>3, UnwinnableIsCarried
  <2>. QED
    BY <1>1, <2>1, <2>4
<1>. QED
  BY <1>3, <1>4

\* The loop, after any number of levels.
LEMMA LoopCarries ==
  ASSUME NEW c \in [Seats -> Nat], NEW live \in SUBSET Contributors(c), live # {},
         NEW S, LowLevels(c, S)
  PROVE  Carried(c, live, S, Looped(c, live, S))
<1>. DEFINE Left(T) == ~ Carried(c, live, T, Looped(c, live, T))
            Bad == {n \in Nat : \E T \in SUBSET Levels(c) :
                                  LowLevels(c, T) /\ Cardinality(T) = n /\ Left(T)}
<1>1. \A T \in SUBSET Levels(c) : IsFiniteSet(T) /\ Cardinality(T) \in Nat
  BY LevelsFinite, FS_CardinalityType
<1>2. Bad = {}
  <2>. SUFFICES ASSUME Bad # {} PROVE FALSE
    OBVIOUS
  <2>1. PICK n \in Bad : \A m \in Bad : n <= m
    BY LeastExists
  <2>2. PICK T \in SUBSET Levels(c) : LowLevels(c, T) /\ Cardinality(T) = n /\ Left(T)
    OBVIOUS
  <2>. DEFINE l == Highest(T)
              R == T \ {l}
  <2>. HIDE DEF Bad
  <2>3. T # {}
    <3>. SUFFICES ASSUME T = {} PROVE FALSE
      OBVIOUS
    <3>1. Looped(c, live, T) = BeforeLevels
      BY LoopUnfolds
    <3>. QED
      BY <2>2, <3>1, NothingCarried
  <2>4. Looped(c, live, T) = TakeLevel(c, live, Looped(c, live, R), l)
    BY <2>3, LoopUnfolds
  <2>5. /\ l \in Levels(c) /\ T = R \cup {l}
        /\ R \in SUBSET Levels(c) /\ \A k \in R : k < l
        /\ LowLevels(c, R)
    <3>. HIDE DEF l
    <3>1. l = Highest(T)
      BY DEF l
    <3>. HIDE DEF R
    <3>2. R = T \ {l}
      BY DEF R
    <3>3. T = R \cup {l} /\ ComesAfter(c, R, l)
      BY <2>2, <2>3, <3>1, <3>2, HighestComesLast
    <3>. QED
      BY <3>3 DEF ComesAfter
  <2>6. Cardinality(R) \in Nat /\ Cardinality(R) < n /\ n \in Nat
    <3>1. l \in T /\ IsFiniteSet(T)
      BY <1>1, <2>5
    <3>2. Cardinality(R) = Cardinality(T) - 1
      BY <3>1, FS_RemoveElement
    <3>. QED
      BY <1>1, <2>2, <2>5, <3>2
  <2>7. Carried(c, live, R, Looped(c, live, R))
    <3>. SUFFICES ASSUME Left(R) PROVE FALSE
      OBVIOUS
    <3>1. Cardinality(R) \in Bad
      BY <2>5, <2>6 DEF Bad
    <3>2. n <= Cardinality(R)
      BY <2>1, <3>1
    <3>. QED
      BY <2>6, <3>2
  <2>8. Carried(c, live, T, TakeLevel(c, live, Looped(c, live, R), l))
    <3>. DEFINE at == Looped(c, live, R)
    <3>. HIDE DEF at, l
    <3>1. l = Highest(T)
      BY DEF l
    <3>. HIDE DEF R
    <3>2. R = T \ {l}
      BY DEF R
    <3>3. Carried(c, live, R, at)
      BY <2>7 DEF at
    <3>4. Carried(c, live, T, TakeLevel(c, live, at, l))
      BY <2>2, <2>3, <3>1, <3>2, <3>3, LevelIsCarried
    <3>. QED
      BY <3>4 DEF at
  <2>. QED
    BY <2>2, <2>4, <2>8
<1>3. S \in SUBSET Levels(c)
  BY DEF LowLevels
<1>. QED
  BY <1>1, <1>2, <1>3

\* The last pot ends at the highest stake, any other at its own level.
LEMMA LoopEndsPots ==
  ASSUME NEW c \in [Seats -> Nat], NEW live, NEW at,
         Levels(c) # {}, Carried(c, live, Levels(c), at),
         NEW i \in 1 .. Len(at.pots), NEW level, level = at.pots[i].cappedAt
  PROVE  /\ level \in PotLevels(c, live)
         /\ (IF i < Len(at.pots) THEN level ELSE at.prev) = TopOfPot(c, live, level)
         /\ (\E k \in PotLevels(c, live) : k < level) <=> i # 1
<1>. DEFINE n == Len(at.pots)
<1>1. /\ level \in PotLevels(c, live) /\ PotLevels(c, live) \in SUBSET Levels(c)
      /\ Levels(c) \in SUBSET Nat /\ level \in Nat
      /\ n \in Nat /\ i \in Nat
  BY LevelsType DEF Carried, PotLevels
<1>2. \A j \in 1 .. n : at.pots[j].cappedAt \in PotLevels(c, live)
  BY DEF Carried
<1>3. \A k \in PotLevels(c, live) : \E j \in 1 .. n : at.pots[j].cappedAt = k
  BY <1>1 DEF Carried
<1>4. \A j, k \in 1 .. n : j < k => at.pots[j].cappedAt < at.pots[k].cappedAt
  BY DEF Carried
<1>5. (\E k \in PotLevels(c, live) : k > level) <=> i < n
  <2>1. CASE i < n
    <3>1. i + 1 \in 1 .. n /\ i < i + 1
      BY <1>1, <2>1
    <3>2. at.pots[i + 1].cappedAt > level /\ at.pots[i + 1].cappedAt \in PotLevels(c, live)
      BY <1>1, <1>2, <1>4, <3>1
    <3>. QED
      BY <2>1, <3>2
  <2>2. CASE ~(i < n)
    <3>1. i = n
      BY <1>1, <2>2
    <3>2. ASSUME NEW k \in PotLevels(c, live) PROVE ~(k > level)
      <4>1. PICK j \in 1 .. n : at.pots[j].cappedAt = k
        BY <1>3
      <4>2. j = i \/ j < i
        BY <1>1, <3>1
      <4>3. k = level \/ k < level
        BY <1>4, <4>1, <4>2
      <4>. QED
        BY <1>1, <4>3
    <3>. QED
      BY <2>2, <3>2
  <2>. QED
    BY <2>1, <2>2
<1>6. (\E k \in PotLevels(c, live) : k < level) <=> i # 1
  <2>1. CASE i = 1
    <3>1. ASSUME NEW k \in PotLevels(c, live) PROVE ~(k < level)
      <4>1. PICK j \in 1 .. n : at.pots[j].cappedAt = k
        BY <1>3
      <4>2. j = i \/ i < j
        BY <1>1, <2>1
      <4>3. k = level \/ level < k
        BY <1>4, <4>1, <4>2
      <4>. QED
        BY <1>1, <4>3
    <3>. QED
      BY <2>1, <3>1
  <2>2. CASE i # 1
    <3>1. 1 \in 1 .. n /\ 1 < i
      BY <1>1, <2>2
    <3>2. at.pots[1].cappedAt < level /\ at.pots[1].cappedAt \in PotLevels(c, live)
      BY <1>2, <1>4, <3>1
    <3>. QED
      BY <2>2, <3>2
  <2>. QED
    BY <2>1, <2>2
<1>7. at.prev = Highest(Levels(c))
  <2>. DEFINE A == {0} \cup Levels(c)
  <2>1. Highest(Levels(c)) \in Levels(c) /\ \A k \in Levels(c) : k <= Highest(Levels(c))
    BY LevelsFinite
  <2>2. A \in SUBSET Nat /\ Highest(Levels(c)) \in A /\ \A k \in A : k <= Highest(Levels(c))
    BY <1>1, <2>1
  <2>3. at.prev = Highest(A)
    BY DEF Carried
  <2>. HIDE DEF A
  <2>. QED
    BY <2>2, <2>3, HighestIs
<1>. QED
  BY <1>1, <1>5, <1>6, <1>7 DEF TopOfPot

\* buildPots makes the pots of the formula, whoever has folded.
LEMMA LoopMakesThePots ==
  ASSUME NEW c \in [Seats -> Nat], NEW live \in SUBSET Contributors(c), live # {}, NEW ante \in Nat
  PROVE  LoopAgrees(c, live, ante)
<1>. DEFINE S == Levels(c)
            at == Looped(c, live, S)
            n == Len(at.pots)
            pots == LoopedPots(c, live, ante)
<1>1. LowLevels(c, S) /\ S # {}
  BY DEF LowLevels, Levels
<1>2. Carried(c, live, S, at)
  <2>. HIDE DEF S
  <2>. QED
    BY <1>1, LoopCarries
<1>. HIDE DEF at
<1>3. /\ at.pots \in Seq(PotRecords) /\ at.pots # <<>> /\ n \in Nat /\ n >= 1
      /\ DOMAIN at.pots = 1 .. n /\ 1 \in 1 .. n
      /\ \A i \in 1 .. n : at.pots[i] \in PotRecords
  BY <1>1, <1>2 DEF Carried
<1>4. pots = [at.pots EXCEPT ![1].amount = @ + ante]
  BY <1>3 DEF LoopedPots, at
<1>. HIDE DEF pots
<1>5. /\ DOMAIN pots = 1 .. n
      /\ \A i \in 1 .. n : /\ pots[i].cappedAt = at.pots[i].cappedAt
                           /\ pots[i].eligible = at.pots[i].eligible
                           /\ pots[i].amount = at.pots[i].amount + (IF i = 1 THEN ante ELSE 0)
  <2>1. DOMAIN pots = 1 .. n
    BY <1>3, <1>4
  <2>2. ASSUME NEW i \in 1 .. n
        PROVE  /\ pots[i].cappedAt = at.pots[i].cappedAt
               /\ pots[i].eligible = at.pots[i].eligible
               /\ pots[i].amount = at.pots[i].amount + (IF i = 1 THEN ante ELSE 0)
    <3>. DEFINE p == at.pots[i]
    <3>1. p \in PotRecords
      BY <1>3
    <3>2. pots[i] = IF i = 1 THEN [p EXCEPT !.amount = @ + ante] ELSE p
      BY <1>3, <1>4
    <3>. HIDE DEF p
    <3>3. /\ pots[i].cappedAt = p.cappedAt /\ pots[i].eligible = p.eligible
          /\ pots[i].amount = p.amount + (IF i = 1 THEN ante ELSE 0)
      BY <3>1, <3>2 DEF PotRecords
    <3>. QED
      BY <3>3 DEF p
  <2>. QED
    BY <2>1, <2>2
<1>6. ASSUME NEW i \in 1 .. n
      PROVE  /\ at.pots[i].cappedAt \in PotLevels(c, live)
             /\ pots[i].eligible = Eligible(c, live, pots[i].cappedAt)
             /\ pots[i].amount = PotAmount(c, live, ante, pots[i].cappedAt)
  <2>. DEFINE level == at.pots[i].cappedAt
              top == TopOfPot(c, live, level)
              below == LevelBelow(c, level)
  <2>1. /\ level \in PotLevels(c, live)
        /\ (IF i < n THEN level ELSE at.prev) = top
        /\ (\E k \in PotLevels(c, live) : k < level) <=> i # 1
    <3>. HIDE DEF level
    <3>1. level = at.pots[i].cappedAt
      BY DEF level
    <3>. QED
      BY <1>1, <1>2, <3>1, LoopEndsPots
  <2>2. at.pots[i].amount = UpTo(c, top) - UpTo(c, below)
    <3>1. at.pots[i].amount = UpTo(c, IF i < n THEN level ELSE at.prev) - UpTo(c, below)
      BY <1>2 DEF Carried
    <3>. QED
      BY <2>1, <3>1
  <2>3. pots[i].eligible = Eligible(c, live, level) /\ pots[i].cappedAt = level
    BY <1>2, <1>5 DEF Carried
  <2>4. top \in Nat /\ below \in Nat
    BY <2>1, TopOfPotType, LevelBelowType DEF PotLevels
  <2>5. SeatSum([s \in Seats |-> Smaller(c[s], top) - Smaller(c[s], below)])
          = UpTo(c, top) - UpTo(c, below)
    <3>. HIDE DEF top, below
    <3>. QED
      BY <2>4, LayerIsBetween
  <2>6. PotAmount(c, live, ante, level) = at.pots[i].amount + (IF i = 1 THEN ante ELSE 0)
    BY <2>1, <2>2, <2>5 DEF PotAmount
  <2>. QED
    BY <1>5, <2>1, <2>3, <2>6
<1>7. {pots[i].cappedAt : i \in DOMAIN pots} = PotLevels(c, live)
  <2>1. \A k \in PotLevels(c, live) : \E i \in 1 .. n : at.pots[i].cappedAt = k
    BY <1>2 DEF Carried, PotLevels
  <2>. QED
    BY <1>5, <1>6, <2>1
<1>. QED
  BY <1>5, <1>6, <1>7 DEF LoopAgrees, pots

-----------------------------------------------------------------------------
(* The table and its drafts.                                               *)

Drafts == TablesIn(Phase \cup {"showdown"})

\* A draft of a hand being played.
Playable(d) ==
  /\ d \in Drafts
  /\ d.phase = "in-hand"
  /\ d.actingSeat \in Seats
  /\ BetCovers(d)
  /\ PaidAlike(d)

\* Once the cards are turned up there is nothing left to decide: fewer than
\* two seats have chips behind and nobody owes a call.
NothingToDecide(d) ==
  /\ ~AtLeastTwo(DealtIn(d))
  /\ \A s \in Seats : d.committedThisStreet[s] >= d.currentBet

InLoop(d) == Playable(d) /\ (d.allInRevealed => NothingToDecide(d))

-----------------------------------------------------------------------------
(* Chips.                                                                  *)

LEMMA CommitType ==
  ASSUME NEW d \in Drafts, NEW s \in Seats, NEW x \in Int, x <= d.stack[s],
         0 <= d.committedThisStreet[s] + x, 0 <= d.committedThisHand[s] + x
  PROVE  Commit(d, s, x) \in Drafts
<1>1. /\ [d.stack EXCEPT ![s] = @ - x] \in [Seats -> Nat]
      /\ [d.committedThisStreet EXCEPT ![s] = @ + x] \in [Seats -> Nat]
      /\ [d.committedThisHand EXCEPT ![s] = @ + x] \in [Seats -> Nat]
  BY DEF Drafts, TablesIn
<1>2. [d.status EXCEPT ![s] = IF d.stack[s] = x THEN "all-in" ELSE @] \in [Seats -> Status]
  BY DEF Drafts, TablesIn, Status
<1>. QED
  BY <1>1, <1>2 DEF Commit, Drafts, TablesIn

LEMMA ReturnUncalledBetType ==
  ASSUME NEW d \in Drafts
  PROVE  /\ ReturnUncalledBet(d) \in Drafts
         /\ ReturnUncalledBet(d).phase = d.phase
<1>. DEFINE c == d.committedThisHand
            excess == UncalledExcess(c, Live(d))
            top == TopContributor(c)
<1>1. c \in [Seats -> Nat]
  BY DEF Drafts, TablesIn
<1>2. excess \in Int /\ (excess > 0 => top \in Seats /\ excess <= c[top])
  BY <1>1, UncalledExcessType
<1>. HIDE DEF excess, top
<1>3. CASE excess > 0
  <2>. DEFINE e == [d EXCEPT !.committedThisHand[top] = @ - excess,
                             !.committedThisStreet[top] = Larger(0, @ - excess),
                             !.stack[top] = @ + excess,
                             !.status[top] = IF @ = "all-in" THEN "active" ELSE @]
  <2>1. /\ [d.committedThisHand EXCEPT ![top] = @ - excess] \in [Seats -> Nat]
        /\ [d.committedThisStreet EXCEPT ![top] = Larger(0, @ - excess)] \in [Seats -> Nat]
        /\ [d.stack EXCEPT ![top] = @ + excess] \in [Seats -> Nat]
    BY <1>2, <1>3 DEF Drafts, TablesIn, Larger
  <2>2. [d.status EXCEPT ![top] = IF @ = "all-in" THEN "active" ELSE @] \in [Seats -> Status]
    BY DEF Drafts, TablesIn, Status
  <2>3. e \in Drafts /\ e.phase = d.phase
    BY <2>1, <2>2 DEF Drafts, TablesIn
  <2>4. ReturnUncalledBet(d) = e
    BY <1>2, <1>3 DEF ReturnUncalledBet, excess, top
  <2>. QED
    BY <2>3, <2>4
<1>4. CASE excess <= 0
  BY <1>4 DEF ReturnUncalledBet, excess
<1>. QED
  BY <1>2, <1>3, <1>4

\* What seat s is paid when W[i] are the winners of the pot capped at seat
\* i's stake.
PaidTo(d, W, s) ==
  [i \in Seats |->
     LET c == d.committedThisHand
     IN  IF c[i] \in PotLevels(c, Live(d)) /\ \A q \in Seats : c[q] = c[i] => i <= q
         THEN ShareOf(PotAmountOf(d, c[i]), W[i], d.buttonSeat, s)
         ELSE 0]

LEMMA PaidToNat ==
  ASSUME NEW d \in Drafts, NEW W \in [Seats -> SUBSET Seats], NEW s \in Seats
  PROVE  SeatSum(PaidTo(d, W, s)) \in Nat
<1>. DEFINE c == d.committedThisHand
<1>1. c \in [Seats -> Nat] /\ d.anteTotal \in Nat
  BY DEF Drafts, TablesIn
<1>2. \A i \in Seats : c[i] \in PotLevels(c, Live(d)) =>
        ShareOf(PotAmountOf(d, c[i]), W[i], d.buttonSeat, s) \in Nat
  BY <1>1, PotAmountNat, ShareOfNat DEF PotAmountOf, PotLevels
<1>3. PaidTo(d, W, s) \in [Seats -> Nat]
  <2>. HIDE DEF c
  <2>. QED  BY <1>2 DEF PaidTo, c
<1>. QED
  BY <1>3, SeatSumNat

\* A hand paid out: it is over, with f added to the stacks.
Paid(d, f) ==
  [d EXCEPT !.stack = [s \in Seats |-> d.stack[s] + f[s]],
            !.phase = "hand-complete",
            !.actingSeat = NoSeat]

LEMMA PaidType ==
  ASSUME NEW d \in Drafts, NEW f \in [Seats -> Nat]
  PROVE  Paid(d, f) \in Tables /\ Paid(d, f).phase = "hand-complete"
<1>1. [s \in Seats |-> d.stack[s] + f[s]] \in [Seats -> Nat]
  BY DEF Drafts, TablesIn
<1>. QED
  BY <1>1 DEF Paid, Drafts, Tables, TablesIn, Phase

\* Whoever w is: with no contender left the engine's CHOOSE is arbitrary.
LEMMA AwardFoldWinType ==
  ASSUME NEW d \in Drafts, NEW w
  PROVE  AwardFoldWin(d, w) \in Tables /\ AwardFoldWin(d, w).phase = "hand-complete"
<1>. DEFINE W == [i \in Seats |-> {w} \cap Seats]
            f == [s \in Seats |-> SeatSum(PaidTo(d, W, s))]
<1>1. W \in [Seats -> SUBSET Seats]
  OBVIOUS
<1>2. f \in [Seats -> Nat]
  <2>. HIDE DEF W
  <2>. QED  BY <1>1, PaidToNat
<1>3. \A s \in Seats : Winnings(d, LAMBDA level : {w}, s) = f[s]
  <2>1. CASE w \in Seats
    <3>1. {w} \cap Seats = {w}
      BY <2>1
    <3>. QED
      BY <3>1 DEF Winnings, SumOverPots, PaidTo
  <2>2. CASE w \notin Seats
    <3>1. \A s \in Seats : \A amount :
            /\ ShareOf(amount, {w}, d.buttonSeat, s) = 0
            /\ ShareOf(amount, {w} \cap Seats, d.buttonSeat, s) = 0
      BY <2>2 DEF ShareOf
    <3>. QED
      BY <3>1 DEF Winnings, SumOverPots, PaidTo
  <2>. QED
    BY <2>1, <2>2
<1>4. AwardFoldWin(d, w) = Paid(d, f)
  <2>. HIDE DEF f
  <2>. QED  BY <1>3 DEF AwardFoldWin, PayOut, Paid
<1>. HIDE DEF f
<1>. QED
  BY <1>2, <1>4, PaidType

LEMMA RunShowdownType ==
  ASSUME NEW d \in Drafts, NEW rank
  PROVE  RunShowdown(d, rank) \in Tables /\ RunShowdown(d, rank).phase = "hand-complete"
<1>. DEFINE best(level) ==
              LET E == Eligible(d.committedThisHand, Live(d), level)
              IN  {s \in E : \A q \in E : rank[s] <= rank[q]}
            W == [i \in Seats |-> best(d.committedThisHand[i])]
            f == [s \in Seats |-> SeatSum(PaidTo(d, W, s))]
<1>1. W \in [Seats -> SUBSET Seats]
  BY DEF Eligible, Live
<1>2. f \in [Seats -> Nat]
  <2>. HIDE DEF W
  <2>. QED  BY <1>1, PaidToNat
<1>3. \A s \in Seats : Winnings(d, best, s) = f[s]
  BY DEF Winnings, SumOverPots, PaidTo
<1>4. RunShowdown(d, rank) = Paid(d, f)
  <2>. HIDE DEF f
  <2>. QED  BY <1>3 DEF RunShowdown, PayOut, Paid
<1>. HIDE DEF f
<1>. QED
  BY <1>2, <1>4, PaidType

-----------------------------------------------------------------------------
(* The street loop.                                                        *)

\* With nobody left to ask, every seat that can bet has matched the bet.
LEMMA NobodyPendingAllPaid ==
  ASSUME NEW d \in Drafts, Pending(d) = {}, NEW s \in Seats, d.status[s] = "active"
  PROVE  d.committedThisStreet[s] >= d.currentBet
<1>1. d.committedThisStreet[s] \in Nat /\ d.currentBet \in Nat
  BY DEF Drafts, TablesIn
<1>. QED
  BY <1>1 DEF Pending, NeedsToAct

LEMMA DealNextStreetType ==
  ASSUME NEW d \in Drafts
  PROVE  /\ DealNextStreet(d) \in Drafts
         /\ DealNextStreet(d).street = NextStreet(d.street)
         /\ DealNextStreet(d).phase = d.phase
         /\ DealNextStreet(d).actingSeat = d.buttonSeat
         /\ DealNextStreet(d).currentBet = 0
         /\ DealNextStreet(d).committedThisStreet = [s \in Seats |-> 0]
         /\ DealNextStreet(d).committedThisHand = d.committedThisHand
         /\ DealNextStreet(d).status = d.status
         /\ DealNextStreet(d).stack = d.stack
         /\ DealNextStreet(d).allInRevealed = (d.allInRevealed \/ ~AtLeastTwo(DealtIn(d)))
<1>1. [s \in Seats |-> d.hasActedThisRound[s] /\ d.status[s] # "active"] \in [Seats -> BOOLEAN]
  OBVIOUS
<1>2. NextStreet(d.street) \in Street
  BY DEF NextStreet, Street
<1>3. (d.allInRevealed \/ ~AtLeastTwo(DealtIn(d))) \in BOOLEAN
  OBVIOUS
<1>4. BigBlind \in Nat
  BY ConfigAssumption
<1>. QED
  BY <1>1, <1>2, <1>3, <1>4 DEF DealNextStreet, Drafts, TablesIn

LEMMA DealNextStreetInLoop ==
  ASSUME NEW d, InLoop(d), Pending(d) = {}
  PROVE  InLoop(DealNextStreet(d))
<1>. DEFINE e == DealNextStreet(d)
<1>1. d \in Drafts /\ d.phase = "in-hand" /\ BetCovers(d) /\ PaidAlike(d)
  BY DEF InLoop, Playable
<1>2. e \in Drafts /\ e.phase = "in-hand" /\ e.actingSeat \in Seats
  BY <1>1, DealNextStreetType DEF Drafts, TablesIn
<1>3. BetCovers(e)
  BY <1>1, DealNextStreetType DEF BetCovers
<1>4. PaidAlike(e)
  <2>. SUFFICES ASSUME NEW s \in Seats, NEW q \in Seats, d.status[s] = "active"
                PROVE  d.committedThisHand[q] <= d.committedThisHand[s]
    BY <1>1, DealNextStreetType DEF PaidAlike, Drafts, TablesIn
  <2>1. d.committedThisStreet[q] <= d.committedThisStreet[s]
    BY <1>1, NobodyPendingAllPaid DEF BetCovers, Drafts, TablesIn
  <2>2. d.committedThisHand[q] - d.committedThisStreet[q]
          <= d.committedThisHand[s] - d.committedThisStreet[s]
    BY <1>1 DEF PaidAlike
  <2>. QED
    BY <1>1, <2>1, <2>2 DEF Drafts, TablesIn
<1>5. e.allInRevealed => NothingToDecide(e)
  <2>1. DealtIn(e) = DealtIn(d)
    BY <1>1, DealNextStreetType DEF DealtIn
  <2>2. \A s \in Seats : e.committedThisStreet[s] >= e.currentBet
    BY <1>1, DealNextStreetType
  <2>. QED
    BY <1>1, <2>1, <2>2, DealNextStreetType DEF InLoop, NothingToDecide
<1>. QED
  BY <1>2, <1>3, <1>4, <1>5 DEF InLoop, Playable

\* One turn of the loop: it goes round again only with the next street dealt.
LEMMA AdvanceOnceStep ==
  ASSUME NEW d, InLoop(d)
  PROVE  /\ AdvanceOnce(d).running \in BOOLEAN
         /\ AdvanceOnce(d).running =>
              /\ InLoop(AdvanceOnce(d).draft)
              /\ d.street # "river"
              /\ AdvanceOnce(d).draft.street = NextStreet(d.street)
<1>1. CASE AtLeastTwo(Contending(d)) /\ Pending(d) = {} /\ d.street # "river"
  <2>1. AdvanceOnce(d) = [draft |-> DealNextStreet(d), running |-> TRUE]
    BY <1>1 DEF AdvanceOnce
  <2>2. InLoop(DealNextStreet(d)) /\ DealNextStreet(d).street = NextStreet(d.street)
    BY <1>1, DealNextStreetInLoop, DealNextStreetType DEF InLoop, Playable
  <2>. QED
    BY <1>1, <2>1, <2>2
<1>2. CASE ~(AtLeastTwo(Contending(d)) /\ Pending(d) = {} /\ d.street # "river")
  <2>1. AdvanceOnce(d).running = FALSE
    BY <1>2 DEF AdvanceOnce
  <2>. QED
    BY <2>1
<1>. QED
  BY <1>1, <1>2

\* The state of the loop between two turns.
Going(r) ==
  /\ r.running \in BOOLEAN
  /\ r.running => InLoop(r.draft)

LEMMA AgainStep ==
  ASSUME NEW r, Going(r)
  PROVE  /\ Going(Again(r))
         /\ Again(r).running =>
              /\ r.running
              /\ r.draft.street # "river"
              /\ Again(r).draft.street = NextStreet(r.draft.street)
  BY AdvanceOnceStep DEF Going, Again

\* There are four streets, so the loop has ended when `advance` returns.
LEMMA LoopEnds ==
  ASSUME NEW d, InLoop(d)
  PROVE  ~Again(Again(Again(AdvanceOnce(d)))).running
<1>. DEFINE r1 == AdvanceOnce(d)
            r2 == Again(r1)
            r3 == Again(r2)
            r4 == Again(r3)
<1>1. d.street \in Street
  BY DEF InLoop, Playable, Drafts, TablesIn
<1>2. Going(r1) /\ (r1.running => d.street # "river" /\ r1.draft.street = NextStreet(d.street))
  BY AdvanceOnceStep DEF Going
<1>3. Going(r2) /\ Going(r3) /\ Going(r4)
  BY <1>2, AgainStep
<1>4. ~r4.running
  <2>. SUFFICES ASSUME r4.running PROVE FALSE
    OBVIOUS
  <2>1. r3.running /\ r3.draft.street # "river"
    BY <1>3, AgainStep
  <2>2. r2.running /\ r2.draft.street # "river" /\ r3.draft.street = NextStreet(r2.draft.street)
    BY <1>3, <2>1, AgainStep
  <2>3. r1.running /\ r1.draft.street # "river" /\ r2.draft.street = NextStreet(r1.draft.street)
    BY <1>2, <2>2, AgainStep
  <2>. QED
    BY <1>1, <1>2, <2>1, <2>2, <2>3 DEF NextStreet, Street
<1>. QED
  BY <1>4

-----------------------------------------------------------------------------
(* Between two actions of a hand.                                          *)

Playing(d) == Playable(d) /\ ~d.allInRevealed

LEMMA ActedPlaying ==
  ASSUME NEW d, Playing(d), NEW s \in Seats
  PROVE  Playing(Acted(d, s))
<1>1. d \in Drafts
  BY DEF Playing, Playable
<1>2. [d.hasActedThisRound EXCEPT ![s] = TRUE] \in [Seats -> BOOLEAN]
  BY <1>1 DEF Drafts, TablesIn
<1>3. [d.lastActedAtBet EXCEPT ![s] = d.currentBet] \in [Seats -> Nat]
  BY <1>1 DEF Drafts, TablesIn
<1>4. Acted(d, s) \in Drafts
  BY <1>1, <1>2, <1>3 DEF Acted, Drafts, TablesIn
<1>. QED
  BY <1>1, <1>4 DEF Acted, Playing, Playable, BetCovers, PaidAlike, Drafts, TablesIn

\* What a bet of x chips by seat s changes, e being the draft after it.
Betted(d, s, x, e) ==
  /\ e.phase = d.phase /\ e.actingSeat = d.actingSeat /\ e.street = d.street
  /\ e.currentBet = d.currentBet /\ e.allInRevealed = d.allInRevealed
  /\ e.committedThisStreet[s] = d.committedThisStreet[s] + x
  /\ \A q \in Seats \ {s} :
       /\ e.committedThisStreet[q] = d.committedThisStreet[q]
       /\ e.stack[q] = d.stack[q]
       /\ e.status[q] = d.status[q]
  /\ \A q \in Seats :
       /\ e.status[q] = "active" => d.status[q] = "active"
       /\ e.committedThisHand[q] - e.committedThisStreet[q]
            = d.committedThisHand[q] - d.committedThisStreet[q]

LEMMA CommitBets ==
  ASSUME NEW d \in Drafts, NEW s \in Seats, NEW x \in Nat, x <= d.stack[s]
  PROVE  Commit(d, s, x) \in Drafts /\ Betted(d, s, x, Commit(d, s, x))
<1>. DEFINE e == Commit(d, s, x)
<1>1. e \in Drafts
  <2>1. 0 <= d.committedThisStreet[s] + x /\ 0 <= d.committedThisHand[s] + x
    BY DEF Drafts, TablesIn
  <2>. QED
    BY <2>1, CommitType
<1>2. /\ e.phase = d.phase /\ e.actingSeat = d.actingSeat /\ e.street = d.street
      /\ e.currentBet = d.currentBet /\ e.allInRevealed = d.allInRevealed
      /\ e.stack = [d.stack EXCEPT ![s] = @ - x]
      /\ e.committedThisStreet = [d.committedThisStreet EXCEPT ![s] = @ + x]
      /\ e.committedThisHand = [d.committedThisHand EXCEPT ![s] = @ + x]
      /\ e.status = [d.status EXCEPT ![s] = IF d.stack[s] = x THEN "all-in" ELSE @]
  BY DEF Commit, Drafts, TablesIn
<1>. HIDE DEF e
<1>3. /\ d.stack \in [Seats -> Nat] /\ d.committedThisStreet \in [Seats -> Nat]
      /\ d.committedThisHand \in [Seats -> Nat] /\ d.status \in [Seats -> Status]
  BY DEF Drafts, TablesIn
<1>. QED
  BY <1>1, <1>2, <1>3 DEF Betted, e

\* Putting in no more than there is to call.
LEMMA CommitPlaying ==
  ASSUME NEW d, Playing(d), NEW s \in Seats, NEW x \in Nat, x <= d.stack[s],
         d.committedThisStreet[s] + x <= d.currentBet
  PROVE  Playing(Commit(d, s, x))
<1>. DEFINE e == Commit(d, s, x)
<1>1. d \in Drafts /\ d.phase = "in-hand" /\ d.actingSeat \in Seats
      /\ BetCovers(d) /\ PaidAlike(d) /\ ~d.allInRevealed
  BY DEF Playing, Playable
<1>2. /\ e \in Drafts /\ e.phase = d.phase /\ e.actingSeat = d.actingSeat
      /\ e.currentBet = d.currentBet /\ e.allInRevealed = d.allInRevealed
  BY <1>1, CommitBets DEF Betted
<1>3. BetCovers(e)
  BY <1>1, CommitBets DEF BetCovers, Betted
<1>4. PaidAlike(e)
  BY <1>1, CommitBets DEF PaidAlike, Betted
<1>. QED
  BY <1>1, <1>2, <1>3, <1>4 DEF Playing, Playable

LEMMA RaisePlaying ==
  ASSUME NEW d, Playing(d), NEW s \in Seats, NEW to \in Nat,
         d.currentBet < to, to <= MaxCommit(d, s)
  PROVE  Playing(RaiseTo(d, s, to))
<1>. DEFINE x    == to - d.committedThisStreet[s]
            e    == Commit(d, s, x)
            put  == [e EXCEPT !.currentBet = to]
            by   == to - d.currentBet
            full == [put EXCEPT !.lastFullRaiseIncrement = by, !.lastFullBetAmount = to]
<1>1. d \in Drafts /\ d.phase = "in-hand" /\ d.actingSeat \in Seats
      /\ BetCovers(d) /\ PaidAlike(d) /\ ~d.allInRevealed
  BY DEF Playing, Playable
<1>2. x \in Nat /\ x <= d.stack[s] /\ by \in Nat /\ d.committedThisStreet[s] + x = to
  BY <1>1 DEF MaxCommit, BetCovers, Drafts, TablesIn
<1>. HIDE DEF x, by
<1>3. /\ e \in Drafts /\ e.phase = "in-hand" /\ e.actingSeat \in Seats /\ ~e.allInRevealed
      /\ PaidAlike(e)
  BY <1>1, <1>2, CommitBets DEF PaidAlike, Betted
<1>4. \A q \in Seats : e.committedThisStreet[q] <= to
  <2>1. Betted(d, s, x, e)
    BY <1>1, <1>2, CommitBets
  <2>2. d.currentBet \in Nat /\ d.committedThisStreet \in [Seats -> Nat]
    BY <1>1 DEF Drafts, TablesIn
  <2>. HIDE DEF e
  <2>3. ASSUME NEW q \in Seats PROVE e.committedThisStreet[q] <= to
    <3>1. CASE q = s
      BY <3>1, <1>2, <2>1 DEF Betted
    <3>2. CASE q # s
      BY <3>2, <1>1, <2>1, <2>2 DEF Betted, BetCovers
    <3>. QED
      BY <3>1, <3>2
  <2>. QED
    BY <2>3
<1>. HIDE DEF e
<1>5. Playing(put)
  BY <1>3, <1>4 DEF Playing, Playable, BetCovers, PaidAlike, Drafts, TablesIn
<1>6. Playing(full)
  BY <1>2, <1>3, <1>4 DEF Playing, Playable, BetCovers, PaidAlike, Drafts, TablesIn
<1>7. RaiseTo(d, s, to) = Acted(IF by >= d.lastFullRaiseIncrement THEN full ELSE put, s)
  BY DEF RaiseTo, by, x, e
<1>. HIDE DEF put, full
<1>. QED
  BY <1>5, <1>6, <1>7, ActedPlaying

-----------------------------------------------------------------------------
(* Starting a hand.                                                        *)

LEMMA AssignType ==
  ASSUME NEW R \in SUBSET Seats, R # {}, NEW last \in Seats \cup {NoSeat}
  PROVE  /\ AssignButtonAndBlinds(R, last).bb \in R
         /\ AssignButtonAndBlinds(R, last).sb \in R
         /\ AssignButtonAndBlinds(R, last).button \in R
<1>. DEFINE headsUp == Cardinality(R) = 2
            first   == FirstOf(R)
            bb == IF last # NoSeat
                  THEN NextInRing(R, last)
                  ELSE IF headsUp THEN NextInRing(R, first)
                                  ELSE NextInRing(R, NextInRing(R, first))
            sb == IF headsUp THEN NextInRing(R, bb) ELSE PrevInRing(R, bb)
            button == IF headsUp THEN sb ELSE PrevInRing(R, sb)
<1>1. first \in R
  BY FirstOfType
<1>. HIDE DEF headsUp, first
<1>2. bb \in R
  BY <1>1, NextInRingType
<1>. HIDE DEF bb
<1>3. sb \in R
  BY <1>2, NextInRingType, PrevInRingType
<1>. HIDE DEF sb
<1>4. button \in R
  BY <1>3, PrevInRingType
<1>. HIDE DEF button
<1>5. AssignButtonAndBlinds(R, last)
        = [bb |-> bb, sb |-> sb, button |-> button, headsUp |-> headsUp]
  BY DEF AssignButtonAndBlinds, bb, sb, button, headsUp, first
<1>. QED
  BY <1>2, <1>3, <1>4, <1>5

\* A draft on which the forced bets are being posted: what a seat has put
\* into the hand is what it has put into the first street.
Opening(d) ==
  /\ d \in Drafts
  /\ ~d.allInRevealed
  /\ d.committedThisHand = d.committedThisStreet

LEMMA ResetOpens ==
  ASSUME NEW d \in Tables
  PROVE  /\ ResetSeats(d) \in Drafts
         /\ ResetSeats(d).committedThisHand = [s \in Seats |-> 0]
         /\ ResetSeats(d).committedThisStreet = [s \in Seats |-> 0]
<1>1. [s \in Seats |->
         IF d.status[s] \notin {"folded", "all-in"} THEN d.status[s]
         ELSE IF d.stack[s] > 0 THEN "active" ELSE "sitting-out"] \in [Seats -> Status]
  BY DEF Tables, TablesIn, Status
<1>. QED
  BY <1>1 DEF ResetSeats, Drafts, Tables, TablesIn, Phase

LEMMA PostAnteOpens ==
  ASSUME NEW d, Opening(d), NEW s \in Seats
  PROVE  Opening(PostAnte(d, s)) /\ PostAnte(d, s).committedThisStreet = d.committedThisStreet
<1>. DEFINE a == Smaller(d.ante, d.stack[s])
<1>1. d \in Drafts
  BY DEF Opening
<1>2. a \in Nat /\ [d.stack EXCEPT ![s] = @ - a] \in [Seats -> Nat]
  BY <1>1, ConfigAssumption DEF Smaller, Drafts, TablesIn
<1>. HIDE DEF a
<1>3. PostAnte(d, s) = [d EXCEPT !.stack = [d.stack EXCEPT ![s] = @ - a], !.anteTotal = a]
  BY <1>1 DEF PostAnte, a, Drafts, TablesIn
<1>. QED
  BY <1>1, <1>2, <1>3 DEF Opening, Drafts, TablesIn

\* Chips put in on the first street, up to what the seat has.
LEMMA CommitOpens ==
  ASSUME NEW d, Opening(d), NEW s \in Seats, NEW x \in Int,
         x <= d.stack[s], 0 <= d.committedThisStreet[s] + x
  PROVE  /\ Opening(Commit(d, s, x))
         /\ Commit(d, s, x).currentBet = d.currentBet
         /\ Commit(d, s, x).committedThisStreet[s] = d.committedThisStreet[s] + x
         /\ \A q \in Seats \ {s} :
              Commit(d, s, x).committedThisStreet[q] = d.committedThisStreet[q]
<1>1. d \in Drafts /\ d.committedThisHand = d.committedThisStreet
  BY DEF Opening
<1>2. Commit(d, s, x) \in Drafts
  BY <1>1, CommitType
<1>3. /\ Commit(d, s, x).committedThisStreet = [d.committedThisStreet EXCEPT ![s] = @ + x]
      /\ Commit(d, s, x).committedThisHand = [d.committedThisHand EXCEPT ![s] = @ + x]
      /\ Commit(d, s, x).allInRevealed = d.allInRevealed
      /\ Commit(d, s, x).currentBet = d.currentBet
  BY <1>1 DEF Commit, Drafts, TablesIn
<1>4. d.committedThisStreet \in [Seats -> Nat]
  BY <1>1 DEF Drafts, TablesIn
<1>. QED
  BY <1>1, <1>2, <1>3, <1>4 DEF Opening

LEMMA PostBlindOpens ==
  ASSUME NEW d, Opening(d), NEW s \in Seats, NEW blind \in Nat
  PROVE  /\ Opening(PostBlind(d, s, blind))
         /\ \A q \in Seats \ {s} :
              PostBlind(d, s, blind).committedThisStreet[q] = d.committedThisStreet[q]
<1>1. /\ Smaller(blind, d.stack[s]) \in Nat
      /\ Smaller(blind, d.stack[s]) <= d.stack[s]
      /\ 0 <= d.committedThisStreet[s] + Smaller(blind, d.stack[s])
  BY DEF Opening, Smaller, Drafts, TablesIn
<1>. QED
  BY <1>1, CommitOpens DEF PostBlind

LEMMA OpenBettingOpens ==
  ASSUME NEW d, Opening(d), NEW sb \in Seats, NEW bb \in Seats,
         \A q \in Seats \ {sb, bb} : d.committedThisStreet[q] = 0
  PROVE  Opening(OpenBetting(d, sb, bb)) /\ BetCovers(OpenBetting(d, sb, bb))
<1>. DEFINE opening == Larger(d.committedThisStreet[sb], d.committedThisStreet[bb])
<1>1. d \in Drafts /\ BigBlind \in Nat
  BY ConfigAssumption DEF Opening
<1>2. opening \in Nat /\ \A q \in Seats : d.committedThisStreet[q] <= opening
  <2>1. d.committedThisStreet \in [Seats -> Nat]
    BY <1>1 DEF Drafts, TablesIn
  <2>2. /\ opening \in Nat /\ 0 <= opening
        /\ d.committedThisStreet[sb] <= opening /\ d.committedThisStreet[bb] <= opening
    BY <2>1 DEF Larger
  <2>. QED
    BY <2>2
<1>. HIDE DEF opening
<1>3. /\ OpenBetting(d, sb, bb) \in Drafts
      /\ OpenBetting(d, sb, bb).currentBet = opening
      /\ OpenBetting(d, sb, bb).allInRevealed = d.allInRevealed
      /\ OpenBetting(d, sb, bb).committedThisHand = d.committedThisHand
      /\ OpenBetting(d, sb, bb).committedThisStreet = d.committedThisStreet
  <2>. DEFINE e == [d EXCEPT !.currentBet = opening,
                             !.lastFullRaiseIncrement = BigBlind,
                             !.lastFullBetAmount = opening]
  <2>1. OpenBetting(d, sb, bb) = e
    BY DEF OpenBetting, opening
  <2>2. e \in Drafts /\ e.currentBet = opening /\ e.allInRevealed = d.allInRevealed
        /\ e.committedThisHand = d.committedThisHand
        /\ e.committedThisStreet = d.committedThisStreet
    BY <1>1, <1>2 DEF Drafts, TablesIn
  <2>. QED
    BY <2>1, <2>2
<1>. QED
  BY <1>2, <1>3 DEF Opening, BetCovers

LEMMA PostStraddleOpens ==
  ASSUME NEW d, Opening(d), BetCovers(d), NEW pos
  PROVE  Opening(PostStraddle(d, pos)) /\ BetCovers(PostStraddle(d, pos))
<1>. DEFINE utg      == NextInRing(Contending(d), pos.bb)
            straddle == Smaller(2 * BigBlind, d.stack[utg] + d.committedThisStreet[utg])
            x        == straddle - d.committedThisStreet[utg]
            c        == Commit(d, utg, x)
            posted   == [c EXCEPT !.straddleSeat = utg]
            raised   == [posted EXCEPT !.currentBet = straddle,
                                       !.lastFullRaiseIncrement = straddle,
                                       !.lastFullBetAmount = straddle]
<1>1. CASE ~d.straddleEnabled \/ pos.headsUp \/ utg \notin DealtIn(d)
  BY <1>1 DEF PostStraddle
<1>2. CASE ~(~d.straddleEnabled \/ pos.headsUp \/ utg \notin DealtIn(d))
  <2>1. utg \in Seats /\ d \in Drafts /\ BigBlind \in Nat
    BY <1>2, ConfigAssumption DEF DealtIn, Opening
  <2>. HIDE DEF utg
  <2>2. /\ straddle \in Nat /\ x \in Int /\ x <= d.stack[utg]
        /\ d.committedThisStreet[utg] + x = straddle
    BY <2>1 DEF Smaller, Drafts, TablesIn
  <2>. HIDE DEF straddle, x
  <2>3. /\ Opening(c)
        /\ c.currentBet = d.currentBet
        /\ c.committedThisStreet[utg] = straddle
        /\ \A q \in Seats \ {utg} : c.committedThisStreet[q] <= d.currentBet
    BY <2>1, <2>2, CommitOpens DEF BetCovers
  <2>. HIDE DEF c
  <2>4. Opening(posted) /\ (straddle <= d.currentBet => BetCovers(posted))
    BY <2>1, <2>3 DEF Opening, BetCovers, Drafts, TablesIn
  <2>5. straddle > d.currentBet => Opening(raised) /\ BetCovers(raised)
    <3>1. /\ d.currentBet \in Nat
          /\ c.committedThisStreet \in [Seats -> Nat]
      BY <2>1, <2>3 DEF Opening, Drafts, TablesIn
    <3>2. straddle > d.currentBet => \A q \in Seats : c.committedThisStreet[q] <= straddle
      BY <2>2, <2>3, <3>1
    <3>. QED
      BY <2>1, <2>2, <2>3, <3>2 DEF Opening, BetCovers, Drafts, TablesIn
  <2>6. PostStraddle(d, pos) = IF straddle <= d.currentBet THEN posted ELSE raised
    BY <1>2 DEF PostStraddle, utg, straddle, x, c
  <2>7. d.currentBet \in Nat
    BY <2>1 DEF Drafts, TablesIn
  <2>. HIDE DEF posted, raised
  <2>. QED
    BY <2>2, <2>4, <2>5, <2>6, <2>7
<1>. QED
  BY <1>1, <1>2

LEMMA PostMissedBigBlindsOpens ==
  ASSUME NEW d, Opening(d), BetCovers(d)
  PROVE  Opening(PostMissedBigBlinds(d)) /\ BetCovers(PostMissedBigBlinds(d))
<1>. DEFINE target == Smaller(BigBlind, d.currentBet)
            owed == [s \in Seats |->
                       IF d.missedBigBlind[s] /\ d.status[s] = "active"
                       THEN Larger(0, Smaller(target - d.committedThisStreet[s], d.stack[s]))
                       ELSE 0]
            missed == [s \in Seats |-> d.missedBigBlind[s] /\ s \notin Contending(d)]
            stack  == [s \in Seats |-> d.stack[s] - owed[s]]
            street == [s \in Seats |-> d.committedThisStreet[s] + owed[s]]
            hand   == [s \in Seats |-> d.committedThisHand[s] + owed[s]]
            status == [s \in Seats |-> IF owed[s] > 0 /\ owed[s] = d.stack[s]
                                       THEN "all-in" ELSE d.status[s]]
            e == [d EXCEPT !.missedBigBlind = missed, !.stack = stack,
                           !.committedThisStreet = street, !.committedThisHand = hand,
                           !.status = status]
<1>1. /\ d \in Drafts /\ d.committedThisHand = d.committedThisStreet /\ BigBlind \in Nat
      /\ ~d.allInRevealed
  BY ConfigAssumption DEF Opening
<1>2. PostMissedBigBlinds(d) = e
  BY DEF PostMissedBigBlinds
<1>3. /\ d.stack \in [Seats -> Nat] /\ d.committedThisStreet \in [Seats -> Nat]
      /\ d.status \in [Seats -> Status] /\ d.currentBet \in Nat
  BY <1>1 DEF Drafts, TablesIn
<1>4. \A s \in Seats : /\ owed[s] \in Nat /\ owed[s] <= d.stack[s]
                       /\ d.committedThisStreet[s] + owed[s] <= d.currentBet
  BY <1>1, <1>3 DEF Smaller, Larger, BetCovers
<1>. HIDE DEF owed, target
<1>5. /\ missed \in [Seats -> BOOLEAN] /\ stack \in [Seats -> Nat]
      /\ street \in [Seats -> Nat] /\ hand \in [Seats -> Nat] /\ status \in [Seats -> Status]
      /\ hand = street
      /\ \A s \in Seats : street[s] <= d.currentBet
  <2>1. missed \in [Seats -> BOOLEAN]
    OBVIOUS
  <2>2. stack \in [Seats -> Nat]
    BY <1>3, <1>4
  <2>3. street \in [Seats -> Nat] /\ hand = street /\ \A s \in Seats : street[s] <= d.currentBet
    BY <1>1, <1>3, <1>4
  <2>4. status \in [Seats -> Status]
    BY <1>3 DEF Status
  <2>. QED
    BY <2>1, <2>2, <2>3, <2>4
<1>. HIDE DEF missed, stack, street, hand, status
<1>6. /\ e \in Drafts /\ e.committedThisHand = hand /\ e.committedThisStreet = street
      /\ e.currentBet = d.currentBet /\ e.allInRevealed = d.allInRevealed
  BY <1>1, <1>5 DEF Drafts, TablesIn
<1>. HIDE DEF e
<1>. QED
  BY <1>1, <1>2, <1>5, <1>6 DEF Opening, BetCovers

LEMMA DealPlays ==
  ASSUME NEW d, Opening(d), BetCovers(d), NEW pos, pos.bb \in Seats
  PROVE  Playing(Deal(d, pos))
<1>. DEFINE first == IF d.straddleSeat # NoSeat THEN d.straddleSeat ELSE pos.bb
            e == [d EXCEPT !.lastBigBlindSeat = pos.bb, !.phase = "in-hand",
                           !.actingSeat = first]
<1>1. d \in Drafts /\ first \in Seats
  BY DEF Opening, Drafts, TablesIn
<1>2. Deal(d, pos) = e
  BY DEF Deal
<1>. HIDE DEF first
<1>3. /\ e \in Drafts /\ e.phase = "in-hand" /\ e.actingSeat \in Seats
      /\ e.committedThisStreet = d.committedThisStreet
      /\ e.committedThisHand = d.committedThisHand
      /\ e.currentBet = d.currentBet /\ e.allInRevealed = d.allInRevealed
  BY <1>1 DEF Drafts, TablesIn, Phase
<1>. HIDE DEF e
<1>4. PaidAlike(e)
  BY <1>3 DEF Opening, PaidAlike, Drafts, TablesIn
<1>. QED
  BY <1>2, <1>3, <1>4 DEF Opening, BetCovers, Playing, Playable

LEMMA PrepareAndDealHandPlays ==
  ASSUME NEW d \in Drafts, DealtIn(d) # {},
         d.committedThisHand = [s \in Seats |-> 0],
         d.committedThisStreet = [s \in Seats |-> 0]
  PROVE  Playing(PrepareAndDealHand(d))
<1>. DEFINE pos   == AssignButtonAndBlinds(DealtIn(d), d.lastBigBlindSeat)
            fresh == [d EXCEPT !.buttonSeat = pos.button, !.street = "preflop",
                               !.allInRevealed = FALSE, !.anteTotal = 0,
                               !.straddleSeat = NoSeat, !.handNumber = @ + 1]
            ante  == PostAnte(fresh, pos.bb)
            small == PostBlind(ante, pos.sb, SmallBlind)
            posted == PostBlind(small, pos.bb, BigBlind)
            big   == [posted EXCEPT !.missedBigBlind[pos.bb] = FALSE]
            open  == OpenBetting(big, pos.sb, pos.bb)
            missed == PostMissedBigBlinds(PostStraddle(open, pos))
<1>1. PrepareAndDealHand(d) = Deal(missed, pos)
  BY DEF PrepareAndDealHand
<1>2. pos.bb \in Seats /\ pos.sb \in Seats /\ pos.button \in Seats
  <2>1. DealtIn(d) \in SUBSET Seats /\ d.lastBigBlindSeat \in Seats \cup {NoSeat}
    BY DEF DealtIn, Drafts, TablesIn
  <2>. QED
    BY <2>1, AssignType
<1>. HIDE DEF pos
<1>3. Opening(fresh) /\ fresh.committedThisStreet = [s \in Seats |-> 0]
  <2>1. d.handNumber + 1 \in Nat
    BY DEF Drafts, TablesIn
  <2>2. fresh \in Drafts
    BY <1>2, <2>1 DEF Drafts, TablesIn, Street
  <2>3. /\ fresh.allInRevealed = FALSE
        /\ fresh.committedThisHand = d.committedThisHand
        /\ fresh.committedThisStreet = d.committedThisStreet
    BY DEF Drafts, TablesIn
  <2>. HIDE DEF fresh
  <2>. QED
    BY <2>2, <2>3 DEF Opening
<1>. HIDE DEF fresh
<1>4. Opening(ante) /\ ante.committedThisStreet = [s \in Seats |-> 0]
  BY <1>2, <1>3, PostAnteOpens
<1>. HIDE DEF ante
<1>5. /\ SmallBlind \in Nat /\ BigBlind \in Nat
  BY ConfigAssumption
<1>6. Opening(small) /\ \A q \in Seats \ {pos.sb} : small.committedThisStreet[q] = 0
  <2>1. \A q \in Seats : ante.committedThisStreet[q] = 0
    BY <1>4
  <2>2. /\ Opening(small)
        /\ \A q \in Seats \ {pos.sb} : small.committedThisStreet[q] = ante.committedThisStreet[q]
    BY <1>2, <1>4, <1>5, PostBlindOpens
  <2>. QED
    BY <2>1, <2>2
<1>. HIDE DEF small
<1>7. Opening(posted) /\ \A q \in Seats \ {pos.sb, pos.bb} : posted.committedThisStreet[q] = 0
  <2>1. /\ Opening(posted)
        /\ \A q \in Seats \ {pos.bb} : posted.committedThisStreet[q] = small.committedThisStreet[q]
    BY <1>2, <1>5, <1>6, PostBlindOpens
  <2>. QED
    BY <1>6, <2>1
<1>. HIDE DEF posted
<1>8. Opening(big) /\ big.committedThisStreet = posted.committedThisStreet
  <2>1. [posted.missedBigBlind EXCEPT ![pos.bb] = FALSE] \in [Seats -> BOOLEAN]
    BY <1>7 DEF Opening, Drafts, TablesIn
  <2>. QED
    BY <1>7, <2>1 DEF Opening, Drafts, TablesIn
<1>. HIDE DEF big
<1>9. Opening(open) /\ BetCovers(open)
  BY <1>2, <1>7, <1>8, OpenBettingOpens
<1>. HIDE DEF open
<1>10. Opening(missed) /\ BetCovers(missed)
  BY <1>9, PostStraddleOpens, PostMissedBigBlindsOpens
<1>. HIDE DEF missed
<1>. QED
  BY <1>1, <1>2, <1>10, DealPlays

-----------------------------------------------------------------------------
(* Who stands on the bet.                                                  *)

\* Seat w is in the hand, has put in the whole bet, and came to the street as
\* dearly as anybody.
Stands(d, w) ==
  /\ w \in Contending(d)
  /\ d.committedThisStreet[w] = d.currentBet
  /\ \A q \in Seats : d.committedThisHand[q] - d.committedThisStreet[q]
                        <= d.committedThisHand[w] - d.committedThisStreet[w]

\* ... and is not asked again unless somebody raises.
Settled(d, w) == Stands(d, w) /\ (d.hasActedThisRound[w] \/ d.status[w] # "active")

\* Going round from the acting seat, w comes after all of R.
After(d, R, w) == \A q \in R : Distance(d.actingSeat, q) <= Distance(d.actingSeat, w)

\* Somebody stands on the bet, and will when the next seat has folded: a seat
\* that is settled, or, while nobody has bet, any other, or the seat that is
\* asked last, the big blind, the small blind when the big blind is short, or
\* the straddle.
BetStands(d) ==
  /\ \E w \in Seats : Stands(d, w)
  /\ \/ \E w \in Seats : Settled(d, w)
     \/ d.currentBet = 0
     \/ \E w \in Seats : Stands(d, w) /\ After(d, Pending(d), w)

\* The same of a draft on which a seat has been asked.
AtRest(d) ==
  /\ d.actingSeat \in Pending(d)
  /\ \/ \E w \in Seats : Settled(d, w)
     \/ d.currentBet = 0
     \/ \E w \in Seats \ {d.actingSeat} :
          Stands(d, w) /\ After(d, Pending(d) \ {d.actingSeat}, w)

\* A seat with a decision that does not owe a call is not the only one with
\* chips behind; the others stand on the bet, or owe.
LEMMA OptionHasOthers ==
  ASSUME NEW d, Playable(d), NEW s \in Pending(d), d.committedThisStreet[s] = d.currentBet
  PROVE  /\ ~d.hasActedThisRound[s]
         /\ Pending(d) = NeedsToAct(d)
         /\ \E q \in Seats \ {s} : d.status[q] = "active"
<1>1. d.currentBet \in Nat /\ d.committedThisStreet \in [Seats -> Nat] /\ s \in Seats
  BY DEF Playable, Drafts, TablesIn, Pending, NeedsToAct
<1>2. AtLeastTwo(DealtIn(d)) /\ ~d.hasActedThisRound[s]
  BY <1>1 DEF Pending, NeedsToAct
<1>3. \E q \in Seats \ {s} : d.status[q] = "active"
  BY <1>2 DEF AtLeastTwo, DealtIn
<1>. QED
  BY <1>2, <1>3 DEF Pending

\* A seat that can still bet and has put in the whole bet stands on it.
LEMMA ActiveStands ==
  ASSUME NEW d, Playable(d), NEW s \in Seats, d.status[s] = "active",
         d.committedThisStreet[s] >= d.currentBet
  PROVE  Stands(d, s)
<1>1. d.currentBet \in Nat /\ d.committedThisStreet \in [Seats -> Nat]
  BY DEF Playable, Drafts, TablesIn
<1>2. d.committedThisStreet[s] = d.currentBet
  BY <1>1 DEF Playable, BetCovers
<1>. QED
  BY <1>2 DEF Stands, Contending, Playable, PaidAlike

\* While a seat is asked, another one stands on the bet.
LEMMA AnotherStands ==
  ASSUME NEW d, Playable(d), AtRest(d)
  PROVE  \E w \in Seats \ {d.actingSeat} : Stands(d, w)
<1>. DEFINE a == d.actingSeat
<1>1. d.currentBet \in Nat /\ d.committedThisStreet \in [Seats -> Nat] /\ a \in Pending(d)
  BY DEF Playable, Drafts, TablesIn, AtRest
<1>2. ASSUME NEW w \in Seats, Settled(d, w)
      PROVE  \E v \in Seats \ {a} : Stands(d, v)
  <2>1. w # a
    BY <1>1, <1>2 DEF Settled, Stands, Pending, NeedsToAct
  <2>. QED
    BY <1>2, <2>1 DEF Settled
<1>3. CASE d.currentBet = 0
  <2>1. d.committedThisStreet[a] = d.currentBet
    BY <1>1, <1>3 DEF Playable, BetCovers
  <2>2. PICK q \in Seats \ {a} : d.status[q] = "active"
    BY <1>1, <2>1, OptionHasOthers
  <2>3. Stands(d, q)
    BY <1>1, <1>3, <2>2, ActiveStands
  <2>. QED
    BY <2>3
<1>. QED
  BY <1>2, <1>3 DEF AtRest

\* A draft on which another seat is asked.
Asking(d, s) == [d EXCEPT !.actingSeat = s]

LEMMA AskingKeeps ==
  ASSUME NEW d, Playable(d), NEW a \in Seats
  PROVE  /\ Asking(d, a).actingSeat = a
         /\ Pending(Asking(d, a)) = Pending(d)
         /\ Asking(d, a).currentBet = d.currentBet
         /\ \A w \in Seats : /\ Stands(Asking(d, a), w) = Stands(d, w)
                             /\ Settled(Asking(d, a), w) = Settled(d, w)
<1>. DEFINE e == Asking(d, a)
<1>1. /\ e.actingSeat = a /\ e.currentBet = d.currentBet /\ e.status = d.status
      /\ e.stack = d.stack /\ e.committedThisStreet = d.committedThisStreet
      /\ e.committedThisHand = d.committedThisHand
      /\ e.hasActedThisRound = d.hasActedThisRound
  BY DEF Asking, Playable, Drafts, TablesIn
<1>. HIDE DEF e
<1>2. DealtIn(e) = DealtIn(d) /\ NeedsToAct(e) = NeedsToAct(d) /\ Contending(e) = Contending(d)
  BY <1>1 DEF DealtIn, NeedsToAct, Contending
<1>3. Pending(e) = Pending(d)
  BY <1>1, <1>2 DEF Pending
<1>4. \A w \in Seats : Stands(e, w) = Stands(d, w) /\ Settled(e, w) = Settled(d, w)
  BY <1>1, <1>2 DEF Stands, Settled
<1>. QED
  BY <1>1, <1>3, <1>4 DEF e

LEMMA PromptRests ==
  ASSUME NEW d, Playable(d), BetStands(d), Pending(d) # {}
  PROVE  AtRest(Asking(d, NextInRing(Pending(d), d.actingSeat)))
<1>. DEFINE a == d.actingSeat
            n == NextInRing(Pending(d), a)
            e == Asking(d, n)
<1>1. a \in Seats /\ Pending(d) \in SUBSET Seats
  BY DEF Playable, Pending, NeedsToAct
<1>2. n \in Pending(d) /\ \A q \in Pending(d) : Distance(a, n) <= Distance(a, q)
  BY <1>1, NextInRingNearest
<1>. HIDE DEF n
<1>3. /\ e.actingSeat = n /\ Pending(e) = Pending(d) /\ e.currentBet = d.currentBet
      /\ \A w \in Seats : Stands(e, w) = Stands(d, w) /\ Settled(e, w) = Settled(d, w)
  BY <1>1, <1>2, AskingKeeps
<1>. HIDE DEF e
<1>4. ASSUME NEW w \in Seats, Stands(d, w), After(d, Pending(d), w), n = w
      PROVE  \E q \in Seats : Settled(d, q)
  <2>1. \A q \in Pending(d) : q = w
    <3>. SUFFICES ASSUME NEW q \in Pending(d) PROVE q = w
      OBVIOUS
    <3>1. Distance(a, w) <= Distance(a, q) /\ Distance(a, q) <= Distance(a, w)
      BY <1>2, <1>4 DEF After
    <3>2. Distance(a, w) \in Nat /\ Distance(a, q) \in Nat
      BY <1>1, DistanceType
    <3>. QED
      BY <1>1, <3>1, <3>2, DistanceInjective
  <2>2. w \in Pending(d) /\ d.committedThisStreet[w] = d.currentBet
    BY <1>2, <1>4 DEF Stands
  <2>3. Pending(d) = NeedsToAct(d)
    BY <2>2, OptionHasOthers
  <2>4. PICK q \in Seats \ {w} : d.status[q] = "active"
    BY <2>2, OptionHasOthers
  <2>5. q \notin NeedsToAct(d)
    BY <2>1, <2>3, <2>4
  <2>6. d.committedThisStreet[q] \in Nat /\ d.currentBet \in Nat
    BY DEF Playable, Drafts, TablesIn
  <2>7. d.hasActedThisRound[q] /\ d.committedThisStreet[q] >= d.currentBet
    BY <2>4, <2>5, <2>6 DEF NeedsToAct
  <2>. QED
    BY <2>4, <2>7, ActiveStands DEF Settled
<1>5. ASSUME NEW w \in Seats, Stands(d, w), After(d, Pending(d), w), n # w
      PROVE  Stands(e, w) /\ After(e, Pending(e) \ {n}, w)
  <2>1. ASSUME NEW q \in Pending(d), q # n
        PROVE  Distance(n, q) <= Distance(n, w)
    BY <1>1, <1>2, <1>5, <2>1, StepOn DEF After
  <2>. QED
    BY <1>3, <1>5, <2>1 DEF After
<1>6. AtRest(e)
  <2>1. CASE \E w \in Seats : Settled(d, w)
    BY <1>2, <1>3, <2>1 DEF AtRest
  <2>2. CASE d.currentBet = 0
    BY <1>2, <1>3, <2>2 DEF AtRest
  <2>3. ASSUME NEW w \in Seats, Stands(d, w), After(d, Pending(d), w)
        PROVE  AtRest(e)
    <3>1. CASE n = w
      BY <1>4, <2>1, <2>3, <3>1
    <3>2. CASE n # w
      BY <1>2, <1>3, <1>5, <2>3, <3>2 DEF AtRest
    <3>. QED
      BY <3>1, <3>2
  <2>. QED
    BY <2>1, <2>2, <2>3 DEF BetStands
<1>. QED
  BY <1>6 DEF e, n

\* On a new street nobody has bet, and who stood on the last bet has paid as
\* much as anybody.
LEMMA DealNextStreetStands ==
  ASSUME NEW d, Playable(d), BetStands(d)
  PROVE  BetStands(DealNextStreet(d))
<1>. DEFINE e == DealNextStreet(d)
<1>1. d \in Drafts /\ BetCovers(d)
  BY DEF Playable
<1>2. /\ e.currentBet = 0 /\ e.status = d.status
      /\ e.committedThisStreet = [s \in Seats |-> 0]
      /\ e.committedThisHand = d.committedThisHand
  BY <1>1, DealNextStreetType
<1>. HIDE DEF e
<1>3. PICK w \in Seats : Stands(d, w)
  BY DEF BetStands
<1>4. \A q \in Seats : d.committedThisHand[q] <= d.committedThisHand[w]
  <2>1. /\ d.committedThisHand \in [Seats -> Nat] /\ d.committedThisStreet \in [Seats -> Nat]
        /\ d.currentBet \in Nat
    BY <1>1 DEF Drafts, TablesIn
  <2>. QED
    BY <1>1, <1>3, <2>1 DEF Stands, BetCovers
<1>5. Stands(e, w)
  <2>1. d.committedThisHand \in [Seats -> Nat]
    BY <1>1 DEF Drafts, TablesIn
  <2>. QED
    BY <1>2, <1>3, <1>4, <2>1 DEF Stands, Contending
<1>. QED
  BY <1>2, <1>5 DEF BetStands, e

-----------------------------------------------------------------------------
(* Where the loop is left.                                                 *)

Place(street) ==
  CASE street = "preflop" -> 0 [] street = "flop" -> 1 [] street = "turn" -> 2 [] OTHER -> 3

\* b is the hand of d, on the same or on a later street, nobody having acted
\* in between.
Onward(d, b) ==
  /\ b.status = d.status /\ b.stack = d.stack
  /\ b.committedThisHand = d.committedThisHand
  /\ b.anteTotal = d.anteTotal /\ b.buttonSeat = d.buttonSeat
  /\ b.handNumber = d.handNumber /\ b.lastBigBlindSeat = d.lastBigBlindSeat
  /\ \/ b = d
     \/ /\ Place(b.street) > Place(d.street) /\ b.lastActedAtBet = [s \in Seats |-> 0]
        /\ \A s \in Seats : b.status[s] = "active" => ~b.hasActedThisRound[s]

OnPath(d, b) == InLoop(b) /\ BetStands(b) /\ Onward(d, b)

FoldWinOf(b) == AwardFoldWin(ReturnUncalledBet(b), CHOOSE w \in Contending(b) : TRUE)

ShowdownOf(b) == [ReturnUncalledBet(b) EXCEPT !.phase = "showdown"]

\* The loop is left from b with the draft e: with a seat asked, with the hand
\* won, or for the showdown.
Leaves(b, e) ==
  \/ /\ Pending(b) # {}
     /\ e = Asking(b, NextInRing(Pending(b), b.actingSeat))
  \/ ~AtLeastTwo(Contending(b)) /\ e = FoldWinOf(b)
  \/ Pending(b) = {} /\ e = ShowdownOf(b)

LEMMA DealNextStreetOnward ==
  ASSUME NEW d \in Drafts, d.street # "river"
  PROVE  /\ Onward(d, DealNextStreet(d))
         /\ Place(DealNextStreet(d).street) > Place(d.street)
<1>. DEFINE e == DealNextStreet(d)
<1>1. /\ e.status = d.status /\ e.stack = d.stack
      /\ e.committedThisHand = d.committedThisHand
      /\ e.anteTotal = d.anteTotal /\ e.buttonSeat = d.buttonSeat
      /\ e.handNumber = d.handNumber /\ e.lastBigBlindSeat = d.lastBigBlindSeat
      /\ e.street = NextStreet(d.street) /\ e.lastActedAtBet = [s \in Seats |-> 0]
      /\ \A s \in Seats : e.status[s] = "active" => ~e.hasActedThisRound[s]
  BY DEF DealNextStreet, Drafts, TablesIn
<1>. HIDE DEF e
<1>2. d.street \in Street
  BY DEF Drafts, TablesIn
<1>3. Place(e.street) > Place(d.street)
  BY <1>1, <1>2 DEF Place, NextStreet, Street
<1>. QED
  BY <1>1, <1>3 DEF Onward, e

LEMMA OnwardGoesOn ==
  ASSUME NEW d, NEW b, NEW c, Onward(d, b), Onward(b, c)
  PROVE  Onward(d, c)
<1>1. Place(d.street) \in Int /\ Place(b.street) \in Int /\ Place(c.street) \in Int
  BY DEF Place
<1>. QED
  BY <1>1 DEF Onward

\* The loop between two turns, begun with d.
GoingOn(d, r) ==
  /\ r.running \in BOOLEAN
  /\ r.running => OnPath(d, r.draft)
  /\ ~r.running => \E b : OnPath(d, b) /\ Leaves(b, r.draft)

LEMMA AdvanceOnceGoesOn ==
  ASSUME NEW d, NEW b, OnPath(d, b)
  PROVE  GoingOn(d, AdvanceOnce(b))
<1>1. InLoop(b) /\ BetStands(b) /\ Playable(b) /\ b \in Drafts
  BY DEF OnPath, InLoop, Playable
<1>2. CASE ~AtLeastTwo(Contending(b))
  <2>1. AdvanceOnce(b) = [draft |-> FoldWinOf(b), running |-> FALSE]
    BY <1>2 DEF AdvanceOnce, FoldWinOf
  <2>. QED
    BY <1>2, <2>1 DEF GoingOn, Leaves
<1>3. CASE AtLeastTwo(Contending(b)) /\ Pending(b) # {}
  <2>1. AdvanceOnce(b) = [draft |-> Asking(b, NextInRing(Pending(b), b.actingSeat)),
                          running |-> FALSE]
    BY <1>3 DEF AdvanceOnce, Asking
  <2>. QED
    BY <1>3, <2>1 DEF GoingOn, Leaves
<1>4. CASE AtLeastTwo(Contending(b)) /\ Pending(b) = {} /\ b.street = "river"
  <2>1. AdvanceOnce(b) = [draft |-> ShowdownOf(b), running |-> FALSE]
    BY <1>4 DEF AdvanceOnce, ShowdownOf
  <2>. QED
    BY <1>4, <2>1 DEF GoingOn, Leaves
<1>5. CASE AtLeastTwo(Contending(b)) /\ Pending(b) = {} /\ b.street # "river"
  <2>1. AdvanceOnce(b) = [draft |-> DealNextStreet(b), running |-> TRUE]
    BY <1>5 DEF AdvanceOnce
  <2>2. InLoop(DealNextStreet(b))
    BY <1>1, <1>5, DealNextStreetInLoop
  <2>3. BetStands(DealNextStreet(b))
    BY <1>1, DealNextStreetStands
  <2>4. Onward(d, DealNextStreet(b))
    BY <1>1, <1>5, DealNextStreetOnward, OnwardGoesOn DEF OnPath
  <2>. QED
    BY <2>1, <2>2, <2>3, <2>4 DEF GoingOn, OnPath
<1>. QED
  BY <1>2, <1>3, <1>4, <1>5

LEMMA AgainGoesOn ==
  ASSUME NEW d, NEW r, GoingOn(d, r)
  PROVE  GoingOn(d, Again(r))
  BY AdvanceOnceGoesOn DEF GoingOn, Again

\* `advance` leaves its loop, somewhere on the way from d.
LEMMA AdvanceLeaves ==
  ASSUME NEW d, InLoop(d), BetStands(d)
  PROVE  \E b : OnPath(d, b) /\ Leaves(b, Advance(d))
<1>. DEFINE r == Again(Again(Again(AdvanceOnce(d))))
<1>1. OnPath(d, d)
  BY DEF OnPath, Onward
<1>2. GoingOn(d, r)
  BY <1>1, AdvanceOnceGoesOn, AgainGoesOn
<1>3. ~r.running
  BY LoopEnds
<1>. QED
  BY <1>2, <1>3 DEF GoingOn, Advance

-----------------------------------------------------------------------------
(* What a seat does on its turn.                                           *)

\* What a decision of seat s changes: only what is s's own, and the bet.
Moves(t, s, d) ==
  /\ d.actingSeat = t.actingSeat /\ d.street = t.street /\ d.handNumber = t.handNumber
  /\ d.buttonSeat = t.buttonSeat /\ d.lastBigBlindSeat = t.lastBigBlindSeat
  /\ d.anteTotal = t.anteTotal
  /\ \A q \in Seats \ {s} :
       /\ d.status[q] = t.status[q] /\ d.stack[q] = t.stack[q]
       /\ d.committedThisHand[q] = t.committedThisHand[q]
       /\ d.lastActedAtBet[q] = t.lastActedAtBet[q]
       /\ d.committedThisStreet[q] = t.committedThisStreet[q]
       /\ d.hasActedThisRound[q] = t.hasActedThisRound[q]
  /\ d.stack[s] + d.committedThisHand[s] = t.stack[s] + t.committedThisHand[s]
  /\ d.stack[s] <= t.stack[s]
  /\ d.lastActedAtBet[s] = d.currentBet
  /\ d.status[s] = "active" => d.committedThisStreet[s] = d.currentBet
  /\ \/ d.status[s] = "folded" /\ d.stack[s] = t.stack[s]
     \/ d.status[s] \in {"active", "all-in"}
  /\ d.currentBet >= t.currentBet
  /\ d.lastFullRaiseIncrement =
       IF d.currentBet - t.currentBet >= t.lastFullRaiseIncrement /\ d.currentBet > t.currentBet
       THEN d.currentBet - t.currentBet
       ELSE t.lastFullRaiseIncrement

\* The seat that is asked is not settled.
LEMMA SettledNotAsked ==
  ASSUME NEW d, Playable(d), NEW w \in Seats, Settled(d, w)
  PROVE  w \notin Pending(d)
<1>1. d.currentBet \in Nat
  BY DEF Playable, Drafts, TablesIn
<1>. QED
  BY <1>1 DEF Settled, Stands, Pending, NeedsToAct

\* e is d with seat s out of the betting: folded, or all-in for less than the
\* bet.
OutOfBetting(d, s, e) ==
  /\ e.actingSeat = s /\ e.currentBet = d.currentBet /\ e.status[s] # "active"
  /\ \A q \in Seats :
       e.committedThisHand[q] - e.committedThisStreet[q]
         = d.committedThisHand[q] - d.committedThisStreet[q]
  /\ \A q \in Seats \ {s} :
       /\ e.committedThisStreet[q] = d.committedThisStreet[q]
       /\ e.status[q] = d.status[q] /\ e.stack[q] = d.stack[q]
       /\ e.hasActedThisRound[q] = d.hasActedThisRound[q]

LEMMA OutOfBettingStands ==
  ASSUME NEW d, Playable(d), AtRest(d), NEW e, OutOfBetting(d, d.actingSeat, e)
  PROVE  BetStands(e)
<1>. DEFINE s == d.actingSeat
<1>1. s \in Seats /\ s \in Pending(d)
  BY DEF Playable, AtRest
<1>2. ASSUME NEW w \in Seats \ {s}, Stands(d, w)
      PROVE  Stands(e, w) /\ (Settled(d, w) => Settled(e, w))
  BY <1>2 DEF OutOfBetting, Stands, Settled, Contending
<1>3. Pending(e) \subseteq Pending(d) \ {s}
  <2>1. AtLeastTwo(DealtIn(e)) => AtLeastTwo(DealtIn(d))
    BY DEF AtLeastTwo, DealtIn, OutOfBetting
  <2>2. NeedsToAct(e) \subseteq NeedsToAct(d) \ {s}
    BY DEF NeedsToAct, OutOfBetting
  <2>. QED
    BY <2>1, <2>2 DEF Pending, OutOfBetting, NeedsToAct
<1>4. PICK v \in Seats \ {s} : Stands(d, v)
  BY AnotherStands
<1>5. CASE \E w \in Seats : Settled(d, w)
  <2>1. PICK w \in Seats : Settled(d, w)
    BY <1>5
  <2>2. w # s /\ Stands(d, w)
    BY <1>1, <2>1, SettledNotAsked DEF Settled
  <2>. QED
    BY <1>2, <2>1, <2>2 DEF BetStands
<1>6. CASE d.currentBet = 0
  BY <1>2, <1>4, <1>6 DEF BetStands, OutOfBetting
<1>7. CASE \E w \in Seats \ {s} : Stands(d, w) /\ After(d, Pending(d) \ {s}, w)
  <2>1. PICK w \in Seats \ {s} : Stands(d, w) /\ After(d, Pending(d) \ {s}, w)
    BY <1>7
  <2>2. After(e, Pending(e), w)
    BY <1>3, <2>1 DEF After, OutOfBetting
  <2>. QED
    BY <1>2, <2>1, <2>2 DEF BetStands
<1>. QED
  BY <1>5, <1>6, <1>7 DEF AtRest

\* A seat that has put in the whole bet on its turn is settled.
LEMMA PaidUpStands ==
  ASSUME NEW d, Playable(d), NEW s \in Seats, d.status[s] = "active", NEW e,
         e.status[s] \in {"active", "all-in"}, e.hasActedThisRound[s],
         e.committedThisStreet[s] = e.currentBet,
         \A q \in Seats : e.committedThisHand[q] - e.committedThisStreet[q]
                            = d.committedThisHand[q] - d.committedThisStreet[q]
  PROVE  BetStands(e)
<1>1. Settled(e, s)
  BY DEF Settled, Stands, Contending, Playable, PaidAlike
<1>. QED
  BY <1>1 DEF BetStands, Settled

LEMMA ActedFields ==
  ASSUME NEW d \in Drafts, NEW s \in Seats
  PROVE  /\ Acted(d, s).hasActedThisRound = [d.hasActedThisRound EXCEPT ![s] = TRUE]
         /\ Acted(d, s).lastActedAtBet = [d.lastActedAtBet EXCEPT ![s] = d.currentBet]
         /\ Acted(d, s).status = d.status
         /\ Acted(d, s).stack = d.stack
         /\ Acted(d, s).committedThisStreet = d.committedThisStreet
         /\ Acted(d, s).committedThisHand = d.committedThisHand
         /\ Acted(d, s).handNumber = d.handNumber
         /\ Acted(d, s).street = d.street
         /\ Acted(d, s).buttonSeat = d.buttonSeat
         /\ Acted(d, s).lastBigBlindSeat = d.lastBigBlindSeat
         /\ Acted(d, s).anteTotal = d.anteTotal
         /\ Acted(d, s).actingSeat = d.actingSeat
         /\ Acted(d, s).currentBet = d.currentBet
         /\ Acted(d, s).lastFullRaiseIncrement = d.lastFullRaiseIncrement
         /\ Acted(d, s).phase = d.phase
         /\ Acted(d, s).allInRevealed = d.allInRevealed
  BY DEF Acted, Drafts, TablesIn

LEMMA CommitFields ==
  ASSUME NEW d \in Drafts, NEW s \in Seats, NEW x \in Int
  PROVE  /\ Commit(d, s, x).stack = [d.stack EXCEPT ![s] = @ - x]
         /\ Commit(d, s, x).committedThisStreet = [d.committedThisStreet EXCEPT ![s] = @ + x]
         /\ Commit(d, s, x).committedThisHand = [d.committedThisHand EXCEPT ![s] = @ + x]
         /\ Commit(d, s, x).status
              = [d.status EXCEPT ![s] = IF d.stack[s] = x THEN "all-in" ELSE @]
         /\ Commit(d, s, x).hasActedThisRound = d.hasActedThisRound
         /\ Commit(d, s, x).lastActedAtBet = d.lastActedAtBet
         /\ Commit(d, s, x).handNumber = d.handNumber
         /\ Commit(d, s, x).street = d.street
         /\ Commit(d, s, x).buttonSeat = d.buttonSeat
         /\ Commit(d, s, x).lastBigBlindSeat = d.lastBigBlindSeat
         /\ Commit(d, s, x).anteTotal = d.anteTotal
         /\ Commit(d, s, x).ante = d.ante
         /\ Commit(d, s, x).actingSeat = d.actingSeat
         /\ Commit(d, s, x).currentBet = d.currentBet
         /\ Commit(d, s, x).lastFullRaiseIncrement = d.lastFullRaiseIncrement
         /\ Commit(d, s, x).phase = d.phase
         /\ Commit(d, s, x).allInRevealed = d.allInRevealed
         /\ Commit(d, s, x).straddleSeat = d.straddleSeat
         /\ Commit(d, s, x).straddleEnabled = d.straddleEnabled
         /\ Commit(d, s, x).missedBigBlind = d.missedBigBlind
  BY DEF Commit, Drafts, TablesIn

\* Folding.
LEMMA FoldMoves ==
  ASSUME NEW t, Playing(t), AtRest(t), NEW s \in Seats, t.actingSeat = s,
         t.status[s] = "active"
  PROVE  LET d == Acted([t EXCEPT !.status[s] = "folded"], s)
         IN  Playing(d) /\ BetStands(d) /\ Moves(t, s, d)
<1>. DEFINE f == [t EXCEPT !.status[s] = "folded"]
            d == Acted(f, s)
<1>1. t \in Drafts /\ Playable(t)
  BY DEF Playing, Playable
<1>2. [t.status EXCEPT ![s] = "folded"] \in [Seats -> Status]
  BY <1>1 DEF Drafts, TablesIn, Status
<1>3. /\ f \in Drafts
      /\ f.status = [t.status EXCEPT ![s] = "folded"]
      /\ f.stack = t.stack /\ f.committedThisStreet = t.committedThisStreet
      /\ f.committedThisHand = t.committedThisHand
      /\ f.handNumber = t.handNumber /\ f.street = t.street /\ f.buttonSeat = t.buttonSeat
      /\ f.lastBigBlindSeat = t.lastBigBlindSeat /\ f.anteTotal = t.anteTotal
      /\ f.actingSeat = t.actingSeat /\ f.currentBet = t.currentBet
      /\ f.lastFullRaiseIncrement = t.lastFullRaiseIncrement
      /\ f.hasActedThisRound = t.hasActedThisRound /\ f.lastActedAtBet = t.lastActedAtBet
  BY <1>1, <1>2 DEF Drafts, TablesIn
<1>4. Playing(f)
  BY <1>2 DEF Playing, Playable, BetCovers, PaidAlike, Drafts, TablesIn
<1>. HIDE DEF f
<1>5. Playing(d)
  BY <1>4, ActedPlaying
<1>6. /\ d.hasActedThisRound = [f.hasActedThisRound EXCEPT ![s] = TRUE]
      /\ d.lastActedAtBet = [f.lastActedAtBet EXCEPT ![s] = f.currentBet]
      /\ d.status = f.status /\ d.stack = f.stack
      /\ d.committedThisStreet = f.committedThisStreet
      /\ d.committedThisHand = f.committedThisHand
      /\ d.handNumber = f.handNumber /\ d.street = f.street /\ d.buttonSeat = f.buttonSeat
      /\ d.lastBigBlindSeat = f.lastBigBlindSeat /\ d.anteTotal = f.anteTotal
      /\ d.actingSeat = f.actingSeat /\ d.currentBet = f.currentBet
      /\ d.lastFullRaiseIncrement = f.lastFullRaiseIncrement
  BY <1>3, ActedFields
<1>. HIDE DEF d
<1>7. /\ t.status \in [Seats -> Status] /\ t.hasActedThisRound \in [Seats -> BOOLEAN]
      /\ t.lastActedAtBet \in [Seats -> Nat] /\ t.stack \in [Seats -> Nat]
      /\ t.currentBet \in Nat /\ t.lastFullRaiseIncrement \in Nat
  BY <1>1 DEF Drafts, TablesIn
<1>8. OutOfBetting(t, s, d)
  BY <1>3, <1>6, <1>7 DEF OutOfBetting
<1>9. BetStands(d)
  BY <1>1, <1>8, OutOfBettingStands
<1>10. Moves(t, s, d)
  <2>1. d.status[s] = "folded" /\ t.committedThisStreet \in [Seats -> Nat]
    BY <1>1, <1>3, <1>6, <1>7 DEF Drafts, TablesIn
  <2>. QED
    BY <1>3, <1>6, <1>7, <2>1 DEF Moves
<1>. QED
  BY <1>5, <1>9, <1>10 DEF d, f

\* Checking, and calling, all-in for less or not.
LEMMA PayMoves ==
  ASSUME NEW t, Playing(t), AtRest(t), NEW s \in Seats, t.actingSeat = s,
         t.status[s] = "active", NEW x \in Nat, x <= t.stack[s],
         \/ t.committedThisStreet[s] + x = t.currentBet
         \/ t.committedThisStreet[s] + x < t.currentBet /\ x = t.stack[s],
         NEW c, c = Commit(t, s, x) \/ (c = t /\ x = 0 /\ t.committedThisStreet[s] = t.currentBet)
  PROVE  LET d == Acted(c, s) IN Playing(d) /\ BetStands(d) /\ Moves(t, s, d)
<1>. DEFINE d == Acted(c, s)
<1>1. t \in Drafts /\ Playable(t) /\ x \in Int
  BY DEF Playing, Playable
<1>2. /\ t.stack \in [Seats -> Nat] /\ t.committedThisStreet \in [Seats -> Nat]
      /\ t.committedThisHand \in [Seats -> Nat] /\ t.status \in [Seats -> Status]
      /\ t.hasActedThisRound \in [Seats -> BOOLEAN] /\ t.lastActedAtBet \in [Seats -> Nat]
      /\ t.currentBet \in Nat /\ t.lastFullRaiseIncrement \in Nat
  BY <1>1 DEF Drafts, TablesIn
<1>3. /\ c.stack = [t.stack EXCEPT ![s] = @ - x]
      /\ c.committedThisStreet = [t.committedThisStreet EXCEPT ![s] = @ + x]
      /\ c.committedThisHand = [t.committedThisHand EXCEPT ![s] = @ + x]
      /\ c.status[s] \in {"active", "all-in"}
      /\ t.committedThisStreet[s] + x < t.currentBet => c.status[s] = "all-in"
      /\ \A q \in Seats \ {s} : c.status[q] = t.status[q]
      /\ c.handNumber = t.handNumber /\ c.street = t.street /\ c.buttonSeat = t.buttonSeat
      /\ c.lastBigBlindSeat = t.lastBigBlindSeat /\ c.anteTotal = t.anteTotal
      /\ c.actingSeat = t.actingSeat /\ c.currentBet = t.currentBet
      /\ c.lastFullRaiseIncrement = t.lastFullRaiseIncrement
      /\ c.hasActedThisRound = t.hasActedThisRound /\ c.lastActedAtBet = t.lastActedAtBet
  <2>1. CASE c = Commit(t, s, x)
    <3>1. /\ c.stack = [t.stack EXCEPT ![s] = @ - x]
          /\ c.committedThisStreet = [t.committedThisStreet EXCEPT ![s] = @ + x]
          /\ c.committedThisHand = [t.committedThisHand EXCEPT ![s] = @ + x]
          /\ c.status = [t.status EXCEPT ![s] = IF t.stack[s] = x THEN "all-in" ELSE @]
      BY <1>1, <2>1, CommitFields
    <3>2. /\ c.handNumber = t.handNumber /\ c.street = t.street /\ c.buttonSeat = t.buttonSeat
          /\ c.lastBigBlindSeat = t.lastBigBlindSeat /\ c.anteTotal = t.anteTotal
          /\ c.actingSeat = t.actingSeat /\ c.currentBet = t.currentBet
          /\ c.lastFullRaiseIncrement = t.lastFullRaiseIncrement
          /\ c.hasActedThisRound = t.hasActedThisRound /\ c.lastActedAtBet = t.lastActedAtBet
      BY <1>1, <2>1 DEF Commit, Drafts, TablesIn
    <3>3. /\ c.status[s] \in {"active", "all-in"}
          /\ t.committedThisStreet[s] + x < t.currentBet => c.status[s] = "all-in"
          /\ \A q \in Seats \ {s} : c.status[q] = t.status[q]
      <4>1. c.status[s] = IF t.stack[s] = x THEN "all-in" ELSE "active"
        BY <1>2, <3>1
      <4>2. t.committedThisStreet[s] + x < t.currentBet => t.stack[s] = x
        BY <1>2
      <4>3. \A q \in Seats \ {s} : c.status[q] = t.status[q]
        BY <1>2, <3>1
      <4>. QED
        BY <4>1, <4>2, <4>3
    <3>. QED
      BY <3>1, <3>2, <3>3
  <2>2. CASE c = t /\ x = 0 /\ t.committedThisStreet[s] = t.currentBet
    BY <1>2, <2>2
  <2>. QED
    BY <2>1, <2>2
<1>4. Playing(c)
  BY <1>2, CommitPlaying
<1>5. Playing(d) /\ c \in Drafts
  BY <1>4, ActedPlaying DEF Playing, Playable
<1>6. /\ d.hasActedThisRound = [c.hasActedThisRound EXCEPT ![s] = TRUE]
      /\ d.lastActedAtBet = [c.lastActedAtBet EXCEPT ![s] = c.currentBet]
      /\ d.status = c.status /\ d.stack = c.stack
      /\ d.committedThisStreet = c.committedThisStreet
      /\ d.committedThisHand = c.committedThisHand
      /\ d.handNumber = c.handNumber /\ d.street = c.street /\ d.buttonSeat = c.buttonSeat
      /\ d.lastBigBlindSeat = c.lastBigBlindSeat /\ d.anteTotal = c.anteTotal
      /\ d.actingSeat = c.actingSeat /\ d.currentBet = c.currentBet
      /\ d.lastFullRaiseIncrement = c.lastFullRaiseIncrement
  BY <1>5, ActedFields
<1>. HIDE DEF d
<1>7. \A q \in Seats : d.committedThisHand[q] - d.committedThisStreet[q]
                         = t.committedThisHand[q] - t.committedThisStreet[q]
  BY <1>2, <1>3, <1>6
<1>8. BetStands(d)
  <2>1. CASE t.committedThisStreet[s] + x = t.currentBet
    BY <1>1, <1>2, <1>3, <1>6, <1>7, <2>1, PaidUpStands
  <2>2. CASE t.committedThisStreet[s] + x < t.currentBet /\ x = t.stack[s]
    <3>1. OutOfBetting(t, s, d)
      BY <1>2, <1>3, <1>6, <1>7, <2>2 DEF OutOfBetting
    <3>. QED
      BY <1>1, <3>1, OutOfBettingStands
  <2>. QED
    BY <2>1, <2>2
<1>9. Moves(t, s, d)
  <2>1. d.status[s] = "active" => d.committedThisStreet[s] = d.currentBet
    BY <1>2, <1>3, <1>6
  <2>. QED
    BY <1>2, <1>3, <1>6, <2>1 DEF Moves
<1>. QED
  BY <1>5, <1>8, <1>9 DEF d

\* Betting and raising.
LEMMA RaiseMoves ==
  ASSUME NEW t, Playing(t), NEW s \in Seats, t.actingSeat = s, t.status[s] = "active",
         NEW to \in Nat, t.currentBet < to, to <= MaxCommit(t, s)
  PROVE  LET d == RaiseTo(t, s, to) IN Playing(d) /\ BetStands(d) /\ Moves(t, s, d)
<1>. DEFINE x    == to - t.committedThisStreet[s]
            c    == Commit(t, s, x)
            by   == to - t.currentBet
            put  == [c EXCEPT !.currentBet = to]
            full == [put EXCEPT !.lastFullRaiseIncrement = by, !.lastFullBetAmount = to]
            f    == IF by >= t.lastFullRaiseIncrement THEN full ELSE put
            d    == Acted(f, s)
<1>1. t \in Drafts /\ Playable(t) /\ BetCovers(t)
  BY DEF Playing, Playable
<1>2. /\ t.stack \in [Seats -> Nat] /\ t.committedThisStreet \in [Seats -> Nat]
      /\ t.committedThisHand \in [Seats -> Nat] /\ t.status \in [Seats -> Status]
      /\ t.hasActedThisRound \in [Seats -> BOOLEAN] /\ t.lastActedAtBet \in [Seats -> Nat]
      /\ t.currentBet \in Nat /\ t.lastFullRaiseIncrement \in Nat
  BY <1>1 DEF Drafts, TablesIn
<1>3. /\ x \in Nat /\ x <= t.stack[s] /\ t.committedThisStreet[s] + x = to
      /\ by \in Nat /\ by > 0
  BY <1>1, <1>2 DEF MaxCommit, BetCovers
<1>. HIDE DEF x
<1>4. c \in Drafts
  BY <1>1, <1>3, CommitBets
<1>5. /\ c.stack = [t.stack EXCEPT ![s] = @ - x]
      /\ c.committedThisStreet = [t.committedThisStreet EXCEPT ![s] = @ + x]
      /\ c.committedThisHand = [t.committedThisHand EXCEPT ![s] = @ + x]
      /\ c.status = [t.status EXCEPT ![s] = IF t.stack[s] = x THEN "all-in" ELSE @]
  <2>. HIDE DEF by, put, full, f, d
  <2>. QED
    BY <1>1, <1>3 DEF Commit, Drafts, TablesIn
<1>6. /\ c.handNumber = t.handNumber /\ c.street = t.street /\ c.buttonSeat = t.buttonSeat
      /\ c.lastBigBlindSeat = t.lastBigBlindSeat /\ c.anteTotal = t.anteTotal
      /\ c.actingSeat = t.actingSeat
      /\ c.lastFullRaiseIncrement = t.lastFullRaiseIncrement
      /\ c.hasActedThisRound = t.hasActedThisRound /\ c.lastActedAtBet = t.lastActedAtBet
  BY <1>1, <1>3 DEF Commit, Drafts, TablesIn
<1>. HIDE DEF c
<1>7. /\ f \in Drafts /\ f.currentBet = to
      /\ f.lastFullRaiseIncrement = IF by >= t.lastFullRaiseIncrement THEN by
                                    ELSE t.lastFullRaiseIncrement
      /\ f.stack = c.stack /\ f.status = c.status
      /\ f.committedThisStreet = c.committedThisStreet
      /\ f.committedThisHand = c.committedThisHand
      /\ f.handNumber = c.handNumber /\ f.street = c.street /\ f.buttonSeat = c.buttonSeat
      /\ f.lastBigBlindSeat = c.lastBigBlindSeat /\ f.anteTotal = c.anteTotal
      /\ f.actingSeat = c.actingSeat
      /\ f.hasActedThisRound = c.hasActedThisRound /\ f.lastActedAtBet = c.lastActedAtBet
  <2>. HIDE DEF by
  <2>1. CASE by >= t.lastFullRaiseIncrement
    BY <1>3, <1>4, <1>6, <2>1 DEF Drafts, TablesIn
  <2>2. CASE ~(by >= t.lastFullRaiseIncrement)
    BY <1>3, <1>4, <1>6, <2>2 DEF Drafts, TablesIn
  <2>. QED
    BY <2>1, <2>2
<1>8. RaiseTo(t, s, to) = d
  BY DEF RaiseTo, x, c
<1>9. Playing(d)
  BY <1>8, RaisePlaying
<1>. HIDE DEF f
<1>10. /\ d.hasActedThisRound = [f.hasActedThisRound EXCEPT ![s] = TRUE]
       /\ d.lastActedAtBet = [f.lastActedAtBet EXCEPT ![s] = f.currentBet]
       /\ d.status = f.status /\ d.stack = f.stack
       /\ d.committedThisStreet = f.committedThisStreet
       /\ d.committedThisHand = f.committedThisHand
       /\ d.handNumber = f.handNumber /\ d.street = f.street /\ d.buttonSeat = f.buttonSeat
       /\ d.lastBigBlindSeat = f.lastBigBlindSeat /\ d.anteTotal = f.anteTotal
       /\ d.actingSeat = f.actingSeat /\ d.currentBet = f.currentBet
       /\ d.lastFullRaiseIncrement = f.lastFullRaiseIncrement
  BY <1>7, ActedFields
<1>. HIDE DEF d
<1>11. d.status[s] \in {"active", "all-in"}
  BY <1>2, <1>5, <1>7, <1>10
<1>12. \A q \in Seats : d.committedThisHand[q] - d.committedThisStreet[q]
                          = t.committedThisHand[q] - t.committedThisStreet[q]
  BY <1>2, <1>3, <1>5, <1>7, <1>10
<1>13. d.hasActedThisRound[s] /\ d.committedThisStreet[s] = d.currentBet
  BY <1>2, <1>3, <1>5, <1>6, <1>7, <1>10
<1>14. BetStands(d)
  BY <1>1, <1>11, <1>12, <1>13, PaidUpStands
<1>15. Moves(t, s, d)
  <2>1. \A q \in Seats \ {s} : /\ d.status[q] = t.status[q] /\ d.stack[q] = t.stack[q]
                               /\ d.committedThisHand[q] = t.committedThisHand[q]
                               /\ d.lastActedAtBet[q] = t.lastActedAtBet[q]
                               /\ d.committedThisStreet[q] = t.committedThisStreet[q]
                               /\ d.hasActedThisRound[q] = t.hasActedThisRound[q]
    BY <1>2, <1>5, <1>6, <1>7, <1>10
  <2>2. /\ d.stack[s] + d.committedThisHand[s] = t.stack[s] + t.committedThisHand[s]
        /\ d.stack[s] <= t.stack[s]
        /\ d.lastActedAtBet[s] = d.currentBet
    BY <1>2, <1>3, <1>5, <1>6, <1>7, <1>10
  <2>3. /\ d.currentBet = to
        /\ d.lastFullRaiseIncrement = IF by >= t.lastFullRaiseIncrement THEN by
                                      ELSE t.lastFullRaiseIncrement
    BY <1>7, <1>10
  <2>. QED
    BY <1>2, <1>3, <1>6, <1>7, <1>10, <1>11, <1>13, <2>1, <2>2, <2>3 DEF Moves
<1>. QED
  BY <1>8, <1>9, <1>14, <1>15

\* Whatever a seat does on its turn, the engine goes on from a draft on which
\* somebody stands on the bet.
LEMMA ActMoves ==
  ASSUME TypeOK, InHand => Playing(table) /\ AtRest(table), NEW s \in Seats, Act(s)
  PROVE  /\ InHand /\ table.actingSeat = s /\ table.status[s] = "active"
         /\ \E d : /\ Playing(d) /\ BetStands(d) /\ Moves(table, s, d)
                   /\ Return(Advance(d))
<1>1. Turn(s)
  BY DEF Act, Fold, Check, Call, BetOrRaise
<1>2. /\ InHand /\ table.actingSeat = s /\ table.status[s] = "active"
      /\ Playing(table) /\ AtRest(table)
  BY <1>1 DEF Turn, InHand
<1>3. /\ table.stack[s] \in Nat /\ table.committedThisStreet[s] \in Nat
      /\ table.currentBet \in Nat /\ table.lastFullBetAmount \in Nat
      /\ table.lastFullRaiseIncrement \in Nat
      /\ table.committedThisStreet[s] <= table.currentBet
  BY <1>2 DEF TypeOK, Tables, TablesIn, Playing, Playable, BetCovers
<1>. DEFINE Goal == \E d : Playing(d) /\ BetStands(d) /\ Moves(table, s, d)
                             /\ Return(Advance(d))
<1>4. CASE Fold(s)
  BY <1>2, <1>4, FoldMoves DEF Fold
<1>5. CASE Check(s)
  <2>1. table.committedThisStreet[s] = table.currentBet
    BY <1>3, <1>5 DEF Check, ToCall
  <2>2. LET d == Acted(table, s) IN Playing(d) /\ BetStands(d) /\ Moves(table, s, d)
    <3>1. /\ 0 \in Nat /\ 0 <= table.stack[s]
          /\ table.committedThisStreet[s] + 0 = table.currentBet
      BY <1>3, <2>1
    <3>. QED
      BY <1>2, <2>1, <3>1, PayMoves
  <2>. QED
    BY <1>2, <1>5, <2>2 DEF Check
<1>6. CASE Call(s)
  <2>. DEFINE x == Smaller(ToCall(table, s), table.stack[s])
              c == Commit(table, s, x)
  <2>1. /\ x \in Nat /\ x <= table.stack[s]
        /\ \/ table.committedThisStreet[s] + x = table.currentBet
           \/ table.committedThisStreet[s] + x < table.currentBet /\ x = table.stack[s]
    BY <1>3, <1>6 DEF Call, ToCall, Smaller
  <2>2. Return(Advance(Acted(c, s)))
    BY <1>6 DEF Call
  <2>. HIDE DEF x
  <2>3. LET d == Acted(c, s) IN Playing(d) /\ BetStands(d) /\ Moves(table, s, d)
    BY <1>2, <2>1, PayMoves
  <2>. QED
    BY <1>2, <2>2, <2>3
<1>7. ASSUME NEW to \in 1 .. MaxCommit(table, s), BetOrRaise(s, to)
      PROVE  Goal
  <2>1. to \in Nat /\ table.currentBet < to /\ to <= MaxCommit(table, s)
    BY <1>3, <1>7 DEF BetOrRaise, CanBetOrRaise, MaxCommit, MinimumTo, Smaller, Larger
  <2>2. LET d == RaiseTo(table, s, to) IN Playing(d) /\ BetStands(d) /\ Moves(table, s, d)
    BY <1>2, <2>1, RaiseMoves
  <2>. QED
    BY <1>7, <2>2 DEF BetOrRaise
<1>. QED
  BY <1>2, <1>4, <1>5, <1>6, <1>7 DEF Act

-----------------------------------------------------------------------------
(* The forced bets: what they cost, and who stands on them.                *)

\* What seat s has behind, in the middle, and in the ante paid by bb.
Held(d, bb, s) ==
  d.stack[s] + d.committedThisHand[s] + (IF s = bb THEN d.anteTotal ELSE 0)

\* The forced bets of the ring R, whose seats had `stacks`, with big blind
\* bb, as far as they are posted.
Posting(d, R, bb, stacks) ==
  /\ Opening(d)
  /\ Contending(d) = R
  /\ \A s \in Seats : Held(d, bb, s) = stacks[s]
  /\ \A s \in Seats \ R : d.committedThisStreet[s] = 0
  /\ d.committedThisStreet[bb] <= BigBlind
  /\ d.anteTotal <= MaxAnte

\* ... and the bet to call is set: going round from `first`, a seat that
\* stands on it is asked last.
Posted(d, R, bb, first, stacks) ==
  /\ Posting(d, R, bb, stacks)
  /\ BetCovers(d)
  /\ d.currentBet > 0 /\ d.currentBet <= 2 * BigBlind
  /\ \E w \in R : /\ d.committedThisStreet[w] = d.currentBet
                  /\ \A q \in R : d.status[q] = "active"
                                    => Distance(first, q) <= Distance(first, w)

FirstToAct(d, bb) == IF d.straddleSeat # NoSeat THEN d.straddleSeat ELSE bb

\* What stays the same when a forced bet is posted.
SameHand(d, e) ==
  /\ e.handNumber = d.handNumber /\ e.lastActedAtBet = d.lastActedAtBet
  /\ e.hasActedThisRound = d.hasActedThisRound

LEMMA PostAntePosts ==
  ASSUME NEW d, Opening(d), NEW s \in Seats, d.anteTotal = 0,
         d.committedThisStreet = [q \in Seats |-> 0]
  PROVE  LET e == PostAnte(d, s)
         IN  /\ Posting(e, Contending(d), s, d.stack)
             /\ e.status = d.status /\ e.straddleSeat = d.straddleSeat
             /\ SameHand(d, e)
<1>. DEFINE a == Smaller(d.ante, d.stack[s])
            e == PostAnte(d, s)
<1>1. d \in Drafts /\ d.committedThisHand = d.committedThisStreet
  BY DEF Opening
<1>2. /\ d.stack \in [Seats -> Nat] /\ BigBlind \in Nat /\ MaxAnte \in Nat
      /\ a \in Nat /\ a <= MaxAnte
  BY <1>1, ConfigAssumption DEF Smaller, Drafts, TablesIn
<1>. HIDE DEF a
<1>3. /\ e.stack = [d.stack EXCEPT ![s] = @ - a] /\ e.anteTotal = a
      /\ e.status = d.status /\ e.straddleSeat = d.straddleSeat
      /\ e.committedThisHand = d.committedThisHand
      /\ e.committedThisStreet = d.committedThisStreet
      /\ e.handNumber = d.handNumber /\ e.lastActedAtBet = d.lastActedAtBet
      /\ e.hasActedThisRound = d.hasActedThisRound
  BY <1>1 DEF PostAnte, a, Drafts, TablesIn
<1>4. Opening(e)
  BY PostAnteOpens
<1>. HIDE DEF e
<1>5. \A q \in Seats : Held(e, s, q) = d.stack[q]
  BY <1>1, <1>2, <1>3 DEF Held
<1>6. Contending(e) = Contending(d)
  BY <1>3 DEF Contending
<1>. QED
  BY <1>2, <1>3, <1>4, <1>5, <1>6 DEF Posting, SameHand, e

\* A seat of the ring posts a bet: it stays in the ring, all-in if it has no
\* chips left.
LEMMA CommitPosts ==
  ASSUME NEW d, NEW R, NEW bb \in Seats, NEW stacks, Posting(d, R, bb, stacks),
         NEW s \in R, NEW x \in Int, x <= d.stack[s], 0 <= d.committedThisStreet[s] + x,
         s = bb => d.committedThisStreet[s] + x <= BigBlind
  PROVE  LET e == Commit(d, s, x)
         IN  /\ Posting(e, R, bb, stacks)
             /\ e.committedThisStreet = [d.committedThisStreet EXCEPT ![s] = @ + x]
             /\ x = d.stack[s] => e.status[s] = "all-in"
             /\ \A q \in Seats \ {s} : e.status[q] = d.status[q]
             /\ \A q \in Seats : e.status[q] = "active" => d.status[q] = "active"
             /\ e.straddleSeat = d.straddleSeat /\ e.currentBet = d.currentBet
             /\ SameHand(d, e)
<1>. DEFINE e == Commit(d, s, x)
<1>1. d \in Drafts /\ Opening(d) /\ s \in Seats /\ R = Contending(d)
  BY DEF Posting, Opening, Contending
<1>2. /\ d.stack \in [Seats -> Nat] /\ d.committedThisHand \in [Seats -> Nat]
      /\ d.committedThisStreet \in [Seats -> Nat] /\ d.status \in [Seats -> Status]
      /\ d.anteTotal \in Nat
  BY <1>1 DEF Drafts, TablesIn
<1>3. /\ e.stack = [d.stack EXCEPT ![s] = @ - x]
      /\ e.committedThisStreet = [d.committedThisStreet EXCEPT ![s] = @ + x]
      /\ e.committedThisHand = [d.committedThisHand EXCEPT ![s] = @ + x]
      /\ e.status = [d.status EXCEPT ![s] = IF d.stack[s] = x THEN "all-in" ELSE @]
  BY <1>1, CommitFields
<1>4. /\ e.anteTotal = d.anteTotal /\ e.straddleSeat = d.straddleSeat
      /\ e.currentBet = d.currentBet /\ e.handNumber = d.handNumber
      /\ e.lastActedAtBet = d.lastActedAtBet /\ e.hasActedThisRound = d.hasActedThisRound
  BY <1>1 DEF Commit, Drafts, TablesIn
<1>5. Opening(e)
  BY <1>1, CommitOpens
<1>. HIDE DEF e
<1>6. \A q \in Seats : Held(e, bb, q) = stacks[q]
  <2>1. \A q \in Seats : e.stack[q] + e.committedThisHand[q] = d.stack[q] + d.committedThisHand[q]
    BY <1>1, <1>2, <1>3
  <2>. QED
    BY <1>4, <2>1 DEF Held, Posting
<1>7. Contending(e) = R
  BY <1>1, <1>2, <1>3 DEF Contending
<1>8. e.committedThisStreet[bb] <= BigBlind
  BY <1>1, <1>2, <1>3 DEF Posting
<1>9. /\ x = d.stack[s] => e.status[s] = "all-in"
      /\ \A q \in Seats \ {s} : e.status[q] = d.status[q]
      /\ \A q \in Seats : e.status[q] = "active" => d.status[q] = "active"
  BY <1>1, <1>2, <1>3
<1>10. \A q \in Seats \ R : e.committedThisStreet[q] = 0
  BY <1>1, <1>2, <1>3 DEF Posting
<1>. QED
  BY <1>3, <1>4, <1>5, <1>6, <1>7, <1>8, <1>9, <1>10 DEF Posting, SameHand, e

\* The blinds are in.  Unless the big blind is all-in for less than the small
\* one, it stands on the bet and is asked last; otherwise the small blind, who
\* sits before it.
LEMMA OpenBettingPosts ==
  ASSUME NEW d, NEW R \in SUBSET Seats, NEW bb \in R, NEW sb \in R, sb # bb,
         (sb = NextInRing(R, bb) /\ Cardinality(R) = 2) \/ sb = PrevInRing(R, bb),
         NEW stacks, Posting(d, R, bb, stacks),
         \A q \in Seats \ {sb, bb} : d.committedThisStreet[q] = 0,
         d.committedThisStreet[sb] \in 1 .. SmallBlind,
         d.committedThisStreet[bb] = BigBlind \/ d.status[bb] = "all-in"
  PROVE  LET e == OpenBetting(d, sb, bb)
         IN  /\ Posted(e, R, bb, bb, stacks) /\ e.currentBet <= BigBlind
             /\ e.straddleSeat = d.straddleSeat
             /\ SameHand(d, e)
<1>. DEFINE opening == Larger(d.committedThisStreet[sb], d.committedThisStreet[bb])
            e == OpenBetting(d, sb, bb)
<1>1. /\ d \in Drafts /\ Opening(d) /\ Contending(d) = R
      /\ BigBlind \in Nat /\ SmallBlind \in Nat /\ SmallBlind <= BigBlind
      /\ d.committedThisStreet[bb] <= BigBlind
  BY ConfigAssumption DEF Posting, Opening
<1>2. d.committedThisStreet \in [Seats -> Nat]
  BY <1>1 DEF Drafts, TablesIn
<1>3. /\ opening \in Nat /\ opening > 0 /\ opening <= BigBlind
      /\ \/ opening = d.committedThisStreet[bb]
         \/ opening = d.committedThisStreet[sb] /\ d.committedThisStreet[bb] < BigBlind
  BY <1>1, <1>2 DEF Larger
<1>4. Opening(e) /\ BetCovers(e)
  BY <1>1, OpenBettingOpens
<1>5. /\ e.currentBet = opening /\ e.status = d.status /\ e.stack = d.stack
      /\ e.committedThisStreet = d.committedThisStreet
      /\ e.committedThisHand = d.committedThisHand /\ e.anteTotal = d.anteTotal
      /\ e.straddleSeat = d.straddleSeat /\ e.handNumber = d.handNumber
      /\ e.lastActedAtBet = d.lastActedAtBet /\ e.hasActedThisRound = d.hasActedThisRound
  BY <1>1 DEF OpenBetting, Drafts, TablesIn
<1>. HIDE DEF e, opening
<1>6. Posting(e, R, bb, stacks)
  BY <1>4, <1>5 DEF Posting, Held, Contending
<1>7. \E w \in R : /\ e.committedThisStreet[w] = e.currentBet
                   /\ \A q \in R : e.status[q] = "active"
                                     => Distance(bb, q) <= Distance(bb, w)
  <2>1. CASE opening = d.committedThisStreet[bb]
    BY <1>5, <2>1, SelfIsLast
  <2>2. CASE opening = d.committedThisStreet[sb] /\ d.committedThisStreet[bb] < BigBlind
    <3>1. e.status[bb] = "all-in"
      BY <1>1, <1>2, <1>5, <2>2
    <3>2. \A q \in R \ {bb} : Distance(bb, q) <= Distance(bb, sb)
      BY PrevIsReachedLast, TwoSeats, DistanceType
    <3>. QED
      BY <1>5, <2>2, <3>1, <3>2
  <2>. QED
    BY <1>3, <2>1, <2>2
<1>8. e.currentBet > 0 /\ e.currentBet <= BigBlind /\ e.currentBet <= 2 * BigBlind
  BY <1>1, <1>3, <1>5
<1>9. Posted(e, R, bb, bb, stacks)
  BY <1>4, <1>6, <1>7, <1>8 DEF Posted
<1>10. SameHand(d, e)
  BY <1>5 DEF SameHand
<1>. QED
  BY <1>5, <1>8, <1>9, <1>10 DEF e

\* A straddle stands on the bet, and is asked last.  A straddle all-in for less
\* than the bet is not asked, and who stood on it comes last as before.
LEMMA PostStraddlePosts ==
  ASSUME NEW d, NEW R \in SUBSET Seats, AtLeastTwo(R), NEW pos, pos.bb \in R,
         NEW stacks, Posted(d, R, pos.bb, pos.bb, stacks), d.currentBet <= BigBlind,
         d.straddleSeat = NoSeat
  PROVE  LET e == PostStraddle(d, pos)
         IN  /\ Posted(e, R, pos.bb, FirstToAct(e, pos.bb), stacks)
             /\ SameHand(d, e)
<1>. DEFINE bb       == pos.bb
            utg      == NextInRing(Contending(d), bb)
            straddle == Smaller(2 * BigBlind, d.stack[utg] + d.committedThisStreet[utg])
            x        == straddle - d.committedThisStreet[utg]
            c        == Commit(d, utg, x)
            posted   == [c EXCEPT !.straddleSeat = utg]
            raised   == [posted EXCEPT !.currentBet = straddle,
                                       !.lastFullRaiseIncrement = straddle,
                                       !.lastFullBetAmount = straddle]
            e        == PostStraddle(d, pos)
<1>1. /\ d \in Drafts /\ Opening(d) /\ BetCovers(d) /\ Posting(d, R, bb, stacks)
      /\ Contending(d) = R /\ bb \in Seats /\ BigBlind \in Nat /\ BigBlind > 0
      /\ d.currentBet \in Nat /\ d.currentBet > 0
  BY ConfigAssumption DEF Posted, Posting, Opening, Drafts, TablesIn
<1>2. CASE ~d.straddleEnabled \/ pos.headsUp \/ utg \notin DealtIn(d)
  <2>1. e = d
    BY <1>2 DEF PostStraddle
  <2>. QED
    BY <2>1 DEF FirstToAct, SameHand
<1>3. CASE ~(~d.straddleEnabled \/ pos.headsUp \/ utg \notin DealtIn(d))
  <2>1. /\ utg \in R /\ utg \in Seats /\ utg # NoSeat /\ d.status[utg] = "active"
        /\ \A q \in R : Distance(bb, utg) <= Distance(bb, q)
    BY <1>1, <1>3, NextInRingNearest, NoSeatAssumption DEF DealtIn
  <2>2. utg # bb
    <3>1. PICK q \in R : q # bb
      BY DEF AtLeastTwo
    <3>2. Distance(bb, utg) < Distance(bb, bb)
      BY <1>1, <2>1, <3>1, SelfIsLast, DistanceType
    <3>. QED
      BY <1>1, <3>2, DistanceType
  <2>. HIDE DEF utg
  <2>3. /\ straddle \in Nat /\ x \in Int /\ x <= d.stack[utg] /\ straddle <= 2 * BigBlind
        /\ d.committedThisStreet[utg] + x = straddle
        /\ straddle <= d.currentBet => x = d.stack[utg]
        /\ d.committedThisStreet \in [Seats -> Nat]
    BY <1>1, <2>1 DEF Smaller, Drafts, TablesIn
  <2>4. d.committedThisStreet[utg] <= straddle
    BY <1>1, <2>1, <2>3 DEF Smaller, Drafts, TablesIn, BetCovers
  <2>. HIDE DEF straddle, x
  <2>5. /\ Posting(c, R, bb, stacks)
        /\ c.committedThisStreet = [d.committedThisStreet EXCEPT ![utg] = @ + x]
        /\ x = d.stack[utg] => c.status[utg] = "all-in"
        /\ \A q \in Seats : c.status[q] = "active" => d.status[q] = "active"
        /\ c.currentBet = d.currentBet /\ SameHand(d, c)
    <3>1. /\ 0 <= d.committedThisStreet[utg] + x
          /\ utg = bb => d.committedThisStreet[utg] + x <= BigBlind
      BY <2>2, <2>3
    <3>2. Posting(d, R, bb, stacks) /\ bb \in Seats /\ utg \in R
          /\ x \in Int /\ x <= d.stack[utg]
      BY <1>1, <2>1, <2>3
    <3>. HIDE DEF bb
    <3>. QED
      BY <3>1, <3>2, CommitPosts
  <2>. HIDE DEF c
  <2>6. c \in Drafts
    BY <2>5 DEF Posting, Opening
  <2>7. e = IF straddle <= d.currentBet THEN posted ELSE raised
    BY <1>3 DEF PostStraddle, utg, straddle, x, c
  <2>8. Opening(e) /\ BetCovers(e)
    BY <1>1, PostStraddleOpens
  <2>9. /\ e.straddleSeat = utg
        /\ e.currentBet = IF straddle <= d.currentBet THEN d.currentBet ELSE straddle
        /\ e.status = c.status /\ e.stack = c.stack /\ e.anteTotal = c.anteTotal
        /\ e.committedThisStreet = c.committedThisStreet
        /\ e.committedThisHand = c.committedThisHand
        /\ SameHand(d, e)
    <3>1. CASE straddle <= d.currentBet
      BY <2>5, <2>6, <2>7, <3>1 DEF SameHand, Drafts, TablesIn
    <3>2. CASE ~(straddle <= d.currentBet)
      BY <2>5, <2>6, <2>7, <3>2 DEF SameHand, Drafts, TablesIn
    <3>. QED
      BY <3>1, <3>2
  <2>. HIDE DEF e
  <2>10. Posting(e, R, bb, stacks)
    BY <2>5, <2>8, <2>9 DEF Posting, Held, Contending
  <2>11. e.currentBet > 0 /\ e.currentBet <= 2 * BigBlind
    BY <1>1, <2>3, <2>9
  <2>12. \E w \in R : /\ e.committedThisStreet[w] = e.currentBet
                      /\ \A q \in R : e.status[q] = "active"
                                        => Distance(utg, q) <= Distance(utg, w)
    <3>1. CASE ~(straddle <= d.currentBet)
      <4>1. e.committedThisStreet[utg] = e.currentBet
        BY <2>1, <2>3, <2>5, <2>9, <3>1
      <4>. QED
        BY <2>1, <4>1, SelfIsLast
    <3>2. CASE straddle <= d.currentBet
      <4>1. PICK w \in R : /\ d.committedThisStreet[w] = d.currentBet
                           /\ \A q \in R : d.status[q] = "active"
                                             => Distance(bb, q) <= Distance(bb, w)
        BY DEF Posted
      <4>2. w = utg => straddle = d.currentBet
        BY <1>1, <2>3, <2>4, <3>2, <4>1
      <4>3. e.committedThisStreet[w] = e.currentBet
        BY <2>1, <2>3, <2>5, <2>9, <3>2, <4>1, <4>2
      <4>4. ASSUME NEW q \in R, e.status[q] = "active"
            PROVE  Distance(utg, q) <= Distance(utg, w)
        <5>1. q # utg /\ d.status[q] = "active"
          BY <2>3, <2>5, <2>9, <3>2, <4>4
        <5>2. Distance(bb, utg) <= Distance(bb, q) /\ Distance(bb, q) <= Distance(bb, w)
          BY <2>1, <4>1, <5>1
        <5>. QED
          BY <1>1, <2>1, <5>1, <5>2, StepOn
      <4>. QED
        BY <4>3, <4>4
    <3>. QED
      BY <3>1, <3>2
  <2>13. Posted(e, R, bb, FirstToAct(e, bb), stacks)
    BY <2>1, <2>8, <2>9, <2>10, <2>11, <2>12 DEF Posted, FirstToAct
  <2>. QED
    BY <2>9, <2>13 DEF e
<1>. QED
  BY <1>2, <1>3

\* Who pays a missed blind pays up to the bet at most, and who stands on the
\* bet owes nothing.
LEMMA PostMissedBigBlindsPosts ==
  ASSUME NEW d, NEW R \in SUBSET Seats, NEW bb \in R, NEW first, NEW stacks,
         Posted(d, R, bb, first, stacks)
  PROVE  LET e == PostMissedBigBlinds(d)
         IN  /\ Posted(e, R, bb, first, stacks)
             /\ e.straddleSeat = d.straddleSeat
             /\ SameHand(d, e)
<1>. DEFINE target == Smaller(BigBlind, d.currentBet)
            owed == [s \in Seats |->
                       IF d.missedBigBlind[s] /\ d.status[s] = "active"
                       THEN Larger(0, Smaller(target - d.committedThisStreet[s], d.stack[s]))
                       ELSE 0]
            missed == [s \in Seats |-> d.missedBigBlind[s] /\ s \notin Contending(d)]
            stack  == [s \in Seats |-> d.stack[s] - owed[s]]
            street == [s \in Seats |-> d.committedThisStreet[s] + owed[s]]
            hand   == [s \in Seats |-> d.committedThisHand[s] + owed[s]]
            status == [s \in Seats |-> IF owed[s] > 0 /\ owed[s] = d.stack[s]
                                       THEN "all-in" ELSE d.status[s]]
            e == [d EXCEPT !.missedBigBlind = missed, !.stack = stack,
                           !.committedThisStreet = street, !.committedThisHand = hand,
                           !.status = status]
<1>1. /\ d \in Drafts /\ Opening(d) /\ BetCovers(d) /\ Contending(d) = R
      /\ BigBlind \in Nat /\ d.committedThisStreet[bb] <= BigBlind /\ bb \in Seats
  BY ConfigAssumption DEF Posted, Posting, Opening
<1>2. PostMissedBigBlinds(d) = e
  BY DEF PostMissedBigBlinds
<1>3. /\ d.stack \in [Seats -> Nat] /\ d.committedThisStreet \in [Seats -> Nat]
      /\ d.committedThisHand \in [Seats -> Nat] /\ d.anteTotal \in Nat
      /\ d.status \in [Seats -> Status] /\ d.currentBet \in Nat
  BY <1>1 DEF Drafts, TablesIn
<1>4. \A s \in Seats : /\ owed[s] \in Nat
                       /\ d.committedThisStreet[s] + owed[s] <= BigBlind \/ owed[s] = 0
                       /\ d.committedThisStreet[s] = d.currentBet => owed[s] = 0
                       /\ owed[s] > 0 => d.status[s] = "active"
  BY <1>1, <1>3 DEF Smaller, Larger
<1>. HIDE DEF owed, target
<1>5. Opening(e) /\ BetCovers(e)
  BY <1>1, <1>2, PostMissedBigBlindsOpens
<1>6. /\ e.stack = stack /\ e.committedThisStreet = street /\ e.committedThisHand = hand
      /\ e.status = status /\ e.currentBet = d.currentBet /\ e.anteTotal = d.anteTotal
      /\ e.straddleSeat = d.straddleSeat /\ SameHand(d, e)
  BY <1>1 DEF Drafts, TablesIn, SameHand
<1>. HIDE DEF e
<1>7. \A s \in Seats : Held(e, bb, s) = stacks[s]
  <2>1. \A s \in Seats : e.stack[s] + e.committedThisHand[s] = d.stack[s] + d.committedThisHand[s]
    BY <1>3, <1>4, <1>6
  <2>. QED
    BY <1>6, <2>1 DEF Held, Posted, Posting
<1>8. \A s \in Seats : /\ e.status[s] = "active" => d.status[s] = "active"
                       /\ e.status[s] \in {"active", "all-in"}
                            <=> d.status[s] \in {"active", "all-in"}
  BY <1>3, <1>4, <1>6
<1>9. Contending(e) = R
  BY <1>1, <1>8 DEF Contending
<1>10. /\ e.committedThisStreet[bb] <= BigBlind
       /\ \A s \in Seats \ R : e.committedThisStreet[s] = 0
  <2>1. \A s \in Seats \ R : owed[s] = 0 /\ d.committedThisStreet[s] = 0
    BY <1>1, <1>4 DEF Posted, Posting, Contending
  <2>. QED
    BY <1>1, <1>3, <1>4, <1>6, <2>1
<1>11. Posting(e, R, bb, stacks)
  BY <1>5, <1>6, <1>7, <1>9, <1>10 DEF Posted, Posting
<1>12. \E w \in R : /\ e.committedThisStreet[w] = e.currentBet
                    /\ \A q \in R : e.status[q] = "active"
                                      => Distance(first, q) <= Distance(first, w)
  <2>1. PICK w \in R : /\ d.committedThisStreet[w] = d.currentBet
                       /\ \A q \in R : d.status[q] = "active"
                                         => Distance(first, q) <= Distance(first, w)
    BY DEF Posted
  <2>2. e.committedThisStreet[w] = e.currentBet
    BY <1>3, <1>4, <1>6, <2>1
  <2>. QED
    BY <1>8, <2>1, <2>2
<1>. QED
  BY <1>2, <1>5, <1>6, <1>11, <1>12 DEF Posted

LEMMA DealStands ==
  ASSUME NEW d, NEW R \in SUBSET Seats, NEW pos, pos.bb \in R, NEW stacks,
         Posted(d, R, pos.bb, FirstToAct(d, pos.bb), stacks)
  PROVE  LET e == Deal(d, pos)
         IN  /\ BetStands(e)
             /\ Contending(e) = R
             /\ e.lastBigBlindSeat = pos.bb
             /\ \A s \in Seats : Held(e, pos.bb, s) = stacks[s]
             /\ \A s \in Seats : e.committedThisHand[s] <= 2 * BigBlind
             /\ e.committedThisHand[pos.bb] <= BigBlind /\ e.anteTotal <= MaxAnte
             /\ \A s \in Seats \ R : e.committedThisHand[s] = 0
             /\ \E s \in R : e.committedThisHand[s] > 0
             /\ SameHand(d, e)
<1>. DEFINE e == Deal(d, pos)
            first == FirstToAct(d, pos.bb)
<1>1. /\ d \in Drafts /\ d.committedThisHand = d.committedThisStreet
      /\ Contending(d) = R /\ BetCovers(d) /\ Posting(d, R, pos.bb, stacks)
      /\ d.currentBet <= 2 * BigBlind /\ pos.bb \in Seats /\ BigBlind \in Nat
  BY ConfigAssumption DEF Posted, Posting, Opening
<1>2. /\ e.status = d.status /\ e.stack = d.stack /\ e.currentBet = d.currentBet
      /\ e.committedThisStreet = d.committedThisStreet
      /\ e.committedThisHand = d.committedThisHand /\ e.anteTotal = d.anteTotal
      /\ e.lastBigBlindSeat = pos.bb /\ e.actingSeat = first
      /\ SameHand(d, e)
  BY <1>1 DEF Deal, FirstToAct, SameHand, Drafts, TablesIn
<1>. HIDE DEF e, first
<1>3. /\ d.committedThisStreet \in [Seats -> Nat] /\ d.currentBet \in Nat
  BY <1>1 DEF Drafts, TablesIn
<1>4. Contending(e) = R /\ \A s \in Seats : Held(e, pos.bb, s) = stacks[s]
  BY <1>1, <1>2 DEF Contending, Held, Posting
<1>5. /\ \A s \in Seats : e.committedThisHand[s] <= 2 * BigBlind
      /\ e.committedThisHand[pos.bb] <= BigBlind /\ e.anteTotal <= MaxAnte
  BY <1>1, <1>2, <1>3 DEF BetCovers, Posting
<1>6. PICK w \in R : /\ d.committedThisStreet[w] = d.currentBet
                     /\ \A q \in R : d.status[q] = "active"
                                       => Distance(first, q) <= Distance(first, w)
  BY DEF Posted, first
<1>7. Stands(e, w)
  BY <1>1, <1>2, <1>3, <1>4, <1>6 DEF Stands
<1>10. /\ \A s \in Seats \ R : e.committedThisHand[s] = 0
       /\ \E s \in R : e.committedThisHand[s] > 0
  BY <1>1, <1>2, <1>3, <1>6 DEF Posted, Posting
<1>8. After(e, Pending(e), w)
  <2>1. \A q \in Pending(e) : q \in R /\ d.status[q] = "active"
    BY <1>1, <1>2 DEF Pending, NeedsToAct, Contending
  <2>. QED
    BY <1>2, <1>6, <2>1 DEF After
<1>9. BetStands(e)
  BY <1>7, <1>8 DEF BetStands
<1>. QED
  BY <1>2, <1>4, <1>5, <1>9, <1>10 DEF e

\* Where the blinds are: two seats of the ring, the small one before the big.
LEMMA AssignBlinds ==
  ASSUME NEW R \in SUBSET Seats, AtLeastTwo(R), NEW last \in Seats \cup {NoSeat}
  PROVE  LET pos == AssignButtonAndBlinds(R, last)
         IN  /\ pos.bb \in R /\ pos.sb \in R /\ pos.button \in R /\ pos.sb # pos.bb
             /\ \/ pos.sb = NextInRing(R, pos.bb) /\ Cardinality(R) = 2
                \/ pos.sb = PrevInRing(R, pos.bb)
<1>. DEFINE pos == AssignButtonAndBlinds(R, last)
<1>1. pos.bb \in R /\ pos.sb \in R /\ pos.button \in R
  BY AssignType DEF AtLeastTwo
<1>2. \/ pos.sb = NextInRing(R, pos.bb) /\ Cardinality(R) = 2
      \/ pos.sb = PrevInRing(R, pos.bb)
  BY DEF AssignButtonAndBlinds
<1>. HIDE DEF pos
<1>3. pos.sb # pos.bb
  BY <1>1, <1>2, NeighbourIsAnother
<1>. QED
  BY <1>1, <1>2, <1>3 DEF pos

\* The draft a hand is dealt on is played on from: somebody stands on the bet,
\* the seats dealt in contend, and what they paid is in the middle.
LEMMA PrepareAndDealHandStands ==
  ASSUME NEW d \in Drafts, AtLeastTwo(DealtIn(d)), Contending(d) = DealtIn(d),
         d.committedThisHand = [s \in Seats |-> 0],
         d.committedThisStreet = [s \in Seats |-> 0]
  PROVE  LET e == PrepareAndDealHand(d)
         IN  /\ BetStands(e)
             /\ Contending(e) = DealtIn(d)
             /\ e.lastBigBlindSeat \in DealtIn(d)
             /\ \A s \in Seats : Held(e, e.lastBigBlindSeat, s) = d.stack[s]
             /\ \A s \in Seats : e.committedThisHand[s] <= 2 * BigBlind
             /\ e.committedThisHand[e.lastBigBlindSeat] <= BigBlind
             /\ e.anteTotal <= MaxAnte
             /\ \A s \in Seats \ DealtIn(d) : e.committedThisHand[s] = 0
             /\ \E s \in Seats : e.committedThisHand[s] > 0
             /\ e.handNumber = d.handNumber + 1
             /\ e.lastActedAtBet = d.lastActedAtBet
             /\ e.hasActedThisRound = d.hasActedThisRound
<1>. DEFINE R     == DealtIn(d)
            pos   == AssignButtonAndBlinds(R, d.lastBigBlindSeat)
            fresh == [d EXCEPT !.buttonSeat = pos.button, !.street = "preflop",
                               !.allInRevealed = FALSE, !.anteTotal = 0,
                               !.straddleSeat = NoSeat, !.handNumber = @ + 1]
            ante  == PostAnte(fresh, pos.bb)
            y     == Smaller(SmallBlind, ante.stack[pos.sb])
            small == PostBlind(ante, pos.sb, SmallBlind)
            z     == Smaller(BigBlind, small.stack[pos.bb])
            posted == PostBlind(small, pos.bb, BigBlind)
            big   == [posted EXCEPT !.missedBigBlind[pos.bb] = FALSE]
            open  == OpenBetting(big, pos.sb, pos.bb)
            straddled == PostStraddle(open, pos)
            missed == PostMissedBigBlinds(straddled)
            e     == Deal(missed, pos)
<1>1. PrepareAndDealHand(d) = e
  BY DEF PrepareAndDealHand
<1>2. /\ R \in SUBSET Seats /\ AtLeastTwo(R) /\ pos.bb \in R /\ pos.sb \in R
      /\ pos.button \in R /\ pos.sb # pos.bb
      /\ \/ pos.sb = NextInRing(R, pos.bb) /\ Cardinality(R) = 2
         \/ pos.sb = PrevInRing(R, pos.bb)
  <2>1. R \in SUBSET Seats /\ d.lastBigBlindSeat \in Seats \cup {NoSeat}
    BY DEF DealtIn, Drafts, TablesIn
  <2>. HIDE DEF R
  <2>. QED
    BY <2>1, AssignBlinds DEF R
<1>. HIDE DEF pos
<1>3. SmallBlind \in Nat /\ SmallBlind > 0 /\ BigBlind \in Nat
  BY ConfigAssumption
<1>4. /\ Opening(fresh) /\ fresh.anteTotal = 0 /\ fresh.straddleSeat = NoSeat
      /\ fresh.committedThisStreet = [s \in Seats |-> 0]
      /\ fresh.status = d.status /\ fresh.stack = d.stack
      /\ fresh.handNumber = d.handNumber + 1
      /\ fresh.lastActedAtBet = d.lastActedAtBet
      /\ fresh.hasActedThisRound = d.hasActedThisRound
  <2>1. d.handNumber + 1 \in Nat
    BY DEF Drafts, TablesIn
  <2>2. fresh \in Drafts
    BY <1>2, <2>1 DEF Drafts, TablesIn, Street
  <2>3. /\ fresh.anteTotal = 0 /\ fresh.straddleSeat = NoSeat /\ fresh.allInRevealed = FALSE
        /\ fresh.committedThisHand = d.committedThisHand
        /\ fresh.committedThisStreet = d.committedThisStreet
        /\ fresh.status = d.status /\ fresh.stack = d.stack
        /\ fresh.handNumber = d.handNumber + 1
        /\ fresh.lastActedAtBet = d.lastActedAtBet
        /\ fresh.hasActedThisRound = d.hasActedThisRound
    BY DEF Drafts, TablesIn
  <2>. HIDE DEF fresh
  <2>. QED
    BY <2>2, <2>3 DEF Opening
<1>5. Contending(fresh) = R
  BY <1>4 DEF Contending
<1>. HIDE DEF fresh, R
<1>6. /\ Posting(ante, R, pos.bb, d.stack) /\ ante.straddleSeat = NoSeat
      /\ ante.committedThisStreet = [s \in Seats |-> 0] /\ SameHand(fresh, ante)
  BY <1>2, <1>4, <1>5, PostAntePosts, PostAnteOpens
<1>. HIDE DEF ante
<1>7. /\ y \in Nat /\ y > 0 /\ y <= ante.stack[pos.sb] /\ y <= SmallBlind
      /\ ante.committedThisStreet[pos.sb] = 0
  <2>1. ante.committedThisStreet[pos.sb] = 0 /\ ante.committedThisHand[pos.sb] = 0
    BY <1>2, <1>6 DEF Posting, Opening
  <2>2. ante.stack[pos.sb] = d.stack[pos.sb]
    BY <1>2, <1>6, <2>1 DEF Posting, Opening, Held, Drafts, TablesIn
  <2>3. d.stack[pos.sb] > 0
    BY <1>2 DEF R, DealtIn
  <2>. QED
    BY <1>2, <1>3, <1>6, <2>1, <2>2, <2>3 DEF Smaller, Posting, Opening, Drafts, TablesIn
<1>8. small = Commit(ante, pos.sb, y)
  BY DEF PostBlind
<1>. HIDE DEF y, small
<1>9. /\ Posting(small, R, pos.bb, d.stack) /\ small.straddleSeat = NoSeat
      /\ small.committedThisStreet = [ante.committedThisStreet EXCEPT ![pos.sb] = @ + y]
      /\ SameHand(ante, small)
  <2>1. /\ Posting(ante, R, pos.bb, d.stack) /\ y \in Int /\ y <= ante.stack[pos.sb]
        /\ 0 <= ante.committedThisStreet[pos.sb] + y
        /\ pos.sb = pos.bb => ante.committedThisStreet[pos.sb] + y <= BigBlind
        /\ pos.bb \in Seats /\ pos.sb \in R /\ ante.straddleSeat = NoSeat
    BY <1>2, <1>6, <1>7
  <2>. QED
    BY <1>8, <2>1, CommitPosts
<1>10. /\ small.committedThisStreet[pos.sb] = y
       /\ \A q \in Seats \ {pos.sb} : small.committedThisStreet[q] = 0
  BY <1>2, <1>6, <1>7, <1>9
<1>11. /\ z \in Nat /\ z <= small.stack[pos.bb] /\ z <= BigBlind
       /\ z = BigBlind \/ z = small.stack[pos.bb]
       /\ small.committedThisStreet[pos.bb] = 0
  BY <1>2, <1>3, <1>9, <1>10 DEF Smaller, Posting, Opening, Drafts, TablesIn
<1>12. posted = Commit(small, pos.bb, z)
  BY DEF PostBlind
<1>. HIDE DEF z, posted
<1>13. /\ Posting(posted, R, pos.bb, d.stack) /\ posted.straddleSeat = NoSeat
       /\ posted.committedThisStreet = [small.committedThisStreet EXCEPT ![pos.bb] = @ + z]
       /\ z = small.stack[pos.bb] => posted.status[pos.bb] = "all-in"
       /\ SameHand(small, posted)
  <2>1. /\ Posting(small, R, pos.bb, d.stack) /\ z \in Int /\ z <= small.stack[pos.bb]
        /\ 0 <= small.committedThisStreet[pos.bb] + z
        /\ pos.bb = pos.bb => small.committedThisStreet[pos.bb] + z <= BigBlind
        /\ pos.bb \in Seats /\ pos.bb \in R /\ small.straddleSeat = NoSeat
    BY <1>2, <1>9, <1>11
  <2>2. LET c == Commit(small, pos.bb, z)
        IN  /\ Posting(c, R, pos.bb, d.stack) /\ c.straddleSeat = small.straddleSeat
            /\ c.committedThisStreet = [small.committedThisStreet EXCEPT ![pos.bb] = @ + z]
            /\ z = small.stack[pos.bb] => c.status[pos.bb] = "all-in"
            /\ SameHand(small, c)
    BY <2>1, CommitPosts
  <2>. QED
    BY <1>12, <2>1, <2>2
<1>14. /\ posted.committedThisStreet[pos.bb] = z
       /\ posted.committedThisStreet[pos.sb] = y
       /\ \A q \in Seats \ {pos.sb, pos.bb} : posted.committedThisStreet[q] = 0
  <2>1. small.committedThisStreet \in [Seats -> Nat]
    BY <1>9 DEF Posting, Opening, Drafts, TablesIn
  <2>. QED
    BY <1>2, <1>10, <1>11, <1>13, <2>1
<1>15. /\ Posting(big, R, pos.bb, d.stack) /\ big.straddleSeat = NoSeat
       /\ big.committedThisStreet = posted.committedThisStreet
       /\ big.status = posted.status /\ SameHand(posted, big)
  <2>1. posted \in Drafts /\ Opening(posted)
    BY <1>13 DEF Posting, Opening
  <2>2. [posted.missedBigBlind EXCEPT ![pos.bb] = FALSE] \in [Seats -> BOOLEAN]
    BY <2>1 DEF Drafts, TablesIn
  <2>3. /\ big \in Drafts /\ big.straddleSeat = posted.straddleSeat
        /\ big.status = posted.status /\ big.stack = posted.stack
        /\ big.committedThisStreet = posted.committedThisStreet
        /\ big.committedThisHand = posted.committedThisHand
        /\ big.anteTotal = posted.anteTotal /\ big.allInRevealed = posted.allInRevealed
        /\ SameHand(posted, big)
    BY <2>1, <2>2 DEF Drafts, TablesIn, SameHand
  <2>. HIDE DEF big
  <2>. QED
    BY <1>13, <2>1, <2>3 DEF Posting, Opening, Held, Contending
<1>. HIDE DEF big
<1>16. /\ Posted(open, R, pos.bb, pos.bb, d.stack) /\ open.currentBet <= BigBlind
       /\ open.straddleSeat = NoSeat /\ SameHand(big, open)
  <2>1. /\ \A q \in Seats \ {pos.sb, pos.bb} : big.committedThisStreet[q] = 0
        /\ big.committedThisStreet[pos.sb] \in 1 .. SmallBlind
        /\ big.committedThisStreet[pos.bb] = BigBlind \/ big.status[pos.bb] = "all-in"
    BY <1>3, <1>7, <1>11, <1>13, <1>14, <1>15
  <2>. QED
    BY <1>2, <1>15, <2>1, OpenBettingPosts
<1>. HIDE DEF open
<1>17. /\ Posted(straddled, R, pos.bb, FirstToAct(straddled, pos.bb), d.stack)
       /\ SameHand(open, straddled)
  BY <1>2, <1>16, PostStraddlePosts
<1>. HIDE DEF straddled
<1>18. /\ Posted(missed, R, pos.bb, FirstToAct(missed, pos.bb), d.stack)
       /\ SameHand(straddled, missed)
  BY <1>2, <1>17, PostMissedBigBlindsPosts DEF FirstToAct
<1>. HIDE DEF missed
<1>19. /\ BetStands(e) /\ Contending(e) = R /\ e.lastBigBlindSeat = pos.bb
       /\ \A s \in Seats : Held(e, pos.bb, s) = d.stack[s]
       /\ \A s \in Seats : e.committedThisHand[s] <= 2 * BigBlind
       /\ e.committedThisHand[pos.bb] <= BigBlind /\ e.anteTotal <= MaxAnte
       /\ \A s \in Seats \ R : e.committedThisHand[s] = 0
       /\ \E s \in R : e.committedThisHand[s] > 0
       /\ SameHand(missed, e)
  <2>1. /\ R \in SUBSET Seats /\ pos.bb \in R
        /\ Posted(missed, R, pos.bb, FirstToAct(missed, pos.bb), d.stack)
    BY <1>2, <1>18
  <2>2. LET f == Deal(missed, pos)
        IN  /\ BetStands(f)
            /\ Contending(f) = R
            /\ f.lastBigBlindSeat = pos.bb
            /\ \A s \in Seats : Held(f, pos.bb, s) = d.stack[s]
            /\ \A s \in Seats : f.committedThisHand[s] <= 2 * BigBlind
            /\ f.committedThisHand[pos.bb] <= BigBlind /\ f.anteTotal <= MaxAnte
            /\ \A s \in Seats \ R : f.committedThisHand[s] = 0
            /\ \E s \in R : f.committedThisHand[s] > 0
            /\ SameHand(missed, f)
    BY <2>1, DealStands
  <2>. QED
    BY <2>2
<1>. HIDE DEF e
<1>20. /\ e.handNumber = d.handNumber + 1 /\ e.lastActedAtBet = d.lastActedAtBet
       /\ e.hasActedThisRound = d.hasActedThisRound
  BY <1>4, <1>6, <1>9, <1>13, <1>15, <1>16, <1>17, <1>18, <1>19 DEF SameHand
<1>21. \E s \in Seats : e.committedThisHand[s] > 0
  BY <1>2, <1>19
<1>22. /\ e.lastBigBlindSeat \in R
       /\ \A s \in Seats : Held(e, e.lastBigBlindSeat, s) = d.stack[s]
       /\ e.committedThisHand[e.lastBigBlindSeat] <= BigBlind
  BY <1>2, <1>19
<1>. QED
  BY <1>1, <1>19, <1>20, <1>21, <1>22 DEF R

-----------------------------------------------------------------------------
(* How a step of a hand ends.                                              *)

\* No seat has acted on a bet above the one there is to call, and who has acted
\* and can still bet put in what there was to call then.
ActedWithin(d) ==
  \A s \in Seats :
    /\ d.lastActedAtBet[s] <= d.currentBet
    /\ d.status[s] = "active" /\ d.hasActedThisRound[s]
         => d.committedThisStreet[s] = d.lastActedAtBet[s]

Uncalled(b) == UncalledExcess(b.committedThisHand, Live(b))

\* A refund goes to one seat: it touches nothing but that seat's chips, and
\* turns an all-in back into a bet.
LEMMA RefundFields ==
  ASSUME NEW b \in Drafts
  PROVE  LET u == ReturnUncalledBet(b)
             c == b.committedThisHand
             top == TopContributor(c)
         IN  /\ u \in Drafts
             /\ u.handNumber = b.handNumber /\ u.anteTotal = b.anteTotal
             /\ u.buttonSeat = b.buttonSeat /\ u.lastBigBlindSeat = b.lastBigBlindSeat
             /\ Contending(u) = Contending(b) /\ Live(u) = Live(b)
             /\ \A s \in Seats : u.stack[s] + u.committedThisHand[s] = b.stack[s] + c[s]
             /\ Uncalled(b) <= 0 => u.committedThisHand = c
             /\ Uncalled(b) > 0 =>
                  /\ top \in Seats
                  /\ u.committedThisHand = [c EXCEPT ![top] = @ - Uncalled(b)]
<1>. DEFINE c == b.committedThisHand
            top == TopContributor(c)
            u == ReturnUncalledBet(b)
            n == Uncalled(b)
<1>1. /\ c \in [Seats -> Nat] /\ b.stack \in [Seats -> Nat] /\ b.status \in [Seats -> Status]
  BY DEF Drafts, TablesIn
<1>2. n \in Int /\ (n > 0 => top \in Seats)
  BY <1>1, UncalledExcessType DEF Uncalled
<1>3. u \in Drafts
  BY ReturnUncalledBetType
<1>4. CASE n <= 0
  <2>1. u = b
    BY <1>4 DEF ReturnUncalledBet, Uncalled
  <2>. QED
    BY <1>2, <1>4, <2>1
<1>5. CASE n > 0
  <2>. HIDE DEF top, n
  <2>1. /\ u.handNumber = b.handNumber /\ u.anteTotal = b.anteTotal
        /\ u.buttonSeat = b.buttonSeat /\ u.lastBigBlindSeat = b.lastBigBlindSeat
        /\ u.stack = [b.stack EXCEPT ![top] = @ + n]
        /\ u.committedThisHand = [c EXCEPT ![top] = @ - n]
        /\ u.status = [b.status EXCEPT ![top] = IF @ = "all-in" THEN "active" ELSE @]
    <3>1. u = [b EXCEPT !.committedThisHand[top] = @ - n,
                        !.committedThisStreet[top] = Larger(0, @ - n),
                        !.stack[top] = @ + n,
                        !.status[top] = IF @ = "all-in" THEN "active" ELSE @]
      BY <1>2, <1>5 DEF ReturnUncalledBet, Uncalled, n, top
    <3>. HIDE DEF u
    <3>. QED
      BY <1>1, <3>1 DEF Drafts, TablesIn
  <2>. HIDE DEF u
  <2>2. \A s \in Seats : u.stack[s] + u.committedThisHand[s] = b.stack[s] + c[s]
    BY <1>1, <1>2, <1>5, <2>1
  <2>3. Contending(u) = Contending(b) /\ Live(u) = Live(b)
    BY <1>1, <1>2, <1>5, <2>1 DEF Contending, Live
  <2>. QED
    BY <1>2, <1>3, <1>5, <2>1, <2>2, <2>3 DEF n, top, u
<1>. QED
  BY <1>2, <1>4, <1>5

\* Where a step of a hand leaves the table: the next seat is asked, the one
\* seat left has won, or the cards are compared.
StepEnds(b) ==
  \/ InHand' /\ Pending(b) # {} /\ table' = Asking(b, NextInRing(Pending(b), b.actingSeat))
  \/ ~AtLeastTwo(Contending(b)) /\ table' = FoldWinOf(b)
  \/ /\ Pending(b) = {}
     /\ \E rank \in [Seats -> Ranks] : table' = RunShowdown(ShowdownOf(b), rank)

LEMMA StepLeaves ==
  ASSUME NEW d, Playing(d), BetStands(d), Return(Advance(d))
  PROVE  \E b : OnPath(d, b) /\ StepEnds(b)
<1>1. InLoop(d)
  BY DEF Playing, InLoop
<1>2. PICK b : OnPath(d, b) /\ Leaves(b, Advance(d))
  BY <1>1, AdvanceLeaves
<1>3. b \in Drafts /\ b.phase = "in-hand" /\ b.actingSeat \in Seats
  BY <1>2 DEF OnPath, InLoop, Playable
<1>4. CASE Pending(b) # {} /\ Advance(d) = Asking(b, NextInRing(Pending(b), b.actingSeat))
  <2>1. Advance(d).phase = "in-hand"
    BY <1>3, <1>4 DEF Asking, Drafts, TablesIn
  <2>. QED
    BY <1>2, <1>4, <2>1 DEF Return, StepEnds, InHand
<1>5. CASE ~AtLeastTwo(Contending(b)) /\ Advance(d) = FoldWinOf(b)
  <2>1. Advance(d).phase = "hand-complete"
    BY <1>3, <1>5, ReturnUncalledBetType, AwardFoldWinType DEF FoldWinOf
  <2>. QED
    BY <1>2, <1>5, <2>1 DEF Return, StepEnds
<1>6. CASE Pending(b) = {} /\ Advance(d) = ShowdownOf(b)
  <2>1. Advance(d).phase = "showdown"
    <3>1. ReturnUncalledBet(b) \in Drafts
      BY <1>3, ReturnUncalledBetType
    <3>. QED
      BY <1>6, <3>1 DEF ShowdownOf, Drafts, TablesIn
  <2>. QED
    BY <1>2, <1>6, <2>1 DEF Return, StepEnds
<1>. QED
  BY <1>2, <1>4, <1>5, <1>6 DEF Leaves

\* Somebody has put chips in, and nobody who was not dealt in has.
Staked(d) ==
  /\ \E s \in Seats : d.committedThisHand[s] > 0
  /\ \A s \in Seats : d.status[s] \in {"sitting-out", "empty"} => d.committedThisHand[s] = 0

\* A draft the engine goes on from, and a table on which it is somebody's turn.
InPlay(d) == Playing(d) /\ BetStands(d) /\ ActedWithin(d) /\ Staked(d)
Rests(t)  == Playing(t) /\ AtRest(t) /\ ActedWithin(t) /\ Staked(t)

LEMMA OnPathKeeps ==
  ASSUME NEW d, InPlay(d), NEW b, OnPath(d, b)
  PROVE  ActedWithin(b) /\ Staked(b)
<1>1. b.currentBet \in Nat
  BY DEF OnPath, InLoop, Playable, Drafts, TablesIn
<1>2. ActedWithin(b)
  BY <1>1 DEF InPlay, OnPath, Onward, ActedWithin
<1>3. Staked(b)
  BY DEF InPlay, OnPath, Onward, Staked
<1>. QED
  BY <1>2, <1>3

\* The seat that is asked finds the table as it should be.
LEMMA AskedRests ==
  ASSUME NEW d, InPlay(d), NEW b, OnPath(d, b), Pending(b) # {}
  PROVE  LET e == Asking(b, NextInRing(Pending(b), b.actingSeat))
         IN  /\ Rests(e) /\ e \in Tables
             /\ Contending(e) = Contending(b) /\ e.handNumber = b.handNumber
             /\ e.stack = b.stack /\ e.committedThisHand = b.committedThisHand
             /\ e.anteTotal = b.anteTotal /\ e.status = b.status
             /\ e.lastBigBlindSeat = b.lastBigBlindSeat
             /\ e.lastActedAtBet = b.lastActedAtBet /\ e.currentBet = b.currentBet
             /\ e.lastFullRaiseIncrement = b.lastFullRaiseIncrement
             /\ e.street = b.street /\ e.committedThisStreet = b.committedThisStreet
             /\ e.hasActedThisRound = b.hasActedThisRound
<1>. DEFINE n == NextInRing(Pending(b), b.actingSeat)
            e == Asking(b, n)
<1>1. Playable(b) /\ BetStands(b) /\ b \in Drafts /\ InLoop(b) /\ b.phase = "in-hand"
  BY DEF OnPath, InLoop, Playable
<1>2. n \in Seats
  BY <1>1, NextInRingType DEF Pending, NeedsToAct, Playable
<1>3. AtRest(e)
  BY <1>1, PromptRests
<1>4. ActedWithin(b) /\ Staked(b)
  BY OnPathKeeps
<1>. HIDE DEF n
<1>5. /\ e \in Drafts /\ e.phase = "in-hand" /\ e.actingSeat = n
      /\ e.handNumber = b.handNumber /\ e.stack = b.stack
      /\ e.committedThisHand = b.committedThisHand /\ e.anteTotal = b.anteTotal
      /\ e.status = b.status /\ e.lastBigBlindSeat = b.lastBigBlindSeat
      /\ e.lastActedAtBet = b.lastActedAtBet /\ e.currentBet = b.currentBet
      /\ e.lastFullRaiseIncrement = b.lastFullRaiseIncrement /\ e.street = b.street
      /\ e.committedThisStreet = b.committedThisStreet
      /\ e.hasActedThisRound = b.hasActedThisRound
      /\ e.allInRevealed = b.allInRevealed
  BY <1>1, <1>2 DEF Asking, Drafts, TablesIn
<1>. HIDE DEF e
<1>6. e \in Tables
  BY <1>5 DEF Tables, Drafts, TablesIn, Phase
<1>7. ~b.allInRevealed
  <2>1. \A s \in Seats : b.committedThisStreet[s] \in Nat /\ b.currentBet \in Nat
    BY <1>1 DEF Drafts, TablesIn
  <2>. QED
    BY <1>1, <2>1 DEF Pending, NeedsToAct, InLoop, NothingToDecide
<1>8. Playing(e)
  BY <1>1, <1>2, <1>5, <1>7 DEF Playing, Playable, BetCovers, PaidAlike
<1>9. ActedWithin(e) /\ Staked(e)
  BY <1>4, <1>5 DEF ActedWithin, Staked
<1>10. Contending(e) = Contending(b)
  BY <1>5 DEF Contending
<1>. QED
  BY <1>3, <1>5, <1>6, <1>8, <1>9, <1>10 DEF Rests, n, e

LEMMA StepGoesOn ==
  ASSUME NEW d, InPlay(d), Return(Advance(d))
  PROVE  /\ table' \in Tables
         /\ InHand' => Rests(table')
<1>1. PICK b : OnPath(d, b) /\ StepEnds(b)
  BY StepLeaves DEF InPlay
<1>2. b \in Drafts
  BY <1>1 DEF OnPath, InLoop, Playable
<1>3. CASE InHand' /\ Pending(b) # {}
             /\ table' = Asking(b, NextInRing(Pending(b), b.actingSeat))
  BY <1>1, <1>3, AskedRests
<1>4. CASE table' = FoldWinOf(b)
  <2>1. table' \in Tables /\ table'.phase = "hand-complete"
    BY <1>2, <1>4, ReturnUncalledBetType, AwardFoldWinType DEF FoldWinOf
  <2>. QED
    BY <2>1 DEF InHand
<1>5. ASSUME NEW rank \in [Seats -> Ranks], table' = RunShowdown(ShowdownOf(b), rank)
      PROVE  table' \in Tables /\ table'.phase = "hand-complete"
  <2>1. ReturnUncalledBet(b) \in Drafts
    BY <1>2, ReturnUncalledBetType
  <2>2. ShowdownOf(b) \in Drafts
    BY <2>1 DEF ShowdownOf, Drafts, TablesIn
  <2>. QED
    BY <1>5, <2>2, RunShowdownType
<1>. QED
  BY <1>1, <1>3, <1>4, <1>5 DEF StepEnds, InHand

\* A decision keeps what is known of the table.
LEMMA MovesInPlay ==
  ASSUME NEW t, Rests(t), NEW s \in Seats, t.status[s] = "active",
         NEW d, Playing(d), BetStands(d), Moves(t, s, d)
  PROVE  InPlay(d)
<1>1. /\ t.committedThisHand \in [Seats -> Nat] /\ t.stack \in [Seats -> Nat]
      /\ d.committedThisHand \in [Seats -> Nat] /\ d.stack \in [Seats -> Nat]
      /\ t.currentBet \in Nat /\ d.currentBet \in Nat
      /\ t.lastActedAtBet \in [Seats -> Nat]
  BY DEF Rests, Playing, Playable, Drafts, TablesIn
<1>2. ActedWithin(d)
  BY <1>1 DEF Rests, ActedWithin, Moves
<1>3. Staked(d)
  <2>1. PICK q \in Seats : t.committedThisHand[q] > 0
    BY DEF Rests, Staked
  <2>2. d.committedThisHand[q] > 0
    BY <1>1, <2>1 DEF Moves
  <2>3. ASSUME NEW p \in Seats, d.status[p] \in {"sitting-out", "empty"}
        PROVE  d.committedThisHand[p] = 0
    BY <2>3 DEF Moves, Rests, Staked
  <2>. QED
    BY <2>2, <2>3 DEF Staked
<1>. QED
  BY <1>2, <1>3 DEF InPlay

\* What dealing a hand on the table t has made of it: the seats dealt in, who
\* all have chips, contend, and what they paid by force is in the middle.
Dealt(t, d) ==
  /\ AtLeastTwo(Contending(d))
  /\ \A s \in Contending(d) : t.stack[s] > 0
  /\ \A s \in Seats \ Contending(d) : d.committedThisHand[s] = 0
  /\ d.lastBigBlindSeat \in Contending(d)
  /\ \A s \in Seats : Held(d, d.lastBigBlindSeat, s) = t.stack[s]
  /\ \A s \in Seats : d.committedThisHand[s] <= 2 * BigBlind
  /\ d.committedThisHand[d.lastBigBlindSeat] <= BigBlind
  /\ d.anteTotal <= MaxAnte
  /\ d.handNumber = t.handNumber + 1

LEMMA ResetContends ==
  ASSUME NEW t \in Tables
  PROVE  LET d == ResetSeats(SitOutBusted(t))
         IN  /\ d \in Drafts
             /\ Contending(d) = DealtIn(d)
             /\ d.stack = t.stack /\ d.handNumber = t.handNumber
             /\ d.committedThisHand = [s \in Seats |-> 0]
             /\ d.committedThisStreet = [s \in Seats |-> 0]
             /\ d.lastActedAtBet = [s \in Seats |-> 0]
             /\ d.hasActedThisRound = [s \in Seats |-> FALSE]
<1>. DEFINE o == SitOutBusted(t)
            d == ResetSeats(o)
<1>1. /\ o \in Tables /\ o.stack = t.stack /\ o.handNumber = t.handNumber
      /\ o.status = [s \in Seats |-> IF t.status[s] = "active" /\ t.stack[s] = 0
                                     THEN "sitting-out" ELSE t.status[s]]
  BY DEF SitOutBusted, Tables, TablesIn, Status
<1>. HIDE DEF o
<1>2. /\ d \in Drafts
      /\ d.committedThisHand = [s \in Seats |-> 0]
      /\ d.committedThisStreet = [s \in Seats |-> 0]
  BY <1>1, ResetOpens
<1>3. /\ d.stack = o.stack /\ d.handNumber = o.handNumber
      /\ d.lastActedAtBet = [s \in Seats |-> 0]
      /\ d.hasActedThisRound = [s \in Seats |-> FALSE]
      /\ d.status = [s \in Seats |->
                       IF o.status[s] \notin {"folded", "all-in"} THEN o.status[s]
                       ELSE IF o.stack[s] > 0 THEN "active" ELSE "sitting-out"]
  BY <1>1 DEF ResetSeats, Tables, TablesIn
<1>. HIDE DEF d
<1>4. \A s \in Seats : t.stack[s] \in Nat
  BY DEF Tables, TablesIn
<1>5. Contending(d) = DealtIn(d)
  BY <1>1, <1>3, <1>4 DEF Contending, DealtIn
<1>. QED
  BY <1>1, <1>2, <1>3, <1>5 DEF d, o

LEMMA StartDeals ==
  ASSUME TypeOK, StartHand
  PROVE  \E d : InPlay(d) /\ Dealt(table, d) /\ Return(Advance(d))
<1>. DEFINE r == ResetSeats(SitOutBusted(table))
            d == PrepareAndDealHand(r)
<1>1. /\ r \in Drafts /\ Contending(r) = DealtIn(r)
      /\ r.stack = table.stack /\ r.handNumber = table.handNumber
      /\ r.committedThisHand = [s \in Seats |-> 0]
      /\ r.committedThisStreet = [s \in Seats |-> 0]
      /\ r.lastActedAtBet = [s \in Seats |-> 0]
      /\ r.hasActedThisRound = [s \in Seats |-> FALSE]
  BY ResetContends DEF TypeOK
<1>2. AtLeastTwo(DealtIn(r)) /\ Return(Advance(d))
  BY DEF StartHand
<1>. HIDE DEF r
<1>3. Playing(d)
  BY <1>1, <1>2, PrepareAndDealHandPlays DEF AtLeastTwo
<1>4. /\ BetStands(d)
      /\ Contending(d) = DealtIn(r)
      /\ d.lastBigBlindSeat \in DealtIn(r)
      /\ \A s \in Seats : Held(d, d.lastBigBlindSeat, s) = r.stack[s]
      /\ \A s \in Seats : d.committedThisHand[s] <= 2 * BigBlind
      /\ d.committedThisHand[d.lastBigBlindSeat] <= BigBlind
      /\ d.anteTotal <= MaxAnte
      /\ \A s \in Seats \ DealtIn(r) : d.committedThisHand[s] = 0
      /\ \E s \in Seats : d.committedThisHand[s] > 0
      /\ d.handNumber = r.handNumber + 1
      /\ d.lastActedAtBet = r.lastActedAtBet
      /\ d.hasActedThisRound = r.hasActedThisRound
  BY <1>1, <1>2, PrepareAndDealHandStands
<1>. HIDE DEF d
<1>5. d.currentBet \in Nat
  BY <1>3 DEF Playing, Playable, Drafts, TablesIn
<1>6. ActedWithin(d)
  BY <1>1, <1>4, <1>5 DEF ActedWithin
<1>7. Staked(d)
  <2>1. \A s \in Seats : d.status[s] \in {"sitting-out", "empty"} => s \notin Contending(d)
    BY DEF Contending
  <2>. QED
    BY <1>4, <2>1 DEF Staked
<1>8. Dealt(table, d)
  <2>1. \A s \in Contending(d) : table.stack[s] > 0
    BY <1>1, <1>4 DEF DealtIn
  <2>. QED
    BY <1>1, <1>2, <1>4, <2>1 DEF Dealt
<1>. QED
  BY <1>2, <1>3, <1>4, <1>6, <1>7, <1>8 DEF InPlay

\* Every action of a seat is a decision and what follows from it.
LEMMA ActGoesOn ==
  ASSUME TypeOK, InHand => Rests(table), NEW s \in Seats, Act(s)
  PROVE  /\ InHand /\ table.actingSeat = s /\ table.status[s] = "active" /\ Rests(table)
         /\ \E d : InPlay(d) /\ Moves(table, s, d) /\ Return(Advance(d))
<1>1. /\ InHand /\ table.actingSeat = s /\ table.status[s] = "active"
      /\ \E d : /\ Playing(d) /\ BetStands(d) /\ Moves(table, s, d)
                /\ Return(Advance(d))
  BY ActMoves DEF Rests
<1>. QED
  BY <1>1, MovesInPlay

-----------------------------------------------------------------------------
(* How a hand is paid out.                                                 *)

\* Who stands on the bet has staked as much on the hand as anybody.
LEMMA StandsOnTop ==
  ASSUME NEW d, Playable(d), NEW w \in Seats, Stands(d, w), NEW q \in Seats
  PROVE  d.committedThisHand[q] <= d.committedThisHand[w]
<1>1. /\ d.committedThisHand \in [Seats -> Nat] /\ d.committedThisStreet \in [Seats -> Nat]
      /\ d.currentBet \in Nat
  BY DEF Playable, Drafts, TablesIn
<1>. QED
  BY <1>1 DEF Stands, Playable, BetCovers

\* When the uncalled part of a bet has been returned, a seat still in the hand
\* has staked something, and as much as anybody; no seat that is out got
\* anything back.
LEMMA RefundedTop ==
  ASSUME NEW b, Playable(b), BetStands(b), Staked(b)
  PROVE  LET u == ReturnUncalledBet(b)
             c == b.committedThisHand
         IN  /\ \E w \in Contending(b) :
                  /\ u.committedThisHand[w] > 0
                  /\ \A q \in Seats : u.committedThisHand[q] <= u.committedThisHand[w]
             /\ \A q \in Seats : u.committedThisHand[q] <= c[q]
             /\ \A q \in Seats \ Contending(b) : u.committedThisHand[q] = c[q]
<1>. DEFINE u == ReturnUncalledBet(b)
            c == b.committedThisHand
            n == Uncalled(b)
<1>1. b \in Drafts /\ c \in [Seats -> Nat]
  BY DEF Playable, Drafts, TablesIn
<1>2. PICK w \in Seats : Stands(b, w)
  BY DEF BetStands
<1>3. w \in Contending(b) /\ \A q \in Seats : c[q] <= c[w]
  BY <1>2, StandsOnTop DEF Stands
<1>4. c[w] > 0
  BY <1>1, <1>3 DEF Staked
<1>5. n \in Int
  BY <1>1, UncalledExcessType DEF Uncalled
<1>6. CASE n <= 0
  <2>1. u.committedThisHand = c
    BY <1>1, <1>6, RefundFields
  <2>. HIDE DEF u
  <2>. QED
    BY <1>1, <1>3, <1>4, <2>1 DEF u
<1>7. CASE n > 0
  <2>1. /\ TopContributor(c) = w /\ c[w] - n > 0
        /\ \A q \in Seats \ {w} : c[q] <= c[w] - n
    BY <1>1, <1>3, <1>4, <1>7, RefundLeavesTop DEF Uncalled
  <2>2. u.committedThisHand = [c EXCEPT ![TopContributor(c)] = @ - n]
    BY <1>1, <1>7, RefundFields
  <2>. HIDE DEF u, n
  <2>3. u.committedThisHand[w] = c[w] - n
        /\ \A q \in Seats \ {w} : u.committedThisHand[q] = c[q]
    BY <1>1, <2>1, <2>2
  <2>4. \A q \in Seats : u.committedThisHand[q] <= c[q] /\ u.committedThisHand[q] <= c[w] - n
    BY <1>1, <1>5, <1>7, <2>1, <2>3
  <2>. QED
    BY <1>3, <2>1, <2>3, <2>4 DEF u
<1>. QED
  BY <1>5, <1>6, <1>7

\* W[i] win the pot capped at seat i's stake: somebody does, and only seats
\* still in the hand that reached it.
Fair(u, W) ==
  LET c == u.committedThisHand
  IN  \A i \in Seats : c[i] \in PotLevels(c, Live(u)) =>
        /\ W[i] # {}
        /\ \A s \in W[i] : s \in Contending(u) /\ c[i] <= c[s]

\* The hand of b has been paid out.
PaidOff(b) ==
  LET u == ReturnUncalledBet(b)
  IN  \E W \in [Seats -> SUBSET Seats] :
        Fair(u, W) /\ table' = Paid(u, [s \in Seats |-> SeatSum(PaidTo(u, W, s))])

LEMMA FoldWinPays ==
  ASSUME NEW b, Playable(b), BetStands(b), Staked(b), ~AtLeastTwo(Contending(b)),
         table' = FoldWinOf(b)
  PROVE  PaidOff(b)
<1>. DEFINE u == ReturnUncalledBet(b)
            c == u.committedThisHand
            w == CHOOSE v \in Contending(b) : TRUE
            W == [i \in Seats |-> {w}]
            f == [s \in Seats |-> SeatSum(PaidTo(u, W, s))]
<1>1. b \in Drafts
  BY DEF Playable
<1>2. PICK v \in Contending(b) : /\ c[v] > 0
                                 /\ \A q \in Seats : c[q] <= c[v]
  BY RefundedTop
<1>3. w = v /\ w \in Seats
  BY <1>2 DEF AtLeastTwo, Contending
<1>4. Contending(u) = Contending(b)
  BY <1>1, RefundFields
<1>. HIDE DEF u, w
<1>5. W \in [Seats -> SUBSET Seats]
  BY <1>3
<1>6. Fair(u, W)
  BY <1>2, <1>3, <1>4 DEF Fair
<1>7. \A s \in Seats : Winnings(u, LAMBDA level : {w}, s) = f[s]
  BY DEF Winnings, SumOverPots, PaidTo
<1>8. AwardFoldWin(u, w) = Paid(u, f)
  <2>. HIDE DEF f
  <2>. QED  BY <1>7 DEF AwardFoldWin, PayOut, Paid
<1>9. table' = AwardFoldWin(u, w)
  BY DEF FoldWinOf, u, w
<1>. HIDE DEF W
<1>. QED
  BY <1>5, <1>6, <1>8, <1>9 DEF PaidOff, u

LEMMA ShowdownPays ==
  ASSUME NEW b, Playable(b), BetStands(b), Staked(b), NEW rank \in [Seats -> Ranks],
         table' = RunShowdown(ShowdownOf(b), rank)
  PROVE  PaidOff(b)
<1>. DEFINE u == ReturnUncalledBet(b)
            x == ShowdownOf(b)
            c == u.committedThisHand
            E(level) == Eligible(c, Live(u), level)
            best(level) == {s \in E(level) : \A q \in E(level) : rank[s] <= rank[q]}
            W == [i \in Seats |-> best(c[i])]
            f == [s \in Seats |-> SeatSum(PaidTo(u, W, s))]
<1>1. b \in Drafts /\ b.committedThisHand \in [Seats -> Nat] /\ b.status \in [Seats -> Status]
  BY DEF Playable, Drafts, TablesIn
<1>2. /\ u \in Drafts /\ Contending(u) = Contending(b) /\ Live(u) = Live(b)
      /\ \A s \in Seats : u.committedThisHand[s] <= b.committedThisHand[s]
  <2>1. /\ u \in Drafts /\ Contending(u) = Contending(b) /\ Live(u) = Live(b)
        /\ Uncalled(b) <= 0 => c = b.committedThisHand
        /\ Uncalled(b) > 0 =>
             /\ TopContributor(b.committedThisHand) \in Seats
             /\ c = [b.committedThisHand EXCEPT ![TopContributor(b.committedThisHand)]
                                                  = @ - Uncalled(b)]
    BY <1>1, RefundFields
  <2>2. Uncalled(b) \in Int
    BY <1>1, UncalledExcessType DEF Uncalled
  <2>. HIDE DEF u
  <2>. QED
    BY <1>1, <2>1, <2>2
<1>3. /\ x.committedThisHand = c /\ x.status = u.status /\ x.buttonSeat = u.buttonSeat
      /\ x.anteTotal = u.anteTotal
      /\ x = [u EXCEPT !.phase = "showdown"]
  <2>1. x = [u EXCEPT !.phase = "showdown"]
    BY DEF ShowdownOf
  <2>. HIDE DEF u, x
  <2>. QED
    BY <1>2, <2>1 DEF Drafts, TablesIn
<1>. HIDE DEF u, x
<1>4. c \in [Seats -> Nat]
  BY <1>2 DEF Drafts, TablesIn
<1>5. Live(x) = Live(u)
  BY <1>3 DEF Live
<1>6. W \in [Seats -> SUBSET Seats]
  BY DEF Eligible, Contributors
<1>7. ASSUME NEW i \in Seats, c[i] \in PotLevels(c, Live(u))
      PROVE  /\ W[i] # {}
             /\ \A s \in W[i] : s \in Contending(u) /\ c[i] <= c[s]
  <2>1. E(c[i]) # {} /\ E(c[i]) \in SUBSET Seats
    BY <1>7 DEF PotLevels, Eligible, Contributors
  <2>2. \E s \in E(c[i]) : \A q \in E(c[i]) : rank[s] <= rank[q]
    <3>. DEFINE S == E(c[i])
                g == [s \in S |-> rank[s]]
    <3>1. g \in [S -> Nat]
      BY <2>1, ConfigAssumption
    <3>2. \E s \in S : \A q \in S : g[s] <= g[q]
      <4>. HIDE DEF g, S
      <4>1. S # {}
        BY <2>1 DEF S
      <4>. QED
        BY <3>1, <4>1, SmallestExists
    <3>. QED
      BY <3>2
  <2>3. ASSUME NEW s \in E(c[i]) PROVE s \in Contending(u) /\ c[i] <= c[s]
    <3>1. s \in Live(b) /\ s \in Seats /\ c[s] > 0 /\ c[i] <= c[s]
      BY <1>2, <1>4, <2>1, <2>3 DEF Eligible, Contributors
    <3>2. b.committedThisHand[s] > 0
      BY <1>1, <1>2, <1>4, <3>1
    <3>3. b.status[s] \in {"active", "all-in"}
      BY <1>1, <3>1, <3>2 DEF Staked, Live, Status
    <3>. QED
      BY <1>2, <3>1, <3>3 DEF Contending
  <2>. HIDE DEF E
  <2>4. W[i] # {} /\ \A s \in W[i] : s \in E(c[i])
    BY <2>2
  <2>. QED
    BY <2>3, <2>4
<1>8. Fair(u, W)
  <2>. HIDE DEF W
  <2>. QED  BY <1>7 DEF Fair
<1>9. \A s \in Seats : PaidTo(x, W, s) = PaidTo(u, W, s)
  <2>. SUFFICES ASSUME NEW s \in Seats, NEW i \in Seats
                PROVE  PaidTo(x, W, s)[i] = PaidTo(u, W, s)[i]
    BY DEF PaidTo
  <2>1. PotAmountOf(x, c[i]) = PotAmountOf(u, c[i])
    BY <1>3, <1>5 DEF PotAmountOf
  <2>. HIDE DEF W
  <2>. QED
    BY <1>3, <1>5, <2>1 DEF PaidTo
<1>10. RunShowdown(x, rank) = Paid(x, f)
  <2>. DEFINE top(level) ==
                LET F == Eligible(x.committedThisHand, Live(x), level)
                IN  {s \in F : \A q \in F : rank[s] <= rank[q]}
              V == [i \in Seats |-> top(x.committedThisHand[i])]
  <2>1. \A s \in Seats : Winnings(x, top, s) = SeatSum(PaidTo(x, V, s))
    BY DEF Winnings, SumOverPots, PaidTo
  <2>2. V = W
    BY <1>3, <1>5
  <2>. HIDE DEF V, W
  <2>3. \A s \in Seats : Winnings(x, top, s) = f[s]
    BY <1>9, <2>1, <2>2
  <2>. HIDE DEF f
  <2>. QED
    BY <2>3 DEF RunShowdown, PayOut, Paid
<1>11. Paid(x, f) = Paid(u, f)
  <2>. HIDE DEF f
  <2>1. x.stack = u.stack
    BY <1>2, <1>3 DEF Drafts, TablesIn
  <2>. QED
    BY <1>2, <1>3, <2>1 DEF Paid, Drafts, TablesIn
<1>12. table' = Paid(u, f)
  BY <1>10, <1>11 DEF x
<1>. HIDE DEF W
<1>. QED
  BY <1>6, <1>8, <1>12 DEF PaidOff, u

\* A step that ends a hand pays it out.
LEMMA StepPays ==
  ASSUME NEW d, InPlay(d), Return(Advance(d)), ~InHand'
  PROVE  \E b : OnPath(d, b) /\ PaidOff(b)
<1>1. PICK b : OnPath(d, b) /\ StepEnds(b)
  BY StepLeaves DEF InPlay
<1>2. Playable(b) /\ BetStands(b) /\ Staked(b)
  BY <1>1, OnPathKeeps DEF OnPath, InLoop
<1>. QED
  BY <1>1, <1>2, FoldWinPays, ShowdownPays DEF StepEnds

-----------------------------------------------------------------------------
(* What a step of a hand comes to.                                         *)

\* Between the draft a decision or the deal leaves and the table the engine
\* returns, b is the last street reached.
Comes(d, b) ==
  /\ OnPath(d, b) /\ Playable(b) /\ BetStands(b) /\ Staked(b)
  /\ Contending(table') = Contending(d) /\ Live(table') = Live(d)
  /\ table'.handNumber = d.handNumber /\ table'.anteTotal = d.anteTotal
  /\ table'.lastBigBlindSeat = d.lastBigBlindSeat
  /\ InHand' => /\ Pending(b) # {}
                /\ table' = Asking(b, NextInRing(Pending(b), b.actingSeat))
  /\ ~InHand' => PaidOff(b) /\ table'.phase = "hand-complete"

LEMMA StepComes ==
  ASSUME NEW d, InPlay(d), Return(Advance(d))
  PROVE  \E b : Comes(d, b)
<1>1. PICK b : OnPath(d, b) /\ StepEnds(b)
  BY StepLeaves DEF InPlay
<1>2. /\ Playable(b) /\ BetStands(b) /\ Staked(b) /\ b \in Drafts
      /\ b.status = d.status
      /\ b.handNumber = d.handNumber /\ b.anteTotal = d.anteTotal
      /\ b.lastBigBlindSeat = d.lastBigBlindSeat
  BY <1>1, OnPathKeeps DEF OnPath, InLoop, Playable, Onward
<1>3. Contending(b) = Contending(d) /\ Live(b) = Live(d)
  BY <1>2 DEF Contending, Live
<1>4. CASE InHand' /\ Pending(b) # {}
             /\ table' = Asking(b, NextInRing(Pending(b), b.actingSeat))
  <2>1. /\ Contending(table') = Contending(b) /\ table'.status = b.status
        /\ table'.handNumber = b.handNumber /\ table'.anteTotal = b.anteTotal
        /\ table'.lastBigBlindSeat = b.lastBigBlindSeat
    BY <1>1, <1>4, AskedRests
  <2>2. Live(table') = Live(b)
    BY <2>1 DEF Live
  <2>. QED
    BY <1>1, <1>2, <1>3, <1>4, <2>1, <2>2 DEF Comes
<1>5. ASSUME PaidOff(b)
      PROVE  Comes(d, b)
  <2>. DEFINE u == ReturnUncalledBet(b)
  <2>1. PICK W \in [Seats -> SUBSET Seats] :
          table' = Paid(u, [s \in Seats |-> SeatSum(PaidTo(u, W, s))])
    BY <1>5 DEF PaidOff
  <2>2. /\ u \in Drafts
        /\ u.handNumber = b.handNumber /\ u.anteTotal = b.anteTotal
        /\ u.lastBigBlindSeat = b.lastBigBlindSeat
        /\ Contending(u) = Contending(b) /\ Live(u) = Live(b)
    BY <1>2, RefundFields
  <2>. HIDE DEF u
  <2>3. /\ table'.status = u.status /\ table'.handNumber = u.handNumber
        /\ table'.anteTotal = u.anteTotal /\ table'.lastBigBlindSeat = u.lastBigBlindSeat
        /\ table'.phase = "hand-complete"
    BY <2>1, <2>2 DEF Paid, Drafts, TablesIn
  <2>4. Contending(table') = Contending(u) /\ Live(table') = Live(u)
    BY <2>3 DEF Contending, Live
  <2>. QED
    BY <1>1, <1>2, <1>3, <1>5, <2>2, <2>3, <2>4 DEF Comes, InHand
<1>. QED
  BY <1>1, <1>2, <1>4, <1>5, FoldWinPays, ShowdownPays DEF StepEnds

-----------------------------------------------------------------------------
(* What the pots pay.                                                      *)

\* No seat is paid more than what every seat staked up to its own stake, and
\* the ante.
LEMMA PaidWithinReach ==
  ASSUME NEW u \in Drafts, NEW W \in [Seats -> SUBSET Seats], Fair(u, W),
         NEW w \in Contending(u), u.committedThisHand[w] > 0,
         \A q \in Seats : u.committedThisHand[q] <= u.committedThisHand[w],
         NEW s \in Seats
  PROVE  LET c == u.committedThisHand
         IN  SeatSum(PaidTo(u, W, s)) <= SeatSum(CappedAt(c, c[s])) + u.anteTotal
<1>. DEFINE c == u.committedThisHand
            ante == u.anteTotal
            live == Live(u)
            paid == PaidTo(u, W, s)
<1>1. /\ c \in [Seats -> Nat] /\ ante \in Nat /\ live \in SUBSET Seats /\ w \in live
      /\ u.buttonSeat \in Seats
  BY DEF Drafts, TablesIn, Live, Contending
<1>2. ASSUME NEW i \in Seats
      PROVE  paid[i] = IF c[i] \in PotLevels(c, live) /\ \A q \in Seats : c[q] = c[i] => i <= q
                       THEN ShareOf(PotAmount(c, live, ante, c[i]), W[i], u.buttonSeat, s)
                       ELSE 0
  BY DEF PaidTo, PotAmountOf
<1>3. ASSUME NEW i \in Seats, c[i] \in PotLevels(c, live)
      PROVE  /\ PotAmount(c, live, ante, c[i]) \in Nat
             /\ ShareOf(PotAmount(c, live, ante, c[i]), W[i], u.buttonSeat, s) \in Nat
             /\ ShareOf(PotAmount(c, live, ante, c[i]), W[i], u.buttonSeat, s)
                  <= PotAmount(c, live, ante, c[i])
  <2>1. c[i] \in Levels(c)
    BY <1>3 DEF PotLevels
  <2>2. PotAmount(c, live, ante, c[i]) \in Nat
    BY <1>1, <2>1, PotAmountNat
  <2>. QED
    BY <1>1, <2>2, ShareOfNat, ShareWithinPot
<1>4. ASSUME NEW i \in Seats, c[i] \in PotLevels(c, live), c[i] > c[s]
      PROVE  ShareOf(PotAmount(c, live, ante, c[i]), W[i], u.buttonSeat, s) = 0
  <2>1. s \notin W[i]
    BY <1>1, <1>4 DEF Fair
  <2>. QED
    BY <2>1 DEF ShareOf
<1>5. paid \in [Seats -> Int]
  <2>1. paid = [i \in Seats |-> paid[i]]
    BY DEF PaidTo
  <2>. HIDE DEF paid, c, ante, live
  <2>2. \A i \in Seats : paid[i] \in Int
    BY <1>2, <1>3
  <2>. QED
    BY <2>1, <2>2
<1>6. CappedAt(c, c[s]) \in [Seats -> Nat] /\ SeatSum(CappedAt(c, c[s])) \in Nat
  <2>. HIDE DEF c
  <2>1. CappedAt(c, c[s]) \in [Seats -> Nat]
    BY <1>1 DEF CappedAt, Smaller
  <2>. QED
    BY <2>1, SeatSumNat
<1>7. CASE \E k \in PotLevels(c, live) : k <= c[s]
  <2>. HIDE DEF c, ante, live, paid
  <2>1. PICK v \in PotLevels(c, live) :
               /\ TopOfPot(c, live, v) <= c[s]
               /\ \A k \in PotLevels(c, live) : k <= c[s] => k <= v
    <3>1. c[w] > 0 /\ (\A q \in Seats : c[q] <= c[w]) /\ c[s] \in Nat
      BY <1>1 DEF c
    <3>. QED
      BY <1>1, <1>7, <3>1, PotsWithinReach
  <2>. DEFINE pots == PotsUpTo(c, live, ante, v)
              top == TopOfPot(c, live, v)
  <2>2. \A i \in Seats : pots[i] \in Int /\ paid[i] <= pots[i]
    <3>. SUFFICES ASSUME NEW i \in Seats PROVE pots[i] \in Int /\ paid[i] <= pots[i]
      OBVIOUS
    <3>1. pots[i] = IF /\ c[i] \in PotLevels(c, live) /\ c[i] <= v
                       /\ \A q \in Seats : c[q] = c[i] => i <= q
                    THEN PotAmount(c, live, ante, c[i])
                    ELSE 0
      BY DEF PotsUpTo
    <3>. HIDE DEF pots
    <3>2. c[i] \in Nat /\ c[s] \in Nat /\ v \in Nat
      BY <1>1, LevelsType DEF PotLevels
    <3>3. CASE c[i] \in PotLevels(c, live) /\ ~(c[i] <= v)
      <4>1. ~(c[i] <= c[s])
        BY <2>1, <3>3
      <4>2. c[i] > c[s]
        BY <3>2, <4>1
      <4>. QED
        BY <1>2, <1>4, <3>1, <3>3, <4>2
    <3>4. CASE c[i] \in PotLevels(c, live) /\ c[i] <= v
      BY <1>2, <1>3, <3>1, <3>4
    <3>5. CASE c[i] \notin PotLevels(c, live)
      BY <1>2, <3>1, <3>5
    <3>. QED
      BY <3>3, <3>4, <3>5
  <2>3. SeatSum(pots) = SeatSum(CappedAt(c, top)) + ante
    BY <1>1, PotsFill
  <2>4. pots \in [Seats -> Int]
    <3>1. pots = [i \in Seats |-> pots[i]]
      BY DEF PotsUpTo
    <3>. HIDE DEF pots
    <3>. QED
      BY <2>2, <3>1
  <2>5. SeatSum(paid) <= SeatSum(pots)
    <3>. HIDE DEF pots
    <3>. QED
      BY <1>5, <2>2, <2>4, SeatSumMonotone
  <2>6. /\ CappedAt(c, top) \in [Seats -> Int]
        /\ \A i \in Seats : CappedAt(c, top)[i] <= CappedAt(c, c[s])[i]
    <3>1. top \in Nat
      BY <1>1, TopOfPotType DEF PotLevels
    <3>. HIDE DEF top
    <3>2. top <= c[s]
      BY <2>1 DEF top
    <3>. QED
      BY <1>1, <3>1, <3>2 DEF CappedAt, Smaller
  <2>7. SeatSum(CappedAt(c, top)) <= SeatSum(CappedAt(c, c[s]))
    <3>. HIDE DEF top
    <3>1. CappedAt(c, c[s]) \in [Seats -> Int]
      BY <1>6
    <3>. QED
      BY <2>6, <3>1, SeatSumMonotone
  <2>8. SeatSum(paid) \in Int /\ SeatSum(CappedAt(c, top)) \in Int /\ SeatSum(pots) \in Int
    <3>. HIDE DEF top, pots
    <3>. QED
      BY <1>5, <2>4, <2>6, SeatSumInt
  <2>. HIDE DEF top, pots
  <2>9. SeatSum(paid) <= SeatSum(CappedAt(c, c[s])) + ante
    BY <1>1, <1>6, <2>3, <2>5, <2>7, <2>8
  <2>. QED
    BY <2>9 DEF c, ante, paid
<1>8. CASE ~\E k \in PotLevels(c, live) : k <= c[s]
  <2>. HIDE DEF c, ante, live, paid
  <2>1. \A i \in Seats : paid[i] = 0
    <3>. SUFFICES ASSUME NEW i \in Seats, c[i] \in PotLevels(c, live) PROVE paid[i] = 0
      BY <1>2
    <3>1. c[i] > c[s]
      BY <1>1, <1>8
    <3>. QED
      BY <1>2, <1>4, <3>1
  <2>2. SeatSum(paid) = paid[s]
    BY <1>5, <2>1, SeatSumOne
  <2>3. SeatSum(paid) <= SeatSum(CappedAt(c, c[s])) + ante
    BY <1>1, <1>6, <2>1, <2>2
  <2>. QED
    BY <2>3 DEF c, ante, paid
<1>. QED
  BY <1>7, <1>8

\* What is paid out is what was in the middle.
LEMMA PaidAddsUp ==
  ASSUME NEW u \in Drafts, NEW W \in [Seats -> SUBSET Seats], Fair(u, W),
         NEW w \in Contending(u), u.committedThisHand[w] > 0
  PROVE  SeatSum([s \in Seats |-> SeatSum(PaidTo(u, W, s))])
           = SeatSum(u.committedThisHand) + u.anteTotal
<1>. DEFINE c == u.committedThisHand
            ante == u.anteTotal
            live == Live(u)
            M == [s \in Seats |-> PaidTo(u, W, s)]
            col == [i \in Seats |-> SeatSum([s \in Seats |-> M[s][i]])]
            first(i) == c[i] \in PotLevels(c, live) /\ \A q \in Seats : c[q] = c[i] => i <= q
<1>1. /\ c \in [Seats -> Nat] /\ ante \in Nat /\ live \in SUBSET Seats /\ w \in live
      /\ w \in Seats /\ u.buttonSeat \in Seats
  BY DEF Drafts, TablesIn, Live, Contending
<1>2. ASSUME NEW s \in Seats, NEW i \in Seats
      PROVE  M[s][i] = IF first(i)
                       THEN ShareOf(PotAmount(c, live, ante, c[i]), W[i], u.buttonSeat, s)
                       ELSE 0
  BY DEF PaidTo, PotAmountOf
<1>3. ASSUME NEW i \in Seats, c[i] \in PotLevels(c, live)
      PROVE  PotAmount(c, live, ante, c[i]) \in Nat /\ W[i] # {} /\ W[i] \in SUBSET Seats
  <2>1. c[i] \in Levels(c)
    BY <1>3 DEF PotLevels
  <2>. QED
    BY <1>1, <1>3, <2>1, PotAmountNat DEF Fair
<1>4. M \in [Seats -> [Seats -> Int]]
  <2>1. \A s \in Seats : M[s] = [i \in Seats |-> M[s][i]]
    BY DEF PaidTo
  <2>2. M = [s \in Seats |-> M[s]]
    OBVIOUS
  <2>3. \A s, i \in Seats : M[s][i] \in Int
    <3>. HIDE DEF M, c, ante, live
    <3>. QED
      BY <1>1, <1>2, <1>3, ShareOfNat
  <2>. HIDE DEF M
  <2>. QED
    BY <2>1, <2>2, <2>3
<1>5. SeatSum([s \in Seats |-> SeatSum([i \in Seats |-> M[s][i]])]) = SeatSum(col)
  <2>. HIDE DEF M
  <2>. QED
    BY <1>4, SeatSumSwap
<1>6. [s \in Seats |-> SeatSum(PaidTo(u, W, s))]
        = [s \in Seats |-> SeatSum([i \in Seats |-> M[s][i]])]
  <2>. SUFFICES ASSUME NEW s \in Seats
                PROVE  PaidTo(u, W, s) = [i \in Seats |-> M[s][i]]
    OBVIOUS
  <2>. QED
    BY DEF PaidTo
<1>7. ASSUME NEW i \in Seats
      PROVE  SeatSum([s \in Seats |-> M[s][i]])
               = IF first(i) THEN PotAmount(c, live, ante, c[i]) ELSE 0
  <2>. DEFINE share(s) == ShareOf(PotAmount(c, live, ante, c[i]), W[i], u.buttonSeat, s)
  <2>. HIDE DEF M, c, ante, live
  <2>1. CASE first(i)
    <3>1. [s \in Seats |-> M[s][i]] = [s \in Seats |-> share(s)]
      BY <1>2, <2>1
    <3>2. SeatSum([s \in Seats |-> share(s)]) = PotAmount(c, live, ante, c[i])
      BY <1>1, <1>3, <2>1, SharesAddUp
    <3>. QED
      BY <2>1, <3>1, <3>2
  <2>2. CASE ~first(i)
    <3>. DEFINE z == [s \in Seats |-> M[s][i]]
    <3>1. \A s \in Seats : z[s] = 0
      BY <1>2, <2>2
    <3>2. z \in [Seats -> Int]
      BY <3>1
    <3>3. 0 \in Seats
      BY MaxSeatsAssumption DEF Seats
    <3>. HIDE DEF z
    <3>4. SeatSum(z) = z[0]
      BY <3>1, <3>2, <3>3, SeatSumOne
    <3>. QED
      BY <2>2, <3>1, <3>3, <3>4 DEF z
  <2>. QED
    BY <2>1, <2>2
<1>8. SeatSum(col) = SeatSum(c) + ante
  <2>. DEFINE pot == [i \in Seats |-> IF first(i) THEN PotAmount(c, live, ante, c[i]) ELSE 0]
  <2>1. col = pot
    <3>. HIDE DEF M, c, ante, live
    <3>. QED
      BY <1>7
  <2>. HIDE DEF M, c, ante, live
  <2>2. c[w] > 0 /\ c[w] >= c[w]
    BY <1>1 DEF c
  <2>3. c[w] \in PotLevels(c, live)
    BY <1>1, <2>2 DEF PotLevels, Levels, Eligible, Contributors
  <2>4. PotsAddUp(c, live, ante)
    BY <1>1, <2>3, PotsAreFull
  <2>5. SeatSum(pot) = SeatSum(c) + ante
    BY <2>4 DEF PotsAddUp, SumOverPots
  <2>. QED
    BY <2>1, <2>5
<1>. QED
  BY <1>5, <1>6, <1>8

\* Who is out of the hand is paid nothing.
LEMMA OutUnpaid ==
  ASSUME NEW u \in Drafts, NEW W \in [Seats -> SUBSET Seats], Fair(u, W),
         NEW s \in Seats \ Contending(u)
  PROVE  SeatSum(PaidTo(u, W, s)) = 0
<1>. DEFINE paid == PaidTo(u, W, s)
<1>1. \A i \in Seats : paid[i] = 0
  <2>. SUFFICES ASSUME NEW i \in Seats,
                       u.committedThisHand[i] \in PotLevels(u.committedThisHand, Live(u))
                PROVE  ShareOf(PotAmountOf(u, u.committedThisHand[i]), W[i], u.buttonSeat, s) = 0
    BY DEF PaidTo
  <2>1. s \notin W[i]
    BY DEF Fair
  <2>. QED
    BY <2>1 DEF ShareOf
<1>2. paid = [i \in Seats |-> paid[i]]
  BY DEF PaidTo
<1>. HIDE DEF paid
<1>3. paid \in [Seats -> Int]
  BY <1>1, <1>2
<1>4. SeatSum(paid) = paid[s]
  BY <1>1, <1>3, SeatSumOne
<1>. QED
  BY <1>1, <1>4 DEF paid

\* What the other seats staked, up to what s did.
Reach(c, s) == [q \in Seats |-> IF q = s THEN 0 ELSE Smaller(c[q], c[s])]

\* How the chips stand when a hand is paid out: nobody has less than the
\* betting left them, nobody who is out has more, all that was in the middle
\* is in the stacks again, and nobody has won more than their stake reaches.
LEMMA PaidOffChips ==
  ASSUME NEW b, Playable(b), BetStands(b), Staked(b), PaidOff(b)
  PROVE  /\ table'.stack \in [Seats -> Nat]
         /\ \A s \in Seats : table'.stack[s] >= b.stack[s]
         /\ \A s \in Seats \ Contending(b) : table'.stack[s] = b.stack[s]
         /\ SeatSum(table'.stack)
              = SeatSum(b.stack) + SeatSum(b.committedThisHand) + b.anteTotal
         /\ \A s \in Seats :
              table'.stack[s] - (b.stack[s] + b.committedThisHand[s])
                <= SeatSum(Reach(table'.committedThisHand, s)) + b.anteTotal
<1>. DEFINE u == ReturnUncalledBet(b)
            c == u.committedThisHand
            x == b.committedThisHand
<1>1. /\ b \in Drafts /\ b.stack \in [Seats -> Nat] /\ x \in [Seats -> Nat]
      /\ b.anteTotal \in Nat
  BY DEF Playable, Drafts, TablesIn
<1>2. PICK W \in [Seats -> SUBSET Seats] :
        Fair(u, W) /\ table' = Paid(u, [s \in Seats |-> SeatSum(PaidTo(u, W, s))])
  BY DEF PaidOff
<1>3. /\ u \in Drafts /\ u.anteTotal = b.anteTotal /\ Contending(u) = Contending(b)
      /\ \A s \in Seats : u.stack[s] + c[s] = b.stack[s] + x[s]
  BY <1>1, RefundFields
<1>4. /\ \A q \in Seats : c[q] <= x[q]
      /\ \A q \in Seats \ Contending(b) : c[q] = x[q]
  BY RefundedTop
<1>5. PICK w \in Contending(b) : c[w] > 0 /\ \A q \in Seats : c[q] <= c[w]
  BY RefundedTop
<1>. HIDE DEF u
<1>. DEFINE f == [s \in Seats |-> SeatSum(PaidTo(u, W, s))]
<1>6. u.stack \in [Seats -> Nat] /\ c \in [Seats -> Nat] /\ w \in Seats
  BY <1>3 DEF Drafts, TablesIn, Contending
<1>7. f \in [Seats -> Nat]
  BY <1>3, PaidToNat
<1>8. /\ table'.stack = [s \in Seats |-> u.stack[s] + f[s]]
      /\ table'.committedThisHand = c
  <2>1. table' = Paid(u, f)
    BY <1>2
  <2>. HIDE DEF f
  <2>. QED
    BY <1>3, <2>1 DEF Paid, Drafts, TablesIn
<1>9. \A s \in Seats : f[s] <= SeatSum(CappedAt(c, c[s])) + u.anteTotal
  BY <1>2, <1>3, <1>5, PaidWithinReach
<1>10. SeatSum(f) = SeatSum(c) + u.anteTotal
  BY <1>2, <1>3, <1>5, PaidAddsUp
<1>11. \A s \in Seats \ Contending(b) : f[s] = 0
  BY <1>2, <1>3, OutUnpaid
<1>. HIDE DEF f
<1>12. table'.stack \in [Seats -> Nat]
  BY <1>6, <1>7, <1>8
<1>13. \A s \in Seats : table'.stack[s] = b.stack[s] + (x[s] - c[s]) + f[s]
  <2>. SUFFICES ASSUME NEW s \in Seats
                PROVE  table'.stack[s] = b.stack[s] + (x[s] - c[s]) + f[s]
    OBVIOUS
  <2>1. /\ u.stack[s] \in Nat /\ c[s] \in Nat /\ f[s] \in Nat /\ b.stack[s] \in Nat
        /\ x[s] \in Nat
    BY <1>1, <1>6, <1>7
  <2>2. table'.stack[s] = u.stack[s] + f[s]
    BY <1>8
  <2>3. u.stack[s] + c[s] = b.stack[s] + x[s]
    BY <1>3
  <2>. HIDE DEF c, x
  <2>. QED
    BY <2>1, <2>2, <2>3
<1>14. /\ \A s \in Seats : table'.stack[s] >= b.stack[s]
       /\ \A s \in Seats \ Contending(b) : table'.stack[s] = b.stack[s]
  BY <1>1, <1>4, <1>6, <1>7, <1>11, <1>13
<1>15. SeatSum(table'.stack) = SeatSum(b.stack) + SeatSum(x) + b.anteTotal
  <2>1. /\ SeatSum(u.stack) \in Nat /\ SeatSum(c) \in Nat /\ SeatSum(f) \in Nat
        /\ SeatSum(b.stack) \in Nat /\ SeatSum(x) \in Nat
    BY <1>1, <1>6, <1>7, SeatSumNat
  <2>2. SeatSum(table'.stack) = SeatSum(u.stack) + SeatSum(f)
    <3>1. /\ u.stack \in [Seats -> Int] /\ f \in [Seats -> Int] /\ table'.stack \in [Seats -> Int]
          /\ \A s \in Seats : table'.stack[s] = u.stack[s] + f[s]
      BY <1>6, <1>7, <1>8, <1>12
    <3>. QED
      BY <3>1, SeatSumAdds
  <2>3. SeatSum(u.stack) + SeatSum(c) = SeatSum(b.stack) + SeatSum(x)
    <3>. DEFINE h == [s \in Seats |-> u.stack[s] + c[s]]
    <3>1. /\ u.stack \in [Seats -> Int] /\ c \in [Seats -> Int] /\ h \in [Seats -> Int]
          /\ b.stack \in [Seats -> Int] /\ x \in [Seats -> Int]
          /\ \A s \in Seats : h[s] = u.stack[s] + c[s]
          /\ \A s \in Seats : h[s] = b.stack[s] + x[s]
      BY <1>1, <1>3, <1>6
    <3>. HIDE DEF h, x, c
    <3>2. SeatSum(h) = SeatSum(u.stack) + SeatSum(c)
      BY <3>1, SeatSumAdds
    <3>3. SeatSum(h) = SeatSum(b.stack) + SeatSum(x)
      BY <3>1, SeatSumAdds
    <3>. QED
      BY <3>2, <3>3
  <2>. QED
    BY <1>1, <1>3, <1>10, <2>1, <2>2, <2>3
<1>16. ASSUME NEW s \in Seats
       PROVE  table'.stack[s] - (b.stack[s] + x[s]) <= SeatSum(Reach(c, s)) + b.anteTotal
  <2>. DEFINE own == Each({s}, c[s])
              all == CappedAt(c, c[s])
  <2>1. /\ own \in [Seats -> Int] /\ Reach(c, s) \in [Seats -> Int] /\ all \in [Seats -> Int]
        /\ \A q \in Seats : all[q] = own[q] + Reach(c, s)[q]
    <3>. HIDE DEF c
    <3>. QED
      BY <1>6 DEF Each, Reach, CappedAt, Smaller
  <2>2. own[s] = c[s] /\ \A q \in Seats \ {s} : own[q] = 0
    BY DEF Each
  <2>. HIDE DEF own, all, c
  <2>3. SeatSum(all) = SeatSum(own) + SeatSum(Reach(c, s))
    BY <2>1, SeatSumAdds
  <2>4. SeatSum(own) = c[s]
    BY <2>1, <2>2, SeatSumOne
  <2>5. SeatSum(Reach(c, s)) \in Int
    BY <2>1, SeatSumInt
  <2>6. f[s] <= c[s] + SeatSum(Reach(c, s)) + b.anteTotal
    BY <1>3, <1>9, <2>3, <2>4 DEF all
  <2>. QED
    BY <1>1, <1>6, <1>7, <1>13, <2>5, <2>6
<1>. QED
  BY <1>8, <1>12, <1>14, <1>15, <1>16

-----------------------------------------------------------------------------
(* The inductive invariant: what is known of a hand in progress, and of    *)
(* one that has been paid out.  TypeOK alone is not inductive -- a raise    *)
(* must be above what the seat has already put in, which BetCovers says -- *)
(* and neither is the price of a street, which is paid when the betting    *)
(* round closes, nor that somebody stands on the bet, which takes knowing  *)
(* in what order the others are still to be asked (AtRest).                *)
Won(t) == \E w \in Live(t) : t.committedThisHand[w] > 0

IInv ==
  /\ TypeOK
  /\ InHand => Rests(table)
  /\ table.phase = "hand-complete" => Won(table)

LEMMA IInvInit == Init => IInv
<1>. SUFFICES ASSUME Init PROVE IInv
  OBVIOUS
<1>. QED
  BY StartingTablesAssumption DEF Init, IInv, TypeOK, InHand

\* Every step of a hand, its first included, keeps what is known.
LEMMA IInvStep ==
  ASSUME NEW d, InPlay(d), Return(Advance(d))
  PROVE  IInv'
<1>1. table' \in Tables /\ (InHand' => Rests(table'))
  BY StepGoesOn
<1>2. ASSUME ~InHand' PROVE Won(table')
  <2>1. PICK b : OnPath(d, b) /\ PaidOff(b)
    BY <1>2, StepPays
  <2>2. /\ Playable(b) /\ BetStands(b) /\ Staked(b) /\ b \in Drafts
        /\ b.status \in [Seats -> Status]
    BY <2>1, OnPathKeeps DEF OnPath, InLoop, Playable, Drafts, TablesIn
  <2>. DEFINE u == ReturnUncalledBet(b)
  <2>3. PICK w \in Contending(b) : u.committedThisHand[w] > 0
    BY <2>2, RefundedTop
  <2>4. w \in Live(u) /\ u \in Drafts
    <3>1. Live(u) = Live(b) /\ u \in Drafts
      BY <2>2, RefundFields
    <3>. HIDE DEF u
    <3>. QED
      BY <3>1 DEF Contending, Live
  <2>5. PICK f : table' = Paid(u, f)
    BY <2>1 DEF PaidOff
  <2>. HIDE DEF u
  <2>6. table'.status = u.status /\ table'.committedThisHand = u.committedThisHand
    BY <2>4, <2>5 DEF Paid, Drafts, TablesIn
  <2>. QED
    BY <2>3, <2>4, <2>6 DEF Won, Live
<1>. QED
  BY <1>1, <1>2 DEF IInv, TypeOK, InHand

LEMMA IInvNext == IInv /\ [Next]_table => IInv'
<1>. SUFFICES ASSUME IInv, [Next]_table PROVE IInv'
  OBVIOUS
<1>1. CASE StartHand
  <2>1. \E d : InPlay(d) /\ Return(Advance(d))
    BY <1>1, StartDeals DEF IInv
  <2>. QED
    BY <2>1, IInvStep
<1>2. ASSUME NEW s \in Seats, Act(s) PROVE IInv'
  <2>1. \E d : InPlay(d) /\ Return(Advance(d))
    BY <1>2, ActGoesOn DEF IInv
  <2>. QED
    BY <2>1, IInvStep
<1>3. ASSUME NEW s \in Seats, SitOut(s) PROVE IInv'
  <2>1. [table.status EXCEPT ![s] = "sitting-out"] \in [Seats -> Status]
    BY DEF IInv, TypeOK, Tables, TablesIn, Status
  <2>2. table' \in Tables /\ table'.phase = table.phase
    BY <1>3, <2>1 DEF SitOut, IInv, TypeOK, Tables, TablesIn
  <2>3. Live(table) \subseteq Live(table') /\ table'.committedThisHand = table.committedThisHand
    BY <1>3 DEF SitOut, Live, IInv, TypeOK, Tables, TablesIn
  <2>. QED
    BY <1>3, <2>2, <2>3 DEF SitOut, IInv, TypeOK, InHand, Won
<1>4. ASSUME NEW s \in Seats, SitIn(s) PROVE IInv'
  <2>1. [table.status EXCEPT ![s] = "active"] \in [Seats -> Status]
    BY DEF IInv, TypeOK, Tables, TablesIn, Status
  <2>2. table' \in Tables /\ table'.phase = table.phase
    BY <1>4, <2>1 DEF SitIn, IInv, TypeOK, Tables, TablesIn
  <2>3. Live(table) \subseteq Live(table') /\ table'.committedThisHand = table.committedThisHand
    BY <1>4 DEF SitIn, Live, IInv, TypeOK, Tables, TablesIn
  <2>. QED
    BY <1>4, <2>2, <2>3 DEF SitIn, IInv, TypeOK, InHand, Won
<1>5. CASE UNCHANGED table
  BY <1>5 DEF IInv, TypeOK, InHand
<1>. QED
  BY <1>1, <1>2, <1>3, <1>4, <1>5 DEF Next

\* Spec keeps the inductive invariant; every safety property below follows
\* from it.
LEMMA Inductive == Spec => []IInv
<1>1. Init => IInv
  BY IInvInit
<1>2. IInv /\ [Next]_table => IInv'
  BY IInvNext
<1>. QED
  BY <1>1, <1>2, PTL DEF Spec

\* Every reachable table has the type of TableState, whatever the blinds,
\* the ante, the stacks and the number of hands played; in particular no
\* stack and no commitment is ever negative.
THEOREM TypeCorrect == Spec => []TypeOK
<1>1. IInv => TypeOK
  BY DEF IInv
<1>. QED
  BY <1>1, Inductive, PTL

\* Nobody who can still bet has come to a street more cheaply than another
\* seat: what it paid on the earlier streets is as much as anybody paid.
THEOREM StreetsArePaidFor == Spec => []NobodySeesAStreetCheaply
<1>1. IInv => NobodySeesAStreetCheaply
  BY DEF IInv, Rests, Playing, Playable, NobodySeesAStreetCheaply
<1>. QED
  BY <1>1, Inductive, PTL

\* Once the hole cards are turned up early, nobody acts again in the hand.
THEOREM RevealIsFinal == Spec => []EarlyRevealEndsBetting
<1>1. IInv => EarlyRevealEndsBetting
  BY DEF IInv, Rests, Playing, EarlyRevealEndsBetting, InHand
<1>. QED
  BY <1>1, Inductive, PTL

\* While somebody is asked, another seat that is still in the hand has put in
\* the whole bet: nobody is asked to call a bet whose maker is gone.
THEOREM BetHasAMaker == Spec => []BetIsStanding
<1>1. IInv => BetIsStanding
  <2>. SUFFICES ASSUME IInv, InHand PROVE BetIsStanding
    BY DEF BetIsStanding
  <2>1. Playable(table) /\ AtRest(table)
    BY DEF IInv, Rests, Playing
  <2>. QED
    BY <2>1, AnotherStands DEF Stands, BetIsStanding, Playable
<1>. QED
  BY <1>1, Inductive, PTL

\* Nobody who folded has more in the hand than everyone still in it, so a
\* refund never goes to a seat that is out.
THEOREM TopStakeIsLive == Spec => []TopStakeContends
<1>1. IInv => TopStakeContends
  <2>. SUFFICES ASSUME IInv, InHand PROVE TopStakeContends
    BY DEF TopStakeContends
  <2>1. Playable(table) /\ AtRest(table)
    BY DEF IInv, Rests, Playing
  <2>2. PICK w \in Seats : Stands(table, w)
    BY <2>1, AnotherStands
  <2>. QED
    BY <2>1, <2>2, StandsOnTop DEF Stands, TopStakeContends
<1>. QED
  BY <1>1, Inductive, PTL

\* The pots of every hand that is paid out hold exactly what was put in: the
\* assertion buildPots ends with never throws.
THEOREM PotsAreWhole == Spec => []PotsHoldEveryChip
<1>1. IInv => PotsHoldEveryChip
  <2>. SUFFICES ASSUME IInv, table.phase = "hand-complete" PROVE PotsHoldEveryChip
    BY DEF PotsHoldEveryChip
  <2>. DEFINE c == table.committedThisHand
  <2>1. c \in [Seats -> Nat] /\ table.anteTotal \in Nat
    BY DEF IInv, TypeOK, Tables, TablesIn
  <2>2. PICK w \in Live(table) : c[w] > 0
    BY DEF IInv, Won
  <2>. HIDE DEF c
  <2>3. w \in Seats /\ c[w] >= c[w]
    BY <2>1, <2>2 DEF Live
  <2>4. c[w] \in PotLevels(c, Live(table))
    BY <2>2, <2>3 DEF PotLevels, Levels, Eligible, Contributors
  <2>. QED
    BY <2>1, <2>4, PotsAreFull DEF PotsHoldEveryChip, c
<1>. QED
  BY <1>1, Inductive, PTL

\* The pots a hand is paid out from are those the loop of buildPots makes, and
\* would be whoever had folded of those who put chips in.
THEOREM LoopIsTheFormula == Spec => []LoopMakesThesePots
<1>1. IInv => LoopMakesThesePots
  <2>. SUFFICES ASSUME IInv PROVE LoopMakesThesePots
    OBVIOUS
  <2>1. table.committedThisHand \in [Seats -> Nat] /\ table.anteTotal \in Nat
    BY DEF IInv, TypeOK, Tables, TablesIn
  <2>. DEFINE c == table.committedThisHand
              ante == table.anteTotal
  <2>. HIDE DEF c, ante
  <2>2. c \in [Seats -> Nat] /\ ante \in Nat
    BY <2>1 DEF c, ante
  <2>3. ASSUME NEW live \in SUBSET Contributors(c), live # {}
        PROVE  LoopAgrees(c, live, ante)
    BY <2>2, <2>3, LoopMakesThePots
  <2>4. \A live \in (SUBSET Contributors(c)) \ {{}} : LoopAgrees(c, live, ante)
    BY <2>3
  <2>. QED
    BY <2>4 DEF LoopMakesThesePots, c, ante
<1>. QED
  BY <1>1, Inductive, PTL

\* A seat without chips is never in a hand that is dealt.
THEOREM TheBustedSitOut == Spec => BustedSitOut
<1>. DEFINE Deals == \A s \in Seats :
              table'.handNumber > table.handNumber /\ table.stack[s] = 0
                => s \notin Contending(table')
<1>1. IInv /\ Next => Deals
  <2>. SUFFICES ASSUME IInv, Next PROVE Deals
    OBVIOUS
  <2>0. table.handNumber \in Nat /\ table.stack \in [Seats -> Nat]
    BY DEF IInv, TypeOK, Tables, TablesIn
  <2>1. CASE StartHand
    <3>1. PICK d : InPlay(d) /\ Dealt(table, d) /\ Return(Advance(d))
      BY <2>1, StartDeals DEF IInv
    <3>2. Contending(table') = Contending(d)
      BY <3>1, StepComes DEF Comes
    <3>. QED
      BY <2>0, <3>1, <3>2 DEF Dealt
  <2>2. ASSUME NEW s \in Seats, Act(s) PROVE Deals
    <3>1. PICK d : InPlay(d) /\ Moves(table, s, d) /\ Return(Advance(d))
      BY <2>2, ActGoesOn DEF IInv
    <3>2. table'.handNumber = table.handNumber
      BY <3>1, StepComes DEF Comes, Moves
    <3>. QED
      BY <2>0, <3>2
  <2>3. ASSUME NEW s \in Seats, SitOut(s) \/ SitIn(s) PROVE Deals
    <3>1. table'.handNumber = table.handNumber
      BY <2>3 DEF SitOut, SitIn, IInv, TypeOK, Tables, TablesIn
    <3>. QED
      BY <2>0, <3>1
  <2>. QED
    BY <2>1, <2>2, <2>3 DEF Next
<1>. QED
  BY <1>1, Inductive, PTL DEF Spec, BustedSitOut

\* A full bet or raise reopens the betting for every other seat that can bet, and
\* nothing less does for a seat that has acted and does not owe a full raise.
THEOREM RaisesReopen == Spec => FullRaiseReopens
<1>. DEFINE Reopens == \A s \in Seats :
              /\ InHand /\ InHand'
              /\ table.actingSeat = s
              /\ table'.street = table.street
              => \A q \in Seats \ {s} : table'.status[q] = "active" =>
                   /\ table'.currentBet - table.currentBet >= table.lastFullRaiseIncrement
                        => IsReopened(table', q)
                   /\ table.hasActedThisRound[q]
                      /\ ToCall(table', q) < table'.lastFullRaiseIncrement
                        => ~IsReopened(table', q)
<1>1. IInv /\ Next => Reopens
  <2>. SUFFICES ASSUME IInv, Next, InHand, InHand', NEW s \in Seats, table.actingSeat = s,
                       table'.street = table.street,
                       NEW q \in Seats \ {s}, table'.status[q] = "active"
                PROVE  /\ table'.currentBet - table.currentBet >= table.lastFullRaiseIncrement
                            => IsReopened(table', q)
                       /\ table.hasActedThisRound[q]
                          /\ ToCall(table', q) < table'.lastFullRaiseIncrement
                            => ~IsReopened(table', q)
    OBVIOUS
  <2>1. PICK p \in Seats : Act(p)
    BY DEF Next, StartHand, SitOut, SitIn, InHand
  <2>2. /\ table.actingSeat = p /\ Rests(table)
        /\ \E d : InPlay(d) /\ Moves(table, p, d) /\ Return(Advance(d))
    BY <2>1, ActGoesOn DEF IInv
  <2>3. PICK d : InPlay(d) /\ Moves(table, s, d) /\ Return(Advance(d))
    BY <2>2
  <2>4. PICK b : Comes(d, b)
    BY <2>3, StepComes
  <2>5. /\ table'.street = b.street /\ table'.currentBet = b.currentBet
        /\ table'.lastActedAtBet = b.lastActedAtBet /\ table'.status = b.status
        /\ table'.lastFullRaiseIncrement = b.lastFullRaiseIncrement
        /\ table'.hasActedThisRound = b.hasActedThisRound
        /\ table'.committedThisStreet = b.committedThisStreet
    BY <2>3, <2>4, AskedRests DEF Comes
  <2>6. b = d
    <3>1. Place(b.street) = Place(d.street) /\ Place(b.street) \in Nat
      BY <2>3, <2>5 DEF Moves, Place
    <3>. QED
      BY <2>4, <3>1 DEF Comes, OnPath, Onward
  <2>7. /\ d.currentBet \in Nat /\ table.currentBet \in Nat
        /\ table.lastFullRaiseIncrement \in Nat
        /\ table.lastActedAtBet[q] \in Nat /\ table.lastActedAtBet[q] <= table.currentBet
    BY <2>2, <2>3 DEF InPlay, Rests, Playing, Playable, Drafts, TablesIn, ActedWithin
  <2>8. ASSUME table'.currentBet - table.currentBet >= table.lastFullRaiseIncrement
        PROVE  IsReopened(table', q)
    <3>1. d.currentBet - d.lastActedAtBet[q] >= d.lastFullRaiseIncrement
      BY <2>3, <2>5, <2>6, <2>7, <2>8 DEF Moves
    <3>. QED
      BY <2>5, <2>6, <3>1 DEF IsReopened
  <2>9. ASSUME table.hasActedThisRound[q], ToCall(table', q) < table'.lastFullRaiseIncrement
        PROVE  ~IsReopened(table', q)
    <3>1. d.hasActedThisRound[q] /\ d.status[q] = "active"
      BY <2>3, <2>5, <2>6, <2>9 DEF Moves
    <3>2. d.committedThisStreet[q] = d.lastActedAtBet[q]
      BY <2>3, <3>1 DEF InPlay, ActedWithin
    <3>3. /\ d.currentBet \in Nat /\ d.lastFullRaiseIncrement \in Nat
          /\ d.lastActedAtBet[q] \in Nat
      BY <2>3 DEF InPlay, Playing, Playable, Drafts, TablesIn
    <3>4. d.currentBet - d.lastActedAtBet[q] < d.lastFullRaiseIncrement
      BY <2>5, <2>6, <2>9, <3>2 DEF ToCall
    <3>. QED
      BY <2>5, <2>6, <3>1, <3>3, <3>4 DEF IsReopened
  <2>. QED
    BY <2>8, <2>9
<1>. QED
  BY <1>1, Inductive, PTL DEF Spec, FullRaiseReopens

\* Nobody wins from another player more than they put at risk themselves.
THEOREM WinsAreBounded == Spec => WinBoundedByStake
<1>. DEFINE Bounded == \A s \in Seats :
              LET c == table'.committedThisHand
              IN  table'.phase = "hand-complete" =>
                    table'.stack[s] - StackAtDeal(table, s)
                      <= SeatSum([q \in Seats |-> IF q = s THEN 0 ELSE Smaller(c[q], c[s])])
                           + table'.anteTotal
<1>1. IInv /\ Next => Bounded
  <2>. SUFFICES ASSUME IInv, Next, table'.phase = "hand-complete", NEW s \in Seats
                PROVE  table'.stack[s] - StackAtDeal(table, s)
                         <= SeatSum(Reach(table'.committedThisHand, s)) + table'.anteTotal
    BY DEF Reach
  <2>1. table \in Tables /\ ~InHand'
    BY DEF IInv, TypeOK, InHand
  \* What s had at the deal is what it has on the draft, and the ante.
  <2>2. ASSUME NEW d, InPlay(d), Return(Advance(d)),
               StackAtDeal(table, s) \in Int,
               d.stack[s] + d.committedThisHand[s] <= StackAtDeal(table, s)
        PROVE  table'.stack[s] - StackAtDeal(table, s)
                 <= SeatSum(Reach(table'.committedThisHand, s)) + table'.anteTotal
    <3>1. PICK b : Comes(d, b)
      BY <2>2, StepComes
    <3>2. /\ b.stack = d.stack /\ b.committedThisHand = d.committedThisHand
          /\ b.anteTotal = table'.anteTotal
          /\ b.stack \in [Seats -> Nat] /\ b.committedThisHand \in [Seats -> Nat]
          /\ b.anteTotal \in Nat
      BY <3>1 DEF Comes, OnPath, Onward, Playable, Drafts, TablesIn
    <3>3. /\ table'.stack \in [Seats -> Nat]
          /\ table'.stack[s] - (b.stack[s] + b.committedThisHand[s])
               <= SeatSum(Reach(table'.committedThisHand, s)) + b.anteTotal
      BY <2>1, <3>1, PaidOffChips DEF Comes
    <3>4. SeatSum(Reach(table'.committedThisHand, s)) \in Int
      <4>1. table'.committedThisHand \in [Seats -> Nat]
        BY <2>2, StepGoesOn DEF Tables, TablesIn
      <4>. DEFINE c == table'.committedThisHand
      <4>. HIDE DEF c
      <4>2. Reach(c, s) \in [Seats -> Int]
        BY <4>1 DEF Reach, Smaller, c
      <4>. QED
        BY <4>2, SeatSumInt DEF c
    <3>5. table'.stack[s] \in Nat /\ b.stack[s] \in Nat /\ b.committedThisHand[s] \in Nat
      BY <3>2, <3>3
    <3>. QED
      BY <2>2, <3>2, <3>3, <3>4, <3>5
  <2>3. CASE StartHand
    <3>1. PICK d : InPlay(d) /\ Dealt(table, d) /\ Return(Advance(d))
      BY <2>3, StartDeals DEF IInv
    <3>2. /\ d.stack[s] \in Nat /\ d.committedThisHand[s] \in Nat /\ d.anteTotal \in Nat
          /\ table.stack[s] \in Nat
      BY <2>1, <3>1 DEF InPlay, Playing, Playable, Drafts, Tables, TablesIn
    <3>3. StackAtDeal(table, s) = table.stack[s]
      BY <2>3, <3>2 DEF StartHand, StackAtDeal
    <3>4. Held(d, d.lastBigBlindSeat, s) = table.stack[s]
      BY <3>1 DEF Dealt
    <3>5. d.stack[s] + d.committedThisHand[s] <= StackAtDeal(table, s)
      BY <3>2, <3>3, <3>4 DEF Held
    <3>. QED
      BY <2>2, <3>1, <3>2, <3>3, <3>5
  <2>4. ASSUME NEW p \in Seats, Act(p)
        PROVE  table'.stack[s] - StackAtDeal(table, s)
                 <= SeatSum(Reach(table'.committedThisHand, s)) + table'.anteTotal
    <3>1. InHand /\ \E d : InPlay(d) /\ Moves(table, p, d) /\ Return(Advance(d))
      BY <2>4, ActGoesOn DEF IInv
    <3>2. PICK d : InPlay(d) /\ Moves(table, p, d) /\ Return(Advance(d))
      BY <3>1
    <3>3. /\ d.stack[s] \in Nat /\ d.committedThisHand[s] \in Nat
          /\ table.stack[s] \in Nat /\ table.committedThisHand[s] \in Nat
          /\ table.anteTotal \in Nat
      BY <2>1, <3>2 DEF InPlay, Playing, Playable, Drafts, Tables, TablesIn
    <3>4. d.stack[s] + d.committedThisHand[s] = table.stack[s] + table.committedThisHand[s]
      BY <3>2 DEF Moves
    <3>5. /\ StackAtDeal(table, s) \in Int
          /\ d.stack[s] + d.committedThisHand[s] <= StackAtDeal(table, s)
      BY <3>1, <3>3, <3>4 DEF StackAtDeal, InHand
    <3>. QED
      BY <2>2, <3>2, <3>5
  <2>5. ASSUME NEW p \in Seats, SitOut(p) \/ SitIn(p)
        PROVE  table'.stack[s] - StackAtDeal(table, s)
                 <= SeatSum(Reach(table'.committedThisHand, s)) + table'.anteTotal
    <3>1. /\ table'.stack = table.stack /\ table'.committedThisHand = table.committedThisHand
          /\ table'.anteTotal = table.anteTotal /\ table.phase # "in-hand"
      BY <2>1, <2>5 DEF SitOut, SitIn, Tables, TablesIn
    <3>2. /\ table.committedThisHand \in [Seats -> Nat] /\ table.anteTotal \in Nat
          /\ table.stack[s] \in Nat
      BY <2>1 DEF Tables, TablesIn
    <3>3. StackAtDeal(table, s) = table.stack[s]
      BY <3>1, <3>2 DEF StackAtDeal
    <3>. DEFINE c == table.committedThisHand
    <3>. HIDE DEF c
    <3>4. Reach(c, s) \in [Seats -> Nat]
      BY <3>2 DEF Reach, Smaller, c
    <3>5. SeatSum(Reach(c, s)) \in Nat
      BY <3>4, SeatSumNat
    <3>. QED
      BY <3>1, <3>2, <3>3, <3>5 DEF c
  <2>. QED
    BY <2>3, <2>4, <2>5 DEF Next
<1>. QED
  BY <1>1, Inductive, PTL DEF Spec, WinBoundedByStake

-----------------------------------------------------------------------------
(* Engine implements Custody.                                              *)

\* The operators of Ring that Custody brings in are Engine's.
LEMMA SameRing ==
  /\ Money!Seats = Seats
  /\ \A f : Money!SeatSum(f) = SeatSum(f)
  /\ \A R : Money!AtLeastTwo(R) = AtLeastTwo(R)
<1>1. Money!Seats = Seats
  BY DEF Money!Seats, Seats
<1>. QED
  BY <1>1 DEF Money!SeatSum, SeatSum, Money!AtLeastTwo, AtLeastTwo

\* The chips of a draft, in and behind, add up seat by seat.
LEMMA HeldAddsUp ==
  ASSUME NEW d \in Drafts, NEW stacks \in [Seats -> Nat], NEW bb \in Seats,
         \A s \in Seats : Held(d, bb, s) = stacks[s]
  PROVE  SeatSum(stacks) = SeatSum(d.stack) + SeatSum(d.committedThisHand) + d.anteTotal
<1>. DEFINE c == d.committedThisHand
            ante == Each({bb}, d.anteTotal)
            in == [s \in Seats |-> c[s] + ante[s]]
<1>1. d.stack \in [Seats -> Int] /\ c \in [Seats -> Int] /\ d.anteTotal \in Int
  BY DEF Drafts, TablesIn
<1>2. /\ ante \in [Seats -> Int] /\ ante[bb] = d.anteTotal
      /\ \A s \in Seats \ {bb} : ante[s] = 0
  BY <1>1 DEF Each
<1>. HIDE DEF c, ante
<1>3. in \in [Seats -> Int] /\ \A s \in Seats : in[s] = c[s] + ante[s]
  BY <1>1, <1>2
<1>. HIDE DEF in
<1>4. \A s \in Seats : stacks[s] = d.stack[s] + in[s]
  BY <1>1, <1>2, <1>3 DEF Held, c
<1>5. SeatSum(stacks) = SeatSum(d.stack) + SeatSum(in)
  <2>1. stacks \in [Seats -> Int]
    OBVIOUS
  <2>. QED
    BY <1>1, <1>3, <1>4, <2>1, SeatSumAdds
<1>6. SeatSum(in) = SeatSum(c) + SeatSum(ante)
  BY <1>1, <1>2, <1>3, SeatSumAdds
<1>7. SeatSum(ante) = d.anteTotal
  BY <1>2, SeatSumOne
<1>8. SeatSum(d.stack) \in Int /\ SeatSum(c) \in Int
  BY <1>1, SeatSumInt
<1>. QED
  BY <1>1, <1>5, <1>6, <1>7, <1>8 DEF c

\* A decision moves chips between the stack and the stake of one seat.
LEMMA MovesAddUp ==
  ASSUME NEW t \in Drafts, NEW d \in Drafts, NEW s \in Seats, Moves(t, s, d)
  PROVE  /\ SeatSum(d.stack) + SeatSum(d.committedThisHand)
              = SeatSum(t.stack) + SeatSum(t.committedThisHand)
         /\ SeatSum(d.committedThisHand) = SeatSum(t.committedThisHand) + t.stack[s] - d.stack[s]
         /\ SeatSum(t.committedThisHand) \in Nat
<1>. DEFINE n == t.stack[s] - d.stack[s]
            put == Each({s}, n)
            left == Each({s}, -n)
<1>1. /\ t.stack \in [Seats -> Int] /\ t.committedThisHand \in [Seats -> Int]
      /\ d.stack \in [Seats -> Int] /\ d.committedThisHand \in [Seats -> Int]
  BY DEF Drafts, TablesIn
<1>2. n \in Int
  BY <1>1
<1>3. /\ d.stack[s] = t.stack[s] + (-n)
      /\ d.committedThisHand[s] = t.committedThisHand[s] + n
      /\ \A q \in Seats \ {s} : d.stack[q] = t.stack[q]
                                /\ d.committedThisHand[q] = t.committedThisHand[q]
  BY <1>1 DEF Moves
<1>. HIDE DEF n
<1>4. /\ put \in [Seats -> Int] /\ left \in [Seats -> Int]
      /\ put[s] = n /\ left[s] = -n
      /\ \A q \in Seats \ {s} : put[q] = 0 /\ left[q] = 0
  BY <1>2 DEF Each
<1>. HIDE DEF put, left
<1>5. ASSUME NEW q \in Seats
      PROVE  /\ d.stack[q] = t.stack[q] + left[q]
             /\ d.committedThisHand[q] = t.committedThisHand[q] + put[q]
  <2>1. t.stack[q] \in Int /\ t.committedThisHand[q] \in Int
    BY <1>1
  <2>2. CASE q = s
    BY <1>3, <1>4, <2>2
  <2>3. CASE q # s
    <3>1. put[q] = 0 /\ left[q] = 0 /\ d.stack[q] = t.stack[q]
          /\ d.committedThisHand[q] = t.committedThisHand[q]
      BY <1>3, <1>4, <2>3
    <3>. QED
      BY <2>1, <3>1
  <2>. QED
    BY <2>2, <2>3
<1>6. SeatSum(d.stack) = SeatSum(t.stack) + SeatSum(left)
  <2>. DEFINE x == t.stack
              y == d.stack
  <2>1. /\ x \in [Seats -> Int] /\ left \in [Seats -> Int] /\ y \in [Seats -> Int]
        /\ \A q \in Seats : y[q] = x[q] + left[q]
    BY <1>1, <1>4, <1>5
  <2>. HIDE DEF x, y
  <2>2. SeatSum(y) = SeatSum(x) + SeatSum(left)
    BY <2>1, SeatSumAdds
  <2>. QED
    BY <2>2 DEF x, y
<1>7. SeatSum(d.committedThisHand) = SeatSum(t.committedThisHand) + SeatSum(put)
  <2>. DEFINE x == t.committedThisHand
              y == d.committedThisHand
  <2>1. /\ x \in [Seats -> Int] /\ put \in [Seats -> Int] /\ y \in [Seats -> Int]
        /\ \A q \in Seats : y[q] = x[q] + put[q]
    BY <1>1, <1>4, <1>5
  <2>. HIDE DEF x, y
  <2>2. SeatSum(y) = SeatSum(x) + SeatSum(put)
    BY <2>1, SeatSumAdds
  <2>. QED
    BY <2>2 DEF x, y
<1>8. SeatSum(left) = -n /\ SeatSum(put) = n
  BY <1>4, SeatSumOne
<1>9. SeatSum(t.stack) \in Int /\ SeatSum(t.committedThisHand) \in Nat
  <2>1. t.committedThisHand \in [Seats -> Nat]
    BY DEF Drafts, TablesIn
  <2>. QED
    BY <1>1, <2>1, SeatSumInt, SeatSumNat
<1>10. t.stack[s] \in Int /\ d.stack[s] \in Int
  BY <1>1
<1>. QED
  BY <1>2, <1>6, <1>7, <1>8, <1>9, <1>10 DEF n

\* While a hand goes on, it is the turn of one of at least two.
LEMMA TurnAmongPlayers ==
  ASSUME NEW t, Rests(t)
  PROVE  AtLeastTwo(Contending(t)) /\ t.actingSeat \in Contending(t)
<1>1. Playable(t) /\ AtRest(t)
  BY DEF Rests, Playing
<1>2. t.actingSeat \in Contending(t)
  BY <1>1 DEF AtRest, Pending, NeedsToAct, Contending
<1>3. \E w \in Seats \ {t.actingSeat} : w \in Contending(t)
  BY <1>1, AnotherStands DEF Stands
<1>. QED
  BY <1>2, <1>3 DEF AtLeastTwo

\* A step that leaves the hand going leaves the chips of the draft.
LEMMA StepKeepsChips ==
  ASSUME NEW d, InPlay(d), Return(Advance(d)), InHand'
  PROVE  /\ Rests(table') /\ Contending(table') = Contending(d)
         /\ table'.stack = d.stack /\ table'.committedThisHand = d.committedThisHand
         /\ table'.anteTotal = d.anteTotal
<1>1. PICK b : Comes(d, b)
  BY StepComes
<1>2. /\ Rests(table') /\ table'.stack = b.stack
      /\ table'.committedThisHand = b.committedThisHand
  BY <1>1, AskedRests DEF Comes
<1>. QED
  BY <1>1, <1>2 DEF Comes, OnPath, Onward

\* A step that ends the hand, seen from the draft.
LEMMA StepPaysChips ==
  ASSUME NEW d, InPlay(d), Return(Advance(d)), ~InHand'
  PROVE  /\ \A s \in Seats : table'.stack[s] >= d.stack[s]
         /\ \A s \in Seats \ Contending(d) : table'.stack[s] = d.stack[s]
         /\ SeatSum(table'.stack)
              = SeatSum(d.stack) + SeatSum(d.committedThisHand) + d.anteTotal
<1>1. PICK b : Comes(d, b)
  BY StepComes
<1>2. /\ b.stack = d.stack /\ b.committedThisHand = d.committedThisHand
      /\ b.anteTotal = d.anteTotal /\ b.status = d.status
  BY <1>1 DEF Comes, OnPath, Onward
<1>3. Contending(b) = Contending(d)
  BY <1>2 DEF Contending
<1>. QED
  BY <1>1, <1>2, <1>3, PaidOffChips DEF Comes

\* The deal takes no more than the forced bets, and only from those dealt in.
LEMMA DealImplements ==
  ASSUME IInv, StartHand
  PROVE  Money!Next
<1>1. PICK d : InPlay(d) /\ Dealt(table, d) /\ Return(Advance(d))
  BY StartDeals DEF IInv
<1>. DEFINE t == table
            bb == d.lastBigBlindSeat
            forced == Larger(MaxAnte + BigBlind, 2 * BigBlind)
<1>2. /\ t \in Tables /\ t.stack \in [Seats -> Nat] /\ ~InHand
      /\ table' \in Tables /\ table'.stack \in [Seats -> Nat]
  BY <1>1, StepGoesOn DEF StartHand, InHand, IInv, TypeOK, Tables, TablesIn
<1>3. /\ d \in Drafts /\ d.stack \in [Seats -> Nat] /\ d.committedThisHand \in [Seats -> Nat]
      /\ d.anteTotal \in Nat /\ bb \in Seats
  BY <1>1 DEF InPlay, Playing, Playable, Drafts, TablesIn, Dealt, Contending
<1>4. \A s \in Seats : /\ t.stack[s] - d.stack[s] \in 0 .. forced
                       /\ s \notin Contending(d) => d.stack[s] = t.stack[s]
  <2>. SUFFICES ASSUME NEW s \in Seats
                PROVE  /\ t.stack[s] - d.stack[s] \in 0 .. forced
                       /\ s \notin Contending(d) => d.stack[s] = t.stack[s]
    OBVIOUS
  <2>1. /\ d.stack[s] + d.committedThisHand[s] + (IF s = bb THEN d.anteTotal ELSE 0) = t.stack[s]
        /\ d.committedThisHand[s] <= 2 * BigBlind
        /\ s = bb => d.committedThisHand[s] <= BigBlind
        /\ d.anteTotal <= MaxAnte
        /\ s \notin Contending(d) => s # bb /\ d.committedThisHand[s] = 0
    BY <1>1 DEF Dealt, Held
  <2>2. /\ d.stack[s] \in Nat /\ d.committedThisHand[s] \in Nat /\ t.stack[s] \in Nat
        /\ BigBlind \in Nat /\ MaxAnte \in Nat
    BY <1>2, <1>3, ConfigAssumption
  <2>. QED
    BY <1>3, <2>1, <2>2 DEF Larger
<1>5. SeatSum(t.stack) = SeatSum(d.stack) + SeatSum(d.committedThisHand) + d.anteTotal
  BY <1>1, <1>2, <1>3, HeldAddsUp DEF Dealt
<1>6. /\ SeatSum(d.stack) \in Nat /\ SeatSum(d.committedThisHand) \in Nat
  BY <1>3, SeatSumNat
<1>7. CASE InHand'
  <2>1. /\ Rests(table') /\ Contending(table') = Contending(d)
        /\ table'.stack = d.stack /\ table'.committedThisHand = d.committedThisHand
        /\ table'.anteTotal = d.anteTotal
    BY <1>1, <1>7, StepKeepsChips
  <2>2. AtLeastTwo(Contending(table')) /\ table'.actingSeat \in Contending(table')
    BY <2>1, TurnAmongPlayers
  <2>3. SeatSum(table'.committedThisHand) + table'.anteTotal
          = SeatSum(t.stack) - SeatSum(table'.stack)
    BY <1>3, <1>5, <1>6, <2>1
  <2>4. /\ \A s \in Seats \ Contending(table') : table'.stack[s] = t.stack[s]
        /\ \A s \in Seats : t.stack[s] - table'.stack[s] \in 0 .. forced
    BY <1>4, <2>1
  <2>5. Money!Deal
    BY <1>2, <1>7, <2>2, <2>3, <2>4, SameRing DEF Money!Deal, Money!OthersKeep, InHand
  <2>. QED
    BY <1>2, <2>5, SameRing DEF Money!Next
<1>8. CASE ~InHand'
  <2>1. /\ \A s \in Seats : table'.stack[s] >= d.stack[s]
        /\ SeatSum(table'.stack) = SeatSum(t.stack)
    BY <1>1, <1>5, <1>8, StepPaysChips
  <2>2. \A s \in Seats : t.stack[s] - table'.stack[s] <= forced
    <3>. SUFFICES ASSUME NEW s \in Seats PROVE t.stack[s] - table'.stack[s] <= forced
      OBVIOUS
    <3>1. /\ t.stack[s] \in Nat /\ table'.stack[s] \in Nat /\ d.stack[s] \in Nat
          /\ forced \in Nat
      BY <1>2, <1>3, ConfigAssumption DEF Larger
    <3>. HIDE DEF forced
    <3>. QED
      BY <1>4, <2>1, <3>1
  <2>3. Money!DealAndSettle
    BY <1>2, <1>8, <2>1, <2>2, SameRing DEF Money!DealAndSettle, InHand
  <2>. QED
    BY <1>2, <2>3, SameRing DEF Money!Next
<1>. QED
  BY <1>7, <1>8

\* On its turn a seat pays from its own stack or leaves the hand; the last
\* decision pays the middle out to those still in it.
LEMMA ActImplements ==
  ASSUME IInv, NEW s \in Seats, Act(s)
  PROVE  Money!Next
<1>. DEFINE t == table
<1>1. /\ InHand /\ t.actingSeat = s /\ t.status[s] = "active" /\ Rests(t)
      /\ \E d : InPlay(d) /\ Moves(t, s, d) /\ Return(Advance(d))
  BY ActGoesOn DEF IInv
<1>2. PICK d : InPlay(d) /\ Moves(t, s, d) /\ Return(Advance(d))
  BY <1>1
<1>3. /\ t \in Tables /\ t \in Drafts /\ t.stack \in [Seats -> Nat]
      /\ t.committedThisHand \in [Seats -> Nat] /\ t.anteTotal \in Nat
      /\ table' \in Tables /\ table'.stack \in [Seats -> Nat]
  BY <1>1, <1>2, StepGoesOn DEF IInv, TypeOK, Rests, Playing, Playable, Tables, TablesIn
<1>4. /\ d \in Drafts /\ d.stack \in [Seats -> Nat] /\ d.committedThisHand \in [Seats -> Nat]
      /\ d.anteTotal = t.anteTotal
  BY <1>2 DEF InPlay, Playing, Playable, Drafts, TablesIn, Moves
<1>5. /\ SeatSum(d.stack) + SeatSum(d.committedThisHand)
           = SeatSum(t.stack) + SeatSum(t.committedThisHand)
      /\ SeatSum(d.committedThisHand) = SeatSum(t.committedThisHand) + t.stack[s] - d.stack[s]
      /\ SeatSum(t.committedThisHand) \in Nat
  BY <1>2, <1>3, <1>4, MovesAddUp
<1>6. s \in Contending(t)
  BY <1>1 DEF Contending
<1>7. \/ Contending(d) = Contending(t) \ {s} /\ d.stack[s] = t.stack[s]
      \/ Contending(d) = Contending(t)
  <2>1. \A q \in Seats \ {s} : d.status[q] = t.status[q]
    BY <1>2 DEF Moves
  <2>2. CASE d.status[s] = "folded" /\ d.stack[s] = t.stack[s]
    BY <2>1, <2>2 DEF Contending
  <2>3. CASE d.status[s] \in {"active", "all-in"}
    BY <1>1, <2>1, <2>3 DEF Contending
  <2>. QED
    BY <1>2, <2>2, <2>3 DEF Moves
<1>8. \A q \in Seats \ {s} : d.stack[q] = t.stack[q]
  BY <1>2 DEF Moves
<1>9. d.stack[s] \in 0 .. t.stack[s]
  BY <1>2, <1>3, <1>4 DEF Moves
<1>10. CASE InHand'
  <2>1. /\ Rests(table') /\ Contending(table') = Contending(d)
        /\ table'.stack = d.stack /\ table'.committedThisHand = d.committedThisHand
        /\ table'.anteTotal = d.anteTotal
    BY <1>2, <1>10, StepKeepsChips
  <2>2. AtLeastTwo(Contending(table')) /\ table'.actingSeat \in Contending(table')
    BY <2>1, TurnAmongPlayers
  <2>3. SeatSum(table'.committedThisHand) + table'.anteTotal
          = SeatSum(t.committedThisHand) + t.anteTotal + t.stack[s] - table'.stack[s]
    <3>1. d.stack[s] \in Nat /\ t.stack[s] \in Nat
      BY <1>3, <1>4
    <3>. QED
      BY <1>3, <1>4, <1>5, <2>1, <3>1
  <2>4. CASE Contending(d) = Contending(t)
    <3>1. /\ Contending(table') = Contending(t)
          /\ \A q \in Seats \ {s} : table'.stack[q] = t.stack[q]
          /\ table'.stack[s] \in 0 .. t.stack[s]
      BY <1>8, <1>9, <2>1, <2>4
    <3>2. Money!Play
      BY <1>1, <1>6, <1>10, <2>2, <2>3, <3>1, SameRing DEF Money!Play, Money!OthersKeep, InHand
    <3>. QED
      BY <1>3, <3>2, SameRing DEF Money!Next
  <2>5. CASE Contending(d) = Contending(t) \ {s} /\ d.stack[s] = t.stack[s]
    <3>1. table'.stack = t.stack
      <4>1. \A q \in Seats : table'.stack[q] = t.stack[q]
        BY <1>8, <2>1, <2>5
      <4>. QED
        BY <1>3, <4>1
    <3>2. SeatSum(table'.committedThisHand) + table'.anteTotal
            = SeatSum(t.committedThisHand) + t.anteTotal
      <4>1. SeatSum(d.committedThisHand) = SeatSum(t.committedThisHand)
        <5>1. t.stack[s] \in Nat /\ d.stack[s] = t.stack[s]
          BY <1>3, <2>5
        <5>. QED
          BY <1>5, <5>1
      <4>. QED
        BY <1>4, <2>1, <4>1
    <3>3. Money!Play
      BY <1>1, <1>6, <1>10, <2>1, <2>2, <2>5, <3>1, <3>2, SameRing DEF Money!Play, InHand
    <3>. QED
      BY <1>3, <3>3, SameRing DEF Money!Next
  <2>. QED
    BY <1>7, <2>4, <2>5
<1>11. CASE ~InHand'
  <2>1. /\ \A q \in Seats : table'.stack[q] >= d.stack[q]
        /\ \A q \in Seats \ Contending(d) : table'.stack[q] = d.stack[q]
        /\ SeatSum(table'.stack)
             = SeatSum(d.stack) + SeatSum(d.committedThisHand) + d.anteTotal
    BY <1>2, <1>11, StepPaysChips
  <2>2. \A q \in Seats \ Contending(t) : table'.stack[q] = t.stack[q]
    BY <1>6, <1>7, <1>8, <2>1
  <2>3. \A q \in Contending(t) \ {s} : table'.stack[q] >= t.stack[q]
    BY <1>8, <2>1 DEF Contending
  <2>4. SeatSum(table'.stack)
          = SeatSum(t.stack) + (SeatSum(t.committedThisHand) + t.anteTotal)
    <3>1. SeatSum(t.stack) \in Nat
      BY <1>3, SeatSumNat
    <3>. QED
      BY <1>3, <1>4, <1>5, <2>1, <3>1
  <2>5. Money!PlayAndSettle
    BY <1>1, <1>6, <1>11, <2>2, <2>3, <2>4, SameRing
       DEF Money!PlayAndSettle, Money!OthersKeep, InHand
  <2>. QED
    BY <1>3, <2>5, SameRing DEF Money!Next
<1>. QED
  BY <1>10, <1>11

\* Every step of the engine is a step of Custody: chips leave a stack only by
\* a forced bet or on that seat's own turn, the middle goes to seats still in
\* the hand, and none are made or lost, whatever the refunds and side pots.
THEOREM EngineKeepsCustody == Spec => ImplementsCustody
<1>1. Init => Money!Init
  <2>. SUFFICES ASSUME Init PROVE Money!Init
    OBVIOUS
  <2>1. table \in Tables /\ table.phase = "waiting"
    BY StartingTablesAssumption DEF Init
  <2>2. table.stack \in [Seats -> Nat] /\ ~InHand
    BY <2>1 DEF Tables, TablesIn, InHand
  <2>. QED
    BY <2>2, SameRing DEF Money!Init
<1>2. IInv /\ [Next]_table => [Money!Next]_(Money!custody)
  <2>. SUFFICES ASSUME IInv, [Next]_table
                PROVE  Money!Next \/ UNCHANGED Money!custody
    OBVIOUS
  <2>1. CASE StartHand
    BY <2>1, DealImplements
  <2>2. ASSUME NEW s \in Seats, Act(s) PROVE Money!Next
    BY <2>2, ActImplements
  <2>3. ASSUME NEW s \in Seats, SitOut(s) \/ SitIn(s) PROVE Money!Next
    <3>1. /\ table'.stack = table.stack /\ table.stack \in [Seats -> Nat]
          /\ ~InHand /\ ~InHand'
      BY <2>3 DEF SitOut, SitIn, InHand, IInv, TypeOK, Tables, TablesIn
    <3>2. Money!Wait
      BY <3>1 DEF Money!Wait
    <3>. QED
      BY <3>1, <3>2, SameRing DEF Money!Next
  <2>4. CASE UNCHANGED table
    BY <2>4 DEF Money!custody, InHand, Contending
  <2>. QED
    BY <2>1, <2>2, <2>3, <2>4 DEF Next
<1>. QED
  BY <1>1, <1>2, Inductive, PTL DEF Spec, ImplementsCustody, Money!Spec

-----------------------------------------------------------------------------
(* The rotation of the button and the blinds over a session of hands.      *)

\* Stepping on and back again ends where it began, from a seat of the ring.
LEMMA PrevOfNext ==
  ASSUME NEW R \in SUBSET Seats, NEW s \in R
  PROVE  PrevInRing(R, NextInRing(R, s)) = s
<1>. DEFINE n == NextInRing(R, s)
            p == PrevInRing(R, n)
<1>1. n \in R /\ Distance(s, n) <= Distance(s, s)
  BY NextInRingNearest
<1>2. p \in R /\ Distance(p, n) <= Distance(s, n)
  BY <1>1, PrevInRingNearest
<1>3. Distance(s, n) <= Distance(s, p)
  BY <1>2, NextInRingNearest
<1>. HIDE DEF n, p
<1>4. s \in Seats /\ n \in Seats /\ p \in Seats
  BY <1>1, <1>2
<1>5. p = s
  BY <1>2, <1>3, <1>4, DistanceCases, MaxSeatsAssumption DEF Seats
<1>. QED
  BY <1>5 DEF n, p

\* Heads-up, the next seat but one is the seat itself.
LEMMA NextOfNext ==
  ASSUME NEW R \in SUBSET Seats, Cardinality(R) = 2, NEW s \in R
  PROVE  NextInRing(R, NextInRing(R, s)) = s
<1>1. PICK q : R \ {s} = {q}
  <2>1. IsFiniteSet(R) /\ IsFiniteSet(R \ {s}) /\ Cardinality(R \ {s}) = 1
    BY SeatsFinite, FS_RemoveElement
  <2>. QED
    BY <2>1, FS_Singleton
<1>2. R = {s, q} /\ q # s /\ q \in Seats /\ s \in Seats
  BY <1>1
<1>3. Distance(s, q) < Distance(s, s) /\ Distance(q, s) < Distance(q, q)
  BY <1>2, DistanceCases, MaxSeatsAssumption DEF Seats
<1>4. \A x \in Seats : Distance(x, s) \in Nat /\ Distance(x, q) \in Nat
  BY <1>2, DistanceType
<1>5. NextInRing(R, s) = q
  BY <1>2, <1>3, <1>4, NextInRingNearest
<1>6. NextInRing(R, q) = s
  BY <1>2, <1>3, <1>4, NextInRingNearest
<1>. QED
  BY <1>5, <1>6

-----------------------------------------------------------------------------
(* Where the rotation stands: the seats that still owe x a big blind sit   *)
(* between the last big blind and x.                                       *)
Standing ==
  /\ lastBigBlindSeat \in Seats \cup {NoSeat}
  /\ unpaid \in [Seats -> SUBSET Seats]
  /\ lastBigBlindSeat = NoSeat => \A x \in Seats : unpaid[x] = {}
  /\ lastBigBlindSeat # NoSeat =>
       \A x \in Seats : \A q \in unpaid[x] :
         Distance(lastBigBlindSeat, q) < Distance(lastBigBlindSeat, x)

LEMMA RingsType ==
  ASSUME NEW R \in Rings
  PROVE  R \in SUBSET Seats /\ R # {}
  BY DEF Rings, AtLeastTwo

LEMMA SeedType ==
  ASSUME NEW R \in Rings, NEW w \in R
  PROVE  SeedFor(R, w) \in R
  BY RingsType, NextInRingType DEF SeedFor

\* Dealing with a known last big blind.
LEMMA BigBlindIsNext ==
  ASSUME NEW R \in Rings, NEW last \in Seats
  PROVE  /\ AssignButtonAndBlinds(R, last).bb = NextInRing(R, last)
         /\ Cardinality(R) = 2 =>
              /\ AssignButtonAndBlinds(R, last).sb = NextInRing(R, NextInRing(R, last))
              /\ AssignButtonAndBlinds(R, last).button = AssignButtonAndBlinds(R, last).sb
         /\ Cardinality(R) # 2 =>
              /\ AssignButtonAndBlinds(R, last).sb = PrevInRing(R, NextInRing(R, last))
              /\ AssignButtonAndBlinds(R, last).button
                   = PrevInRing(R, PrevInRing(R, NextInRing(R, last)))
<1>1. last # NoSeat
  BY NoSeatAssumption
<1>. QED
  BY <1>1 DEF AssignButtonAndBlinds

\* A hand dealt when no blind is owed yet, whatever big blind it starts from.
LEMMA FirstDealStanding ==
  ASSUME Standing, lastBigBlindSeat = NoSeat, NEW R \in Rings, NEW last,
         AssignButtonAndBlinds(R, last).bb \in R, DealTo(R, last)
  PROVE  Standing'
<1>. DEFINE bb == AssignButtonAndBlinds(R, last).bb
<1>1. /\ bb \in Seats /\ bb # NoSeat /\ R \in SUBSET Seats
      /\ lastBigBlindSeat' = bb
      /\ unpaid' = [x \in Seats |-> IF x = bb THEN R \ {bb} ELSE (unpaid[x] \cap R) \ {bb}]
  BY RingsType, NoSeatAssumption DEF DealTo
<1>. HIDE DEF bb
<1>2. unpaid' \in [Seats -> SUBSET Seats]
  BY <1>1 DEF Standing
<1>3. \A x \in Seats : \A q \in unpaid'[x] : x = bb /\ q \in Seats /\ q # bb
  BY <1>1 DEF Standing
<1>4. \A q \in Seats : q # bb => Distance(bb, q) < Distance(bb, bb)
  BY <1>1, DistanceCases, MaxSeatsAssumption DEF Seats
<1>. QED
  BY <1>1, <1>2, <1>3, <1>4 DEF Standing

LEMMA NextDealStanding ==
  ASSUME Standing, NEW R \in Rings, NextHand(R)
  PROVE  Standing' /\ unpaid[lastBigBlindSeat'] \cap R \subseteq {lastBigBlindSeat'}
<1>. DEFINE last == lastBigBlindSeat
            bb   == NextInRing(R, last)
<1>1. last \in Seats /\ last # NoSeat
  BY DEF Standing, NextHand
<1>2. bb \in R /\ \A q \in R : Distance(last, bb) <= Distance(last, q)
  BY <1>1, RingsType, NextInRingNearest
<1>3. /\ lastBigBlindSeat' = bb
      /\ unpaid' = [x \in Seats |-> IF x = bb THEN R \ {bb} ELSE (unpaid[x] \cap R) \ {bb}]
  BY <1>1, BigBlindIsNext DEF NextHand, DealTo
<1>. HIDE DEF bb
<1>4. bb \in Seats /\ bb # NoSeat /\ R \in SUBSET Seats
  BY <1>2, RingsType, NoSeatAssumption
<1>5. \A x \in Seats : unpaid[x] \in SUBSET Seats
                     /\ \A q \in unpaid[x] : Distance(last, q) < Distance(last, x)
  BY <1>1 DEF Standing
<1>6. unpaid' \in [Seats -> SUBSET Seats]
  BY <1>3, <1>4, <1>5
<1>7. ASSUME NEW x \in Seats, NEW q \in unpaid'[x]
      PROVE  Distance(bb, q) < Distance(bb, x)
  <2>1. CASE x = bb
    <3>1. q \in Seats /\ q # bb
      BY <1>3, <1>4, <1>7, <2>1
    <3>. QED
      BY <1>4, <2>1, <3>1, DistanceCases, MaxSeatsAssumption DEF Seats
  <2>2. CASE x # bb
    <3>1. q \in Seats /\ q \in R /\ q # bb /\ q \in unpaid[x]
      BY <1>3, <1>4, <1>5, <1>7, <2>2
    <3>2. Distance(last, q) < Distance(last, x) /\ Distance(last, bb) <= Distance(last, q)
      BY <1>2, <1>5, <3>1
    <3>. QED
      BY <1>1, <1>4, <3>1, <3>2, Between
  <2>. QED
    BY <2>1, <2>2
<1>8. unpaid[bb] \cap R \subseteq {bb}
  <2>. SUFFICES ASSUME NEW q \in unpaid[bb], q \in R PROVE FALSE
    OBVIOUS
  <2>1. Distance(last, q) < Distance(last, bb) /\ Distance(last, bb) <= Distance(last, q)
    BY <1>2, <1>4, <1>5
  <2>2. Distance(last, q) \in Nat /\ Distance(last, bb) \in Nat
    BY <1>1, <1>4, <1>5, DistanceType
  <2>. QED
    BY <2>1, <2>2
<1>9. Standing'
  BY <1>3, <1>4, <1>6, <1>7 DEF Standing
<1>. QED
  BY <1>3, <1>8, <1>9

LEMMA StandingInit == RotationInit => Standing
  BY NoSeatAssumption DEF RotationInit, Standing

LEMMA StandingNext == Standing /\ [RotationNext]_rotation => Standing'
<1>. SUFFICES ASSUME Standing, [RotationNext]_rotation PROVE Standing'
  OBVIOUS
<1>1. ASSUME NEW R \in Rings, NEW w \in R, FirstHand(R, w) PROVE Standing'
  <2>1. SeedFor(R, w) \in Seats
    BY SeedType, RingsType
  <2>2. AssignButtonAndBlinds(R, SeedFor(R, w)).bb \in R
    BY <2>1, BigBlindIsNext, NextInRingType, RingsType
  <2>. QED
    BY <1>1, <2>2, FirstDealStanding DEF FirstHand
<1>2. ASSUME NEW R \in Rings, FirstHandUnseeded(R) PROVE Standing'
  <2>1. AssignButtonAndBlinds(R, NoSeat).bb \in R
    BY RingsType, FirstOfType, NextInRingType DEF AssignButtonAndBlinds
  <2>. QED
    BY <1>2, <2>1, FirstDealStanding DEF FirstHandUnseeded
<1>3. ASSUME NEW R \in Rings, NextHand(R) PROVE Standing'
  BY <1>3, NextDealStanding
<1>4. CASE UNCHANGED rotation
  BY <1>4 DEF rotation, Standing
<1>. QED
  BY <1>1, <1>2, <1>3, <1>4 DEF RotationNext

\* "Never skips, never repeats": nobody posts the big blind twice while
\* another player dealt in throughout has not posted it, over any number of
\* hands and whoever comes and goes.
THEOREM BigBlindGoesRound == RotationSpec => BlindsGoRound
<1>1. RotationInit => Standing
  BY StandingInit
<1>2. Standing /\ [RotationNext]_rotation => Standing'
  BY StandingNext
<1>3. Standing /\ [RotationNext]_rotation
        => [unpaid[lastBigBlindSeat'] \cap dealtIn' \subseteq {lastBigBlindSeat'}]_rotation
  <2>. SUFFICES ASSUME Standing, RotationNext
                PROVE  unpaid[lastBigBlindSeat'] \cap dealtIn' \subseteq {lastBigBlindSeat'}
    OBVIOUS
  <2>1. ASSUME NEW R \in Rings, lastBigBlindSeat = NoSeat, NEW last, DealTo(R, last),
               AssignButtonAndBlinds(R, last).bb \in R
        PROVE  unpaid[lastBigBlindSeat'] = {}
    BY <2>1, RingsType DEF DealTo, Standing
  <2>2. ASSUME NEW R \in Rings, NEW w \in R, FirstHand(R, w)
        PROVE  unpaid[lastBigBlindSeat'] = {}
    <3>1. AssignButtonAndBlinds(R, SeedFor(R, w)).bb \in R
      BY SeedType, RingsType, BigBlindIsNext, NextInRingType
    <3>. QED
      BY <2>1, <2>2, <3>1 DEF FirstHand
  <2>3. ASSUME NEW R \in Rings, FirstHandUnseeded(R)
        PROVE  unpaid[lastBigBlindSeat'] = {}
    <3>1. AssignButtonAndBlinds(R, NoSeat).bb \in R
      BY RingsType, FirstOfType, NextInRingType DEF AssignButtonAndBlinds
    <3>. QED
      BY <2>1, <2>3, <3>1 DEF FirstHandUnseeded
  <2>4. ASSUME NEW R \in Rings, NextHand(R)
        PROVE  unpaid[lastBigBlindSeat'] \cap dealtIn' \subseteq {lastBigBlindSeat'}
    BY <2>4, NextDealStanding DEF NextHand, DealTo
  <2>. QED
    BY <2>2, <2>3, <2>4 DEF RotationNext
<1>. QED
  BY <1>1, <1>2, <1>3, PTL DEF RotationSpec, BlindsGoRound

\* Last hand's big blind, if dealt in, posts the small blind.
THEOREM BigBlindPaysSmallNext == RotationSpec => BigBlindThenSmall
<1>1. RotationInit => Standing
  BY StandingInit
<1>2. Standing /\ [RotationNext]_rotation => Standing'
  BY StandingNext
<1>3. Standing /\ [RotationNext]_rotation
        => [(lastBigBlindSeat \in dealtIn') => smallBlindSeat' = lastBigBlindSeat]_rotation
  <2>. SUFFICES ASSUME Standing, RotationNext, lastBigBlindSeat \in dealtIn'
                PROVE  smallBlindSeat' = lastBigBlindSeat
    OBVIOUS
  <2>1. PICK R \in Rings : dealtIn' = R
    BY DEF RotationNext, FirstHand, FirstHandUnseeded, NextHand, DealTo
  <2>2. lastBigBlindSeat \in R /\ R \in SUBSET Seats /\ lastBigBlindSeat # NoSeat
    BY <2>1, RingsType, NoSeatAssumption
  <2>3. smallBlindSeat' = AssignButtonAndBlinds(R, lastBigBlindSeat).sb
    BY <2>1, <2>2 DEF RotationNext, FirstHand, FirstHandUnseeded, NextHand, DealTo
  <2>. QED
    BY <2>2, <2>3, BigBlindIsNext, PrevOfNext, NextOfNext
<1>. QED
  BY <1>1, <1>2, <1>3, PTL DEF RotationSpec, BigBlindThenSmall

\* The winner of the opening draw has the button of the first hand.
THEOREM DrawWinnerDeals == RotationSpec => DrawWinnerHasButton
<1>1. ASSUME NEW R \in Rings, NEW w \in R, FirstHand(R, w)
      PROVE  buttonSeat' = w
  <2>1. R \in SUBSET Seats /\ w \in Seats /\ NextInRing(R, w) \in R
    BY RingsType, NextInRingType
  <2>2. buttonSeat' = AssignButtonAndBlinds(R, SeedFor(R, w)).button
    BY <1>1 DEF FirstHand, DealTo
  <2>3. CASE Cardinality(R) = 2
    BY <2>1, <2>2, <2>3, BigBlindIsNext, NextOfNext DEF SeedFor
  <2>4. CASE Cardinality(R) # 2
    <3>1. buttonSeat' = PrevInRing(R, PrevInRing(R, NextInRing(R, NextInRing(R, w))))
      BY <2>1, <2>2, <2>4, BigBlindIsNext DEF SeedFor
    <3>. QED
      BY <2>1, <3>1, PrevOfNext
  <2>. QED
    BY <2>3, <2>4
<1>2. [RotationNext]_rotation => [\A ring \in Rings, winner \in Seats :
        winner \in ring /\ FirstHand(ring, winner) => buttonSeat' = winner]_rotation
  BY <1>1
<1>. QED
  BY <1>2, PTL DEF RotationSpec, DrawWinnerHasButton
=============================================================================

------------------------- MODULE OpenSeatingProofs -------------------------
(***************************************************************************)
(* Theorems about OpenSeating, for any number of users and seats, any time *)
(* an offer stands and any number of requests and broadcasts under way.    *)
(*                                                                         *)
(* First comes what leaving the line does to it (Without): whoever leaves  *)
(* is gone, everybody else is still there, in the same order.  Nobody is   *)
(* in line twice, so that everybody has one place in it.                   *)
(***************************************************************************)
EXTENDS OpenSeating, SumsProofs

Dropping(list, u, kept, i) == IF list[i] = u THEN kept ELSE Append(kept, list[i])

\* g carries what the fold carries, for every set of positions in D.
Folding(g, list, u, D) ==
  g = [T \in D |-> IF T = {} THEN <<>>
                   ELSE Dropping(list, u, g[T \ {Max(T)}], Max(T))]

LEMMA WithoutIsRecursive ==
  ASSUME NEW list, NEW u
  PROVE  Without(list, u)
           = (CHOOSE g : Folding(g, list, u, SUBSET (DOMAIN list)))[DOMAIN list]
BY DEF Without, FoldLeft, MapThenFoldSet, Folding, Dropping

LEMMA MaxIs ==
  ASSUME NEW n \in Nat, NEW T \in SUBSET (1 .. n), T # {}
  PROVE  Max(T) \in T /\ \A k \in T : k <= Max(T)
<1>1. T \in SUBSET (0 .. n)
  OBVIOUS
<1>2. \E k \in T : \A m \in T : k >= m
  BY <1>1, GreatestOf
<1>. QED
  BY <1>2 DEF Max

LEMMA FoldingExists ==
  ASSUME NEW list, NEW u, NEW N \in Nat
  PROVE  \E g : Folding(g, list, u, SUBSET (1 .. N))
<1>. DEFINE S == 1 .. N
            D(n) == {T \in SUBSET S : Cardinality(T) <= n}
            Bad == {n \in Nat : ~ \E g : Folding(g, list, u, D(n))}
            Take(kept, T) == Dropping(list, u, kept, Max(T))
            Rest(T) == T \ {Max(T)}
<1>1. /\ \A T \in SUBSET S : IsFiniteSet(T) /\ Cardinality(T) \in Nat
      /\ \A T \in SUBSET S : T # {} => Max(T) \in T
  <2>1. IsFiniteSet(S)
    BY FS_Interval
  <2>2. \A T \in SUBSET S : T # {} => Max(T) \in T
    BY MaxIs
  <2>. HIDE DEF S
  <2>3. \A T \in SUBSET S : IsFiniteSet(T)
    BY <2>1, FS_Subset
  <2>. QED
    BY <2>2, <2>3, FS_CardinalityType
<1>. HIDE DEF S
<1>2. Bad = {}
  <2>. SUFFICES ASSUME Bad # {} PROVE FALSE
    OBVIOUS
  <2>1. PICK n \in Bad : \A m \in Bad : n <= m
    BY LeastOf
  <2>2. n \in Nat /\ ~ \E g : Folding(g, list, u, D(n))
    OBVIOUS
  <2>3. CASE n = 0
    <3>1. \A T \in D(0) : T = {}
      BY <1>1, FS_EmptySet
    <3>2. Folding([T \in D(0) |-> <<>>], list, u, D(0))
      BY <3>1 DEF Folding
    <3>. QED
      BY <2>2, <2>3, <3>2
  <2>4. CASE n # 0
    <3>1. n - 1 \in Nat /\ n - 1 \notin Bad
      <4>1. n - 1 \in Nat /\ ~(n <= n - 1)
        BY <2>2, <2>4
      <4>. HIDE DEF Bad
      <4>. QED
        BY <2>1, <4>1
    <3>2. PICK g : Folding(g, list, u, D(n - 1))
      BY <3>1
    <3>3. \A T \in D(n - 1) : g[T] = IF T = {} THEN <<>> ELSE Take(g[Rest(T)], T)
      BY <3>2 DEF Folding
    <3>4. ASSUME NEW T \in D(n), T # {} PROVE Rest(T) \in D(n - 1)
      <4>1. Cardinality(Rest(T)) = Cardinality(T) - 1
        BY <1>1, <3>4, FS_RemoveElement
      <4>. QED
        BY <1>1, <2>2, <4>1
    <3>5. \A T \in D(n - 1) : T \in D(n)
      BY <1>1, <2>2
    <3>. DEFINE h == [T \in D(n) |-> IF T = {} THEN <<>> ELSE Take(g[Rest(T)], T)]
    <3>. HIDE DEF Take, Rest
    <3>6. \A T \in D(n - 1) : h[T] = g[T]
      BY <3>3, <3>5
    <3>7. \A T \in D(n) : T # {} => h[Rest(T)] = g[Rest(T)]
      BY <3>4, <3>6
    <3>8. \A T \in D(n) : h[T] = IF T = {} THEN <<>> ELSE Take(h[Rest(T)], T)
      BY <3>7
    <3>9. h = [T \in D(n) |-> IF T = {} THEN <<>> ELSE Take(h[Rest(T)], T)]
      BY <3>8
    <3>10. Folding(h, list, u, D(n))
      BY <3>9 DEF Folding, Take, Rest
    <3>. QED
      BY <2>2, <3>10
  <2>. QED
    BY <2>3, <2>4
<1>3. D(Cardinality(S)) = SUBSET S
  <2>1. \A T \in SUBSET S : Cardinality(T) <= Cardinality(S)
    BY <1>1, FS_Subset
  <2>. QED
    BY <2>1
<1>4. Cardinality(S) \notin Bad /\ Cardinality(S) \in Nat
  BY <1>1, <1>2
<1>. QED
  BY <1>3, <1>4 DEF S

\* Of the first k in the list, kept has everybody but u, in their order.
KeptSoFar(list, u, k, kept) ==
  /\ kept \in Seq(Users)
  /\ \A i \in 1 .. Len(kept) : kept[i] # u
  /\ \A i \in 1 .. Len(kept) : \E p \in 1 .. k : list[p] = kept[i]
  /\ \A p \in 1 .. k : list[p] # u => \E i \in 1 .. Len(kept) : kept[i] = list[p]
  /\ \A i, j \in 1 .. Len(kept) :
       i < j => \E p, q \in 1 .. k : p < q /\ list[p] = kept[i] /\ list[q] = kept[j]

LEMMA NothingKept ==
  ASSUME NEW list, NEW u
  PROVE  KeptSoFar(list, u, 0, <<>>)
<1>1. <<>> \in Seq(Users) /\ Len(<<>>) = 0
  OBVIOUS
<1>. QED
  BY <1>1 DEF KeptSoFar

LEMMA KeepsOn ==
  ASSUME NEW list \in Seq(Users), NEW u, NEW k \in Nat, NEW j \in 1 .. Len(list), j = k + 1,
         NEW kept, KeptSoFar(list, u, k, kept)
  PROVE  KeptSoFar(list, u, j, Dropping(list, u, kept, j))
<1>1. list[j] \in Users /\ j \in Nat /\ k \in 0 .. j /\ kept \in Seq(Users) /\ Len(kept) \in Nat
  BY DEF KeptSoFar
<1>2. \A p \in 1 .. j : p \in 1 .. k \/ p = j
  BY <1>1
<1>3. \A p \in 1 .. k : p \in 1 .. j /\ p < j
  BY <1>1
<1>4. CASE list[j] = u
  <2>1. Dropping(list, u, kept, j) = kept
    BY <1>4 DEF Dropping
  <2>. QED
    BY <1>2, <1>3, <1>4, <2>1 DEF KeptSoFar
<1>5. CASE list[j] # u
  <2>. DEFINE m == Len(kept)
              n == m + 1
              new == Append(kept, list[j])
  <2>1. Dropping(list, u, kept, j) = new
    BY <1>5 DEF Dropping
  <2>2. /\ new \in Seq(Users) /\ Len(new) = n /\ new[n] = list[j]
        /\ \A i \in 1 .. m : new[i] = kept[i]
    BY <1>1
  <2>3. /\ \A i \in 1 .. n : i \in 1 .. m \/ i = n
        /\ \A i \in 1 .. m : i \in 1 .. n /\ i < n
        /\ n \in 1 .. n /\ n \in Nat
    BY <1>1
  <2>4. /\ \A i \in 1 .. m : kept[i] # u
        /\ \A i \in 1 .. m : \E p \in 1 .. k : list[p] = kept[i]
        /\ \A p \in 1 .. k : list[p] # u => \E i \in 1 .. m : kept[i] = list[p]
        /\ \A i, l \in 1 .. m :
             i < l => \E p, q \in 1 .. k : p < q /\ list[p] = kept[i] /\ list[q] = kept[l]
    BY DEF KeptSoFar
  <2>. HIDE DEF n, m, new
  <2>5. \A i \in 1 .. n : new[i] # u
    BY <1>5, <2>2, <2>3, <2>4
  <2>6. \A i \in 1 .. n : \E p \in 1 .. j : list[p] = new[i]
    <3>. SUFFICES ASSUME NEW i \in 1 .. n PROVE \E p \in 1 .. j : list[p] = new[i]
      OBVIOUS
    <3>1. CASE i = n
      <4>1. j \in 1 .. j
        BY <1>1
      <4>. QED
        BY <2>2, <3>1, <4>1
    <3>2. CASE i # n
      <4>1. i \in 1 .. m
        BY <2>3, <3>2
      <4>2. PICK p \in 1 .. k : list[p] = kept[i]
        BY <2>4, <4>1
      <4>. QED
        BY <1>3, <2>2, <4>1, <4>2
    <3>. QED
      BY <3>1, <3>2
  <2>7. \A p \in 1 .. j : list[p] # u => \E i \in 1 .. n : new[i] = list[p]
    <3>. SUFFICES ASSUME NEW p \in 1 .. j, list[p] # u PROVE \E i \in 1 .. n : new[i] = list[p]
      OBVIOUS
    <3>1. CASE p = j
      BY <2>2, <2>3, <3>1
    <3>2. CASE p # j
      <4>1. PICK i \in 1 .. m : kept[i] = list[p]
        BY <1>2, <2>4, <3>2
      <4>2. i \in 1 .. n /\ new[i] = kept[i]
        BY <2>2, <2>3
      <4>. QED
        BY <4>1, <4>2
    <3>. QED
      BY <3>1, <3>2
  <2>8. ASSUME NEW i \in 1 .. n, NEW l \in 1 .. n, i < l
        PROVE  \E p, q \in 1 .. j : p < q /\ list[p] = new[i] /\ list[q] = new[l]
    <3>1. i \in 1 .. m
      BY <2>3, <2>8
    <3>2. CASE l = n
      <4>1. PICK p \in 1 .. k : list[p] = kept[i]
        BY <2>4, <3>1
      <4>2. p \in 1 .. j /\ p < j /\ j \in 1 .. j
        BY <1>1, <1>3
      <4>. QED
        BY <2>2, <3>1, <3>2, <4>1, <4>2
    <3>3. CASE l # n
      <4>1. l \in 1 .. m
        BY <2>3, <3>3
      <4>2. PICK p \in 1 .. k, q \in 1 .. k : p < q /\ list[p] = kept[i] /\ list[q] = kept[l]
        BY <2>4, <2>8, <3>1, <4>1
      <4>. QED
        BY <1>3, <2>2, <3>1, <4>1, <4>2
    <3>. QED
      BY <3>2, <3>3
  <2>9. \A i, l \in 1 .. n :
          i < l => \E p, q \in 1 .. j : p < q /\ list[p] = new[i] /\ list[q] = new[l]
    BY <2>8
  <2>10. KeptSoFar(list, u, j, new)
    BY <2>2, <2>5, <2>6, <2>7, <2>9 DEF KeptSoFar
  <2>. QED
    BY <2>1, <2>10
<1>. QED
  BY <1>4, <1>5

LEMMA WithoutKeeps ==
  ASSUME NEW list \in Seq(Users), NEW u
  PROVE  KeptSoFar(list, u, Len(list), Without(list, u))
<1>. DEFINE n == Len(list)
            g == CHOOSE g : Folding(g, list, u, SUBSET (1 .. n))
            Bad == {k \in Nat : k <= n /\ ~KeptSoFar(list, u, k, g[1 .. k])}
<1>1. n \in Nat /\ DOMAIN list = 1 .. n
  OBVIOUS
<1>2. Folding(g, list, u, SUBSET (1 .. n))
  BY <1>1, FoldingExists
<1>3. Without(list, u) = g[1 .. n]
  BY <1>1, WithoutIsRecursive
<1>. HIDE DEF g
<1>4. ASSUME NEW T \in SUBSET (1 .. n)
      PROVE  g[T] = IF T = {} THEN <<>> ELSE Dropping(list, u, g[T \ {Max(T)}], Max(T))
  BY <1>2 DEF Folding
<1>5. Bad = {}
  <2>. SUFFICES ASSUME Bad # {} PROVE FALSE
    OBVIOUS
  <2>1. PICK j \in Bad : \A m \in Bad : j <= m
    BY LeastOf
  <2>2. j \in Nat /\ j <= n /\ ~KeptSoFar(list, u, j, g[1 .. j])
    OBVIOUS
  <2>. HIDE DEF n
  <2>3. CASE j = 0
    <3>1. 1 .. j = {} /\ 1 .. j \in SUBSET (1 .. n)
      BY <2>3
    <3>2. g[1 .. j] = <<>>
      BY <1>4, <3>1
    <3>. QED
      BY <2>2, <2>3, <3>2, NothingKept
  <2>4. CASE j # 0
    <3>. DEFINE k == j - 1
                T == 1 .. j
    <3>1. k \in Nat /\ k < j /\ j = k + 1 /\ k <= n /\ j \in 1 .. n
      BY <1>1, <2>2, <2>4
    <3>2. KeptSoFar(list, u, k, g[1 .. k])
      <4>1. k \notin Bad
        <5>. HIDE DEF Bad
        <5>. QED
          BY <2>1, <2>2, <3>1
      <4>. QED
        BY <3>1, <4>1
    <3>3. T \in SUBSET (1 .. n) /\ T # {} /\ j \in T
      <4>1. \A i \in T : i \in 1 .. n
        BY <1>1, <2>2
      <4>2. j \in T
        BY <2>2, <3>1
      <4>. QED
        BY <4>1, <4>2
    <3>4. Max(T) = j
      <4>1. Max(T) \in T /\ \A i \in T : i <= Max(T)
        <5>. HIDE DEF T
        <5>. QED
          BY <1>1, <3>3, MaxIs
      <4>. QED
        BY <2>2, <3>3, <4>1
    <3>5. T \ {j} = 1 .. k
      BY <2>2, <3>1
    <3>6. g[T] = Dropping(list, u, g[1 .. k], j)
      <4>. HIDE DEF T, k
      <4>. QED
        BY <1>4, <3>3, <3>4, <3>5
    <3>7. KeptSoFar(list, u, j, Dropping(list, u, g[1 .. k], j))
      <4>. DEFINE kept == g[1 .. k]
      <4>1. KeptSoFar(list, u, k, kept) /\ k \in Nat /\ j = k + 1 /\ j \in 1 .. Len(list)
        BY <3>1, <3>2 DEF n
      <4>. HIDE DEF kept, k
      <4>2. KeptSoFar(list, u, j, Dropping(list, u, kept, j))
        BY <4>1, KeepsOn
      <4>. QED
        BY <4>2 DEF kept
    <3>. QED
      BY <2>2, <3>6, <3>7
  <2>. QED
    BY <2>3, <2>4
<1>6. n \notin Bad
  BY <1>5
<1>. QED
  BY <1>1, <1>3, <1>6

-----------------------------------------------------------------------------
(* Places in line.                                                         *)

Line(list) == list \in Seq(Users) /\ IsInjective(list)

\* Nobody of the old line who is in the new one has been overtaken.
NotOvertaken(old, new) ==
  \A u \in ToSet(old) \cap ToSet(new) : \A v \in ToSet(new) :
    Place(new, v) < Place(new, u) => v \in ToSet(old) /\ Place(old, v) < Place(old, u)

LEMMA OnePlace ==
  ASSUME NEW list, Line(list), NEW u
  PROVE  /\ u \in ToSet(list) <=> \E i \in 1 .. Len(list) : list[i] = u
         /\ \A i \in 1 .. Len(list) : list[i] = u => Place(list, u) = i
<1>1. Len(list) \in Nat /\ DOMAIN list = 1 .. Len(list)
  BY DEF Line
<1>2. \A i, j \in 1 .. Len(list) : list[i] = list[j] => i = j
  BY <1>1 DEF Line, IsInjective
<1>. QED
  BY <1>1, <1>2 DEF ToSet, Place

\* Whoever leaves the line is gone; the others keep their places.
LEMMA WithoutLine ==
  ASSUME NEW list, Line(list), NEW u
  PROVE  /\ Line(Without(list, u))
         /\ ToSet(Without(list, u)) = ToSet(list) \ {u}
         /\ NotOvertaken(list, Without(list, u))
<1>. DEFINE new == Without(list, u)
            n == Len(list)
            m == Len(new)
<1>1. list \in Seq(Users) /\ n \in Nat /\ DOMAIN list = 1 .. n
  BY DEF Line
<1>2. KeptSoFar(list, u, n, new)
  BY <1>1, WithoutKeeps
<1>. HIDE DEF new
<1>3. /\ new \in Seq(Users) /\ m \in Nat /\ DOMAIN new = 1 .. m
      /\ \A i \in 1 .. m : new[i] # u
      /\ \A i \in 1 .. m : \E p \in 1 .. n : list[p] = new[i]
      /\ \A p \in 1 .. n : list[p] # u => \E i \in 1 .. m : new[i] = list[p]
      /\ \A i, j \in 1 .. m :
           i < j => \E p, q \in 1 .. n : p < q /\ list[p] = new[i] /\ list[q] = new[j]
  BY <1>2 DEF KeptSoFar
<1>4. \A p, q \in 1 .. n : list[p] = list[q] => p = q
  BY <1>1 DEF Line, IsInjective
<1>. HIDE DEF n, m
<1>5. ASSUME NEW i \in 1 .. m, NEW j \in 1 .. m, i < j PROVE new[i] # new[j]
  <2>1. PICK p \in 1 .. n, q \in 1 .. n : p < q /\ list[p] = new[i] /\ list[q] = new[j]
    BY <1>3, <1>5
  <2>2. p # q
    BY <1>1, <2>1
  <2>. QED
    BY <1>4, <2>1, <2>2
<1>6. Line(new)
  <2>1. ASSUME NEW i \in 1 .. m, NEW j \in 1 .. m, new[i] = new[j] PROVE i = j
    <3>1. i < j \/ j < i \/ i = j
      BY <1>3
    <3>. QED
      BY <1>5, <2>1, <3>1
  <2>. QED
    BY <1>3, <2>1 DEF Line, IsInjective
<1>7. ToSet(new) = ToSet(list) \ {u}
  <2>1. ASSUME NEW v \in ToSet(new) PROVE v \in ToSet(list) \ {u}
    <3>1. PICK i \in 1 .. m : new[i] = v
      BY <1>3 DEF ToSet
    <3>2. PICK p \in 1 .. n : list[p] = new[i]
      BY <1>3
    <3>3. new[i] # u
      BY <1>3
    <3>. QED
      BY <1>1, <3>1, <3>2, <3>3 DEF ToSet
  <2>2. ASSUME NEW v \in ToSet(list) \ {u} PROVE v \in ToSet(new)
    <3>1. PICK p \in 1 .. n : list[p] = v
      BY <1>1 DEF ToSet
    <3>2. PICK i \in 1 .. m : new[i] = list[p]
      BY <1>3, <2>2, <3>1
    <3>. QED
      BY <1>3, <3>1, <3>2 DEF ToSet
  <2>. QED
    BY <2>1, <2>2
<1>8. ASSUME NEW v \in ToSet(new), NEW w \in ToSet(new), Place(new, v) < Place(new, w)
      PROVE  Place(list, v) < Place(list, w)
  <2>1. PICK i \in 1 .. m, j \in 1 .. m : new[i] = v /\ new[j] = w
    BY <1>3 DEF ToSet
  <2>2. Place(new, v) = i /\ Place(new, w) = j
    BY <1>6, <2>1, OnePlace DEF m
  <2>3. PICK p \in 1 .. n, q \in 1 .. n : p < q /\ list[p] = v /\ list[q] = w
    <3>1. i < j
      BY <1>8, <2>2
    <3>2. \E p, q \in 1 .. n : p < q /\ list[p] = new[i] /\ list[q] = new[j]
      BY <1>3, <3>1
    <3>. QED
      BY <2>1, <3>2
  <2>4. Place(list, v) = p /\ Place(list, w) = q
    BY <2>3, OnePlace DEF n
  <2>. QED
    BY <2>3, <2>4
<1>9. NotOvertaken(list, new)
  BY <1>7, <1>8 DEF NotOvertaken
<1>. QED
  BY <1>6, <1>7, <1>9 DEF new

\* Whoever joins does so at the end.
LEMMA JoinedLine ==
  ASSUME NEW list, Line(list), NEW u \in Users, u \notin ToSet(list)
  PROVE  /\ Line(Append(list, u))
         /\ ToSet(Append(list, u)) = ToSet(list) \cup {u}
         /\ NotOvertaken(list, Append(list, u))
<1>. DEFINE new == Append(list, u)
            n == Len(list)
            m == n + 1
<1>1. list \in Seq(Users) /\ n \in Nat /\ DOMAIN list = 1 .. n
  BY DEF Line
<1>2. /\ new \in Seq(Users) /\ Len(new) = m /\ DOMAIN new = 1 .. m
      /\ new[m] = u /\ \A i \in 1 .. n : new[i] = list[i]
  BY <1>1
<1>3. /\ m \in 1 .. m /\ \A i \in 1 .. m : i \in 1 .. n \/ i = m
      /\ \A i \in 1 .. n : i \in 1 .. m /\ i < m
  BY <1>1
<1>4. \A i \in 1 .. n : list[i] # u
  BY <1>1 DEF ToSet
<1>5. \A p, q \in 1 .. n : list[p] = list[q] => p = q
  BY <1>1 DEF Line, IsInjective
<1>. HIDE DEF new, n, m
<1>6. \A i, j \in 1 .. m : new[i] = new[j] => i = j
  BY <1>2, <1>3, <1>4, <1>5
<1>7. Line(new)
  BY <1>2, <1>6 DEF Line, IsInjective
<1>8. ToSet(new) = ToSet(list) \cup {u}
  BY <1>1, <1>2, <1>3 DEF ToSet
<1>9. ASSUME NEW w \in ToSet(list), NEW v \in ToSet(new), Place(new, v) < Place(new, w)
      PROVE  v \in ToSet(list) /\ Place(list, v) < Place(list, w)
  <2>1. PICK j \in 1 .. n : list[j] = w
    BY <1>1 DEF ToSet
  <2>2. PICK i \in 1 .. m : new[i] = v
    BY <1>2 DEF ToSet
  <2>3. Place(new, w) = j /\ Place(new, v) = i /\ Place(list, w) = j
    <3>1. j \in 1 .. m /\ new[j] = w
      BY <1>2, <1>3, <2>1
    <3>2. Place(new, w) = j /\ Place(new, v) = i
      BY <1>2, <1>7, <2>2, <3>1, OnePlace
    <3>3. Place(list, w) = j
      BY <2>1, OnePlace DEF n
    <3>. QED
      BY <3>2, <3>3
  <2>4. i \in 1 .. n /\ list[i] = v
    <3>1. i < j /\ j < m
      BY <1>3, <1>9, <2>1, <2>3
    <3>2. i # m
      BY <1>1, <3>1 DEF m
    <3>. QED
      BY <1>2, <1>3, <2>2, <3>2
  <2>5. v \in ToSet(list) /\ Place(list, v) = i
    BY <2>4, OnePlace DEF n
  <2>. QED
    BY <1>9, <2>3, <2>5
<1>10. NotOvertaken(list, new)
  BY <1>9 DEF NotOvertaken
<1>. QED
  BY <1>7, <1>8, <1>10 DEF new

LEMMA SameLine ==
  ASSUME NEW list, Line(list)
  PROVE  NotOvertaken(list, list)
BY DEF NotOvertaken

LEMMA NotOvertakenTwice ==
  ASSUME NEW a, NEW b, NEW c, NotOvertaken(a, b), NotOvertaken(b, c),
         ToSet(a) \cap ToSet(c) \subseteq ToSet(b)
  PROVE  NotOvertaken(a, c)
BY DEF NotOvertaken

-----------------------------------------------------------------------------
(* The line and its offers.                                                *)

SeatsType == seat \in [Seats -> Users \cup {Free, Taken, Folded}]

Offers == [to : Users, left : Nat] \cup {NoOffer}

\* Whoever is seated at `at` does not wait.
OnlyTheUnseatedWait(at, list) == \A u \in ToSet(list) : \A s \in Seats : at[s] # u

TimerIsOfOffer == timer = IF offer = NoOffer THEN Off ELSE offer.left

IInv ==
  /\ SeatsType
  /\ Line(waitlist)
  /\ OnlyTheUnseatedWait(seat, waitlist)
  /\ offer \in Offers
  /\ TimerIsOfOffer
  /\ asks \in SUBSET [who : Users, seat : Seats]

LEMMA IInvImplies == IInv => LineIsSound
BY DEF IInv, Line, OnlyTheUnseatedWait, TimerIsOfOffer, LineIsSound, Seated

\* What syncSeatOffer makes of a line.
Synced(at, list) ==
  /\ Line(waitlist')
  /\ OnlyTheUnseatedWait(at, waitlist')
  /\ offer' \in Offers
  /\ TimerIsOfOffer'
  /\ ToSet(waitlist') \subseteq ToSet(list)
  /\ NotOvertaken(list, waitlist')
  /\ \A u \in ToSet(list) \ ToSet(waitlist') : MissedOffer(u)

LEMMA SyncSeatOfferSyncs ==
  ASSUME NEW at, NEW list, NEW armed,
         Line(list), OnlyTheUnseatedWait(at, list), offer \in Offers, TimerIsOfOffer,
         armed \in {timer, Off}, SyncSeatOffer(at, list, armed)
  PROVE  Synced(at, list)
<1>. DEFINE stands == Stands(at, list)
            expired == stands /\ offer.left = 0
            line == IF expired THEN Missed(list) ELSE list
            kept == stands /\ ~expired
            next == IF kept THEN offer
                    ELSE IF line # <<>> /\ FreeSeats(at) # {}
                    THEN [to |-> Head(line), left |-> OfferTicks]
                    ELSE NoOffer
<1>1. waitlist' = line /\ offer' = next /\ timer' = Rearmed(kept, next, armed)
  BY DEF SyncSeatOffer
<1>2. stands => offer # NoOffer /\ offer \in [to : Users, left : Nat]
  BY DEF Stands, Offers
<1>3. Line(line) /\ ToSet(line) \subseteq ToSet(list) /\ NotOvertaken(list, line)
  <2>1. CASE expired
    BY <2>1, WithoutLine DEF Missed
  <2>2. CASE ~expired
    BY <2>2, SameLine
  <2>. QED
    BY <2>1, <2>2
<1>4. \A u \in ToSet(list) \ ToSet(line) : MissedOffer(u)
  <2>. SUFFICES ASSUME NEW u \in ToSet(list), u \notin ToSet(line) PROVE MissedOffer(u)
    OBVIOUS
  <2>1. expired
    OBVIOUS
  <2>2. ToSet(line) = ToSet(list) \ {offer.to}
    BY <2>1, WithoutLine DEF Missed
  <2>. QED
    BY <1>2, <2>1, <2>2 DEF MissedOffer
<1>. HIDE DEF line, stands
<1>5. next \in Offers
  <2>1. line # <<>> => Head(line) \in Users
    BY <1>3 DEF Line
  <2>. QED
    BY <2>1, SeatingAssumption DEF Offers
<1>6. Rearmed(kept, next, armed) = IF next = NoOffer THEN Off ELSE next.left
  BY <1>2, SeatingAssumption DEF Rearmed, TimerIsOfOffer
<1>. HIDE DEF next, kept
<1>7. TimerIsOfOffer'
  BY <1>1, <1>6 DEF TimerIsOfOffer
<1>8. OnlyTheUnseatedWait(at, line)
  BY <1>3 DEF OnlyTheUnseatedWait
<1>. QED
  BY <1>1, <1>3, <1>4, <1>5, <1>7, <1>8 DEF Synced

\* The broadcast at the end of a handler that leaves the line `list`.
Told(list) ==
  /\ Line(waitlist')
  /\ OnlyTheUnseatedWait(seat', waitlist')
  /\ offer' \in Offers
  /\ TimerIsOfOffer'
  /\ ToSet(waitlist') \subseteq ToSet(list)
  /\ NotOvertaken(list, waitlist')
  /\ \A u \in ToSet(list) \ ToSet(waitlist') : MissedOffer(u)

LEMMA TellNowTells ==
  ASSUME IInv, NEW list, Line(list), OnlyTheUnseatedWait(seat', list), TellNow(list)
  PROVE  Told(list)
<1>1. offer \in Offers /\ TimerIsOfOffer
  BY DEF IInv
<1>2. SyncSeatOffer(seat', list, timer)
  BY DEF TellNow
<1>3. Synced(seat', list)
  BY <1>1, <1>2, SyncSeatOfferSyncs
<1>. QED
  BY <1>3 DEF Synced, Told

LEMMA TellLaterTells ==
  ASSUME IInv, NEW list, Line(list), OnlyTheUnseatedWait(seat', list), TellLater(list)
  PROVE  Told(list)
<1>1. waitlist' = list /\ UNCHANGED <<offer, timer>>
  BY DEF TellLater, Later
<1>. QED
  BY <1>1, SameLine DEF Told, IInv, TimerIsOfOffer

\* What a step does to the line: who is no longer in it has sat down, given it
\* up or missed their offer; nobody overtakes.
KeepsPlaces ==
  \A u \in ToSet(waitlist) :
    \/ u \notin ToSet(waitlist') /\ (SatDown(u) \/ GaveUp(u) \/ MissedOffer(u))
    \/ /\ u \in ToSet(waitlist')
       /\ \A v \in ToSet(waitlist') :
            Place(waitlist', v) < Place(waitlist', u) =>
              v \in ToSet(waitlist) /\ Place(waitlist, v) < Place(waitlist, u)

LEMMA ToldKeeps ==
  ASSUME IInv, NEW list, Told(list), SeatsType', asks' \in SUBSET [who : Users, seat : Seats],
         NotOvertaken(waitlist, list),
         \A u \in ToSet(waitlist) \ ToSet(list) : SatDown(u) \/ GaveUp(u)
  PROVE  IInv' /\ KeepsPlaces
<1>1. IInv'
  BY DEF Told, IInv, OnlyTheUnseatedWait
<1>2. NotOvertaken(waitlist, waitlist')
  BY NotOvertakenTwice DEF Told
<1>3. \A u \in ToSet(waitlist) \ ToSet(waitlist') : SatDown(u) \/ GaveUp(u) \/ MissedOffer(u)
  BY DEF Told
<1>. QED
  BY <1>1, <1>2, <1>3 DEF KeepsPlaces, NotOvertaken

-----------------------------------------------------------------------------
LEMMA IInvInit == Init => IInv
<1>. SUFFICES ASSUME Init PROVE IInv
  OBVIOUS
<1>1. <<>> \in Seq(Users) /\ IsInjective(<<>>) /\ ToSet(<<>>) = {}
  BY DEF IsInjective, ToSet
<1>. QED
  BY <1>1 DEF Init, IInv, SeatsType, Line, OnlyTheUnseatedWait, Offers, TimerIsOfOffer

LEMMA IInvNext == IInv /\ Next => IInv' /\ KeepsPlaces
<1>. SUFFICES ASSUME IInv, Next PROVE IInv' /\ KeepsPlaces
  OBVIOUS
<1>1. /\ Line(waitlist) /\ NotOvertaken(waitlist, waitlist)
      /\ OnlyTheUnseatedWait(seat, waitlist) /\ SeatsType
      /\ offer \in Offers /\ TimerIsOfOffer
      /\ asks \in SUBSET [who : Users, seat : Seats]
  BY SameLine DEF IInv
\* Somebody else comes to a seat, or it becomes free.
<1>2. ASSUME NEW s \in Seats, NEW to \in {Free, Taken, Folded},
             seat' = [seat EXCEPT ![s] = to]
      PROVE  SeatsType' /\ OnlyTheUnseatedWait(seat', waitlist)
  <2>1. ToSet(waitlist) \subseteq Users
    BY <1>1 DEF Line, ToSet
  <2>. QED
    BY <1>1, <1>2, <2>1, SeatingAssumption DEF SeatsType, OnlyTheUnseatedWait
<1>3. ASSUME NEW u \in Users, JoinWaitlist(u) PROVE IInv' /\ KeepsPlaces
  <2>. DEFINE list == IF Waits(u) THEN waitlist ELSE Append(waitlist, u)
  <2>1. UNCHANGED <<seat, asks>> /\ TellNow(list) /\ ~Seated(u)
    BY <1>3 DEF JoinWaitlist
  <2>2. /\ Line(list) /\ NotOvertaken(waitlist, list)
        /\ ToSet(waitlist) \subseteq ToSet(list) /\ ToSet(list) \subseteq ToSet(waitlist) \cup {u}
    <3>1. CASE Waits(u)
      BY <1>1, <3>1
    <3>2. CASE ~Waits(u)
      BY <1>1, <3>2, JoinedLine DEF Waits
    <3>. QED
      BY <3>1, <3>2
  <2>. HIDE DEF list
  <2>3. OnlyTheUnseatedWait(seat', list)
    BY <1>1, <2>1, <2>2 DEF OnlyTheUnseatedWait, Seated
  <2>4. Told(list)
    BY <2>1, <2>2, <2>3, TellNowTells
  <2>5. SeatsType' /\ asks' \in SUBSET [who : Users, seat : Seats]
    BY <1>1, <2>1 DEF SeatsType
  <2>. QED
    BY <2>2, <2>4, <2>5, ToldKeeps
<1>4. ASSUME NEW u \in Users, LeaveWaitlist(u) PROVE IInv' /\ KeepsPlaces
  <2>. DEFINE list == Without(waitlist, u)
  <2>1. UNCHANGED <<seat, asks>> /\ TellNow(list)
    BY <1>4 DEF LeaveWaitlist, OffTheList
  <2>2. Line(list) /\ NotOvertaken(waitlist, list) /\ ToSet(list) = ToSet(waitlist) \ {u}
    BY <1>1, WithoutLine
  <2>3. GaveUp(u)
    BY <1>4 DEF GaveUp
  <2>. HIDE DEF list
  <2>4. OnlyTheUnseatedWait(seat', list)
    BY <1>1, <2>1, <2>2 DEF OnlyTheUnseatedWait
  <2>5. Told(list)
    BY <2>1, <2>2, <2>4, TellNowTells
  <2>6. SeatsType' /\ asks' \in SUBSET [who : Users, seat : Seats]
    BY <1>1, <2>1 DEF SeatsType
  <2>. QED
    BY <2>2, <2>3, <2>5, <2>6, ToldKeeps
<1>5. ASSUME NEW u \in Users, NEW s \in Seats, AskSeat(u, s) PROVE IInv' /\ KeepsPlaces
  <2>1. /\ UNCHANGED <<seat, waitlist, offer, timer>>
        /\ asks' \in SUBSET [who : Users, seat : Seats]
    BY <1>1, <1>5 DEF AskSeat
  <2>. QED
    BY <1>1, <2>1 DEF IInv, SeatsType, TimerIsOfOffer, KeepsPlaces
<1>6. ASSUME NEW a \in asks, Sit(a) PROVE IInv' /\ KeepsPlaces
  <2>1. a.who \in Users /\ a.seat \in Seats /\ asks' \in SUBSET [who : Users, seat : Seats]
    BY <1>1, <1>6 DEF Sit
  <2>2. CASE seat[a.seat] # Free
    <3>1. UNCHANGED <<seat, waitlist, offer, timer>>
      BY <1>6, <2>2 DEF Sit
    <3>. QED
      BY <1>1, <2>1, <3>1 DEF IInv, SeatsType, TimerIsOfOffer, KeepsPlaces
  <2>3. CASE seat[a.seat] = Free
    <3>. DEFINE u == a.who
                list == Without(waitlist, u)
    <3>1. /\ seat' = [seat EXCEPT ![a.seat] = u]
          /\ TellNow(list) \/ TellLater(list)
      BY <1>6, <2>3 DEF Sit, OffTheList
    <3>2. Line(list) /\ NotOvertaken(waitlist, list) /\ ToSet(list) = ToSet(waitlist) \ {u}
      BY <1>1, WithoutLine
    <3>3. SeatsType' /\ SatDown(u)
      BY <1>1, <2>1, <2>3, <3>1, SeatingAssumption DEF SeatsType, SatDown
    <3>. HIDE DEF list
    <3>4. OnlyTheUnseatedWait(seat', list)
      BY <1>1, <2>1, <3>1, <3>2 DEF OnlyTheUnseatedWait, SeatsType
    <3>5. Told(list)
      BY <3>1, <3>2, <3>4, TellNowTells, TellLaterTells
    <3>. QED
      BY <2>1, <3>2, <3>3, <3>5, ToldKeeps
  <2>. QED
    BY <2>2, <2>3
<1>7. ASSUME NEW s \in Seats, Leave(s) PROVE IInv' /\ KeepsPlaces
  <2>1. SeatsType' /\ OnlyTheUnseatedWait(seat', waitlist)
    BY <1>2, <1>7 DEF Leave
  <2>2. Told(waitlist)
    BY <1>1, <1>7, <2>1, TellLaterTells DEF Leave
  <2>3. asks' \in SUBSET [who : Users, seat : Seats]
    BY <1>1, <1>7 DEF Leave
  <2>. QED
    BY <1>1, <2>1, <2>2, <2>3, ToldKeeps
<1>8. ASSUME NEW s \in Seats, Owner(s) PROVE IInv' /\ KeepsPlaces
  <2>1. SeatsType' /\ OnlyTheUnseatedWait(seat', waitlist)
    BY <1>2, <1>8 DEF Owner, OwnerFills, OwnerFrees
  <2>2. Told(waitlist)
    BY <1>1, <1>8, <2>1, TellNowTells DEF Owner
  <2>3. asks' \in SUBSET [who : Users, seat : Seats]
    BY <1>1, <1>8 DEF Owner
  <2>. QED
    BY <1>1, <2>1, <2>2, <2>3, ToldKeeps
<1>9. CASE HandOver
  <2>1. seat' = [s \in Seats |-> IF seat[s] = Folded THEN Free ELSE seat[s]]
    BY <1>9 DEF HandOver
  <2>2. SeatsType' /\ OnlyTheUnseatedWait(seat', waitlist)
    <3>1. ToSet(waitlist) \subseteq Users
      BY <1>1 DEF Line, ToSet
    <3>. QED
      BY <1>1, <2>1, <3>1, SeatingAssumption DEF SeatsType, OnlyTheUnseatedWait
  <2>3. Told(waitlist)
    BY <1>1, <1>9, <2>2, TellNowTells DEF HandOver
  <2>4. asks' \in SUBSET [who : Users, seat : Seats]
    BY <1>1, <1>9 DEF HandOver
  <2>. QED
    BY <1>1, <2>2, <2>3, <2>4, ToldKeeps
<1>10. ASSUME UNCHANGED <<seat, asks>>, NEW armed \in {timer, Off},
              SyncSeatOffer(seat, waitlist, armed)
       PROVE  IInv' /\ KeepsPlaces
  <2>1. Synced(seat, waitlist)
    BY <1>1, <1>10, SyncSeatOfferSyncs
  <2>2. Told(waitlist)
    BY <1>10, <2>1 DEF Synced, Told
  <2>3. SeatsType' /\ asks' \in SUBSET [who : Users, seat : Seats]
    BY <1>1, <1>10 DEF SeatsType
  <2>. QED
    BY <1>1, <2>2, <2>3, ToldKeeps
<1>11. CASE Tell
  BY <1>10, <1>11 DEF Tell
<1>12. CASE TimerFires
  BY <1>10, <1>12 DEF TimerFires
<1>13. CASE Tick
  <2>1. offer \in [to : Users, left : Nat] /\ offer.left > 0 /\ offer # NoOffer
    BY <1>1, <1>13 DEF Tick, Offers
  <2>2. /\ offer' \in [to : Users, left : Nat] /\ offer'.left = offer.left - 1
        /\ timer' = timer - 1 /\ UNCHANGED <<seat, waitlist, asks>>
    BY <1>13, <2>1 DEF Tick
  <2>3. offer' \in Offers /\ offer' # NoOffer
    BY <2>2, SeatingAssumption DEF Offers
  <2>4. TimerIsOfOffer'
    BY <1>1, <2>1, <2>2, <2>3 DEF TimerIsOfOffer
  <2>. QED
    BY <1>1, <2>2, <2>3, <2>4 DEF IInv, SeatsType, KeepsPlaces
<1>. QED
  BY <1>3, <1>4, <1>5, <1>6, <1>7, <1>8, <1>9, <1>11, <1>12, <1>13 DEF Next

LEMMA Inductive == Spec => []IInv
<1>1. IInv /\ [Next]_vars => IInv'
  <2>1. IInv /\ UNCHANGED vars => IInv'
    BY DEF vars, IInv, SeatsType, TimerIsOfOffer
  <2>. QED
    BY <2>1, IInvNext
<1>. QED
  BY <1>1, IInvInit, PTL DEF Spec

\* Nobody is in line twice or while they have a seat, and the timer that runs
\* is that of the offer that stands, however joining, leaving, sitting down,
\* late answers of the store and timers interleave.
THEOREM TheLineIsSound == Spec => []LineIsSound
  BY Inductive, IInvImplies, PTL

\* A place in line is lost only by sitting down, giving it up or letting an
\* offer run its full time, and nobody is overtaken.
THEOREM NobodyOvertakes == Spec => PlaceKept
<1>1. IInv /\ [Next]_vars =>
        [\A u \in ToSet(waitlist) :
           \/ u \notin ToSet(waitlist') /\ (SatDown(u) \/ GaveUp(u) \/ MissedOffer(u))
           \/ /\ u \in ToSet(waitlist')
              /\ \A v \in ToSet(waitlist') :
                   Place(waitlist', v) < Place(waitlist', u) =>
                     v \in ToSet(waitlist) /\ Place(waitlist, v) < Place(waitlist, u)]_vars
  BY IInvNext DEF KeepsPlaces
<1>. QED
  BY <1>1, Inductive, PTL DEF Spec, PlaceKept
=============================================================================

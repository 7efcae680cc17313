----------------------------- MODULE SumsProofs -----------------------------
(***************************************************************************)
(* Sums over finite sets of any size: what SumFunctionOnSet of the         *)
(* community modules adds up.  The library's induction theorems cannot be  *)
(* instantiated here, so every induction looks for the smallest set, or    *)
(* the smallest number, for which the claim would be false.                *)
(***************************************************************************)
EXTENDS Integers, FiniteSets, Functions, FiniteSetTheorems, WellFoundedInduction, TLAPS

Sum(f, S) == SumFunctionOnSet(f, S)

-----------------------------------------------------------------------------
\* Smallest numbers and smallest sets.
LEMMA LeastOf ==
  ASSUME NEW T \in SUBSET Nat, T # {}
  PROVE  \E n \in T : \A m \in T : n <= m
<1>. DEFINE R == OpToRel(<, Nat)
<1>1. IsWellFoundedOn(R, Nat)
  BY NatLessThanWellFounded
<1>2. \A x, y \in Nat : y < x => <<y, x>> \in R
  BY DEF OpToRel
<1>. HIDE DEF R
<1>3. PICK n \in T : \A m \in T : <<m, n>> \notin R
  BY <1>1, WFMin
<1>4. ASSUME NEW m \in T PROVE n <= m
  <2>1. n \in Nat /\ m \in Nat /\ <<m, n>> \notin R
    BY <1>3
  <2>. QED
    BY <2>1, <1>2
<1>. QED
  BY <1>4

LEMMA GreatestOf ==
  ASSUME NEW N \in Nat, NEW T \in SUBSET (0 .. N), T # {}
  PROVE  \E n \in T : \A m \in T : n >= m
<1>. DEFINE U == {k \in 0 .. N : N - k \in T}
<1>1. PICK t \in T : TRUE
  OBVIOUS
<1>2. N - t \in U
  BY <1>1
<1>3. PICK k \in U : \A l \in U : k <= l
  <2>1. U \in SUBSET Nat /\ U # {}
    BY <1>2
  <2>. HIDE DEF U
  <2>. QED
    BY <2>1, LeastOf
<1>4. N - k \in T
  BY <1>3
<1>5. ASSUME NEW m \in T PROVE N - k >= m
  <2>1. N - m \in U
    OBVIOUS
  <2>2. k <= N - m /\ k \in 0 .. N /\ m \in 0 .. N
    BY <1>3, <2>1
  <2>. QED
    BY <2>2
<1>. QED
  BY <1>4, <1>5

LEMMA SmallestSet ==
  ASSUME NEW S, IsFiniteSet(S), NEW T \in SUBSET (SUBSET S), T # {}
  PROVE  \E m \in T : \A x \in m : m \ {x} \notin T
<1>. DEFINE R == StrictSubsetOrdering(S)
<1>1. IsWellFoundedOn(R, SUBSET S)
  BY FS_StrictSubsetOrderingWellFounded, FS_FiniteSubsetsOfFinite
<1>2. \A x, y \in SUBSET S : (x \subseteq y /\ x # y) => <<x, y>> \in R
  BY DEF StrictSubsetOrdering
<1>. HIDE DEF R
<1>3. PICK m \in T : \A x \in T : <<x, m>> \notin R
  BY <1>1, WFMin
<1>4. ASSUME NEW x \in m, m \ {x} \in T PROVE FALSE
  <2>1. m \in SUBSET S /\ m \ {x} \in SUBSET S /\ m \ {x} # m /\ m \ {x} \subseteq m
    BY <1>4
  <2>2. <<m \ {x}, m>> \in R
    BY <1>2, <2>1
  <2>. QED
    BY <1>3, <1>4, <2>2
<1>. QED
  BY <1>4

-----------------------------------------------------------------------------
\* The recursion behind a sum.
AnyOf(s) == CHOOSE x \in s : TRUE
Adds(g, f, D) == g = [s \in D |-> IF s = {} THEN 0 ELSE f[AnyOf(s)] + g[s \ {AnyOf(s)}]]

Agree(g, h, s) == g[s] = h[s]

LEMMA AnyOfIsIn == \A s : s # {} => AnyOf(s) \in s
BY DEF AnyOf

LEMMA SumIsRecursive ==
  ASSUME NEW f, NEW S
  PROVE  Sum(f, S) = (CHOOSE g : Adds(g, f, SUBSET S))[S]
BY DEF Sum, SumFunctionOnSet, FoldFunctionOnSet, MapThenFoldSet, Adds, AnyOf

\* There is a function the recursion describes: of the sets of at most n
\* elements, from that of those of less.
LEMMA SumExists ==
  ASSUME NEW f, NEW S, IsFiniteSet(S)
  PROVE  \E g : Adds(g, f, SUBSET S)
<1>. DEFINE D(n) == {s \in SUBSET S : Cardinality(s) <= n}
            Bad == {n \in Nat : ~ \E g : Adds(g, f, D(n))}
<1>1. \A s \in SUBSET S : IsFiniteSet(s) /\ Cardinality(s) \in Nat
  BY FS_Subset, FS_CardinalityType
<1>2. Bad = {}
  <2>. SUFFICES ASSUME Bad # {} PROVE FALSE
    OBVIOUS
  <2>1. PICK n \in Bad : \A m \in Bad : n <= m
    BY LeastOf
  <2>2. n \in Nat /\ ~ \E g : Adds(g, f, D(n))
    OBVIOUS
  <2>3. CASE n = 0
    <3>1. \A s \in D(0) : s = {}
      BY <1>1, FS_EmptySet
    <3>2. Adds([s \in D(0) |-> 0], f, D(0))
      BY <3>1 DEF Adds
    <3>. QED
      BY <2>2, <2>3, <3>2
  <2>4. CASE n # 0
    <3>1. n - 1 \in Nat /\ n - 1 \notin Bad
      <4>1. n - 1 \in Nat /\ ~(n <= n - 1)
        BY <2>2, <2>4
      <4>. HIDE DEF Bad
      <4>. QED
        BY <2>1, <4>1
    <3>2. PICK g : Adds(g, f, D(n - 1))
      BY <3>1
    <3>. DEFINE h == [s \in D(n) |-> IF s = {} THEN 0 ELSE f[AnyOf(s)] + g[s \ {AnyOf(s)}]]
    <3>3. ASSUME NEW s \in D(n - 1) PROVE s \in D(n) /\ h[s] = g[s]
      <4>1. s \in D(n)
        BY <1>1, <2>2
      <4>2. g[s] = IF s = {} THEN 0 ELSE f[AnyOf(s)] + g[s \ {AnyOf(s)}]
        BY <3>2 DEF Adds
      <4>. QED
        BY <4>1, <4>2
    <3>4. ASSUME NEW s \in D(n), s # {} PROVE h[s \ {AnyOf(s)}] = g[s \ {AnyOf(s)}]
      <4>1. AnyOf(s) \in s
        BY <3>4, AnyOfIsIn
      <4>2. Cardinality(s \ {AnyOf(s)}) = Cardinality(s) - 1
        BY <1>1, <4>1, FS_RemoveElement
      <4>3. s \ {AnyOf(s)} \in D(n - 1)
        BY <1>1, <2>2, <4>2
      <4>. QED
        BY <3>3, <4>3
    <3>. DEFINE next == [s \in D(n) |-> IF s = {} THEN 0 ELSE f[AnyOf(s)] + h[s \ {AnyOf(s)}]]
    <3>5. \A s \in D(n) : h[s] = next[s]
      BY <3>4
    <3>6. Adds(h, f, D(n))
      BY <3>5 DEF Adds
    <3>. QED
      BY <2>2, <3>6
  <2>. QED
    BY <2>3, <2>4
<1>3. D(Cardinality(S)) = SUBSET S
  <2>1. \A s \in SUBSET S : Cardinality(s) <= Cardinality(S)
    BY FS_Subset
  <2>. QED
    BY <2>1
<1>4. Cardinality(S) \notin Bad /\ Cardinality(S) \in Nat
  BY <1>2, FS_CardinalityType
<1>. QED
  BY <1>3, <1>4

\* Two functions of that kind agree where both are told what to be.
LEMMA SumIsUnique ==
  ASSUME NEW f, NEW S, IsFiniteSet(S), NEW R \in SUBSET S,
         NEW g, Adds(g, f, SUBSET S), NEW h, Adds(h, f, SUBSET R)
  PROVE  Agree(g, h, R)
<1>. DEFINE Bad == {T \in SUBSET R : g[T] # h[T]}
<1>1. Bad = {}
  <2>. SUFFICES ASSUME Bad # {} PROVE FALSE
    OBVIOUS
  <2>1. PICK m \in Bad : \A x \in m : m \ {x} \notin Bad
    <3>. HIDE DEF Bad
    <3>1. Bad \in SUBSET (SUBSET S)
      BY DEF Bad
    <3>. QED
      BY <3>1, SmallestSet
  <2>2. m \in SUBSET S /\ m \in SUBSET R /\ g[m] # h[m]
    OBVIOUS
  <2>3. /\ g[m] = IF m = {} THEN 0 ELSE f[AnyOf(m)] + g[m \ {AnyOf(m)}]
        /\ h[m] = IF m = {} THEN 0 ELSE f[AnyOf(m)] + h[m \ {AnyOf(m)}]
    BY <2>2 DEF Adds
  <2>4. m # {} => g[m \ {AnyOf(m)}] = h[m \ {AnyOf(m)}]
    BY <2>1, <2>2, AnyOfIsIn
  <2>. QED
    BY <2>2, <2>3, <2>4
<1>. QED
  BY <1>1 DEF Agree

\* A sum over a set takes one of its elements, and the sum over the others.
LEMMA SumUnfolds ==
  ASSUME NEW f, NEW S, IsFiniteSet(S)
  PROVE  Sum(f, S) = IF S = {} THEN 0 ELSE f[AnyOf(S)] + Sum(f, S \ {AnyOf(S)})
<1>. DEFINE R == S \ {AnyOf(S)}
            g == CHOOSE g : Adds(g, f, SUBSET S)
            h == CHOOSE h : Adds(h, f, SUBSET R)
<1>1. IsFiniteSet(R)
  BY FS_RemoveElement
<1>2. Adds(g, f, SUBSET S) /\ Adds(h, f, SUBSET R)
  BY <1>1, SumExists
<1>3. Sum(f, S) = g[S] /\ Sum(f, R) = h[R]
  BY SumIsRecursive
<1>4. g[S] = IF S = {} THEN 0 ELSE f[AnyOf(S)] + g[R]
  <2>. HIDE DEF g
  <2>. QED
    BY <1>2 DEF Adds
<1>5. g[R] = h[R]
  <2>. HIDE DEF g, h
  <2>1. R \in SUBSET S
    OBVIOUS
  <2>. HIDE DEF R
  <2>2. Agree(g, h, R)
    BY <1>2, <2>1, SumIsUnique
  <2>. QED
    BY <2>2 DEF Agree
<1>. QED
  BY <1>3, <1>4, <1>5

LEMMA SumOfNone == \A f : Sum(f, {}) = 0
BY SumUnfolds, FS_EmptySet

-----------------------------------------------------------------------------
\* What every induction over a sum needs: if a claim fails for some part of S,
\* it fails for one from which nothing can be left out.
LEMMA SumIsInt ==
  ASSUME NEW S, IsFiniteSet(S), NEW f, \A x \in S : f[x] \in Int
  PROVE  Sum(f, S) \in Int
<1>. DEFINE Bad == {T \in SUBSET S : Sum(f, T) \notin Int}
<1>1. Bad = {}
  <2>. SUFFICES ASSUME Bad # {} PROVE FALSE
    OBVIOUS
  <2>1. PICK m \in Bad : \A x \in m : m \ {x} \notin Bad
    <3>1. Bad \in SUBSET (SUBSET S)
      OBVIOUS
    <3>. HIDE DEF Bad
    <3>. QED
      BY <3>1, SmallestSet
  <2>2. m \in SUBSET S /\ IsFiniteSet(m) /\ Sum(f, m) \notin Int
    BY FS_Subset
  <2>3. Sum(f, m) = IF m = {} THEN 0 ELSE f[AnyOf(m)] + Sum(f, m \ {AnyOf(m)})
    BY <2>2, SumUnfolds
  <2>4. m # {} => f[AnyOf(m)] \in Int /\ Sum(f, m \ {AnyOf(m)}) \in Int
    BY <2>1, <2>2, AnyOfIsIn
  <2>. QED
    BY <2>2, <2>3, <2>4
<1>. QED
  BY <1>1

\* ... and that of amounts is an amount.
LEMMA SumIsNat ==
  ASSUME NEW S, IsFiniteSet(S), NEW f, \A x \in S : f[x] \in Nat
  PROVE  Sum(f, S) \in Nat
<1>. DEFINE Bad == {T \in SUBSET S : Sum(f, T) \notin Nat}
<1>1. Bad = {}
  <2>. SUFFICES ASSUME Bad # {} PROVE FALSE
    OBVIOUS
  <2>1. PICK m \in Bad : \A x \in m : m \ {x} \notin Bad
    <3>1. Bad \in SUBSET (SUBSET S)
      OBVIOUS
    <3>. HIDE DEF Bad
    <3>. QED
      BY <3>1, SmallestSet
  <2>2. m \in SUBSET S /\ IsFiniteSet(m) /\ Sum(f, m) \notin Nat
    BY FS_Subset
  <2>3. Sum(f, m) = IF m = {} THEN 0 ELSE f[AnyOf(m)] + Sum(f, m \ {AnyOf(m)})
    BY <2>2, SumUnfolds
  <2>4. m # {} => f[AnyOf(m)] \in Nat /\ Sum(f, m \ {AnyOf(m)}) \in Nat
    BY <2>1, <2>2, AnyOfIsIn
  <2>. QED
    BY <2>2, <2>3, <2>4
<1>. QED
  BY <1>1

\* Only what is added up counts.
LEMMA SumsAgree ==
  ASSUME NEW S, IsFiniteSet(S), NEW f, NEW g, \A x \in S : f[x] = g[x]
  PROVE  Sum(f, S) = Sum(g, S)
<1>. DEFINE Bad == {T \in SUBSET S : Sum(f, T) # Sum(g, T)}
<1>1. Bad = {}
  <2>. SUFFICES ASSUME Bad # {} PROVE FALSE
    OBVIOUS
  <2>1. PICK m \in Bad : \A x \in m : m \ {x} \notin Bad
    <3>1. Bad \in SUBSET (SUBSET S)
      OBVIOUS
    <3>. HIDE DEF Bad
    <3>. QED
      BY <3>1, SmallestSet
  <2>2. m \in SUBSET S /\ IsFiniteSet(m) /\ Sum(f, m) # Sum(g, m)
    BY FS_Subset
  <2>3. /\ Sum(f, m) = IF m = {} THEN 0 ELSE f[AnyOf(m)] + Sum(f, m \ {AnyOf(m)})
        /\ Sum(g, m) = IF m = {} THEN 0 ELSE g[AnyOf(m)] + Sum(g, m \ {AnyOf(m)})
    BY <2>2, SumUnfolds
  <2>4. m # {} => /\ f[AnyOf(m)] = g[AnyOf(m)]
                 /\ Sum(f, m \ {AnyOf(m)}) = Sum(g, m \ {AnyOf(m)})
    BY <2>1, <2>2, AnyOfIsIn
  <2>. QED
    BY <2>2, <2>3, <2>4
<1>. QED
  BY <1>1

\* It does not matter which element is taken first.
LEMMA SumTakes ==
  ASSUME NEW S, IsFiniteSet(S), NEW f, \A x \in S : f[x] \in Int, NEW a \in S
  PROVE  Sum(f, S) = f[a] + Sum(f, S \ {a})
<1>. DEFINE Bad == {T \in SUBSET S : \E x \in T : Sum(f, T) # f[x] + Sum(f, T \ {x})}
<1>1. Bad = {}
  <2>. SUFFICES ASSUME Bad # {} PROVE FALSE
    OBVIOUS
  <2>1. PICK m \in Bad : \A x \in m : m \ {x} \notin Bad
    <3>1. Bad \in SUBSET (SUBSET S)
      OBVIOUS
    <3>. HIDE DEF Bad
    <3>. QED
      BY <3>1, SmallestSet
  <2>2. m \in SUBSET S /\ \E x \in m : Sum(f, m) # f[x] + Sum(f, m \ {x})
    OBVIOUS
  <2>3. PICK x \in m : Sum(f, m) # f[x] + Sum(f, m \ {x})
    BY <2>2
  <2>. DEFINE y == AnyOf(m)
  <2>4. y \in m
    BY <2>3, AnyOfIsIn
  <2>5. \A T \in SUBSET S : IsFiniteSet(T)
    BY FS_Subset
  <2>6. Sum(f, m) = f[y] + Sum(f, m \ {y})
    BY <2>2, <2>3, <2>5, SumUnfolds
  <2>7. x # y
    BY <2>3, <2>6
  <2>8. m \ {x} \notin Bad /\ m \ {y} \notin Bad
    BY <2>1, <2>4
  <2>9. /\ Sum(f, m \ {y}) = f[x] + Sum(f, (m \ {y}) \ {x})
        /\ Sum(f, m \ {x}) = f[y] + Sum(f, (m \ {x}) \ {y})
    BY <2>2, <2>4, <2>7, <2>8
  <2>10. (m \ {y}) \ {x} = (m \ {x}) \ {y}
    OBVIOUS
  <2>11. f[x] \in Int /\ f[y] \in Int /\ Sum(f, (m \ {x}) \ {y}) \in Int
    <3>1. (m \ {x}) \ {y} \in SUBSET S
      BY <2>2
    <3>2. IsFiniteSet((m \ {x}) \ {y}) /\ \A z \in (m \ {x}) \ {y} : f[z] \in Int
      BY <2>5, <3>1
    <3>. QED
      BY <2>2, <2>4, <3>2, SumIsInt
  <2>. DEFINE rest == Sum(f, (m \ {x}) \ {y})
  <2>12. Sum(f, m) = f[y] + (f[x] + rest) /\ Sum(f, m \ {x}) = f[y] + rest
    BY <2>6, <2>9, <2>10
  <2>13. f[x] \in Int /\ f[y] \in Int /\ rest \in Int
    BY <2>11
  <2>. HIDE DEF rest, y, Bad
  <2>14. f[y] + (f[x] + rest) = f[x] + (f[y] + rest)
    BY <2>13
  <2>. QED
    BY <2>3, <2>12, <2>14
<1>2. S \notin Bad
  BY <1>1
<1>. QED
  BY <1>2

\* Subsets of a finite set, and what their sums are.
LEMMA PartialSums ==
  ASSUME NEW S, IsFiniteSet(S), NEW f, \A x \in S : f[x] \in Int, NEW T \in SUBSET S
  PROVE  IsFiniteSet(T) /\ Sum(f, T) \in Int
<1>1. IsFiniteSet(T)
  BY FS_Subset
<1>. QED
  BY <1>1, SumIsInt

LEMMA SumOfZeros ==
  ASSUME NEW S, IsFiniteSet(S), NEW f, \A x \in S : f[x] = 0
  PROVE  Sum(f, S) = 0
<1>. DEFINE Bad == {T \in SUBSET S : Sum(f, T) # 0}
<1>1. Bad = {}
  <2>. SUFFICES ASSUME Bad # {} PROVE FALSE
    OBVIOUS
  <2>1. PICK m \in Bad : \A x \in m : m \ {x} \notin Bad
    <3>1. Bad \in SUBSET (SUBSET S)
      OBVIOUS
    <3>. HIDE DEF Bad
    <3>. QED
      BY <3>1, SmallestSet
  <2>2. m \in SUBSET S /\ IsFiniteSet(m) /\ Sum(f, m) # 0
    BY FS_Subset
  <2>3. Sum(f, m) = IF m = {} THEN 0 ELSE f[AnyOf(m)] + Sum(f, m \ {AnyOf(m)})
    BY <2>2, SumUnfolds
  <2>4. m # {} => f[AnyOf(m)] = 0 /\ Sum(f, m \ {AnyOf(m)}) = 0
    BY <2>1, <2>2, AnyOfIsIn
  <2>. QED
    BY <2>2, <2>3, <2>4
<1>. QED
  BY <1>1

\* One addend is another one.
LEMMA SumChangesAt ==
  ASSUME NEW S, IsFiniteSet(S), NEW f, \A x \in S : f[x] \in Int,
         NEW g, \A x \in S : g[x] \in Int, NEW a \in S, \A x \in S \ {a} : g[x] = f[x]
  PROVE  Sum(g, S) = Sum(f, S) + (g[a] - f[a])
<1>. DEFINE R == S \ {a}
            rest == Sum(f, R)
<1>1. R \in SUBSET S
  OBVIOUS
<1>2. IsFiniteSet(R) /\ rest \in Int
  BY <1>1, PartialSums
<1>3. Sum(g, R) = rest
  <2>1. \A x \in R : g[x] = f[x]
    OBVIOUS
  <2>. HIDE DEF R
  <2>. QED
    BY <1>2, <2>1, SumsAgree
<1>4. Sum(f, S) = f[a] + rest /\ Sum(g, S) = g[a] + Sum(g, R)
  BY SumTakes
<1>5. f[a] \in Int /\ g[a] \in Int
  OBVIOUS
<1>. HIDE DEF rest, R
<1>. QED
  BY <1>2, <1>3, <1>4, <1>5

\* Two addends change.
LEMMA SumChangesAtTwo ==
  ASSUME NEW S, IsFiniteSet(S), NEW f, \A x \in S : f[x] \in Int,
         NEW g, \A x \in S : g[x] \in Int, NEW a \in S, NEW b \in S, a # b,
         \A x \in S \ {a, b} : g[x] = f[x]
  PROVE  Sum(g, S) = Sum(f, S) + (g[a] - f[a]) + (g[b] - f[b])
<1>. DEFINE h == [x \in S |-> IF x = a THEN g[a] ELSE f[x]]
<1>1. /\ \A x \in S : h[x] \in Int
      /\ \A x \in S \ {a} : h[x] = f[x]
      /\ \A x \in S \ {b} : g[x] = h[x]
      /\ h[a] = g[a] /\ h[b] = f[b]
  OBVIOUS
<1>. HIDE DEF h
<1>2. Sum(h, S) = Sum(f, S) + (h[a] - f[a])
  BY <1>1, SumChangesAt
<1>3. Sum(g, S) = Sum(h, S) + (g[b] - h[b])
  BY <1>1, SumChangesAt
<1>. QED
  BY <1>1, <1>2, <1>3

LEMMA SumOfTheOnly ==
  ASSUME NEW S, IsFiniteSet(S), NEW f, NEW a \in S, f[a] \in Int, \A x \in S \ {a} : f[x] = 0
  PROVE  Sum(f, S) = f[a]
<1>. DEFINE R == S \ {a}
<1>1. \A x \in S : f[x] \in Int
  OBVIOUS
<1>2. Sum(f, S) = f[a] + Sum(f, R)
  BY <1>1, SumTakes
<1>3. Sum(f, R) = 0
  <2>1. IsFiniteSet(R) /\ \A x \in R : f[x] = 0
    BY FS_RemoveElement
  <2>. HIDE DEF R
  <2>. QED
    BY <2>1, SumOfZeros
<1>. QED
  BY <1>2, <1>3

LEMMA SumsAdd ==
  ASSUME NEW S, IsFiniteSet(S), NEW f, \A x \in S : f[x] \in Int,
         NEW g, \A x \in S : g[x] \in Int, NEW h, \A x \in S : h[x] = f[x] + g[x]
  PROVE  Sum(h, S) = Sum(f, S) + Sum(g, S)
<1>. DEFINE Bad == {T \in SUBSET S : Sum(h, T) # Sum(f, T) + Sum(g, T)}
<1>1. Bad = {}
  <2>. SUFFICES ASSUME Bad # {} PROVE FALSE
    OBVIOUS
  <2>1. PICK m \in Bad : \A x \in m : m \ {x} \notin Bad
    <3>1. Bad \in SUBSET (SUBSET S)
      OBVIOUS
    <3>. HIDE DEF Bad
    <3>. QED
      BY <3>1, SmallestSet
  <2>. DEFINE y == AnyOf(m)
              R == m \ {y}
  <2>2. m \in SUBSET S /\ IsFiniteSet(m) /\ Sum(h, m) # Sum(f, m) + Sum(g, m)
    BY FS_Subset
  <2>3. CASE m = {}
    BY <2>2, <2>3, SumOfNone
  <2>4. CASE m # {}
    <3>1. y \in m /\ y \in S /\ R \in SUBSET S /\ R \notin Bad
      BY <2>1, <2>2, <2>4, AnyOfIsIn
    <3>2. /\ Sum(f, m) = f[y] + Sum(f, R)
          /\ Sum(g, m) = g[y] + Sum(g, R)
          /\ Sum(h, m) = h[y] + Sum(h, R)
      BY <2>2, <2>4, SumUnfolds
    <3>3. Sum(h, R) = Sum(f, R) + Sum(g, R)
      BY <3>1
    <3>4. Sum(f, R) \in Int /\ Sum(g, R) \in Int
      BY <3>1, PartialSums
    <3>5. f[y] \in Int /\ g[y] \in Int /\ h[y] = f[y] + g[y]
      BY <3>1
    <3>. DEFINE sf == Sum(f, R)
                sg == Sum(g, R)
    <3>6. Sum(h, m) = (f[y] + g[y]) + (sf + sg) /\ Sum(f, m) + Sum(g, m) = (f[y] + sf) + (g[y] + sg)
      BY <3>2, <3>3, <3>5
    <3>7. sf \in Int /\ sg \in Int
      BY <3>4
    <3>. HIDE DEF sf, sg, y, Bad
    <3>8. (f[y] + g[y]) + (sf + sg) = (f[y] + sf) + (g[y] + sg)
      BY <3>5, <3>7
    <3>. QED
      BY <2>2, <3>6, <3>8
  <2>. QED
    BY <2>3, <2>4
<1>. QED
  BY <1>1

\* What is zero can be left out.
LEMMA SumOfPart ==
  ASSUME NEW S, IsFiniteSet(S), NEW f, \A x \in S : f[x] \in Int, NEW P \in SUBSET S,
         NEW g, \A x \in S : g[x] = IF x \in P THEN f[x] ELSE 0
  PROVE  Sum(f, P) = Sum(g, S)
<1>. DEFINE Bad == {T \in SUBSET S : Sum(f, T \cap P) # Sum(g, T)}
<1>1. Bad = {}
  <2>. SUFFICES ASSUME Bad # {} PROVE FALSE
    OBVIOUS
  <2>1. PICK m \in Bad : \A x \in m : m \ {x} \notin Bad
    <3>1. Bad \in SUBSET (SUBSET S)
      OBVIOUS
    <3>. HIDE DEF Bad
    <3>. QED
      BY <3>1, SmallestSet
  <2>. DEFINE y == AnyOf(m)
              R == m \ {y}
  <2>2. m \in SUBSET S /\ IsFiniteSet(m) /\ Sum(f, m \cap P) # Sum(g, m)
    BY FS_Subset
  <2>3. CASE m = {}
    <3>1. m \cap P = {}
      BY <2>3
    <3>. QED
      BY <2>2, <2>3, <3>1, SumOfNone
  <2>4. CASE m # {}
    <3>1. y \in m /\ y \in S /\ R \in SUBSET S /\ R \notin Bad
      BY <2>1, <2>2, <2>4, AnyOfIsIn
    <3>2. Sum(g, m) = g[y] + Sum(g, R) /\ Sum(f, R \cap P) = Sum(g, R)
      BY <2>2, <2>4, <3>1, SumUnfolds
    <3>3. m \cap P \in SUBSET S /\ R \cap P \in SUBSET S
      BY <2>2
    <3>4. IsFiniteSet(m \cap P) /\ Sum(f, R \cap P) \in Int
      <4>. HIDE DEF R
      <4>. QED
        BY <3>3, PartialSums
    <3>5. CASE y \in P
      <4>1. y \in m \cap P /\ (m \cap P) \ {y} = R \cap P
        BY <3>1, <3>5
      <4>2. \A x \in m \cap P : f[x] \in Int
        BY <2>2
      <4>. HIDE DEF y, R
      <4>3. Sum(f, m \cap P) = f[y] + Sum(f, (m \cap P) \ {y})
        BY <3>4, <4>1, <4>2, SumTakes
      <4>. QED
        BY <2>2, <3>1, <3>2, <3>5, <4>1, <4>3
    <3>6. CASE y \notin P
      <4>1. m \cap P = R \cap P
        BY <3>6
      <4>2. g[y] = 0
        BY <3>1, <3>6
      <4>. HIDE DEF y, R
      <4>. QED
        BY <2>2, <3>2, <3>4, <4>1, <4>2
    <3>. QED
      BY <3>5, <3>6
  <2>. QED
    BY <2>3, <2>4
<1>2. S \cap P = P /\ S \in SUBSET S
  OBVIOUS
<1>. QED
  BY <1>1, <1>2

\* Added up group by group, it is the same.
GroupSums(f, T, who, K) == [k \in K |-> Sum(f, {s \in T : who[s] = k})]

LEMMA SumOfGroups ==
  ASSUME NEW S, IsFiniteSet(S), NEW f, \A x \in S : f[x] \in Int,
         NEW K, IsFiniteSet(K), NEW who, \A x \in S : who[x] \in K
  PROVE  Sum(GroupSums(f, S, who, K), K) = Sum(f, S)
<1>. DEFINE Bad == {T \in SUBSET S : Sum(GroupSums(f, T, who, K), K) # Sum(f, T)}
<1>1. Bad = {}
  <2>. SUFFICES ASSUME Bad # {} PROVE FALSE
    OBVIOUS
  <2>1. PICK m \in Bad : \A x \in m : m \ {x} \notin Bad
    <3>1. Bad \in SUBSET (SUBSET S)
      OBVIOUS
    <3>. HIDE DEF Bad
    <3>. QED
      BY <3>1, SmallestSet
  <2>2. m \in SUBSET S /\ IsFiniteSet(m) /\ Sum(GroupSums(f, m, who, K), K) # Sum(f, m)
    BY FS_Subset
  <2>3. CASE m = {}
    <3>1. \A k \in K : GroupSums(f, m, who, K)[k] = 0
      BY <2>3, SumOfNone DEF GroupSums
    <3>2. Sum(GroupSums(f, m, who, K), K) = 0
      BY <3>1, SumOfZeros
    <3>. QED
      BY <2>2, <2>3, <3>2, SumOfNone
  <2>4. CASE m # {}
    <3>. DEFINE y == AnyOf(m)
                R == m \ {y}
                G(T) == GroupSums(f, T, who, K)
                Of(T, k) == {s \in T : who[s] = k}
    <3>1. y \in m /\ y \in S /\ R \in SUBSET S /\ R \notin Bad /\ who[y] \in K /\ f[y] \in Int
      BY <2>1, <2>2, <2>4, AnyOfIsIn
    <3>2. \A T \in SUBSET S, k \in K : G(T)[k] = Sum(f, Of(T, k)) /\ G(T)[k] \in Int
      <4>1. \A T \in SUBSET S, k \in K : Of(T, k) \in SUBSET S
        OBVIOUS
      <4>2. \A T \in SUBSET S, k \in K : G(T)[k] = Sum(f, Of(T, k))
        BY DEF GroupSums
      <4>. HIDE DEF Of, G
      <4>. QED
        BY <4>1, <4>2, PartialSums
    <3>3. ASSUME NEW k \in K \ {who[y]} PROVE G(m)[k] = G(R)[k]
      <4>1. Of(m, k) = Of(R, k)
        OBVIOUS
      <4>2. k \in K
        OBVIOUS
      <4>. HIDE DEF Of, G, R
      <4>. QED
        BY <2>2, <3>1, <3>2, <4>1, <4>2
    <3>4. G(m)[who[y]] = f[y] + G(R)[who[y]]
      <4>1. y \in Of(m, who[y]) /\ Of(m, who[y]) \ {y} = Of(R, who[y]) /\ Of(m, who[y]) \in SUBSET S
        BY <2>2, <3>1
      <4>2. IsFiniteSet(Of(m, who[y])) /\ \A x \in Of(m, who[y]) : f[x] \in Int
        <5>. HIDE DEF Of, R, y
        <5>. QED
          BY <4>1, PartialSums
      <4>. HIDE DEF Of, R, y, G
      <4>3. Sum(f, Of(m, who[y])) = f[y] + Sum(f, Of(m, who[y]) \ {y})
        BY <4>1, <4>2, SumTakes
      <4>. QED
        BY <2>2, <3>1, <3>2, <4>1, <4>3
    <3>5. Sum(G(m), K) = Sum(G(R), K) + (G(m)[who[y]] - G(R)[who[y]])
      <4>. DEFINE a == who[y]  gm == G(m)  gr == G(R)
      <4>1. /\ \A k \in K : gm[k] \in Int
            /\ \A k \in K : gr[k] \in Int
            /\ a \in K
            /\ \A k \in K \ {a} : gm[k] = gr[k]
        BY <2>2, <3>1, <3>2, <3>3
      <4>. HIDE DEF gm, gr, a
      <4>2. Sum(gm, K) = Sum(gr, K) + (gm[a] - gr[a])
        BY <4>1, SumChangesAt
      <4>. QED
        BY <4>2 DEF gm, gr, a
    <3>6. Sum(G(R), K) = Sum(f, R)
      BY <3>1
    <3>7. Sum(f, m) = f[y] + Sum(f, R)
      BY <2>2, <2>4, SumUnfolds
    <3>8. G(R)[who[y]] \in Int /\ Sum(f, R) \in Int
      BY <3>1, <3>2, PartialSums
    <3>. DEFINE a == G(R)[who[y]]  b == Sum(f, R)
    <3>9. Sum(G(m), K) = b + ((f[y] + a) - a) /\ Sum(f, m) = f[y] + b
      BY <3>4, <3>5, <3>6, <3>7
    <3>10. a \in Int /\ b \in Int /\ f[y] \in Int /\ Sum(G(m), K) # Sum(f, m)
      BY <2>2, <3>1, <3>8
    <3>. HIDE DEF a, b, y, G
    <3>. QED
      BY <3>9, <3>10
  <2>. QED
    BY <2>3, <2>4
<1>. QED
  BY <1>1

-----------------------------------------------------------------------------
\* Terms that are moved along keep their sum.
LEMMA SumOfShifted ==
  ASSUME NEW n \in Nat, NEW f, \A i \in 0 .. n - 1 : f[i] \in Int,
         NEW g, \A i \in 1 .. n : g[i] = f[i - 1]
  PROVE  Sum(g, 1 .. n) = Sum(f, 0 .. n - 1)
<1>. DEFINE Same(k) == Sum(g, 1 .. k) = Sum(f, 0 .. k - 1)
            Bad == {k \in 0 .. n : ~Same(k)}
<1>1. Bad = {}
  <2>. SUFFICES ASSUME Bad # {} PROVE FALSE
    OBVIOUS
  <2>1. PICK k \in Bad : \A m \in Bad : k <= m
    <3>1. Bad \in SUBSET Nat
      OBVIOUS
    <3>. HIDE DEF Bad
    <3>. QED
      BY <3>1, LeastOf
  <2>2. k \in 0 .. n /\ k \in Nat /\ ~Same(k)
    OBVIOUS
  <2>3. CASE k = 0
    <3>1. 1 .. k = {} /\ 0 .. k - 1 = {}
      BY <2>3
    <3>. QED
      BY <2>2, <3>1, SumOfNone
  <2>4. CASE k # 0
    <3>. DEFINE j == k - 1
                G == 1 .. k
                F == 0 .. j
    <3>1. j \in 0 .. n /\ ~(k <= j) /\ j \in Nat
      BY <2>2, <2>4
    <3>2. Sum(g, 1 .. j) = Sum(f, 0 .. j - 1)
      BY <2>1, <3>1
    <3>3. k \in G /\ G \ {k} = 1 .. j
      BY <2>2, <2>4
    <3>4. j \in F /\ F \ {j} = 0 .. j - 1
      BY <3>1
    <3>5. IsFiniteSet(G) /\ IsFiniteSet(F)
      BY <2>2, <3>1, FS_Interval
    <3>6. \A i \in F : f[i] \in Int
      BY <2>2
    <3>7. \A i \in G : i - 1 \in F /\ g[i] = f[i - 1]
      BY <2>2
    <3>8. \A i \in G : g[i] \in Int
      BY <3>6, <3>7
    <3>9. g[k] = f[j]
      BY <3>3, <3>7
    <3>10. Same(k) <=> Sum(g, G) = Sum(f, F)
      OBVIOUS
    <3>. HIDE DEF G, F, j, Same
    <3>11. Sum(g, G) = g[k] + Sum(g, G \ {k})
      BY <3>3, <3>5, <3>8, SumTakes
    <3>12. Sum(f, F) = f[j] + Sum(f, F \ {j})
      BY <3>4, <3>5, <3>6, SumTakes
    <3>13. Sum(g, G \ {k}) = Sum(f, F \ {j})
      BY <3>2, <3>3, <3>4
    <3>. QED
      BY <2>2, <3>9, <3>10, <3>11, <3>12, <3>13
  <2>. QED
    BY <2>3, <2>4
<1>2. n \in 0 .. n
  OBVIOUS
<1>. HIDE DEF Same
<1>3. Same(n)
  BY <1>1, <1>2
<1>. QED
  BY <1>3 DEF Same

\* Two rows of terms, one after the other, come to what they come to apart.
Appended(h, f, m, g, n) ==
  /\ m \in Nat /\ n \in Nat
  /\ \A i \in 1 .. m : f[i] \in Int
  /\ \A i \in 1 .. n : g[i] \in Int
  /\ \A i \in 1 .. (m + n) : h[i] = IF i <= m THEN f[i] ELSE g[i - m]

LEMMA SumOfAppended ==
  ASSUME NEW h, NEW f, NEW m, NEW g, NEW n, Appended(h, f, m, g, n)
  PROVE  Sum(h, 1 .. (m + n)) = Sum(f, 1 .. m) + Sum(g, 1 .. n)
<1>0. /\ m \in Nat /\ n \in Nat
      /\ \A i \in 1 .. m : f[i] \in Int
      /\ \A i \in 1 .. n : g[i] \in Int
      /\ \A i \in 1 .. (m + n) : h[i] = IF i <= m THEN f[i] ELSE g[i - m]
  BY DEF Appended
<1>. DEFINE Same(k) == Sum(h, 1 .. (m + k)) = Sum(f, 1 .. m) + Sum(g, 1 .. k)
            Bad == {k \in 0 .. n : ~Same(k)}
<1>1. /\ \A i \in 1 .. m : h[i] = f[i]
      /\ \A i \in 1 .. n : h[m + i] = g[i]
  <2>1. ASSUME NEW i \in 1 .. m PROVE h[i] = f[i]
    BY <1>0, i \in 1 .. (m + n), i <= m
  <2>2. ASSUME NEW i \in 1 .. n PROVE h[m + i] = g[i]
    <3>1. m + i \in 1 .. (m + n) /\ ~(m + i <= m) /\ (m + i) - m = i
      BY <1>0
    <3>. QED
      BY <1>0, <3>1
  <2>. QED
    BY <2>1, <2>2
<1>2. Sum(f, 1 .. m) \in Int /\ IsFiniteSet(1 .. m)
  <2>1. IsFiniteSet(1 .. m)
    BY <1>0, FS_Interval
  <2>. QED
    BY <1>0, <2>1, SumIsInt
<1>3. Bad = {}
  <2>. SUFFICES ASSUME Bad # {} PROVE FALSE
    OBVIOUS
  <2>1. PICK k \in Bad : \A j \in Bad : k <= j
    <3>1. Bad \in SUBSET Nat
      BY <1>0
    <3>. HIDE DEF Bad
    <3>. QED
      BY <3>1, LeastOf
  <2>2. k \in 0 .. n /\ k \in Nat /\ ~Same(k)
    BY <1>0
  <2>3. CASE k = 0
    <3>1. 1 .. k = {} /\ 1 .. (m + k) = 1 .. m
      BY <1>0, <2>3
    <3>2. Sum(h, 1 .. m) = Sum(f, 1 .. m)
      BY <1>2, <1>1, SumsAgree
    <3>3. Sum(g, 1 .. k) = 0
      BY <3>1, SumOfNone
    <3>4. Sum(h, 1 .. (m + k)) = Sum(h, 1 .. m)
      BY <3>1
    <3>5. Sum(h, 1 .. (m + k)) = Sum(f, 1 .. m) + Sum(g, 1 .. k)
      BY <1>2, <3>4, <3>2, <3>3
    <3>. QED
      BY <2>2, <3>5
  <2>4. CASE k # 0
    <3>. DEFINE j == k - 1
                l == m + k
                G == 1 .. k
                H == 1 .. l
    <3>1. j \in 0 .. n /\ ~(k <= j) /\ j \in Nat /\ l \in Nat
      BY <1>0, <2>2, <2>4
    <3>2. Same(j)
      BY <2>1, <3>1
    <3>3. k \in G /\ G \ {k} = 1 .. j
      BY <1>0, <2>2, <2>4
    <3>4. l \in H /\ H \ {l} = 1 .. (m + j)
      <4>1. l \in H /\ l = (m + j) + 1 /\ m + j \in Nat
        BY <1>0, <2>2, <2>4
      <4>. HIDE DEF l, j
      <4>. QED
        BY <4>1
    <3>5. IsFiniteSet(G) /\ IsFiniteSet(H)
      BY <1>0, <2>2, <3>1, FS_Interval
    <3>6. \A i \in G : g[i] \in Int /\ h[m + i] = g[i]
      <4>1. \A i \in G : i \in 1 .. n
        BY <1>0, <2>2
      <4>. QED
        BY <1>0, <1>1, <4>1
    <3>7. ASSUME NEW i \in H PROVE h[i] \in Int
      <4>1. CASE i <= m
        <5>1. i \in 1 .. m
          BY <1>0, <4>1
        <5>. QED
          BY <1>0, <1>1, <5>1
      <4>2. CASE ~(i <= m)
        <5>. DEFINE o == i - m
        <5>1. o \in G /\ m + o = i
          BY <1>0, <2>2, <4>2
        <5>. HIDE DEF o
        <5>. QED
          BY <3>6, <5>1
      <4>. QED
        BY <4>1, <4>2
    <3>8. \A i \in H : h[i] \in Int
      BY <3>7
    <3>9. h[l] = g[k]
      BY <3>3, <3>6
    <3>10. Same(k) <=> Sum(h, H) = Sum(f, 1 .. m) + Sum(g, G)
      OBVIOUS
    <3>11. Sum(h, H \ {l}) = Sum(f, 1 .. m) + Sum(g, G \ {k})
      BY <3>2, <3>3, <3>4
    <3>. HIDE DEF G, H, j, l, Same
    <3>12. Sum(g, G) = g[k] + Sum(g, G \ {k})
      BY <3>3, <3>5, <3>6, SumTakes
    <3>13. Sum(h, H) = h[l] + Sum(h, H \ {l})
      BY <3>4, <3>5, <3>8, SumTakes
    <3>14. Sum(g, G \ {k}) \in Int
      <4>1. G \ {k} \in SUBSET G
        OBVIOUS
      <4>. QED
        BY <3>5, <3>6, <4>1, PartialSums
    <3>15. g[k] \in Int
      BY <3>3, <3>6
    <3>. QED
      BY <1>2, <2>2, <3>9, <3>10, <3>11, <3>12, <3>13, <3>14, <3>15
  <2>. QED
    BY <2>3, <2>4
<1>4. n \in 0 .. n
  BY <1>0
<1>. HIDE DEF Same
<1>5. Same(n)
  BY <1>3, <1>4
<1>. QED
  BY <1>5 DEF Same
=============================================================================

----------------------------- MODULE SumProofs ------------------------------
(***************************************************************************)
(* Sums of natural numbers over a finite set, for SumFunctionOnSet of the  *)
(* module Functions, which takes the elements off in an arbitrary order.   *)
(* A sum is the number of the units it counts: f[x] of them at each x.     *)
(* That number solves the equation of the recursion, and a smallest subset *)
(* on which another solution differed would have to be empty.              *)
(*                                                                         *)
(* The same argument gives induction up to a number, for sets of numbers,  *)
(* and the functions that are computed step by step.                       *)
(***************************************************************************)
EXTENDS FiniteSetTheorems, TLAPS

\* The units that f counts at x, and on S.
UnitsAt(f, x) == {x} \X (1 .. f[x])

Units(f, S) == UNION {UnitsAt(f, x) : x \in S}

Count(f, S) == Cardinality(Units(f, S))

\* There are f[x] units at x, and finitely many on a finite set.
LEMMA UnitsFinite ==
  ASSUME NEW S, IsFiniteSet(S), NEW f, \A x \in S : f[x] \in Nat
  PROVE  /\ \A x \in S : /\ IsFiniteSet(UnitsAt(f, x))
                         /\ Cardinality(UnitsAt(f, x)) = f[x]
         /\ IsFiniteSet(Units(f, S))
         /\ Count(f, S) \in Nat
<1>1. ASSUME NEW x \in S
      PROVE  IsFiniteSet(UnitsAt(f, x)) /\ Cardinality(UnitsAt(f, x)) = f[x]
  <2>1. IsFiniteSet({x}) /\ Cardinality({x}) = 1
    BY FS_Singleton
  <2>2. IsFiniteSet(1 .. f[x]) /\ Cardinality(1 .. f[x]) = f[x]
    BY FS_Interval
  <2>3. /\ IsFiniteSet({x} \X (1 .. f[x]))
        /\ Cardinality({x} \X (1 .. f[x])) = 1 * f[x]
    BY <2>1, <2>2, FS_Product
  <2>4. QED
    BY <2>3 DEF UnitsAt
<1> DEFINE T == {UnitsAt(f, x) : x \in S}
           g == [x \in S |-> UnitsAt(f, x)]
<1>2. g \in Surjection(S, T)
  BY DEF Surjection
<1>3. IsFiniteSet(T)
  BY <1>2, FS_Surjection
<1>4. \A t \in T : IsFiniteSet(t)
  BY <1>1
<1>5. IsFiniteSet(Units(f, S))
  BY <1>3, <1>4, FS_UNION DEF Units
<1>6. QED
  BY <1>1, <1>5, FS_CardinalityType DEF Count

\* Taking one element off a set takes its units off.
LEMMA CountRemove ==
  ASSUME NEW S, IsFiniteSet(S), NEW f, \A x \in S : f[x] \in Nat,
         NEW x \in S
  PROVE  Count(f, S) = f[x] + Count(f, S \ {x})
<1> DEFINE R == S \ {x}
<1>1. IsFiniteSet(R)
  BY FS_RemoveElement
<1>2. /\ IsFiniteSet(Units(f, R)) /\ Count(f, R) \in Nat
      /\ IsFiniteSet(UnitsAt(f, x)) /\ Cardinality(UnitsAt(f, x)) = f[x]
  BY <1>1, UnitsFinite
<1>3. Units(f, S) = UnitsAt(f, x) \cup Units(f, R)
  BY DEF Units
<1>4. UnitsAt(f, x) \cap Units(f, R) = {}
  BY DEF Units, UnitsAt
<1> HIDE DEF R
<1>5. Cardinality(Units(f, S)) =
        Cardinality(UnitsAt(f, x)) + Cardinality(Units(f, R)) - Cardinality({})
  <2>1. Cardinality(UnitsAt(f, x) \cup Units(f, R)) =
          Cardinality(UnitsAt(f, x)) + Cardinality(Units(f, R))
          - Cardinality(UnitsAt(f, x) \cap Units(f, R))
    BY <1>2, FS_Union
  <2>2. QED
    BY <1>3, <1>4, <2>1
<1>6. Cardinality({}) = 0
  BY FS_EmptySet
<1>7. QED
  BY <1>2, <1>5, <1>6 DEF Count, R

\* No units on the empty set.
LEMMA CountEmpty == \A f : Count(f, {}) = 0
  BY FS_EmptySet DEF Count, Units

\* The equation of the recursion that defines the sum.
Solves(g, f, S) ==
    g = [T \in SUBSET S |->
           IF T = {} THEN 0
           ELSE LET x == CHOOSE x \in T : TRUE IN f[x] + g[T \ {x}]]

\* The counts of the subsets solve it.
LEMMA CountSolves ==
  ASSUME NEW S, IsFiniteSet(S), NEW f, \A x \in S : f[x] \in Nat
  PROVE  Solves([T \in SUBSET S |-> Count(f, T)], f, S)
<1> DEFINE g == [T \in SUBSET S |-> Count(f, T)]
<1> SUFFICES ASSUME NEW T \in SUBSET S
             PROVE  Count(f, T) =
                      IF T = {} THEN 0
                      ELSE LET x == CHOOSE x \in T : TRUE IN f[x] + g[T \ {x}]
  BY DEF Solves
<1>1. CASE T = {}
  BY <1>1, CountEmpty
<1>2. CASE T # {}
  <2> DEFINE x == CHOOSE x \in T : TRUE
  <2>1. x \in T
    BY <1>2
  <2>2. IsFiniteSet(T) /\ T \ {x} \in SUBSET S
    BY FS_Subset
  <2> HIDE DEF x
  <2>3. Count(f, T) = f[x] + Count(f, T \ {x})
    BY <2>1, <2>2, CountRemove
  <2>4. QED
    BY <1>2, <2>2, <2>3 DEF x
<1>3. QED
  BY <1>1, <1>2

\* Nothing else solves it: two solutions agree on every subset.
LEMMA SolutionUnique ==
  ASSUME NEW S, IsFiniteSet(S), NEW f, NEW g, NEW h,
         Solves(g, f, S), Solves(h, f, S)
  PROVE  g[S] = h[S]
<1> DEFINE Bad == {T \in SUBSET S : g[T] # h[T]}
<1>1. SUFFICES ASSUME Bad # {} PROVE FALSE
  OBVIOUS
<1>2. IsWellFoundedOn(StrictSubsetOrdering(S), SUBSET S)
  BY FS_StrictSubsetOrderingWellFounded, FS_FiniteSubsetsOfFinite
<1>3. PICK T \in Bad : \A U \in Bad : <<U, T>> \notin StrictSubsetOrdering(S)
  <2>1. Bad \subseteq SUBSET S
    OBVIOUS
  <2> HIDE DEF Bad
  <2>2. QED
    BY <1>1, <1>2, <2>1, WFMin
<1>4. \A U \in SUBSET S :
        g[U] = IF U = {} THEN 0
               ELSE LET x == CHOOSE x \in U : TRUE IN f[x] + g[U \ {x}]
  BY DEF Solves
<1>5. \A U \in SUBSET S :
        h[U] = IF U = {} THEN 0
               ELSE LET x == CHOOSE x \in U : TRUE IN f[x] + h[U \ {x}]
  BY DEF Solves
<1>6. T # {}
  BY <1>4, <1>5
<1> DEFINE x == CHOOSE x \in T : TRUE
<1>7. x \in T /\ T \in SUBSET S
  BY <1>6
<1>8. g[T] = f[x] + g[T \ {x}] /\ h[T] = f[x] + h[T \ {x}]
  BY <1>4, <1>5, <1>6, <1>7
<1> HIDE DEF x
<1>9. T \ {x} \in Bad
  BY <1>7, <1>8
<1>10. <<T \ {x}, T>> \in StrictSubsetOrdering(S)
  BY <1>7 DEF StrictSubsetOrdering
<1>11. QED
  BY <1>3, <1>9, <1>10

\* The sum is the number of units.
LEMMA SumIsCount ==
  ASSUME NEW S, IsFiniteSet(S), NEW f, \A x \in S : f[x] \in Nat
  PROVE  SumFunctionOnSet(f, S) = Count(f, S)
<1> DEFINE fold == CHOOSE g : Solves(g, f, S)
<1>1. SumFunctionOnSet(f, S) = fold[S]
  BY DEF SumFunctionOnSet, FoldFunctionOnSet, MapThenFoldSet, Solves
<1>2. Solves(fold, f, S)
  BY CountSolves
<1> HIDE DEF fold
<1>3. fold[S] = [T \in SUBSET S |-> Count(f, T)][S]
  BY <1>2, CountSolves, SolutionUnique
<1>4. QED
  BY <1>1, <1>3

(***************************************************************************)
(* What the other proofs use.                                              *)
(***************************************************************************)

\* A sum is a number, and nothing sums to nothing.
LEMMA SumNat ==
  ASSUME NEW S, IsFiniteSet(S), NEW f, \A x \in S : f[x] \in Nat
  PROVE  SumFunctionOnSet(f, S) \in Nat
  BY SumIsCount, UnitsFinite

LEMMA SumEmpty == \A f : SumFunctionOnSet(f, {}) = 0
  BY SumIsCount, CountEmpty, FS_EmptySet

\* An element adds what f gives it.
LEMMA SumRemove ==
  ASSUME NEW S, IsFiniteSet(S), NEW f, \A x \in S : f[x] \in Nat,
         NEW x \in S
  PROVE  /\ SumFunctionOnSet(f, S) = f[x] + SumFunctionOnSet(f, S \ {x})
         /\ SumFunctionOnSet(f, S \ {x}) \in Nat
<1>1. IsFiniteSet(S \ {x})
  BY FS_RemoveElement
<1>2. QED
  BY <1>1, SumIsCount, SumNat, CountRemove

\* Only the values on the set matter, and larger values give a larger sum.
LEMMA SumBounded ==
  ASSUME NEW S, IsFiniteSet(S), NEW f, NEW g,
         \A x \in S : f[x] \in Nat /\ g[x] \in Nat /\ f[x] <= g[x]
  PROVE  SumFunctionOnSet(f, S) <= SumFunctionOnSet(g, S)
<1>1. Units(f, S) \subseteq Units(g, S)
  BY DEF Units, UnitsAt
<1>2. IsFiniteSet(Units(g, S))
  BY UnitsFinite
<1>3. Count(f, S) <= Count(g, S)
  BY <1>1, <1>2, FS_Subset DEF Count
<1>4. QED
  BY <1>3, SumIsCount

LEMMA SumSame ==
  ASSUME NEW S, IsFiniteSet(S), NEW f, NEW g,
         \A x \in S : f[x] \in Nat /\ f[x] = g[x]
  PROVE  SumFunctionOnSet(f, S) = SumFunctionOnSet(g, S)
<1>1. /\ SumFunctionOnSet(f, S) <= SumFunctionOnSet(g, S)
      /\ SumFunctionOnSet(g, S) <= SumFunctionOnSet(f, S)
  BY SumBounded
<1>2. SumFunctionOnSet(f, S) \in Nat /\ SumFunctionOnSet(g, S) \in Nat
  BY SumNat
<1>3. QED
  BY <1>1, <1>2

\* Equal values are a product.
LEMMA SumConstant ==
  ASSUME NEW S, IsFiniteSet(S), NEW n \in Nat
  PROVE  SumFunctionOnSet([x \in S |-> n], S) = Cardinality(S) * n
<1> DEFINE f == [x \in S |-> n]
<1>1. Units(f, S) = S \X (1 .. n)
  BY DEF Units, UnitsAt
<1>2. IsFiniteSet(1 .. n) /\ Cardinality(1 .. n) = n
  BY FS_Interval
<1>3. Cardinality(S \X (1 .. n)) = Cardinality(S) * n
  BY <1>2, FS_Product
<1>4. SumFunctionOnSet(f, S) = Count(f, S)
  BY SumIsCount
<1>5. QED
  BY <1>1, <1>3, <1>4 DEF Count

\* Changing one value changes the sum by as much.
LEMMA SumChange ==
  ASSUME NEW S, IsFiniteSet(S), NEW f, NEW g,
         \A x \in S : f[x] \in Nat /\ g[x] \in Nat,
         NEW x \in S, \A y \in S \ {x} : f[y] = g[y]
  PROVE  SumFunctionOnSet(g, S) = SumFunctionOnSet(f, S) - f[x] + g[x]
<1>1. IsFiniteSet(S \ {x})
  BY FS_RemoveElement
<1>2. SumFunctionOnSet(f, S \ {x}) = SumFunctionOnSet(g, S \ {x})
  BY <1>1, SumSame
<1>3. /\ SumFunctionOnSet(f, S) = f[x] + SumFunctionOnSet(f, S \ {x})
      /\ SumFunctionOnSet(g, S) = g[x] + SumFunctionOnSet(g, S \ {x})
      /\ SumFunctionOnSet(f, S \ {x}) \in Nat
  BY SumRemove
<1>4. QED
  BY <1>2, <1>3

(***************************************************************************)
(* Induction up to a number.                                               *)
(***************************************************************************)

\* What holds at zero and is kept by every step up to n holds up to n.
LEMMA UpTo ==
  ASSUME NEW n \in Nat, NEW T, 0 \in T,
         \A k \in 0 .. n - 1 : k \in T => k + 1 \in T
  PROVE  \A k \in 0 .. n : k \in T
<1> DEFINE Bad == {k \in 0 .. n : k \notin T}
           Below(k) == 0 .. k
           Sets == {Below(k) : k \in Bad}
<1>1. SUFFICES ASSUME Bad # {} PROVE FALSE
  OBVIOUS
<1>2. IsWellFoundedOn(StrictSubsetOrdering(0 .. n), SUBSET (0 .. n))
  <2>1. IsFiniteSet(0 .. n)
    BY FS_Interval
  <2>2. QED
    BY <2>1, FS_StrictSubsetOrderingWellFounded, FS_FiniteSubsetsOfFinite
<1>3. PICK S \in Sets : \A U \in Sets : <<U, S>> \notin StrictSubsetOrdering(0 .. n)
  <2>1. Sets \subseteq SUBSET (0 .. n) /\ Sets # {}
    BY <1>1
  <2> HIDE DEF Sets
  <2>2. QED
    BY <1>2, <2>1, WFMin
<1>4. PICK k \in Bad : S = Below(k)
  OBVIOUS
<1>5. k # 0 /\ k - 1 \in 0 .. n - 1
  OBVIOUS
<1>6. k - 1 \in Bad
  BY <1>5
<1>7. <<Below(k - 1), Below(k)>> \in StrictSubsetOrdering(0 .. n)
  BY <1>5 DEF StrictSubsetOrdering
<1>8. QED
  BY <1>3, <1>4, <1>6, <1>7

\* f is computed step by step up to n.
Computed(f, n, base, step) ==
    f[0] = base /\ \A k \in 1 .. n : f[k] = step[k][f[k - 1]]

\* Such a function exists.
LEMMA StepsExist ==
  ASSUME NEW n \in Nat, NEW X, NEW base \in X,
         NEW step \in [1 .. n -> [X -> X]]
  PROVE  \E f \in [0 .. n -> X] : Computed(f, n, base, step)
<1> DEFINE Run(f, m) == /\ f[0] = base
                        /\ \A k \in 1 .. m : f[k] = step[k][f[k - 1]]
           T == {m \in 0 .. n : \E f \in [0 .. m -> X] : Run(f, m)}
<1>1. 0 \in T
  <2> DEFINE f == [k \in 0 .. 0 |-> base]
  <2>1. f \in [0 .. 0 -> X] /\ f[0] = base /\ 1 .. 0 = {}
    OBVIOUS
  <2> HIDE DEF f
  <2>2. Run(f, 0)
    BY <2>1
  <2> HIDE DEF Run
  <2>3. QED
    BY <2>1, <2>2
<1>2. ASSUME NEW m \in 0 .. n - 1, m \in T
      PROVE  m + 1 \in T
  <2>1. PICK f \in [0 .. m -> X] : Run(f, m)
    BY <1>2
  <2> DEFINE g == [k \in 0 .. m + 1 |-> IF k = m + 1 THEN step[k][f[m]] ELSE f[k]]
  <2>2. g \in [0 .. m + 1 -> X]
    <3> SUFFICES ASSUME NEW k \in 0 .. m + 1 PROVE g[k] \in X
      OBVIOUS
    <3>1. CASE k = m + 1
      <4>1. m + 1 \in 1 .. n /\ f[m] \in X
        OBVIOUS
      <4>2. step[m + 1][f[m]] \in X
        BY <4>1
      <4>3. QED
        BY <3>1, <4>2
    <3>2. CASE k # m + 1
      <4>1. k \in 0 .. m
        BY <3>2
      <4>2. QED
        BY <4>1, <3>2
    <3>3. QED
      BY <3>1, <3>2
  <2>3. g[0] = base
    <3>1. 0 \in 0 .. m + 1 /\ 0 # m + 1
      OBVIOUS
    <3>2. QED
      BY <2>1, <3>1
  <2>4. ASSUME NEW k \in 1 .. m + 1
        PROVE  g[k] = step[k][g[k - 1]]
    <3>1. CASE k = m + 1
      <4>1. k \in 0 .. m + 1 /\ k - 1 = m /\ m \in 0 .. m + 1 /\ m # m + 1
        BY <3>1
      <4>2. g[k] = step[k][f[m]] /\ g[m] = f[m]
        BY <3>1, <4>1
      <4>3. QED
        BY <4>1, <4>2
    <3>2. CASE k # m + 1
      <4>1. k \in 1 .. m /\ k - 1 \in 0 .. m
        BY <3>2
      <4>2. k \in 0 .. m + 1 /\ k - 1 \in 0 .. m + 1 /\ k - 1 # m + 1
        BY <4>1
      <4>3. g[k] = f[k] /\ g[k - 1] = f[k - 1]
        BY <3>2, <4>2
      <4>4. QED
        BY <2>1, <4>1, <4>3
    <3>3. QED
      BY <3>1, <3>2
  <2>5. m + 1 \in 0 .. n
    OBVIOUS
  <2> HIDE DEF g
  <2>6. QED
    BY <2>2, <2>3, <2>4, <2>5
<1> HIDE DEF T
<1>3. \A m \in 0 .. n - 1 : m \in T => m + 1 \in T
  BY <1>2
<1>4. \A m \in 0 .. n : m \in T
  BY <1>1, <1>3, UpTo
<1>5. n \in T
  BY <1>4
<1>6. QED
  BY <1>5 DEF T, Computed
=============================================================================

----------------------------- MODULE SumTheorems -----------------------------
(***************************************************************************)
(* Facts about SumFunctionOnSet, the sum of a function's values over a     *)
(* finite set: Refunds adds up amounts and SlotReservation seats with it.  *)
(* Induction over the subsets of a finite set is the choice of a minimal   *)
(* counterexample; it shows first that the recursion the sum is defined    *)
(* with has a solution, and then what the sum is.                          *)
(***************************************************************************)
EXTENDS Integers, FiniteSets, Functions, FiniteSetTheorems, WellFoundedInduction, TLAPS

\* What holds of a set as soon as it holds of the set without any one of its
\* elements holds of every subset of a finite set.
LEMMA SubsetInduction ==
    ASSUME NEW S, IsFiniteSet(S), NEW Good \in SUBSET (SUBSET S),
           \A U \in SUBSET S : (\A x \in U : U \ {x} \in Good) => U \in Good
    PROVE  Good = SUBSET S
<1> DEFINE Bad == (SUBSET S) \ Good
<1> SUFFICES ASSUME Bad # {} PROVE FALSE
  OBVIOUS
<1>1. IsWellFoundedOn(StrictSubsetOrdering(S), SUBSET S)
  <2>1. FiniteSubsetsOf(S) = SUBSET S
    BY FS_FiniteSubsetsOfFinite
  <2>2. IsWellFoundedOn(StrictSubsetOrdering(S), FiniteSubsetsOf(S))
    BY FS_StrictSubsetOrderingWellFounded, Zenon
  <2> QED
    BY <2>1, <2>2, Zenon
<1>2. PICK U \in Bad : \A V \in Bad : <<V, U>> \notin StrictSubsetOrdering(S)
  <2>1. Bad \subseteq SUBSET S
    OBVIOUS
  <2> HIDE DEF Bad
  <2> QED
    BY <1>1, <2>1, WFMin
<1>3. ASSUME NEW x \in U, U \ {x} \in Bad PROVE FALSE
  <2>1. <<U \ {x}, U>> \in StrictSubsetOrdering(S)
    BY DEF StrictSubsetOrdering
  <2> QED
    BY <1>2, <1>3, <2>1
<1> QED
  BY <1>3

-----------------------------------------------------------------------------
(* The recursion has one solution.                                         *)

Pick(U) == CHOOSE x \in U : TRUE

\* The element the sum starts with is one of the set.
LEMMA PickIn == \A U : U # {} => Pick(U) \in U
BY DEF Pick

\* g has the sums of f over the subsets of S.
IsSum(f, S, g) ==
    g = [U \in SUBSET S |-> IF U = {} THEN 0 ELSE f[Pick(U)] + g[U \ {Pick(U)}]]

\* The sum is the value of a solution, if there is one.
LEMMA SumValue ==
    ASSUME NEW f, NEW S, NEW g, IsSum(f, S, g)
    PROVE  \E h : IsSum(f, S, h) /\ SumFunctionOnSet(f, S) = h[S]
<1> DEFINE iter == CHOOSE h : IsSum(f, S, h)
<1>1. IsSum(f, S, iter)
  OBVIOUS
<1>2. SumFunctionOnSet(f, S) = iter[S]
  BY DEF SumFunctionOnSet, FoldFunctionOnSet, MapThenFoldSet, IsSum, Pick
<1> QED
  BY <1>1, <1>2

\* Two solutions agree where both are defined.
LEMMA SumUnique ==
    ASSUME NEW f, NEW S, IsFiniteSet(S), NEW T \in SUBSET S, NEW g, NEW h,
           IsSum(f, S, g), IsSum(f, T, h)
    PROVE  \A U \in SUBSET T : h[U] = g[U]
<1> DEFINE Good == {U \in SUBSET T : h[U] = g[U]}
<1>1. ASSUME NEW U \in SUBSET T, \A x \in U : U \ {x} \in Good PROVE U \in Good
  <2>1. CASE U = {}
    BY <2>1 DEF IsSum
  <2>2. CASE U # {}
    <3>1. h[U \ {Pick(U)}] = g[U \ {Pick(U)}]
      BY <1>1, <2>2, PickIn
    <3>2. h[U] = f[Pick(U)] + h[U \ {Pick(U)}] /\ g[U] = f[Pick(U)] + g[U \ {Pick(U)}]
      BY <2>2 DEF IsSum
    <3> QED
      BY <3>1, <3>2
  <2> QED
    BY <2>1, <2>2
<1>2. Good \in SUBSET (SUBSET T) /\ IsFiniteSet(T)
  BY FS_Subset
<1> HIDE DEF Good
<1>3. Good = SUBSET T
  BY <1>1, <1>2, SubsetInduction
<1> QED
  BY <1>3 DEF Good

\* The restriction of a solution is a solution.
LEMMA SumRestrict ==
    ASSUME NEW f, NEW S, NEW T \in SUBSET S, NEW g, IsSum(f, S, g)
    PROVE  IsSum(f, T, [U \in SUBSET T |-> g[U]])
<1>1. \A U \in SUBSET T : g[U] = IF U = {} THEN 0 ELSE f[Pick(U)] + g[U \ {Pick(U)}]
  BY DEF IsSum
<1>2. \A U \in SUBSET T : U \ {Pick(U)} \in SUBSET T
  OBVIOUS
<1> QED
  BY <1>1, <1>2 DEF IsSum

\* Where there is a solution, its values are the sums.
LEMMA SumSolved ==
    ASSUME NEW f, NEW S, IsFiniteSet(S), NEW g, IsSum(f, S, g), NEW T \in SUBSET S
    PROVE  SumFunctionOnSet(f, T) = g[T]
<1>1. PICK h : IsSum(f, T, h) /\ SumFunctionOnSet(f, T) = h[T]
  BY SumRestrict, SumValue
<1>2. \A U \in SUBSET T : h[U] = g[U]
  BY <1>1, SumUnique
<1> QED
  BY <1>1, <1>2

\* There is a solution for every finite set.
LEMMA SumExists ==
    ASSUME NEW f, NEW S, IsFiniteSet(S)
    PROVE  \A U \in SUBSET S : \E g : IsSum(f, U, g)
<1> DEFINE Good == {U \in SUBSET S : \E g : IsSum(f, U, g)}
<1>1. ASSUME NEW U \in SUBSET S, \A x \in U : U \ {x} \in Good PROVE U \in Good
  <2> DEFINE total(V) == SumFunctionOnSet(f, V)
             next(V) == IF V = {} THEN 0 ELSE f[Pick(V)] + total(V \ {Pick(V)})
             g == [V \in SUBSET U |-> next(V)]
  <2>1. ASSUME NEW V \in SUBSET U, V # U PROVE total(V) = next(V)
    <3>1. PICK x \in U : V \in SUBSET (U \ {x})
      BY <2>1
    <3>2. PICK h : IsSum(f, U \ {x}, h)
      BY <1>1
    <3>3. IsFiniteSet(U \ {x})
      BY FS_Subset
    <3>4. \A W \in SUBSET (U \ {x}) : total(W) = h[W]
      BY <3>2, <3>3, SumSolved
    <3> HIDE DEF total
    <3>5. h[V] = IF V = {} THEN 0 ELSE f[Pick(V)] + h[V \ {Pick(V)}]
      BY <3>1, <3>2 DEF IsSum
    <3>6. V \ {Pick(V)} \in SUBSET (U \ {x})
      BY <3>1
    <3> QED
      BY <3>1, <3>4, <3>5, <3>6
  <2>2. \A V \in SUBSET U : V # {} => V \ {Pick(V)} \in SUBSET U /\ V \ {Pick(V)} # U
    BY PickIn
  <2>3. \A V \in SUBSET U : V # {} => g[V \ {Pick(V)}] = total(V \ {Pick(V)})
    <3> HIDE DEF total, next
    <3> QED
      BY <2>1, <2>2
  <2> HIDE DEF total
  <2>4. IsSum(f, U, g)
    BY <2>2, <2>3 DEF IsSum
  <2> QED
    BY <2>4
<1>2. Good \in SUBSET (SUBSET S)
  OBVIOUS
<1> HIDE DEF Good
<1>3. Good = SUBSET S
  BY <1>1, <1>2, SubsetInduction
<1> QED
  BY <1>3 DEF Good

-----------------------------------------------------------------------------
(* What the sum is.                                                        *)

\* The sum over a finite set is the value it starts with plus the sum of the rest.
LEMMA SumUnfold ==
    ASSUME NEW f, NEW S, IsFiniteSet(S)
    PROVE  SumFunctionOnSet(f, S) =
               IF S = {} THEN 0 ELSE f[Pick(S)] + SumFunctionOnSet(f, S \ {Pick(S)})
<1>1. PICK g : IsSum(f, S, g)
  BY SumExists
<1>2. \A T \in SUBSET S : SumFunctionOnSet(f, T) = g[T]
  BY <1>1, SumSolved
<1>3. g[S] = IF S = {} THEN 0 ELSE f[Pick(S)] + g[S \ {Pick(S)}]
  BY <1>1 DEF IsSum
<1> QED
  BY <1>2, <1>3

\* Nothing sums up to zero.
LEMMA SumEmpty == ASSUME NEW f PROVE SumFunctionOnSet(f, {}) = 0
BY SumUnfold, FS_EmptySet

\* A sum of natural numbers is one.
LEMMA SumIsNat ==
    ASSUME NEW f, NEW S, IsFiniteSet(S), \A x \in S : f[x] \in Nat
    PROVE  \A U \in SUBSET S : SumFunctionOnSet(f, U) \in Nat
<1> DEFINE Good == {U \in SUBSET S : SumFunctionOnSet(f, U) \in Nat}
<1>1. ASSUME NEW U \in SUBSET S, \A x \in U : U \ {x} \in Good PROVE U \in Good
  <2>1. SumFunctionOnSet(f, U) =
            IF U = {} THEN 0 ELSE f[Pick(U)] + SumFunctionOnSet(f, U \ {Pick(U)})
    BY FS_Subset, SumUnfold
  <2>2. U # {} => Pick(U) \in U /\ SumFunctionOnSet(f, U \ {Pick(U)}) \in Nat
    BY <1>1, PickIn
  <2> QED
    BY <2>1, <2>2
<1>2. Good \in SUBSET (SUBSET S)
  OBVIOUS
<1> HIDE DEF Good
<1>3. Good = SUBSET S
  BY <1>1, <1>2, SubsetInduction
<1> QED
  BY <1>3 DEF Good

\* Any element of the set may be taken out of the sum.
LEMMA SumWithout ==
    ASSUME NEW f, NEW S, IsFiniteSet(S), \A x \in S : f[x] \in Nat
    PROVE  \A U \in SUBSET S : \A x \in U :
               SumFunctionOnSet(f, U) = f[x] + SumFunctionOnSet(f, U \ {x})
<1> DEFINE total(U) == SumFunctionOnSet(f, U)
           Good == {U \in SUBSET S : \A x \in U : total(U) = f[x] + total(U \ {x})}
<1>1. ASSUME NEW U \in SUBSET S, \A x \in U : U \ {x} \in Good PROVE U \in Good
  <2> SUFFICES ASSUME NEW x \in U PROVE total(U) = f[x] + total(U \ {x})
    OBVIOUS
  <2> DEFINE p == Pick(U)
  <2>1. IsFiniteSet(U) /\ p \in U
    BY FS_Subset, PickIn
  <2>2. total(U) = f[p] + total(U \ {p})
    BY <2>1, SumUnfold
  <2>3. CASE x # p
    <3>1. (U \ {p}) \ {x} = (U \ {x}) \ {p}
      OBVIOUS
    <3>2. total(U \ {p}) = f[x] + total((U \ {p}) \ {x})
      BY <1>1, <2>1, <2>3
    <3>3. total(U \ {x}) = f[p] + total((U \ {x}) \ {p})
      BY <1>1, <2>1, <2>3
    <3>4. total((U \ {p}) \ {x}) \in Nat /\ f[x] \in Nat /\ f[p] \in Nat
      BY <2>1, SumIsNat
    <3> HIDE DEF total, p
    <3> QED
      BY <2>2, <3>1, <3>2, <3>3, <3>4
  <2> QED
    BY <2>2, <2>3
<1>2. Good \in SUBSET (SUBSET S)
  OBVIOUS
<1> HIDE DEF Good
<1>3. Good = SUBSET S
  BY <1>1, <1>2, SubsetInduction
<1> QED
  BY <1>3 DEF Good

\* Functions with the same values have the same sum.
LEMMA SumAgrees ==
    ASSUME NEW f, NEW g, NEW S, IsFiniteSet(S), \A x \in S : f[x] = g[x]
    PROVE  SumFunctionOnSet(f, S) = SumFunctionOnSet(g, S)
<1> DEFINE Good == {U \in SUBSET S : SumFunctionOnSet(f, U) = SumFunctionOnSet(g, U)}
<1>1. ASSUME NEW U \in SUBSET S, \A x \in U : U \ {x} \in Good PROVE U \in Good
  <2>1. IsFiniteSet(U)
    BY FS_Subset
  <2>2. SumFunctionOnSet(f, U) =
            IF U = {} THEN 0 ELSE f[Pick(U)] + SumFunctionOnSet(f, U \ {Pick(U)})
    BY <2>1, SumUnfold
  <2>3. SumFunctionOnSet(g, U) =
            IF U = {} THEN 0 ELSE g[Pick(U)] + SumFunctionOnSet(g, U \ {Pick(U)})
    BY <2>1, SumUnfold
  <2> QED
    BY <1>1, <2>2, <2>3, PickIn
<1>2. Good \in SUBSET (SUBSET S)
  OBVIOUS
<1> HIDE DEF Good
<1>3. Good = SUBSET S
  BY <1>1, <1>2, SubsetInduction
<1> QED
  BY <1>3 DEF Good

\* A part of a sum of natural numbers is no more than the whole.
LEMMA SumOfPart ==
    ASSUME NEW f, NEW S, IsFiniteSet(S), \A x \in S : f[x] \in Nat, NEW T \in SUBSET S
    PROVE  SumFunctionOnSet(f, T) <= SumFunctionOnSet(f, S)
<1> DEFINE Good == {U \in SUBSET S : T \subseteq U =>
                        SumFunctionOnSet(f, T) <= SumFunctionOnSet(f, U)}
<1>1. ASSUME NEW U \in SUBSET S, \A x \in U : U \ {x} \in Good PROVE U \in Good
  <2> SUFFICES ASSUME T \subseteq U
               PROVE SumFunctionOnSet(f, T) <= SumFunctionOnSet(f, U)
    OBVIOUS
  <2>1. /\ SumFunctionOnSet(f, T) \in Nat /\ SumFunctionOnSet(f, U) \in Nat
        /\ \A x \in U : SumFunctionOnSet(f, U \ {x}) \in Nat
    BY SumIsNat
  <2>2. CASE T = U
    BY <2>1, <2>2
  <2>3. CASE T # U
    <3>1. PICK x \in U : x \notin T
      BY <2>3
    <3>2. SumFunctionOnSet(f, T) <= SumFunctionOnSet(f, U \ {x})
      BY <1>1, <3>1
    <3>3. SumFunctionOnSet(f, U) = f[x] + SumFunctionOnSet(f, U \ {x})
      BY SumWithout
    <3> QED
      BY <2>1, <3>2, <3>3
  <2> QED
    BY <2>2, <2>3
<1>2. Good \in SUBSET (SUBSET S)
  OBVIOUS
<1> HIDE DEF Good
<1>3. Good = SUBSET S
  BY <1>1, <1>2, SubsetInduction
<1> QED
  BY <1>3 DEF Good

\* Zeros sum up to zero.
LEMMA SumOfZeros ==
    ASSUME NEW f, NEW S, IsFiniteSet(S), \A x \in S : f[x] = 0
    PROVE  SumFunctionOnSet(f, S) = 0
<1> DEFINE Good == {U \in SUBSET S : SumFunctionOnSet(f, U) = 0}
<1>1. ASSUME NEW U \in SUBSET S, \A x \in U : U \ {x} \in Good PROVE U \in Good
  <2>1. SumFunctionOnSet(f, U) =
            IF U = {} THEN 0 ELSE f[Pick(U)] + SumFunctionOnSet(f, U \ {Pick(U)})
    BY FS_Subset, SumUnfold
  <2> QED
    BY <1>1, <2>1, PickIn
<1>2. Good \in SUBSET (SUBSET S)
  OBVIOUS
<1> HIDE DEF Good
<1>3. Good = SUBSET S
  BY <1>1, <1>2, SubsetInduction
<1> QED
  BY <1>3 DEF Good

\* The sum over two sets that have nothing in common is the sum of their sums.
LEMMA SumOfUnion ==
    ASSUME NEW f, NEW A, NEW B, IsFiniteSet(A), IsFiniteSet(B), A \cap B = {},
           \A x \in A \cup B : f[x] \in Nat
    PROVE  SumFunctionOnSet(f, A \cup B) = SumFunctionOnSet(f, A) + SumFunctionOnSet(f, B)
<1> DEFINE total(U) == SumFunctionOnSet(f, U)
           Good == {U \in SUBSET B : total(A \cup U) = total(A) + total(U)}
<1>1. IsFiniteSet(A \cup B)
  BY FS_Union
<1>2. \A U \in SUBSET (A \cup B) : total(U) \in Nat
  BY <1>1, SumIsNat
<1>3. ASSUME NEW U \in SUBSET B, \A x \in U : U \ {x} \in Good PROVE U \in Good
  <2>1. CASE U = {}
    <3>1. A \cup U = A
      BY <2>1
    <3>2. total(A \cup U) = total(A)
      BY <3>1, Zenon
    <3>3. total(A) \in Nat /\ total(U) = 0
      BY <1>2, <2>1, SumEmpty
    <3> QED
      BY <3>2, <3>3
  <2>2. CASE U # {}
    <3>1. PICK p \in U : TRUE
      BY <2>2
    <3>2. total(U) = f[p] + total(U \ {p})
      BY <1>1, SumWithout
    <3>3. total(A \cup U) = f[p] + total(A \cup (U \ {p}))
      <4>1. total(A \cup U) = f[p] + total((A \cup U) \ {p})
        BY <1>1, SumWithout
      <4>2. (A \cup U) \ {p} = A \cup (U \ {p})
        OBVIOUS
      <4> QED
        BY <4>1, <4>2, Zenon
    <3>4. total(A \cup (U \ {p})) = total(A) + total(U \ {p})
      BY <1>3
    <3>5. f[p] \in Nat /\ total(A) \in Nat /\ total(U \ {p}) \in Nat
      BY <1>2
    <3> QED
      BY <3>2, <3>3, <3>4, <3>5
  <2> QED
    BY <2>1, <2>2
<1>4. Good \in SUBSET (SUBSET B)
  OBVIOUS
<1> HIDE DEF Good
<1>5. Good = SUBSET B
  BY <1>3, <1>4, SubsetInduction
<1> QED
  BY <1>5 DEF Good

\* One value of a function changes, and the sum by as much.
LEMMA SumChanged ==
    ASSUME NEW f, NEW g, NEW S, IsFiniteSet(S), NEW x \in S,
           \A y \in S : f[y] \in Nat /\ g[y] \in Nat,
           \A y \in S \ {x} : g[y] = f[y]
    PROVE  SumFunctionOnSet(g, S) - g[x] = SumFunctionOnSet(f, S) - f[x]
<1>1. SumFunctionOnSet(f, S \ {x}) = SumFunctionOnSet(g, S \ {x})
  BY SumAgrees, FS_RemoveElement
<1>2. /\ SumFunctionOnSet(f, S) = f[x] + SumFunctionOnSet(f, S \ {x})
      /\ SumFunctionOnSet(g, S) = g[x] + SumFunctionOnSet(g, S \ {x})
  BY SumWithout
<1>3. SumFunctionOnSet(f, S \ {x}) \in Nat
  BY SumIsNat
<1> QED
  BY <1>1, <1>2, <1>3
=============================================================================

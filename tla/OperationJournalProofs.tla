----------------------- MODULE OperationJournalProofs -----------------------
(***************************************************************************)
(* What TLAPS proves of OperationJournal, for every set of keys, fields    *)
(* and values and every limit: the types and the row ceiling, that a       *)
(* terminal row is final, that evidence is never replaced, that the DUST   *)
(* budget is only held by journalled operations and only let go by their   *)
(* outcome, and that the budget is never exceeded.                         *)
(*                                                                         *)
(* The budget is a sum over a finite set, MapThenSumSet of the community   *)
(* modules.  The first part proves what is needed of such sums.  The       *)
(* library states induction for an operator P(_), which the provers cannot *)
(* instantiate; here it is stated for a set P, and follows from the        *)
(* minimal element of a well-founded relation (WFMin).                     *)
(***************************************************************************)
EXTENDS OperationJournal, FiniteSetsExt, FiniteSetTheorems, WellFoundedInduction, TLAPS

-----------------------------------------------------------------------------
(* Induction.                                                              *)

\* What holds of a subset once it holds of all that it strictly contains, holds of each.
LEMMA SubsetInduction ==
    ASSUME NEW S, IsFiniteSet(S), NEW P,
           \A T \in SUBSET S : (\A U \in SUBSET T : U # T => U \in P) => T \in P
    PROVE  \A T \in SUBSET S : T \in P
<1> DEFINE Bad == {T \in SUBSET S : T \notin P}
<1> SUFFICES ASSUME Bad # {} PROVE FALSE
  OBVIOUS
<1>1. Bad \subseteq FiniteSubsetsOf(S)
  BY FS_Subset DEF FiniteSubsetsOf
<1>2. PICK T \in Bad : \A U \in Bad : <<U, T>> \notin StrictSubsetOrdering(S)
  <2> HIDE DEF Bad
  <2> QED
    BY <1>1, FS_StrictSubsetOrderingWellFounded, WFMin
<1>3. ASSUME NEW U \in SUBSET T, U # T PROVE U \in P
  <2>1. <<U, T>> \in StrictSubsetOrdering(S)
    BY <1>2, <1>3 DEF StrictSubsetOrdering
  <2> QED
    BY <1>2, <2>1
<1> QED
  BY <1>2, <1>3

\* Induction over the natural numbers, for a set.
LEMMA NatSetInduction ==
    ASSUME NEW P, 0 \in P, \A n \in Nat : n \in P => n + 1 \in P
    PROVE  \A n \in Nat : n \in P
<1> DEFINE Bad == {n \in Nat : n \notin P}
<1> SUFFICES ASSUME Bad # {} PROVE FALSE
  OBVIOUS
<1>1. PICK n \in Bad : \A m \in Bad : <<m, n>> \notin OpToRel(<, Nat)
  <2> HIDE DEF Bad
  <2>1. Bad \subseteq Nat
    BY DEF Bad
  <2> QED
    BY <2>1, NatLessThanWellFounded, WFMin
<1>2. n \in Nat \ {0}
  BY <1>1
<1>3. <<n - 1, n>> \in OpToRel(<, Nat)
  BY <1>2 DEF OpToRel
<1>4. n - 1 \in Nat /\ (n - 1) + 1 = n
  BY <1>2
<1>5. n - 1 \in P
  BY <1>1, <1>3, <1>4
<1>6. n \in P
  BY <1>4, <1>5
<1> QED
  BY <1>1, <1>6

-----------------------------------------------------------------------------
(* The equation of a sum.                                                  *)

\* Sums of the values of a function at the elements of a set.
IntsOn(f, S) == \A x \in S : f[x] \in Int
Sum(f, S) == MapThenSumSet(LAMBDA x : f[x], S)

\* The function over subsets that the fold defines, and its values up to a cardinality.
NextOf(s) == CHOOSE x \in s : TRUE
SumStep(f, g, s) == IF s = {} THEN 0 ELSE f[NextOf(s)] + g[s \ {NextOf(s)}]
SumsOf(f, S, g) == g = [s \in SUBSET S |-> SumStep(f, g, s)]
Sums(f, S, g) == g \in [SUBSET S -> Int] /\ SumsOf(f, S, g)

SumsUpTo(f, S, n, g) == \A s \in SUBSET S : Cardinality(s) <= n => g[s] = SumStep(f, g, s)

\* The element a sum takes next.
LEMMA NextIn == ASSUME NEW s, s # {} PROVE NextOf(s) \in s
  BY DEF NextOf

\* What the library's fold unfolds to.
LEMMA SumUnfolds == ASSUME NEW f, NEW S PROVE Sum(f, S) = (CHOOSE g : SumsOf(f, S, g))[S]
  BY DEF Sum, MapThenSumSet, MapThenFoldSet, SumsOf, SumStep, NextOf

\* Up to any cardinality there are partial sums that satisfy it.
LEMMA PartialSums ==
    ASSUME NEW S, IsFiniteSet(S), NEW f, IntsOn(f, S)
    PROVE  \A n \in Nat : \E g \in [SUBSET S -> Int] : SumsUpTo(f, S, n, g)
<1> DEFINE P == {n \in Nat : \E g \in [SUBSET S -> Int] : SumsUpTo(f, S, n, g)}
<1> USE DEF SumsUpTo
<1>1. \A s \in SUBSET S : IsFiniteSet(s) /\ Cardinality(s) \in Nat
  BY FS_Subset, FS_CardinalityType
<1>2. 0 \in P
  <2> DEFINE g == [s \in SUBSET S |-> 0]
  <2>1. g \in [SUBSET S -> Int]
    OBVIOUS
  <2>2. ASSUME NEW s \in SUBSET S, Cardinality(s) <= 0 PROVE s = {}
    BY <1>1, <2>2, FS_EmptySet
  <2>3. \A s \in SUBSET S : Cardinality(s) <= 0 => g[s] = SumStep(f, g, s)
    BY <2>2 DEF SumStep
  <2> QED
    BY <2>1, <2>3
<1>3. ASSUME NEW n \in Nat, n \in P PROVE n + 1 \in P
  <2>1. PICK g \in [SUBSET S -> Int] :
            \A s \in SUBSET S : Cardinality(s) <= n => g[s] = SumStep(f, g, s)
    BY <1>3
  <2> DEFINE h == [s \in SUBSET S |-> IF Cardinality(s) <= n THEN g[s] ELSE f[NextOf(s)] + g[s \ {NextOf(s)}]]
  <2>2. ASSUME NEW s \in SUBSET S, s # {}
        PROVE  NextOf(s) \in s /\ s \ {NextOf(s)} \in SUBSET S
               /\ Cardinality(s \ {NextOf(s)}) = Cardinality(s) - 1
    BY <1>1, <2>2, NextIn, FS_RemoveElement
  <2>3. ASSUME NEW s \in SUBSET S, ~(Cardinality(s) <= n) PROVE s # {}
    <3>1. Cardinality({}) <= n
      BY FS_EmptySet
    <3> QED
      BY <2>3, <3>1
  <2>4. h \in [SUBSET S -> Int]
    BY <2>2, <2>3 DEF IntsOn
  <2>5. ASSUME NEW s \in SUBSET S, Cardinality(s) <= n + 1 PROVE h[s] = SumStep(f, h, s)
    <3>1. CASE s = {}
      <4>1. Cardinality(s) <= n
        BY <3>1, FS_EmptySet
      <4> QED
        BY <2>1, <3>1, <4>1 DEF SumStep
    <3>2. CASE s # {}
      <4> DEFINE r == s \ {NextOf(s)}
      <4>1. r \in SUBSET S /\ Cardinality(r) <= n
        BY <1>1, <2>2, <2>5, <3>2
      <4>2. h[r] = g[r]
        BY <4>1
      <4>3. h[s] = f[NextOf(s)] + g[r]
        BY <2>1, <3>2 DEF SumStep
      <4> QED
        BY <3>2, <4>2, <4>3 DEF SumStep
    <3> QED
      BY <3>1, <3>2
  <2> HIDE DEF h
  <2> QED
    BY <2>4, <2>5
<1>4. \A n \in Nat : n \in P
  <2> HIDE DEF P
  <2> QED
    BY <1>2, <1>3, NatSetInduction
<1> QED
  BY <1>4

\* So there are sums, and what Sum chooses are such sums.
LEMMA SumsExist ==
    ASSUME NEW S, IsFiniteSet(S), NEW f, IntsOn(f, S)
    PROVE  \E g : Sums(f, S, g) /\ Sum(f, S) = g[S]
<1>1. Cardinality(S) \in Nat /\ \A s \in SUBSET S : Cardinality(s) <= Cardinality(S)
  BY FS_CardinalityType, FS_Subset
<1>2. PICK h \in [SUBSET S -> Int] : SumsUpTo(f, S, Cardinality(S), h)
  BY <1>1, PartialSums
<1>3. SumsOf(f, S, h)
  BY <1>1, <1>2 DEF SumsOf, SumsUpTo
<1> DEFINE g == CHOOSE k : SumsOf(f, S, k)
<1>4. SumsOf(f, S, g)
  BY <1>3
<1>5. Sum(f, S) = g[S]
  BY SumUnfolds
<1> HIDE DEF g
<1> DEFINE P == {s \in SUBSET S : g[s] \in Int}
<1>6. ASSUME NEW T \in SUBSET S, \A U \in SUBSET T : U # T => U \in P PROVE T \in P
  <2>1. CASE T = {}
    BY <1>4, <2>1 DEF SumsOf, SumStep
  <2>2. CASE T # {}
    <3>1. NextOf(T) \in T /\ T \ {NextOf(T)} \in P
      BY <1>6, <2>2, NextIn
    <3>2. f[NextOf(T)] \in Int /\ g[T \ {NextOf(T)}] \in Int
      BY <3>1 DEF IntsOn
    <3>3. g[T] = f[NextOf(T)] + g[T \ {NextOf(T)}]
      BY <1>4, <2>2 DEF SumsOf, SumStep
    <3> QED
      BY <3>2, <3>3
  <2> QED
    BY <2>1, <2>2
<1>7. \A s \in SUBSET S : s \in P
  <2> HIDE DEF P
  <2> QED
    BY <1>6, SubsetInduction
<1>8. g \in [SUBSET S -> Int]
  BY <1>4, <1>7 DEF SumsOf
<1> QED
  BY <1>4, <1>5, <1>8 DEF Sums

\* The order in which elements are chosen does not matter.
LEMMA SumsRemove ==
    ASSUME NEW S, IsFiniteSet(S), NEW f, IntsOn(f, S),
           NEW g, Sums(f, S, g), NEW R \in SUBSET S, NEW z \in R
    PROVE  g[R] = f[z] + g[R \ {z}]
<1> USE DEF Sums
<1> DEFINE P == {T \in SUBSET S : \A x \in T : g[T] = f[x] + g[T \ {x}]}
<1>1. ASSUME NEW T \in SUBSET S, \A U \in SUBSET T : U # T => U \in P, NEW x \in T
      PROVE  g[T] = f[x] + g[T \ {x}]
  <2> DEFINE c == NextOf(T)
  <2>1. c \in T /\ g[T] = f[c] + g[T \ {c}]
    BY NextIn DEF SumsOf, SumStep
  <2> HIDE DEF c
  <2>2. CASE x = c
    BY <2>1, <2>2
  <2>3. CASE x # c
    <3>1. g[T \ {c}] = f[x] + g[(T \ {c}) \ {x}]
      BY <1>1, <2>1, <2>3
    <3>2. g[T \ {x}] = f[c] + g[(T \ {x}) \ {c}]
      BY <1>1, <2>1, <2>3
    <3>3. (T \ {x}) \ {c} = (T \ {c}) \ {x}
      OBVIOUS
    <3>4. f[x] \in Int /\ f[c] \in Int
      BY <2>1 DEF IntsOn
    <3>5. g[(T \ {c}) \ {x}] \in Int
      BY <2>1
    <3>6. g[T] = f[c] + (f[x] + g[(T \ {c}) \ {x}])
      BY <2>1, <3>1
    <3>7. g[T \ {x}] = f[c] + g[(T \ {c}) \ {x}]
      BY <3>2, <3>3
    <3> HIDE DEF P
    <3> QED
      BY <3>4, <3>5, <3>6, <3>7
  <2> QED
    BY <2>2, <2>3
<1>2. \A T \in SUBSET S : T \in P
  <2>1. ASSUME NEW T \in SUBSET S, \A U \in SUBSET T : U # T => U \in P PROVE T \in P
    BY <1>1, <2>1
  <2> HIDE DEF P
  <2> QED
    BY <2>1, SubsetInduction
<1> QED
  BY <1>2

\* Two sums of functions that agree are equal, whatever larger sets they are taken over.
LEMMA SumsAgree ==
    ASSUME NEW S, NEW R, NEW T \in SUBSET (S \cap R), IsFiniteSet(T),
           NEW f, NEW e, \A x \in T : f[x] = e[x],
           NEW g, SumsOf(f, S, g), NEW h, SumsOf(e, R, h)
    PROVE  g[T] = h[T]
<1> DEFINE P == {U \in SUBSET T : g[U] = h[U]}
<1>1. ASSUME NEW U \in SUBSET T, \A V \in SUBSET U : V # U => V \in P PROVE U \in P
  <2>1. U \in SUBSET S /\ U \in SUBSET R
    OBVIOUS
  <2>2. g[U] = SumStep(f, g, U) /\ h[U] = SumStep(e, h, U)
    BY <2>1 DEF SumsOf
  <2>3. CASE U = {}
    BY <2>2, <2>3 DEF SumStep
  <2>4. CASE U # {}
    <3>1. NextOf(U) \in U /\ U \ {NextOf(U)} \in P
      BY <1>1, <2>4, NextIn
    <3> QED
      BY <2>2, <2>4, <3>1 DEF SumStep
  <2> QED
    BY <2>3, <2>4
<1>2. \A U \in SUBSET T : U \in P
  <2> HIDE DEF P
  <2> QED
    BY <1>1, SubsetInduction
<1> QED
  BY <1>2

-----------------------------------------------------------------------------
(* What proofs use.                                                        *)

\* A sum depends on the values at its elements only.
LEMMA SumSame ==
    ASSUME NEW S, IsFiniteSet(S), NEW f, NEW e, IntsOn(f, S), \A x \in S : f[x] = e[x]
    PROVE  Sum(f, S) = Sum(e, S)
<1>1. PICK g : Sums(f, S, g) /\ Sum(f, S) = g[S]
  BY SumsExist
<1>2. PICK h : Sums(e, S, h) /\ Sum(e, S) = h[S]
  <2>1. IntsOn(e, S)
    BY DEF IntsOn
  <2> QED
    BY <2>1, SumsExist
<1>3. S \in SUBSET (S \cap S) /\ \A x \in S : f[x] = e[x]
  OBVIOUS
<1> QED
  BY <1>1, <1>2, <1>3, SumsAgree DEF Sums

\* The sum over no elements.
LEMMA SumNone == ASSUME NEW f PROVE Sum(f, {}) = 0
<1>1. IsFiniteSet({}) /\ IntsOn(f, {})
  BY FS_EmptySet DEF IntsOn
<1>2. PICK g : Sums(f, {}, g) /\ Sum(f, {}) = g[{}]
  BY <1>1, SumsExist
<1> QED
  BY <1>2 DEF Sums, SumsOf, SumStep

\* One element more.
LEMMA SumAdd ==
    ASSUME NEW S, IsFiniteSet(S), NEW x, x \notin S, NEW f, IntsOn(f, S \cup {x})
    PROVE  Sum(f, S) \in Int /\ Sum(f, S \cup {x}) = Sum(f, S) + f[x]
<1> DEFINE R == S \cup {x}
<1>1. IntsOn(f, S) /\ f[x] \in Int
  BY DEF IntsOn
<1>2. IsFiniteSet(R)
  BY FS_AddElement
<1>3. PICK g : Sums(f, S, g) /\ Sum(f, S) = g[S]
  BY <1>1, SumsExist
<1>4. PICK h : Sums(f, R, h) /\ Sum(f, R) = h[R]
  BY <1>2, SumsExist
<1>5. S \in SUBSET (S \cap R) /\ R \in SUBSET R /\ x \in R /\ R \ {x} = S
  OBVIOUS
<1>6. g[S] = h[S]
  BY <1>3, <1>4, <1>5, SumsAgree DEF Sums
<1>7. IntsOn(f, R)
  OBVIOUS
<1> HIDE DEF R
<1>8. h[R] = f[x] + h[S]
  <2>1. R \in SUBSET R /\ x \in R
    BY <1>5
  <2>2. h[R] = f[x] + h[R \ {x}]
    BY <1>2, <1>4, <1>7, <2>1, SumsRemove
  <2> QED
    BY <1>5, <2>2
<1>9. f[x] \in Int /\ g[S] \in Int /\ Sum(f, R) = Sum(f, S) + f[x]
  <2>1. g[S] \in Int
    BY <1>3 DEF Sums
  <2> QED
    BY <2>1, <1>1, <1>3, <1>4, <1>5, <1>6, <1>7, <1>8
<1> QED
  BY <1>3, <1>9 DEF R

\* Disjoint sets.
LEMMA SumUnion ==
    ASSUME NEW S, IsFiniteSet(S), NEW T, IsFiniteSet(T), S \cap T = {},
           NEW f, IntsOn(f, S \cup T)
    PROVE  /\ Sum(f, S) \in Int /\ Sum(f, T) \in Int
           /\ Sum(f, S \cup T) = Sum(f, S) + Sum(f, T)
<1> DEFINE P == {U \in SUBSET T : Sum(f, U) \in Int /\ Sum(f, S \cup U) = Sum(f, S) + Sum(f, U)}
<1>1. Sum(f, S) \in Int
  <2>1. IntsOn(f, S)
    BY DEF IntsOn
  <2>2. PICK g : Sums(f, S, g) /\ Sum(f, S) = g[S]
    BY <2>1, SumsExist
  <2> QED
    BY <2>2 DEF Sums
<1>2. ASSUME NEW U \in SUBSET T, \A V \in SUBSET U : V # U => V \in P PROVE U \in P
  <2>1. CASE U = {}
    <3>1. S \cup U = S /\ Sum(f, U) = 0
      BY <2>1, SumNone
    <3>2. Sum(f, S \cup U) = Sum(f, S)
      <4> HIDE DEF P
      <4> QED
        BY <3>1
    <3>3. Sum(f, S \cup U) = Sum(f, S) + Sum(f, U)
      BY <1>1, <3>1, <3>2
    <3> QED
      BY <3>1, <3>3
  <2>2. CASE U # {}
    <3>1. PICK x : x \in U
      BY <2>2
    <3> DEFINE V == U \ {x}
    <3>2. /\ V \in P /\ V \cup {x} = U /\ (S \cup V) \cup {x} = S \cup U
          /\ x \notin V /\ x \notin S \cup V
          /\ IntsOn(f, V \cup {x}) /\ IntsOn(f, (S \cup V) \cup {x})
      BY <1>2, <3>1 DEF IntsOn
    <3>3. IsFiniteSet(U) /\ IsFiniteSet(V) /\ IsFiniteSet(S \cup V)
      BY FS_Subset, FS_Union
    <3>4. Sum(f, V) \in Int /\ Sum(f, U) = Sum(f, V) + f[x]
      BY <3>2, <3>3, SumAdd
    <3>5. Sum(f, S \cup V) \in Int /\ Sum(f, S \cup U) = Sum(f, S \cup V) + f[x]
      BY <3>2, <3>3, SumAdd
    <3>6. f[x] \in Int /\ Sum(f, S \cup V) = Sum(f, S) + Sum(f, V)
      BY <3>1, <3>2 DEF IntsOn
    <3> HIDE DEF V
    <3>7. Sum(f, U) \in Int /\ Sum(f, S \cup U) = Sum(f, S) + Sum(f, U)
      BY <1>1, <3>4, <3>5, <3>6
    <3> QED
      BY <3>7
  <2> QED
    BY <2>1, <2>2
<1>3. \A U \in SUBSET T : U \in P
  <2> HIDE DEF P
  <2> QED
    BY <1>2, SubsetInduction
<1> QED
  BY <1>1, <1>3

\* Sums of naturals are naturals.
LEMMA SumNat ==
    ASSUME NEW S, IsFiniteSet(S), NEW f, \A x \in S : f[x] \in Nat
    PROVE  Sum(f, S) \in Nat
<1> DEFINE P == {U \in SUBSET S : Sum(f, U) \in Nat}
<1>1. ASSUME NEW U \in SUBSET S, \A V \in SUBSET U : V # U => V \in P PROVE U \in P
  <2>1. CASE U = {}
    BY <2>1, SumNone
  <2>2. CASE U # {}
    <3>1. PICK x : x \in U
      BY <2>2
    <3> DEFINE V == U \ {x}
    <3>2. V \in P /\ V \cup {x} = U /\ x \notin V /\ IntsOn(f, V \cup {x})
      BY <1>1, <3>1 DEF IntsOn
    <3>3. IsFiniteSet(V)
      BY FS_Subset
    <3>4. Sum(f, U) = Sum(f, V) + f[x]
      BY <3>2, <3>3, SumAdd
    <3> QED
      BY <3>1, <3>2, <3>4
  <2> QED
    BY <2>1, <2>2
<1>2. \A U \in SUBSET S : U \in P
  <2> HIDE DEF P
  <2> QED
    BY <1>1, SubsetInduction
<1> QED
  BY <1>2

\* More of them sum up to no less.
LEMMA SumMonotone ==
    ASSUME NEW S, IsFiniteSet(S), NEW T \in SUBSET S, NEW f, \A x \in S : f[x] \in Nat
    PROVE  Sum(f, T) <= Sum(f, S)
<1>1. IsFiniteSet(T) /\ IsFiniteSet(S \ T)
  BY FS_Subset
<1>2. T \cup (S \ T) = S /\ T \cap (S \ T) = {} /\ IntsOn(f, T \cup (S \ T))
  BY DEF IntsOn
<1>3. Sum(f, S) = Sum(f, T) + Sum(f, S \ T)
  BY <1>1, <1>2, SumUnion
<1>4. Sum(f, T) \in Nat /\ Sum(f, S \ T) \in Nat
  BY <1>1, SumNat
<1> QED
  BY <1>3, <1>4

\* Counted through an injective naming of their elements, sums are the same.
LEMMA SumImage ==
    ASSUME NEW S, IsFiniteSet(S), NEW n, NEW f, NEW e,
           \A x \in S : e[x] \in Nat /\ e[x] = f[n[x]],
           \A x, y \in S : n[x] = n[y] => x = y
    PROVE  /\ IsFiniteSet({n[x] : x \in S})
           /\ Sum(e, S) = Sum(f, {n[x] : x \in S})
<1> DEFINE P == {U \in SUBSET S : /\ IsFiniteSet({n[x] : x \in U})
                                 /\ Sum(e, U) = Sum(f, {n[x] : x \in U})}
<1>1. ASSUME NEW U \in SUBSET S, \A V \in SUBSET U : V # U => V \in P PROVE U \in P
  <2>1. CASE U = {}
    <3>1. {n[x] : x \in U} = {}
      BY <2>1
    <3> QED
      BY <2>1, <3>1, SumNone, FS_EmptySet
  <2>2. CASE U # {}
    <3>1. PICK x : x \in U
      BY <2>2
    <3> DEFINE V == U \ {x}
               N == {n[y] : y \in V}
    <3>2. V \in P
      BY <1>1, <3>1
    <3>3. IsFiniteSet(N) /\ Sum(e, V) = Sum(f, N)
      BY <3>2
    <3>4. V \cup {x} = U /\ x \notin V
      BY <3>1
    <3>5. IntsOn(e, V \cup {x})
      BY <3>1 DEF IntsOn
    <3>6. IsFiniteSet(V)
      BY FS_Subset
    <3>7. Sum(e, U) = Sum(e, V) + e[x]
      <4> HIDE DEF P, V, N
      <4> QED
        BY <3>4, <3>5, <3>6, SumAdd
    <3>8. {n[y] : y \in U} = N \cup {n[x]}
      BY <3>1
    <3>9. n[x] \notin N
      BY <3>1
    <3>10. IntsOn(f, N \cup {n[x]})
      BY <3>1 DEF IntsOn
    <3>11. Sum(f, N \cup {n[x]}) = Sum(f, N) + f[n[x]]
      <4> DEFINE m == n[x]
      <4>1. IsFiniteSet(N) /\ m \notin N /\ IntsOn(f, N \cup {m})
        BY <3>3, <3>9, <3>10
      <4> HIDE DEF P, V, N, m
      <4>2. Sum(f, N \cup {m}) = Sum(f, N) + f[m]
        BY <4>1, SumAdd
      <4> QED
        BY <4>2 DEF m
    <3>12. IsFiniteSet(N \cup {n[x]})
      <4> HIDE DEF N
      <4> QED
        BY <3>3, FS_AddElement
    <3>13. e[x] = f[n[x]]
      BY <3>1
    <3> QED
      BY <3>3, <3>7, <3>8, <3>11, <3>12, <3>13
  <2> QED
    BY <2>1, <2>2
<1>2. \A U \in SUBSET S : U \in P
  <2> HIDE DEF P
  <2> QED
    BY <1>1, SubsetInduction
<1> QED
  BY <1>2

-----------------------------------------------------------------------------
(* Types.                                                                  *)

\* The columns, and that a key without a row keeps no receipt: evidence of a
\* pruned row would otherwise conflict with a new one of the same key.
ColumnsInv ==
    /\ Columns
    /\ \A k \in Keys : state[k] = NoRow => receipt[k] = NoReceipt

\* Removing rows from a typed column leaves a typed column.
LEMMA WithoutTyped ==
    ASSUME NEW S, NEW table \in [Keys -> S], NEW gone, NEW null \in S
    PROVE  Without(table, gone, null) \in [Keys -> S]
BY DEF Without

\* Merged evidence is evidence.
LEMMA MergeTyped ==
    ASSUME NEW old \in Receipt, NEW new \in Receipt
    PROVE  Merge(old, new) \in Receipt
BY DEF Merge, Receipt

\* A terminal state has no way out.
LEMMA TerminalHasNoExit ==
    ASSUME NEW s \in Terminal PROVE allowedTransitions[s] = {}
BY DEF allowedTransitions, Terminal, States

\* An empty journal has typed columns and no receipt without a row.
LEMMA ColumnsInit == Init => ColumnsInv
BY JournalAssumption DEF Init, ColumnsInv, Columns, NoReceipt, Receipt

\* Dropping DUST rows keeps the types of their columns.
LEMMA DropDustTyped ==
    ASSUME Columns, NEW gone, DropDust(gone)
    PROVE  /\ dust' \in [Keys -> DustStates \cup {NoRow}]
           /\ amount' \in [Keys -> Nat] /\ spentAt' \in [Keys -> Nat]
BY WithoutTyped DEF DropDust, Columns

\* Every call keeps the columns typed, and no receipt without a row.
LEMMA ColumnsStep == ColumnsInv /\ [Next]_vars => ColumnsInv'
<1>. SUFFICES ASSUME ColumnsInv, [Next]_vars PROVE ColumnsInv'
  OBVIOUS
<1>. USE JournalAssumption
<1>0. Columns
  BY DEF ColumnsInv
<1>1. CASE UNCHANGED vars
  BY <1>1 DEF ColumnsInv, Columns, vars, opVars, dustVars
<1>2. ASSUME NEW k \in Keys, NEW ttl \in now + 1 .. now + MaxTtl, NEW r \in Receipt,
             createPrepared(k, ttl, r)
      PROVE  ColumnsInv'
  <2>1. ttl + Margin \in Nat /\ "PREPARED" \in States /\ "PREPARED" # NoRow
    BY <1>0 DEF Columns, States, NoRow
  <2>. QED
    BY <1>0, <1>2, <2>1 DEF createPrepared, ColumnsInv, Columns, dustVars
<1>3. ASSUME NEW k \in Keys, NEW expected \in States, NEW next \in States,
             NEW r \in Receipt, transition(k, expected, next, r)
      PROVE  ColumnsInv'
  <2>1. Merge(receipt[k], r) \in Receipt /\ next # NoRow
    BY <1>0, MergeTyped DEF Columns, States, NoRow
  <2>. QED
    BY <1>0, <1>3, <2>1 DEF transition, ColumnsInv, Columns, dustVars
<1>4. ASSUME NEW k \in Keys, NEW r \in Receipt, recordReceipt(k, r) PROVE ColumnsInv'
  <2>1. Merge(receipt[k], r) \in Receipt
    BY <1>0, MergeTyped DEF Columns
  <2>. QED
    BY <1>0, <1>4, <2>1 DEF recordReceipt, ColumnsInv, Columns, dustVars
<1>5. ASSUME NEW k \in Keys, NEW a \in Amounts, reserveDust(k, a) PROVE ColumnsInv'
  <2>1. a \in Nat /\ "RESERVED" \in DustStates
    BY DEF DustStates
  <2>. QED
    BY <1>0, <1>5, <2>1 DEF reserveDust, ColumnsInv, Columns, opVars
<1>6. ASSUME NEW k \in Keys, markDustSpent(k) PROVE ColumnsInv'
  <2>1. [key |-> k, amount |-> amount[k], at |-> now] \in [key : Keys, amount : Nat, at : Nat]
    BY <1>0 DEF Columns
  <2>. QED
    BY <1>0, <1>6, <2>1 DEF markDustSpent, ColumnsInv, Columns, opVars, DustStates
<1>7. ASSUME NEW k \in Keys, releaseDust(k) PROVE ColumnsInv'
  BY <1>0, <1>7 DEF releaseDust, ColumnsInv, Columns, opVars, DustStates
<1>8. CASE pruneTerminal
  <2>. DEFINE gone == {k \in Keys : Prunable(k)}
  <2>1. /\ state' = Without(state, gone, NoRow)
        /\ retention' = Without(retention, gone, 0)
        /\ receipt' = Without(receipt, gone, NoReceipt)
        /\ DropDust(gone) /\ UNCHANGED <<now, spends>>
    BY <1>8 DEF pruneTerminal
  <2>. HIDE DEF gone
  <2>2. NoReceipt \in Receipt
    BY DEF NoReceipt, Receipt
  <2>3. /\ state' \in [Keys -> States \cup {NoRow}] /\ retention' \in [Keys -> Nat]
        /\ receipt' \in [Keys -> Receipt]
    BY <1>0, <2>1, <2>2, WithoutTyped DEF Columns
  <2>4. \A k \in Keys : state'[k] = NoRow => receipt'[k] = NoReceipt
    BY <2>1 DEF Without, ColumnsInv
  <2>. QED
    BY <1>0, <2>1, <2>3, <2>4, DropDustTyped DEF ColumnsInv, Columns
<1>9. CASE pruneDust
  BY <1>0, <1>9, DropDustTyped DEF pruneDust, ColumnsInv, Columns, opVars
<1>10. CASE Tick
  BY <1>0, <1>10 DEF Tick, ColumnsInv, Columns, opVars, dustVars
<1>. QED
  BY <1>1, <1>2, <1>3, <1>4, <1>5, <1>6, <1>7, <1>8, <1>9, <1>10
     DEF Next, OperationCalls, DustCalls

\* The columns are typed in every state.
LEMMA ColumnsAlways == Spec => []ColumnsInv
BY ColumnsInit, ColumnsStep, PTL DEF Spec

-----------------------------------------------------------------------------
\* A terminal row stays as it is until it is pruned, whatever older copies of
\* it the callers of transition() still act on.
THEOREM TerminalStaysFinal == Spec => TerminalIsFinal
<1>. DEFINE Kept == \A k \in Keys : state[k] \in Terminal => state'[k] \in {state[k], NoRow}
<1>1. ColumnsInv /\ [Next]_vars => Kept
  <2>. SUFFICES ASSUME ColumnsInv, [Next]_vars PROVE Kept
    OBVIOUS
  <2>0. state \in [Keys -> States \cup {NoRow}] /\ NoRow \notin Terminal
    BY DEF ColumnsInv, Columns, NoRow, Terminal
  <2>1. ASSUME NEW k \in Keys, NEW ttl, NEW r, createPrepared(k, ttl, r) PROVE Kept
    BY <2>0, <2>1 DEF createPrepared
  <2>2. ASSUME NEW k \in Keys, NEW expected \in States, NEW next \in States, NEW r,
               transition(k, expected, next, r)
        PROVE  Kept
    <3>1. state[k] \notin Terminal
      BY <2>2, TerminalHasNoExit DEF transition, Cas
    <3>. QED
      BY <2>0, <2>2, <3>1 DEF transition
  <2>3. CASE pruneTerminal
    BY <2>0, <2>3 DEF pruneTerminal, Without
  <2>4. CASE UNCHANGED state
    BY <2>4
  <2>5. \/ UNCHANGED state \/ pruneTerminal
        \/ \E k \in Keys, r \in Receipt :
              \/ \E ttl \in now + 1 .. now + MaxTtl : createPrepared(k, ttl, r)
              \/ \E expected, next \in States : transition(k, expected, next, r)
    BY DEF Next, OperationCalls, DustCalls, recordReceipt, reserveDust, markDustSpent,
           releaseDust, pruneDust, Tick, vars, opVars
  <2>. QED
    BY <2>1, <2>2, <2>3, <2>4, <2>5
<1>2. ColumnsInv /\ [Next]_vars => [Kept]_vars
  BY <1>1
<1>. QED
  BY ColumnsAlways, <1>2, PTL DEF Spec, TerminalIsFinal

\* Recorded evidence is never replaced while its row lives: a receipt is
\* written when no conflict is found, and keeps the fields it had.
THEOREM EvidenceStaysKept == Spec => EvidenceKept
<1>. DEFINE Kept == \A k \in Keys, f \in Fields :
                       state'[k] # NoRow /\ receipt[k][f] # Null
                         => receipt'[k][f] = receipt[k][f]
<1>1. ColumnsInv /\ [Next]_vars => Kept
  <2>. SUFFICES ASSUME ColumnsInv, [Next]_vars PROVE Kept
    OBVIOUS
  <2>0. receipt \in [Keys -> Receipt]
    BY DEF ColumnsInv, Columns
  <2>1. ASSUME NEW k \in Keys, NEW ttl, NEW r, createPrepared(k, ttl, r) PROVE Kept
    <3>1. \A f \in Fields : receipt[k][f] = Null
      BY <2>1 DEF createPrepared, ColumnsInv, NoReceipt
    <3>. QED
      BY <2>0, <2>1, <3>1 DEF createPrepared
  <2>2. ASSUME NEW k \in Keys, NEW r, Compatible(receipt[k], r),
               receipt' = [receipt EXCEPT ![k] = Merge(receipt[k], r)]
        PROVE  Kept
    BY <2>0, <2>2 DEF Compatible, Merge
  <2>3. CASE pruneTerminal
    BY <2>0, <2>3 DEF pruneTerminal, Without
  <2>4. CASE UNCHANGED receipt
    BY <2>4
  <2>5. \/ UNCHANGED receipt \/ pruneTerminal
        \/ \E k \in Keys, r \in Receipt :
              \/ \E ttl \in now + 1 .. now + MaxTtl : createPrepared(k, ttl, r)
              \/ /\ Compatible(receipt[k], r)
                 /\ receipt' = [receipt EXCEPT ![k] = Merge(receipt[k], r)]
    BY DEF Next, OperationCalls, DustCalls, transition, recordReceipt, reserveDust,
           markDustSpent, releaseDust, pruneDust, Tick, vars, opVars
  <2>. QED
    BY <2>1, <2>2, <2>3, <2>4, <2>5
<1>2. ColumnsInv /\ [Next]_vars => [Kept]_vars
  BY <1>1
<1>. QED
  BY ColumnsAlways, <1>2, PTL DEF Spec, EvidenceKept

-----------------------------------------------------------------------------
\* A DUST row exists only beside its operation: reserveDust requires it, and
\* pruneTerminal leaves an operation that still has one.
THEOREM DustStaysBacked == Spec => []DustBacked
<1>1. Init => DustBacked
  BY DEF Init, DustBacked
<1>2. ColumnsInv /\ DustBacked /\ [Next]_vars => DustBacked'
  <2>. SUFFICES ASSUME ColumnsInv, DustBacked, [Next]_vars PROVE DustBacked'
    OBVIOUS
  <2>0. /\ state \in [Keys -> States \cup {NoRow}] /\ NoRow \notin States
        /\ dust \in [Keys -> DustStates \cup {NoRow}]
    BY DEF ColumnsInv, Columns, NoRow, States
  <2>1. ASSUME NEW k \in Keys, NEW ttl, NEW r, createPrepared(k, ttl, r) PROVE DustBacked'
    BY <2>0, <2>1 DEF createPrepared, DustBacked, dustVars, NoRow
  <2>2. ASSUME NEW k \in Keys, NEW expected, NEW next \in States, NEW r,
               transition(k, expected, next, r)
        PROVE  DustBacked'
    BY <2>0, <2>2 DEF transition, DustBacked, dustVars
  <2>3. ASSUME NEW k \in Keys, NEW r, recordReceipt(k, r) PROVE DustBacked'
    BY <2>3 DEF recordReceipt, DustBacked, dustVars
  <2>4. ASSUME NEW k \in Keys, NEW a, reserveDust(k, a) PROVE DustBacked'
    BY <2>0, <2>4 DEF reserveDust, Journaled, DustBacked, opVars
  <2>5. ASSUME NEW k \in Keys, markDustSpent(k) \/ releaseDust(k) PROVE DustBacked'
    BY <2>0, <2>5 DEF markDustSpent, releaseDust, DustBacked, opVars, NoRow
  <2>6. CASE pruneTerminal
    BY <2>0, <2>6 DEF pruneTerminal, DropDust, Without, Prunable, DustBacked
  <2>7. CASE pruneDust
    BY <2>0, <2>7 DEF pruneDust, DropDust, Without, DustBacked, opVars
  <2>8. CASE Tick \/ UNCHANGED vars
    BY <2>8 DEF Tick, vars, opVars, dustVars, DustBacked
  <2>. QED
    BY <2>1, <2>2, <2>3, <2>4, <2>5, <2>6, <2>7, <2>8 DEF Next, OperationCalls, DustCalls
<1>. QED
  BY ColumnsAlways, <1>1, <1>2, PTL DEF Spec

\* A reservation leaves the journal by its outcome alone, and a spend once the
\* window that admission counts has passed it (pruneTerminal, pruneDust).
THEOREM ReservationStaysKept == Spec => ReservationKept
<1>. DEFINE Kept == \A k \in Keys :
                       /\ dust[k] = "RESERVED" => dust'[k] \in DustStates
                       /\ dust[k] = "SPENT" /\ spentAt[k] > Cutoff => dust'[k] = "SPENT"
<1>1. ColumnsInv /\ [Next]_vars => Kept
  <2>. SUFFICES ASSUME ColumnsInv, [Next]_vars PROVE Kept
    OBVIOUS
  <2>0. /\ dust \in [Keys -> DustStates \cup {NoRow}] /\ NoRow \notin DustStates
        /\ \A k \in Keys : spentAt[k] \in Nat
        /\ {"RESERVED", "SPENT", "RELEASED"} \subseteq DustStates /\ Cutoff \in Int
    BY JournalAssumption DEF ColumnsInv, Columns, NoRow, DustStates, Cutoff
  <2>1. ASSUME NEW k \in Keys, NEW a, reserveDust(k, a) PROVE Kept
    BY <2>0, <2>1 DEF reserveDust, NoRow
  <2>2. ASSUME NEW k \in Keys, markDustSpent(k) \/ releaseDust(k) PROVE Kept
    BY <2>0, <2>2 DEF markDustSpent, releaseDust
  <2>3. CASE pruneTerminal
    BY <2>0, <2>3 DEF pruneTerminal, DropDust, Without, Prunable, NoRow
  <2>4. CASE pruneDust
    BY <2>0, <2>4 DEF pruneDust, DropDust, Without, DustPrunable
  <2>5. CASE UNCHANGED dust
    BY <2>0, <2>5
  <2>. QED
    BY <2>1, <2>2, <2>3, <2>4, <2>5
       DEF Next, OperationCalls, DustCalls, createPrepared, transition, recordReceipt,
           Tick, vars, dustVars
<1>2. ColumnsInv /\ [Next]_vars => [Kept]_vars
  BY <1>1
<1>. QED
  BY ColumnsAlways, <1>2, PTL DEF Spec, ReservationKept

-----------------------------------------------------------------------------
(* The row ceiling and the DUST budget.                                    *)

\* What #assertWithinCeilings counts is a finite number of rows, and within the ceiling.
Ceiling == IsFiniteSet(Rows) /\ IsFiniteSet(DustRows) /\ WithinCeiling

\* Fewer rows of both tables are within it too.
LEMMA FewerRows ==
    ASSUME Ceiling, Rows' \subseteq Rows, DustRows' \subseteq DustRows
    PROVE  Ceiling'
<1>1. /\ IsFiniteSet(Rows') /\ Cardinality(Rows') <= Cardinality(Rows)
      /\ IsFiniteSet(DustRows') /\ Cardinality(DustRows') <= Cardinality(DustRows)
  BY FS_Subset DEF Ceiling
<1>2. /\ Cardinality(Rows) \in Nat /\ Cardinality(Rows') \in Nat
      /\ Cardinality(DustRows) \in Nat /\ Cardinality(DustRows') \in Nat
  BY <1>1, FS_CardinalityType DEF Ceiling
<1>3. MaxRows \in Nat
  BY JournalAssumption
<1> QED
  BY <1>1, <1>2, <1>3 DEF Ceiling, WithinCeiling

\* One row more of either table fits where the call found room for it.
LEMMA OneRowMore ==
    ASSUME Ceiling, RoomForRow,
           \/ DustRows' = DustRows /\ \E k \in Keys : k \notin Rows /\ Rows' = Rows \cup {k}
           \/ Rows' = Rows /\ \E k \in Keys : k \notin DustRows /\ DustRows' = DustRows \cup {k}
    PROVE  Ceiling'
<1>1. Cardinality(Rows) \in Nat /\ Cardinality(DustRows) \in Nat /\ MaxRows \in Nat
  BY FS_CardinalityType, JournalAssumption DEF Ceiling
<1>2. ASSUME NEW S, IsFiniteSet(S), NEW k, k \notin S
      PROVE  IsFiniteSet(S \cup {k}) /\ Cardinality(S \cup {k}) = Cardinality(S) + 1
  BY <1>2, FS_AddElement
<1>3. CASE DustRows' = DustRows /\ \E k \in Keys : k \notin Rows /\ Rows' = Rows \cup {k}
  <2>1. IsFiniteSet(Rows') /\ Cardinality(Rows') = Cardinality(Rows) + 1
    BY <1>2, <1>3 DEF Ceiling
  <2> QED
    BY <1>1, <1>3, <2>1 DEF Ceiling, WithinCeiling, RoomForRow
<1>4. CASE Rows' = Rows /\ \E k \in Keys : k \notin DustRows /\ DustRows' = DustRows \cup {k}
  <2>1. IsFiniteSet(DustRows') /\ Cardinality(DustRows') = Cardinality(DustRows) + 1
    BY <1>2, <1>4 DEF Ceiling
  <2> QED
    BY <1>1, <1>4, <2>1 DEF Ceiling, WithinCeiling, RoomForRow
<1> QED
  BY <1>3, <1>4

\* Every call that adds a row looks for room first; the others add none.
LEMMA CeilingStep == ColumnsInv /\ Ceiling /\ [Next]_vars => Ceiling'
<1> SUFFICES ASSUME ColumnsInv, Ceiling, [Next]_vars PROVE Ceiling'
  OBVIOUS
<1>0. /\ state \in [Keys -> States \cup {NoRow}] /\ NoRow \notin States
      /\ dust \in [Keys -> DustStates \cup {NoRow}] /\ NoRow \notin DustStates
  BY DEF ColumnsInv, Columns, NoRow, States, DustStates
<1>1. ASSUME NEW k \in Keys, NEW ttl, NEW r, createPrepared(k, ttl, r) PROVE Ceiling'
  <2>1. k \notin Rows /\ Rows' = Rows \cup {k} /\ DustRows' = DustRows
    BY <1>0, <1>1 DEF createPrepared, Rows, DustRows, dustVars, NoRow
  <2> QED
    BY <1>1, <2>1, OneRowMore DEF createPrepared
<1>2. ASSUME NEW k \in Keys, NEW expected, NEW next \in States, NEW r,
             transition(k, expected, next, r)
      PROVE  Ceiling'
  <2>1. Rows' = Rows /\ DustRows' = DustRows
    BY <1>0, <1>2 DEF transition, Rows, DustRows, dustVars
  <2> QED
    BY <2>1, FewerRows
<1>3. ASSUME NEW k \in Keys, NEW a, reserveDust(k, a) PROVE Ceiling'
  <2>1. k \notin DustRows /\ DustRows' = DustRows \cup {k} /\ Rows' = Rows
    BY <1>0, <1>3 DEF reserveDust, Rows, DustRows, opVars, NoRow
  <2> QED
    BY <1>3, <2>1, OneRowMore DEF reserveDust
<1>4. ASSUME NEW k \in Keys, markDustSpent(k) \/ releaseDust(k) PROVE Ceiling'
  <2>1. Rows' = Rows /\ DustRows' = DustRows
    BY <1>0, <1>4 DEF markDustSpent, releaseDust, Rows, DustRows, opVars, NoRow
  <2> QED
    BY <2>1, FewerRows
<1>5. CASE pruneTerminal
  <2>1. Rows' \subseteq Rows /\ DustRows' \subseteq DustRows
    BY <1>0, <1>5 DEF pruneTerminal, DropDust, Without, Rows, DustRows
  <2> QED
    BY <2>1, FewerRows
<1>6. CASE pruneDust
  <2>1. Rows' \subseteq Rows /\ DustRows' \subseteq DustRows
    BY <1>0, <1>6 DEF pruneDust, DropDust, Without, Rows, DustRows, opVars
  <2> QED
    BY <2>1, FewerRows
<1>7. CASE UNCHANGED <<state, dust>>
  <2>1. Rows' = Rows /\ DustRows' = DustRows
    BY <1>7 DEF Rows, DustRows
  <2> QED
    BY <2>1, FewerRows
<1> QED
  BY <1>1, <1>2, <1>3, <1>4, <1>5, <1>6, <1>7
     DEF Next, OperationCalls, DustCalls, recordReceipt, Tick, vars, opVars, dustVars

\* The columns keep their types, and the two tables together never exceed the row ceiling:
\* each call that adds a row counts both tables in its own transaction.
THEOREM JournalTyped == Spec => []TypeOK
<1>1. Init => Ceiling
  <2> SUFFICES ASSUME Init PROVE Ceiling
    OBVIOUS
  <2>1. Rows = {} /\ DustRows = {}
    BY DEF Init, Rows, DustRows
  <2>2. IsFiniteSet({}) /\ Cardinality({}) = 0
    BY FS_EmptySet
  <2> QED
    BY <2>1, <2>2, JournalAssumption DEF Ceiling, WithinCeiling
<1>2. ColumnsInv /\ Ceiling => TypeOK
  BY DEF ColumnsInv, Ceiling, TypeOK
<1> QED
  BY ColumnsAlways, CeilingStep, <1>1, <1>2, PTL DEF Spec

\* The two sums of DustBudget, and the one that reserveDust checks.
Reserved == {k \in Keys : dust[k] = "RESERVED"}
Recent == {s \in spends : s.at > Cutoff}
InWindow == {k \in Keys : dust[k] = "SPENT" /\ spentAt[k] > Cutoff}
SpentAmounts == [s \in spends |-> s.amount]
Budget == Sum(amount, Reserved) + Sum(SpentAmounts, Recent) <= MaxPerWindow

\* A spend that a window still contains has its row, unchanged: the ceiling of the window
\* is checked against the rows, and promised of the spends.
SpendsHeld ==
    \A s \in spends : s.at > Cutoff =>
        dust[s.key] = "SPENT" /\ spentAt[s.key] = s.at /\ amount[s.key] = s.amount
BudgetInv == now >= 1 /\ IsFiniteSet(spends) /\ SpendsHeld /\ Budget
JournalInv == ColumnsInv /\ Ceiling /\ BudgetInv

\* A sum over some of the spends.
LEMMA SpentIsSum ==
    ASSUME NEW B \in SUBSET spends
    PROVE  MapThenSumSet(LAMBDA s : s.amount, B) = Sum(SpentAmounts, B)
<1> DEFINE Eq(g) == g = [t \in SUBSET B |-> IF t = {} THEN 0 ELSE
                      (CHOOSE x \in t : TRUE).amount + g[t \ {CHOOSE x \in t : TRUE}]]
<1>1. MapThenSumSet(LAMBDA s : s.amount, B) = (CHOOSE g : Eq(g))[B]
  BY DEF MapThenSumSet, MapThenFoldSet
<1>2. ASSUME NEW g PROVE Eq(g) <=> SumsOf(SpentAmounts, B, g)
  <2>1. ASSUME NEW t \in SUBSET B, t # {} PROVE SpentAmounts[NextOf(t)] = (CHOOSE x \in t : TRUE).amount
    <3>1. NextOf(t) \in spends
      BY <2>1, NextIn
    <3> QED
      BY <3>1 DEF SpentAmounts, NextOf
  <2>2. ASSUME NEW t \in SUBSET B
        PROVE  SumStep(SpentAmounts, g, t) = IF t = {} THEN 0 ELSE
                      (CHOOSE x \in t : TRUE).amount + g[t \ {CHOOSE x \in t : TRUE}]
    BY <2>1 DEF SumStep, NextOf
  <2> QED
    BY <2>2 DEF SumsOf
<1>3. (CHOOSE g : Eq(g)) = (CHOOSE g : SumsOf(SpentAmounts, B, g))
  <2> HIDE DEF Eq
  <2> QED
    BY <1>2
<1> QED
  BY <1>1, <1>3, SumUnfolds

\* DustBudget is the budget of these sums.
LEMMA BudgetIsDustBudget == Budget <=> DustBudget
<1>1. MapThenSumSet(LAMBDA k : amount[k], Reserved) = Sum(amount, Reserved)
  BY DEF Sum
<1>2. MapThenSumSet(LAMBDA s : s.amount, Recent) = Sum(SpentAmounts, Recent)
  BY SpentIsSum DEF Recent
<1> QED
  BY <1>1, <1>2 DEF Budget, DustBudget, Reserved, Recent

\* The sums are of naturals, over finite sets.
LEMMA BudgetTyped ==
    ASSUME JournalInv
    PROVE  /\ IsFiniteSet(Reserved) /\ IsFiniteSet(InWindow) /\ IsFiniteSet(Recent)
           /\ \A k \in Keys : amount[k] \in Nat
           /\ \A s \in spends : SpentAmounts[s] \in Nat /\ s.at \in Nat /\ s.key \in Keys
           /\ Sum(amount, Reserved) \in Nat /\ Sum(SpentAmounts, Recent) \in Nat
           /\ Cutoff \in Nat /\ Cutoff < now /\ MaxPerWindow \in Nat
<1>1. Reserved \subseteq DustRows /\ InWindow \subseteq DustRows /\ Recent \subseteq spends
  BY DEF Reserved, InWindow, Recent, DustRows, NoRow
<1>2. IsFiniteSet(Reserved) /\ IsFiniteSet(InWindow) /\ IsFiniteSet(Recent)
  BY <1>1, FS_Subset DEF JournalInv, Ceiling, BudgetInv
<1>3. \A k \in Keys : amount[k] \in Nat
  BY DEF JournalInv, ColumnsInv, Columns
<1>4. \A s \in spends : SpentAmounts[s] \in Nat /\ s.at \in Nat /\ s.key \in Keys
  BY DEF JournalInv, ColumnsInv, Columns, SpentAmounts
<1>5. Sum(amount, Reserved) \in Nat
  <2>1. \A k \in Reserved : amount[k] \in Nat
    BY <1>3 DEF Reserved
  <2> QED
    BY <1>2, <2>1, SumNat
<1>6. Sum(SpentAmounts, Recent) \in Nat
  <2>1. \A s \in Recent : SpentAmounts[s] \in Nat
    BY <1>4 DEF Recent
  <2> QED
    BY <1>2, <2>1, SumNat
<1>7. Cutoff \in Nat /\ Cutoff < now /\ MaxPerWindow \in Nat
  BY JournalAssumption DEF JournalInv, BudgetInv, ColumnsInv, Columns, Cutoff
<1> QED
  BY <1>2, <1>3, <1>4, <1>5, <1>6, <1>7

\* Where no reservation and no spend is added, the budget is kept.
LEMMA BudgetShrinks ==
    ASSUME JournalInv, Reserved' \subseteq Reserved, \A k \in Reserved' : amount'[k] = amount[k],
           spends' = spends, Cutoff' \in Nat, Cutoff' >= Cutoff
    PROVE  Budget'
<1> USE BudgetTyped
<1>1. Sum(amount', Reserved') = Sum(amount, Reserved') /\ Sum(amount, Reserved') <= Sum(amount, Reserved)
  <2>1. \A k \in Reserved : amount[k] \in Nat
    BY DEF Reserved
  <2>2. IsFiniteSet(Reserved')
    BY FS_Subset
  <2>3. IntsOn(amount, Reserved')
    BY <2>1 DEF IntsOn
  <2>4. Sum(amount, Reserved') = Sum(amount', Reserved')
    BY <2>2, <2>3, SumSame
  <2>5. Sum(amount, Reserved') <= Sum(amount, Reserved)
    BY <2>1, SumMonotone
  <2> QED
    BY <2>4, <2>5
<1>2. SpentAmounts' = SpentAmounts /\ Recent' \subseteq Recent
  BY DEF SpentAmounts, Recent
<1>3. Sum(SpentAmounts', Recent') <= Sum(SpentAmounts, Recent)
  <2>1. \A s \in Recent : SpentAmounts[s] \in Nat
    BY DEF Recent
  <2> QED
    BY <1>2, <2>1, SumMonotone
<1>4. Sum(amount', Reserved') \in Nat /\ Sum(SpentAmounts', Recent') \in Nat
  <2>1. IsFiniteSet(Reserved') /\ IsFiniteSet(Recent')
    BY <1>2, FS_Subset
  <2>2. \A k \in Reserved' : amount'[k] \in Nat
    BY DEF Reserved
  <2>3. \A s \in Recent' : SpentAmounts'[s] \in Nat
    BY <1>2 DEF Recent
  <2> QED
    BY <2>1, <2>2, <2>3, SumNat
<1> QED
  BY <1>1, <1>3, <1>4 DEF JournalInv, BudgetInv, Budget

\* What the window still contains of the spends is what reserveDust counts of their rows.
LEMMA SpentIsCounted ==
    ASSUME JournalInv
    PROVE  Sum(amount, Reserved) + Sum(SpentAmounts, Recent) <= Usage
<1> USE BudgetTyped
<1> DEFINE keyOf == [s \in Recent |-> s.key]
           named == {keyOf[s] : s \in Recent}
<1>1. /\ \A s \in Recent : SpentAmounts[s] \in Nat /\ SpentAmounts[s] = amount[keyOf[s]]
      /\ \A s, t \in Recent : keyOf[s] = keyOf[t] => s = t
  <2>1. ASSUME NEW s \in Recent
        PROVE  /\ s \in spends /\ keyOf[s] = s.key /\ SpentAmounts[s] = s.amount
               /\ spentAt[s.key] = s.at /\ amount[s.key] = s.amount
    BY DEF Recent, SpentAmounts, JournalInv, BudgetInv, SpendsHeld
  <2>2. spends \subseteq [key : Keys, amount : Nat, at : Nat]
    BY DEF JournalInv, ColumnsInv, Columns
  <2>3. ASSUME NEW s \in Recent, NEW t \in Recent, keyOf[s] = keyOf[t] PROVE s = t
    <3>1. s.key = t.key /\ s.at = t.at /\ s.amount = t.amount
      BY <2>1, <2>3
    <3>2. s \in [key : Keys, amount : Nat, at : Nat] /\ t \in [key : Keys, amount : Nat, at : Nat]
      BY <2>1, <2>2
    <3> QED
      BY <3>1, <3>2
  <2> QED
    BY <2>1, <2>3
<1>2. named \subseteq InWindow
  BY DEF Recent, InWindow, JournalInv, BudgetInv, SpendsHeld
<1>3. Sum(SpentAmounts, Recent) = Sum(amount, named)
  <2> HIDE DEF keyOf
  <2> QED
    BY <1>1, SumImage
<1> HIDE DEF named
<1>4. \A k \in InWindow : amount[k] \in Nat
  BY DEF InWindow
<1>5. Sum(amount, named) <= Sum(amount, InWindow) /\ Sum(amount, InWindow) \in Nat
  BY <1>2, <1>4, SumMonotone, SumNat
<1>6. Usage = Sum(amount, Reserved) + Sum(amount, InWindow)
  <2>1. {k \in Keys : Counts(k)} = Reserved \cup InWindow
    BY DEF Counts, Reserved, InWindow
  <2>2. Usage = Sum(amount, {k \in Keys : Counts(k)})
    BY DEF Usage, Sum
  <2>3. Reserved \cap InWindow = {} /\ IntsOn(amount, Reserved \cup InWindow)
    BY DEF Reserved, InWindow, IntsOn
  <2>4. Sum(amount, Reserved \cup InWindow) = Sum(amount, Reserved) + Sum(amount, InWindow)
    BY <2>3, SumUnion
  <2>5. Sum(amount, {k \in Keys : Counts(k)}) = Sum(amount, Reserved \cup InWindow)
    BY <2>1
  <2> QED
    BY <2>2, <2>4, <2>5
<1> QED
  BY <1>3, <1>5, <1>6

\* reserveDust admits what the window has room for.
LEMMA ReserveKeepsBudget ==
    ASSUME JournalInv, NEW k \in Keys, NEW a \in Amounts, reserveDust(k, a)
    PROVE  Budget'
<1> USE BudgetTyped
<1>0. dust \in [Keys -> DustStates \cup {NoRow}] /\ amount \in [Keys -> Nat] /\ a \in Nat
  BY JournalAssumption DEF JournalInv, ColumnsInv, Columns
<1>1. k \notin Reserved /\ Reserved' = Reserved \cup {k}
  BY <1>0 DEF reserveDust, Reserved, NoRow
<1>2. amount'[k] = a /\ \A j \in Reserved : amount[j] = amount'[j]
  BY <1>0, <1>1 DEF reserveDust, Reserved
<1>3. Sum(amount', Reserved) = Sum(amount, Reserved)
  <2>1. IntsOn(amount, Reserved)
    BY DEF IntsOn, Reserved
  <2> QED
    BY <1>2, <2>1, SumSame
<1>4. Sum(amount', Reserved') = Sum(amount', Reserved) + amount'[k]
  <2>1. IntsOn(amount', Reserved \cup {k})
    BY <1>0, <1>2 DEF IntsOn, Reserved
  <2>2. Sum(amount', Reserved \cup {k}) = Sum(amount', Reserved) + amount'[k]
    BY <1>1, <2>1, SumAdd
  <2> QED
    BY <1>1, <2>2
<1>5. SpentAmounts' = SpentAmounts /\ Recent' = Recent
  BY DEF reserveDust, opVars, SpentAmounts, Recent, Cutoff
<1>6. Usage + a <= MaxPerWindow /\ Usage \in Int
  <2>1. {j \in Keys : Counts(j)} = Reserved \cup InWindow /\ IsFiniteSet(Reserved \cup InWindow)
    BY FS_Union DEF Counts, Reserved, InWindow
  <2>2. \A j \in {i \in Keys : Counts(i)} : amount[j] \in Nat
    OBVIOUS
  <2>3. Sum(amount, {j \in Keys : Counts(j)}) \in Nat
    BY <2>1, <2>2, SumNat
  <2> QED
    BY <2>3 DEF reserveDust, Usage, Sum
<1> QED
  BY <1>0, <1>2, <1>3, <1>4, <1>5, <1>6, SpentIsCounted DEF Budget

\* markDustSpent moves an amount from one sum to the other.
LEMMA SpendKeepsBudget ==
    ASSUME JournalInv, NEW k \in Keys, markDustSpent(k)
    PROVE  Budget'
<1> USE BudgetTyped
<1> DEFINE x == [key |-> k, amount |-> amount[k], at |-> now]
<1>0. dust \in [Keys -> DustStates \cup {NoRow}]
  BY DEF JournalInv, ColumnsInv, Columns
<1>1. dust[k] = "RESERVED" /\ amount' = amount /\ now' = now /\ spends' = spends \cup {x}
  BY DEF markDustSpent
<1>2. Reserved' = Reserved \ {k} /\ k \in Reserved
  BY <1>0 DEF markDustSpent, Reserved
<1>3. Sum(amount, Reserved) = Sum(amount, Reserved') + amount[k] /\ Sum(amount, Reserved') \in Int
  <2> DEFINE R == Reserved \ {k}
  <2>1. IsFiniteSet(R) /\ k \notin R /\ R \cup {k} = Reserved
    BY <1>2, FS_Subset
  <2>2. IntsOn(amount, R \cup {k})
    BY DEF IntsOn, Reserved
  <2>3. Sum(amount, R \cup {k}) = Sum(amount, R) + amount[k] /\ Sum(amount, R) \in Int
    <3> HIDE DEF R
    <3> QED
      BY <2>1, <2>2, SumAdd
  <2>4. Sum(amount, R \cup {k}) = Sum(amount, Reserved)
    BY <2>1
  <2> QED
    BY <1>2, <2>3, <2>4
<1>4. x \notin spends
  BY <1>1 DEF JournalInv, BudgetInv, SpendsHeld
<1>5. Cutoff' = Cutoff
  BY <1>1 DEF Cutoff
<1>6. Recent' = Recent \cup {x} /\ x \notin Recent
  BY <1>1, <1>4, <1>5 DEF Recent
<1>7. SpentAmounts'[x] = amount[k] /\ \A s \in Recent : SpentAmounts[s] = SpentAmounts'[s]
  BY <1>1 DEF SpentAmounts, Recent
<1> HIDE DEF x
<1>8. Sum(SpentAmounts', Recent') = Sum(SpentAmounts, Recent) + amount[k]
  <2>1. IntsOn(SpentAmounts, Recent)
    BY DEF IntsOn, Recent
  <2>2. Sum(SpentAmounts, Recent) = Sum(SpentAmounts', Recent)
    BY <1>7, <2>1, SumSame
  <2>3. IntsOn(SpentAmounts', Recent \cup {x})
    BY <1>7, <2>1 DEF IntsOn
  <2>4. Sum(SpentAmounts', Recent \cup {x}) = Sum(SpentAmounts', Recent) + SpentAmounts'[x]
    BY <1>6, <2>3, SumAdd
  <2> QED
    BY <1>6, <1>7, <2>2, <2>4
<1>9. Sum(amount', Reserved') = Sum(amount, Reserved')
  BY <1>1
<1> QED
  BY <1>3, <1>8, <1>9 DEF JournalInv, BudgetInv, Budget

\* No call takes back the row of a spend that the window still contains.
LEMMA SpendsStayHeld == JournalInv /\ [Next]_vars => SpendsHeld' /\ now' >= 1 /\ IsFiniteSet(spends')
<1> SUFFICES ASSUME JournalInv, [Next]_vars PROVE SpendsHeld' /\ now' >= 1 /\ IsFiniteSet(spends')
  OBVIOUS
<1>0. /\ dust \in [Keys -> DustStates \cup {NoRow}] /\ amount \in [Keys -> Nat]
      /\ spentAt \in [Keys -> Nat] /\ now \in Nat /\ now >= 1 /\ IsFiniteSet(spends) /\ SpendsHeld
      /\ spends \subseteq [key : Keys, amount : Nat, at : Nat]
  BY DEF JournalInv, BudgetInv, ColumnsInv, Columns
<1> USE DEF SpendsHeld
<1>1. CASE UNCHANGED <<now, dust, amount, spentAt, spends>>
  BY <1>0, <1>1 DEF Cutoff
<1>2. ASSUME NEW k \in Keys, NEW a, reserveDust(k, a) PROVE SpendsHeld' /\ now' >= 1 /\ IsFiniteSet(spends')
  BY <1>0, <1>2 DEF reserveDust, Cutoff, NoRow
<1>3. ASSUME NEW k \in Keys, markDustSpent(k) PROVE SpendsHeld' /\ now' >= 1 /\ IsFiniteSet(spends')
  <2>1. IsFiniteSet(spends')
    BY <1>0, <1>3, FS_AddElement DEF markDustSpent
  <2>2. SpendsHeld' /\ now' >= 1
    BY <1>0, <1>3 DEF markDustSpent, Cutoff
  <2> QED
    BY <2>1, <2>2
<1>4. ASSUME NEW k \in Keys, releaseDust(k) PROVE SpendsHeld' /\ now' >= 1 /\ IsFiniteSet(spends')
  BY <1>0, <1>4 DEF releaseDust, Cutoff
<1>5. CASE pruneTerminal
  BY <1>0, <1>5 DEF pruneTerminal, DropDust, Without, Prunable, Cutoff, NoRow
<1>6. CASE pruneDust
  <2>1. spends' = spends /\ now' = now /\ Cutoff' = Cutoff /\ Cutoff \in Nat
    BY <1>6, BudgetTyped DEF pruneDust, Cutoff
  <2>2. ASSUME NEW s \in spends, s.at > Cutoff
        PROVE  /\ dust'[s.key] = dust[s.key] /\ amount'[s.key] = amount[s.key]
               /\ spentAt'[s.key] = spentAt[s.key]
    <3>1. s.key \in Keys /\ s.at \in Nat /\ dust[s.key] = "SPENT" /\ spentAt[s.key] = s.at
      BY <1>0, <2>2
    <3>2. ~DustPrunable(s.key)
      BY <2>1, <2>2, <3>1 DEF DustPrunable
    <3> QED
      BY <1>6, <3>1, <3>2 DEF pruneDust, DropDust, Without
  <2> QED
    BY <1>0, <2>1, <2>2
<1>7. CASE Tick
  BY <1>0, <1>7, JournalAssumption DEF Tick, Cutoff, dustVars
<1> QED
  BY <1>1, <1>2, <1>3, <1>4, <1>5, <1>6, <1>7
     DEF Next, OperationCalls, DustCalls, createPrepared, transition, recordReceipt, vars, dustVars

\* Only reserveDust adds to the budget.
LEMMA BudgetStep == JournalInv /\ [Next]_vars => Budget'
<1> SUFFICES ASSUME JournalInv, [Next]_vars PROVE Budget'
  OBVIOUS
<1>0. /\ dust \in [Keys -> DustStates \cup {NoRow}] /\ now \in Nat
      /\ amount \in [Keys -> Nat] /\ spentAt \in [Keys -> Nat] /\ Cutoff \in Nat
  BY BudgetTyped DEF JournalInv, ColumnsInv, Columns
<1>1. CASE UNCHANGED <<now, dust, amount, spends>>
  <2>1. Reserved' = Reserved /\ Cutoff' = Cutoff
    BY <1>1 DEF Reserved, Cutoff
  <2> QED
    BY <1>0, <1>1, <2>1, BudgetShrinks
<1>2. ASSUME NEW k \in Keys, releaseDust(k) PROVE Budget'
  <2>1. Reserved' \subseteq Reserved /\ Cutoff' = Cutoff /\ amount' = amount /\ spends' = spends
    BY <1>0, <1>2 DEF releaseDust, Reserved, Cutoff
  <2> QED
    BY <1>0, <2>1, BudgetShrinks
<1>3. CASE pruneTerminal
  <2>1. /\ Reserved' \subseteq Reserved /\ \A k \in Reserved' : amount'[k] = amount[k]
        /\ Cutoff' = Cutoff /\ spends' = spends
    BY <1>0, <1>3 DEF pruneTerminal, DropDust, Without, Reserved, Cutoff, NoRow
  <2> QED
    BY <1>0, <2>1, BudgetShrinks
<1>4. CASE pruneDust
  <2>1. /\ Reserved' \subseteq Reserved /\ \A k \in Reserved' : amount'[k] = amount[k]
        /\ Cutoff' = Cutoff /\ spends' = spends
    BY <1>0, <1>4 DEF pruneDust, DropDust, Without, Reserved, Cutoff, NoRow
  <2> QED
    BY <1>0, <2>1, BudgetShrinks
<1>5. CASE Tick
  <2>1. Reserved' = Reserved /\ amount' = amount /\ spends' = spends
    BY <1>5 DEF Tick, dustVars, Reserved
  <2>2. Cutoff' \in Nat /\ Cutoff' >= Cutoff
    BY <1>0, <1>5, JournalAssumption DEF Tick, Cutoff
  <2> QED
    BY <2>1, <2>2, BudgetShrinks
<1> QED
  BY <1>1, <1>2, <1>3, <1>4, <1>5, ReserveKeepsBudget, SpendKeepsBudget
     DEF Next, OperationCalls, DustCalls, createPrepared, transition, recordReceipt, vars, dustVars

\* What is reserved and what was spent in the last window never exceed the window's cap,
\* although reserveDust reads the rows alone and pruneDust deletes rows of spends.
THEOREM DustStaysInBudget == Spec => []DustBudget
<1>1. Init => JournalInv
  <2> SUFFICES ASSUME Init PROVE JournalInv
    OBVIOUS
  <2>1. ColumnsInv
    BY ColumnsInit
  <2>2. Rows = {} /\ DustRows = {} /\ Reserved = {} /\ Recent = {}
    BY DEF Init, Rows, DustRows, Reserved, Recent, NoRow
  <2>3. IsFiniteSet({}) /\ Cardinality({}) = 0
    BY FS_EmptySet
  <2>4. Ceiling
    BY <2>2, <2>3, JournalAssumption DEF Ceiling, WithinCeiling
  <2>5. Budget
    BY <2>2, SumNone, JournalAssumption DEF Budget
  <2> QED
    BY <2>1, <2>3, <2>4, <2>5 DEF JournalInv, BudgetInv, SpendsHeld, Init
<1>2. JournalInv /\ [Next]_vars => JournalInv'
  BY ColumnsStep, CeilingStep, SpendsStayHeld, BudgetStep DEF JournalInv, BudgetInv
<1>3. JournalInv => DustBudget
  BY BudgetIsDustBudget DEF JournalInv, BudgetInv
<1> QED
  BY <1>1, <1>2, <1>3, PTL DEF Spec
=============================================================================

--------------------------- MODULE EventGateProofs ---------------------------
(***************************************************************************)
(* The event gate implements the committed feed: Spec => Feed!Spec, for    *)
(* every set of offers, every choice of distinct blocks and every bound.   *)
(*                                                                         *)
(* The argument.  What a block announces is decided by its inputs and by   *)
(* the rows committed before it (Says), so every attempt of the block says *)
(* the same, under other row ids.  At any time the buffer holds, of the    *)
(* open block, what some number m of its first inputs announce, and m is   *)
(* at least what the current attempt has run (AttemptInv): the attempt     *)
(* either repeats what an earlier one left, and the gate adds nothing, or  *)
(* is ahead of every earlier one, and the gate adds it all.  At the commit *)
(* both have run the whole block, so the buffer and the log then agree     *)
(* about it (HeldInv), and what the poll releases is what was committed.   *)
(*                                                                         *)
(* The hypothesis DistinctInputs is needed: a block that announces a thing *)
(* twice has it released once (RejectionsKeptApart).                       *)
(***************************************************************************)
EXTENDS EventGate, FiniteSetTheorems, WellFoundedInduction, SequenceTheorems, TLAPS

-----------------------------------------------------------------------------
(* Sequences.                                                              *)

\* Induction over the natural numbers, for a set.
LEMMA NatSetInduction ==
    ASSUME NEW P, 0 \in P, \A n \in Nat : n \in P => n + 1 \in P
    PROVE  \A n \in Nat : n \in P
<1> DEFINE Bad == {n \in Nat : n \notin P}
<1> SUFFICES ASSUME Bad # {} PROVE FALSE
  OBVIOUS
<1>1. PICK n \in Bad : \A m \in Bad : <<m, n>> \notin OpToRel(<, Nat)
  <2> HIDE DEF Bad
  <2>1. Bad \subseteq Nat
    BY DEF Bad
  <2> QED
    BY <2>1, NatLessThanWellFounded, WFMin
<1>2. n \in Nat \ {0}
  BY <1>1
<1>3. <<n - 1, n>> \in OpToRel(<, Nat)
  BY <1>2 DEF OpToRel
<1>4. n - 1 \in Nat /\ (n - 1) + 1 = n
  BY <1>2
<1>5. n - 1 \in P
  BY <1>1, <1>3, <1>4
<1>6. n \in P
  BY <1>4, <1>5
<1> QED
  BY <1>1, <1>6

\* The prefixes that PickSeq goes through.
KeptStep(s, at, F, n) ==
    IF n = 0 THEN <<>> ELSE IF n \in at THEN Append(F[n - 1], s[n]) ELSE F[n - 1]
KeptOf(s, at, F) == F = [n \in 0 .. Len(s) |-> KeptStep(s, at, F, n)]
KeptUpTo(s, at, F, m) == \A n \in 0 .. m : F[n] = KeptStep(s, at, F, n)

\* What the recursive function of PickSeq is.
LEMMA PickUnfolds == ASSUME NEW s, NEW at PROVE PickSeq(s, at) = (CHOOSE F : KeptOf(s, at, F))[Len(s)]
  BY DEF PickSeq, KeptOf, KeptStep

\* There is such a function.
LEMMA KeptExists ==
    ASSUME NEW T, NEW s \in Seq(T), NEW at
    PROVE  \E F : KeptOf(s, at, F)
<1> DEFINE N == 0 .. Len(s)
           P == {m \in Nat : m <= Len(s) => \E F \in [N -> Seq(T)] : KeptUpTo(s, at, F, m)}
<1>1. 0 \in P
  <2> DEFINE F == [n \in N |-> <<>>]
  <2>1. F \in [N -> Seq(T)] /\ KeptUpTo(s, at, F, 0)
    BY DEF KeptUpTo, KeptStep
  <2> QED BY <2>1
<1>2. ASSUME NEW m \in Nat, m \in P PROVE m + 1 \in P
  <2> SUFFICES ASSUME m + 1 <= Len(s) PROVE \E F \in [N -> Seq(T)] : KeptUpTo(s, at, F, m + 1)
    BY <1>2
  <2>1. PICK F \in [N -> Seq(T)] : KeptUpTo(s, at, F, m)
    BY <1>2
  <2>2. m + 1 \in N /\ m \in N /\ m + 1 \in 1 .. Len(s) /\ s[m + 1] \in T /\ F[m] \in Seq(T)
    BY <2>1
  <2> DEFINE x == IF m + 1 \in at THEN Append(F[m], s[m + 1]) ELSE F[m]
             G == [F EXCEPT ![m + 1] = x]
  <2>3. x \in Seq(T)
    BY <2>2
  <2>4. G \in [N -> Seq(T)] /\ G[m + 1] = x /\ \A n \in 0 .. m : n \in N /\ G[n] = F[n]
    <3> HIDE DEF x
    <3> QED BY <2>1, <2>2, <2>3
  <2>5. ASSUME NEW n \in 0 .. m + 1 PROVE G[n] = KeptStep(s, at, G, n)
    <3> HIDE DEF G
    <3>1. CASE n = m + 1
      <4>1. n # 0 /\ n - 1 = m /\ G[m] = F[m]
        BY <3>1, <2>4
      <4> QED BY <3>1, <4>1, <2>4 DEF KeptStep
    <3>2. CASE n # m + 1
      <4>1. n \in 0 .. m /\ F[n] = KeptStep(s, at, F, n) /\ G[n] = F[n]
        BY <3>2, <2>1, <2>4 DEF KeptUpTo
      <4>2. n # 0 => n - 1 \in 0 .. m /\ G[n - 1] = F[n - 1]
        BY <4>1, <2>4
      <4> QED BY <4>1, <4>2 DEF KeptStep
    <3> QED BY <3>1, <3>2
  <2> QED BY <2>4, <2>5 DEF KeptUpTo
<1>3. Len(s) \in Nat /\ Len(s) \in P
  <2> HIDE DEF P
  <2>1. \A n \in Nat : n \in P
    BY <1>1, <1>2, NatSetInduction
  <2> QED BY <2>1
<1>4. PICK F \in [N -> Seq(T)] : KeptUpTo(s, at, F, Len(s))
  BY <1>3
<1>5. F = [n \in N |-> KeptStep(s, at, F, n)]
  BY <1>4 DEF KeptUpTo
<1> QED BY <1>5 DEF KeptOf

\* The positions that were picked, in order: q enumerates them.
Enumerates(q, s, at, n, u) ==
    /\ q \in [1 .. Len(u) -> 1 .. n]
    /\ \A i \in 1 .. Len(u) : q[i] \in at /\ u[i] = s[q[i]]
    /\ \A i, j \in 1 .. Len(u) : i < j => q[i] < q[j]
    /\ \A k \in 1 .. n : k \in at => \E i \in 1 .. Len(u) : q[i] = k

\* PickSeq keeps exactly the elements at the positions, in their order.
LEMMA PickIs ==
    ASSUME NEW T, NEW s \in Seq(T), NEW at
    PROVE  /\ PickSeq(s, at) \in Seq(T)
           /\ \E q : Enumerates(q, s, at, Len(s), PickSeq(s, at))
<1> DEFINE F == CHOOSE F : KeptOf(s, at, F)
<1>1. KeptOf(s, at, F)
  BY KeptExists
<1>2. PickSeq(s, at) = F[Len(s)]
  BY PickUnfolds
<1>3. \A n \in 0 .. Len(s) : F[n] = KeptStep(s, at, F, n)
  <2> HIDE DEF F
  <2>1. F = [n \in 0 .. Len(s) |-> KeptStep(s, at, F, n)]
    BY <1>1 DEF KeptOf
  <2> DEFINE G == [n \in 0 .. Len(s) |-> KeptStep(s, at, F, n)]
  <2>2. \A n \in 0 .. Len(s) : G[n] = KeptStep(s, at, F, n)
    OBVIOUS
  <2> QED BY <2>1, <2>2
<1> HIDE DEF F
<1> DEFINE P == {n \in Nat : n <= Len(s) => F[n] \in Seq(T) /\ \E q : Enumerates(q, s, at, n, F[n])}
<1>4. 0 \in P
  <2>1. F[0] = <<>>
    BY <1>3 DEF KeptStep
  <2> DEFINE q == [i \in 1 .. 0 |-> 0]
  <2>2. Enumerates(q, s, at, 0, <<>>)
    BY DEF Enumerates
  <2>3. F[0] \in Seq(T) /\ Enumerates(q, s, at, 0, F[0])
    BY <2>1, <2>2
  <2> QED BY <2>3
<1>5. ASSUME NEW n \in Nat, n \in P PROVE n + 1 \in P
  <2> SUFFICES ASSUME n + 1 <= Len(s)
               PROVE  F[n + 1] \in Seq(T) /\ \E q : Enumerates(q, s, at, n + 1, F[n + 1])
    OBVIOUS
  <2>1. n <= Len(s) /\ Len(s) \in Nat
    OBVIOUS
  <2>2. F[n] \in Seq(T) /\ \E q : Enumerates(q, s, at, n, F[n])
    BY <1>5, <2>1
  <2>3. n + 1 \in 1 .. Len(s) /\ s[n + 1] \in T /\ n + 1 # 0 /\ (n + 1) - 1 = n /\ n + 1 \in 0 .. Len(s)
    BY <2>1
  <2>4. F[n + 1] = IF n + 1 \in at THEN Append(F[n], s[n + 1]) ELSE F[n]
    BY <1>3, <2>3 DEF KeptStep
  <2>5. PICK q : Enumerates(q, s, at, n, F[n])
    BY <2>2
  <2> DEFINE u == F[n]
  <2>6. /\ q \in [1 .. Len(u) -> 1 .. n] /\ Len(u) \in Nat
        /\ \A i \in 1 .. Len(u) : q[i] \in at /\ u[i] = s[q[i]]
        /\ \A i, j \in 1 .. Len(u) : i < j => q[i] < q[j]
        /\ \A k \in 1 .. n : k \in at => \E i \in 1 .. Len(u) : q[i] = k
    BY <2>2, <2>5 DEF Enumerates
  <2> HIDE DEF u
  <2>7. CASE n + 1 \notin at
    <3>1. q \in [1 .. Len(u) -> 1 .. n + 1]
      BY <2>6
    <3>2. \A k \in 1 .. n + 1 : k \in at => k \in 1 .. n
      BY <2>7
    <3>3. Enumerates(q, s, at, n + 1, u)
      BY <2>6, <3>1, <3>2 DEF Enumerates
    <3> QED BY <3>3, <2>2, <2>4, <2>7 DEF u
  <2>8. CASE n + 1 \in at
    <3> DEFINE w == Append(u, s[n + 1])
               r == [i \in 1 .. Len(u) + 1 |-> IF i = Len(u) + 1 THEN n + 1 ELSE q[i]]
    <3>1. /\ w \in Seq(T) /\ Len(w) = Len(u) + 1 /\ w[Len(u) + 1] = s[n + 1]
          /\ \A i \in 1 .. Len(u) : w[i] = u[i]
      BY <2>2, <2>3 DEF u
    <3> HIDE DEF w
    <3>2. \A i \in 1 .. Len(u) + 1 : i # Len(u) + 1 => i \in 1 .. Len(u)
      <4>1. Len(u) \in Nat
        BY <2>6
      <4> QED BY <4>1
    <3>3. r \in [1 .. Len(w) -> 1 .. n + 1] /\ r[Len(u) + 1] = n + 1 /\ \A i \in 1 .. Len(u) : r[i] = q[i]
      BY <2>6, <3>1, <3>2
    <3> HIDE DEF r
    <3>4. \A i \in 1 .. Len(w) : r[i] \in at /\ w[i] = s[r[i]]
      BY <2>6, <2>8, <3>1, <3>2, <3>3
    <3>5. \A i, j \in 1 .. Len(w) : i < j => r[i] < r[j]
      <4> TAKE i, j \in 1 .. Len(w)
      <4> HAVE i < j
      <4>1. i \in 1 .. Len(u) /\ r[i] = q[i] /\ q[i] \in 1 .. n
        BY <2>6, <3>1, <3>3
      <4>2. CASE j = Len(u) + 1
        BY <4>1, <4>2, <3>3
      <4>3. CASE j # Len(u) + 1
        BY <4>1, <4>3, <3>1, <3>2, <3>3, <2>6
      <4> QED BY <4>2, <4>3
    <3>6. \A k \in 1 .. n + 1 : k \in at => \E i \in 1 .. Len(w) : r[i] = k
      <4> TAKE k \in 1 .. n + 1
      <4> HAVE k \in at
      <4>1. CASE k = n + 1
        <5>1. Len(u) + 1 \in 1 .. Len(w)
          BY <3>1, <2>6
        <5> QED BY <4>1, <5>1, <3>3
      <4>2. CASE k # n + 1
        <5>1. k \in 1 .. n
          BY <4>2
        <5>2. PICK i \in 1 .. Len(u) : q[i] = k
          BY <5>1, <2>6
        <5>3. i \in 1 .. Len(w) /\ r[i] = k
          BY <5>2, <3>1, <3>3, <2>6
        <5> QED BY <5>3
      <4> QED BY <4>1, <4>2
    <3>7. Enumerates(r, s, at, n + 1, w)
      BY <3>3, <3>4, <3>5, <3>6 DEF Enumerates
    <3> QED BY <3>1, <3>7, <2>4, <2>8 DEF u, w
  <2> QED BY <2>7, <2>8
<1>6. \A n \in Nat : n \in P
  <2> HIDE DEF P
  <2> QED BY <1>4, <1>5, NatSetInduction
<1>7. Len(s) \in Nat /\ Len(s) \in P
  BY <1>6
<1> QED BY <1>2, <1>7

\* Two sequences without repetitions, of the same elements in the same order.
SameOrder(u, v) ==
    /\ \A i, j \in 1 .. Len(u) : u[i] = u[j] => i = j
    /\ \A i, j \in 1 .. Len(v) : v[i] = v[j] => i = j
    /\ \A i \in 1 .. Len(u) : \E j \in 1 .. Len(v) : u[i] = v[j]
    /\ \A j \in 1 .. Len(v) : \E i \in 1 .. Len(u) : u[i] = v[j]
    /\ \A i, j \in 1 .. Len(u) : \A k, l \in 1 .. Len(v) : i < j /\ u[i] = v[k] /\ u[j] = v[l] => k < l

\* They are equal.
LEMMA SameSeq ==
    ASSUME NEW T, NEW u \in Seq(T), NEW v \in Seq(T), SameOrder(u, v)
    PROVE  u = v
<1> DEFINE P == {n \in Nat : \A k \in 1 .. n : k <= Len(u) => k <= Len(v) /\ u[k] = v[k]}
<1>0. Len(u) \in Nat /\ Len(v) \in Nat
  OBVIOUS
<1>1. 0 \in P
  OBVIOUS
<1>2. ASSUME NEW n \in Nat, n \in P PROVE n + 1 \in P
  <2> DEFINE i == n + 1
  <2> SUFFICES ASSUME i <= Len(u) PROVE i <= Len(v) /\ u[i] = v[i]
    BY <1>2
  <2>1. i \in 1 .. Len(u) /\ \A k \in 1 .. n : k \in 1 .. Len(u) /\ k \in 1 .. Len(v) /\ u[k] = v[k]
    BY <1>0, <1>2
  <2>2. PICK j \in 1 .. Len(v) : u[i] = v[j]
    BY <2>1 DEF SameOrder
  <2>3. ~(j \in 1 .. n)
    BY <2>1, <2>2 DEF SameOrder
  <2>4. j >= i
    BY <2>3, <1>0
  <2>5. CASE j > i
    <3>1. i \in 1 .. Len(v)
      BY <2>5, <1>0
    <3>2. PICK l \in 1 .. Len(u) : u[l] = v[i]
      BY <3>1 DEF SameOrder
    <3>3. ~(l \in 1 .. n)
      <4>1. SUFFICES ASSUME l \in 1 .. n PROVE FALSE
        OBVIOUS
      <4>2. v[l] = v[i] /\ l \in 1 .. Len(v)
        BY <4>1, <3>2, <2>1
      <4>3. l = i
        BY <4>2, <3>1 DEF SameOrder
      <4> QED BY <4>1, <4>3
    <3>4. l # i
      <4>1. SUFFICES ASSUME l = i PROVE FALSE
        OBVIOUS
      <4>2. v[i] = v[j]
        BY <4>1, <3>2, <2>2
      <4>3. i = j
        BY <4>2, <3>1, <2>2 DEF SameOrder
      <4> QED BY <4>3, <2>5
    <3>5. l > i
      BY <3>3, <3>4, <1>0
    <3>6. j < i
      BY <3>5, <3>1, <3>2, <2>1, <2>2 DEF SameOrder
    <3> QED BY <3>6, <2>5, <1>0
  <2>6. CASE j = i
    BY <2>6, <2>2, <1>0
  <2> QED BY <2>4, <2>5, <2>6, <1>0
<1>3. \A n \in Nat : n \in P
  <2> HIDE DEF P
  <2> QED BY <1>1, <1>2, NatSetInduction
<1>4. Len(u) \in P
  BY <1>0, <1>3
<1>5. \A k \in 1 .. Len(u) : k \in 1 .. Len(v) /\ u[k] = v[k]
  BY <1>0, <1>4
<1>6. Len(v) <= Len(u)
  <2>1. SUFFICES ASSUME Len(v) > Len(u) PROVE FALSE
    BY <1>0
  <2> DEFINE j == Len(u) + 1
  <2>2. j \in 1 .. Len(v)
    BY <2>1, <1>0
  <2>3. PICK l \in 1 .. Len(u) : u[l] = v[j]
    BY <2>2 DEF SameOrder
  <2>4. v[l] = v[j] /\ l \in 1 .. Len(v)
    BY <2>3, <1>5
  <2>5. l = j
    BY <2>4, <2>2 DEF SameOrder
  <2> QED BY <2>5, <2>3, <1>0
<1>7. Len(u) <= Len(v)
  BY <1>0, <1>5
<1>8. Len(u) = Len(v)
  BY <1>0, <1>6, <1>7
<1>9. \A k \in 1 .. Len(u) : u[k] = v[k]
  BY <1>5
<1> QED BY <1>8, <1>9, SeqEqual

\* A concatenation, by position.
LEMMA ConcatIs ==
    ASSUME NEW T, NEW s \in Seq(T), NEW t \in Seq(T)
    PROVE  /\ s \o t \in Seq(T) /\ Len(s \o t) = Len(s) + Len(t) /\ Len(s) \in Nat /\ Len(t) \in Nat
           /\ DOMAIN s = 1 .. Len(s) /\ DOMAIN t = 1 .. Len(t) /\ DOMAIN (s \o t) = 1 .. Len(s \o t)
           /\ \A i \in 1 .. Len(s) : i \in 1 .. Len(s \o t) /\ (s \o t)[i] = s[i]
           /\ \A i \in 1 .. Len(t) : Len(s) + i \in 1 .. Len(s \o t) /\ (s \o t)[Len(s) + i] = t[i]
           /\ \A i \in 1 .. Len(s \o t) : i \in 1 .. Len(s) \/ (i > Len(s) /\ i - Len(s) \in 1 .. Len(t) /\ (s \o t)[i] = t[i - Len(s)])
<1>1. s \o t \in Seq(T) /\ Len(s \o t) = Len(s) + Len(t) /\ Len(s) \in Nat /\ Len(t) \in Nat
      /\ DOMAIN s = 1 .. Len(s) /\ DOMAIN t = 1 .. Len(t)
  OBVIOUS
<1>2. \A i \in 1 .. Len(s \o t) : (s \o t)[i] = IF i <= Len(s) THEN s[i] ELSE t[i - Len(s)]
  BY <1>1
<1>3. DOMAIN (s \o t) = 1 .. Len(s \o t)
  BY <1>1
<1>4. \A i \in 1 .. Len(s) : i \in 1 .. Len(s \o t) /\ i <= Len(s)
  BY <1>1
<1>5. \A i \in 1 .. Len(t) : Len(s) + i \in 1 .. Len(s \o t) /\ ~(Len(s) + i <= Len(s)) /\ (Len(s) + i) - Len(s) = i
  BY <1>1
<1>6. \A i \in 1 .. Len(s \o t) : i \in 1 .. Len(s) \/ (i > Len(s) /\ i - Len(s) \in 1 .. Len(t) /\ ~(i <= Len(s)))
  BY <1>1
<1>7. \A i \in 1 .. Len(s) : (s \o t)[i] = s[i]
  BY <1>2, <1>4
<1>8. \A i \in 1 .. Len(t) : (s \o t)[Len(s) + i] = t[i]
  BY <1>2, <1>5
<1>9. \A i \in 1 .. Len(s \o t) : i > Len(s) /\ ~(i <= Len(s)) => (s \o t)[i] = t[i - Len(s)]
  BY <1>2
<1> QED BY <1>1, <1>3, <1>4, <1>5, <1>6, <1>7, <1>8, <1>9

\* The subjects of a sequence of events.
LEMMA SubjectsIs ==
    ASSUME NEW s \in Seq(Event)
    PROVE  /\ Subjects(s) \in Seq(About) /\ Len(Subjects(s)) = Len(s) /\ DOMAIN s = 1 .. Len(s) /\ Len(s) \in Nat
           /\ DOMAIN Subjects(s) = 1 .. Len(s)
           /\ \A i \in 1 .. Len(s) : Subjects(s)[i] = Subject(s[i]) /\ s[i] \in Event /\ Subject(s[i]) \in About
           /\ \A e \in Event : Subject(e).at = e.at /\ Subject(e).type = e.type /\ Subject(e).offer = e.offer
<1>1. DOMAIN s = 1 .. Len(s) /\ Len(s) \in Nat /\ \A i \in 1 .. Len(s) : s[i] \in Event
  OBVIOUS
<1>2. \A e \in Event : Subject(e) \in About /\ Subject(e).at = e.at /\ Subject(e).type = e.type /\ Subject(e).offer = e.offer
  BY DEF Event, About, Subject
<1>3. \A i \in 1 .. Len(s) : Subject(s[i]) \in About
  BY <1>1, <1>2
<1>4. Subjects(s) = [i \in 1 .. Len(s) |-> Subject(s[i])]
  BY <1>1 DEF Subjects
<1> HIDE DEF About
<1>5. Subjects(s) \in Seq(About) /\ Len(Subjects(s)) = Len(s)
  BY <1>1, <1>3, <1>4
<1> QED BY <1>1, <1>2, <1>3, <1>4, <1>5

\* Those of a concatenation.
LEMMA SubjectsConcat ==
    ASSUME NEW s \in Seq(Event), NEW t \in Seq(Event)
    PROVE  Subjects(s \o t) = Subjects(s) \o Subjects(t)
<1>1. s \o t \in Seq(Event)
  BY ConcatIs
<1>2. Subjects(s) \in Seq(About) /\ Subjects(t) \in Seq(About) /\ Subjects(s \o t) \in Seq(About)
      /\ Len(Subjects(s)) = Len(s) /\ Len(Subjects(t)) = Len(t) /\ Len(Subjects(s \o t)) = Len(s \o t)
  BY <1>1, SubjectsIs
<1>3. Subjects(s) \o Subjects(t) \in Seq(About) /\ Len(Subjects(s) \o Subjects(t)) = Len(s \o t)
  <2>1. Subjects(s) \o Subjects(t) \in Seq(About) /\ Len(Subjects(s) \o Subjects(t)) = Len(Subjects(s)) + Len(Subjects(t))
    BY <1>2, ConcatIs
  <2>2. Len(s \o t) = Len(s) + Len(t)
    BY ConcatIs
  <2> QED BY <1>2, <2>1, <2>2
<1>4. ASSUME NEW i \in 1 .. Len(s \o t) PROVE Subjects(s \o t)[i] = (Subjects(s) \o Subjects(t))[i]
  <2>1. Subjects(s \o t)[i] = Subject((s \o t)[i])
    BY <1>1, SubjectsIs
  <2>2. CASE i \in 1 .. Len(s)
    <3>1. (s \o t)[i] = s[i]
      BY <2>2, ConcatIs
    <3>2. (Subjects(s) \o Subjects(t))[i] = Subjects(s)[i]
      BY <2>2, <1>2, ConcatIs
    <3> QED BY <2>1, <3>1, <3>2, <2>2, SubjectsIs
  <2>3. CASE i \notin 1 .. Len(s)
    <3>1. i - Len(s) \in 1 .. Len(t) /\ (s \o t)[i] = t[i - Len(s)]
      BY <2>3, ConcatIs
    <3>2. Len(s) + (i - Len(s)) = i
      BY ConcatIs
    <3>3. (Subjects(s) \o Subjects(t))[Len(Subjects(s)) + (i - Len(s))] = Subjects(t)[i - Len(s)]
      BY <3>1, <1>2, ConcatIs
    <3> QED BY <2>1, <3>1, <3>2, <3>3, <1>2, SubjectsIs
  <2> QED BY <2>2, <2>3
<1> QED BY <1>2, <1>3, <1>4, SeqEqual

-----------------------------------------------------------------------------
(* What a block b announces, when it runs over the rows R.                 *)

Archives(b, k, o) == b[k].kind \in {"consume", "expire"} /\ o \in b[k].offers
Indexes(b, k, o) == b[k].kind = "index" /\ o \in b[k].offers
RowOf(R, o) == \E r \in R : r.offer = o
LiveRowOf(R, o) == \E r \in R : r.offer = o /\ r.state = "live"

\* Before input k runs: is there a row of the offer, was there ever a live one, is
\* there one now?
KnownAt(b, R, k, o) == RowOf(R, o) \/ \E i \in 1 .. k - 1 : Indexes(b, i, o)
BornAt(b, R, k, o) == LiveRowOf(R, o) \/ (~RowOf(R, o) /\ \E i \in 1 .. k - 1 : Indexes(b, i, o))
LiveAt(b, R, k, o) == BornAt(b, R, k, o) /\ \A i \in 1 .. k - 1 : ~(Archives(b, i, o) /\ BornAt(b, R, i, o))

\* Input k announces an event of type t about o, in every attempt.
Says(b, R, k, o, t) ==
    /\ k \in 1 .. Len(b)
    /\ \/ Indexes(b, k, o) /\ t = IF KnownAt(b, R, k, o) THEN "offer_rejected" ELSE "offer_indexed"
       \/ b[k].kind = "malformed" /\ o = NoOffer /\ t = "offer_rejected"
       \/ /\ Archives(b, k, o) /\ LiveAt(b, R, k, o)
          /\ t = IF b[k].kind = "consume" THEN "offer_consumed" ELSE "offer_expired"

\* A sequence holds, for height h, what the first m inputs announce, the events about
\* each offer in their order, and nothing else for that height.
Only(b, R, h, s, m) ==
    \A i \in 1 .. Len(s) : s[i].at = h => \E k \in 1 .. m : Says(b, R, k, s[i].offer, s[i].type)
InOrder(b, R, h, s) ==
    \A i, j \in 1 .. Len(s) :
        i < j /\ s[i].at = h /\ s[j].at = h /\ s[i].offer = s[j].offer =>
            \A k, l \in 1 .. Len(b) :
                Says(b, R, k, s[i].offer, s[i].type) /\ Says(b, R, l, s[j].offer, s[j].type) => k < l
Holds(s, h, o, t) == \E i \in 1 .. Len(s) : s[i].at = h /\ s[i].offer = o /\ s[i].type = t
All(b, R, h, s, m) ==
    \A k \in 1 .. m : \A o \in Offers \cup {NoOffer} : \A t \in EventTypes :
        Says(b, R, k, o, t) => Holds(s, h, o, t)
Tells(b, R, h, s, m) == Only(b, R, h, s, m) /\ InOrder(b, R, h, s) /\ All(b, R, h, s, m)

-----------------------------------------------------------------------------
(* The inductive invariant.                                                *)

BlockInv ==
    /\ block = <<>> \/ block \in Blocks
    /\ InTx => pos <= Len(block) + 1
\* A transaction sees the rows that its inputs so far have made.
RowInv ==
    /\ IsFiniteSet(rows) /\ IsFiniteSet(txRows)
    /\ \A r, u \in rows : r.offer = u.offer => r = u
    /\ \A r, u \in txRows : r.offer = u.offer => r = u
    /\ InTx => \A o \in Offers : /\ RowOf(txRows, o) <=> KnownAt(block, rows, pos, o)
                                 /\ LiveRowOf(txRows, o) <=> LiveAt(block, rows, pos, o)
\* What the attempt has announced, and what is held of it and of rolled-back ones.
AttemptInv ==
    /\ InTx => /\ Tells(block, rows, height + 1, txEvents, pos - 1)
               /\ \A i \in 1 .. Len(txEvents) : txEvents[i].at = height + 1
    /\ \E m \in 0 .. Len(block) : pos - 1 <= m /\ Tells(block, rows, height + 1, pending, m)
\* The buffer is in block order and after what was published.
OrderInv ==
    /\ \A i \in 1 .. Len(pending) :
          pending[i].at \in 1 .. height + 1 /\ pending[i].at > Feed!LastAt(Subjects(published))
    /\ \A i, j \in 1 .. Len(pending) : i < j => pending[i].at <= pending[j].at
    /\ Feed!LastAt(Subjects(published)) \in 0 .. height /\ Feed!LastAt(log) \in 0 .. height
    /\ \A i \in 1 .. Len(log) : log[i].at \in 1 .. height
\* Of a committed block the buffer p holds what the log g has, or nothing.
Held1(p) == \A i, j \in 1 .. Len(p) : Subject(p[i]) = Subject(p[j]) => i = j
Held2(p, g, h) == \A i \in 1 .. Len(p) : p[i].at <= h => \E j \in 1 .. Len(g) : g[j] = Subject(p[i])
Held3(p, g) == \A j \in 1 .. Len(g) : (\E i \in 1 .. Len(p) : p[i].at = g[j].at) =>
                   \E i \in 1 .. Len(p) : Subject(p[i]) = g[j]
Held4(p, g) == \A i, j \in 1 .. Len(p) : \A k, l \in 1 .. Len(g) :
                   i < j /\ p[i].offer = p[j].offer /\ g[k] = Subject(p[i]) /\ g[l] = Subject(p[j]) => k < l
HeldInv == Held1(pending) /\ Held2(pending, log, height) /\ Held3(pending, log) /\ Held4(pending, log)
LogInv == \A i, j \in 1 .. Len(log) : log[i] = log[j] => i = j
GateInv == TypeOK /\ BlockInv /\ RowInv /\ AttemptInv /\ OrderInv /\ HeldInv /\ LogInv

-----------------------------------------------------------------------------
(* What one input adds.                                                    *)

\* A block as a sequence of inputs.
LEMMA BlockIs ==
    ASSUME NEW b, b = <<>> \/ b \in Blocks
    PROVE  /\ b \in Seq(Input) /\ Len(b) \in Nat /\ DOMAIN b = 1 .. Len(b)
           /\ \A k \in 1 .. Len(b) : /\ b \in Blocks /\ b[k].kind \in Kinds /\ b[k].offers \subseteq Offers
                                     /\ b[k].kind = "index" => \E o \in Offers : b[k].offers = {o}
<1>1. b \in Seq(Input)
  <2>1. <<>> \in Seq(Input)
    OBVIOUS
  <2>2. Blocks \subseteq Seq(Input)
    BY BlocksAssumption
  <2> QED BY <2>1, <2>2
<1>2. Len(b) \in Nat /\ DOMAIN b = 1 .. Len(b) /\ \A k \in 1 .. Len(b) : b[k] \in Input
  BY <1>1
<1>3. \A k \in 1 .. Len(b) : b \in Blocks
  <2>1. b = <<>> => Len(b) = 0
    OBVIOUS
  <2> QED BY <2>1
<1>4. \A x \in Input : x.kind \in Kinds /\ x.offers \subseteq Offers
  BY DEF Input
<1>5. \A k \in 1 .. Len(b) : b[k].kind = "index" => \E o \in Offers : b[k].offers = {o}
  BY <1>2, <1>3, BlocksAssumption
<1> QED BY <1>1, <1>2, <1>3, <1>4, <1>5

\* Which event an input of each kind announces.
LEMMA SaysKind ==
    ASSUME NEW b, b = <<>> \/ b \in Blocks, NEW R, NEW k \in 1 .. Len(b), NEW o, NEW t, Says(b, R, k, o, t)
    PROVE  /\ b[k].kind = "index" => Indexes(b, k, o) /\ t \in {"offer_rejected", "offer_indexed"}
           /\ b[k].kind = "malformed" => o = NoOffer /\ t = "offer_rejected"
           /\ b[k].kind = "consume" => Archives(b, k, o) /\ LiveAt(b, R, k, o) /\ t = "offer_consumed"
           /\ b[k].kind = "expire" => Archives(b, k, o) /\ LiveAt(b, R, k, o) /\ t = "offer_expired"
           /\ b[k].kind \in Kinds
  BY BlockIs DEF Says, Indexes, Archives, Kinds

\* In a block of distinct inputs, no two announce the same.
LEMMA SaysOnce ==
    ASSUME DistinctInputs(Blocks), NEW b, b = <<>> \/ b \in Blocks, NEW R,
           NEW k \in 1 .. Len(b), NEW l \in 1 .. Len(b), NEW o, NEW t, Says(b, R, k, o, t), Says(b, R, l, o, t)
    PROVE  k = l
<1>1. /\ b \in Blocks /\ DOMAIN b = 1 .. Len(b) /\ Len(b) \in Nat
      /\ \A i \in 1 .. Len(b) : b[i].offers \subseteq Offers /\ (b[i].kind = "index" => \E x \in Offers : b[i].offers = {x})
  BY BlockIs
<1>2. NoOffer \notin Offers
  BY BlocksAssumption
<1>4. b[k].kind \in Kinds /\ b[l].kind \in Kinds
  BY SaysKind
<1>5. \A i, j \in 1 .. Len(b) :
        /\ b[i].kind = b[j].kind
        /\ b[i].kind = "malformed" \/ (b[i].kind = "index" /\ b[i].offers = b[j].offers)
        => i = j
  BY <1>1 DEF DistinctInputs
<1>6. CASE b[k].kind = "index" /\ b[l].kind = "index"
  <2>1. o \in b[k].offers /\ o \in b[l].offers
    BY <1>6, SaysKind DEF Indexes
  <2>2. b[k].offers = b[l].offers
    BY <2>1, <1>1, <1>6
  <2> QED BY <2>2, <1>5, <1>6
<1>7. CASE b[k].kind = "malformed" /\ b[l].kind = "malformed"
  BY <1>5, <1>7
<1>8. ASSUME NEW i \in 1 .. Len(b), NEW j \in 1 .. Len(b), i < j,
             Archives(b, i, o), LiveAt(b, R, i, o), Archives(b, j, o), LiveAt(b, R, j, o)
      PROVE  FALSE
  <2>1. i \in 1 .. j - 1
    BY <1>8, <1>1
  <2> QED BY <1>8, <2>1 DEF LiveAt
<1>9. CASE Archives(b, k, o) /\ LiveAt(b, R, k, o) /\ Archives(b, l, o) /\ LiveAt(b, R, l, o)
  <2>1. ~(k < l) /\ ~(l < k)
    BY <1>8, <1>9
  <2> QED BY <2>1, <1>1
<1>10. CASE b[k].kind = "index" /\ b[l].kind = "malformed"
  BY <1>10, <1>1, <1>2, SaysKind DEF Indexes
<1>11. CASE b[k].kind = "malformed" /\ b[l].kind = "index"
  BY <1>11, <1>1, <1>2, SaysKind DEF Indexes
<1> QED BY <1>4, <1>6, <1>7, <1>9, <1>10, <1>11, SaysKind DEF Kinds

\* An input makes an offer known, and starts or ends its life.
LEMMA AtNext ==
    ASSUME NEW b, NEW R, NEW k \in Nat \ {0}, NEW o
    PROVE  /\ KnownAt(b, R, k + 1, o) <=> KnownAt(b, R, k, o) \/ Indexes(b, k, o)
           /\ LiveAt(b, R, k + 1, o) <=> \/ LiveAt(b, R, k, o) /\ ~Archives(b, k, o)
                                         \/ ~KnownAt(b, R, k, o) /\ Indexes(b, k, o)
<1>1. \A i : i \in 1 .. (k + 1) - 1 <=> i \in 1 .. k - 1 \/ i = k
  OBVIOUS
<1>2. KnownAt(b, R, k + 1, o) <=> KnownAt(b, R, k, o) \/ Indexes(b, k, o)
  BY <1>1 DEF KnownAt
<1>3. BornAt(b, R, k + 1, o) <=> BornAt(b, R, k, o) \/ (~RowOf(R, o) /\ Indexes(b, k, o))
  BY <1>1 DEF BornAt
<1>4. ASSUME NEW i \in 1 .. k, BornAt(b, R, i, o) PROVE KnownAt(b, R, k, o)
  <2>1. LiveRowOf(R, o) => RowOf(R, o)
    BY DEF LiveRowOf, RowOf
  <2>2. \A j \in 1 .. i - 1 : j \in 1 .. k - 1
    OBVIOUS
  <2> QED BY <1>4, <2>1, <2>2 DEF BornAt, KnownAt
<1>5. ~(Archives(b, k, o) /\ Indexes(b, k, o))
  BY DEF Archives, Indexes
<1>6. ASSUME LiveAt(b, R, k + 1, o)
      PROVE  \/ LiveAt(b, R, k, o) /\ ~Archives(b, k, o)
             \/ ~KnownAt(b, R, k, o) /\ Indexes(b, k, o)
  <2>1. BornAt(b, R, k + 1, o) /\ ~(Archives(b, k, o) /\ BornAt(b, R, k, o))
        /\ \A i \in 1 .. k - 1 : ~(Archives(b, i, o) /\ BornAt(b, R, i, o))
    BY <1>1, <1>6 DEF LiveAt
  <2>2. CASE BornAt(b, R, k, o)
    BY <2>1, <2>2 DEF LiveAt
  <2>3. CASE ~BornAt(b, R, k, o)
    <3>1. ~RowOf(R, o) /\ Indexes(b, k, o)
      BY <2>1, <2>3, <1>3
    <3>2. ~KnownAt(b, R, k, o)
      BY <2>3, <3>1 DEF BornAt, KnownAt
    <3> QED BY <3>1, <3>2
  <2> QED BY <2>2, <2>3
<1>7. ASSUME LiveAt(b, R, k, o), ~Archives(b, k, o) PROVE LiveAt(b, R, k + 1, o)
  BY <1>1, <1>3, <1>7 DEF LiveAt
<1>8. ASSUME ~KnownAt(b, R, k, o), Indexes(b, k, o) PROVE LiveAt(b, R, k + 1, o)
  <2>1. ~RowOf(R, o)
    BY <1>8 DEF KnownAt
  <2>2. \A i \in 1 .. k : ~BornAt(b, R, i, o)
    BY <1>4, <1>8
  <2>3. \A i \in 1 .. (k + 1) - 1 : i \in 1 .. k
    OBVIOUS
  <2> QED BY <2>1, <2>2, <2>3, <1>3, <1>8 DEF LiveAt
<1> QED BY <1>2, <1>6, <1>7, <1>8

\* The events e are exactly those of input k, one of each offer.
SaidBy(b, R, h, e, k) ==
    /\ \A i \in 1 .. Len(e) : e[i].at = h /\ Says(b, R, k, e[i].offer, e[i].type)
    /\ \A i, j \in 1 .. Len(e) : e[i].offer = e[j].offer => i = j
    /\ \A o \in Offers \cup {NoOffer} : \A t \in EventTypes :
          Says(b, R, k, o, t) => \E i \in 1 .. Len(e) : e[i].offer = o /\ e[i].type = t

\* One input more is told.
LEMMA TellsMore ==
    ASSUME DistinctInputs(Blocks), NEW b, b = <<>> \/ b \in Blocks, NEW R, NEW h,
           NEW T, NEW s \in Seq(T), NEW e \in Seq(T), NEW m \in Nat, m + 1 \in 1 .. Len(b),
           Tells(b, R, h, s, m), SaidBy(b, R, h, e, m + 1)
    PROVE  Tells(b, R, h, s \o e, m + 1)
<1> DEFINE u == s \o e
<1>1. /\ Len(s) \in Nat /\ Len(e) \in Nat /\ Len(u) \in Nat
      /\ \A i \in 1 .. Len(s) : i \in 1 .. Len(u) /\ u[i] = s[i]
      /\ \A i \in 1 .. Len(e) : Len(s) + i \in 1 .. Len(u) /\ u[Len(s) + i] = e[i]
      /\ \A i \in 1 .. Len(u) : i \in 1 .. Len(s) \/ (i > Len(s) /\ i - Len(s) \in 1 .. Len(e) /\ u[i] = e[i - Len(s)])
  BY ConcatIs
<1> HIDE DEF u
<1>2. ASSUME NEW i \in 1 .. Len(u), u[i].at = h
      PROVE  \E k \in 1 .. m + 1 : /\ Says(b, R, k, u[i].offer, u[i].type)
                                   /\ i \in 1 .. Len(s) => k \in 1 .. m
                                   /\ i \notin 1 .. Len(s) => k = m + 1
  <2>1. CASE i \in 1 .. Len(s)
    <3>1. PICK k \in 1 .. m : Says(b, R, k, s[i].offer, s[i].type)
      BY <1>1, <1>2, <2>1 DEF Tells, Only
    <3>2. k \in 1 .. m + 1
      OBVIOUS
    <3> QED BY <1>1, <2>1, <3>1, <3>2
  <2>2. CASE i \notin 1 .. Len(s)
    <3>1. i - Len(s) \in 1 .. Len(e) /\ u[i] = e[i - Len(s)]
      BY <1>1, <2>2
    <3>2. Says(b, R, m + 1, u[i].offer, u[i].type) /\ m + 1 \in 1 .. m + 1
      BY <3>1 DEF SaidBy
    <3> QED BY <3>2, <2>2
  <2> QED BY <2>1, <2>2
<1>3. Len(b) \in Nat
  BY BlockIs
<1>4. ASSUME NEW i \in 1 .. Len(u), NEW j \in 1 .. Len(u), i < j, u[i].at = h, u[j].at = h,
             u[i].offer = u[j].offer, NEW k \in 1 .. Len(b), NEW l \in 1 .. Len(b),
             Says(b, R, k, u[i].offer, u[i].type), Says(b, R, l, u[j].offer, u[j].type)
      PROVE  k < l
  <2>1. CASE j \in 1 .. Len(s)
    <3>1. i \in 1 .. Len(s)
      BY <2>1, <1>1, <1>4
    <3> QED BY <2>1, <3>1, <1>1, <1>4 DEF Tells, InOrder
  <2>2. CASE j \notin 1 .. Len(s)
    <3>1. Says(b, R, m + 1, u[j].offer, u[j].type)
      BY <1>2, <1>4, <2>2
    <3>2. l = m + 1
      BY <3>1, <1>4, SaysOnce
    <3>3. CASE i \in 1 .. Len(s)
      <4>1. PICK x \in 1 .. m + 1 : Says(b, R, x, u[i].offer, u[i].type) /\ x \in 1 .. m
        BY <1>2, <1>4, <3>3
      <4>2. x \in 1 .. Len(b)
        BY <4>1, <1>3
      <4>3. k = x
        BY <4>1, <4>2, <1>4, SaysOnce
      <4> QED BY <4>1, <4>3, <3>2
    <3>4. CASE i \notin 1 .. Len(s)
      <4>1. /\ i - Len(s) \in 1 .. Len(e) /\ u[i] = e[i - Len(s)] /\ j - Len(s) \in 1 .. Len(e) /\ u[j] = e[j - Len(s)]
        BY <1>1, <2>2, <3>4
      <4>2. i - Len(s) = j - Len(s)
        BY <4>1, <1>4 DEF SaidBy
      <4> QED BY <4>2, <1>1, <1>4
    <3> QED BY <3>3, <3>4
  <2> QED BY <2>1, <2>2
<1>5. ASSUME NEW k \in 1 .. m + 1, NEW o \in Offers \cup {NoOffer}, NEW t \in EventTypes, Says(b, R, k, o, t)
      PROVE  Holds(u, h, o, t)
  <2>1. CASE k \in 1 .. m
    <3>1. Holds(s, h, o, t)
      BY <1>5, <2>1 DEF Tells, All
    <3> QED BY <3>1, <1>1 DEF Holds
  <2>2. CASE k \notin 1 .. m
    <3>1. k = m + 1
      BY <2>2
    <3>2. PICK i \in 1 .. Len(e) : e[i].offer = o /\ e[i].type = t
      BY <3>1, <1>5 DEF SaidBy
    <3>3. Len(s) + i \in 1 .. Len(u) /\ u[Len(s) + i] = e[i] /\ e[i].at = h
      BY <3>2, <1>1 DEF SaidBy
    <3> QED BY <3>2, <3>3 DEF Holds
  <2> QED BY <2>1, <2>2
<1>6. Only(b, R, h, u, m + 1)
  BY <1>2 DEF Only
<1>7. InOrder(b, R, h, u)
  BY <1>4 DEF InOrder
<1>8. All(b, R, h, u, m + 1)
  BY <1>5 DEF All
<1> QED BY <1>6, <1>7, <1>8 DEF Tells, u

\* What is told is told once.
LEMMA ToldOnce ==
    ASSUME NEW b, b = <<>> \/ b \in Blocks, NEW R, NEW h, NEW s, NEW m \in 0 .. Len(b), Tells(b, R, h, s, m),
           Len(s) \in Nat, NEW i \in 1 .. Len(s), NEW j \in 1 .. Len(s), s[i].at = h, s[j].at = h,
           s[i].offer = s[j].offer, s[i].type = s[j].type
    PROVE  i = j
<1>1. PICK k \in 1 .. m : Says(b, R, k, s[i].offer, s[i].type)
  BY DEF Tells, Only
<1>2. k \in 1 .. Len(b)
  BY BlockIs
<1>3. ~(i < j)
  BY <1>1, <1>2 DEF Tells, InOrder
<1>4. Says(b, R, k, s[j].offer, s[j].type)
  BY <1>1
<1>5. ~(j < i)
  BY <1>1, <1>4, <1>2 DEF Tells, InOrder
<1> QED BY <1>3, <1>5

\* The types that the steps need.
LEMMA Facts ==
    ASSUME TypeOK, BlockInv
    PROVE  /\ height \in Nat /\ pos \in Nat /\ committedHeight \in Int /\ committedHeight <= height /\ serial \in Nat
           /\ block = <<>> \/ block \in Blocks
           /\ rows \subseteq Row /\ txRows \subseteq Row
           /\ pending \in Seq(Event) /\ published \in Seq(Event) /\ log \in Seq(About) /\ txEvents \in Seq(About)
           /\ Len(pending) \in Nat /\ Len(log) \in Nat /\ Len(txEvents) \in Nat /\ Len(published) \in Nat
           /\ \A e \in Event : e.at \in Nat /\ e.type \in EventTypes /\ e.offer \in Offers \cup {NoOffer}
           /\ \A e \in About : e.at \in Nat /\ e.type \in EventTypes /\ e.offer \in Offers \cup {NoOffer}
<1>1. height \in Nat /\ pos \in Nat /\ committedHeight \in Int /\ committedHeight <= height /\ serial \in Nat
      /\ pending \in Seq(Event) /\ published \in Seq(Event) /\ log \in Seq(About) /\ txEvents \in Seq(About)
      /\ rows \subseteq Row /\ txRows \subseteq Row
  BY DEF TypeOK
<1>2. Len(pending) \in Nat /\ Len(log) \in Nat /\ Len(txEvents) \in Nat /\ Len(published) \in Nat
  BY <1>1
<1>3. \A e \in Event : e.at \in Nat /\ e.type \in EventTypes /\ e.offer \in Offers \cup {NoOffer}
  BY DEF Event
<1>4. \A e \in About : e.at \in Nat /\ e.type \in EventTypes /\ e.offer \in Offers \cup {NoOffer}
  BY DEF About
<1> QED BY <1>1, <1>2, <1>3, <1>4 DEF BlockInv

\* The events of an input are buffered, or were when a rolled-back attempt ran it.
LEMMA Announced ==
    ASSUME DistinctInputs(Blocks), TypeOK, BlockInv, AttemptInv, InTx, ~Ended,
           NEW events \in Seq(Event), SaidBy(block, rows, height + 1, events, pos), Emit(events)
    PROVE  /\ published' = published
           /\ \E e \in Seq(Event) : pending' = pending \o e /\ \A i \in 1 .. Len(e) : e[i].at = height + 1
           /\ \E m \in 0 .. Len(block) : pos <= m /\ Tells(block, rows, height + 1, pending', m)
<1> DEFINE h == height + 1
           new == {k \in DOMAIN events : ~\E i \in DOMAIN pending :
                      pending[i].at = events[k].at /\ Identity(pending[i]) = Identity(events[k])}
           e == PickSeq(events, new)
<1>1. ~(height + 1 <= committedHeight)
  BY Facts
<1>2. published' = published /\ pending' = pending \o e
  BY <1>1 DEF Emit
<1>3. e \in Seq(Event) /\ \E q : Enumerates(q, events, new, Len(events), e)
  <2> HIDE DEF new
  <2> QED BY PickIs
<1>4. PICK q : Enumerates(q, events, new, Len(events), e)
  BY <1>3
<1>5. Len(block) \in Nat /\ pos \in 1 .. Len(block) /\ (block = <<>> \/ block \in Blocks)
  BY Facts, BlockIs DEF BlockInv, InTx, Ended
<1>6. DOMAIN events = 1 .. Len(events) /\ DOMAIN pending = 1 .. Len(pending) /\ Len(pending) \in Nat /\ Len(e) \in Nat
      /\ Len(events) \in Nat
  BY <1>3, Facts
<1>7. \A x, y : Identity(x) = Identity(y) <=> x.type = y.type /\ x.offer = y.offer
  BY DEF Identity
<1>8. \A k \in 1 .. Len(events) : /\ events[k].at = h /\ Says(block, rows, pos, events[k].offer, events[k].type)
                                  /\ events[k].offer \in Offers \cup {NoOffer} /\ events[k].type \in EventTypes
  <2>1. \A k \in 1 .. Len(events) : events[k] \in Event
    OBVIOUS
  <2> QED BY <2>1, Facts DEF SaidBy
<1>9. \A k \in 1 .. Len(events) : k \in new <=> ~Holds(pending, h, events[k].offer, events[k].type)
  BY <1>6, <1>7, <1>8 DEF Holds
<1> HIDE DEF new
<1>10. /\ \A i \in 1 .. Len(e) : q[i] \in 1 .. Len(events) /\ q[i] \in new /\ e[i] = events[q[i]]
       /\ \A i, j \in 1 .. Len(e) : i < j => q[i] < q[j]
       /\ \A k \in 1 .. Len(events) : k \in new => \E i \in 1 .. Len(e) : q[i] = k
  BY <1>4 DEF Enumerates
<1> HIDE DEF e
<1>11. \A i \in 1 .. Len(e) : e[i].at = h
  BY <1>8, <1>10
<1>12. PICK m \in 0 .. Len(block) : pos - 1 <= m /\ Tells(block, rows, h, pending, m)
  BY DEF AttemptInv
<1>13. CASE pos <= m
  <2>1. \A k \in 1 .. Len(events) : k \notin new
    <3>1. pos \in 1 .. m
      BY <1>5, <1>12, <1>13
    <3>2. \A k \in 1 .. Len(events) : Holds(pending, h, events[k].offer, events[k].type)
      BY <3>1, <1>8, <1>12 DEF Tells, All
    <3> QED BY <3>2, <1>9
  <2>2. ~(Len(e) > 0)
    <3>1. Len(e) > 0 => 1 \in 1 .. Len(e)
      BY <1>6
    <3> QED BY <3>1, <2>1, <1>10
  <2>3. e = <<>>
    BY <2>2, <1>6, <1>3, EmptySeq
  <2>4. pending' = pending
    BY <2>3, <1>2, Facts
  <2> QED BY <1>2, <1>3, <1>11, <1>12, <1>13, <2>4
<1>14. CASE ~(pos <= m)
  <2>1. m = pos - 1 /\ m \in Nat /\ m + 1 = pos
    BY <1>5, <1>12, <1>14
  <2>2. \A k \in 1 .. Len(events) : k \in new
    <3>1. SUFFICES ASSUME NEW k \in 1 .. Len(events), Holds(pending, h, events[k].offer, events[k].type) PROVE FALSE
      BY <1>9
    <3>2. PICK i \in 1 .. Len(pending) : pending[i].at = h /\ pending[i].offer = events[k].offer
                                         /\ pending[i].type = events[k].type
      BY <3>1 DEF Holds
    <3>3. PICK l \in 1 .. m : Says(block, rows, l, pending[i].offer, pending[i].type)
      BY <3>2, <1>12 DEF Tells, Only
    <3>4. l \in 1 .. Len(block) /\ Says(block, rows, l, events[k].offer, events[k].type)
      BY <3>2, <3>3, <1>5
    <3>5. l = pos
      BY <3>4, <1>5, <1>8, SaysOnce
    <3> QED BY <3>5, <2>1, <1>5
  <2>3. SaidBy(block, rows, h, e, pos)
    <3>1. \A i \in 1 .. Len(e) : e[i].at = h /\ Says(block, rows, pos, e[i].offer, e[i].type)
      BY <1>8, <1>10
    <3>2. ASSUME NEW i \in 1 .. Len(e), NEW j \in 1 .. Len(e), e[i].offer = e[j].offer PROVE i = j
      <4>1. \A k, l \in 1 .. Len(events) : events[k].offer = events[l].offer => k = l
        BY DEF SaidBy
      <4> DEFINE k == q[i]
                 l == q[j]
      <4>2. k \in 1 .. Len(events) /\ l \in 1 .. Len(events) /\ events[k].offer = events[l].offer
        <5>1. e[i] = events[k] /\ e[j] = events[l]
          BY <1>10
        <5> QED BY <3>2, <5>1, <1>10
      <4> HIDE DEF k, l
      <4>3. k = l
        BY <4>1, <4>2
      <4>4. q[i] = q[j]
        BY <4>3 DEF k, l
      <4>5. q[i] \in Nat /\ q[j] \in Nat
        BY <1>10
      <4> QED BY <4>4, <4>5, <1>10, <1>6
    <3>3. ASSUME NEW o \in Offers \cup {NoOffer}, NEW t \in EventTypes, Says(block, rows, pos, o, t)
          PROVE  \E i \in 1 .. Len(e) : e[i].offer = o /\ e[i].type = t
      <4>1. PICK k \in 1 .. Len(events) : events[k].offer = o /\ events[k].type = t
        BY <3>3 DEF SaidBy
      <4>2. PICK i \in 1 .. Len(e) : q[i] = k
        BY <4>1, <2>2, <1>10
      <4> QED BY <4>1, <4>2, <1>10
    <3> QED BY <3>1, <3>2, <3>3 DEF SaidBy
  <2>4. Tells(block, rows, h, pending \o e, m + 1)
    <3>1. pending \in Seq(Event)
      BY Facts
    <3> QED BY <3>1, <1>3, <1>5, <1>12, <2>1, <2>3, TellsMore
  <2>5. m + 1 \in 0 .. Len(block) /\ pos <= m + 1 /\ Tells(block, rows, h, pending', m + 1)
    BY <1>2, <1>5, <2>1, <2>4
  <2> QED BY <1>2, <1>3, <1>11, <2>5
<1> QED BY <1>13, <1>14

\* LastAt of the subjects is that of the events.
LEMMA LastIs ==
    ASSUME NEW s \in Seq(Event)
    PROVE  Feed!LastAt(Subjects(s)) = IF Len(s) = 0 THEN 0 ELSE s[Len(s)].at
<1>1. Subjects(s) \in Seq(About) /\ Len(Subjects(s)) = Len(s) /\ Len(s) \in Nat
      /\ \A i \in 1 .. Len(s) : Subjects(s)[i] = Subject(s[i]) /\ s[i] \in Event
      /\ \A e \in Event : Subject(e).at = e.at
  BY SubjectsIs
<1> DEFINE u == Subjects(s)
<1>2. u = <<>> <=> Len(u) = 0
  BY <1>1, EmptySeq
<1>3. Len(s) # 0 => Len(s) \in 1 .. Len(s)
  BY <1>1
<1> HIDE DEF u
<1>4. Feed!LastAt(u) = IF u = <<>> THEN 0 ELSE u[Len(u)].at
  BY DEF Feed!LastAt, Feed!Last
<1> QED BY <1>1, <1>2, <1>3, <1>4 DEF u

\* Events of the open block may join the buffer.
LEMMA BufferMore ==
    ASSUME DistinctInputs(Blocks), TypeOK, BlockInv, OrderInv, HeldInv, NEW e \in Seq(Event),
           \A i \in 1 .. Len(e) : e[i].at = height + 1, NEW m \in 0 .. Len(block),
           Tells(block, rows, height + 1, pending \o e, m), height' = height, pending' = pending \o e,
           published' = published, log' = log
    PROVE  OrderInv' /\ HeldInv'
<1> DEFINE p == pending \o e
           n == Len(pending)
<1>1. /\ p \in Seq(Event) /\ Len(p) \in Nat /\ n \in Nat
      /\ \A i \in 1 .. Len(p) : p[i] \in Event /\ p[i].at \in Nat
      /\ \A i \in 1 .. n : i \in 1 .. Len(p) /\ p[i] = pending[i]
      /\ \A i \in 1 .. Len(p) : i \in 1 .. n \/ (i > n /\ p[i].at = height + 1)
  <2>1. pending \in Seq(Event) /\ \A x \in Event : x.at \in Nat
    BY Facts
  <2>2. p \in Seq(Event) /\ n \in Nat
    BY <2>1, ConcatIs
  <2>3. Len(p) \in Nat /\ \A i \in 1 .. Len(p) : p[i] \in Event
    BY <2>2
  <2>4. \A i \in 1 .. n : i \in 1 .. Len(p) /\ p[i] = pending[i]
    BY <2>1, ConcatIs
  <2>5. \A i \in 1 .. Len(p) : i \in 1 .. n \/ (i > n /\ i - n \in 1 .. Len(e) /\ p[i] = e[i - n])
    BY <2>1, ConcatIs
  <2> HIDE DEF p
  <2> QED BY <2>1, <2>2, <2>3, <2>4, <2>5
<1> HIDE DEF p, n
<1>2. /\ height \in Nat /\ \A x \in Event : Subject(x).at = x.at /\ Subject(x).offer = x.offer /\ Subject(x).type = x.type
      /\ \A i \in 1 .. Len(log) : log[i].at \in 1 .. height /\ log[i].at # height + 1
      /\ \A i \in 1 .. n : pending[i].at \in 1 .. height + 1
      /\ block = <<>> \/ block \in Blocks
  <2>1. height \in Nat /\ (block = <<>> \/ block \in Blocks)
    BY Facts
  <2>2. \A x \in Event : Subject(x).at = x.at /\ Subject(x).offer = x.offer /\ Subject(x).type = x.type
    BY DEF Subject
  <2>3. \A i \in 1 .. Len(log) : log[i].at \in 1 .. height /\ log[i].at # height + 1
    BY <2>1 DEF OrderInv
  <2>4. \A i \in 1 .. n : pending[i].at \in 1 .. height + 1
    BY DEF OrderInv, n
  <2> QED BY <2>1, <2>2, <2>3, <2>4
<1>3. OrderInv'
  <2> DEFINE L == Feed!LastAt(Subjects(published))
  <2>1. Feed!LastAt(Subjects(published))' = L /\ Feed!LastAt(log)' = Feed!LastAt(log) /\ L \in 0 .. height
    BY DEF Feed!LastAt, Subjects, OrderInv
  <2>2. \A i \in 1 .. n : pending[i].at > L
    BY DEF OrderInv, n
  <2>3. \A i, j \in 1 .. n : i < j => pending[i].at <= pending[j].at
    BY DEF OrderInv, n
  <2> HIDE DEF L
  <2>4. \A i \in 1 .. Len(p) : p[i].at \in 1 .. height + 1 /\ p[i].at > L
    BY <1>1, <1>2, <2>1, <2>2
  <2>5. ASSUME NEW i \in 1 .. Len(p), NEW j \in 1 .. Len(p), i < j PROVE p[i].at <= p[j].at
    <3>1. CASE j \in 1 .. n
      <4>1. i \in 1 .. n
        BY <1>1, <2>5, <3>1
      <4> QED BY <4>1, <3>1, <2>3, <2>5, <1>1
    <3>2. CASE j \notin 1 .. n
      BY <3>2, <1>1, <1>2, <2>4
    <3> QED BY <3>1, <3>2
  <2> QED BY <2>1, <2>4, <2>5 DEF OrderInv, p, L
<1>4. Held1(p)
  <2>1. SUFFICES ASSUME NEW i \in 1 .. Len(p), NEW j \in 1 .. Len(p), Subject(p[i]) = Subject(p[j]) PROVE i = j
    BY DEF Held1
  <2>2. p[i].at = p[j].at /\ p[i].offer = p[j].offer /\ p[i].type = p[j].type
    BY <2>1, <1>1, <1>2
  <2>3. CASE p[i].at = height + 1
    <3>1. Tells(block, rows, height + 1, p, m)
      BY DEF p
    <3>2. p[j].at = height + 1 /\ Len(p) \in Nat /\ (block = <<>> \/ block \in Blocks)
      BY <2>2, <2>3, <1>1, <1>2
    <3> HIDE DEF Held1
    <3> QED BY <2>2, <2>3, <3>1, <3>2, ToldOnce
  <2>4. CASE p[i].at # height + 1
    <3>1. i \in 1 .. n /\ j \in 1 .. n
      BY <2>2, <2>4, <1>1
    <3> QED BY <3>1, <2>1, <1>1 DEF HeldInv, Held1, n
  <2> QED BY <2>3, <2>4
<1>5. \A i \in 1 .. Len(p) : p[i].at # height + 1 => i \in 1 .. n /\ p[i] = pending[i]
  BY <1>1
<1>6. Held2(p, log, height)
  <2>1. SUFFICES ASSUME NEW i \in 1 .. Len(p), p[i].at <= height PROVE \E j \in 1 .. Len(log) : log[j] = Subject(p[i])
    BY DEF Held2
  <2>2. i \in 1 .. n /\ p[i] = pending[i]
    BY <2>1, <1>5, <1>2, <1>1
  <2> QED BY <2>1, <2>2 DEF HeldInv, Held2, n
<1>7. Held3(p, log)
  <2>1. SUFFICES ASSUME NEW j \in 1 .. Len(log), NEW i \in 1 .. Len(p), p[i].at = log[j].at
                 PROVE  \E x \in 1 .. Len(p) : Subject(p[x]) = log[j]
    BY DEF Held3
  <2>2. i \in 1 .. n /\ p[i] = pending[i]
    BY <2>1, <1>5, <1>2
  <2>3. PICK x \in 1 .. n : Subject(pending[x]) = log[j]
    BY <2>1, <2>2 DEF HeldInv, Held3, n
  <2> QED BY <2>3, <1>1
<1>8. Held4(p, log)
  <2>1. SUFFICES ASSUME NEW i \in 1 .. Len(p), NEW j \in 1 .. Len(p), NEW k \in 1 .. Len(log), NEW l \in 1 .. Len(log),
                        i < j, p[i].offer = p[j].offer, log[k] = Subject(p[i]), log[l] = Subject(p[j])
                 PROVE  k < l
    BY DEF Held4
  <2>2. p[i].at # height + 1 /\ p[j].at # height + 1
    BY <2>1, <1>1, <1>2
  <2>3. i \in 1 .. n /\ p[i] = pending[i] /\ j \in 1 .. n /\ p[j] = pending[j]
    BY <2>2, <1>5
  <2> QED BY <2>1, <2>3 DEF HeldInv, Held4, n
<1>9. HeldInv'
  BY <1>4, <1>6, <1>7, <1>8 DEF HeldInv, Held1, Held2, Held3, Held4, p
<1> QED BY <1>3, <1>9

\* The same of the subjects.
LEMMA SaidSubjects ==
    ASSUME NEW b, NEW R, NEW h, NEW k, NEW e \in Seq(Event), SaidBy(b, R, h, e, k)
    PROVE  SaidBy(b, R, h, Subjects(e), k) /\ Subjects(e) \in Seq(About)
<1>1. /\ Subjects(e) \in Seq(About) /\ Len(Subjects(e)) = Len(e)
      /\ \A i \in 1 .. Len(e) : Subjects(e)[i] = Subject(e[i])
  BY SubjectsIs
<1>2. \A x : Subject(x).at = x.at /\ Subject(x).offer = x.offer /\ Subject(x).type = x.type
  BY DEF Subject
<1>3. \A i \in 1 .. Len(e) : /\ Subjects(e)[i].at = e[i].at /\ Subjects(e)[i].offer = e[i].offer
                             /\ Subjects(e)[i].type = e[i].type
  BY <1>1, <1>2
<1>4. \A i \in 1 .. Len(e) : e[i].at = h /\ Says(b, R, k, e[i].offer, e[i].type)
  BY DEF SaidBy
<1>5. \A i, j \in 1 .. Len(e) : e[i].offer = e[j].offer => i = j
  BY DEF SaidBy
<1>6. \A o \in Offers \cup {NoOffer} : \A t \in EventTypes :
          Says(b, R, k, o, t) => \E i \in 1 .. Len(e) : e[i].offer = o /\ e[i].type = t
  BY DEF SaidBy
<1> DEFINE u == Subjects(e)
<1> HIDE DEF u
<1>7. \A i \in 1 .. Len(u) : u[i].at = h /\ Says(b, R, k, u[i].offer, u[i].type)
  BY <1>1, <1>3, <1>4 DEF u
<1>8. \A i, j \in 1 .. Len(u) : u[i].offer = u[j].offer => i = j
  BY <1>1, <1>3, <1>5 DEF u
<1>9. \A o \in Offers \cup {NoOffer} : \A t \in EventTypes :
          Says(b, R, k, o, t) => \E i \in 1 .. Len(u) : u[i].offer = o /\ u[i].type = t
  <2> TAKE o \in Offers \cup {NoOffer}
  <2> TAKE t \in EventTypes
  <2> HAVE Says(b, R, k, o, t)
  <2>1. PICK i \in 1 .. Len(e) : e[i].offer = o /\ e[i].type = t
    BY <1>6
  <2>2. i \in 1 .. Len(u) /\ u[i].offer = o /\ u[i].type = t
    BY <2>1, <1>1, <1>3 DEF u
  <2> QED BY <2>2
<1> QED BY <1>1, <1>7, <1>8, <1>9 DEF SaidBy, u

-----------------------------------------------------------------------------
(* The steps keep the invariant.                                           *)

\* An input of the block runs: it emits what it announces, and its rows follow.
LEMMA InputKeeps ==
    ASSUME DistinctInputs(Blocks), GateInv, NEW kind, RunInput(kind), serial' \in Nat,
           NEW events \in Seq(Event), SaidBy(block, rows, height + 1, events, pos),
           Emit(events), txEvents' = txEvents \o Subjects(events),
           txRows' \subseteq Row, IsFiniteSet(txRows'), \A r, u \in txRows' : r.offer = u.offer => r = u,
           \A o \in Offers : /\ RowOf(txRows', o) <=> KnownAt(block, rows, pos + 1, o)
                             /\ LiveRowOf(txRows', o) <=> LiveAt(block, rows, pos + 1, o)
    PROVE  GateInv' /\ published' = published /\ log' = log
<1> USE DEF GateInv
<1>1. /\ InTx /\ ~Ended /\ pos' = pos + 1 /\ height' = height /\ rows' = rows /\ block' = block
      /\ committedHeight' = committedHeight /\ log' = log /\ rollbacks' = rollbacks /\ crashes' = crashes
  BY DEF RunInput
<1>2. published' = published
  BY <1>1, Announced
<1>3. PICK e \in Seq(Event) : pending' = pending \o e /\ \A i \in 1 .. Len(e) : e[i].at = height + 1
  BY <1>1, Announced
<1>4. PICK m \in 0 .. Len(block) : pos <= m /\ Tells(block, rows, height + 1, pending', m)
  BY <1>1, Announced
<1>5. Len(block) \in Nat /\ pos \in 1 .. Len(block) /\ (block = <<>> \/ block \in Blocks) /\ height \in Nat
  <2>1. pos \in Nat /\ (block = <<>> \/ block \in Blocks) /\ height \in Nat
    BY Facts
  <2>2. Len(block) \in Nat
    BY <2>1, BlockIs
  <2> QED BY <1>1, <2>1, <2>2 DEF BlockInv, InTx, Ended
<1>6. Subjects(events) \in Seq(About) /\ SaidBy(block, rows, height + 1, Subjects(events), pos)
  BY SaidSubjects
<1>7. txEvents \in Seq(About) /\ pending \in Seq(Event)
  BY Facts
<1>8. txEvents' \in Seq(About) /\ pending' \in Seq(Event)
  BY <1>3, <1>6, <1>7, ConcatIs
<1>9. TypeOK'
  BY <1>1, <1>2, <1>8 DEF TypeOK
<1>10. BlockInv'
  BY <1>1, <1>5 DEF BlockInv
<1>11. RowInv'
  BY <1>1 DEF RowInv
<1>12. AttemptInv'
  <2>1. Tells(block, rows, height + 1, txEvents', pos)
    <3>1. pos - 1 \in Nat /\ (pos - 1) + 1 = pos /\ Tells(block, rows, height + 1, txEvents, pos - 1)
      BY <1>1, <1>5 DEF AttemptInv
    <3> DEFINE ran == pos - 1
    <3>2. ran \in Nat /\ ran + 1 = pos /\ ran + 1 \in 1 .. Len(block) /\ Tells(block, rows, height + 1, txEvents, ran)
          /\ SaidBy(block, rows, height + 1, Subjects(events), ran + 1)
      BY <1>5, <1>6, <3>1
    <3> HIDE DEF ran
    <3>3. Tells(block, rows, height + 1, txEvents \o Subjects(events), ran + 1)
      BY <1>5, <1>6, <1>7, <3>2, TellsMore
    <3> QED BY <3>2, <3>3
  <2>2. \A i \in 1 .. Len(txEvents') : txEvents'[i].at = height + 1
    <3>1. \A i \in 1 .. Len(txEvents) : txEvents[i].at = height + 1
      BY <1>1 DEF AttemptInv
    <3>2. \A i \in 1 .. Len(Subjects(events)) : Subjects(events)[i].at = height + 1
      BY <1>6 DEF SaidBy
    <3>3. \A i \in 1 .. Len(txEvents') : \/ i \in 1 .. Len(txEvents) /\ txEvents'[i] = txEvents[i]
                                         \/ /\ i - Len(txEvents) \in 1 .. Len(Subjects(events))
                                            /\ txEvents'[i] = Subjects(events)[i - Len(txEvents)]
      BY <1>6, <1>7, ConcatIs
    <3> QED BY <3>1, <3>2, <3>3
  <2>3. pos' - 1 = pos
    BY <1>1, <1>5
  <2> QED BY <1>1, <1>4, <2>1, <2>2, <2>3 DEF AttemptInv
<1>13. OrderInv' /\ HeldInv'
  BY <1>1, <1>2, <1>3, <1>4, BufferMore
<1>14. LogInv'
  BY <1>1 DEF LogInv
<1> QED BY <1>1, <1>2, <1>9, <1>10, <1>11, <1>12, <1>13, <1>14

\* One event of one offer, as a sequence.
LEMMA OneEvent ==
    ASSUME TypeOK, NEW t \in EventTypes, NEW o \in Offers \cup {NoOffer}, NEW id \in Nat
    PROVE  LET from == <<[offer |-> o, id |-> id]>>
               events == [i \in DOMAIN from |-> [at |-> height + 1, type |-> t, offer |-> from[i].offer, id |-> from[i].id]]
           IN  /\ events \in Seq(Event) /\ Len(events) = 1
               /\ events[1].at = height + 1 /\ events[1].offer = o /\ events[1].type = t
<1> DEFINE from == <<[offer |-> o, id |-> id]>>
           ev == [at |-> height + 1, type |-> t, offer |-> o, id |-> id]
           events == [i \in DOMAIN from |-> [at |-> height + 1, type |-> t, offer |-> from[i].offer, id |-> from[i].id]]
<1>1. DOMAIN from = 1 .. 1 /\ from[1].offer = o /\ from[1].id = id
  OBVIOUS
<1>2. height + 1 \in Nat
  BY DEF TypeOK
<1>3. ev \in Event
  BY <1>2 DEF Event
<1>4. events = [i \in 1 .. 1 |-> ev]
  <2>1. \A i \in 1 .. 1 : i = 1
    OBVIOUS
  <2> HIDE DEF from
  <2> QED BY <1>1, <2>1
<1>5. ev.at = height + 1 /\ ev.offer = o /\ ev.type = t
  OBVIOUS
<1> HIDE DEF ev, from
<1>6. [i \in 1 .. 1 |-> ev] \in Seq(Event) /\ Len([i \in 1 .. 1 |-> ev]) = 1 /\ [i \in 1 .. 1 |-> ev][1] = ev
  BY <1>3
<1> QED BY <1>4, <1>5, <1>6 DEF from

\* Before an input runs, what the transaction has and the block says.
LEMMA AtInput ==
    ASSUME GateInv, NEW kind, RunInput(kind)
    PROVE  /\ InTx /\ pos \in 1 .. Len(block) /\ pos \in Nat \ {0} /\ Len(block) \in Nat /\ block[pos].kind = kind
           /\ block[pos].offers \subseteq Offers /\ (block = <<>> \/ block \in Blocks)
           /\ kind = "index" => \E o \in Offers : block[pos].offers = {o}
           /\ height \in Nat /\ serial \in Nat /\ txRows \subseteq Row /\ IsFiniteSet(txRows)
           /\ \A r, u \in txRows : r.offer = u.offer => r = u
           /\ \A r \in txRows : r.offer \in Offers
           /\ \A o \in Offers : RowOf(txRows, o) <=> KnownAt(block, rows, pos, o)
           /\ \A o \in Offers : LiveRowOf(txRows, o) <=> LiveAt(block, rows, pos, o)
<1>1. /\ InTx /\ ~Ended /\ block[pos].kind = kind
  BY DEF RunInput
<1>2. /\ height \in Nat /\ serial \in Nat /\ txRows \subseteq Row /\ pos \in Nat
      /\ block = <<>> \/ block \in Blocks
  BY Facts DEF GateInv
<1>3. /\ Len(block) \in Nat
      /\ \A k \in 1 .. Len(block) : block[k].offers \subseteq Offers
      /\ \A k \in 1 .. Len(block) : block[k].kind = "index" => \E o \in Offers : block[k].offers = {o}
  BY <1>2, BlockIs
<1>4. pos \in 1 .. Len(block) /\ pos \in Nat \ {0}
  BY <1>1, <1>2, <1>3 DEF GateInv, BlockInv, InTx, Ended
<1>5. \A r \in txRows : r.offer \in Offers
  BY <1>2 DEF Row
<1>6. /\ IsFiniteSet(txRows)
      /\ \A r, u \in txRows : r.offer = u.offer => r = u
      /\ \A o \in Offers : RowOf(txRows, o) <=> KnownAt(block, rows, pos, o)
      /\ \A o \in Offers : LiveRowOf(txRows, o) <=> LiveAt(block, rows, pos, o)
  BY <1>1 DEF GateInv, RowInv
<1>7. block[pos].offers \subseteq Offers /\ (kind = "index" => \E o \in Offers : block[pos].offers = {o})
  <2>1. block[pos].offers \subseteq Offers
    BY <1>3, <1>4
  <2>2. block[pos].kind = "index" => \E o \in Offers : block[pos].offers = {o}
    BY <1>3, <1>4
  <2> QED BY <1>1, <2>1, <2>2
<1> HIDE DEF GateInv, RunInput
<1> QED BY <1>1, <1>2, <1>3, <1>4, <1>5, <1>6, <1>7

\* A blob: an offer, new or known.
LEMMA IndexKeeps ==
    ASSUME DistinctInputs(Blocks), GateInv, IndexInput
    PROVE  GateInv' /\ published' = published /\ log' = log
<1>1. RunInput("index")
  BY DEF IndexInput
<1> HIDE DEF RunInput
<1>2. /\ InTx /\ pos \in 1 .. Len(block) /\ pos \in Nat \ {0} /\ block[pos].kind = "index" /\ block[pos].offers \subseteq Offers
      /\ \E o \in Offers : block[pos].offers = {o}
      /\ height \in Nat /\ serial \in Nat /\ txRows \subseteq Row /\ IsFiniteSet(txRows)
      /\ \A r, u \in txRows : r.offer = u.offer => r = u
      /\ \A o \in Offers : RowOf(txRows, o) <=> KnownAt(block, rows, pos, o)
      /\ \A o \in Offers : LiveRowOf(txRows, o) <=> LiveAt(block, rows, pos, o)
      /\ (block = <<>> \/ block \in Blocks)
  BY <1>1, AtInput
<1>3. PICK o \in block[pos].offers :
          IF Known(o)
          THEN /\ Announce("offer_rejected", <<[offer |-> o, id |-> NoRow]>>)
               /\ UNCHANGED <<txRows, serial>>
          ELSE /\ serial' = serial + 1
               /\ txRows' = txRows \cup {[id |-> serial + 1, offer |-> o, state |-> "live"]}
               /\ Announce("offer_indexed", <<[offer |-> o, id |-> serial + 1]>>)
  BY DEF IndexInput
<1> DEFINE t == IF Known(o) THEN "offer_rejected" ELSE "offer_indexed"
           id == IF Known(o) THEN NoRow ELSE serial + 1
           from == <<[offer |-> o, id |-> id]>>
           events == [i \in DOMAIN from |-> [at |-> height + 1, type |-> t, offer |-> from[i].offer, id |-> from[i].id]]
<1>4. Announce(t, from)
  BY <1>3
<1>5. o \in Offers /\ block[pos].offers = {o} /\ o # NoOffer
  BY <1>2, BlocksAssumption
<1>6. Known(o) <=> KnownAt(block, rows, pos, o)
  BY <1>2, <1>5 DEF Known, RowOf
<1>7. t \in EventTypes /\ id \in Nat
  BY <1>2 DEF EventTypes, NoRow
<1>8. Emit(events) /\ txEvents' = txEvents \o Subjects(events)
  BY <1>4 DEF Announce
<1> HIDE DEF t, id
<1>9. events \in Seq(Event) /\ Len(events) = 1 /\ events[1].at = height + 1 /\ events[1].offer = o /\ events[1].type = t
  BY <1>5, <1>7, OneEvent DEF GateInv
<1> HIDE DEF events
<1>10. \A x : Indexes(block, pos, x) <=> x = o
  BY <1>2, <1>5 DEF Indexes
<1>11. \A x : ~Archives(block, pos, x)
  BY <1>2 DEF Archives
<1>12. \A x, y : Says(block, rows, pos, x, y) <=> x = o /\ y = t
  BY <1>2, <1>6, <1>10, <1>11 DEF Says, t
<1>13. SaidBy(block, rows, height + 1, events, pos)
  <2>1. \A i : i \in 1 .. 1 <=> i = 1
    OBVIOUS
  <2> QED BY <2>1, <1>9, <1>12 DEF SaidBy
<1>14. \A x \in Offers : /\ KnownAt(block, rows, pos + 1, x) <=> KnownAt(block, rows, pos, x) \/ x = o
                         /\ LiveAt(block, rows, pos + 1, x) <=> \/ LiveAt(block, rows, pos, x)
                                                                \/ ~KnownAt(block, rows, pos, x) /\ x = o
  BY <1>2, <1>10, <1>11, AtNext
<1>15. CASE Known(o)
  <2>1. txRows' = txRows /\ serial' = serial
    BY <1>3, <1>15
  <2>2. \A x \in Offers : /\ RowOf(txRows', x) <=> KnownAt(block, rows, pos + 1, x)
                          /\ LiveRowOf(txRows', x) <=> LiveAt(block, rows, pos + 1, x)
    BY <2>1, <1>2, <1>6, <1>14, <1>15
  <2>3. serial' \in Nat /\ txRows' \subseteq Row /\ IsFiniteSet(txRows') /\ \A r, u \in txRows' : r.offer = u.offer => r = u
    BY <2>1, <1>2
  <2> QED BY <1>1, <1>8, <1>9, <1>13, <2>2, <2>3, InputKeeps
<1>16. CASE ~Known(o)
  <2> DEFINE r == [id |-> serial + 1, offer |-> o, state |-> "live"]
  <2>1. txRows' = txRows \cup {r} /\ serial' = serial + 1
    BY <1>3, <1>16
  <2>2. r \in Row /\ r.offer = o /\ r.state = "live"
    BY <1>2, <1>5 DEF Row, States
  <2> HIDE DEF r
  <2>3. \A u \in txRows : u.offer # o
    BY <1>16 DEF Known
  <2>4. \A x \in Offers : /\ RowOf(txRows', x) <=> RowOf(txRows, x) \/ x = o
                          /\ LiveRowOf(txRows', x) <=> LiveRowOf(txRows, x) \/ x = o
    BY <2>1, <2>2 DEF RowOf, LiveRowOf
  <2>5. \A x \in Offers : /\ RowOf(txRows', x) <=> KnownAt(block, rows, pos + 1, x)
                          /\ LiveRowOf(txRows', x) <=> LiveAt(block, rows, pos + 1, x)
    BY <2>4, <1>2, <1>6, <1>14, <1>16
  <2>6. serial' \in Nat /\ txRows' \subseteq Row /\ \A u, w \in txRows' : u.offer = w.offer => u = w
    BY <2>1, <2>2, <2>3, <1>2
  <2>7. IsFiniteSet(txRows')
    BY <2>1, <1>2, FS_AddElement
  <2> QED BY <1>1, <1>8, <1>9, <1>13, <2>5, <2>6, <2>7, InputKeeps
<1> QED BY <1>15, <1>16

\* A blob that does not parse.
LEMMA MalformedKeeps ==
    ASSUME DistinctInputs(Blocks), GateInv, MalformedInput
    PROVE  GateInv' /\ published' = published /\ log' = log
<1>1. RunInput("malformed") /\ txRows' = txRows /\ serial' = serial
  BY DEF MalformedInput
<1> HIDE DEF RunInput
<1>2. /\ pos \in 1 .. Len(block) /\ pos \in Nat \ {0} /\ block[pos].kind = "malformed"
      /\ height \in Nat /\ serial \in Nat /\ txRows \subseteq Row /\ IsFiniteSet(txRows)
      /\ \A r, u \in txRows : r.offer = u.offer => r = u
      /\ \A o \in Offers : RowOf(txRows, o) <=> KnownAt(block, rows, pos, o)
      /\ \A o \in Offers : LiveRowOf(txRows, o) <=> LiveAt(block, rows, pos, o)
  BY <1>1, AtInput
<1> DEFINE from == <<[offer |-> NoOffer, id |-> NoRow]>>
           events == [i \in DOMAIN from |-> [at |-> height + 1, type |-> "offer_rejected",
                                             offer |-> from[i].offer, id |-> from[i].id]]
<1>3. Emit(events) /\ txEvents' = txEvents \o Subjects(events)
  BY DEF MalformedInput, Announce
<1>4. "offer_rejected" \in EventTypes /\ NoRow \in Nat
  BY DEF EventTypes, NoRow
<1>5. /\ events \in Seq(Event) /\ Len(events) = 1 /\ events[1].at = height + 1 /\ events[1].offer = NoOffer
      /\ events[1].type = "offer_rejected"
  BY <1>4, OneEvent DEF GateInv
<1> HIDE DEF events
<1>6. \A x : ~Indexes(block, pos, x) /\ ~Archives(block, pos, x)
  BY <1>2 DEF Indexes, Archives
<1>7. \A x, y : Says(block, rows, pos, x, y) <=> x = NoOffer /\ y = "offer_rejected"
  BY <1>2, <1>6 DEF Says
<1>8. SaidBy(block, rows, height + 1, events, pos)
  <2>1. \A i : i \in 1 .. 1 <=> i = 1
    OBVIOUS
  <2> QED BY <2>1, <1>5, <1>7 DEF SaidBy
<1>9. \A x \in Offers : /\ RowOf(txRows', x) <=> KnownAt(block, rows, pos + 1, x)
                        /\ LiveRowOf(txRows', x) <=> LiveAt(block, rows, pos + 1, x)
  BY <1>1, <1>2, <1>6, AtNext
<1> QED BY <1>1, <1>2, <1>3, <1>5, <1>8, <1>9, InputKeeps

\* Some order of a finite set has all its elements, once.
LEMMA OrderIs ==
    ASSUME NEW T, NEW S \in SUBSET T, IsFiniteSet(S), NEW f \in SetToSeqs(S)
    PROVE  /\ f \in Seq(T) /\ Len(f) \in Nat /\ DOMAIN f = 1 .. Len(f) /\ \A i \in 1 .. Len(f) : f[i] \in S
           /\ \A i, j \in 1 .. Len(f) : f[i] = f[j] => i = j
           /\ \A x \in S : \E i \in 1 .. Len(f) : f[i] = x
<1> DEFINE n == Cardinality(S)
           D == 1 .. n
<1>1. n \in Nat
  BY FS_CardinalityType
<1>2. f \in [D -> S] /\ \A i, j \in D : i # j => f[i] # f[j]
  BY DEF SetToSeqs
<1> HIDE DEF n
<1>3. f \in Seq(T) /\ Len(f) = n /\ DOMAIN f = D
  BY <1>1, <1>2
<1>4. f \in Injection(D, S)
  BY <1>2 DEF Injection, IsInjective
<1>5. IsFiniteSet(D) /\ Cardinality(D) = n
  BY <1>1, FS_Interval
<1>6. f \in Surjection(D, S)
  BY <1>4, <1>5, FS_Injection DEF n
<1>7. \A x \in S : \E i \in D : f[i] = x
  BY <1>6 DEF Surjection
<1> QED BY <1>1, <1>2, <1>3, <1>7

\* A spend or a cleanup: each live row goes, in some order.
LEMMA ArchiveKeeps ==
    ASSUME DistinctInputs(Blocks), GateInv, NEW kind \in {"consume", "expire"}, NEW state \in {"consumed", "expired"},
           NEW t, t = IF kind = "consume" THEN "offer_consumed" ELSE "offer_expired",
           ArchiveInput(kind, state, t)
    PROVE  GateInv' /\ published' = published /\ log' = log
<1> DEFINE gone == LiveRows(block[pos].offers)
           into(r) == [r EXCEPT !.state = state]
<1>1. RunInput(kind) /\ serial' = serial /\ txRows' = (txRows \ gone) \cup {into(r) : r \in gone}
  BY DEF ArchiveInput
<1> HIDE DEF RunInput
<1>2. /\ pos \in 1 .. Len(block) /\ pos \in Nat \ {0} /\ block[pos].kind = kind /\ block[pos].offers \subseteq Offers
      /\ height \in Nat /\ serial \in Nat /\ txRows \subseteq Row /\ IsFiniteSet(txRows)
      /\ \A r, u \in txRows : r.offer = u.offer => r = u
      /\ \A r \in txRows : r.offer \in Offers
      /\ \A o \in Offers : RowOf(txRows, o) <=> KnownAt(block, rows, pos, o)
      /\ \A o \in Offers : LiveRowOf(txRows, o) <=> LiveAt(block, rows, pos, o)
  BY <1>1, AtInput
<1>3. gone \subseteq txRows /\ \A r \in txRows : r \in gone <=> r.offer \in block[pos].offers /\ r.state = "live"
  BY DEF LiveRows
<1>4. PICK order \in SetToSeqs(gone) : Announce(t, order)
  BY DEF ArchiveInput
<1> HIDE DEF gone
<1>5. IsFiniteSet(gone) /\ gone \subseteq Row
  BY <1>2, <1>3, FS_Subset
<1>6. /\ order \in Seq(Row) /\ Len(order) \in Nat /\ DOMAIN order = 1 .. Len(order)
      /\ \A i \in 1 .. Len(order) : order[i] \in gone
      /\ \A i, j \in 1 .. Len(order) : order[i] = order[j] => i = j
      /\ \A x \in gone : \E i \in 1 .. Len(order) : order[i] = x
  BY <1>5, OrderIs
<1> DEFINE event(r) == [at |-> height + 1, type |-> t, offer |-> r.offer, id |-> r.id]
           events == [i \in DOMAIN order |-> [at |-> height + 1, type |-> t,
                                              offer |-> order[i].offer, id |-> order[i].id]]
<1>7. Emit(events) /\ txEvents' = txEvents \o Subjects(events)
  BY <1>4 DEF Announce
<1>8. t \in EventTypes
  BY DEF EventTypes
<1>9. \A r \in gone : event(r) \in Event
  BY <1>2, <1>5, <1>8 DEF Row, Event
<1>10. events = [i \in 1 .. Len(order) |-> event(order[i])]
  BY <1>6
<1>11. \A r : event(r).at = height + 1 /\ event(r).type = t /\ event(r).offer = r.offer
  OBVIOUS
<1>12. /\ events \in Seq(Event) /\ Len(events) = Len(order)
       /\ \A i \in 1 .. Len(order) : events[i].at = height + 1 /\ events[i].type = t /\ events[i].offer = order[i].offer
  <2>1. \A i \in 1 .. Len(order) : event(order[i]) \in Event
    BY <1>6, <1>9
  <2> HIDE DEF event, events
  <2>2. events \in Seq(Event) /\ Len(events) = Len(order) /\ \A i \in 1 .. Len(order) : events[i] = event(order[i])
    BY <2>1, <1>6, <1>10
  <2> QED BY <2>2, <1>11
<1> HIDE DEF event, events
<1>13. \A x : ~Indexes(block, pos, x)
  BY <1>2 DEF Indexes
<1>14. \A x : Archives(block, pos, x) <=> x \in block[pos].offers
  BY <1>2 DEF Archives
<1>15. \A x, y : Says(block, rows, pos, x, y) <=> x \in block[pos].offers /\ LiveAt(block, rows, pos, x) /\ y = t
  <2>1. block[pos].kind # "malformed"
    BY <1>2
  <2> QED BY <2>1, <1>2, <1>13, <1>14 DEF Says
<1>16. \A x : x \in block[pos].offers /\ LiveAt(block, rows, pos, x) <=> \E r \in gone : r.offer = x
  BY <1>2, <1>3 DEF LiveRowOf
<1>17. SaidBy(block, rows, height + 1, events, pos)
  <2>1. \A i \in 1 .. Len(events) : events[i].at = height + 1 /\ Says(block, rows, pos, events[i].offer, events[i].type)
    BY <1>6, <1>12, <1>15, <1>16
  <2>2. ASSUME NEW i \in 1 .. Len(events), NEW j \in 1 .. Len(events), events[i].offer = events[j].offer PROVE i = j
    <3>1. order[i] = order[j]
      BY <2>2, <1>2, <1>3, <1>6, <1>12
    <3> QED BY <3>1, <1>6, <1>12
  <2>3. ASSUME NEW x \in Offers \cup {NoOffer}, NEW y \in EventTypes, Says(block, rows, pos, x, y)
        PROVE  \E i \in 1 .. Len(events) : events[i].offer = x /\ events[i].type = y
    <3>1. PICK r \in gone : r.offer = x
      BY <2>3, <1>15, <1>16
    <3>2. PICK i \in 1 .. Len(order) : order[i] = r
      BY <3>1, <1>6
    <3> QED BY <3>1, <3>2, <2>3, <1>12, <1>15
  <2> QED BY <2>1, <2>2, <2>3 DEF SaidBy
<1>18. \A r \in gone : into(r) \in Row /\ into(r).offer = r.offer /\ into(r).state # "live"
  BY <1>5 DEF Row, States
<1> DEFINE done == {into(r) : r \in gone}
<1>19. IsFiniteSet(done)
  <2> DEFINE F == [r \in gone |-> into(r)]
  <2>1. F \in Surjection(gone, done)
    BY DEF Surjection
  <2> HIDE DEF F, done
  <2> QED BY <2>1, <1>5, FS_Surjection
<1>20. \A u \in done : \E r \in gone : u = into(r)
  OBVIOUS
<1>21. \A r \in gone : into(r) \in done
  OBVIOUS
<1>22. txRows' = (txRows \ gone) \cup done
  BY <1>1
<1> HIDE DEF into, done
<1>23. \A u \in done : u \in Row /\ u.state # "live" /\ \E r \in gone : u = into(r) /\ u.offer = r.offer
  BY <1>18, <1>20
<1>24. txRows' \subseteq Row
  BY <1>2, <1>22, <1>23
<1>25. IsFiniteSet(txRows')
  <2>1. IsFiniteSet(txRows \ gone)
    BY <1>2, FS_Subset
  <2> QED BY <2>1, <1>19, <1>22, FS_Union
<1>26. \A u, w \in txRows' : u.offer = w.offer => u = w
  <2>1. SUFFICES ASSUME NEW u \in txRows', NEW w \in txRows', u.offer = w.offer PROVE u = w
    OBVIOUS
  <2>2. CASE u \in done /\ w \in done
    <3>1. PICK r \in gone : u = into(r) /\ u.offer = r.offer
      BY <2>2, <1>23
    <3>2. PICK x \in gone : w = into(x) /\ w.offer = x.offer
      BY <2>2, <1>23
    <3>3. r = x
      BY <3>1, <3>2, <2>1, <1>2, <1>3
    <3> QED BY <3>1, <3>2, <3>3
  <2>3. CASE u \notin done /\ w \notin done
    BY <2>1, <2>3, <1>2, <1>22
  <2>4. CASE u \in done /\ w \notin done
    BY <2>1, <2>4, <1>2, <1>3, <1>22, <1>23
  <2>5. CASE u \notin done /\ w \in done
    BY <2>1, <2>5, <1>2, <1>3, <1>22, <1>23
  <2> QED BY <2>2, <2>3, <2>4, <2>5
<1>27. ASSUME NEW x \in Offers
       PROVE  /\ RowOf(txRows', x) <=> KnownAt(block, rows, pos + 1, x)
              /\ LiveRowOf(txRows', x) <=> LiveAt(block, rows, pos + 1, x)
  <2>1. RowOf(txRows', x) <=> RowOf(txRows, x)
    BY <1>3, <1>18, <1>21, <1>22, <1>23 DEF RowOf
  <2>2. LiveRowOf(txRows', x) <=> LiveRowOf(txRows, x) /\ x \notin block[pos].offers
    BY <1>3, <1>22, <1>23 DEF LiveRowOf
  <2>3. KnownAt(block, rows, pos + 1, x) <=> KnownAt(block, rows, pos, x)
    BY <1>2, <1>13, AtNext
  <2>4. LiveAt(block, rows, pos + 1, x) <=> LiveAt(block, rows, pos, x) /\ x \notin block[pos].offers
    BY <1>2, <1>13, <1>14, AtNext
  <2> QED BY <2>1, <2>2, <2>3, <2>4, <1>2
<1>28. serial' \in Nat
  BY <1>1, <1>2
<1> QED BY <1>1, <1>7, <1>12, <1>17, <1>24, <1>25, <1>26, <1>27, <1>28, InputKeeps

\* A block arrives, or is taken up again.
LEMMA BeginKeeps ==
    ASSUME GateInv, Begin
    PROVE  GateInv' /\ published' = published /\ log' = log
<1> USE DEF GateInv
<1>1. /\ ~InTx /\ (block' = block \/ (block = <<>> /\ block' \in Blocks))
      /\ pos' = 1 /\ txRows' = rows /\ txEvents' = <<>> /\ height' = height /\ rows' = rows /\ serial' = serial
      /\ pending' = pending /\ committedHeight' = committedHeight /\ published' = published /\ log' = log
      /\ rollbacks' = rollbacks /\ crashes' = crashes
  BY DEF Begin, dbVars, gateVars
<1>2. height \in Nat /\ (block = <<>> \/ block \in Blocks) /\ (block' = <<>> \/ block' \in Blocks)
  BY <1>1, Facts
<1>3. block' \in Seq(Input) /\ Len(block') \in Nat /\ Len(block) \in Nat
  BY <1>2, BlockIs
<1>4. TypeOK'
  <2>1. txEvents' \in Seq(About)
    BY <1>1
  <2> QED BY <1>1, <1>3, <2>1 DEF TypeOK
<1>5. BlockInv'
  BY <1>1, <1>2, <1>3 DEF BlockInv
<1>6. RowInv'
  <2>1. \A o : KnownAt(block', rows, 1, o) <=> RowOf(rows, o)
    BY DEF KnownAt
  <2>2. \A o : BornAt(block', rows, 1, o) <=> LiveRowOf(rows, o)
    BY DEF BornAt
  <2>3. \A o : LiveAt(block', rows, 1, o) <=> LiveRowOf(rows, o)
    BY <2>2 DEF LiveAt
  <2> QED BY <1>1, <2>1, <2>3 DEF RowInv
<1>7. AttemptInv'
  <2>1. txEvents' = <<>> /\ Len(txEvents') = 0
    BY <1>1
  <2>2. Tells(block', rows, height + 1, txEvents', 0)
    BY <2>1 DEF Tells, Only, InOrder, All
  <2>3. PICK m \in 0 .. Len(block) : Tells(block, rows, height + 1, pending, m)
    BY DEF AttemptInv
  <2>4. CASE block' = block
    <3>1. m \in 0 .. Len(block') /\ 0 <= m /\ Tells(block', rows, height + 1, pending', m)
      BY <1>1, <2>3, <2>4
    <3>2. pos' - 1 = 0
      BY <1>1
    <3> QED BY <1>1, <2>1, <2>2, <3>1, <3>2 DEF AttemptInv
  <2>5. CASE block = <<>>
    <3>1. m = 0
      BY <2>3, <2>5
    <3>2. \A i \in 1 .. Len(pending) : pending[i].at # height + 1
      BY <2>3, <3>1 DEF Tells, Only
    <3>3. Tells(block', rows, height + 1, pending, 0)
      BY <3>2 DEF Tells, Only, InOrder, All
    <3>4. 0 \in 0 .. Len(block') /\ pos' - 1 = 0 /\ Tells(block', rows, height + 1, pending', 0)
      BY <1>1, <1>3, <3>3
    <3> QED BY <1>1, <2>1, <2>2, <3>4 DEF AttemptInv
  <2> QED BY <1>1, <2>4, <2>5
<1>8. OrderInv'
  BY <1>1 DEF OrderInv, Feed!LastAt, Subjects
<1>9. HeldInv' /\ LogInv'
  BY <1>1 DEF HeldInv, LogInv, Held1, Held2, Held3, Held4
<1> QED BY <1>1, <1>4, <1>5, <1>6, <1>7, <1>8, <1>9

\* A block is rolled back.
LEMMA RollbackKeeps ==
    ASSUME GateInv, Rollback
    PROVE  GateInv' /\ published' = published /\ log' = log
<1> USE DEF GateInv
<1>1. /\ pos' = 0 /\ txRows' = {} /\ txEvents' = <<>> /\ height' = height /\ rows' = rows /\ serial' = serial
      /\ block' = block /\ pending' = pending /\ committedHeight' = committedHeight /\ published' = published
      /\ log' = log /\ crashes' = crashes /\ rollbacks < MaxRollbacks /\ rollbacks' = rollbacks + 1
  BY DEF Rollback, dbVars, gateVars
<1>2. TypeOK'
  <2>1. txEvents' \in Seq(About)
    BY <1>1
  <2>2. rollbacks' \in 0 .. MaxRollbacks
    BY <1>1, GateBoundAssumption DEF TypeOK
  <2> QED BY <1>1, <2>1, <2>2 DEF TypeOK
<1>3. BlockInv'
  BY <1>1 DEF BlockInv, InTx
<1>4. RowInv'
  BY <1>1, FS_EmptySet DEF RowInv, InTx
<1>5. AttemptInv'
  <2>1. PICK m \in 0 .. Len(block) : Tells(block, rows, height + 1, pending, m)
    BY DEF AttemptInv
  <2>2. m \in 0 .. Len(block') /\ pos' - 1 <= m /\ Tells(block', rows', height' + 1, pending', m)
    BY <1>1, <2>1
  <2>3. ~InTx'
    BY <1>1 DEF InTx
  <2> QED BY <2>2, <2>3 DEF AttemptInv
<1>6. OrderInv'
  BY <1>1 DEF OrderInv, Feed!LastAt, Subjects
<1>7. HeldInv' /\ LogInv'
  BY <1>1 DEF HeldInv, LogInv, Held1, Held2, Held3, Held4
<1> QED BY <1>1, <1>2, <1>3, <1>4, <1>5, <1>6, <1>7

\* The process restarts.
LEMMA CrashKeeps ==
    ASSUME GateInv, Crash
    PROVE  GateInv' /\ published' = published /\ log' = log
<1> USE DEF GateInv
<1>1. /\ pos' = 0 /\ txRows' = {} /\ txEvents' = <<>> /\ height' = height /\ rows' = rows /\ serial' = serial
      /\ block' = block /\ pending' = <<>> /\ committedHeight' = -1 /\ published' = published
      /\ log' = log /\ crashes < MaxCrashes /\ crashes' = crashes + 1 /\ rollbacks' = rollbacks
  BY DEF Crash, dbVars
<1>2. height \in Nat /\ (block = <<>> \/ block \in Blocks)
  BY Facts
<1>3. TypeOK'
  <2>1. txEvents' \in Seq(About) /\ pending' \in Seq(Event)
    BY <1>1
  <2>2. crashes' \in 0 .. MaxCrashes
    BY <1>1, GateBoundAssumption DEF TypeOK
  <2>3. committedHeight' \in -1 .. height'
    BY <1>1, <1>2
  <2> QED BY <1>1, <2>1, <2>2, <2>3 DEF TypeOK
<1>4. BlockInv'
  BY <1>1 DEF BlockInv, InTx
<1>5. RowInv'
  BY <1>1, FS_EmptySet DEF RowInv, InTx
<1>6. Len(pending') = 0
  BY <1>1
<1>7. AttemptInv'
  <2>1. Tells(block', rows', height' + 1, pending', 0)
    BY <1>6 DEF Tells, Only, InOrder, All
  <2>2. 0 \in 0 .. Len(block') /\ pos' - 1 <= 0
    BY <1>1, <1>2, BlockIs
  <2>3. ~InTx'
    BY <1>1 DEF InTx
  <2> QED BY <2>1, <2>2, <2>3 DEF AttemptInv
<1>8. OrderInv'
  BY <1>1, <1>6 DEF OrderInv, Feed!LastAt, Subjects
<1>9. HeldInv' /\ LogInv'
  BY <1>1, <1>6 DEF HeldInv, LogInv, Held1, Held2, Held3, Held4
<1> QED BY <1>1, <1>3, <1>4, <1>5, <1>7, <1>8, <1>9

\* A block commits: the log gets what it announced.
LEMMA CommitKeeps ==
    ASSUME DistinctInputs(Blocks), GateInv, Commit
    PROVE  /\ GateInv' /\ published' = published /\ log' = log \o txEvents
           /\ \A i \in 1 .. Len(txEvents) : txEvents[i].at = height + 1
<1> USE DEF GateInv
<1>1. /\ InTx /\ Ended /\ height' = height + 1 /\ rows' = txRows /\ log' = log \o txEvents
      /\ block' = <<>> /\ pos' = 0 /\ txRows' = {} /\ txEvents' = <<>> /\ serial' = serial
      /\ pending' = pending /\ committedHeight' = committedHeight /\ published' = published
      /\ rollbacks' = rollbacks /\ crashes' = crashes
  BY DEF Commit, gateVars
<1> DEFINE h == height + 1
           n == Len(log)
           g == log \o txEvents
           p == pending
           told(s) == Tells(block, rows, h, s, Len(block))
<1>2. /\ height \in Nat /\ committedHeight \in Int /\ (block = <<>> \/ block \in Blocks)
      /\ p \in Seq(Event) /\ log \in Seq(About) /\ txEvents \in Seq(About) /\ n \in Nat /\ Len(p) \in Nat
      /\ Len(txEvents) \in Nat
  BY Facts
<1>3. Len(block) \in Nat
  BY <1>2, BlockIs
<1>4. pos = Len(block) + 1
  BY <1>1 DEF Ended
<1>5. told(txEvents) /\ \A i \in 1 .. Len(txEvents) : txEvents[i].at = h
  <2>1. pos - 1 = Len(block)
    BY <1>3, <1>4
  <2> QED BY <1>1, <2>1 DEF AttemptInv
<1>6. told(p)
  <2>1. PICK m \in 0 .. Len(block) : pos - 1 <= m /\ Tells(block, rows, h, p, m)
    BY DEF AttemptInv
  <2>2. m = Len(block)
    BY <2>1, <1>3, <1>4
  <2> QED BY <2>1, <2>2
<1>7. /\ g \in Seq(About) /\ Len(g) \in Nat
      /\ \A i \in 1 .. n : i \in 1 .. Len(g) /\ g[i] = log[i]
      /\ \A i \in 1 .. Len(txEvents) : n + i \in 1 .. Len(g) /\ g[n + i] = txEvents[i]
      /\ \A i \in 1 .. Len(g) : \/ i \in 1 .. n
                                \/ i > n /\ i - n \in 1 .. Len(txEvents) /\ g[i] = txEvents[i - n]
      /\ \A i \in 1 .. Len(g) : g[i] \in About
  <2>1. g \in Seq(About)
    BY <1>2, ConcatIs
  <2>2. Len(g) \in Nat /\ \A i \in 1 .. Len(g) : g[i] \in About
    <3> HIDE DEF g
    <3> QED BY <2>1
  <2>3. \A i \in 1 .. n : i \in 1 .. Len(g) /\ g[i] = log[i]
    BY <1>2, ConcatIs
  <2>4. \A i \in 1 .. Len(txEvents) : n + i \in 1 .. Len(g) /\ g[n + i] = txEvents[i]
    BY <1>2, ConcatIs
  <2>5. \A i \in 1 .. Len(g) : \/ i \in 1 .. n
                               \/ i > n /\ i - n \in 1 .. Len(txEvents) /\ g[i] = txEvents[i - n]
    BY <1>2, ConcatIs
  <2> QED BY <2>1, <2>2, <2>3, <2>4, <2>5
<1>8. log' = g /\ pending' = p
  BY <1>1
<1>9. /\ \A i \in 1 .. n : log[i].at \in 1 .. height /\ log[i].at # h
      /\ \A i \in 1 .. Len(p) : p[i].at \in 1 .. h /\ p[i].at \in Nat /\ p[i] \in Event
  <2>1. \A i \in 1 .. Len(p) : p[i] \in Event
    BY <1>2
  <2> QED BY <1>2, <2>1 DEF OrderInv
<1> HIDE DEF g, p, n
<1>10. \A i \in 1 .. Len(g) : \/ i \in 1 .. n /\ g[i] = log[i] /\ g[i].at # h
                              \/ i > n /\ g[i].at = h /\ i - n \in 1 .. Len(txEvents) /\ g[i] = txEvents[i - n]
  BY <1>5, <1>7, <1>9
<1>11. TypeOK'
  <2>1. log' \in Seq(About)
    BY <1>7, <1>8
  <2>2. txEvents' \in Seq(About) /\ block' \in Seq(Input)
    BY <1>1
  <2>3. committedHeight' \in -1 .. height'
    BY <1>1, <1>2 DEF TypeOK
  <2>4. height' \in Nat
    BY <1>1, <1>2
  <2> QED BY <1>1, <2>1, <2>2, <2>3, <2>4 DEF TypeOK
<1>12. BlockInv'
  BY <1>1 DEF BlockInv, InTx
<1>13. RowInv'
  BY <1>1, FS_EmptySet DEF RowInv, InTx
<1>14. AttemptInv'
  <2>1. Len(block') = 0 /\ pos' - 1 <= 0 /\ ~InTx'
    BY <1>1 DEF InTx
  <2>2. height' + 1 = h + 1 /\ \A i \in 1 .. Len(p) : p[i].at # h + 1
    BY <1>1, <1>2, <1>9
  <2>3. Tells(block', rows', h + 1, p, 0)
    BY <2>2 DEF Tells, Only, InOrder, All
  <2>4. Tells(block', rows', height' + 1, pending', 0)
    BY <2>2, <2>3, <1>8
  <2> QED BY <2>1, <2>4 DEF AttemptInv
<1>15. OrderInv'
  <2> DEFINE L == Feed!LastAt(Subjects(published))
  <2>1. Feed!LastAt(Subjects(published))' = L /\ L \in 0 .. height
    BY <1>1 DEF OrderInv, Feed!LastAt, Subjects
  <2>2. \A i \in 1 .. Len(p) : p[i].at > L
    BY DEF OrderInv, p
  <2>3. \A i, j \in 1 .. Len(p) : i < j => p[i].at <= p[j].at
    BY DEF OrderInv, p
  <2> HIDE DEF L
  <2>4. \A i \in 1 .. Len(g) : g[i].at \in 1 .. h
    BY <1>2, <1>9, <1>10
  <2>5. Feed!LastAt(log)' \in 0 .. h
    <3>1. Feed!LastAt(g) \in 0 .. h
      <4>1. CASE g = <<>>
        BY <4>1, <1>2 DEF Feed!LastAt
      <4>2. CASE g # <<>>
        <5>1. Len(g) \in 1 .. Len(g)
          BY <4>2, <1>7, EmptySeq
        <5>2. Feed!LastAt(g) = g[Len(g)].at
          BY <4>2 DEF Feed!LastAt, Feed!Last
        <5> QED BY <5>1, <5>2, <2>4, <1>2
      <4> QED BY <4>1, <4>2
    <3>2. Feed!LastAt(log)' = Feed!LastAt(g)
      BY <1>8 DEF Feed!LastAt
    <3> QED BY <3>1, <3>2
  <2>6. \A i \in 1 .. Len(p) : p[i].at \in 1 .. h + 1
    BY <1>2, <1>9
  <2>7. L \in 0 .. h
    BY <2>1, <1>2
  <2>8. height' = h
    BY <1>1
  <2> QED BY <1>8, <2>1, <2>2, <2>3, <2>4, <2>5, <2>6, <2>7, <2>8 DEF OrderInv
<1>16. \A x : Subject(x).at = x.at /\ Subject(x).offer = x.offer /\ Subject(x).type = x.type
  BY DEF Subject
<1>17. \A x \in About : \A y : x.at = y.at /\ x.offer = y.offer /\ x.type = y.type => x = Subject(y)
  BY DEF About, Subject
<1>18. Held1(p)
  BY DEF HeldInv, p
<1>19. Held2(p, g, h)
  <2>1. SUFFICES ASSUME NEW i \in 1 .. Len(p), p[i].at <= h PROVE \E j \in 1 .. Len(g) : g[j] = Subject(p[i])
    BY DEF Held2
  <2>2. CASE p[i].at = h
    <3>1. PICK k \in 1 .. Len(block) : Says(block, rows, k, p[i].offer, p[i].type)
      BY <2>2, <1>6 DEF Tells, Only
    <3>2. p[i].offer \in Offers \cup {NoOffer} /\ p[i].type \in EventTypes
      BY <1>9, Facts
    <3>3. Holds(txEvents, h, p[i].offer, p[i].type)
      BY <3>1, <3>2, <1>5 DEF Tells, All
    <3>4. PICK x \in 1 .. Len(txEvents) : txEvents[x].at = h /\ txEvents[x].offer = p[i].offer /\ txEvents[x].type = p[i].type
      BY <3>3 DEF Holds
    <3>5. n + x \in 1 .. Len(g) /\ g[n + x] = txEvents[x] /\ g[n + x] \in About
      BY <3>4, <1>7
    <3>6. g[n + x] = Subject(p[i])
      BY <3>4, <3>5, <2>2, <1>17
    <3> QED BY <3>5, <3>6
  <2>3. CASE p[i].at # h
    <3>1. p[i].at <= height
      BY <2>1, <2>3, <1>2, <1>9
    <3>2. PICK j \in 1 .. n : log[j] = Subject(p[i])
      BY <3>1 DEF HeldInv, Held2, p, n
    <3> QED BY <3>2, <1>7
  <2> QED BY <2>2, <2>3
<1>20. Held3(p, g)
  <2>1. SUFFICES ASSUME NEW j \in 1 .. Len(g), NEW i \in 1 .. Len(p), p[i].at = g[j].at
                 PROVE  \E x \in 1 .. Len(p) : Subject(p[x]) = g[j]
    BY DEF Held3
  <2>2. CASE j \in 1 .. n
    BY <2>1, <2>2, <1>7 DEF HeldInv, Held3, p, n
  <2>3. CASE j \notin 1 .. n
    <3>1. j - n \in 1 .. Len(txEvents) /\ g[j] = txEvents[j - n] /\ g[j].at = h /\ g[j] \in About
      BY <2>3, <1>7, <1>10
    <3>2. PICK k \in 1 .. Len(block) : Says(block, rows, k, g[j].offer, g[j].type)
      BY <3>1, <1>5 DEF Tells, Only
    <3>3. g[j].offer \in Offers \cup {NoOffer} /\ g[j].type \in EventTypes
      BY <3>1, Facts
    <3>4. Holds(p, h, g[j].offer, g[j].type)
      BY <3>2, <3>3, <1>6 DEF Tells, All
    <3>5. PICK x \in 1 .. Len(p) : p[x].at = h /\ p[x].offer = g[j].offer /\ p[x].type = g[j].type
      BY <3>4 DEF Holds
    <3>6. g[j] = Subject(p[x])
      BY <3>1, <3>5, <1>17
    <3> QED BY <3>6
  <2> QED BY <2>2, <2>3
<1>21. Held4(p, g)
  <2>1. SUFFICES ASSUME NEW i \in 1 .. Len(p), NEW j \in 1 .. Len(p), NEW k \in 1 .. Len(g), NEW l \in 1 .. Len(g),
                        i < j, p[i].offer = p[j].offer, g[k] = Subject(p[i]), g[l] = Subject(p[j])
                 PROVE  k < l
    BY DEF Held4
  <2>2. p[i].at = g[k].at /\ p[j].at = g[l].at /\ p[i].at <= p[j].at
    BY <2>1, <1>16 DEF OrderInv, p
  <2>3. CASE p[i].at = h
    <3>1. p[j].at = h
      BY <2>2, <2>3, <1>2, <1>9
    <3>2. /\ k > n /\ k - n \in 1 .. Len(txEvents) /\ g[k] = txEvents[k - n]
          /\ l > n /\ l - n \in 1 .. Len(txEvents) /\ g[l] = txEvents[l - n]
      BY <2>2, <2>3, <3>1, <1>10
    <3> DEFINE c == k - n
               d == l - n
    <3>3. c \in 1 .. Len(txEvents) /\ d \in 1 .. Len(txEvents) /\ txEvents[c] = Subject(p[i]) /\ txEvents[d] = Subject(p[j])
          /\ (c < d => k < l)
      BY <3>2, <2>1, <1>2, <1>7
    <3> HIDE DEF c, d
    <3>4. /\ txEvents[c].at = h /\ txEvents[c].offer = p[i].offer /\ txEvents[c].type = p[i].type
          /\ txEvents[d].at = h /\ txEvents[d].offer = p[j].offer /\ txEvents[d].type = p[j].type
      BY <3>3, <1>16, <2>3, <3>1
    <3>5. PICK a \in 1 .. Len(block) : Says(block, rows, a, p[i].offer, p[i].type)
      BY <2>3, <1>6 DEF Tells, Only
    <3>6. PICK b \in 1 .. Len(block) : Says(block, rows, b, p[j].offer, p[j].type)
      BY <3>1, <1>6 DEF Tells, Only
    <3>7. a < b
      BY <3>5, <3>6, <2>1, <2>3, <3>1, <1>6 DEF Tells, InOrder
    <3>8. p[i].type # p[j].type
      BY <3>5, <3>6, <3>7, <2>1, SaysOnce, <1>2
    <3>9. c # d
      BY <3>4, <3>8
    <3>10. ~(d < c)
      <4>1. SUFFICES ASSUME d < c PROVE FALSE
        OBVIOUS
      <4>2. Says(block, rows, a, txEvents[c].offer, txEvents[c].type) /\ Says(block, rows, b, txEvents[d].offer, txEvents[d].type)
            /\ txEvents[c].offer = txEvents[d].offer
        BY <3>4, <3>5, <3>6, <2>1
      <4>3. b < a
        BY <4>1, <4>2, <3>3, <3>4, <1>5 DEF Tells, InOrder
      <4> QED BY <4>3, <3>7
    <3> QED BY <3>3, <3>9, <3>10
  <2>4. CASE p[i].at # h /\ p[j].at # h
    <3>1. k \in 1 .. n /\ l \in 1 .. n /\ g[k] = log[k] /\ g[l] = log[l]
      BY <2>2, <2>4, <1>10
    <3> QED BY <2>1, <3>1 DEF HeldInv, Held4, p, n
  <2>5. CASE p[i].at # h /\ p[j].at = h
    <3>1. k \in 1 .. n /\ l > n
      BY <2>2, <2>5, <1>10
    <3> QED BY <3>1, <1>2, <1>7
  <2> QED BY <2>3, <2>4, <2>5
<1>22. HeldInv'
  BY <1>1, <1>8, <1>18, <1>19, <1>20, <1>21 DEF HeldInv, Held1, Held2, Held3, Held4
<1>23. LogInv'
  <2>1. SUFFICES ASSUME NEW i \in 1 .. Len(g), NEW j \in 1 .. Len(g), g[i] = g[j] PROVE i = j
    BY <1>8 DEF LogInv
  <2>2. CASE g[i].at = h
    <3>1. i - n \in 1 .. Len(txEvents) /\ j - n \in 1 .. Len(txEvents) /\ txEvents[i - n] = txEvents[j - n]
          /\ txEvents[i - n].at = h /\ txEvents[j - n].at = h
      BY <2>1, <2>2, <1>10
    <3>2. Len(block) \in 0 .. Len(block)
      BY <1>3
    <3> DEFINE c == i - n
               d == j - n
    <3>3. c \in 1 .. Len(txEvents) /\ d \in 1 .. Len(txEvents) /\ txEvents[c] = txEvents[d]
          /\ txEvents[c].at = h /\ txEvents[d].at = h
          /\ txEvents[c].offer = txEvents[d].offer /\ txEvents[c].type = txEvents[d].type
      BY <3>1
    <3>4. c = d => i = j
      BY <1>2
    <3> HIDE DEF c, d
    <3>5. Tells(block, rows, h, txEvents, Len(block)) /\ Len(txEvents) \in Nat /\ (block = <<>> \/ block \in Blocks)
      BY <1>2, <1>5
    <3>6. c = d
      BY <3>2, <3>3, <3>5, ToldOnce
    <3> QED BY <3>4, <3>6
  <2>3. CASE g[i].at # h
    <3>1. i \in 1 .. n /\ j \in 1 .. n /\ log[i] = log[j]
      BY <2>1, <2>3, <1>10
    <3> QED BY <3>1 DEF LogInv, n
  <2> QED BY <2>2, <2>3
<1> HIDE DEF TypeOK, BlockInv, RowInv, AttemptInv, OrderInv, HeldInv, LogInv
<1> QED BY <1>1, <1>5, <1>11, <1>12, <1>13, <1>14, <1>15, <1>22, <1>23

\* The poll releases what has been committed and holds the rest.
LEMMA PollIs ==
    ASSUME TypeOK, BlockInv, NEW h \in 0 .. height, PollGate(h)
    PROVE  /\ Ready(h) \in Seq(Event) /\ Held(h) \in Seq(Event)
           /\ published' = published \o Ready(h) /\ pending' = Held(h) /\ committedHeight' = h
           /\ UNCHANGED <<dbVars, txVars, log, rollbacks, crashes>>
           /\ \E q : Enumerates(q, pending, {i \in DOMAIN pending : pending[i].at <= h}, Len(pending), Ready(h))
           /\ \E q : Enumerates(q, pending, {i \in DOMAIN pending : ~(pending[i].at <= h)}, Len(pending), Held(h))
<1> DEFINE due == {i \in DOMAIN pending : pending[i].at <= h}
           rest == {i \in DOMAIN pending : ~(pending[i].at <= h)}
<1>1. pending \in Seq(Event)
  BY Facts
<1>2. Ready(h) = PickSeq(pending, due) /\ Held(h) = PickSeq(pending, rest)
  BY DEF Ready, Held, Releasable
<1>3. published' = published \o Ready(h) /\ pending' = Held(h) /\ committedHeight' = h
      /\ UNCHANGED <<dbVars, txVars, log, rollbacks, crashes>>
  BY DEF PollGate, Seen
<1> HIDE DEF due, rest
<1>4. PickSeq(pending, due) \in Seq(Event) /\ \E q : Enumerates(q, pending, due, Len(pending), PickSeq(pending, due))
  BY <1>1, PickIs
<1>5. PickSeq(pending, rest) \in Seq(Event) /\ \E q : Enumerates(q, pending, rest, Len(pending), PickSeq(pending, rest))
  BY <1>1, PickIs
<1> QED BY <1>2, <1>3, <1>4, <1>5 DEF due, rest

\* What is left in the buffer still agrees with the block and with the log.
LEMMA PollKeeps ==
    ASSUME GateInv, NEW h \in 0 .. height, PollGate(h)
    PROVE  GateInv'
<1> USE DEF GateInv
<1> DEFINE p == pending
           r == Ready(h)
           w == Held(h)
<1>1. /\ height \in Nat /\ h \in Nat /\ h <= height /\ p \in Seq(Event) /\ Len(p) \in Nat /\ published \in Seq(Event)
      /\ (block = <<>> \/ block \in Blocks)
  BY Facts
<1>2. /\ r \in Seq(Event) /\ w \in Seq(Event) /\ published' = published \o r /\ pending' = w /\ committedHeight' = h
      /\ UNCHANGED <<dbVars, txVars, log, rollbacks, crashes>>
  BY PollIs
<1>3. /\ height' = height /\ rows' = rows /\ serial' = serial /\ block' = block /\ pos' = pos /\ txRows' = txRows
      /\ txEvents' = txEvents /\ log' = log /\ rollbacks' = rollbacks /\ crashes' = crashes
  BY <1>2 DEF dbVars, txVars
<1>4. Len(r) \in Nat /\ Len(w) \in Nat
  BY <1>2
<1>5. PICK q : Enumerates(q, p, {i \in DOMAIN p : ~(p[i].at <= h)}, Len(p), w)
  BY PollIs
<1>6. PICK z : Enumerates(z, p, {i \in DOMAIN p : p[i].at <= h}, Len(p), r)
  BY PollIs
<1>7. \A i \in 1 .. Len(p) : p[i] \in Event /\ p[i].at \in 1 .. height + 1
  BY <1>1 DEF OrderInv
<1>8. /\ \A i \in 1 .. Len(w) : q[i] \in 1 .. Len(p) /\ w[i] = p[q[i]] /\ p[q[i]].at > h
      /\ \A i, j \in 1 .. Len(w) : i < j => q[i] < q[j]
      /\ \A k \in 1 .. Len(p) : p[k].at > h => \E i \in 1 .. Len(w) : q[i] = k
  <2>1. /\ \A i \in 1 .. Len(w) : q[i] \in 1 .. Len(p) /\ w[i] = p[q[i]] /\ ~(p[q[i]].at <= h)
        /\ \A i, j \in 1 .. Len(w) : i < j => q[i] < q[j]
        /\ \A k \in 1 .. Len(p) : ~(p[k].at <= h) => \E i \in 1 .. Len(w) : q[i] = k
    <3>1. DOMAIN p = 1 .. Len(p)
      BY <1>1
    <3> HIDE DEF p, w
    <3> QED BY <3>1, <1>5 DEF Enumerates
  <2>2. \A i \in 1 .. Len(p) : ~(p[i].at <= h) <=> p[i].at > h
    BY <1>1, <1>7
  <2> HIDE DEF p, w
  <2> QED BY <2>1, <2>2
<1>9. \A i \in 1 .. Len(r) : z[i] \in 1 .. Len(p) /\ r[i] = p[z[i]] /\ p[z[i]].at <= h
  <2>1. DOMAIN p = 1 .. Len(p)
    BY <1>1
  <2> HIDE DEF p, r
  <2> QED BY <2>1, <1>6 DEF Enumerates
<1> HIDE DEF p, r, w
<1>10. \A i, j \in 1 .. Len(w) : q[i] = q[j] => i = j
  <2>1. SUFFICES ASSUME NEW i \in 1 .. Len(w), NEW j \in 1 .. Len(w), q[i] = q[j] PROVE i = j
    OBVIOUS
  <2>2. q[i] \in Nat /\ ~(i < j) /\ ~(j < i)
    BY <2>1, <1>8
  <2> QED BY <2>2, <1>4
<1>11. TypeOK'
  <2>1. published' \in Seq(Event)
    BY <1>1, <1>2, ConcatIs
  <2>2. committedHeight' \in -1 .. height'
    BY <1>1, <1>2, <1>3
  <2> QED BY <1>2, <1>3, <2>1, <2>2 DEF TypeOK
<1>12. BlockInv' /\ RowInv' /\ LogInv'
  BY <1>3 DEF BlockInv, RowInv, LogInv, InTx
<1>13. AttemptInv'
  <2>1. PICK m \in 0 .. Len(block) : pos - 1 <= m /\ Tells(block, rows, height + 1, p, m)
    BY DEF AttemptInv, p
  <2>2. Only(block, rows, height + 1, w, m)
    BY <2>1, <1>8 DEF Tells, Only
  <2>3. InOrder(block, rows, height + 1, w)
    <3>1. SUFFICES ASSUME NEW i \in 1 .. Len(w), NEW j \in 1 .. Len(w), i < j, w[i].at = height + 1, w[j].at = height + 1,
                          w[i].offer = w[j].offer, NEW k \in 1 .. Len(block), NEW l \in 1 .. Len(block),
                          Says(block, rows, k, w[i].offer, w[i].type), Says(block, rows, l, w[j].offer, w[j].type)
                   PROVE  k < l
      BY DEF InOrder
    <3>2. q[i] \in 1 .. Len(p) /\ w[i] = p[q[i]] /\ q[j] \in 1 .. Len(p) /\ w[j] = p[q[j]] /\ q[i] < q[j]
      BY <3>1, <1>8
    <3> QED BY <3>1, <3>2, <2>1 DEF Tells, InOrder
  <2>4. All(block, rows, height + 1, w, m)
    <3>1. SUFFICES ASSUME NEW k \in 1 .. m, NEW o \in Offers \cup {NoOffer}, NEW t \in EventTypes,
                          Says(block, rows, k, o, t)
                   PROVE  Holds(w, height + 1, o, t)
      BY DEF All
    <3>2. Holds(p, height + 1, o, t)
      BY <3>1, <2>1 DEF Tells, All
    <3>3. PICK x \in 1 .. Len(p) : p[x].at = height + 1 /\ p[x].offer = o /\ p[x].type = t
      BY <3>2 DEF Holds
    <3>4. PICK i \in 1 .. Len(w) : q[i] = x
      BY <3>3, <1>1, <1>8
    <3> QED BY <3>3, <3>4, <1>8 DEF Holds
  <2>5. Tells(block', rows', height' + 1, pending', m)
    BY <2>2, <2>3, <2>4, <1>2, <1>3 DEF Tells
  <2> QED BY <2>1, <2>5, <1>3 DEF AttemptInv, InTx
<1>14. OrderInv'
  <2> DEFINE L == Feed!LastAt(Subjects(published))
             M == Feed!LastAt(Subjects(published \o r))
  <2>1. \A i \in 1 .. Len(p) : p[i].at > L
    BY DEF OrderInv, p
  <2>2. \A i, j \in 1 .. Len(p) : i < j => p[i].at <= p[j].at
    BY DEF OrderInv, p
  <2>3. L \in 0 .. height
    BY DEF OrderInv
  <2>4. ASSUME Len(r) = 0
        PROVE  M \in 0 .. height /\ \A i \in 1 .. Len(w) : w[i].at \in 1 .. height + 1 /\ w[i].at > M
    <3>1. r = <<>>
      BY <2>4, <1>2, EmptySeq
    <3>2. published \o r = published
      BY <3>1, <1>1
    <3>3. M = L
      BY <3>2
    <3>4. \A i \in 1 .. Len(w) : w[i].at \in 1 .. height + 1 /\ w[i].at > M
      BY <3>3, <2>1, <1>7, <1>8
    <3> HIDE DEF L, M
    <3> QED BY <2>3, <3>3, <3>4
  <2>5. ASSUME Len(r) # 0
        PROVE  M \in 0 .. height /\ \A i \in 1 .. Len(w) : w[i].at \in 1 .. height + 1 /\ w[i].at > M
    <3> DEFINE s == published \o r
    <3>1. /\ s \in Seq(Event) /\ Len(s) = Len(published) + Len(r) /\ Len(published) \in Nat
          /\ Len(r) \in 1 .. Len(r)
          /\ s[Len(published) + Len(r)] = r[Len(r)]
      BY <2>5, <1>1, <1>2, <1>4, ConcatIs
    <3> HIDE DEF s
    <3>2. Feed!LastAt(Subjects(s)) = IF Len(s) = 0 THEN 0 ELSE s[Len(s)].at
      BY <3>1, LastIs
    <3>3. M = r[Len(r)].at
      BY <3>1, <3>2, <2>5, <1>4 DEF s
    <3> HIDE DEF M
    <3>4. M \in 0 .. h
      BY <3>1, <3>3, <1>1, <1>7, <1>9
    <3>5. \A i \in 1 .. Len(w) : w[i].at \in 1 .. height + 1 /\ w[i].at > M
      BY <3>4, <1>1, <1>7, <1>8
    <3> QED BY <3>4, <3>5, <1>1
  <2>6. M \in 0 .. height /\ \A i \in 1 .. Len(w) : w[i].at \in 1 .. height + 1 /\ w[i].at > M
    BY <2>4, <2>5
  <2>7. \A i, j \in 1 .. Len(w) : i < j => w[i].at <= w[j].at
    BY <2>2, <1>8
  <2>8. Feed!LastAt(Subjects(published))' = M /\ Feed!LastAt(log)' = Feed!LastAt(log)
    BY <1>2, <1>3 DEF Feed!LastAt, Subjects
  <2> HIDE DEF L, M
  <2> QED BY <1>2, <1>3, <2>6, <2>7, <2>8 DEF OrderInv
<1>15. Held1(w)
  <2>1. SUFFICES ASSUME NEW i \in 1 .. Len(w), NEW j \in 1 .. Len(w), Subject(w[i]) = Subject(w[j]) PROVE i = j
    BY DEF Held1
  <2>2. q[i] = q[j]
    BY <2>1, <1>8 DEF HeldInv, Held1, p
  <2> QED BY <2>2, <1>10
<1>16. Held2(w, log, height)
  BY <1>8 DEF HeldInv, Held2, p
<1>17. Held3(w, log)
  <2>1. SUFFICES ASSUME NEW j \in 1 .. Len(log), NEW i \in 1 .. Len(w), w[i].at = log[j].at
                 PROVE  \E x \in 1 .. Len(w) : Subject(w[x]) = log[j]
    BY DEF Held3
  <2>2. q[i] \in 1 .. Len(p) /\ p[q[i]].at = log[j].at /\ log[j].at > h
    BY <2>1, <1>8
  <2>3. PICK k \in 1 .. Len(p) : Subject(p[k]) = log[j]
    BY <2>2 DEF HeldInv, Held3, p
  <2>4. p[k].at = log[j].at
    BY <2>3 DEF Subject
  <2>5. PICK x \in 1 .. Len(w) : q[x] = k
    BY <2>2, <2>4, <1>8
  <2> QED BY <2>3, <2>5, <1>8
<1>18. Held4(w, log)
  <2>1. SUFFICES ASSUME NEW i \in 1 .. Len(w), NEW j \in 1 .. Len(w), NEW k \in 1 .. Len(log), NEW l \in 1 .. Len(log),
                        i < j, w[i].offer = w[j].offer, log[k] = Subject(w[i]), log[l] = Subject(w[j])
                 PROVE  k < l
    BY DEF Held4
  <2>2. q[i] \in 1 .. Len(p) /\ w[i] = p[q[i]] /\ q[j] \in 1 .. Len(p) /\ w[j] = p[q[j]] /\ q[i] < q[j]
    BY <2>1, <1>8
  <2> QED BY <2>1, <2>2 DEF HeldInv, Held4, p
<1>19. HeldInv'
  BY <1>2, <1>3, <1>15, <1>16, <1>17, <1>18 DEF HeldInv, Held1, Held2, Held3, Held4
<1> HIDE DEF TypeOK, BlockInv, RowInv, AttemptInv, OrderInv, HeldInv, LogInv
<1> QED BY <1>11, <1>12, <1>13, <1>14, <1>19

-----------------------------------------------------------------------------
(* The refinement.                                                         *)

\* A prefix and what follows it.
LEMMA PrefixOf ==
    ASSUME NEW T, NEW s \in Seq(T), NEW e \in Seq(T)
    PROVE  Feed!IsPrefix(s, s \o e) /\ SubSeq(s \o e, Len(s) + 1, Len(s \o e)) = e
<1> DEFINE u == s \o e
           v == SubSeq(u, Len(s) + 1, Len(u))
<1>1. /\ u \in Seq(T) /\ Len(u) = Len(s) + Len(e) /\ Len(s) \in Nat /\ Len(e) \in Nat
      /\ \A i \in 1 .. Len(s) : i \in 1 .. Len(u) /\ u[i] = s[i]
      /\ \A i \in 1 .. Len(e) : Len(s) + i \in 1 .. Len(u) /\ u[Len(s) + i] = e[i]
  BY ConcatIs
<1> HIDE DEF u
<1>2. SubSeq(s, 1, Len(s)) = SubSeq(u, 1, Len(s))
  <2>1. SubSeq(s, 1, Len(s)) \in Seq(T) /\ Len(SubSeq(s, 1, Len(s))) = Len(s)
        /\ \A i \in 1 .. Len(s) : SubSeq(s, 1, Len(s))[i] = s[i]
    BY <1>1
  <2>2. SubSeq(u, 1, Len(s)) \in Seq(T) /\ Len(SubSeq(u, 1, Len(s))) = Len(s)
        /\ \A i \in 1 .. Len(s) : SubSeq(u, 1, Len(s))[i] = u[i]
    BY <1>1
  <2> QED BY <2>1, <2>2, <1>1, SeqEqual
<1>3. v \in Seq(T) /\ Len(v) = Len(e) /\ \A i \in 1 .. Len(e) : v[i] = u[Len(s) + i]
  BY <1>1
<1>4. v = e
  <2> HIDE DEF v
  <2> QED BY <1>1, <1>3, SeqEqual
<1>5. Len(s) <= Len(u)
  BY <1>1
<1> QED BY <1>2, <1>4, <1>5 DEF Feed!IsPrefix, u

\* What the feed calls picking is picking.
LEMMA FeedPick == ASSUME NEW s, NEW at PROVE Feed!PickSeq(s, at) = PickSeq(s, at)
  BY DEF Feed!PickSeq, PickSeq

\* A committed block is one step of the feed.
LEMMA CommitIsCommit ==
    ASSUME DistinctInputs(Blocks), GateInv, Commit
    PROVE  Feed!Commit
<1> DEFINE g == log \o txEvents
           n == Len(log)
<1>1. published' = published /\ log' = g /\ \A i \in 1 .. Len(txEvents) : txEvents[i].at = height + 1
  BY CommitKeeps
<1>2. log \in Seq(About) /\ txEvents \in Seq(About) /\ height \in Nat /\ n \in Nat /\ Len(txEvents) \in Nat
  BY Facts DEF GateInv
<1>3. Feed!IsPrefix(log, g)
  BY <1>2, PrefixOf
<1>4. /\ g \in Seq(About) /\ Len(g) = n + Len(txEvents)
      /\ \A i \in 1 .. Len(txEvents) : n + i \in 1 .. Len(g) /\ g[n + i] = txEvents[i]
      /\ \A i \in 1 .. Len(g) : i \in 1 .. n \/ (i > n /\ i - n \in 1 .. Len(txEvents) /\ g[i] = txEvents[i - n])
  BY <1>2, ConcatIs
<1>5. Feed!LastAt(log) \in 0 .. height
  BY DEF GateInv, OrderInv
<1> HIDE DEF g, n
<1>6. \A i \in 1 .. Len(g) : g[i] \in About
  BY <1>4
<1>7. ASSUME NEW i \in n + 1 .. Len(g)
      PROVE  g[i] \in About /\ g[i].at > Feed!LastAt(log) /\ g[i].at = Feed!LastAt(g)
  <2>1. i \in 1 .. Len(g) /\ i \notin 1 .. n
    BY <1>2, <1>4
  <2>2. g[i].at = height + 1 /\ Len(txEvents) \in 1 .. Len(txEvents)
    BY <2>1, <1>1, <1>2, <1>4
  <2>3. g[Len(g)] = txEvents[Len(txEvents)]
    BY <2>2, <1>4
  <2>4. g # <<>>
    BY <2>1, <1>4, EmptySeq
  <2>5. Feed!LastAt(g) = g[Len(g)].at
    BY <2>4 DEF Feed!LastAt, Feed!Last
  <2> QED BY <2>1, <2>2, <2>3, <2>5, <1>1, <1>2, <1>5, <1>6
<1>8. Feed!LastAt(log)' = Feed!LastAt(g)
  BY <1>1 DEF Feed!LastAt
<1>9. \A i \in Len(log) + 1 .. Len(log') :
          log'[i] \in About /\ log'[i].at > Feed!LastAt(log) /\ log'[i].at = Feed!LastAt(log')
  BY <1>1, <1>7 DEF n
<1>10. Subjects(published)' = Subjects(published)
  BY <1>1 DEF Subjects
<1> QED BY <1>1, <1>3, <1>9, <1>10 DEF Feed!Commit

\* What the poll releases of the events about one offer is what the log has of them.
LEMMA PollTells ==
    ASSUME GateInv, NEW h \in 0 .. height, PollGate(h), NEW o, NEW heights,
           \A x : x \in heights <=> \E i \in 1 .. Len(Ready(h)) : Ready(h)[i].at = x
    PROVE  Feed!About(Subjects(Ready(h)), heights, o) = Feed!About(log, heights, o)
<1> USE DEF GateInv
<1> DEFINE r == Ready(h)
           u == Subjects(r)
           p == pending
           of(s) == {i \in DOMAIN s : s[i].at \in heights /\ s[i].offer = o}
           v == PickSeq(u, of(u))
           w == PickSeq(log, of(log))
<1>1. /\ height \in Nat /\ h \in Nat /\ h <= height /\ p \in Seq(Event) /\ Len(p) \in Nat
      /\ log \in Seq(About) /\ Len(log) \in Nat
  BY Facts
<1>2. r \in Seq(Event)
  BY PollIs
<1>3. PICK z : Enumerates(z, p, {i \in DOMAIN p : p[i].at <= h}, Len(p), r)
  BY PollIs
<1>4. /\ \A i \in 1 .. Len(r) : z[i] \in 1 .. Len(p) /\ r[i] = p[z[i]] /\ p[z[i]].at <= h
      /\ \A i, j \in 1 .. Len(r) : i < j => z[i] < z[j]
      /\ \A k \in 1 .. Len(p) : p[k].at <= h => \E i \in 1 .. Len(r) : z[i] = k
  <2>1. DOMAIN p = 1 .. Len(p)
    BY <1>1
  <2> HIDE DEF p, r
  <2> QED BY <2>1, <1>3 DEF Enumerates
<1>5. u \in Seq(About) /\ Len(u) = Len(r) /\ Len(r) \in Nat /\ \A i \in 1 .. Len(r) : u[i] = Subject(r[i])
  BY <1>2, SubjectsIs
<1>6. DOMAIN u = 1 .. Len(r) /\ DOMAIN log = 1 .. Len(log)
  BY <1>1, <1>5
<1>7. v \in Seq(About) /\ \E q : Enumerates(q, u, of(u), Len(u), v)
  <2> HIDE DEF of, u
  <2> QED BY <1>5, PickIs
<1>8. w \in Seq(About) /\ \E q : Enumerates(q, log, of(log), Len(log), w)
  <2> HIDE DEF of
  <2> QED BY <1>1, PickIs
<1>9. PICK a : Enumerates(a, u, of(u), Len(u), v)
  BY <1>7
<1>10. PICK b : Enumerates(b, log, of(log), Len(log), w)
  BY <1>8
<1>11. Len(v) \in Nat /\ Len(w) \in Nat
  BY <1>7, <1>8
<1>12. \A x : Subject(x).at = x.at /\ Subject(x).offer = x.offer /\ Subject(x).type = x.type
  BY DEF Subject
<1>13. heights = {x \in heights : \E i \in 1 .. Len(r) : r[i].at = x} /\ \A i \in 1 .. Len(r) : r[i].at \in heights
  OBVIOUS
<1>14. \A i \in 1 .. Len(r) : i \in of(u) <=> r[i].offer = o
  BY <1>5, <1>6, <1>12, <1>13
<1>15. \A j \in 1 .. Len(log) : j \in of(log) <=> log[j].offer = o /\ \E i \in 1 .. Len(r) : r[i].at = log[j].at
  BY <1>6
<1> HIDE DEF of, v, w, u, p, r
<1>16. /\ \A i \in 1 .. Len(v) : a[i] \in 1 .. Len(r) /\ r[a[i]].offer = o /\ v[i] = Subject(r[a[i]])
       /\ \A i, j \in 1 .. Len(v) : i < j => a[i] < a[j]
       /\ \A k \in 1 .. Len(r) : r[k].offer = o => \E i \in 1 .. Len(v) : a[i] = k
  BY <1>5, <1>9, <1>14 DEF Enumerates
<1>17. /\ \A i \in 1 .. Len(w) : /\ b[i] \in 1 .. Len(log) /\ log[b[i]].offer = o /\ w[i] = log[b[i]]
                                 /\ \E k \in 1 .. Len(r) : r[k].at = log[b[i]].at
       /\ \A i, j \in 1 .. Len(w) : i < j => b[i] < b[j]
       /\ \A j \in 1 .. Len(log) : log[j].offer = o /\ (\E k \in 1 .. Len(r) : r[k].at = log[j].at) =>
              \E i \in 1 .. Len(w) : b[i] = j
  BY <1>10, <1>15 DEF Enumerates
<1> DEFINE c(i) == z[a[i]]
<1>18. /\ \A i \in 1 .. Len(v) : c(i) \in 1 .. Len(p) /\ p[c(i)].offer = o /\ p[c(i)].at <= h /\ v[i] = Subject(p[c(i)])
                                 /\ r[a[i]] = p[c(i)]
       /\ \A i, j \in 1 .. Len(v) : i < j => c(i) < c(j)
  BY <1>4, <1>16
<1> HIDE DEF c
<1>18a. /\ \A i \in 1 .. Len(w) : b[i] \in 1 .. Len(log) /\ b[i] \in Nat /\ w[i] = log[b[i]]
       /\ \A i, j \in 1 .. Len(w) : i < j => b[i] < b[j]
  <2>1. \A i \in 1 .. Len(w) : b[i] \in 1 .. Len(log) /\ w[i] = log[b[i]]
    BY <1>17
  <2>2. \A x \in 1 .. Len(log) : x \in Nat
    OBVIOUS
  <2>3. \A i, j \in 1 .. Len(w) : i < j => b[i] < b[j]
    BY <1>17
  <2> QED BY <2>1, <2>2, <2>3
<1>19. \A i \in 1 .. Len(v) : \E j \in 1 .. Len(w) : v[i] = w[j]
  <2> TAKE i \in 1 .. Len(v)
  <2>1. p[c(i)].at <= height
    <3>1. p[c(i)] \in Event
      BY <1>1, <1>18
    <3> QED BY <3>1, <1>1, <1>18, Facts
  <2>2. PICK j \in 1 .. Len(log) : log[j] = Subject(p[c(i)])
    BY <2>1, <1>18 DEF HeldInv, Held2, p
  <2>3. log[j].offer = o /\ log[j].at = r[a[i]].at
    BY <2>2, <1>12, <1>16, <1>18
  <2>4. PICK k \in 1 .. Len(w) : b[k] = j
    BY <2>3, <1>16, <1>17
  <2> QED BY <2>2, <2>4, <1>17, <1>18
<1>20. \A j \in 1 .. Len(w) : \E i \in 1 .. Len(v) : v[i] = w[j]
  <2> TAKE j \in 1 .. Len(w)
  <2>1. PICK k \in 1 .. Len(r) : r[k].at = log[b[j]].at
    BY <1>17
  <2>2. z[k] \in 1 .. Len(p) /\ p[z[k]].at = log[b[j]].at /\ log[b[j]].at <= h
    BY <2>1, <1>4
  <2>3. PICK x \in 1 .. Len(p) : Subject(p[x]) = log[b[j]]
    BY <2>2, <1>17 DEF HeldInv, Held3, p
  <2>4. p[x].at <= h /\ p[x].offer = o
    BY <2>2, <2>3, <1>12, <1>17
  <2>5. PICK y \in 1 .. Len(r) : z[y] = x
    BY <2>4, <1>4
  <2>6. r[y].offer = o /\ Subject(r[y]) = log[b[j]]
    BY <2>3, <2>4, <2>5, <1>4
  <2>7. PICK i \in 1 .. Len(v) : a[i] = y
    BY <2>6, <1>16
  <2> QED BY <2>6, <2>7, <1>16, <1>17
<1>21. \A i, j \in 1 .. Len(v) : v[i] = v[j] => i = j
  <2>1. SUFFICES ASSUME NEW i \in 1 .. Len(v), NEW j \in 1 .. Len(v), v[i] = v[j] PROVE i = j
    OBVIOUS
  <2>2. c(i) = c(j)
    <3>1. Subject(p[c(i)]) = Subject(p[c(j)]) /\ c(i) \in 1 .. Len(p) /\ c(j) \in 1 .. Len(p)
      BY <2>1, <1>18
    <3>2. Held1(p)
      BY DEF HeldInv, p
    <3> QED BY <3>1, <3>2 DEF Held1
  <2>3. c(i) \in Nat /\ ~(i < j) /\ ~(j < i)
    BY <2>2, <1>18
  <2> QED BY <2>3, <1>11
<1>22. \A i, j \in 1 .. Len(w) : w[i] = w[j] => i = j
  <2>1. SUFFICES ASSUME NEW i \in 1 .. Len(w), NEW j \in 1 .. Len(w), w[i] = w[j] PROVE i = j
    OBVIOUS
  <2>2. b[i] = b[j]
    <3>1. log[b[i]] = log[b[j]] /\ b[i] \in 1 .. Len(log) /\ b[j] \in 1 .. Len(log)
      BY <2>1, <1>18a
    <3> QED BY <3>1 DEF LogInv
  <2>3. b[i] \in Nat /\ ~(i < j) /\ ~(j < i)
    BY <2>2, <1>18a
  <2> QED BY <2>3, <1>11
<1>23. ASSUME NEW i \in 1 .. Len(v), NEW j \in 1 .. Len(v), NEW k \in 1 .. Len(w), NEW l \in 1 .. Len(w),
              i < j, v[i] = w[k], v[j] = w[l]
       PROVE  k < l
  <2>1. b[k] < b[l]
    <3>1. /\ c(i) \in 1 .. Len(p) /\ c(j) \in 1 .. Len(p) /\ c(i) < c(j) /\ p[c(i)].offer = p[c(j)].offer
          /\ b[k] \in 1 .. Len(log) /\ b[l] \in 1 .. Len(log)
          /\ log[b[k]] = Subject(p[c(i)]) /\ log[b[l]] = Subject(p[c(j)])
      BY <1>23, <1>17, <1>18
    <3> QED BY <3>1 DEF HeldInv, Held4, p
  <2>2. b[k] \in Nat /\ b[l] \in Nat /\ ~(l < k) /\ k # l
    BY <2>1, <1>18a
  <2> QED BY <2>2, <1>11
<1>24. SameOrder(v, w)
  BY <1>19, <1>20, <1>21, <1>22, <1>23 DEF SameOrder
<1>25. v = w
  BY <1>7, <1>8, <1>24, SameSeq
<1>26. Feed!About(u, heights, o) = v /\ Feed!About(log, heights, o) = w
  BY FeedPick DEF Feed!About, v, w, of
<1> QED BY <1>25, <1>26 DEF u, r

\* What the poll releases is one delivery of the feed.
LEMMA PollDelivers ==
    ASSUME GateInv, NEW h \in 0 .. height, PollGate(h)
    PROVE  Feed!Deliver
<1> USE DEF GateInv
<1> DEFINE r == Ready(h)
           s == Subjects(published)
           u == Subjects(r)
           heights == {u[i].at : i \in DOMAIN u}
<1>1. published \in Seq(Event) /\ r \in Seq(Event) /\ published' = published \o r /\ log' = log
      /\ pending \in Seq(Event) /\ height \in Nat /\ Len(pending) \in Nat
  BY PollIs, Facts
<1>2. Subjects(published)' = s \o u
  <2>1. Subjects(published \o r) = s \o u
    BY <1>1, SubjectsConcat
  <2> QED BY <1>1, <2>1 DEF Subjects
<1>3. s \in Seq(About) /\ u \in Seq(About) /\ Len(u) = Len(r) /\ Len(r) \in Nat /\ DOMAIN u = 1 .. Len(r)
      /\ \A i \in 1 .. Len(r) : u[i] = Subject(r[i]) /\ u[i].at = r[i].at
  <2>1. \A x : Subject(x).at = x.at
    BY DEF Subject
  <2> QED BY <2>1, <1>1, SubjectsIs
<1>4. Feed!IsPrefix(s, s \o u) /\ SubSeq(s \o u, Len(s) + 1, Len(s \o u)) = u
  BY <1>3, PrefixOf
<1>5. PICK z : Enumerates(z, pending, {i \in DOMAIN pending : pending[i].at <= h}, Len(pending), r)
  BY PollIs
<1>6. /\ \A i \in 1 .. Len(r) : z[i] \in 1 .. Len(pending) /\ r[i] = pending[z[i]]
      /\ \A i, j \in 1 .. Len(r) : i < j => z[i] < z[j]
  <2> HIDE DEF r
  <2> QED BY <1>5 DEF Enumerates
<1> HIDE DEF r, s, u
<1>7. \A x : x \in heights <=> \E i \in 1 .. Len(r) : r[i].at = x
  BY <1>3
<1>8. \A x \in heights : x > Feed!LastAt(s)
  <2>1. \A i \in 1 .. Len(pending) : pending[i].at > Feed!LastAt(s)
    BY DEF OrderInv, s
  <2> TAKE x \in heights
  <2>2. PICK i \in 1 .. Len(r) : r[i].at = x
    BY <1>7
  <2> QED BY <2>1, <2>2, <1>6
<1>9. \A i, j \in DOMAIN u : i < j => u[i].at <= u[j].at
  <2>1. SUFFICES ASSUME NEW i \in 1 .. Len(r), NEW j \in 1 .. Len(r), i < j PROVE r[i].at <= r[j].at
    BY <1>3
  <2>2. \A k, l \in 1 .. Len(pending) : k < l => pending[k].at <= pending[l].at
    BY DEF OrderInv
  <2> QED BY <2>1, <2>2, <1>6
<1> DEFINE Told(new, hs) ==
               /\ \A x \in hs : x > Feed!LastAt(s)
               /\ \A i, j \in DOMAIN new : i < j => new[i].at <= new[j].at
               /\ \A o \in {e.offer : e \in Feed!ToSet(new) \cup Feed!ToSet(log)} :
                     Feed!About(new, hs, o) = Feed!About(log, hs, o)
           D == Subjects(published)'
<1> HIDE DEF heights
<1>10. \A o : Feed!About(u, heights, o) = Feed!About(log, heights, o)
  BY <1>7, PollTells DEF u, r
<1>11. Told(u, heights)
  BY <1>8, <1>9, <1>10
<1> HIDE DEF Told
<1>12. SubSeq(D, Len(s) + 1, Len(D)) = u
  <2>1. D = s \o u
    BY <1>2
  <2> HIDE DEF D
  <2> QED BY <2>1, <1>4
<1>13. \E new \in {SubSeq(D, Len(s) + 1, Len(D))} : \E hs \in {{new[i].at : i \in DOMAIN new}} : Told(new, hs)
  BY <1>11, <1>12 DEF heights
<1>14. Feed!IsPrefix(s, D) /\ log' = log
  BY <1>1, <1>2, <1>4
<1> QED BY <1>13, <1>14 DEF Feed!Deliver, Told, s

\* The steps, against the feed.
Step == [Feed!Next]_<<log, Subjects(published)>>

\* A step that neither commits nor delivers is none of the feed.
LEMMA Stutters == ASSUME published' = published, log' = log PROVE Step
<1>1. Subjects(published)' = Subjects(published)
  BY DEF Subjects
<1> QED BY <1>1 DEF Step

\* Every step of the gate keeps the invariant and is one of the feed, or none.
LEMMA StepImplements ==
    ASSUME DistinctInputs(Blocks), GateInv, [Next]_vars
    PROVE  GateInv' /\ Step
<1>1. CASE Begin
  BY <1>1, BeginKeeps, Stutters
<1>2. CASE IndexInput
  BY <1>2, IndexKeeps, Stutters
<1>3. CASE MalformedInput
  BY <1>3, MalformedKeeps, Stutters
<1>4. CASE ConsumeInput
  BY <1>4, ArchiveKeeps, Stutters DEF ConsumeInput
<1>5. CASE ExpireInput
  BY <1>5, ArchiveKeeps, Stutters DEF ExpireInput
<1>6. CASE Commit
  BY <1>6, CommitKeeps, CommitIsCommit DEF Step, Feed!Next
<1>7. CASE Rollback
  BY <1>7, RollbackKeeps, Stutters
<1>8. CASE Crash
  BY <1>8, CrashKeeps, Stutters
<1>9. CASE Poll
  <2>1. PICK h \in 0 .. height : PollGate(h)
    BY <1>9 DEF Poll
  <2> QED BY <2>1, PollKeeps, PollDelivers DEF Step, Feed!Next
<1>10. CASE UNCHANGED vars
  <2>1. /\ height' = height /\ rows' = rows /\ serial' = serial /\ block' = block /\ pos' = pos /\ txRows' = txRows
        /\ txEvents' = txEvents /\ pending' = pending /\ committedHeight' = committedHeight /\ published' = published
        /\ log' = log /\ rollbacks' = rollbacks /\ crashes' = crashes
    BY <1>10 DEF vars, dbVars, txVars, gateVars
  <2>2. TypeOK' /\ BlockInv' /\ RowInv'
    BY <2>1 DEF GateInv, TypeOK, BlockInv, RowInv, InTx
  <2>3. AttemptInv'
    BY <2>1 DEF GateInv, AttemptInv, InTx
  <2>4. OrderInv'
    BY <2>1 DEF GateInv, OrderInv, Feed!LastAt, Subjects
  <2>5. HeldInv' /\ LogInv'
    BY <2>1 DEF GateInv, HeldInv, Held1, Held2, Held3, Held4, LogInv
  <2>6. Step
    BY <2>1, Stutters
  <2> QED BY <2>2, <2>3, <2>4, <2>5, <2>6 DEF GateInv
<1> QED BY <1>1, <1>2, <1>3, <1>4, <1>5, <1>6, <1>7, <1>8, <1>9, <1>10 DEF Next, Run

\* The invariant holds at first, and so does the feed's start.
LEMMA InitImplements ==
    ASSUME Init
    PROVE  GateInv /\ Feed!Init
<1> USE DEF Init
<1>1. Subjects(published) = <<>>
  BY DEF Subjects
<1>2. Feed!LastAt(Subjects(published)) = 0 /\ Feed!LastAt(log) = 0
  BY <1>1 DEF Feed!LastAt
<1>3. Len(pending) = 0 /\ Len(log) = 0 /\ Len(block) = 0 /\ ~InTx
  BY DEF InTx
<1>4. TypeOK
  <2>1. pending \in Seq(Event) /\ published \in Seq(Event) /\ log \in Seq(About) /\ txEvents \in Seq(About)
        /\ block \in Seq(Input)
    OBVIOUS
  <2>2. rollbacks \in 0 .. MaxRollbacks /\ crashes \in 0 .. MaxCrashes
    BY GateBoundAssumption
  <2> QED BY <2>1, <2>2 DEF TypeOK
<1>5. BlockInv
  BY <1>3 DEF BlockInv
<1>6. RowInv
  BY <1>3, FS_EmptySet DEF RowInv
<1>7. AttemptInv
  <2>1. Tells(block, rows, height + 1, pending, 0)
    BY <1>3 DEF Tells, Only, InOrder, All
  <2> QED BY <2>1, <1>3 DEF AttemptInv
<1>8. OrderInv
  BY <1>2, <1>3 DEF OrderInv
<1>9. HeldInv /\ LogInv
  BY <1>3 DEF HeldInv, Held1, Held2, Held3, Held4, LogInv
<1> QED BY <1>1, <1>4, <1>5, <1>6, <1>7, <1>8, <1>9 DEF GateInv, Feed!Init

\* Over rollbacks, retries, lagging polls and restarts (app-input-savepoint.ts,
\* emitAppEvent and markBlockCommitted of event-bus.ts), the buffer never holds anything
\* but what the open block announces in every attempt and what a committed one did.
THEOREM GateInvariant == DistinctInputs(Blocks) => (Spec => []GateInv)
<1>1. SUFFICES ASSUME DistinctInputs(Blocks) PROVE Spec => []GateInv
  OBVIOUS
<1>2. Init => GateInv
  BY InitImplements
<1>3. GateInv /\ [Next]_vars => GateInv'
  BY <1>1, StepImplements
<1> QED BY <1>2, <1>3, PTL DEF Spec

\* The tables, the transaction and the buffer keep their types; committedHeight never
\* passes the committed block.
THEOREM GateTypes == DistinctInputs(Blocks) => (Spec => []TypeOK)
<1>1. SUFFICES ASSUME DistinctInputs(Blocks) PROVE Spec => []TypeOK
  OBVIOUS
<1>2. Spec => []GateInv
  BY <1>1, GateInvariant
<1>3. GateInv => TypeOK
  BY DEF GateInv
<1> QED BY <1>2, <1>3, PTL

\* emitAppEvent and markBlockCommitted deliver the events of committed blocks, in block
\* order, each block whole and once, whatever is rolled back, retried under other row
\* ids, read late or lost with the process: the gate implements the committed feed.
THEOREM GateImplementsFeed == DistinctInputs(Blocks) => (Spec => ImplementsFeed)
<1>1. SUFFICES ASSUME DistinctInputs(Blocks) PROVE Spec => Feed!Spec
  BY DEF ImplementsFeed
<1>2. Init => Feed!Init
  BY InitImplements
<1>3. GateInv /\ [Next]_vars => [Feed!Next]_<<log, Subjects(published)>>
  BY <1>1, StepImplements DEF Step
<1>4. Spec => []GateInv
  BY <1>1, GateInvariant
<1> QED BY <1>2, <1>3, <1>4, PTL DEF Spec, Feed!Spec
=============================================================================

--------------------------- MODULE SwapJobsProofs ---------------------------
(***************************************************************************)
(* What the swap-job executor keeps for any jobs, offers and routes, any   *)
(* number of restarts and any interleaving of relay, wallet, sweep and     *)
(* start-up.                                                               *)
(*                                                                         *)
(* The properties speak of the journal as it is when the process might     *)
(* stop. A handler decides on all its writes at once, so the invariant     *)
(* IInv speaks of the rows that the pending writes lead to (Ahead) and of  *)
(* all they pass through (Via). Its parts, for each job: Truth, what the   *)
(* rows say given what its relay did; what is known while a build          *)
(* (BuildOK, BuildRows), an operation of terminalChains (ChainOK) or a     *)
(* local recovery (LocalOK, RetryOK) runs; that only the start-up meets a  *)
(* revert row that is PREPARED or REVERTED (RevertOK); and that a job      *)
(* which is not over has a record in memory or the start-up has yet to     *)
(* come to it (KeptOK). Between jobs: AliveApart.                          *)
(*                                                                         *)
(* Handler reduces a step of one job to what it does to that job. Each     *)
(* action has a lemma of its own; StepsKeep collects them.                 *)
(*                                                                         *)
(* The first part is about the rows of one job: what After, the library's  *)
(* fold, makes of a sequence of writes, and what each mark                 *)
(* (quarantineGroup, markReverted, markFailed, markSettled,                *)
(* markAwaitingRelay, markRelaySubmitted) does to them.  A mark is a loop  *)
(* over the rows, and the process may stop at any of its writes.           *)
(* Runs(ok, d, ws, P, e) says that the writes ws take the rows d to e      *)
(* through rows of P and, if ok, that the journal accepts each of them.    *)
(* For every mark it is proved where it leads, that the journal accepts    *)
(* all of it under the condition its callers must establish, and what the  *)
(* rows look like on the way.                                              *)
(***************************************************************************)
EXTENDS SwapJobs, FiniteSetTheorems, WellFoundedInduction, SequenceTheorems, TLAPS

-----------------------------------------------------------------------------
(* Induction.                                                              *)

\* Induction over the natural numbers, for a set.
LEMMA NatSetInduction ==
    ASSUME NEW P, 0 \in P, \A n \in Nat : n \in P => n + 1 \in P
    PROVE  \A n \in Nat : n \in P
<1> DEFINE Bad == {n \in Nat : n \notin P}
<1> SUFFICES ASSUME Bad # {} PROVE FALSE
  OBVIOUS
<1>1. PICK n \in Bad : \A m \in Bad : <<m, n>> \notin OpToRel(<, Nat)
  <2> HIDE DEF Bad
  <2>1. Bad \subseteq Nat
    BY DEF Bad
  <2> QED
    BY <2>1, NatLessThanWellFounded, WFMin
<1>2. n \in Nat \ {0}
  BY <1>1
<1>3. <<n - 1, n>> \in OpToRel(<, Nat)
  BY <1>2 DEF OpToRel
<1>4. n - 1 \in Nat /\ (n - 1) + 1 = n
  BY <1>2
<1>5. n - 1 \in P
  BY <1>1, <1>3, <1>4
<1>6. n \in P
  BY <1>4, <1>5
<1> QED
  BY <1>1, <1>6

-----------------------------------------------------------------------------
(* The rows after some writes.                                             *)

FoldStep(d, ws, g, s) == IF s = {} THEN d ELSE Put(g[s \ {Max(s)}], ws[Max(s)])
FoldsTo(d, ws, S, g) == g = [s \in SUBSET S |-> FoldStep(d, ws, g, s)]
FoldsUpTo(d, ws, S, k, g) == \A s \in SUBSET S : Cardinality(s) <= k => g[s] = FoldStep(d, ws, g, s)

\* What the library's fold unfolds to.
LEMMA AfterUnfolds ==
    ASSUME NEW d, NEW ws
    PROVE  After(d, ws) = (CHOOSE g : FoldsTo(d, ws, DOMAIN ws, g))[DOMAIN ws]
  BY DEF After, FoldLeft, MapThenFoldSet, FoldsTo, FoldStep

\* A set of positions has a last one.
LEMMA MaxIn ==
    ASSUME NEW n \in Nat, NEW s \in SUBSET (1..n), s # {}
    PROVE  Max(s) \in s /\ \A y \in s : Max(s) >= y
<1> DEFINE P == {m \in Nat : \A t \in SUBSET (1..m) : t # {} => \E x \in t : \A y \in t : x >= y}
<1>1. 0 \in P
  <2>1. 1..0 = {}
    OBVIOUS
  <2> QED
    BY <2>1
<1>2. ASSUME NEW m \in Nat, m \in P PROVE m + 1 \in P
  <2>1. ASSUME NEW t \in SUBSET (1..m+1), t # {} PROVE \E x \in t : \A y \in t : x >= y
    <3>1. CASE m + 1 \in t
      BY <3>1
    <3>2. CASE m + 1 \notin t
      <4>1. t \in SUBSET (1..m)
        BY <3>2
      <4> QED
        BY <1>2, <2>1, <4>1
    <3> QED
      BY <3>1, <3>2
  <2> QED
    BY <2>1
<1>3. n \in P
  <2> HIDE DEF P
  <2> QED
    BY <1>1, <1>2, NatSetInduction
<1>4. \E x \in s : \A y \in s : x >= y
  BY <1>3
<1> QED
  BY <1>4 DEF Max

\* The last of the first positions.
LEMMA MaxOfPrefix ==
    ASSUME NEW n \in Nat, n # 0
    PROVE  Max(1..n) = n /\ (1..n) \ {n} = 1..(n-1)
<1>1. 1..n # {} /\ 1..n \in SUBSET (1..n)
  OBVIOUS
<1>2. Max(1..n) \in 1..n /\ \A y \in 1..n : Max(1..n) >= y
  BY <1>1, MaxIn
<1> QED
  BY <1>2

\* A function that satisfies the equation of the fold exists.
LEMMA FoldsExist ==
    ASSUME NEW n \in Nat, NEW d, NEW ws PROVE \E g : FoldsTo(d, ws, 1..n, g)
<1> DEFINE S == 1..n
           P == {k \in Nat : \E g : g = [s \in SUBSET S |-> g[s]] /\ FoldsUpTo(d, ws, S, k, g)}
<1> USE DEF FoldsUpTo
<1>1. IsFiniteSet(S) /\ \A s \in SUBSET S : IsFiniteSet(s) /\ Cardinality(s) \in Nat /\ Cardinality(s) <= Cardinality(S)
  <2>1. IsFiniteSet(S)
    BY FS_Interval
  <2> HIDE DEF S
  <2> QED
    BY <2>1, FS_Subset, FS_CardinalityType
<1>2. 0 \in P
  <2> DEFINE g == [s \in SUBSET S |-> d]
  <2>1. ASSUME NEW s \in SUBSET S, Cardinality(s) <= 0 PROVE s = {}
    <3> HIDE DEF S
    <3> QED
      BY <1>1, <2>1, FS_EmptySet
  <2>2. \A s \in SUBSET S : Cardinality(s) <= 0 => g[s] = FoldStep(d, ws, g, s)
    BY <2>1 DEF FoldStep
  <2>3. g = [s \in SUBSET S |-> g[s]]
    OBVIOUS
  <2> HIDE DEF g
  <2> QED
    BY <2>2, <2>3
<1>3. ASSUME NEW k \in Nat, k \in P PROVE k + 1 \in P
  <2>1. PICK g : FoldsUpTo(d, ws, S, k, g)
    BY <1>3
  <2> DEFINE h == [s \in SUBSET S |-> IF Cardinality(s) <= k THEN g[s] ELSE FoldStep(d, ws, g, s)]
  <2>2. ASSUME NEW s \in SUBSET S, s # {}
        PROVE  s \ {Max(s)} \in SUBSET S /\ Cardinality(s \ {Max(s)}) = Cardinality(s) - 1
    <3>1. Max(s) \in s
      BY <2>2, MaxIn
    <3> HIDE DEF S
    <3> QED
      BY <1>1, <3>1, FS_RemoveElement
  <2>3. ASSUME NEW s \in SUBSET S, Cardinality(s) <= k + 1 PROVE h[s] = FoldStep(d, ws, h, s)
    <3>1. CASE s = {}
      BY <2>1, <3>1 DEF FoldStep
    <3>2. CASE s # {}
      <4> DEFINE r == s \ {Max(s)}
      <4>1. r \in SUBSET S /\ Cardinality(r) <= k
        <5>1. r \in SUBSET S /\ Cardinality(r) = Cardinality(s) - 1 /\ Cardinality(s) \in Nat
          BY <1>1, <2>2, <3>2
        <5> HIDE DEF r, S
        <5> QED
          BY <2>3, <5>1
      <4>2. h[r] = g[r]
        BY <4>1
      <4>3. h[s] = FoldStep(d, ws, g, s)
        BY <2>1
      <4> QED
        BY <3>2, <4>2, <4>3 DEF FoldStep
    <3> QED
      BY <3>1, <3>2
  <2>4. h = [s \in SUBSET S |-> h[s]]
    OBVIOUS
  <2>5. FoldsUpTo(d, ws, S, k + 1, h)
    BY <2>3
  <2> HIDE DEF h, FoldsUpTo
  <2> QED
    BY <2>4, <2>5
<1>4. Cardinality(S) \in P
  <2>1. Cardinality(S) \in Nat
    BY <1>1
  <2> HIDE DEF P
  <2> QED
    BY <1>2, <1>3, <2>1, NatSetInduction
<1>5. PICK g : g = [s \in SUBSET S |-> g[s]] /\ FoldsUpTo(d, ws, S, Cardinality(S), g)
  BY <1>4
<1>6. \A s \in SUBSET S : g[s] = FoldStep(d, ws, g, s)
  BY <1>1, <1>5
<1>7. g = [s \in SUBSET S |-> FoldStep(d, ws, g, s)]
  BY <1>5, <1>6
<1> QED
  BY <1>7 DEF FoldsTo

\* Folds over prefixes that agree are equal.
LEMMA FoldsAgree ==
    ASSUME NEW n \in Nat, NEW m \in Nat, NEW k \in Nat, k <= n, k <= m, NEW d, NEW ws, NEW vs,
           \A i \in 1..k : ws[i] = vs[i],
           NEW g, FoldsTo(d, ws, 1..n, g), NEW h, FoldsTo(d, vs, 1..m, h)
    PROVE  g[1..k] = h[1..k]
<1> DEFINE P == {i \in Nat : i <= k => g[1..i] = h[1..i]}
<1>1. ASSUME NEW i \in Nat, i <= k PROVE g[1..i] = FoldStep(d, ws, g, 1..i) /\ h[1..i] = FoldStep(d, vs, h, 1..i)
  <2>1. 1..i \in SUBSET (1..n) /\ 1..i \in SUBSET (1..m)
    BY <1>1
  <2> QED
    BY <2>1 DEF FoldsTo
<1>2. 0 \in P
  <2>1. 1..0 = {}
    OBVIOUS
  <2> QED
    BY <1>1, <2>1 DEF FoldStep
<1>3. ASSUME NEW i \in Nat, i \in P, i + 1 <= k PROVE g[1..(i+1)] = h[1..(i+1)]
  <2>1. Max(1..(i+1)) = i + 1 /\ (1..(i+1)) \ {i + 1} = 1..i /\ 1..(i+1) # {}
    <3>1. i + 1 \in Nat /\ i + 1 # 0 /\ (i + 1) - 1 = i /\ i + 1 \in 1..(i+1)
      OBVIOUS
    <3> QED
      BY <3>1, MaxOfPrefix
  <2>2. g[1..i] = h[1..i] /\ ws[i+1] = vs[i+1]
    BY <1>3
  <2>3. g[1..(i+1)] = Put(g[1..i], ws[i+1]) /\ h[1..(i+1)] = Put(h[1..i], vs[i+1])
    <3>1. i + 1 \in Nat
      OBVIOUS
    <3>2. g[1..(i+1)] = FoldStep(d, ws, g, 1..(i+1)) /\ h[1..(i+1)] = FoldStep(d, vs, h, 1..(i+1))
      BY <1>1, <1>3, <3>1
    <3> QED
      BY <2>1, <3>2 DEF FoldStep
  <2> QED
    BY <2>2, <2>3
<1>4. k \in P
  <2>1. \A i \in Nat : i \in P => i + 1 \in P
    BY <1>3
  <2> HIDE DEF P
  <2> QED
    BY <1>2, <2>1, NatSetInduction
<1> QED
  BY <1>4

\* No write, no change.
LEMMA AfterNone == ASSUME NEW d PROVE After(d, <<>>) = d
<1>1. DOMAIN <<>> = 1..0 /\ 1..0 = {}
  OBVIOUS
<1>2. PICK g : FoldsTo(d, <<>>, 1..0, g) /\ After(d, <<>>) = g[1..0]
  BY <1>1, AfterUnfolds, FoldsExist
<1> QED
  BY <1>1, <1>2 DEF FoldsTo, FoldStep

\* One write more.
LEMMA AfterAppend ==
    ASSUME NEW d, NEW W, NEW ws \in Seq(W), NEW w \in W
    PROVE  After(d, Append(ws, w)) = Put(After(d, ws), w)
<1> DEFINE n == Len(ws)
           vs == Append(ws, w)
<1>1. n \in Nat /\ DOMAIN ws = 1..n /\ DOMAIN vs = 1..(n+1) /\ vs[n+1] = w /\ \A i \in 1..n : vs[i] = ws[i]
  OBVIOUS
<1> HIDE DEF n, vs
<1>2. PICK g : FoldsTo(d, ws, 1..n, g) /\ After(d, ws) = g[1..n]
  <2>1. After(d, ws) = (CHOOSE g : FoldsTo(d, ws, 1..n, g))[1..n]
    BY <1>1, AfterUnfolds
  <2>2. \E g : FoldsTo(d, ws, 1..n, g)
    BY <1>1, FoldsExist
  <2> QED
    BY <2>1, <2>2
<1>3. PICK h : FoldsTo(d, vs, 1..(n+1), h) /\ After(d, vs) = h[1..(n+1)]
  <2>1. After(d, vs) = (CHOOSE f : FoldsTo(d, vs, 1..(n+1), f))[1..(n+1)]
    BY <1>1, AfterUnfolds
  <2>2. \E f : FoldsTo(d, vs, 1..(n+1), f)
    <3>1. n + 1 \in Nat
      BY <1>1
    <3> QED
      BY <3>1, FoldsExist
  <2> QED
    BY <2>1, <2>2
<1>4. g[1..n] = h[1..n]
  BY <1>1, <1>2, <1>3, FoldsAgree
<1>5. Max(1..(n+1)) = n + 1 /\ (1..(n+1)) \ {n + 1} = 1..n /\ 1..(n+1) # {}
  <2> DEFINE m == n + 1
  <2>1. m \in Nat /\ m # 0 /\ m - 1 = n /\ 1..m # {}
    BY <1>1
  <2> HIDE DEF m
  <2>2. Max(1..m) = m /\ (1..m) \ {m} = 1..(m-1)
    BY <2>1, MaxOfPrefix
  <2>3. Max(1..m) = m /\ (1..m) \ {m} = 1..n /\ 1..m # {}
    BY <2>1, <2>2
  <2> QED
    BY <2>3 DEF m
<1>6. h[1..(n+1)] = Put(h[1..n], vs[n+1])
  BY <1>3, <1>5 DEF FoldsTo, FoldStep
<1> QED
  BY <1>1, <1>2, <1>3, <1>4, <1>6 DEF vs

-----------------------------------------------------------------------------
(* A section of writes: the rows it ends with, those it passes through and *)
(* whether the journal takes every one of its writes.                      *)

States == Journal!States
Whys == {None, "local", "relay"}
Fees == {"RESERVED", "SPENT", "RELEASED"}
Writes == [op : Ops, to : States, why : Whys]
            \cup [op : {"receipt"}, to : {"done", "error"}, why : {None}]
            \cup [op : {"fee"}, to : Fees, why : {None}]
Rows == [row : [Ops -> States \cup {None}], art : SUBSET Ops, receipt : {None, "done", "error"},
         why : Whys, fee : {None} \cup Fees]

Accepted(d, w) ==
    w.op \in Ops /\ w.to # d.row[w.op] =>
        IF d.row[w.op] = None THEN w.to = "PREPARED" ELSE w.to \in Journal!allowedTransitions[d.row[w.op]]
At(d, ws, n) == After(d, SubSeq(ws, 1, n))
Passed(d, ws) == {At(d, ws, n) : n \in 0..Len(ws)}
AllAccepted(d, ws) == \A n \in 1..Len(ws) : Accepted(At(d, ws, n - 1), ws[n])
Runs(ok, d, ws, P, e) ==
    /\ ws \in Seq(Writes) /\ e = After(d, ws) /\ Passed(d, ws) \subseteq P /\ (ok => AllAccepted(d, ws))
    /\ e \in P

\* From one position to the next.
LEMMA AtNext ==
    ASSUME NEW d, NEW ws \in Seq(Writes)
    PROVE  /\ At(d, ws, 0) = d /\ At(d, ws, Len(ws)) = After(d, ws)
           /\ \A n \in 1..Len(ws) : At(d, ws, n) = Put(At(d, ws, n - 1), ws[n])
<1>1. SubSeq(ws, 1, 0) = <<>> /\ SubSeq(ws, 1, Len(ws)) = ws
  BY SubSeqEmpty, SubSeqFull
<1>2. ASSUME NEW n \in 1..Len(ws) PROVE At(d, ws, n) = Put(At(d, ws, n - 1), ws[n])
  <2>1. SubSeq(ws, 1, n - 1) \in Seq(Writes) /\ ws[n] \in Writes
    <3>1. \A i \in 1..(n-1) : ws[i] \in Writes
      OBVIOUS
    <3> QED
      BY <3>1, SubSeqProperties
  <2>2. SubSeq(ws, 1, n) = Append(SubSeq(ws, 1, n - 1), ws[n])
    <3>1. SubSeq(ws, 1, n) = SubSeq(ws, 1, n - 1) \o <<ws[n]>>
      <4>1. 1 \in 1..Len(ws) /\ n \in 1..Len(ws)
        OBVIOUS
      <4> QED
        BY <4>1, SubSeqRecursiveSecond
    <3> QED
      BY <2>1, <3>1, AppendIsConcat
  <2>3. After(d, Append(SubSeq(ws, 1, n - 1), ws[n])) = Put(After(d, SubSeq(ws, 1, n - 1)), ws[n])
    BY <2>1, AfterAppend
  <2> QED
    BY <2>2, <2>3 DEF At
<1> QED
  BY <1>1, <1>2, AfterNone DEF At

\* The positions of two sections, one after the other.
LEMMA AtConcat ==
    ASSUME NEW d, NEW a \in Seq(Writes), NEW b \in Seq(Writes)
    PROVE  /\ a \o b \in Seq(Writes) /\ Len(a \o b) = Len(a) + Len(b)
           /\ \A n \in 0..Len(a) : At(d, a \o b, n) = At(d, a, n)
           /\ \A n \in 0..Len(b) : At(d, a \o b, Len(a) + n) = At(After(d, a), b, n)
<1> DEFINE c == a \o b
           m == Len(a)
<1>1. c \in Seq(Writes) /\ Len(c) = m + Len(b) /\ m \in Nat /\ Len(b) \in Nat
      /\ (\A i \in 1..m : c[i] = a[i]) /\ (\A i \in 1..Len(b) : c[m + i] = b[i])
  BY ConcatProperties
<1> HIDE DEF c, m
<1>2. At(d, c, 0) = d /\ \A n \in 1..Len(c) : At(d, c, n) = Put(At(d, c, n - 1), c[n])
  BY <1>1, AtNext
<1>3. /\ At(d, a, 0) = d /\ At(d, a, m) = After(d, a)
      /\ \A n \in 1..m : At(d, a, n) = Put(At(d, a, n - 1), a[n])
  BY AtNext DEF m
<1>4. /\ At(After(d, a), b, 0) = After(d, a)
      /\ \A n \in 1..Len(b) : At(After(d, a), b, n) = Put(At(After(d, a), b, n - 1), b[n])
  BY AtNext
<1> DEFINE P == {n \in Nat : n <= m => At(d, c, n) = At(d, a, n)}
           Q == {n \in Nat : n <= Len(b) => At(d, c, m + n) = At(After(d, a), b, n)}
<1>5. \A n \in Nat : n \in P
  <2>1. 0 \in P
    BY <1>2, <1>3
  <2>2. ASSUME NEW n \in Nat, n \in P PROVE n + 1 \in P
    <3> SUFFICES ASSUME n + 1 <= m PROVE At(d, c, n + 1) = At(d, a, n + 1)
      OBVIOUS
    <3>1. n + 1 \in 1..m /\ n + 1 \in 1..Len(c) /\ (n + 1) - 1 = n
      BY <1>1
    <3>2. At(d, c, n) = At(d, a, n) /\ c[n + 1] = a[n + 1]
      BY <1>1, <2>2, <3>1
    <3> QED
      BY <1>2, <1>3, <3>1, <3>2
  <2> HIDE DEF P
  <2> QED
    BY <2>1, <2>2, NatSetInduction
<1>6. \A n \in Nat : n \in Q
  <2>1. 0 \in Q
    <3>1. At(d, c, m) = At(d, a, m)
      BY <1>1, <1>5
    <3> QED
      BY <1>1, <1>3, <1>4, <3>1
  <2>2. ASSUME NEW n \in Nat, n \in Q PROVE n + 1 \in Q
    <3> SUFFICES ASSUME n + 1 <= Len(b) PROVE At(d, c, m + (n + 1)) = At(After(d, a), b, n + 1)
      OBVIOUS
    <3>1. n + 1 \in 1..Len(b) /\ m + (n + 1) \in 1..Len(c) /\ (n + 1) - 1 = n /\ (m + (n + 1)) - 1 = m + n
      BY <1>1
    <3>2. At(d, c, m + n) = At(After(d, a), b, n) /\ c[m + (n + 1)] = b[n + 1]
      BY <1>1, <2>2, <3>1
    <3> QED
      BY <1>2, <1>4, <3>1, <3>2
  <2> HIDE DEF Q
  <2> QED
    BY <2>1, <2>2, NatSetInduction
<1> QED
  BY <1>1, <1>5, <1>6 DEF c, m

\* Nothing to write.
LEMMA RunsNone == ASSUME NEW ok, NEW d PROVE Runs(ok, d, <<>>, {d}, d)
<1>1. <<>> \in Seq(Writes) /\ Len(<<>>) = 0
  OBVIOUS
<1>2. Passed(d, <<>>) = {d}
  <2>1. 0..0 = {0}
    OBVIOUS
  <2>2. At(d, <<>>, 0) = d
    BY <1>1, AtNext
  <2> QED
    BY <1>1, <2>1, <2>2 DEF Passed
<1> QED
  BY <1>1, <1>2, AfterNone DEF Runs, AllAccepted

\* One write.
LEMMA RunsOne ==
    ASSUME NEW ok, NEW d, NEW w \in Writes, ok => Accepted(d, w)
    PROVE  Runs(ok, d, <<w>>, {d, Put(d, w)}, Put(d, w))
<1> DEFINE ws == <<w>>
<1>1. ws \in Seq(Writes) /\ Len(ws) = 1 /\ ws[1] = w
  OBVIOUS
<1> HIDE DEF ws
<1>2. At(d, ws, 0) = d /\ At(d, ws, 1) = After(d, ws) /\ At(d, ws, 1) = Put(At(d, ws, 1 - 1), ws[1])
  BY <1>1, AtNext
<1>3. At(d, ws, 1) = Put(d, w) /\ After(d, ws) = Put(d, w)
  BY <1>1, <1>2
<1>4. Passed(d, ws) = {d, Put(d, w)}
  <2>1. 0..1 = {0, 1}
    OBVIOUS
  <2> QED
    BY <1>1, <1>2, <1>3, <2>1 DEF Passed
<1>5. ok => AllAccepted(d, ws)
  BY <1>1, <1>2 DEF AllAccepted
<1>6. Runs(ok, d, ws, {d, Put(d, w)}, Put(d, w))
  BY <1>1, <1>3, <1>4, <1>5 DEF Runs
<1> QED
  BY <1>6 DEF ws

\* One section after another.
LEMMA RunsBoth ==
    ASSUME NEW ok, NEW d, NEW a, NEW P, NEW e, Runs(ok, d, a, P, e),
           NEW b, NEW Q, NEW f, Runs(ok, e, b, Q, f)
    PROVE  Runs(ok, d, a \o b, P \cup Q, f)
<1> USE DEF Runs
<1> DEFINE c == a \o b
           m == Len(a)
<1>1. /\ c \in Seq(Writes) /\ Len(c) = m + Len(b) /\ m \in Nat /\ Len(b) \in Nat
      /\ \A n \in 0..m : At(d, c, n) = At(d, a, n)
      /\ \A n \in 0..Len(b) : At(d, c, m + n) = At(e, b, n)
      /\ \A i \in 1..m : c[i] = a[i]
      /\ \A i \in 1..Len(b) : c[m + i] = b[i]
  BY AtConcat, ConcatProperties
<1> HIDE DEF c, m
<1>2. After(d, c) = f
  <2>1. After(d, c) = At(d, c, Len(c)) /\ f = At(e, b, Len(b))
    BY <1>1, AtNext
  <2> QED
    BY <1>1, <2>1
<1>3. Passed(d, c) \subseteq P \cup Q
  <2> SUFFICES ASSUME NEW n \in 0..Len(c) PROVE At(d, c, n) \in P \cup Q
    BY DEF Passed
  <2>1. CASE n \in 0..m
    BY <1>1, <2>1 DEF Passed, m
  <2>2. CASE n \notin 0..m
    <3>1. n - m \in 0..Len(b) /\ m + (n - m) = n
      BY <1>1, <2>2
    <3>2. At(d, c, n) = At(e, b, n - m)
      BY <1>1, <3>1
    <3> QED
      BY <3>1, <3>2 DEF Passed
  <2> QED
    BY <2>1, <2>2
<1>4. ok => AllAccepted(d, c)
  <2> SUFFICES ASSUME ok, NEW n \in 1..Len(c) PROVE Accepted(At(d, c, n - 1), c[n])
    BY DEF AllAccepted
  <2>1. CASE n \in 1..m
    <3>1. n - 1 \in 0..m /\ n \in 1..Len(a)
      BY <1>1, <2>1 DEF m
    <3>2. Accepted(At(d, a, n - 1), a[n])
      BY <3>1 DEF AllAccepted
    <3> QED
      BY <1>1, <2>1, <3>1, <3>2
  <2>2. CASE n \notin 1..m
    <3>1. n - m \in 1..Len(b) /\ m + (n - m) = n /\ (n - m) - 1 \in 0..Len(b) /\ m + ((n - m) - 1) = n - 1
      BY <1>1, <2>2
    <3>2. Accepted(At(e, b, (n - m) - 1), b[n - m])
      BY <3>1 DEF AllAccepted
    <3> QED
      BY <1>1, <3>1, <3>2
  <2> QED
    BY <2>1, <2>2
<1> QED
  BY <1>1, <1>2, <1>3, <1>4 DEF c

\* The journal makes the first write of a section.
LEMMA RunsHead ==
    ASSUME NEW d, NEW ws \in Seq(Writes), ws # <<>>, AllAccepted(d, ws)
    PROVE  /\ Accepted(d, Head(ws)) /\ AllAccepted(Put(d, Head(ws)), Tail(ws))
           /\ After(Put(d, Head(ws)), Tail(ws)) = After(d, ws)
           /\ Passed(Put(d, Head(ws)), Tail(ws)) \subseteq Passed(d, ws)
           /\ d \in Passed(d, ws) /\ Put(d, Head(ws)) \in Passed(d, ws)
<1> DEFINE w == Head(ws)
           t == Tail(ws)
           o == <<w>>
<1>1. w \in Writes /\ w = ws[1] /\ t \in Seq(Writes) /\ Len(ws) = 1 + Len(t) /\ Len(t) \in Nat
      /\ \A i \in 1..Len(t) : t[i] = ws[i + 1]
  BY HeadTailProperties
<1>2. o \in Seq(Writes) /\ Len(o) = 1 /\ o[1] = w /\ o \o t = ws
  <2>1. o \in Seq(Writes) /\ Len(o) = 1 /\ o[1] = w
    BY <1>1
  <2>2. \A i \in 1..Len(ws) : (o \o t)[i] = ws[i]
    BY <1>1, <2>1
  <2> QED
    BY <1>1, <2>1, <2>2, SeqEqual, ConcatProperties
<1> HIDE DEF w, t, o
<1>3. Accepted(d, w)
  <2>1. At(d, ws, 1 - 1) = d /\ 1 \in 1..Len(ws)
    BY <1>1, AtNext
  <2> QED
    BY <1>1, <2>1 DEF AllAccepted
<1>4. After(d, o) = Put(d, w) /\ At(d, ws, 0) = d
  <2>1. Runs(TRUE, d, <<w>>, {d, Put(d, w)}, Put(d, w))
    BY <1>1, <1>3, RunsOne
  <2>2. At(d, ws, 0) = d
    BY AtNext
  <2> QED
    BY <2>1, <2>2 DEF Runs, o
<1>5. \A n \in 0..Len(t) : At(d, ws, 1 + n) = At(Put(d, w), t, n)
  <2>1. \A n \in 0..Len(t) : At(d, o \o t, Len(o) + n) = At(After(d, o), t, n)
    <3>1. o \in Seq(Writes)
      BY <1>2
    <3>2. t \in Seq(Writes)
      BY <1>1
    <3> QED
      BY <3>1, <3>2, AtConcat
  <2> QED
    BY <1>2, <1>4, <2>1
<1>6. /\ After(d, ws) = At(d, ws, Len(ws)) /\ After(Put(d, w), t) = At(Put(d, w), t, Len(t))
      /\ At(Put(d, w), t, 0) = Put(d, w)
  BY <1>1, AtNext
<1>7. Passed(Put(d, w), t) \subseteq Passed(d, ws) /\ d \in Passed(d, ws) /\ Put(d, w) \in Passed(d, ws)
  <2>1. ASSUME NEW n \in 0..Len(t) PROVE 1 + n \in 0..Len(ws) /\ At(Put(d, w), t, n) = At(d, ws, 1 + n)
    BY <1>1, <1>5
  <2>2. 0 \in 0..Len(ws) /\ 0 \in 0..Len(t)
    BY <1>1
  <2> QED
    BY <1>4, <1>6, <2>1, <2>2 DEF Passed
<1>8. AllAccepted(Put(d, w), t)
  <2> SUFFICES ASSUME NEW n \in 1..Len(t) PROVE Accepted(At(Put(d, w), t, n - 1), t[n])
    BY DEF AllAccepted
  <2>1. n - 1 \in 0..Len(t) /\ 1 + (n - 1) = (n + 1) - 1 /\ n + 1 \in 1..Len(ws)
    BY <1>1
  <2>2. Accepted(At(d, ws, (n + 1) - 1), ws[n + 1])
    BY <2>1 DEF AllAccepted
  <2> QED
    BY <1>1, <1>5, <2>1, <2>2
<1>9. After(Put(d, w), t) = After(d, ws)
  BY <1>1, <1>5, <1>6
<1> QED
  BY <1>3, <1>7, <1>8, <1>9 DEF w, t

-----------------------------------------------------------------------------
(* The loops over the rows of a job.                                       *)

\* The rows there may be.
LEMMA OpsAre ==
    /\ Recoveries = {"recResidual", "recDust", "recResidualFinal", "recDustFinal", "recFinals", "recRevert"}
    /\ Reverts = Recoveries \cup {"revert"} /\ WalletOps = {"residual", "dust", "residualFinal", "dustFinal"}
    /\ Ops = {"settlement", "residual", "dust", "residualFinal", "dustFinal", "revert", "recResidual",
              "recDust", "recResidualFinal", "recDustFinal", "recFinals", "recRevert"}
<1>1. Recoveries = {"recResidual", "recDust", "recResidualFinal", "recDustFinal", "recFinals", "recRevert"}
  BY DEF Recoveries, recoveryRevertKey
<1> QED
  BY <1>1 DEF Reverts, Ops, WalletOps, Contributions, Finals

\* The orders name each of them once.
ChildRow(i) ==
    CASE i = 1 -> "residual" [] i = 2 -> "residualFinal" [] i = 3 -> "dust" [] i = 4 -> "dustFinal"
      [] i = 5 -> "revert" [] i = 6 -> "recResidual" [] i = 7 -> "recDust" [] i = 8 -> "recResidualFinal"
      [] i = 9 -> "recDustFinal" [] i = 10 -> "recFinals" [] i = 11 -> "recRevert"
Order(o) ==
    /\ DOMAIN o = 1..12 /\ Len(o) = 12 /\ \A i \in 1..12 : o[i] \in Ops
    /\ \A i, k \in 1..12 : o[i] = o[k] => i = k
    /\ \A op \in Ops : \E i \in 1..12 : o[i] = op

\* ChildOrder is the eleven rows besides the settlement.
LEMMA ChildRows ==
    /\ ChildOrder \in Seq(Ops) /\ Len(ChildOrder) = 11 /\ DOMAIN ChildOrder = 1..11
    /\ \A i \in 1..11 : ChildOrder[i] = ChildRow(i)
  BY OpsAre DEF ChildOrder, ChildRow

\* ListOrder is the settlement and then the others.
LEMMA ListRows ==
    /\ DOMAIN ListOrder = 1..12 /\ Len(ListOrder) = 12 /\ ListOrder \in Seq(Ops)
    /\ ListOrder[1] = "settlement" /\ \A i \in 2..12 : ListOrder[i] = ChildRow(i - 1)
<1> DEFINE h == <<"settlement">>
           c == ChildOrder
<1>1. h \in Seq(Ops) /\ Len(h) = 1 /\ h[1] = "settlement"
  BY OpsAre
<1>2. c \in Seq(Ops) /\ Len(c) = 11 /\ \A i \in 1..11 : c[i] = ChildRow(i)
  BY ChildRows
<1>3. ListOrder = h \o c
  BY DEF ListOrder
<1> HIDE DEF h, c
<1>4. /\ ListOrder \in Seq(Ops) /\ Len(ListOrder) = Len(h) + Len(c)
      /\ \A i \in 1..(Len(h) + Len(c)) : ListOrder[i] = IF i <= Len(h) THEN h[i] ELSE c[i - Len(h)]
  BY <1>1, <1>2, <1>3, ConcatProperties
<1>5. \A i \in 1..12 : ListOrder[i] = IF i <= 1 THEN h[i] ELSE c[i - 1]
  BY <1>1, <1>2, <1>4
<1>6. Len(ListOrder) = 12 /\ DOMAIN ListOrder = 1..12
  BY <1>1, <1>2, <1>4
<1> QED
  BY <1>1, <1>2, <1>4, <1>5, <1>6

\* terminalOrder is the others and then the settlement.
LEMMA TerminalRows ==
    /\ DOMAIN terminalOrder = 1..12 /\ Len(terminalOrder) = 12 /\ terminalOrder \in Seq(Ops)
    /\ terminalOrder[12] = "settlement" /\ \A i \in 1..11 : terminalOrder[i] = ChildRow(i)
<1> DEFINE h == <<"settlement">>
           c == ChildOrder
<1>1. h \in Seq(Ops) /\ Len(h) = 1 /\ h[1] = "settlement"
  BY OpsAre
<1>2. c \in Seq(Ops) /\ Len(c) = 11 /\ \A i \in 1..11 : c[i] = ChildRow(i)
  BY ChildRows
<1>3. terminalOrder = c \o h
  BY DEF terminalOrder
<1> HIDE DEF h, c
<1>4. /\ terminalOrder \in Seq(Ops) /\ Len(terminalOrder) = Len(c) + Len(h)
      /\ \A i \in 1..(Len(c) + Len(h)) : terminalOrder[i] = IF i <= Len(c) THEN c[i] ELSE h[i - Len(c)]
  BY <1>1, <1>2, <1>3, ConcatProperties
<1>5. \A i \in 1..12 : terminalOrder[i] = IF i <= 11 THEN c[i] ELSE h[i - 11]
  BY <1>1, <1>2, <1>4
<1>6. Len(terminalOrder) = 12 /\ DOMAIN terminalOrder = 1..12
  BY <1>1, <1>2, <1>4
<1> QED
  BY <1>1, <1>2, <1>4, <1>5, <1>6

\* In either order every row has one position.
LEMMA OrdersName == Order(ListOrder) /\ Order(terminalOrder)
<1>1. /\ \A i \in 1..11 : ChildRow(i) \in Ops \ {"settlement"}
      /\ \A i, k \in 1..11 : ChildRow(i) = ChildRow(k) => i = k
      /\ \A op \in Ops \ {"settlement"} : \E i \in 1..11 : ChildRow(i) = op
  <2>1. 1..11 = {1, 2, 3, 4, 5, 6, 7, 8, 9, 10, 11}
    OBVIOUS
  <2>2. \A i \in 1..11 : ChildRow(i) \in Ops \ {"settlement"}
    BY <2>1, OpsAre DEF ChildRow
  <2>3. \A i, k \in 1..11 : ChildRow(i) = ChildRow(k) => i = k
    BY <2>1 DEF ChildRow
  <2>4. \A op \in Ops \ {"settlement"} : \E i \in 1..11 : ChildRow(i) = op
    BY <2>1, OpsAre DEF ChildRow
  <2> QED
    BY <2>2, <2>3, <2>4
<1>2. "settlement" \in Ops
  BY OpsAre
<1>3. Order(ListOrder)
  <2>1. \A i \in 2..12 : i - 1 \in 1..11
    OBVIOUS
  <2>2. \A i \in 1..12 : ListOrder[i] \in Ops
    BY <1>1, <1>2, <2>1, ListRows
  <2>3. \A i, k \in 1..12 : ListOrder[i] = ListOrder[k] => i = k
    BY <1>1, <2>1, ListRows
  <2>4. ASSUME NEW op \in Ops PROVE \E i \in 1..12 : ListOrder[i] = op
    <3>1. CASE op = "settlement"
      BY <3>1, ListRows
    <3>2. CASE op # "settlement"
      <4>1. PICK i \in 1..11 : ChildRow(i) = op
        BY <1>1, <3>2
      <4>2. i + 1 \in 2..12 /\ (i + 1) - 1 = i /\ i + 1 \in 1..12
        OBVIOUS
      <4> QED
        BY <4>1, <4>2, ListRows
    <3> QED
      BY <3>1, <3>2
  <2> QED
    BY <2>2, <2>3, <2>4, ListRows DEF Order
<1>4. Order(terminalOrder)
  <2>1. \A i \in 1..12 : i \in 1..11 \/ i = 12
    OBVIOUS
  <2>2. \A i \in 1..12 : terminalOrder[i] \in Ops
    BY <1>1, <1>2, <2>1, TerminalRows
  <2>3. \A i, k \in 1..12 : terminalOrder[i] = terminalOrder[k] => i = k
    BY <1>1, <2>1, TerminalRows
  <2>4. \A op \in Ops : \E i \in 1..12 : terminalOrder[i] = op
    <3>1. \A i \in 1..11 : i \in 1..12
      OBVIOUS
    <3> QED
      BY <1>1, <3>1, TerminalRows
  <2> QED
    BY <2>2, <2>3, <2>4, TerminalRows DEF Order
<1> QED
  BY <1>3, <1>4

\* What a write to a row does.
LEMMA PutRow ==
    ASSUME NEW d \in Rows, NEW op \in Ops, NEW s \in States, NEW y \in Whys
    PROVE  /\ Because(op, s, y) \in Writes /\ Put(d, Because(op, s, y)) \in Rows
           /\ Put(d, Because(op, s, y)).row = [d.row EXCEPT ![op] = s]
           /\ Put(d, Because(op, s, y)).receipt = d.receipt /\ Put(d, Because(op, s, y)).fee = d.fee
           /\ d.art \subseteq Put(d, Because(op, s, y)).art
           /\ Put(d, Because(op, s, y)).art = d.art \cup (IF s = "APPLIED" \/ op \in Reverts THEN {op} ELSE {})
           /\ Put(d, Because(op, s, y)).why = IF op = "settlement" /\ y # None THEN y ELSE d.why
<1>1. op # "receipt" /\ op # "fee"
  BY OpsAre
<1>2. Because(op, s, y) \in Writes
  BY DEF Because, Writes
<1> DEFINE x == Put(d, Because(op, s, y))
<1>3. x = [d EXCEPT !.row[op] = s, !.art = IF s = "APPLIED" \/ op \in Reverts THEN @ \cup {op} ELSE @,
                    !.why = IF op = "settlement" /\ y # None THEN y ELSE @]
  BY <1>1 DEF Put, Because
<1>4. d = [row |-> d.row, art |-> d.art, receipt |-> d.receipt, why |-> d.why, fee |-> d.fee]
  BY DEF Rows
<1>5. x = [row |-> [d.row EXCEPT ![op] = s], art |-> IF s = "APPLIED" \/ op \in Reverts THEN d.art \cup {op} ELSE d.art,
           receipt |-> d.receipt, why |-> IF op = "settlement" /\ y # None THEN y ELSE d.why, fee |-> d.fee]
  BY <1>3, <1>4
<1>6. [d.row EXCEPT ![op] = s] \in [Ops -> States \cup {None}]
  BY DEF Rows
<1>7. x \in Rows
  BY <1>5, <1>6 DEF Rows
<1> HIDE DEF x
<1> QED
  BY <1>2, <1>5, <1>7 DEF x

\* What the other writes do.
LEMMA PutReceipt ==
    ASSUME NEW d \in Rows, NEW to \in {"done", "error"}
    PROVE  /\ Receipt(to) \in Writes /\ Put(d, Receipt(to)) = [d EXCEPT !.receipt = to]
           /\ Put(d, Receipt(to)) \in Rows /\ Accepted(d, Receipt(to))
  BY OpsAre DEF Receipt, Set, Writes, Put, Rows, Accepted

\* The DUST reservation is a write that the journal always takes.
LEMMA PutFee ==
    ASSUME NEW d \in Rows, NEW to \in Fees
    PROVE  /\ Fee(to) \in Writes
           /\ Put(d, Fee(to)) = [d EXCEPT !.fee = IF to = "RESERVED" \/ @ = "RESERVED" THEN to ELSE @]
           /\ Put(d, Fee(to)) \in Rows /\ Accepted(d, Fee(to))
  BY OpsAre DEF Fee, Set, Writes, Put, Rows, Accepted, Fees

\* The writes that a loop makes of one row: none, one, or one after another.
Allowed(from, to) == to # from => from \in States /\ to \in States /\ to \in Journal!allowedTransitions[from]
Piece(ok, from, op, y, p) ==
    \/ p = <<>>
    \/ \E s \in States : /\ p = <<Because(op, s, y)>> /\ (ok => Allowed(from, s))
                         /\ y = None \/ s # from
    \/ \E s, t \in States : /\ p = <<Because(op, s, y), Because(op, t, y)>>
                            /\ ok => Allowed(from, s) /\ Allowed(s, t)
                            /\ y = None \/ (s # from /\ t # from)
LastOf(from, p) == IF p = <<>> THEN from ELSE p[Len(p)].to
StepsOf(from, p) == {from} \cup {p[i].to : i \in DOMAIN p}

\* Rows that differ from d in one row at most.
Near(d, op, y, e) ==
    /\ e \in Rows /\ e.receipt = d.receipt /\ e.fee = d.fee /\ d.art \subseteq e.art
    /\ \A o \in Ops \ {op} : e.row[o] = d.row[o]
    /\ e.why = IF op = "settlement" /\ y # None /\ e.row[op] # d.row[op] THEN y ELSE d.why

\* What a loop writes of one row leaves the other rows alone, and leads to its last write.
LEMMA PieceRuns ==
    ASSUME NEW ok, NEW d \in Rows, NEW op \in Ops, NEW y \in Whys, NEW a, a = d.row[op],
           NEW p, Piece(ok, a, op, y, p)
    PROVE  \E P, e : /\ Runs(ok, d, p, P, e) /\ Near(d, op, y, e) /\ e.row[op] = LastOf(a, p)
                     /\ \A x \in P : Near(d, op, y, x) /\ x.row[op] \in StepsOf(a, p)
<1>0. Near(d, op, y, d) /\ a \in StepsOf(a, p)
  BY DEF Near, StepsOf
<1>1. CASE p = <<>>
  <2>1. Runs(ok, d, <<>>, {d}, d)
    BY RunsNone
  <2> QED
    BY <1>0, <1>1, <2>1 DEF LastOf
<1>2. ASSUME NEW s \in States, p = <<Because(op, s, y)>>, ok => Allowed(a, s), y = None \/ s # a
      PROVE  \E P, e : /\ Runs(ok, d, p, P, e) /\ Near(d, op, y, e) /\ e.row[op] = LastOf(a, p)
                       /\ \A x \in P : Near(d, op, y, x) /\ x.row[op] \in StepsOf(a, p)
  <2> DEFINE w == Because(op, s, y)
             e == Put(d, w)
  <2>1. /\ w \in Writes /\ e \in Rows /\ e.row = [d.row EXCEPT ![op] = s] /\ e.receipt = d.receipt
        /\ e.fee = d.fee /\ d.art \subseteq e.art /\ e.why = IF op = "settlement" /\ y # None THEN y ELSE d.why
    BY PutRow
  <2>2. w.op = op /\ w.to = s /\ None \notin States
    BY <1>2 DEF Because, States, Journal!States, None
  <2>3. ok => Accepted(d, w)
    BY <1>2, <2>2 DEF Accepted, Allowed
  <2>4. p = <<w>> /\ Len(p) = 1 /\ p[1] = w /\ DOMAIN p = 1..1
    BY <1>2
  <2>5. e.row[op] = s /\ \A o \in Ops \ {op} : e.row[o] = d.row[o]
    BY <2>1 DEF Rows
  <2>6. LastOf(a, p) = s /\ s \in StepsOf(a, p)
    BY <2>2, <2>4 DEF LastOf, StepsOf
  <2> HIDE DEF w, e
  <2>7. Runs(ok, d, p, {d, e}, e)
    <3>1. Runs(ok, d, <<w>>, {d, Put(d, w)}, Put(d, w))
      BY <2>1, <2>3, RunsOne
    <3> QED
      BY <2>4, <3>1 DEF e
  <2>8. Near(d, op, y, e)
    BY <1>2, <2>1, <2>5 DEF Near
  <2> QED
    BY <1>0, <2>5, <2>6, <2>7, <2>8
<1>3. ASSUME NEW s \in States, NEW t \in States, p = <<Because(op, s, y), Because(op, t, y)>>,
             ok => Allowed(a, s) /\ Allowed(s, t), y = None \/ (s # a /\ t # a)
      PROVE  \E P, e : /\ Runs(ok, d, p, P, e) /\ Near(d, op, y, e) /\ e.row[op] = LastOf(a, p)
                       /\ \A x \in P : Near(d, op, y, x) /\ x.row[op] \in StepsOf(a, p)
  <2> DEFINE w == Because(op, s, y)
             v == Because(op, t, y)
             e == Put(d, w)
             f == Put(e, v)
  <2>1. /\ w \in Writes /\ e \in Rows /\ e.row = [d.row EXCEPT ![op] = s] /\ e.receipt = d.receipt
        /\ e.fee = d.fee /\ d.art \subseteq e.art /\ e.why = IF op = "settlement" /\ y # None THEN y ELSE d.why
    BY PutRow
  <2>2. /\ v \in Writes /\ f \in Rows /\ f.row = [e.row EXCEPT ![op] = t] /\ f.receipt = e.receipt
        /\ f.fee = e.fee /\ e.art \subseteq f.art /\ f.why = IF op = "settlement" /\ y # None THEN y ELSE e.why
    BY <2>1, PutRow
  <2>3. w.op = op /\ w.to = s /\ None \notin States /\ v.op = op /\ v.to = t
    BY <1>3 DEF Because, States, Journal!States, None
  <2>4. e.row[op] = s /\ \A o \in Ops \ {op} : e.row[o] = d.row[o]
    BY <2>1 DEF Rows
  <2>5. f.row[op] = t /\ \A o \in Ops \ {op} : f.row[o] = d.row[o]
    <3>1. f.row[op] = t /\ \A o \in Ops \ {op} : f.row[o] = e.row[o]
      BY <2>1, <2>2 DEF Rows
    <3> QED
      BY <2>4, <3>1
  <2>6. ok => Accepted(d, w) /\ Accepted(e, v)
    BY <1>3, <2>3, <2>4 DEF Accepted, Allowed
  <2>7. p = <<w>> \o <<v>> /\ Len(p) = 2 /\ p[1] = w /\ p[2] = v /\ DOMAIN p = 1..2
    BY <1>3
  <2>8. LastOf(a, p) = t /\ s \in StepsOf(a, p) /\ t \in StepsOf(a, p)
    <3>1. 1 \in 1..2 /\ 2 \in 1..2
      OBVIOUS
    <3> QED
      BY <2>3, <2>7, <3>1 DEF LastOf, StepsOf
  <2> HIDE DEF w, v, e, f
  <2>9. Runs(ok, d, p, {d, e} \cup {e, f}, f)
    <3>1. Runs(ok, d, <<w>>, {d, Put(d, w)}, Put(d, w))
      BY <2>1, <2>6, RunsOne
    <3>2. Runs(ok, e, <<v>>, {e, Put(e, v)}, Put(e, v))
      BY <2>2, <2>6, RunsOne
    <3>3. Runs(ok, d, <<w>>, {d, e}, e)
      BY <3>1 DEF e
    <3>4. Runs(ok, e, <<v>>, {e, f}, f)
      BY <3>2 DEF f
    <3> QED
      BY <2>7, <3>3, <3>4, RunsBoth
  <2>10. Near(d, op, y, e)
    BY <1>3, <2>1, <2>4 DEF Near
  <2>11. Near(d, op, y, f)
    <3>1. d.art \subseteq f.art
      BY <2>1, <2>2
    <3> QED
      BY <1>3, <2>1, <2>2, <2>5, <3>1 DEF Near
  <2>12. \A x \in {d, e} \cup {e, f} : x = d \/ x = e \/ x = f
    OBVIOUS
  <2> QED
    BY <1>0, <2>4, <2>5, <2>8, <2>9, <2>10, <2>11, <2>12
<1> QED
  BY <1>1, <1>2, <1>3 DEF Piece

\* What the library's concatenation unfolds to.
FlatTo(ss, n, f) == f = [i \in 1..n |-> IF i = 1 THEN ss[i] ELSE f[i-1] \o ss[i]]

\* A sequence of sequences has its first ones in a row.
LEMMA FlatExists == ASSUME NEW n \in Nat, NEW ss PROVE \E f : FlatTo(ss, n, f)
<1> DEFINE P == {m \in Nat : \E f : FlatTo(ss, m, f)}
<1>1. 0 \in P
  <2> DEFINE f == [i \in 1..0 |-> ss[i]]
  <2>1. \A i \in 1..0 : FALSE
    OBVIOUS
  <2>2. FlatTo(ss, 0, f)
    BY <2>1 DEF FlatTo
  <2> HIDE DEF f
  <2> QED
    BY <2>2
<1>2. ASSUME NEW m \in Nat, m \in P PROVE m + 1 \in P
  <2>1. PICK f : FlatTo(ss, m, f)
    BY <1>2
  <2> DEFINE g == [i \in 1..(m+1) |-> IF i = m + 1 THEN IF i = 1 THEN ss[i] ELSE f[i-1] \o ss[i] ELSE f[i]]
  <2>2. ASSUME NEW i \in 1..(m+1) PROVE g[i] = IF i = 1 THEN ss[i] ELSE g[i-1] \o ss[i]
    <3>1. CASE i = 1
      BY <2>1, <3>1 DEF FlatTo
    <3>2. CASE i # 1
      <4>1. i - 1 \in 1..m /\ i - 1 # m + 1 /\ i - 1 \in 1..(m+1)
        BY <3>2
      <4>2. g[i-1] = f[i-1]
        BY <4>1
      <4>3. g[i] = f[i-1] \o ss[i]
        <5>1. CASE i = m + 1
          BY <3>2, <5>1
        <5>2. CASE i # m + 1
          <6>1. i \in 1..m
            BY <5>2
          <6>2. g[i] = f[i]
            BY <5>2
          <6>3. f[i] = IF i = 1 THEN ss[i] ELSE f[i-1] \o ss[i]
            <7> HIDE DEF g
            <7> QED
              BY <2>1, <6>1, Zenon DEF FlatTo
          <6> QED
            BY <3>2, <6>2, <6>3
        <5> QED
          BY <5>1, <5>2
      <4> QED
        BY <3>2, <4>2, <4>3
    <3> QED
      BY <3>1, <3>2
  <2>3. g = [i \in 1..(m+1) |-> g[i]]
    OBVIOUS
  <2> HIDE DEF g
  <2>4. FlatTo(ss, m + 1, g)
    BY <2>2, <2>3 DEF FlatTo
  <2> QED
    BY <2>4
<1>3. n \in P
  <2> HIDE DEF P
  <2> QED
    BY <1>1, <1>2, NatSetInduction
<1> QED
  BY <1>3

\* The library's FlattenSeq puts the sequences of a loop one after another.
LEMMA Flattens ==
    ASSUME NEW ss, Len(ss) = 12
    PROVE  \E f : /\ FlattenSeq(ss) = f[12] /\ f[1] = ss[1]
                  /\ \A i \in 2..12 : f[i] = f[i-1] \o ss[i]
<1>1. FlattenSeq(ss) = (CHOOSE f : FlatTo(ss, 12, f))[12]
  BY DEF FlattenSeq, FlatTo
<1>2. PICK f : FlatTo(ss, 12, f) /\ FlattenSeq(ss) = f[12]
  BY <1>1, FlatExists
<1>3. \A i \in 1..12 : f[i] = IF i = 1 THEN ss[i] ELSE f[i-1] \o ss[i]
  BY <1>2, Zenon DEF FlatTo
<1>4. 1 \in 1..12 /\ \A i \in 2..12 : i \in 1..12 /\ i # 1
  OBVIOUS
<1>5. f[1] = ss[1]
  BY <1>3, <1>4
<1>6. ASSUME NEW i \in 2..12 PROVE f[i] = f[i-1] \o ss[i]
  BY <1>3, <1>4, Zenon
<1> QED
  BY <1>2, <1>5, <1>6

\* The rows inside a loop: the first are done, one is being written, the others wait.
Beside(d, y, e) ==
    /\ e \in Rows /\ e.receipt = d.receipt /\ e.fee = d.fee /\ d.art \subseteq e.art
    /\ e.why = IF y # None /\ e.row["settlement"] # d.row["settlement"] THEN y ELSE d.why
DoneTo(d, o, ss, n, e) ==
    \A i \in 1..12 : e.row[o[i]] = IF i <= n THEN LastOf(d.row[o[i]], ss[i]) ELSE d.row[o[i]]
MidwayAt(d, o, ss, k, e) ==
    \A i \in 1..12 : /\ i <= k => e.row[o[i]] = LastOf(d.row[o[i]], ss[i])
                     /\ i = k + 1 => e.row[o[i]] \in StepsOf(d.row[o[i]], ss[i])
                     /\ i > k + 1 => e.row[o[i]] = d.row[o[i]]
Midway(d, o, ss, e) == \E k \in 0..11 : MidwayAt(d, o, ss, k, e)

\* What DoneTo says of one row.
LEMMA DoneAt ==
    ASSUME NEW d, NEW o, NEW ss, NEW n, NEW e, DoneTo(d, o, ss, n, e), NEW i \in 1..12
    PROVE  e.row[o[i]] = IF i <= n THEN LastOf(d.row[o[i]], ss[i]) ELSE d.row[o[i]]
BY DEF DoneTo

\* What it says of one row when all are done.
LEMMA DoneInAll ==
    ASSUME NEW d, NEW o, NEW ss, NEW e, DoneTo(d, o, ss, 12, e), NEW i \in 1..12
    PROVE  e.row[o[i]] = LastOf(d.row[o[i]], ss[i])
<1>1. i <= 12
  OBVIOUS
<1> QED
  BY <1>1, DoneAt

\* A loop over all the rows does each row in turn: at any point those before are done and those behind untouched.
LEMMA LoopRuns ==
    ASSUME NEW ok, NEW d \in Rows, NEW o, Order(o), NEW y \in Whys, NEW ss, Len(ss) = 12,
           \A i \in 1..12 : Piece(ok, d.row[o[i]], o[i], y, ss[i])
    PROVE  \E P, e : /\ Runs(ok, d, FlattenSeq(ss), P, e) /\ Beside(d, y, e) /\ DoneTo(d, o, ss, 12, e)
                     /\ \A x \in P : Beside(d, y, x) /\ Midway(d, o, ss, x)
<1>1. PICK f : /\ FlattenSeq(ss) = f[12] /\ f[1] = ss[1] /\ \A i \in 2..12 : f[i] = f[i-1] \o ss[i]
  BY Flattens
<1> DEFINE Good(n, P, e) == /\ Runs(ok, d, f[n], P, e) /\ Beside(d, y, e) /\ DoneTo(d, o, ss, n, e)
                            /\ \A x \in P : Beside(d, y, x) /\ Midway(d, o, ss, x)
           N == {n \in Nat : n \in 1..12 => \E P, e : Good(n, P, e)}
<1>2. \A i \in 1..12 : o[i] \in Ops /\ \A k \in 1..12 : o[i] = o[k] => i = k
  BY DEF Order
<1>3. ASSUME NEW n \in 0..11, NEW e, Beside(d, y, e), DoneTo(d, o, ss, n, e)
      PROVE  \E Q, g : /\ Runs(ok, e, ss[n+1], Q, g) /\ Beside(d, y, g) /\ DoneTo(d, o, ss, n + 1, g)
                       /\ \A x \in Q : Beside(d, y, x) /\ Midway(d, o, ss, x)
  <2>0. \A i \in 1..12 : e.row[o[i]] = IF i <= n THEN LastOf(d.row[o[i]], ss[i]) ELSE d.row[o[i]]
    BY <1>3, Zenon DEF DoneTo
  <2> DEFINE m == n + 1
             op == o[m]
             p == ss[m]
  <2>1. m \in 1..12 /\ ~(m <= n) /\ op \in Ops /\ e.row[op] = d.row[op] /\ e \in Rows
    BY <1>2, <1>3 DEF DoneTo, Beside
  <2>2. Piece(ok, e.row[op], op, y, p)
    BY <2>1
  <2> HIDE DEF m, op, p
  <2>3. PICK Q, g : /\ Runs(ok, e, p, Q, g) /\ Near(e, op, y, g) /\ g.row[op] = LastOf(e.row[op], p)
                    /\ \A x \in Q : Near(e, op, y, x) /\ x.row[op] \in StepsOf(e.row[op], p)
    <3> DEFINE a == e.row[op]
    <3>1. a = e.row[op] /\ Piece(ok, a, op, y, p)
      BY <2>2
    <3> HIDE DEF a
    <3>2. \E Q, g : /\ Runs(ok, e, p, Q, g) /\ Near(e, op, y, g) /\ g.row[op] = LastOf(a, p)
                    /\ \A x \in Q : Near(e, op, y, x) /\ x.row[op] \in StepsOf(a, p)
      BY <2>1, <3>1, PieceRuns
    <3> QED
      BY <3>1, <3>2
  <2>4. ASSUME NEW x, Near(e, op, y, x) PROVE Beside(d, y, x)
    <3>1. x \in Rows /\ x.receipt = d.receipt /\ x.fee = d.fee /\ d.art \subseteq x.art
      BY <1>3, <2>4 DEF Near, Beside
    <3>2. CASE op = "settlement"
      <4>1. e.why = d.why /\ e.row["settlement"] = d.row["settlement"]
        BY <1>3, <2>1, <3>2 DEF Beside
      <4> QED
        BY <2>4, <3>1, <3>2, <4>1 DEF Near, Beside
    <3>3. CASE op # "settlement"
      <4>1. x.row["settlement"] = e.row["settlement"] /\ x.why = e.why
        BY <2>4, <3>3, OpsAre DEF Near
      <4> QED
        BY <1>3, <3>1, <4>1 DEF Beside
    <3> QED
      BY <3>2, <3>3
  <2>5. ASSUME NEW x, Near(e, op, y, x), NEW i \in 1..12, i # m PROVE x.row[o[i]] = e.row[o[i]]
    BY <1>2, <2>1, <2>5 DEF Near, op
  <2>6. DoneTo(d, o, ss, m, g)
    <3> SUFFICES ASSUME NEW i \in 1..12
                 PROVE  g.row[o[i]] = IF i <= m THEN LastOf(d.row[o[i]], ss[i]) ELSE d.row[o[i]]
      BY DEF DoneTo
    <3>1. CASE i = m
      BY <2>1, <2>3, <3>1 DEF op, p
    <3>2. CASE i # m
      <4>1. g.row[o[i]] = e.row[o[i]]
        BY <2>3, <2>5, <3>2
      <4>2. i <= m <=> i <= n
        BY <3>2 DEF m
      <4> QED
        BY <1>3, <4>1, <4>2 DEF DoneTo
    <3> QED
      BY <3>1, <3>2
  <2>7. ASSUME NEW x \in Q PROVE Midway(d, o, ss, x)
    <3>1. Near(e, op, y, x) /\ x.row[op] \in StepsOf(d.row[op], p)
      BY <2>1, <2>3
    <3>2. ASSUME NEW i \in 1..12, i # m
          PROVE  x.row[o[i]] = IF i <= n THEN LastOf(d.row[o[i]], ss[i]) ELSE d.row[o[i]]
      <4>1. x.row[o[i]] = e.row[o[i]]
        BY <2>5, <3>1, <3>2
      <4>2. e.row[o[i]] = IF i <= n THEN LastOf(d.row[o[i]], ss[i]) ELSE d.row[o[i]]
        BY <2>0, Zenon
      <4> QED
        BY <4>1, <4>2
    <3>3. MidwayAt(d, o, ss, n, x)
      <4> SUFFICES ASSUME NEW i \in 1..12
                   PROVE  /\ i <= n => x.row[o[i]] = LastOf(d.row[o[i]], ss[i])
                          /\ i = n + 1 => x.row[o[i]] \in StepsOf(d.row[o[i]], ss[i])
                          /\ i > n + 1 => x.row[o[i]] = d.row[o[i]]
        BY DEF MidwayAt
      <4>1. CASE i = m
        BY <3>1, <4>1 DEF m, op, p
      <4>2. CASE i # m
        BY <3>2, <4>2 DEF m
      <4> QED
        BY <4>1, <4>2
    <3> QED
      BY <3>3 DEF Midway
  <2>8. Beside(d, y, g) /\ \A x \in Q : Beside(d, y, x)
    BY <2>3, <2>4
  <2> QED
    BY <2>3, <2>6, <2>7, <2>8 DEF m, p
<1>4. 1 \in N
  <2>1. Beside(d, y, d) /\ DoneTo(d, o, ss, 0, d)
    BY DEF Beside, DoneTo
  <2>2. PICK Q, g : /\ Runs(ok, d, ss[0+1], Q, g) /\ Beside(d, y, g) /\ DoneTo(d, o, ss, 0 + 1, g)
                    /\ \A x \in Q : Beside(d, y, x) /\ Midway(d, o, ss, x)
    BY <1>3, <2>1
  <2>3. 0 + 1 = 1
    OBVIOUS
  <2>4. Runs(ok, d, f[1], Q, g) /\ DoneTo(d, o, ss, 1, g)
    BY <1>1, <2>2, <2>3, Zenon
  <2>5. Good(1, Q, g)
    BY <2>2, <2>4, Zenon
  <2> QED
    BY <2>5
<1>5. ASSUME NEW n \in Nat, n \in N, n + 1 \in 1..12, n # 0 PROVE \E P, e : Good(n + 1, P, e)
  <2>1. n \in 1..12 /\ n \in 0..11 /\ n + 1 \in 2..12 /\ (n + 1) - 1 = n
    BY <1>5
  <2>2. PICK P, e : Good(n, P, e)
    BY <1>5, <2>1
  <2>3. PICK Q, g : /\ Runs(ok, e, ss[n+1], Q, g) /\ Beside(d, y, g) /\ DoneTo(d, o, ss, n + 1, g)
                    /\ \A x \in Q : Beside(d, y, x) /\ Midway(d, o, ss, x)
    BY <1>3, <2>1, <2>2
  <2>4. Runs(ok, d, f[n] \o ss[n+1], P \cup Q, g) /\ f[n+1] = f[n] \o ss[n+1]
    BY <1>1, <2>1, <2>2, <2>3, RunsBoth
  <2>5. Good(n + 1, P \cup Q, g)
    <3>1. Runs(ok, d, f[n+1], P \cup Q, g)
      BY <2>4
    <3>2. \A x \in P \cup Q : Beside(d, y, x) /\ Midway(d, o, ss, x)
      BY <2>2, <2>3
    <3> QED
      BY <2>3, <3>1, <3>2
  <2> QED
    BY <2>5
<1>6. 12 \in N
  <2>1. 0 \in N
    OBVIOUS
  <2>2. ASSUME NEW n \in Nat, n \in N PROVE n + 1 \in N
    <3>1. CASE n = 0
      <4>1. n + 1 = 1
        BY <3>1
      <4> QED
        BY <1>4, <4>1
    <3>2. CASE n # 0
      <4>1. n + 1 \in 1..12 => \E P, e : Good(n + 1, P, e)
        BY <1>5, <2>2, <3>2
      <4> QED
        BY <4>1
    <3> QED
      BY <3>1, <3>2
  <2> HIDE DEF N
  <2> QED
    BY <2>1, <2>2, NatSetInduction
<1>7. PICK P, e : Good(12, P, e)
  BY <1>6
<1> QED
  BY <1>1, <1>7

\* The states that a piece of no write, of one or of two passes through.
LEMMA StepsNone == ASSUME NEW from PROVE LastOf(from, <<>>) = from /\ StepsOf(from, <<>>) = {from}
  BY DEF LastOf, StepsOf

\* See StepsNone.
LEMMA StepsOne ==
    ASSUME NEW from, NEW op, NEW y, NEW s, NEW p, p = <<Because(op, s, y)>>
    PROVE  LastOf(from, p) = s /\ StepsOf(from, p) = {from, s}
<1> DEFINE w == Because(op, s, y)
<1>1. w.to = s /\ p = <<w>>
  BY DEF Because
<1> HIDE DEF w
<1>2. Len(p) = 1 /\ p[1] = w /\ p # <<>> /\ DOMAIN p = {1}
  BY <1>1
<1> QED
  BY <1>1, <1>2 DEF LastOf, StepsOf

\* See StepsNone.
LEMMA StepsTwo ==
    ASSUME NEW from, NEW op, NEW y, NEW s, NEW t, NEW p, p = <<Because(op, s, y), Because(op, t, y)>>
    PROVE  LastOf(from, p) = t /\ StepsOf(from, p) = {from, s, t}
<1> DEFINE w == Because(op, s, y)
           v == Because(op, t, y)
<1>1. w.to = s /\ v.to = t /\ p = <<w, v>>
  BY DEF Because
<1> HIDE DEF w, v
<1>2. Len(p) = 2 /\ p[1] = w /\ p[2] = v /\ p # <<>> /\ DOMAIN p = {1, 2}
  BY <1>1
<1> QED
  BY <1>1, <1>2 DEF LastOf, StepsOf

\* The piece that writes a row, by its row.
LEMMA ByRow ==
    ASSUME NEW ok, NEW d \in Rows, NEW o, Order(o), NEW ss, NEW y,
           \A i \in 1..12 : Piece(ok, d.row[o[i]], o[i], y, ss[i]),
           NEW x, Midway(d, o, ss, x), NEW i \in 1..12
    PROVE  x.row[o[i]] \in StepsOf(d.row[o[i]], ss[i])
<1> DEFINE from == d.row[o[i]]
           p == ss[i]
<1>1. Piece(ok, from, o[i], y, p)
  OBVIOUS
<1>2. from \in StepsOf(from, p)
  BY DEF StepsOf
<1>3. LastOf(from, p) \in StepsOf(from, p)
  <2>1. CASE p = <<>>
    BY <1>2, <2>1 DEF LastOf
  <2>2. ASSUME NEW t, p = <<Because(o[i], t, y)>> PROVE LastOf(from, p) \in StepsOf(from, p)
    <3> HIDE DEF from, p
    <3>1. LastOf(from, p) = t /\ StepsOf(from, p) = {from, t}
      BY <2>2, StepsOne
    <3> QED
      BY <3>1
  <2>3. ASSUME NEW z, NEW t, p = <<Because(o[i], z, y), Because(o[i], t, y)>>
        PROVE  LastOf(from, p) \in StepsOf(from, p)
    <3> HIDE DEF from, p
    <3>1. LastOf(from, p) = t /\ StepsOf(from, p) = {from, z, t}
      BY <2>3, StepsTwo
    <3> QED
      BY <3>1
  <2> HIDE DEF from, p
  <2> QED
    BY <1>1, <2>1, <2>2, <2>3 DEF Piece
<1>4. PICK k \in 0..11 : MidwayAt(d, o, ss, k, x)
  BY DEF Midway
<1>5. i <= k \/ i = k + 1 \/ i > k + 1
  OBVIOUS
<1> QED
  BY <1>2, <1>3, <1>4, <1>5 DEF MidwayAt

\* A loop that holds the rows of a job.
Later(op) ==
    CASE op = "residual" -> {"residualFinal", "dust", "dustFinal"}
      [] op = "residualFinal" -> {"dust", "dustFinal"} [] op = "dust" -> {"dustFinal"} [] OTHER -> {}
AllHeld(d, y, e) == Beside(d, y, e) /\ \A op \in Ops : e.row[op] = IF Live(d, op) THEN "QUARANTINED" ELSE d.row[op]
Holding(d, y, e) ==
    /\ Beside(d, y, e)
    /\ \A op \in Ops : e.row[op] = d.row[op] \/ (Live(d, op) /\ e.row[op] = "QUARANTINED")
    /\ \A op \in WalletOps, l \in Ops : l \in Later(op) /\ e.row[l] # d.row[l] /\ Live(d, op) => e.row[op] = "QUARANTINED"

\* quarantineGroup is accepted, holds every live row, and touches nothing else on the way.
LEMMA Quarantines ==
    ASSUME NEW ok, NEW d \in Rows, NEW y \in {"local", "relay"}
    PROVE  \E P, e : /\ Runs(ok, d, quarantineGroup(d, y), P, e) /\ AllHeld(d, y, e)
                     /\ \A x \in P : Holding(d, y, x)
<1> DEFINE o == ListOrder
           W(op) == IF d.row[op] = "QUARANTINED" THEN <<>> ELSE <<Because(op, "QUARANTINED", y)>>
           ss == [i \in DOMAIN o |-> IF Live(d, o[i]) THEN W(o[i]) ELSE <<>>]
<1>1. quarantineGroup(d, y) = FlattenSeq(ss)
  BY DEF quarantineGroup, ForRows
<1>2. Order(o) /\ DOMAIN o = 1..12
  BY OrdersName, ListRows
<1>3. Len(ss) = 12 /\ \A i \in 1..12 : ss[i] = IF Live(d, o[i]) THEN W(o[i]) ELSE <<>>
  BY <1>2
<1> HIDE DEF ss
<1>4. ASSUME NEW i \in 1..12 PROVE Piece(ok, d.row[o[i]], o[i], y, ss[i])
  <2>1. o[i] \in Ops
    BY <1>2 DEF Order
  <2>2. d.row[o[i]] \in States \cup {None}
    BY <2>1 DEF Rows
  <2>3. Live(d, o[i]) /\ d.row[o[i]] # "QUARANTINED" => Allowed(d.row[o[i]], "QUARANTINED")
    BY <2>2 DEF Live, Allowed, States, Journal!States, Journal!allowedTransitions, terminal, None
  <2>4. "QUARANTINED" \in States
    BY DEF States, Journal!States
  <2> QED
    BY <1>3, <2>3, <2>4 DEF Piece
<1>5. PICK P, e : /\ Runs(ok, d, FlattenSeq(ss), P, e) /\ Beside(d, y, e) /\ DoneTo(d, o, ss, 12, e)
                  /\ \A x \in P : Beside(d, y, x) /\ Midway(d, o, ss, x)
  <2>1. y \in Whys
    BY DEF Whys
  <2>2. Order(o) /\ Len(ss) = 12 /\ \A i \in 1..12 : Piece(ok, d.row[o[i]], o[i], y, ss[i])
    BY <1>2, <1>3, <1>4
  <2> HIDE DEF o, W
  <2> QED
    BY <2>1, <2>2, LoopRuns
<1>6. ASSUME NEW i \in 1..12
      PROVE  /\ LastOf(d.row[o[i]], ss[i]) = IF Live(d, o[i]) THEN "QUARANTINED" ELSE d.row[o[i]]
             /\ \A z \in StepsOf(d.row[o[i]], ss[i]) : z = d.row[o[i]] \/ (Live(d, o[i]) /\ z = "QUARANTINED")
  <2> DEFINE op == o[i]
             from == d.row[op]
  <2>1. CASE ss[i] = <<>>
    <3>1. LastOf(from, ss[i]) = from /\ StepsOf(from, ss[i]) = {from}
      BY <2>1, StepsNone
    <3>2. ~Live(d, o[i]) \/ from = "QUARANTINED"
      <4>1. <<Because(o[i], "QUARANTINED", y)>> # <<>>
        OBVIOUS
      <4> QED
        BY <1>3, <2>1, <4>1
    <3> QED
      BY <3>1, <3>2
  <2>2. CASE ss[i] = <<Because(o[i], "QUARANTINED", y)>>
    <3>1. LastOf(from, ss[i]) = "QUARANTINED" /\ StepsOf(from, ss[i]) = {from, "QUARANTINED"}
      BY <2>2, StepsOne
    <3>2. Live(d, o[i])
      <4>1. ss[i] # <<>>
        BY <2>2
      <4> QED
        BY <1>3, <4>1
    <3> QED
      BY <3>1, <3>2
  <2> QED
    BY <1>3, <2>1, <2>2
<1>7. \A op \in Ops : \E i \in 1..12 : o[i] = op
  BY <1>2 DEF Order
<1>8. AllHeld(d, y, e)
  <2> SUFFICES ASSUME NEW i \in 1..12
               PROVE  e.row[o[i]] = IF Live(d, o[i]) THEN "QUARANTINED" ELSE d.row[o[i]]
    BY <1>5, <1>7 DEF AllHeld
  <2> QED
    BY <1>5, <1>6 DEF DoneTo
<1>9. ASSUME NEW x \in P PROVE Holding(d, y, x)
  <2>1. Beside(d, y, x) /\ Midway(d, o, ss, x)
    BY <1>5
  <2>2. ASSUME NEW op \in Ops PROVE x.row[op] = d.row[op] \/ (Live(d, op) /\ x.row[op] = "QUARANTINED")
    <3>1. PICK i \in 1..12 : o[i] = op
      BY <1>7
    <3>2. x.row[o[i]] \in StepsOf(d.row[o[i]], ss[i])
      BY <1>2, <1>4, <2>1, ByRow
    <3> QED
      BY <1>6, <3>1, <3>2
  <2>3. ASSUME NEW i \in 1..12, NEW k \in 1..12, i < k, x.row[o[k]] # d.row[o[k]], Live(d, o[i])
        PROVE  x.row[o[i]] = "QUARANTINED"
    <3>1. PICK n \in 0..11 : MidwayAt(d, o, ss, n, x)
      BY <2>1 DEF Midway
    <3>2. ~(k > n + 1)
      BY <2>3, <3>1 DEF MidwayAt
    <3>3. i <= n
      BY <2>3, <3>2
    <3> QED
      BY <1>6, <2>3, <3>1, <3>3 DEF MidwayAt
  <2>4. o[2] = "residual" /\ o[3] = "residualFinal" /\ o[4] = "dust" /\ o[5] = "dustFinal"
    BY ListRows DEF ChildRow
  <2>5. ASSUME NEW op \in WalletOps, NEW l \in Ops, l \in Later(op), x.row[l] # d.row[l], Live(d, op)
        PROVE  x.row[op] = "QUARANTINED"
    <3>1. PICK i \in 1..12, k \in 1..12 : i < k /\ o[i] = op /\ o[k] = l
      <4> HIDE DEF o
      <4> QED
        BY <2>4, <2>5, OpsAre DEF Later
    <3> QED
      BY <2>3, <2>5, <3>1
  <2> QED
    BY <2>1, <2>2, <2>5 DEF Holding
<1> QED
  BY <1>1, <1>5, <1>8, <1>9

\* A loop that ends the rows of a job, the settlement last, perhaps by way of another state.
Ended(d, to, op) == IF Live(d, op) THEN to ELSE d.row[op]
AllEnded(d, to, e) == \A op \in Ops : e.row[op] = Ended(d, to, op)
Ending(d, via, to, x) ==
    /\ \A op \in Ops : x.row[op] = d.row[op] \/ (Live(d, op) /\ x.row[op] \in {via, to})
    /\ x.row["settlement"] # d.row["settlement"] => \A op \in Ops \ {"settlement"} : x.row[op] = Ended(d, to, op)
Ends(ok, d, via, to, op, p) ==
    IF Live(d, op)
    THEN \/ p = <<Set(op, to)>> /\ (ok => Allowed(d.row[op], to))
         \/ p = <<Set(op, via), Set(op, to)>> /\ (ok => Allowed(d.row[op], via) /\ Allowed(via, to))
    ELSE p = <<>>

\* A loop in terminalOrder ends every live row, and touches the settlement when all others are done.
LEMMA EndingRuns ==
    ASSUME NEW ok, NEW d \in Rows, NEW via \in States, NEW to \in States, NEW ss, Len(ss) = 12,
           \A i \in 1..12 : Ends(ok, d, via, to, terminalOrder[i], ss[i])
    PROVE  \E P, e : /\ Runs(ok, d, FlattenSeq(ss), P, e) /\ Beside(d, None, e) /\ AllEnded(d, to, e)
                     /\ \A x \in P : Beside(d, None, x) /\ Ending(d, via, to, x)
<1> DEFINE o == terminalOrder
<1>1. Order(o) /\ \A i \in 1..12 : o[i] \in Ops
  BY OrdersName DEF Order
<1>2. o[12] = "settlement"
  BY TerminalRows
<1>3. \A i \in 1..12 : Ends(ok, d, via, to, o[i], ss[i])
  OBVIOUS
<1> HIDE DEF o
<1>4. ASSUME NEW i \in 1..12
      PROVE  /\ Piece(ok, d.row[o[i]], o[i], None, ss[i])
             /\ LastOf(d.row[o[i]], ss[i]) = Ended(d, to, o[i])
             /\ \A z \in StepsOf(d.row[o[i]], ss[i]) : z = d.row[o[i]] \/ (Live(d, o[i]) /\ z \in {via, to})
  <2> DEFINE op == o[i]
             from == d.row[op]
             p == ss[i]
  <2>1. Ends(ok, d, via, to, op, p) /\ from = d.row[op]
    BY <1>3
  <2>2. \A s : Set(op, s) = Because(op, s, None)
    BY DEF Set, Because
  <2> HIDE DEF op, from, p
  <2>3. CASE ~Live(d, op)
    <3>1. p = <<>>
      BY <2>1, <2>3 DEF Ends
    <3>2. LastOf(from, p) = from /\ StepsOf(from, p) = {from} /\ Piece(ok, from, op, None, p)
      BY <3>1, StepsNone DEF Piece
    <3> QED
      BY <2>1, <2>3, <3>2 DEF Ended, op, from, p
  <2>4. ASSUME Live(d, op), p = <<Because(op, to, None)>>, ok => Allowed(from, to)
        PROVE  /\ Piece(ok, from, op, None, p) /\ LastOf(from, p) = Ended(d, to, op)
               /\ \A z \in StepsOf(from, p) : z = from \/ (Live(d, op) /\ z \in {via, to})
    <3>1. LastOf(from, p) = to /\ StepsOf(from, p) = {from, to}
      BY <2>4, StepsOne
    <3>2. Piece(ok, from, op, None, p)
      BY <2>4 DEF Piece
    <3> QED
      BY <2>4, <3>1, <3>2 DEF Ended
  <2>5. ASSUME Live(d, op), p = <<Because(op, via, None), Because(op, to, None)>>,
               ok => Allowed(from, via) /\ Allowed(via, to)
        PROVE  /\ Piece(ok, from, op, None, p) /\ LastOf(from, p) = Ended(d, to, op)
               /\ \A z \in StepsOf(from, p) : z = from \/ (Live(d, op) /\ z \in {via, to})
    <3>1. LastOf(from, p) = to /\ StepsOf(from, p) = {from, via, to}
      BY <2>5, StepsTwo
    <3>2. Piece(ok, from, op, None, p)
      BY <2>5 DEF Piece
    <3> QED
      BY <2>5, <3>1, <3>2 DEF Ended
  <2>6. CASE Live(d, op)
    <3>1. \/ p = <<Because(op, to, None)>> /\ (ok => Allowed(from, to))
          \/ p = <<Because(op, via, None), Because(op, to, None)>> /\ (ok => Allowed(from, via) /\ Allowed(via, to))
      BY <2>1, <2>2, <2>6 DEF Ends
    <3>2. /\ Piece(ok, from, op, None, p) /\ LastOf(from, p) = Ended(d, to, op)
          /\ \A z \in StepsOf(from, p) : z = from \/ (Live(d, op) /\ z \in {via, to})
      BY <2>4, <2>5, <2>6, <3>1
    <3> QED
      BY <3>2 DEF op, from, p
  <2> QED
    BY <2>3, <2>6
<1>5. PICK P, e : /\ Runs(ok, d, FlattenSeq(ss), P, e) /\ Beside(d, None, e) /\ DoneTo(d, o, ss, 12, e)
                  /\ \A x \in P : Beside(d, None, x) /\ Midway(d, o, ss, x)
  <2>1. None \in Whys
    BY DEF Whys
  <2>2. \A i \in 1..12 : Piece(ok, d.row[o[i]], o[i], None, ss[i])
    BY <1>4
  <2> QED
    BY <1>1, <2>1, <2>2, LoopRuns
<1>6. \A op \in Ops : \E i \in 1..12 : o[i] = op
  BY <1>1 DEF Order
<1>7. AllEnded(d, to, e)
  <2> SUFFICES ASSUME NEW i \in 1..12 PROVE e.row[o[i]] = Ended(d, to, o[i])
    BY <1>6 DEF AllEnded
  <2>1. e.row[o[i]] = LastOf(d.row[o[i]], ss[i])
    BY <1>5, DoneInAll
  <2> QED
    BY <1>4, <2>1
<1>8. ASSUME NEW x \in P PROVE Ending(d, via, to, x)
  <2>1. Midway(d, o, ss, x)
    BY <1>5
  <2>2. ASSUME NEW op \in Ops PROVE x.row[op] = d.row[op] \/ (Live(d, op) /\ x.row[op] \in {via, to})
    <3>1. PICK i \in 1..12 : o[i] = op
      BY <1>6
    <3>2. x.row[o[i]] \in StepsOf(d.row[o[i]], ss[i])
      BY <1>1, <1>4, <2>1, ByRow
    <3> QED
      BY <1>4, <3>1, <3>2
  <2>3. ASSUME x.row["settlement"] # d.row["settlement"], NEW op \in Ops \ {"settlement"}
        PROVE  x.row[op] = Ended(d, to, op)
    <3>1. PICK i \in 1..12 : o[i] = op
      BY <1>6
    <3>2. PICK k \in 0..11 : MidwayAt(d, o, ss, k, x)
      BY <2>1 DEF Midway
    <3>3. k = 11
      <4>1. 12 \in 1..12 /\ (12 > k + 1 => x.row[o[12]] = d.row[o[12]])
        BY <3>2 DEF MidwayAt
      <4> QED
        BY <1>2, <2>3, <4>1
    <3>4. i <= 11
      BY <1>2, <3>1
    <3> QED
      BY <1>4, <3>1, <3>2, <3>3, <3>4 DEF MidwayAt
  <2> QED
    BY <2>2, <2>3 DEF Ending
<1> QED
  BY <1>5, <1>7, <1>8

\* The pieces ss of a loop over the rows in the order o take each row to last, by steps.
Looped(ok, d, o, y, ss, last, steps) ==
    /\ Order(o) /\ Len(ss) = 12
    /\ \A i \in 1..12 : /\ Piece(ok, d.row[o[i]], o[i], y, ss[i])
                        /\ LastOf(d.row[o[i]], ss[i]) = last[o[i]]
                        /\ StepsOf(d.row[o[i]], ss[i]) \subseteq steps[o[i]]
RowByRow(ok, d, y, ws, last, steps) ==
    \E P, e : /\ Runs(ok, d, ws, P, e) /\ Beside(d, y, e) /\ \A op \in Ops : e.row[op] = last[op]
              /\ \A x \in P : Beside(d, y, x) /\ \A op \in Ops : x.row[op] \in steps[op]

\* What a loop makes of each row, whatever its order.
LEMMA LoopByRow ==
    ASSUME NEW ok, NEW d \in Rows, NEW o, NEW y \in Whys, NEW ss, NEW last, NEW steps,
           Looped(ok, d, o, y, ss, last, steps)
    PROVE  RowByRow(ok, d, y, FlattenSeq(ss), last, steps)
<1>0. /\ Order(o) /\ Len(ss) = 12
      /\ \A i \in 1..12 : Piece(ok, d.row[o[i]], o[i], y, ss[i])
      /\ \A i \in 1..12 : /\ LastOf(d.row[o[i]], ss[i]) = last[o[i]]
                          /\ StepsOf(d.row[o[i]], ss[i]) \subseteq steps[o[i]]
  BY DEF Looped
<1>1. PICK P, e : /\ Runs(ok, d, FlattenSeq(ss), P, e) /\ Beside(d, y, e) /\ DoneTo(d, o, ss, 12, e)
                  /\ \A x \in P : Beside(d, y, x) /\ Midway(d, o, ss, x)
  BY <1>0, LoopRuns
<1>2. \A op \in Ops : \E i \in 1..12 : o[i] = op
  BY <1>0 DEF Order
<1>3. ASSUME NEW op \in Ops PROVE e.row[op] = last[op]
  <2>1. PICK i \in 1..12 : o[i] = op
    BY <1>2
  <2> QED
    <3>1. e.row[o[i]] = LastOf(d.row[o[i]], ss[i])
      BY <1>1, DoneInAll
    <3> QED
      BY <1>0, <2>1, <3>1
<1>4. ASSUME NEW x \in P, NEW op \in Ops PROVE x.row[op] \in steps[op]
  <2>1. PICK i \in 1..12 : o[i] = op
    BY <1>2
  <2>2. x.row[o[i]] \in StepsOf(d.row[o[i]], ss[i])
    <3>1. Midway(d, o, ss, x)
      BY <1>1
    <3> QED
      BY <1>0, <3>1, ByRow
  <2> QED
    BY <1>0, <2>1, <2>2
<1> QED
  BY <1>1, <1>3, <1>4 DEF RowByRow

-----------------------------------------------------------------------------
(* What the marks of the journal make of a job.                            *)

Closing(d, via, to, f, x) ==
    /\ x \in Rows /\ x.receipt = d.receipt /\ x.why = d.why /\ d.art \subseteq x.art
    /\ Ending(d, via, to, x) /\ x.fee \in {d.fee, f} /\ (x.fee # d.fee => AllEnded(d, to, x))
Closed(d, to, f, e) ==
    /\ e \in Rows /\ e.receipt = d.receipt /\ e.why = d.why /\ d.art \subseteq e.art
    /\ AllEnded(d, to, e) /\ e.fee = f
FeeTo(f, to) == IF to = "RESERVED" \/ f = "RESERVED" THEN to ELSE f

\* The rows of a job end, and then its reservation.
LEMMA EndingWithFee ==
    ASSUME NEW ok, NEW d \in Rows, NEW via \in States, NEW to \in States, NEW ss, Len(ss) = 12,
           \A i \in 1..12 : Ends(ok, d, via, to, terminalOrder[i], ss[i]), NEW f \in Fees
    PROVE  \E P, e : /\ Runs(ok, d, FlattenSeq(ss) \o <<Fee(f)>>, P, e) /\ Closed(d, to, FeeTo(d.fee, f), e)
                     /\ \A x \in P : Closing(d, via, to, FeeTo(d.fee, f), x)
<1>1. PICK P, e : /\ Runs(ok, d, FlattenSeq(ss), P, e) /\ Beside(d, None, e) /\ AllEnded(d, to, e)
                  /\ \A x \in P : Beside(d, None, x) /\ Ending(d, via, to, x)
  BY EndingRuns
<1>2. e \in Rows /\ e.fee = d.fee /\ e \in P
  BY <1>1 DEF Beside, Runs
<1> DEFINE g == Put(e, Fee(f))
<1>3. /\ Fee(f) \in Writes /\ g = [e EXCEPT !.fee = IF f = "RESERVED" \/ @ = "RESERVED" THEN f ELSE @]
      /\ g \in Rows /\ Accepted(e, Fee(f))
  BY <1>2, PutFee
<1>4. g.row = e.row /\ g.art = e.art /\ g.receipt = e.receipt /\ g.why = e.why /\ g.fee = FeeTo(d.fee, f)
  BY <1>2, <1>3 DEF Rows, FeeTo
<1>5. Runs(ok, e, <<Fee(f)>>, {e, g}, g)
  BY <1>3, RunsOne
<1> HIDE DEF g
<1>6. Runs(ok, d, FlattenSeq(ss) \o <<Fee(f)>>, P \cup {e, g}, g)
  BY <1>1, <1>5, RunsBoth
<1>7. \A x \in P : Closing(d, via, to, FeeTo(d.fee, f), x)
  BY <1>1 DEF Beside, Closing
<1>8. Closed(d, to, FeeTo(d.fee, f), g)
  BY <1>1, <1>3, <1>4 DEF Beside, Closed, AllEnded
<1>9. Closing(d, via, to, FeeTo(d.fee, f), g)
  <2>1. Ending(d, via, to, g)
    BY <1>1, <1>2, <1>4 DEF Ending
  <2> QED
    BY <1>8, <2>1 DEF Closed, Closing
<1>10. \A x \in P \cup {e, g} : Closing(d, via, to, FeeTo(d.fee, f), x)
  BY <1>2, <1>7, <1>9
<1> QED
  BY <1>6, <1>8, <1>10

\* markReverted: every row that is not terminal is reverted, then the reservation is released.
Revertible(d) == \A op \in Ops : Live(d, op) => d.row[op] # "RELAY_SUBMITTED"
\* markReverted is accepted of rows that no relay submitted, and reverts every live one.
LEMMA MarkReverted ==
    ASSUME NEW ok, NEW d \in Rows, ok => Revertible(d)
    PROVE  \E P, e : /\ Runs(ok, d, markReverted(d), P, e) /\ Closed(d, "REVERTED", FeeTo(d.fee, "RELEASED"), e)
                     /\ \A x \in P : Closing(d, "REVERTING", "REVERTED", FeeTo(d.fee, "RELEASED"), x)
<1> DEFINE o == terminalOrder
           ss == [i \in DOMAIN o |-> IF Live(d, o[i]) THEN RevertRow(d, o[i]) ELSE <<>>]
<1>1. markReverted(d) = FlattenSeq(ss) \o <<Fee("RELEASED")>>
  BY DEF markReverted, ForRows
<1>2. Order(o) /\ DOMAIN o = 1..12 /\ \A i \in 1..12 : o[i] \in Ops
  BY OrdersName, TerminalRows DEF Order
<1>3. Len(ss) = 12 /\ \A i \in 1..12 : ss[i] = IF Live(d, o[i]) THEN RevertRow(d, o[i]) ELSE <<>>
  BY <1>2
<1> HIDE DEF ss
<1>4. ASSUME NEW op \in Ops, NEW p, p = IF Live(d, op) THEN RevertRow(d, op) ELSE <<>>
      PROVE  Ends(ok, d, "REVERTING", "REVERTED", op, p)
  <2>1. d.row[op] \in States \cup {None}
    BY DEF Rows
  <2>2. ok => (Live(d, op) => d.row[op] # "RELAY_SUBMITTED")
    BY DEF Revertible
  <2>3. Allowed("REVERTING", "REVERTED")
    BY DEF Allowed, States, Journal!States, Journal!allowedTransitions
  <2>4. CASE Live(d, op) /\ d.row[op] \in {"QUARANTINED", "REVERTING"}
    <3>1. Allowed(d.row[op], "REVERTED")
      BY <2>4 DEF Allowed, States, Journal!States, Journal!allowedTransitions
    <3> QED
      BY <1>4, <2>4, <3>1 DEF Ends, RevertRow
  <2>5. CASE Live(d, op) /\ d.row[op] \notin {"QUARANTINED", "REVERTING"}
    <3>1. ok => Allowed(d.row[op], "REVERTING")
      BY <2>1, <2>2, <2>5 DEF Live, terminal, None, Allowed, States, Journal!States, Journal!allowedTransitions
    <3> QED
      BY <1>4, <2>3, <2>5, <3>1 DEF Ends, RevertRow
  <2> QED
    BY <1>4, <2>4, <2>5 DEF Ends
<1>5. "REVERTING" \in States /\ "REVERTED" \in States /\ "RELEASED" \in Fees
  BY DEF States, Journal!States, Fees
<1>6. \A i \in 1..12 : Ends(ok, d, "REVERTING", "REVERTED", o[i], ss[i])
  BY <1>2, <1>3, <1>4
<1> DEFINE via == "REVERTING"
           to == "REVERTED"
           f == "RELEASED"
<1>7. Len(ss) = 12 /\ via \in States /\ to \in States /\ f \in Fees
      /\ \A i \in 1..12 : Ends(ok, d, via, to, terminalOrder[i], ss[i])
  BY <1>3, <1>5, <1>6
<1> HIDE DEF via, to, f
<1>8. \E P, e : /\ Runs(ok, d, FlattenSeq(ss) \o <<Fee(f)>>, P, e) /\ Closed(d, to, FeeTo(d.fee, f), e)
                /\ \A x \in P : Closing(d, via, to, FeeTo(d.fee, f), x)
  BY <1>7, EndingWithFee
<1> QED
  BY <1>1, <1>8 DEF via, to, f

\* markFailed: every row that is not terminal fails.
LEMMA MarkFailed ==
    ASSUME NEW ok, NEW d \in Rows, ok => Failable(d)
    PROVE  \E P, e : /\ Runs(ok, d, markFailed(d), P, e) /\ Closed(d, "FAILED", d.fee, e)
                     /\ \A x \in P : Closing(d, "FAILED", "FAILED", d.fee, x)
<1> DEFINE o == terminalOrder
           ss == [i \in DOMAIN o |-> IF Live(d, o[i]) THEN <<Set(o[i], "FAILED")>> ELSE <<>>]
<1>1. markFailed(d) = FlattenSeq(ss)
  BY DEF markFailed, ForRows
<1>2. Order(o) /\ DOMAIN o = 1..12 /\ \A i \in 1..12 : o[i] \in Ops
  BY OrdersName, TerminalRows DEF Order
<1>3. Len(ss) = 12 /\ \A i \in 1..12 : ss[i] = IF Live(d, o[i]) THEN <<Set(o[i], "FAILED")>> ELSE <<>>
  BY <1>2
<1> HIDE DEF ss
<1>4. ASSUME NEW op \in Ops, NEW p, p = IF Live(d, op) THEN <<Set(op, "FAILED")>> ELSE <<>>
      PROVE  Ends(ok, d, "FAILED", "FAILED", op, p)
  <2>1. ok => (Live(d, op) => Allowed(d.row[op], "FAILED"))
    BY DEF Failable, Allowed, States, Journal!States, Journal!allowedTransitions
  <2> QED
    BY <1>4, <2>1 DEF Ends
<1>5. "FAILED" \in States
  BY DEF States, Journal!States
<1>6. \A i \in 1..12 : Ends(ok, d, "FAILED", "FAILED", o[i], ss[i])
  BY <1>2, <1>3, <1>4
<1>7. PICK P, e : /\ Runs(ok, d, FlattenSeq(ss), P, e) /\ Beside(d, None, e) /\ AllEnded(d, "FAILED", e)
                  /\ \A x \in P : Beside(d, None, x) /\ Ending(d, "FAILED", "FAILED", x)
  BY <1>3, <1>5, <1>6, EndingRuns
<1> QED
  BY <1>1, <1>7 DEF Beside, Closed, Closing

\* Two writes, one after the other.
LEMMA PairOf ==
    ASSUME NEW W, NEW u \in W, NEW v \in W PROVE <<u>> \o <<v>> = <<u, v>> /\ <<>> \o <<v>> = <<v>>
<1> DEFINE a == <<u>>
           b == <<v>>
           c == <<u, v>>
<1>1. /\ a \in Seq(W) /\ Len(a) = 1 /\ a[1] = u /\ b \in Seq(W) /\ Len(b) = 1 /\ b[1] = v
      /\ c \in Seq(W) /\ Len(c) = 2 /\ c[1] = u /\ c[2] = v
  OBVIOUS
<1> HIDE DEF a, b, c
<1>2. a \o b \in Seq(W) /\ Len(a \o b) = 2 /\ (a \o b)[1] = u /\ (a \o b)[2] = v
  BY <1>1, ConcatProperties
<1>3. \A i \in 1..2 : (a \o b)[i] = c[i]
  BY <1>1, <1>2
<1>4. a \o b = c
  BY <1>1, <1>2, <1>3, SeqEqual
<1>5. <<>> \o b = b
  BY <1>1, ConcatEmptySeq
<1> QED
  BY <1>4, <1>5 DEF a, b, c

\* markSettled: every row that is not terminal is settled, then the reservation is spent.
Settleable(d) ==
    \A op \in Ops : Live(d, op) => d.row[op] \in {"AWAITING_RELAY", "RELAY_SUBMITTED", "CONFIRMING", "QUARANTINED"}
\* markSettled is accepted of rows that are with the relay, and settles every live one.
LEMMA MarkSettled ==
    ASSUME NEW ok, NEW d \in Rows, ok => Settleable(d)
    PROVE  \E P, e : /\ Runs(ok, d, markSettled(d), P, e) /\ Closed(d, "SETTLED", FeeTo(d.fee, "SPENT"), e)
                     /\ \A x \in P : Closing(d, "RELAY_SUBMITTED", "SETTLED", FeeTo(d.fee, "SPENT"), x)
<1> DEFINE o == terminalOrder
           W(op) == (IF d.row[op] = "AWAITING_RELAY" THEN <<Set(op, "RELAY_SUBMITTED")>> ELSE <<>>)
                      \o <<Set(op, "SETTLED")>>
           ss == [i \in DOMAIN o |-> IF Live(d, o[i]) THEN W(o[i]) ELSE <<>>]
<1>1. markSettled(d) = FlattenSeq(ss) \o <<Fee("SPENT")>>
  BY DEF markSettled, ForRows
<1>2. Order(o) /\ DOMAIN o = 1..12 /\ \A i \in 1..12 : o[i] \in Ops
  BY OrdersName, TerminalRows DEF Order
<1>3. Len(ss) = 12 /\ \A i \in 1..12 : ss[i] = IF Live(d, o[i]) THEN W(o[i]) ELSE <<>>
  BY <1>2
<1> HIDE DEF ss
<1>4. ASSUME NEW op \in Ops, NEW p, p = IF Live(d, op) THEN W(op) ELSE <<>>
      PROVE  Ends(ok, d, "RELAY_SUBMITTED", "SETTLED", op, p)
  <2>1. ok => (Live(d, op) => d.row[op] \in {"AWAITING_RELAY", "RELAY_SUBMITTED", "CONFIRMING", "QUARANTINED"})
    BY DEF Settleable
  <2>2. Allowed("RELAY_SUBMITTED", "SETTLED") /\ Allowed("AWAITING_RELAY", "RELAY_SUBMITTED")
    BY DEF Allowed, States, Journal!States, Journal!allowedTransitions
  <2>3. CASE Live(d, op) /\ d.row[op] = "AWAITING_RELAY"
    <3>1. W(op) = <<Set(op, "RELAY_SUBMITTED"), Set(op, "SETTLED")>>
      <4>1. W(op) = <<Set(op, "RELAY_SUBMITTED")>> \o <<Set(op, "SETTLED")>>
        BY <2>3
      <4>2. Set(op, "RELAY_SUBMITTED") \in {Set(op, "RELAY_SUBMITTED"), Set(op, "SETTLED")}
            /\ Set(op, "SETTLED") \in {Set(op, "RELAY_SUBMITTED"), Set(op, "SETTLED")}
        OBVIOUS
      <4> QED
        BY <4>1, <4>2, PairOf
    <3> QED
      BY <1>4, <2>2, <2>3, <3>1 DEF Ends
  <2>4. CASE Live(d, op) /\ d.row[op] # "AWAITING_RELAY"
    <3>1. W(op) = <<Set(op, "SETTLED")>>
      BY <2>4
    <3>2. ok => Allowed(d.row[op], "SETTLED")
      BY <2>1, <2>4 DEF Allowed, States, Journal!States, Journal!allowedTransitions
    <3> QED
      BY <1>4, <2>4, <3>1, <3>2 DEF Ends
  <2> QED
    BY <1>4, <2>3, <2>4 DEF Ends
<1>5. "RELAY_SUBMITTED" \in States /\ "SETTLED" \in States /\ "SPENT" \in Fees
  BY DEF States, Journal!States, Fees
<1>6. \A i \in 1..12 : Ends(ok, d, "RELAY_SUBMITTED", "SETTLED", o[i], ss[i])
  BY <1>2, <1>3, <1>4
<1> DEFINE via == "RELAY_SUBMITTED"
           to == "SETTLED"
           f == "SPENT"
<1>7. Len(ss) = 12 /\ via \in States /\ to \in States /\ f \in Fees
      /\ \A i \in 1..12 : Ends(ok, d, via, to, terminalOrder[i], ss[i])
  BY <1>3, <1>5, <1>6
<1> HIDE DEF via, to, f
<1>8. \E P, e : /\ Runs(ok, d, FlattenSeq(ss) \o <<Fee(f)>>, P, e) /\ Closed(d, to, FeeTo(d.fee, f), e)
                /\ \A x \in P : Closing(d, via, to, FeeTo(d.fee, f), x)
  BY <1>7, EndingWithFee
<1> QED
  BY <1>1, <1>8 DEF via, to, f

\* markAwaitingRelay: every row that is not terminal awaits the relay, a prepared one by way of APPLIED.
Awaitable(d) == \A op \in Ops : Live(d, op) => d.row[op] \in {"PREPARED", "APPLIED"}
Waits(d, op) == IF Live(d, op) THEN "AWAITING_RELAY" ELSE d.row[op]
\* markAwaitingRelay is accepted of prepared and applied rows, and has every live one await the relay.
LEMMA MarkAwaitingRelay ==
    ASSUME NEW ok, NEW d \in Rows, ok => Awaitable(d)
    PROVE  \E P, e : /\ Runs(ok, d, markAwaitingRelay(d), P, e) /\ Beside(d, None, e)
                     /\ \A op \in Ops : e.row[op] = Waits(d, op)
                     /\ \A x \in P : /\ Beside(d, None, x)
                                     /\ \A op \in Ops : \/ x.row[op] = d.row[op]
                                                        \/ Live(d, op) /\ x.row[op] \in {"APPLIED", "AWAITING_RELAY"}
<1> DEFINE o == ListOrder
           W(op) == (IF d.row[op] = "PREPARED" THEN <<Set(op, "APPLIED")>> ELSE <<>>)
                      \o <<Set(op, "AWAITING_RELAY")>>
           ss == [i \in DOMAIN o |-> IF Live(d, o[i]) THEN W(o[i]) ELSE <<>>]
           last == [op \in Ops |-> Waits(d, op)]
           steps == [op \in Ops |-> {d.row[op]} \cup (IF Live(d, op) THEN {"APPLIED", "AWAITING_RELAY"} ELSE {})]
<1>1. markAwaitingRelay(d) = FlattenSeq(ss)
  BY DEF markAwaitingRelay, ForRows
<1>2. Order(o) /\ DOMAIN o = 1..12 /\ \A i \in 1..12 : o[i] \in Ops
  BY OrdersName, ListRows DEF Order
<1>3. Len(ss) = 12 /\ \A i \in 1..12 : ss[i] = IF Live(d, o[i]) THEN W(o[i]) ELSE <<>>
  BY <1>2
<1> HIDE DEF ss
<1>4. ASSUME NEW op \in Ops, NEW from, from = d.row[op], NEW p, p = IF Live(d, op) THEN W(op) ELSE <<>>
      PROVE  Piece(ok, from, op, None, p) /\ LastOf(from, p) = last[op] /\ StepsOf(from, p) \subseteq steps[op]
  <2>1. "APPLIED" \in States /\ "AWAITING_RELAY" \in States
    BY DEF States, Journal!States
  <2>2. ok => (Live(d, op) => from \in {"PREPARED", "APPLIED"})
    BY <1>4 DEF Awaitable
  <2>3. Allowed("APPLIED", "AWAITING_RELAY") /\ Allowed("PREPARED", "APPLIED")
    BY DEF Allowed, States, Journal!States, Journal!allowedTransitions
  <2>4. \A s : Set(op, s) = Because(op, s, None)
    BY DEF Set, Because
  <2> DEFINE u == Because(op, "APPLIED", None)
             v == Because(op, "AWAITING_RELAY", None)
  <2>5. CASE ~Live(d, op)
    <3>1. p = <<>>
      BY <1>4, <2>5
    <3>2. LastOf(from, p) = from /\ StepsOf(from, p) = {from} /\ Piece(ok, from, op, None, p)
      BY <3>1, StepsNone DEF Piece
    <3> QED
      BY <1>4, <2>5, <3>2 DEF Waits
  <2>6. CASE Live(d, op) /\ from = "PREPARED"
    <3>1. p = <<u>> \o <<v>>
      BY <1>4, <2>4, <2>6
    <3>2. p = <<u, v>>
      <4>1. u \in {u, v} /\ v \in {u, v}
        OBVIOUS
      <4> HIDE DEF u, v
      <4> QED
        BY <3>1, <4>1, PairOf
    <3>3. LastOf(from, p) = "AWAITING_RELAY" /\ StepsOf(from, p) = {from, "APPLIED", "AWAITING_RELAY"}
      <4>1. u.to = "APPLIED" /\ v.to = "AWAITING_RELAY"
        BY DEF Because
      <4> HIDE DEF u, v
      <4>2. Len(p) = 2 /\ p[1] = u /\ p[2] = v /\ p # <<>> /\ DOMAIN p = {1, 2}
        BY <3>2
      <4> QED
        BY <4>1, <4>2 DEF LastOf, StepsOf
    <3>4. Piece(ok, from, op, None, p)
      BY <2>1, <2>3, <2>6, <3>2 DEF Piece
    <3> QED
      BY <1>4, <2>6, <3>3, <3>4 DEF Waits
  <2>7. CASE Live(d, op) /\ from # "PREPARED"
    <3>1. p = <<v>>
      <4>1. p = <<>> \o <<v>>
        BY <1>4, <2>4, <2>7
      <4>2. v \in {u, v} /\ u \in {u, v}
        OBVIOUS
      <4> HIDE DEF u, v
      <4> QED
        BY <4>1, <4>2, PairOf
    <3>2. LastOf(from, p) = "AWAITING_RELAY" /\ StepsOf(from, p) = {from, "AWAITING_RELAY"}
      BY <3>1, StepsOne
    <3>3. Piece(ok, from, op, None, p)
      BY <2>1, <2>2, <2>3, <2>7, <3>1 DEF Piece
    <3> QED
      BY <1>4, <2>7, <3>2, <3>3 DEF Waits
  <2> QED
    BY <2>5, <2>6, <2>7
<1>5. None \in Whys
  BY DEF Whys
<1>6. \A i \in 1..12 : /\ Piece(ok, d.row[o[i]], o[i], None, ss[i])
                       /\ LastOf(d.row[o[i]], ss[i]) = last[o[i]] /\ StepsOf(d.row[o[i]], ss[i]) \subseteq steps[o[i]]
  <2> HIDE DEF W, last, steps, o
  <2> QED
    BY <1>2, <1>3, <1>4
<1>7. PICK P, e : /\ Runs(ok, d, FlattenSeq(ss), P, e) /\ Beside(d, None, e) /\ \A op \in Ops : e.row[op] = last[op]
                  /\ \A x \in P : Beside(d, None, x) /\ \A op \in Ops : x.row[op] \in steps[op]
  <2> HIDE DEF W, last, steps, o
  <2>1. Looped(ok, d, o, None, ss, last, steps)
    BY <1>2, <1>3, <1>6 DEF Looped
  <2>2. RowByRow(ok, d, None, FlattenSeq(ss), last, steps)
    BY <1>5, <2>1, LoopByRow
  <2> QED
    BY <2>2 DEF RowByRow
<1> QED
  BY <1>1, <1>7

\* markRelaySubmitted: the receipt of the relay, then every row it moves.
Submitted(d, op) ==
    CASE d.row[op] = "AWAITING_RELAY" -> "RELAY_SUBMITTED" [] d.row[op] = "QUARANTINED" -> "CONFIRMING"
      [] OTHER -> d.row[op]
\* markRelaySubmitted is accepted of any rows, and writes the receipt before it moves them.
LEMMA MarkRelaySubmitted ==
    ASSUME NEW ok, NEW d \in Rows
    PROVE  \E P, e : /\ Runs(ok, d, markRelaySubmitted(d), P, e)
                     /\ e \in Rows /\ e.receipt = "done" /\ e.fee = d.fee /\ e.why = d.why /\ d.art \subseteq e.art
                     /\ \A op \in Ops : e.row[op] = Submitted(d, op)
                     /\ \A x \in P : /\ x \in Rows /\ x.receipt \in {d.receipt, "done"}
                                     /\ x.fee = d.fee /\ x.why = d.why /\ d.art \subseteq x.art
                                     /\ \A op \in Ops : x.row[op] \in {d.row[op], Submitted(d, op)}
                                     /\ x = d \/ x.receipt = "done"
<1> DEFINE o == terminalOrder
           W(op) == CASE d.row[op] = "AWAITING_RELAY" -> <<Set(op, "RELAY_SUBMITTED")>>
                      [] d.row[op] = "QUARANTINED" -> <<Set(op, "CONFIRMING")>>
                      [] OTHER -> <<>>
           ss == [i \in DOMAIN o |-> IF Live(d, o[i]) THEN W(o[i]) ELSE <<>>]
           last == [op \in Ops |-> Submitted(d, op)]
           steps == [op \in Ops |-> {d.row[op], Submitted(d, op)}]
           g == Put(d, Receipt("done"))
<1>1. markRelaySubmitted(d) = <<Receipt("done")>> \o FlattenSeq(ss)
  BY DEF markRelaySubmitted, ForRows
<1>2. Order(o) /\ DOMAIN o = 1..12 /\ \A i \in 1..12 : o[i] \in Ops
  BY OrdersName, TerminalRows DEF Order
<1>3. Len(ss) = 12 /\ \A i \in 1..12 : ss[i] = IF Live(d, o[i]) THEN W(o[i]) ELSE <<>>
  BY <1>2
<1> HIDE DEF ss
<1>4. ASSUME NEW op \in Ops, NEW from, from = d.row[op], NEW p, p = IF Live(d, op) THEN W(op) ELSE <<>>
      PROVE  Piece(ok, from, op, None, p) /\ LastOf(from, p) = last[op] /\ StepsOf(from, p) \subseteq steps[op]
  <2>1. "RELAY_SUBMITTED" \in States /\ "CONFIRMING" \in States
    BY DEF States, Journal!States
  <2>2. Allowed("AWAITING_RELAY", "RELAY_SUBMITTED") /\ Allowed("QUARANTINED", "CONFIRMING")
    BY DEF Allowed, States, Journal!States, Journal!allowedTransitions
  <2>3. \A s : Set(op, s) = Because(op, s, None)
    BY DEF Set, Because
  <2>4. from \in {"AWAITING_RELAY", "QUARANTINED"} => Live(d, op)
    BY <1>4 DEF Live, terminal, None
  <2>5. CASE from \notin {"AWAITING_RELAY", "QUARANTINED"}
    <3>1. p = <<>>
      BY <1>4, <2>5
    <3>2. LastOf(from, p) = from /\ StepsOf(from, p) = {from} /\ Piece(ok, from, op, None, p)
      BY <3>1, StepsNone DEF Piece
    <3> QED
      BY <1>4, <2>5, <3>2 DEF Submitted
  <2>6. CASE from = "AWAITING_RELAY"
    <3>1. p = <<Because(op, "RELAY_SUBMITTED", None)>>
      BY <1>4, <2>3, <2>4, <2>6
    <3>2. LastOf(from, p) = "RELAY_SUBMITTED" /\ StepsOf(from, p) = {from, "RELAY_SUBMITTED"}
      BY <3>1, StepsOne
    <3>3. Piece(ok, from, op, None, p)
      BY <2>1, <2>2, <2>6, <3>1 DEF Piece
    <3> QED
      BY <1>4, <2>6, <3>2, <3>3 DEF Submitted
  <2>7. CASE from = "QUARANTINED"
    <3>1. p = <<Because(op, "CONFIRMING", None)>>
      BY <1>4, <2>3, <2>4, <2>7
    <3>2. LastOf(from, p) = "CONFIRMING" /\ StepsOf(from, p) = {from, "CONFIRMING"}
      BY <3>1, StepsOne
    <3>3. Piece(ok, from, op, None, p)
      BY <2>1, <2>2, <2>7, <3>1 DEF Piece
    <3> QED
      BY <1>4, <2>7, <3>2, <3>3 DEF Submitted
  <2> QED
    BY <2>5, <2>6, <2>7
<1>5. None \in Whys
  BY DEF Whys
<1>6. \A i \in 1..12 : /\ Piece(ok, d.row[o[i]], o[i], None, ss[i])
                       /\ LastOf(d.row[o[i]], ss[i]) = last[o[i]] /\ StepsOf(d.row[o[i]], ss[i]) \subseteq steps[o[i]]
  <2> HIDE DEF W, last, steps, o
  <2> QED
    BY <1>2, <1>3, <1>4
<1>7. /\ Receipt("done") \in Writes /\ g = [d EXCEPT !.receipt = "done"] /\ g \in Rows
      /\ Accepted(d, Receipt("done"))
  BY PutReceipt
<1>8. g.row = d.row /\ g.art = d.art /\ g.receipt = "done" /\ g.why = d.why /\ g.fee = d.fee
  BY <1>7 DEF Rows
<1>9. Runs(ok, d, <<Receipt("done")>>, {d, g}, g)
  BY <1>7, RunsOne
<1> HIDE DEF g
<1>10. PICK P, e : /\ Runs(ok, g, FlattenSeq(ss), P, e) /\ Beside(g, None, e) /\ \A op \in Ops : e.row[op] = last[op]
                   /\ \A x \in P : Beside(g, None, x) /\ \A op \in Ops : x.row[op] \in steps[op]
  <2>1. \A i \in 1..12 : /\ Piece(ok, g.row[o[i]], o[i], None, ss[i])
                         /\ LastOf(g.row[o[i]], ss[i]) = last[o[i]] /\ StepsOf(g.row[o[i]], ss[i]) \subseteq steps[o[i]]
    BY <1>6, <1>8
  <2>2. g \in Rows
    BY <1>7
  <2> HIDE DEF W, last, steps, o
  <2>3. Looped(ok, g, o, None, ss, last, steps)
    BY <1>2, <1>3, <2>1 DEF Looped
  <2>4. RowByRow(ok, g, None, FlattenSeq(ss), last, steps)
    BY <1>5, <2>2, <2>3, LoopByRow
  <2> QED
    BY <2>4 DEF RowByRow
<1>11. Runs(ok, d, <<Receipt("done")>> \o FlattenSeq(ss), {d, g} \cup P, e)
  BY <1>9, <1>10, RunsBoth
<1>12. /\ e \in Rows /\ e.receipt = "done" /\ e.fee = d.fee /\ e.why = d.why /\ d.art \subseteq e.art
       /\ \A op \in Ops : e.row[op] = Submitted(d, op)
  BY <1>8, <1>10 DEF Beside
<1>13. ASSUME NEW x \in {d, g} \cup P
       PROVE  /\ x \in Rows /\ x.receipt \in {d.receipt, "done"}
              /\ x.fee = d.fee /\ x.why = d.why /\ d.art \subseteq x.art
              /\ \A op \in Ops : x.row[op] \in {d.row[op], Submitted(d, op)}
              /\ x = d \/ x.receipt = "done"
  BY <1>7, <1>8, <1>10 DEF Beside
<1> QED
  BY <1>1, <1>11, <1>12, <1>13

-----------------------------------------------------------------------------
(* The invariant.  What is said of a job is said of the rows its pending   *)
(* writes lead to and, where a restart may come between two writes, of     *)
(* every rows they pass through.                                           *)

WritesOf(p, j) == IF p # <<>> /\ p[1].job = j THEN [i \in DOMAIN p |-> p[i].w] ELSE <<>>
Ahead(x, p, j) == After(x[j], WritesOf(p, j))
Via(x, p, j) == Passed(x[j], WritesOf(p, j))

Places == {"none", "building", "awaiting", "confirming", "quarantined", "boot"}
Record == [place : Places, local : BOOLEAN, evid : BOOLEAN, reverting : BOOLEAN,
           refused : BOOLEAN, tx : BOOLEAN, timedOut : BOOLEAN]
Steps == {"none", "read", "addr", "cleanup", "answer"} \cup WalletOps
Build == [pc : Steps, own : SUBSET WalletOps, call : BOOLEAN, failed : SUBSET {"raw", "final"}]
Chain == [at : {"idle", "done", "fail", "revert"}, rec : Record]
Phases == {"boot", "idle", "quarantined", "awaiting", "confirming"}
Answers == {"none", "open", "half", "done", "failed", "error"}

PlanTyped == plan \in Seq([job : Jobs, w : Writes]) /\ \A i \in 1..Len(plan) : plan[i].job = plan[1].job
Typed ==
    /\ db \in [Jobs -> Rows] /\ PlanTyped
    /\ mem \in [Jobs -> Record] /\ todo \in [Jobs -> Record] /\ build \in [Jobs -> Build]
    /\ chain \in [Jobs -> Chain] /\ phase \in Phases /\ busy \in Jobs \cup {Nobody}
    /\ target \in Recoveries \cup {None} /\ (target # None => busy \in Jobs)
    /\ relay \in [Jobs -> Answers]

\* A build that may still call the wallet; a job that no relay will submit any more.
Making(j) == build[j].pc \notin {"none", "answer"}
Dead(r) == r \in {"failed", "error"}
Sent(r) == r \in {"half", "done"}
Gone(j) == Dead(relay[j]) \/ (relay[j] = "open" /\ build[j].pc = "none")
Retrying(j) == busy = j /\ target # None

\* What the journal says of a job whose relay has answered r.
Unsent(e) == e.fee # "SPENT" /\ e.receipt # "done" /\ \A op \in Ops : e.row[op] \notin {"RELAY_SUBMITTED", "CONFIRMING", "SETTLED"}
Owned(e) ==
    /\ relayAmbiguous(e) \/ e.row["settlement"] = "SETTLED"
    /\ ~Artifactless(e) /\ e.fee \in {"RESERVED", "SPENT"}
    /\ "dustFinal" \in e.art /\ (Live(e, "dustFinal") \/ e.receipt = "done")
Truth(e, r) ==
    /\ Sent(r) => Owned(e)
    /\ r = "done" \/ Unsent(e)
    /\ e.receipt = "error" \/ e.row["revert"] # None => Dead(r)
    /\ e.row["revert"] \in {None, "PREPARED", "REVERTING", "REVERTED", "QUARANTINED"}
    /\ e.row["settlement"] \in terminal => \A op \in Ops : ~Live(e, op)
    /\ e.row["settlement"] = None => e.receipt = None /\ \A op \in Ops : e.row[op] = None
    /\ r = "none" => e.row["settlement"] = None
TruthOK(j) == \A e \in Via(db, plan, j) : Truth(e, relay[j])
SendOK(j) == build[j].pc = "answer" /\ relay[j] = "open" => Truth(Ahead(db, plan, j), "half")

FreshOK(j) ==
    LET d == Ahead(db, plan, j)
    IN  d.row["settlement"] = None =>
            /\ mem[j] = NoRecord /\ build[j] = NoBuild /\ chain[j] = Idle
            /\ todo[j] = NoRecord /\ busy # j
BuildOK(j) ==
    /\ build[j].pc \in {"none", "answer"} => build[j] = [NoBuild EXCEPT !.pc = build[j].pc]
    /\ phase = "boot" => build[j].pc = "none"
    /\ build[j].call => build[j].pc = "cleanup" /\ build[j].own # {}
    /\ Making(j) =>
          /\ mem[j].place = "building" /\ ~mem[j].local /\ ~mem[j].reverting
          /\ chain[j] = Idle /\ todo[j] = NoRecord /\ busy # j
          /\ relay[j] = "error" \/ (relay[j] = "open" /\ ~mem[j].timedOut)
\* The rows of a build at b.
MadeRows(d, late, b) ==
    /\ d.row["settlement"] = IF late THEN "QUARANTINED" ELSE "PREPARED"
    /\ d.receipt = None /\ \A op \in Reverts : d.row[op] = None
    /\ b.pc \in {"read", "addr"} => b.own = {} /\ \A op \in WalletOps : d.row[op] = None
    /\ b.pc = "read" => ~late
    /\ b.pc \in WalletOps =>
          /\ d.row[b.pc] = "PREPARED" \/ (late /\ d.row[b.pc] = "QUARANTINED")
          /\ \A op \in WalletOps \ {b.pc} : \/ d.row[op] \in {"APPLIED", None}
                                            \/ late /\ d.row[op] = "QUARANTINED"
          /\ \A op \in Later(b.pc) : d.row[op] = None
    /\ b.pc = "dustFinal" => d.fee = "RESERVED" /\ ("dust" \in d.art)
BuildRows(j) == Making(j) => MadeRows(Ahead(db, plan, j), mem[j].timedOut, build[j])
ChainOK(j) ==
    LET d == Ahead(db, plan, j)
    IN  /\ chain[j].at = "done" =>
              /\ relay[j] = "done" /\ d.receipt = "done"
              /\ \A op \in Ops : Live(d, op) => d.row[op] \in {"RELAY_SUBMITTED", "CONFIRMING"}
        /\ chain[j].at = "fail" => d.receipt = "error" /\ (busy = j \/ ~mem[j].local)
        /\ chain[j].at = "revert" =>
              Dead(relay[j]) /\ mem[j].reverting /\ Live(d, "settlement") /\ d.row["revert"] = "REVERTING"
LocalOK(j) ==
    /\ mem[j].local => Gone(j) /\ mem[j].place # "none"
    /\ todo[j].local => todo[j].place # "none"
    /\ todo[j].place = "boot" => phase = "boot" /\ busy # j /\ mem[j] = NoRecord /\ chain[j] = Idle
RetryOK(j) ==
    LET d == Ahead(db, plan, j)
    IN  Retrying(j) =>
          /\ chain[j].at = "idle" /\ mem[j].local /\ mem[j].reverting
          /\ Live(d, "settlement") /\ d.row[target] = "REVERTING"
          /\ \A k \in Recoveries \ {target} : d.row[k] \in {None, "PREPARED", "REVERTED"}
RevertOK(j) ==
    LET d == Ahead(db, plan, j)
    IN  Live(d, "settlement") =>
          /\ d.row["revert"] = "PREPARED" =>
                /\ phase = "boot" /\ chain[j].at = "idle"
                /\ todo[j].place = "boot" \/ (mem[j].local /\ todo[j].local) \/ Retrying(j)
          /\ d.row["revert"] = "REVERTED" => todo[j].place = "boot"
KeptOK(j) ==
    LET d == Ahead(db, plan, j)
    IN  Live(d, "settlement") =>
          \/ mem[j].place # "none"
          \/ phase = "boot" /\ todo[j].place = "boot"
          \/ phase = "boot" /\ busy = j /\ target = None /\ chain[j].at = "fail"
Accepting == \A j \in Jobs : AllAccepted(db[j], WritesOf(plan, j))
Alive(j) == \E e \in Via(db, plan, j) : Live(e, "settlement")
AliveApart == \A j, k \in Jobs : j # k /\ Alive(j) /\ Alive(k) => Route[j] \cap Route[k] = {}
JobOK(j) ==
    /\ TruthOK(j) /\ SendOK(j) /\ FreshOK(j) /\ BuildOK(j) /\ BuildRows(j)
    /\ ChainOK(j) /\ LocalOK(j) /\ RetryOK(j) /\ RevertOK(j) /\ KeptOK(j)
IInv == Typed /\ Accepting /\ AliveApart /\ \A j \in Jobs : JobOK(j)

-----------------------------------------------------------------------------
(* What a step leaves as it was.                                           *)

\* A section that the journal takes in full.
Takes(d, ws, P, e) == Runs(TRUE, d, ws, P, e)

Same(k) ==
    /\ mem'[k] = mem[k] /\ build'[k] = build[k] /\ chain'[k] = chain[k]
    /\ todo'[k] = todo[k] /\ relay'[k] = relay[k]
    /\ (busy' = k <=> busy = k) /\ (busy = k => target' = target)

\* The first of a sequence and the others.
LEMMA TailOf ==
    ASSUME NEW R, NEW p \in Seq(R), p # <<>>
    PROVE  /\ Len(p) \in Nat \ {0} /\ Head(p) = p[1] /\ p[1] \in R /\ DOMAIN p = 1..Len(p)
           /\ Tail(p) \in Seq(R) /\ Len(Tail(p)) = Len(p) - 1
           /\ \A i \in 1..(Len(p) - 1) : Tail(p)[i] = p[i+1] /\ i + 1 \in 1..Len(p)
           /\ \A i \in 1..Len(p) : p[i] \in R
  BY HeadTailProperties

\* Rows stay rows.
LEMMA PutTyped == ASSUME NEW d \in Rows, NEW w \in Writes PROVE Put(d, w) \in Rows
<1>1. CASE w \in [op : Ops, to : States, why : Whys]
  <2>1. PICK op \in Ops, to \in States, why \in Whys : w = Because(op, to, why)
    BY <1>1 DEF Because
  <2>2. Put(d, Because(op, to, why)) \in Rows
    BY PutRow
  <2> QED
    BY <2>1, <2>2
<1>2. CASE w \in [op : {"receipt"}, to : {"done", "error"}, why : {None}]
  <2>1. w = Receipt(w.to) /\ w.to \in {"done", "error"}
    BY <1>2 DEF Receipt, Set
  <2> QED
    BY <2>1, PutReceipt
<1>3. CASE w \in [op : {"fee"}, to : Fees, why : {None}]
  <2>1. w = Fee(w.to) /\ w.to \in Fees
    BY <1>3 DEF Fee, Set
  <2> QED
    BY <2>1, PutFee
<1> QED
  BY <1>1, <1>2, <1>3 DEF Writes

\* A job that no step concerns keeps its invariant, whatever writes it still had.
LEMMA JobFrame ==
    ASSUME NEW k, JobOK(k), Same(k), phase' = phase, Ahead(db, plan, k)' = Ahead(db, plan, k),
           Via(db, plan, k)' \subseteq Via(db, plan, k)
    PROVE  JobOK(k)'
<1> USE DEF Same
<1>1. TruthOK(k)'
  BY DEF JobOK, TruthOK
<1>2. SendOK(k)' /\ FreshOK(k)' /\ BuildOK(k)'
  BY DEF JobOK, SendOK, FreshOK, BuildOK, Making
<1>3. BuildRows(k)'
  BY DEF JobOK, BuildRows, Making
<1>4. ChainOK(k)' /\ LocalOK(k)'
  BY DEF JobOK, ChainOK, LocalOK, Gone
<1>5. RetryOK(k)'
  BY DEF JobOK, RetryOK, Retrying
<1>6. RevertOK(k)' /\ KeptOK(k)'
  BY DEF JobOK, RevertOK, KeptOK, Retrying
<1> QED
  BY <1>1, <1>2, <1>3, <1>4, <1>5, <1>6 DEF JobOK

\* Nothing is written.
LEMMA Still ==
    ASSUME NEW x, NEW k
    PROVE  /\ WritesOf(<<>>, k) = <<>> /\ Ahead(x, <<>>, k) = x[k] /\ Via(x, <<>>, k) = {x[k]}
           /\ AllAccepted(x[k], WritesOf(<<>>, k))
<1>1. WritesOf(<<>>, k) = <<>>
  BY DEF WritesOf
<1>2. Ahead(x, <<>>, k) = x[k]
  BY <1>1, AfterNone DEF Ahead
<1>3. AllAccepted(x[k], WritesOf(<<>>, k))
  BY <1>1 DEF AllAccepted
<1>4. SubSeq(<<>>, 1, 0) = <<>> /\ Len(<<>>) = 0 /\ 0..0 = {0}
  OBVIOUS
<1>5. At(x[k], <<>>, 0) = x[k]
  BY <1>4, AfterNone DEF At
<1>6. Via(x, <<>>, k) = {At(x[k], <<>>, n) : n \in {0}}
  BY <1>1, <1>4 DEF Via, Passed
<1> QED
  BY <1>1, <1>2, <1>3, <1>5, <1>6

\* A section of no writes.
LEMMA TakesNone == ASSUME NEW d PROVE Takes(d, <<>>, {d}, d)
  BY RunsNone DEF Takes
\* One write that the journal accepts.
LEMMA TakesOne == ASSUME NEW d, NEW w \in Writes, Accepted(d, w) PROVE Takes(d, <<w>>, {d, Put(d, w)}, Put(d, w))
  BY RunsOne DEF Takes
\* One section after another.
LEMMA TakesBoth ==
    ASSUME NEW d, NEW a, NEW P, NEW e, Takes(d, a, P, e), NEW b, NEW Q, NEW f, Takes(e, b, Q, f)
    PROVE  Takes(d, a \o b, P \cup Q, f)
  BY RunsBoth DEF Takes
\* quarantineGroup, as a section.
LEMMA TakesHold ==
    ASSUME NEW d \in Rows, NEW y \in {"local", "relay"}
    PROVE  \E P, e : /\ Takes(d, quarantineGroup(d, y), P, e) /\ AllHeld(d, y, e)
                     /\ \A x \in P : Holding(d, y, x)
  BY Quarantines DEF Takes
\* markReverted, as a section.
LEMMA TakesReverted ==
    ASSUME NEW d \in Rows, Revertible(d)
    PROVE  \E P, e : /\ Takes(d, markReverted(d), P, e) /\ Closed(d, "REVERTED", FeeTo(d.fee, "RELEASED"), e)
                     /\ \A x \in P : Closing(d, "REVERTING", "REVERTED", FeeTo(d.fee, "RELEASED"), x)
  BY MarkReverted DEF Takes
\* markFailed, as a section.
LEMMA TakesFailed ==
    ASSUME NEW d \in Rows, Failable(d)
    PROVE  \E P, e : /\ Takes(d, markFailed(d), P, e) /\ Closed(d, "FAILED", d.fee, e)
                     /\ \A x \in P : Closing(d, "FAILED", "FAILED", d.fee, x)
  BY MarkFailed DEF Takes
\* markSettled, as a section.
LEMMA TakesSettled ==
    ASSUME NEW d \in Rows, Settleable(d)
    PROVE  \E P, e : /\ Takes(d, markSettled(d), P, e) /\ Closed(d, "SETTLED", FeeTo(d.fee, "SPENT"), e)
                     /\ \A x \in P : Closing(d, "RELAY_SUBMITTED", "SETTLED", FeeTo(d.fee, "SPENT"), x)
  BY MarkSettled DEF Takes
\* markAwaitingRelay, as a section.
LEMMA TakesAwaiting ==
    ASSUME NEW d \in Rows, Awaitable(d)
    PROVE  \E P, e : /\ Takes(d, markAwaitingRelay(d), P, e) /\ Beside(d, None, e)
                     /\ \A op \in Ops : e.row[op] = Waits(d, op)
                     /\ \A x \in P : /\ Beside(d, None, x)
                                     /\ \A op \in Ops : \/ x.row[op] = d.row[op]
                                                        \/ Live(d, op) /\ x.row[op] \in {"APPLIED", "AWAITING_RELAY"}
  BY MarkAwaitingRelay DEF Takes
\* markRelaySubmitted, as a section.
LEMMA TakesSubmitted ==
    ASSUME NEW d \in Rows
    PROVE  \E P, e : /\ Takes(d, markRelaySubmitted(d), P, e)
                     /\ e \in Rows /\ e.receipt = "done" /\ e.fee = d.fee /\ e.why = d.why /\ d.art \subseteq e.art
                     /\ \A op \in Ops : e.row[op] = Submitted(d, op)
                     /\ \A x \in P : /\ x \in Rows /\ x.receipt \in {d.receipt, "done"}
                                     /\ x.fee = d.fee /\ x.why = d.why /\ d.art \subseteq x.art
                                     /\ \A op \in Ops : x.row[op] \in {d.row[op], Submitted(d, op)}
                                     /\ x = d \/ x.receipt = "done"
  BY MarkRelaySubmitted DEF Takes

\* What a handler plans for a job is what is written of it, and of it alone.
LEMMA Planned ==
    ASSUME NEW j \in Jobs, NEW ws, Plan(j, ws), NEW P, NEW e, Takes(db[j], ws, P, e)
    PROVE  /\ plan' \in Seq([job : Jobs, w : Writes]) /\ \A i \in 1..Len(plan') : plan'[i].job = plan'[1].job
           /\ Ahead(db, plan', j) = e /\ Via(db, plan', j) \subseteq P
           /\ AllAccepted(db[j], WritesOf(plan', j))
           /\ \A k \in Jobs \ {j} : WritesOf(plan', k) = <<>>
<1>1. /\ ws \in Seq(Writes) /\ e = After(db[j], ws) /\ Passed(db[j], ws) \subseteq P
      /\ AllAccepted(db[j], ws)
  BY DEF Takes, Runs
<1>2. plan' = [i \in 1..Len(ws) |-> [job |-> j, w |-> ws[i]]]
  BY <1>1 DEF Plan
<1>3. \A i \in 1..Len(ws) : ws[i] \in Writes
  BY <1>1
<1>4. Len(ws) \in Nat
  BY <1>1
<1>5. plan' \in Seq([job : Jobs, w : Writes]) /\ Len(plan') = Len(ws)
  BY <1>2, <1>3, <1>4
<1>6. \A i \in 1..Len(plan') : plan'[i].job = j /\ plan'[i].w = ws[i]
  BY <1>2, <1>5
<1>7. \A i \in 1..Len(plan') : plan'[i].job = plan'[1].job
  BY <1>6, <1>4, <1>5
<1>8. WritesOf(plan', j) = ws
  <2>1. CASE ws = <<>>
    <3>1. plan' = <<>>
      BY <2>1, <1>5
    <3> QED
      BY <3>1, <2>1 DEF WritesOf
  <2>2. CASE ws # <<>>
    <3>1. Len(ws) # 0 /\ 1 \in 1..Len(plan') /\ plan' # <<>>
      BY <2>2, <1>1, <1>4, <1>5
    <3>2. WritesOf(plan', j) = [i \in DOMAIN plan' |-> plan'[i].w]
      BY <3>1, <1>6 DEF WritesOf
    <3>3. DOMAIN plan' = 1..Len(ws) /\ DOMAIN ws = 1..Len(ws)
      BY <1>2, <1>1
    <3>4. WritesOf(plan', j) = [i \in 1..Len(ws) |-> ws[i]]
      BY <3>2, <3>3, <1>6, <1>5
    <3> QED
      BY <3>3, <3>4, <1>1
  <2> QED
    BY <2>1, <2>2
<1>9. \A k \in Jobs \ {j} : WritesOf(plan', k) = <<>>
  <2> SUFFICES ASSUME NEW k \in Jobs \ {j}, WritesOf(plan', k) # <<>> PROVE FALSE
    OBVIOUS
  <2>1. plan' # <<>> /\ plan'[1].job = k
    BY DEF WritesOf
  <2>2. 1 \in 1..Len(plan')
    BY <2>1, <1>5, <1>4
  <2> QED
    BY <2>1, <2>2, <1>6
<1> QED
  BY <1>1, <1>5, <1>7, <1>8, <1>9 DEF Ahead, Via

-----------------------------------------------------------------------------
(* A step of one job.                                                      *)

\* What a step of one job may change, and what it then is.
Touched(j) ==
    /\ mem' = [mem EXCEPT ![j] = mem'[j]] /\ mem'[j] \in Record
    /\ build' = [build EXCEPT ![j] = build'[j]] /\ build'[j] \in Build
    /\ chain' = [chain EXCEPT ![j] = chain'[j]] /\ chain'[j] \in Chain
    /\ todo' = [todo EXCEPT ![j] = todo'[j]] /\ todo'[j] \in Record
    /\ relay' = [relay EXCEPT ![j] = relay'[j]] /\ relay'[j] \in Answers
    /\ busy' \in Jobs \cup {Nobody} /\ target' \in Recoveries \cup {None} /\ (target' # None => busy' \in Jobs)
    /\ \A k \in Jobs \ {j} : (busy' = k <=> busy = k) /\ (busy = k => target' = target)
    /\ phase' = phase /\ db' = db

\* What is known of a job while nothing is to be written.
LEMMA AtRest ==
    ASSUME IInv, Quiet, NEW j \in Jobs
    PROVE  /\ Ahead(db, plan, j) = db[j] /\ Via(db, plan, j) = {db[j]} /\ JobOK(j)
           /\ db[j] \in Rows /\ mem[j] \in Record /\ build[j] \in Build /\ chain[j] \in Chain
           /\ todo[j] \in Record /\ relay[j] \in Answers /\ Truth(db[j], relay[j])
           /\ phase \in Phases /\ busy \in Jobs \cup {Nobody} /\ target \in Recoveries \cup {None}
           /\ target # None => busy \in Jobs
<1>1. Ahead(db, plan, j) = db[j] /\ Via(db, plan, j) = {db[j]}
  BY Still DEF Quiet
<1>2. JobOK(j) /\ Typed
  BY DEF IInv
<1> QED
  BY <1>1, <1>2 DEF Typed, JobOK, TruthOK

\* To write nothing is to leave the plan alone.
LEMMA PlansNothing == ASSUME Quiet, UNCHANGED plan, NEW j PROVE Plan(j, <<>>)
<1> DEFINE q == [i \in DOMAIN <<>> |-> [job |-> j, w |-> <<>>[i]]]
<1>1. DOMAIN <<>> = 1..0
  OBVIOUS
<1>2. q \in Seq({}) /\ Len(q) = 0
  BY <1>1
<1> HIDE DEF q
<1>3. q = <<>>
  BY <1>2, EmptySeq
<1>4. plan' = q
  BY <1>3 DEF Quiet
<1> QED
  BY <1>4 DEF q, Plan

\* A step that keeps the invariant of its own job, and does not bring it back to
\* life beside another one of its offers, keeps the invariant.
LEMMA Handler ==
    ASSUME IInv, Quiet, NEW j \in Jobs, Touched(j), NEW ws, Plan(j, ws), NEW P, NEW e,
           Takes(db[j], ws, P, e),
           \/ \A x \in P : ~Live(x, "settlement")
           \/ Live(db[j], "settlement")
           \/ \A k \in Jobs \ {j} : Live(db[k], "settlement") => Route[j] \cap Route[k] = {},
           /\ Ahead(db, plan, j)' = e /\ Via(db, plan, j)' \subseteq P => JobOK(j)'
    PROVE  IInv'
<1>1. /\ plan' \in Seq([job : Jobs, w : Writes]) /\ \A i \in 1..Len(plan') : plan'[i].job = plan'[1].job
      /\ Ahead(db, plan', j) = e /\ Via(db, plan', j) \subseteq P
      /\ AllAccepted(db[j], WritesOf(plan', j))
      /\ \A k \in Jobs \ {j} : WritesOf(plan', k) = <<>>
  BY Planned
<1>2. \A k \in Jobs : WritesOf(plan, k) = <<>> /\ Ahead(db, plan, k) = db[k] /\ Via(db, plan, k) = {db[k]}
  BY Still DEF Quiet
<1>3. \A k \in Jobs \ {j} : /\ Ahead(db, plan', k) = Ahead(db, plan, k) /\ Via(db, plan', k) = Via(db, plan, k)
                            /\ AllAccepted(db[k], WritesOf(plan', k))
  BY <1>1, <1>2 DEF Ahead, Via, IInv, Accepting
<1>4. db' = db /\ phase' = phase
  BY DEF Touched
<1>5. Typed'
  BY <1>1, <1>4 DEF Touched, IInv, Typed, PlanTyped
<1>6. Accepting'
  BY <1>1, <1>3, <1>4 DEF Accepting
<1>7. \A k \in Jobs \ {j} : JobOK(k)'
  <2> SUFFICES ASSUME NEW k \in Jobs \ {j} PROVE JobOK(k)'
    OBVIOUS
  <2>1. Same(k)
    BY DEF Touched, Same, IInv, Typed
  <2>2. JobOK(k)
    BY DEF IInv
  <2>3. Ahead(db, plan, k)' = Ahead(db, plan, k) /\ Via(db, plan, k)' \subseteq Via(db, plan, k)
    BY <1>3, <1>4
  <2> QED
    BY <2>1, <2>2, <2>3, <1>4, JobFrame
<1>8. JobOK(j)'
  BY <1>1, <1>4
<1>9. AliveApart'
  <2>1. \A k \in Jobs : Alive(k) <=> Live(db[k], "settlement")
    BY <1>2 DEF Alive
  <2>2. \A k \in Jobs \ {j} : Alive(k)' <=> Live(db[k], "settlement")
    BY <1>2, <1>3, <1>4 DEF Alive
  <2>3. Alive(j)' => \E x \in P : Live(x, "settlement")
    BY <1>1, <1>4 DEF Alive
  <2>4. \A k, l \in Jobs : k # l /\ Live(db[k], "settlement") /\ Live(db[l], "settlement") => Route[k] \cap Route[l] = {}
    BY <2>1 DEF IInv, AliveApart
  <2>5. \A k \in Jobs \ {j} : Alive(j)' /\ Alive(k)' => Route[j] \cap Route[k] = {}
    BY <2>2, <2>3, <2>4
  <2>6. \A k \in Jobs \ {j}, l \in Jobs \ {j} : k # l /\ Alive(k)' /\ Alive(l)' => Route[k] \cap Route[l] = {}
    BY <2>2, <2>4
  <2> QED
    BY <2>5, <2>6 DEF AliveApart
<1> QED
  BY <1>5, <1>6, <1>7, <1>8, <1>9 DEF IInv

-----------------------------------------------------------------------------
(* The steps of the world, of the journal and of the loops.                *)

\* The invariant of the start.
LEMMA Begins == Init => IInv
<1> SUFFICES ASSUME Init PROVE IInv
  OBVIOUS
<1> USE DEF Init
<1>1. NoRows \in Rows
  BY DEF NoRows, Rows, Whys
<1>2. NoRecord \in Record /\ NoBuild \in Build /\ Idle \in Chain
  BY DEF NoRecord, Record, Places, NoBuild, Build, Steps, Idle, Chain
<1>3. Typed
  <2>1. plan \in Seq([job : Jobs, w : Writes]) /\ Len(plan) = 0 /\ 1..0 = {}
    OBVIOUS
  <2>2. phase \in Phases /\ \A j \in Jobs : relay[j] \in Answers
    BY DEF Phases, Answers
  <2> QED
    BY <1>1, <1>2, <2>1, <2>2 DEF Typed, PlanTyped, NoTodo, Answers
<1>4. \A j \in Jobs : /\ Ahead(db, plan, j) = NoRows /\ Via(db, plan, j) = {NoRows}
                      /\ AllAccepted(db[j], WritesOf(plan, j))
  BY Still
<1>5. \A op \in Ops : ~Live(NoRows, op) /\ NoRows.row[op] = None
  BY DEF NoRows, Live
<1>6. Truth(NoRows, "none")
  BY <1>5, OpsAre DEF Truth, Sent, Unsent, NoRows, Dead, None, terminal
<1>7. ASSUME NEW j \in Jobs PROVE JobOK(j)
  <2>1. TruthOK(j) /\ SendOK(j)
    BY <1>4, <1>6 DEF TruthOK, SendOK, NoBuild
  <2>2. FreshOK(j) /\ BuildOK(j) /\ BuildRows(j)
    BY NameAssumption DEF FreshOK, BuildOK, BuildRows, Making, NoBuild, NoTodo
  <2>3. ChainOK(j) /\ LocalOK(j) /\ RetryOK(j)
    BY DEF ChainOK, LocalOK, RetryOK, Retrying, Idle, NoRecord, NoTodo
  <2>4. RevertOK(j) /\ KeptOK(j)
    BY <1>4, <1>5, OpsAre DEF RevertOK, KeptOK
  <2> QED
    BY <2>1, <2>2, <2>3, <2>4 DEF JobOK
<1>8. Accepting /\ AliveApart
  BY <1>4, <1>5, OpsAre DEF Accepting, AliveApart, Alive
<1> QED
  BY <1>3, <1>7, <1>8 DEF IInv

\* A write of the journal: the job comes nearer to where it was going anyway, through
\* rows that were foreseen.
LEMMA WriteAdvances ==
    ASSUME IInv, Write
    PROVE  /\ (db \in [Jobs -> Rows])' /\ PlanTyped'
           /\ \A k \in Jobs : /\ AllAccepted(db[k], WritesOf(plan, k))' /\ Ahead(db, plan, k)' = Ahead(db, plan, k)
                             /\ Via(db, plan, k)' \subseteq Via(db, plan, k)
<1> DEFINE j == Head(plan).job
           ws == WritesOf(plan, j)
<1>1. plan # <<>> /\ plan' = Tail(plan) /\ db' = [db EXCEPT ![j] = Put(@, Head(plan).w)]
  BY DEF Write
<1>3. plan \in Seq([job : Jobs, w : Writes]) /\ \A i \in 1..Len(plan) : plan[i].job = plan[1].job
  BY DEF IInv, Typed, PlanTyped
<1> DEFINE R == [job : Jobs, w : Writes]
<1>r. \A q \in R : q.job \in Jobs /\ q.w \in Writes
  OBVIOUS
<1> HIDE DEF R
<1>4. /\ plan \in Seq(R) /\ Len(plan) \in Nat \ {0} /\ Head(plan) = plan[1] /\ plan[1] \in R
      /\ plan' \in Seq(R) /\ Len(plan') = Len(plan) - 1 /\ DOMAIN plan = 1..Len(plan)
      /\ \A i \in 1..(Len(plan) - 1) : plan'[i] = plan[i+1] /\ i + 1 \in 1..Len(plan)
      /\ \A i \in 1..Len(plan) : plan[i] \in R
  <2>1. plan \in Seq(R)
    BY <1>3 DEF R
  <2> QED
    BY <2>1, <1>1, TailOf
<1>5. j \in Jobs /\ Head(plan).w \in Writes
  BY <1>4, <1>r
<1>6. ws = [i \in 1..Len(plan) |-> plan[i].w]
  <2>1. plan[1].job = j
    BY <1>4
  <2> QED
    BY <2>1, <1>1, <1>4 DEF WritesOf
<1>7. ws \in Seq(Writes) /\ Len(ws) = Len(plan) /\ ws # <<>> /\ Head(ws) = Head(plan).w
  <2>1. \A i \in 1..Len(plan) : plan[i].w \in Writes
    BY <1>4, <1>r
  <2>2. ws \in Seq(Writes) /\ Len(ws) = Len(plan)
    BY <2>1, <1>6, <1>4
  <2>3. ws # <<>> /\ Head(ws) = ws[1] /\ ws[1] = plan[1].w
    BY <2>2, <1>4, <1>6
  <2> QED
    BY <2>2, <2>3, <1>4
<1>8. WritesOf(plan', j) = Tail(ws)
  <2>1. /\ Tail(ws) \in Seq(Writes) /\ Len(Tail(ws)) = Len(plan) - 1
        /\ \A i \in 1..(Len(plan) - 1) : Tail(ws)[i] = ws[i+1]
    BY <1>7, TailOf
  <2>2. \A i \in 1..(Len(plan) - 1) : Tail(ws)[i] = plan'[i].w /\ plan'[i].job = j
    <3>1. \A i \in 1..(Len(plan) - 1) : i + 1 \in 1..Len(plan) /\ plan'[i] = plan[i+1]
      BY <1>4
    <3>2. ASSUME NEW i \in 1..(Len(plan) - 1) PROVE Tail(ws)[i] = plan'[i].w /\ plan'[i].job = j
      <4>1. i + 1 \in 1..Len(plan) /\ plan'[i] = plan[i+1] /\ Tail(ws)[i] = ws[i+1]
        BY <3>1, <2>1
      <4>2. ws[i+1] = plan[i+1].w
        BY <4>1, <1>6
      <4>3. plan[i+1].job = j
        BY <4>1, <1>3, <1>4
      <4> QED
        BY <4>1, <4>2, <4>3
    <3> QED
      BY <3>2
  <2>3. CASE Len(plan) = 1
    <3>1. Len(plan') = 0 /\ Len(Tail(ws)) = 0 /\ plan' \in Seq(R) /\ Tail(ws) \in Seq(Writes)
      BY <2>1, <2>3, <1>4
    <3>2. plan' = <<>>
      BY <3>1, EmptySeq
    <3>3. Tail(ws) = <<>>
      BY <3>1, EmptySeq
    <3> QED
      BY <3>2, <3>3 DEF WritesOf
  <2>4. CASE Len(plan) # 1
    <3>1. Len(plan) - 1 \in Nat /\ 1 \in 1..(Len(plan) - 1) /\ plan' # <<>>
      BY <2>4, <1>4
    <3>2. DOMAIN plan' = 1..(Len(plan) - 1) /\ DOMAIN Tail(ws) = 1..(Len(plan) - 1)
      BY <3>1, <2>1, <1>4, TailOf, LenProperties
    <3>3. WritesOf(plan', j) = [i \in 1..(Len(plan) - 1) |-> plan'[i].w]
      BY <3>1, <3>2, <2>2 DEF WritesOf
    <3>4. WritesOf(plan', j) = [i \in 1..(Len(plan) - 1) |-> Tail(ws)[i]]
      BY <3>3, <2>2
    <3>5. Tail(ws) = [i \in DOMAIN Tail(ws) |-> Tail(ws)[i]]
      BY <2>1
    <3> QED
      BY <3>2, <3>4, <3>5
  <2> QED
    BY <2>3, <2>4
<1>9. \A k \in Jobs \ {j} : WritesOf(plan, k) = <<>> /\ WritesOf(plan', k) = <<>>
  <2>1. \A i \in 1..Len(plan) : plan[i].job = j
    BY <1>3, <1>4
  <2>2. plan' # <<>> => plan'[1].job = j
    <3>1. plan' # <<>> => 1 \in 1..(Len(plan) - 1)
      BY <1>4, EmptySeq
    <3>2. 1 \in 1..(Len(plan) - 1) => plan'[1] = plan[1+1] /\ 1 + 1 \in 1..Len(plan)
      BY <1>4
    <3> QED
      BY <3>1, <3>2, <2>1
  <2> QED
    BY <2>1, <2>2, <1>4 DEF WritesOf
<1> HIDE DEF ws
<1>10. AllAccepted(db[j], ws)
  BY <1>5 DEF ws, IInv, Accepting
<1>11. /\ AllAccepted(Put(db[j], Head(ws)), Tail(ws))
       /\ After(Put(db[j], Head(ws)), Tail(ws)) = After(db[j], ws)
       /\ Passed(Put(db[j], Head(ws)), Tail(ws)) \subseteq Passed(db[j], ws)
       /\ Put(db[j], Head(ws)) \in Passed(db[j], ws)
  BY <1>7, <1>10, RunsHead
<1>12. db \in [Jobs -> Rows] /\ db'[j] = Put(db[j], Head(ws)) /\ \A k \in Jobs \ {j} : db'[k] = db[k]
  BY <1>1, <1>5, <1>7 DEF IInv, Typed
<1>13. \A k \in Jobs : /\ AllAccepted(db'[k], WritesOf(plan', k)) /\ Ahead(db', plan', k) = Ahead(db, plan, k)
                       /\ Via(db', plan', k) \subseteq Via(db, plan, k)
  <2>1. ASSUME NEW k \in Jobs, k = j
        PROVE  /\ AllAccepted(db'[k], WritesOf(plan', k)) /\ Ahead(db', plan', k) = Ahead(db, plan, k)
               /\ Via(db', plan', k) \subseteq Via(db, plan, k)
    BY <2>1, <1>8, <1>11, <1>12 DEF Ahead, Via, ws
  <2>2. ASSUME NEW k \in Jobs, k # j
        PROVE  /\ AllAccepted(db'[k], WritesOf(plan', k)) /\ Ahead(db', plan', k) = Ahead(db, plan, k)
               /\ Via(db', plan', k) \subseteq Via(db, plan, k)
    BY <2>2, <1>9, <1>12 DEF Ahead, Via, IInv, Accepting
  <2> QED
    BY <2>1, <2>2
<1>14. Put(db[j], Head(ws)) \in Rows
  <2>1. db[j] \in Rows /\ Head(ws) \in Writes
    BY <1>5, <1>7, <1>12
  <2> QED
    BY <2>1, PutTyped
<1>15. db' \in [Jobs -> Rows]
  BY <1>1, <1>5, <1>7, <1>12, <1>14
<1>16. PlanTyped'
  <2>1. plan' \in Seq([job : Jobs, w : Writes])
    BY <1>4 DEF R
  <2>2. \A i \in 1..Len(plan') : plan'[i] = plan[i+1] /\ i + 1 \in 1..Len(plan)
    BY <1>4
  <2>3. \A i \in 1..Len(plan') : plan'[i].job = plan[1].job
    BY <1>3, <2>2
  <2>4. \A i \in 1..Len(plan') : 1 \in 1..Len(plan')
    BY <1>4
  <2> QED
    BY <2>1, <2>3, <2>4 DEF PlanTyped
<1> QED
  BY <1>13, <1>15, <1>16

\* So it keeps the invariant.
LEMMA WriteKeeps == ASSUME IInv, Write PROVE IInv'
<1>1. UNCHANGED <<mem, build, chain, todo, relay, busy, target, phase>>
  BY DEF Write, memory, world
<1>2. /\ (db \in [Jobs -> Rows])' /\ PlanTyped'
      /\ \A k \in Jobs : /\ AllAccepted(db[k], WritesOf(plan, k))' /\ Ahead(db, plan, k)' = Ahead(db, plan, k)
                        /\ Via(db, plan, k)' \subseteq Via(db, plan, k)
  BY WriteAdvances
<1>3. Typed'
  BY <1>1, <1>2 DEF IInv, Typed
<1>4. Accepting' /\ AliveApart'
  BY <1>2 DEF Accepting, AliveApart, Alive, IInv
<1>5. ASSUME NEW k \in Jobs PROVE JobOK(k)'
  <2>1. Same(k) /\ phase' = phase
    BY <1>1 DEF Same
  <2>2. JobOK(k)
    BY DEF IInv
  <2> QED
    BY <1>2, <2>1, <2>2, JobFrame
<1> QED
  BY <1>3, <1>4, <1>5 DEF IInv

\* The rows of the journal are the first that its pending writes pass through.
LEMMA HereIsPassed == ASSUME NEW j \in Jobs, Typed PROVE db[j] \in Via(db, plan, j)
<1> DEFINE ws == WritesOf(plan, j)
<1>1. Len(ws) \in Nat
  <2>1. plan \in Seq([job : Jobs, w : Writes])
    BY DEF Typed, PlanTyped
  <2>2. ws = <<>> \/ ws = [i \in 1..Len(plan) |-> plan[i].w]
    BY <2>1 DEF WritesOf
  <2>3. CASE ws = <<>>
    BY <2>3
  <2>4. CASE ws = [i \in 1..Len(plan) |-> plan[i].w]
    BY <2>1, <2>4
  <2> QED
    BY <2>2, <2>3, <2>4
<1> HIDE DEF ws
<1>2. SubSeq(ws, 1, 0) = <<>>
  OBVIOUS
<1>3. At(db[j], ws, 0) = db[j]
  BY <1>2, AfterNone DEF At
<1>4. 0 \in 0..Len(ws)
  BY <1>1
<1>5. db[j] \in Passed(db[j], ws)
  BY <1>3, <1>4 DEF Passed
<1> QED
  BY <1>5 DEF Via, ws

\* A restart: the journal stays where it is, and all of memory is lost.
LEMMA CrashKeeps == ASSUME IInv, Crash PROVE IInv'
<1>1. /\ mem' = [j \in Jobs |-> NoRecord] /\ plan' = <<>> /\ build' = [j \in Jobs |-> NoBuild]
      /\ chain' = [j \in Jobs |-> Idle] /\ phase' = "boot" /\ busy' = Nobody /\ target' = None
      /\ todo' = [j \in Jobs |-> IF Settlement(j) = None THEN NoRecord ELSE In("boot")]
      /\ db' = db /\ relay' = relay
  BY DEF Crash
<1>2. NoRecord \in Record /\ In("boot") \in Record /\ NoBuild \in Build /\ Idle \in Chain
  BY DEF NoRecord, Record, Places, NoBuild, Build, Steps, Idle, Chain, In
<1>3. Typed'
  <2>1. plan' \in Seq([job : Jobs, w : Writes]) /\ Len(plan') = 0 /\ 1..0 = {}
    BY <1>1
  <2>2. PlanTyped'
    BY <2>1 DEF PlanTyped
  <2>3. phase' \in Phases
    BY <1>1 DEF Phases
  <2> QED
    BY <1>1, <1>2, <2>2, <2>3 DEF IInv, Typed
<1>4. \A j \in Jobs : /\ Ahead(db, plan, j)' = db[j] /\ Via(db, plan, j)' = {db[j]}
                      /\ AllAccepted(db[j], WritesOf(plan, j))'
  BY <1>1, Still
<1>5. \A j \in Jobs : db[j] \in Via(db, plan, j)
  BY HereIsPassed DEF IInv
<1>6. Accepting' /\ AliveApart'
  BY <1>1, <1>4, <1>5 DEF IInv, Accepting, AliveApart, Alive
<1>7. ASSUME NEW j \in Jobs PROVE JobOK(j)'
  <2>1. Truth(db[j], relay[j])
    BY <1>5 DEF IInv, JobOK, TruthOK
  <2>2. TruthOK(j)' /\ SendOK(j)'
    BY <1>1, <1>4, <2>1 DEF TruthOK, SendOK, NoBuild
  <2>3. FreshOK(j)' /\ BuildOK(j)' /\ BuildRows(j)'
    BY <1>1, <1>4, NameAssumption DEF FreshOK, BuildOK, BuildRows, Making, NoBuild, Settlement
  <2>4. ChainOK(j)' /\ LocalOK(j)' /\ RetryOK(j)'
    BY <1>1, NameAssumption DEF ChainOK, LocalOK, RetryOK, Retrying, Idle, NoRecord, In
  <2>5. RevertOK(j)' /\ KeptOK(j)'
    <3>1. Live(db[j], "settlement") => todo'[j] = In("boot")
      BY <1>1 DEF Live, Settlement
    <3>2. In("boot").place = "boot" /\ Idle.at = "idle"
      BY DEF In, NoRecord, Idle
    <3> QED
      BY <1>1, <1>4, <3>1, <3>2 DEF RevertOK, KeptOK
  <2> QED
    BY <2>2, <2>3, <2>4, <2>5 DEF JobOK
<1> QED
  BY <1>3, <1>6, <1>7 DEF IInv

\* What the relay decides of a job says nothing less of its rows.
LEMMA TruthEnds ==
    ASSUME NEW e, NEW r, NEW s, Truth(e, r),
           (r = "open" /\ s = "error") \/ (r = "half" /\ s \in {"failed", "done"})
    PROVE  Truth(e, s)
  BY DEF Truth, Sent, Dead

\* The relay answers a job, whatever the executor is doing.
LEMMA RelayKeeps ==
    ASSUME IInv, NEW j \in Jobs, NEW s, relay' = [relay EXCEPT ![j] = s],
           (relay[j] = "open" /\ s = "error") \/ (relay[j] = "half" /\ s \in {"failed", "done"}),
           UNCHANGED <<db, plan, mem, build, chain, todo, phase, busy, target>>
    PROVE  IInv'
<1>1. relay \in [Jobs -> Answers] /\ s \in Answers
  BY DEF IInv, Typed, Answers
<1>2. relay'[j] = s /\ \A k \in Jobs \ {j} : relay'[k] = relay[k]
  BY <1>1
<1>3. Typed'
  BY <1>1 DEF IInv, Typed, PlanTyped
<1>4. Accepting' /\ AliveApart'
  BY DEF IInv, Accepting, AliveApart, Alive
<1>5. \A k \in Jobs \ {j} : JobOK(k)'
  <2> SUFFICES ASSUME NEW k \in Jobs \ {j} PROVE JobOK(k)'
    OBVIOUS
  <2>1. Same(k) /\ JobOK(k)
    BY <1>2 DEF Same, IInv
  <2> QED
    BY <2>1, JobFrame
<1>6. JobOK(j)'
  <2>1. JobOK(j)
    BY DEF IInv
  <2>2. TruthOK(j)'
    BY <2>1, <1>2, TruthEnds DEF JobOK, TruthOK
  <2>3. SendOK(j)' /\ FreshOK(j)' /\ BuildOK(j)'
    BY <2>1, <1>2 DEF JobOK, SendOK, FreshOK, BuildOK, Making
  <2>4. BuildRows(j)'
    BY <2>1, <1>2 DEF JobOK, BuildRows, Making
  <2>5. ChainOK(j)' /\ LocalOK(j)'
    BY <2>1, <1>2 DEF JobOK, ChainOK, LocalOK, Gone, Dead
  <2>6. RetryOK(j)'
    BY <2>1, <1>2 DEF JobOK, RetryOK, Retrying
  <2>7. RevertOK(j)' /\ KeptOK(j)'
    BY <2>1, <1>2 DEF JobOK, RevertOK, KeptOK, Retrying
  <2> QED
    BY <2>2, <2>3, <2>4, <2>5, <2>6, <2>7 DEF JobOK
<1> QED
  BY <1>3, <1>4, <1>5, <1>6 DEF IInv

\* A step of none of these.
LEMMA OthersKeep ==
    ASSUME IInv, UNCHANGED <<db, plan, mem, build, chain, todo, phase, busy, target, relay>>
    PROVE  IInv'
<1>1. Typed' /\ Accepting' /\ AliveApart'
  BY DEF IInv, Typed, PlanTyped, Accepting, AliveApart, Alive
<1>2. \A k \in Jobs : JobOK(k)'
  <2> SUFFICES ASSUME NEW k \in Jobs PROVE JobOK(k)'
    OBVIOUS
  <2>1. Same(k) /\ JobOK(k)
    BY DEF Same, IInv
  <2> QED
    BY <2>1, JobFrame
<1> QED
  BY <1>1, <1>2 DEF IInv

\* The loops go on: a loop over the records takes what its map holds.
LEMMA LoopsKeep ==
    ASSUME IInv, sweep \/ BootEnds
    PROVE  IInv'
<1>1. /\ Quiet /\ UNCHANGED <<db, plan, mem, build, chain, busy, target, relay>> /\ Waiting = {} /\ busy = Nobody
      /\ phase' \in Phases \ {"boot"}
      /\ \/ phase # "boot" /\ \E p \in {"quarantined", "awaiting", "confirming"} : todo' = Held(p)
         \/ todo' = todo
  BY DEF sweep, BootEnds, Ready, world, Enter, Phases
<1>2. Typed /\ \A k \in Jobs : JobOK(k)
  BY DEF IInv
<1>3. ASSUME NEW k \in Jobs PROVE todo[k].place = "none" /\ ~todo[k].local
  <2>1. todo[k].place = "none"
    BY <1>1 DEF Waiting
  <2> QED
    BY <2>1, <1>2 DEF JobOK, LocalOK
<1>4. NoRecord \in Record /\ NoRecord.place = "none" /\ ~NoRecord.local
  BY DEF NoRecord, Record, Places
<1>5. todo' \in [Jobs -> Record]
  BY <1>1, <1>2, <1>4 DEF Typed, Held
<1>6. ASSUME NEW k \in Jobs
      PROVE  /\ todo'[k].place \in {"none", "quarantined", "awaiting", "confirming"}
             /\ todo'[k].local => todo'[k].place # "none"
             /\ mem[k].place \in {"none", "building"} => todo'[k] \in {todo[k], NoRecord}
  <2>1. CASE todo' = todo
    BY <2>1, <1>3
  <2>2. ASSUME NEW p \in {"quarantined", "awaiting", "confirming"}, todo' = Held(p)
        PROVE  /\ todo'[k].place \in {"none", "quarantined", "awaiting", "confirming"}
               /\ todo'[k].local => todo'[k].place # "none"
               /\ mem[k].place \in {"none", "building"} => todo'[k] \in {todo[k], NoRecord}
    BY <2>2, <1>4 DEF Held
  <2> QED
    BY <1>1, <2>1, <2>2
<1>7. Typed' /\ Accepting' /\ AliveApart'
  BY <1>1, <1>5 DEF IInv, Typed, PlanTyped, Accepting, AliveApart, Alive
<1>8. ASSUME NEW j \in Jobs PROVE JobOK(j)'
  <2>1. JobOK(j)
    BY <1>2
  <2>2. TruthOK(j)' /\ SendOK(j)'
    BY <2>1, <1>1 DEF JobOK, TruthOK, SendOK
  <2>3. FreshOK(j)' /\ BuildOK(j)'
    BY <2>1, <1>1, <1>4, <1>6 DEF JobOK, FreshOK, BuildOK, Making
  <2>4. BuildRows(j)' /\ ChainOK(j)' /\ RetryOK(j)'
    BY <2>1, <1>1 DEF JobOK, BuildRows, Making, ChainOK, RetryOK, Retrying
  <2>5. LocalOK(j)'
    BY <2>1, <1>1, <1>6 DEF JobOK, LocalOK, Gone
  <2>6. Live(Ahead(db, plan, j), "settlement") =>
            Ahead(db, plan, j).row["revert"] \notin {"PREPARED", "REVERTED"} /\ mem[j].place # "none"
    BY <2>1, <1>1, <1>3, NameAssumption DEF JobOK, RevertOK, KeptOK, LocalOK, Retrying
  <2>7. RevertOK(j)' /\ KeptOK(j)'
    BY <2>6, <1>1 DEF RevertOK, KeptOK
  <2> QED
    BY <2>2, <2>3, <2>4, <2>5, <2>6, <2>7 DEF JobOK
<1> QED
  BY <1>7, <1>8 DEF IInv

-----------------------------------------------------------------------------
(* What the marks of the journal keep true of a job.                       *)

\* A loop that holds the rows of a job hides nothing that its relay may still do.
LEMMA TruthHolding ==
    ASSUME NEW d \in Rows, NEW r, Truth(d, r), NEW y \in {"local", "relay"}, NEW x, Holding(d, y, x),
           y = "relay" \/ ~Sent(r) \/ d.receipt # None
    PROVE  Truth(x, r)
<1> USE OpsAre
<1>1. /\ x \in Rows /\ x.receipt = d.receipt /\ x.fee = d.fee /\ d.art \subseteq x.art
      /\ x.why = IF x.row["settlement"] # d.row["settlement"] THEN y ELSE d.why
      /\ \A op \in Ops : x.row[op] = d.row[op] \/ (Live(d, op) /\ x.row[op] = "QUARANTINED")
  BY DEF Holding, Beside, None
<1>2. \A op \in Ops : /\ Live(x, op) <=> Live(d, op)
                      /\ x.row[op] # "QUARANTINED" => x.row[op] = d.row[op]
                      /\ d.row[op] = None => x.row[op] = None
                      /\ d.row[op] \in terminal => x.row[op] = d.row[op]
                      /\ x.row[op] \in terminal => x.row[op] = d.row[op]
                      /\ x.row[op] = None => d.row[op] = None
  BY <1>1 DEF Live, terminal, None
<1>3. Sent(r) => Owned(x)
  <2> SUFFICES ASSUME Sent(r) PROVE Owned(x)
    OBVIOUS
  <2>1. Owned(d)
    BY DEF Truth
  <2>2. d.row["settlement"] = "SETTLED" => x.row["settlement"] = "SETTLED"
    BY <1>2 DEF terminal
  <2>3. relayAmbiguous(d) => relayAmbiguous(x)
    BY <1>1, <1>2 DEF relayAmbiguous, None
  <2>4. ~Artifactless(x)
    BY <1>2, <2>1 DEF Artifactless, Owned
  <2> QED
    BY <1>1, <1>2, <2>1, <2>2, <2>3, <2>4 DEF Owned
<1>4. r = "done" \/ Unsent(x)
  BY <1>1, <1>2 DEF Truth, Unsent
<1>5. /\ x.receipt = "error" \/ x.row["revert"] # None => Dead(r)
      /\ x.row["revert"] \in {None, "PREPARED", "REVERTING", "REVERTED", "QUARANTINED"}
  BY <1>1, <1>2 DEF Truth
<1>6. x.row["settlement"] \in terminal => \A op \in Ops : ~Live(x, op)
  BY <1>2 DEF Truth
<1>7. /\ x.row["settlement"] = None => x.receipt = None /\ \A op \in Ops : x.row[op] = None
      /\ r = "none" => x.row["settlement"] = None
  BY <1>1, <1>2 DEF Truth
<1> QED
  BY <1>3, <1>4, <1>5, <1>6, <1>7 DEF Truth

\* A job that nobody will submit may be reverted, or failed before it has a revert.
LEMMA TruthClosing ==
    ASSUME NEW d \in Rows, NEW r, Truth(d, r), NEW via, NEW to, NEW f, NEW x, Closing(d, via, to, f, x),
           ~Sent(r), f # "SPENT" \/ f = d.fee,
           \/ via = "REVERTING" /\ to = "REVERTED"
           \/ via = "FAILED" /\ to = "FAILED" /\ ~Live(d, "revert")
    PROVE  Truth(x, r)
<1> USE OpsAre
<1>1. /\ x \in Rows /\ x.receipt = d.receipt /\ x.fee \in {d.fee, f}
      /\ \A op \in Ops : x.row[op] = d.row[op] \/ (Live(d, op) /\ x.row[op] \in {via, to})
      /\ x.row["settlement"] # d.row["settlement"] => \A op \in Ops \ {"settlement"} : x.row[op] = Ended(d, to, op)
  BY DEF Closing, Ending
<1>2. /\ via \in {"REVERTING", "FAILED"} /\ to \in {"REVERTED", "FAILED"} /\ to \in terminal
      /\ Live(d, "revert") => via = "REVERTING" /\ to = "REVERTED"
  BY DEF terminal
<1>3. Unsent(d) /\ Unsent(x)
  BY <1>1, <1>2 DEF Truth, Unsent, Sent
<1>4. /\ x.receipt = "error" \/ x.row["revert"] # None => Dead(r)
      /\ x.row["revert"] \in {None, "PREPARED", "REVERTING", "REVERTED", "QUARANTINED"}
  <2>1. d.row["revert"] = None => x.row["revert"] = None
    BY <1>1 DEF Live
  <2>2. x.row["revert"] \in {d.row["revert"], "REVERTING", "REVERTED"}
    BY <1>1, <1>2
  <2> QED
    BY <1>1, <2>1, <2>2 DEF Truth
<1>5. x.row["settlement"] \in terminal => \A op \in Ops : ~Live(x, op)
  <2>1. CASE x.row["settlement"] = d.row["settlement"]
    BY <1>1, <2>1 DEF Truth, Live
  <2>2. CASE x.row["settlement"] # d.row["settlement"]
    <3>1. \A op \in Ops \ {"settlement"} : ~Live(x, op)
      BY <1>1, <1>2, <2>2 DEF Ended, Live
    <3> QED
      BY <3>1 DEF Live
  <2> QED
    BY <2>1, <2>2
<1>6. x.row["settlement"] = None => x.receipt = None /\ \A op \in Ops : x.row[op] = None
  <2> SUFFICES ASSUME x.row["settlement"] = None PROVE x.receipt = None /\ \A op \in Ops : x.row[op] = None
    OBVIOUS
  <2>1. d.row["settlement"] = None
    BY <1>1, <1>2 DEF None, terminal
  <2>2. d.receipt = None /\ \A op \in Ops : d.row[op] = None
    BY <2>1 DEF Truth
  <2> QED
    BY <2>2, <1>1 DEF Live
<1>7. r = "none" => x.row["settlement"] = None
  BY <1>1 DEF Truth, Live
<1> QED
  BY <1>3, <1>4, <1>5, <1>6, <1>7 DEF Truth

\* A job that was submitted is settled.
LEMMA TruthSettling ==
    ASSUME NEW d \in Rows, Truth(d, "done"), d.receipt = "done", NEW x,
           Closing(d, "RELAY_SUBMITTED", "SETTLED", FeeTo(d.fee, "SPENT"), x)
    PROVE  Truth(x, "done")
<1> USE OpsAre
<1>1. /\ x \in Rows /\ x.receipt = d.receipt /\ x.why = d.why /\ x.fee \in {d.fee, FeeTo(d.fee, "SPENT")} /\ d.art \subseteq x.art
      /\ \A op \in Ops : x.row[op] = d.row[op] \/ (Live(d, op) /\ x.row[op] \in {"RELAY_SUBMITTED", "SETTLED"})
      /\ x.row["settlement"] # d.row["settlement"] => \A op \in Ops \ {"settlement"} : x.row[op] = Ended(d, "SETTLED", op)
  BY DEF Closing, Ending
<1>2. Owned(d) /\ d.row["revert"] = None
  BY DEF Truth, Sent, Dead
<1>3. Owned(x)
  <2>1. x.fee \in {"RESERVED", "SPENT"}
    BY <1>1, <1>2 DEF Owned, FeeTo
  <2>2. ~Artifactless(x)
    BY <1>1, <1>2 DEF Owned, Artifactless
  <2>3. relayAmbiguous(x) \/ x.row["settlement"] = "SETTLED"
    BY <1>1, <1>2 DEF Owned, relayAmbiguous
  <2> QED
    BY <1>1, <1>2, <2>1, <2>2, <2>3 DEF Owned
<1>4. x.receipt # "error" /\ x.row["revert"] = None
  BY <1>1, <1>2 DEF Live
<1>5. x.row["settlement"] \in terminal => \A op \in Ops : ~Live(x, op)
  <2>1. CASE x.row["settlement"] = d.row["settlement"]
    BY <1>1, <2>1 DEF Truth, Live
  <2>2. CASE x.row["settlement"] # d.row["settlement"]
    <3>1. \A op \in Ops \ {"settlement"} : ~Live(x, op)
      BY <1>1, <2>2 DEF Ended, Live, terminal
    <3> QED
      BY <3>1 DEF Live
  <2> QED
    BY <2>1, <2>2
<1>6. x.row["settlement"] # None
  BY <1>3 DEF Owned, relayAmbiguous, None
<1> QED
  BY <1>3, <1>4, <1>5, <1>6 DEF Truth, None

\* Its rows follow the relay before.
LEMMA TruthSubmitted ==
    ASSUME NEW d \in Rows, Truth(d, "done"), NEW x \in Rows, x.receipt \in {d.receipt, "done"},
           x.fee = d.fee, x.why = d.why, d.art \subseteq x.art,
           \A op \in Ops : x.row[op] \in {d.row[op], Submitted(d, op)}
    PROVE  Truth(x, "done")
<1> USE OpsAre
<1>1. Owned(d) /\ d.row["revert"] = None /\ d.receipt # "error"
  BY DEF Truth, Sent, Dead
<1>2. \A op \in Ops : /\ \/ x.row[op] = d.row[op]
                         \/ d.row[op] = "AWAITING_RELAY" /\ x.row[op] = "RELAY_SUBMITTED"
                         \/ d.row[op] = "QUARANTINED" /\ x.row[op] = "CONFIRMING"
                      /\ Live(x, op) <=> Live(d, op)
  BY DEF Submitted, Live, terminal, None
<1>3. Owned(x)
  <2>1. ~Artifactless(x)
    BY <1>1, <1>2 DEF Owned, Artifactless
  <2>2. relayAmbiguous(x) \/ x.row["settlement"] = "SETTLED"
    BY <1>1, <1>2 DEF Owned, relayAmbiguous, None
  <2> QED
    BY <1>1, <1>2, <2>1, <2>2 DEF Owned
<1>4. x.receipt # "error" /\ x.row["revert"] = None
  BY <1>1, <1>2 DEF None
<1>5. x.row["settlement"] \in terminal => \A op \in Ops : ~Live(x, op)
  BY <1>2 DEF Truth, terminal
<1>6. x.row["settlement"] # None
  BY <1>3 DEF Owned, relayAmbiguous, None
<1> QED
  BY <1>3, <1>4, <1>5, <1>6 DEF Truth, None

\* The relay says that it gave a job up.
LEMMA TruthRefused ==
    ASSUME NEW d \in Rows, NEW r, Truth(d, r), Dead(r), d.row["settlement"] # None
    PROVE  Truth([d EXCEPT !.receipt = "error"], r)
<1> DEFINE x == [d EXCEPT !.receipt = "error"]
<1>1. x.row = d.row /\ x.receipt = "error" /\ x.fee = d.fee
  BY DEF Rows
<1>2. \A op \in Ops : Live(x, op) <=> Live(d, op)
  BY <1>1 DEF Live
<1> HIDE DEF x
<1>3. Truth(x, r)
  BY <1>1, <1>2 DEF Truth, Unsent, Sent, Dead
<1> QED
  BY <1>3 DEF x

\* One row of a job that no relay has yet, or none will submit.
LEMMA TruthRow ==
    ASSUME NEW d \in Rows, NEW r, Truth(d, r), ~Sent(r), Live(d, "settlement"), NEW op \in Ops \ {"settlement"},
           NEW s \in States, s \notin {"RELAY_SUBMITTED", "CONFIRMING", "SETTLED"}, NEW y \in Whys,
           op = "revert" => Dead(r) /\ s \in {"PREPARED", "REVERTING", "REVERTED", "QUARANTINED"}
    PROVE  Truth(Put(d, Because(op, s, y)), r)
<1> DEFINE x == Put(d, Because(op, s, y))
<1>1. x \in Rows /\ x.row = [d.row EXCEPT ![op] = s] /\ x.receipt = d.receipt /\ x.fee = d.fee
  BY PutRow
<1>2. \A o \in Ops : x.row[o] = IF o = op THEN s ELSE d.row[o]
  BY <1>1 DEF Rows
<1>3. x.row["settlement"] = d.row["settlement"] /\ x.row["settlement"] \notin terminal /\ x.row["settlement"] # None
  BY <1>2, OpsAre DEF Live
<1> HIDE DEF x
<1>4. Truth(x, r)
  BY <1>1, <1>2, <1>3, OpsAre DEF Truth, Unsent, Sent
<1> QED
  BY <1>4 DEF x

\* Its reservation is taken, or given back.
LEMMA TruthFee ==
    ASSUME NEW d \in Rows, NEW r, Truth(d, r), ~Sent(r), NEW f \in Fees, f # "SPENT"
    PROVE  Truth(Put(d, Fee(f)), r)
<1> DEFINE x == Put(d, Fee(f))
<1>1. x.row = d.row /\ x.receipt = d.receipt /\ x.fee \in {d.fee, f}
  BY PutFee DEF Rows
<1>2. \A o \in Ops : Live(x, o) <=> Live(d, o)
  BY <1>1 DEF Live
<1> HIDE DEF x
<1>3. Truth(x, r)
  BY <1>1, <1>2 DEF Truth, Unsent, Sent
<1> QED
  BY <1>3 DEF x

-----------------------------------------------------------------------------
(* The build.                                                              *)

\* A row that a job does not have yet.
LEMMA FirstRow ==
    ASSUME NEW d \in Rows, NEW op \in Ops, d.row[op] = None
    PROVE  Accepted(d, Set(op, "PREPARED")) /\ Set(op, "PREPARED") = Because(op, "PREPARED", None)
  BY DEF Accepted, Set, Because

\* A job is admitted, or refused: its offers are then not those of another.
LEMMA OnSwapKeeps == ASSUME IInv, NEW j \in Jobs, OnSwap(j) PROVE IInv'
<1> DEFINE d == db[j]
           w == Set("settlement", "PREPARED")
           e == Put(d, w)
<1>1. /\ Quiet /\ relay[j] = "none"
      /\ UNCHANGED <<db, chain, phase, todo, busy, target>>
  BY DEF OnSwap, sweeper
<1>2. /\ Ahead(db, plan, j) = d /\ Via(db, plan, j) = {d} /\ JobOK(j)
      /\ d \in Rows /\ mem[j] \in Record /\ build[j] \in Build /\ chain[j] \in Chain
      /\ todo[j] \in Record /\ relay[j] \in Answers /\ Truth(d, relay[j])
      /\ phase \in Phases /\ busy \in Jobs \cup {Nobody} /\ target \in Recoveries \cup {None}
      /\ target # None => busy \in Jobs
  BY <1>1, AtRest
<1>3. /\ d.row["settlement"] = None /\ d.receipt = None /\ \A op \in Ops : d.row[op] = None
      /\ d.fee # "SPENT"
  BY <1>1, <1>2 DEF Truth, Unsent
<1>4. mem[j] = NoRecord /\ build[j] = NoBuild /\ chain[j] = Idle /\ todo[j] = NoRecord /\ busy # j
  BY <1>2, <1>3 DEF JobOK, FreshOK
<1>5. Typed
  BY DEF IInv
<1>6. CASE phase # "boot" /\ Admissible(j)
  <2>1. /\ relay' = [relay EXCEPT ![j] = "open"] /\ mem' = [mem EXCEPT ![j] = In("building")]
        /\ build' = [build EXCEPT ![j].pc = "read"] /\ Plan(j, <<w>>)
    BY <1>6 DEF OnSwap
  <2>2. relay'[j] = "open" /\ mem'[j] = In("building") /\ build'[j] = [NoBuild EXCEPT !.pc = "read"]
    BY <2>1, <1>4, <1>5 DEF Typed
  <2>3. /\ w \in Writes /\ e \in Rows /\ e.row = [d.row EXCEPT !["settlement"] = "PREPARED"]
        /\ e.receipt = d.receipt /\ e.fee = d.fee /\ Accepted(d, w)
    <3>1. w = Because("settlement", "PREPARED", None) /\ Accepted(d, w) /\ "settlement" \in Ops
      BY <1>2, <1>3, FirstRow, OpsAre
    <3>2. "PREPARED" \in States /\ None \in Whys
      BY DEF States, Journal!States, Whys
    <3> QED
      BY <1>2, <3>1, <3>2, PutRow
  <2>4. Takes(d, <<w>>, {d, e}, e)
    BY <2>3, TakesOne
  <2>5. \A op \in Ops : e.row[op] = IF op = "settlement" THEN "PREPARED" ELSE None
    BY <1>2, <1>3, <2>3 DEF Rows
  <2>6. Truth(e, "open") /\ Truth(d, "open")
    BY <1>3, <2>3, <2>5, OpsAre DEF Truth, Unsent, Sent, None, terminal, Live
  <2>7. Touched(j)
    <3>1. In("building") \in Record /\ [NoBuild EXCEPT !.pc = "read"] \in Build /\ "open" \in Answers
      BY DEF In, NoRecord, Record, Places, NoBuild, Build, Steps, Answers
    <3> QED
      BY <1>1, <1>2, <1>5, <2>1, <2>2, <3>1 DEF Touched, Typed
  <2>8. \A k \in Jobs \ {j} : Live(db[k], "settlement") => Route[j] \cap Route[k] = {}
    <3> SUFFICES ASSUME NEW k \in Jobs \ {j}, Live(db[k], "settlement") PROVE Route[j] \cap Route[k] = {}
      OBVIOUS
    <3>1. JobOK(k) /\ Ahead(db, plan, k) = db[k]
      BY <1>1, AtRest
    <3>2. mem[k].place # "none"
      BY <1>6, <3>1 DEF JobOK, KeptOK
    <3>3. Route[k] \subseteq unavailableOfferHashes
      BY <3>2 DEF unavailableOfferHashes
    <3> QED
      BY <3>3, <1>6 DEF Admissible
  <2>9. ASSUME Ahead(db, plan, j)' = e, Via(db, plan, j)' \subseteq {d, e} PROVE JobOK(j)'
    <3>1. TruthOK(j)'
      BY <2>2, <2>6, <2>9 DEF TruthOK
    <3>2. SendOK(j)' /\ FreshOK(j)'
      BY <2>2, <2>5, <2>9, OpsAre DEF SendOK, FreshOK, NoBuild, None
    <3>3. BuildOK(j)'
      BY <1>1, <1>4, <1>6, <2>2 DEF BuildOK, Making, NoBuild, In, NoRecord
    <3>4. BuildRows(j)'
      BY <2>2, <2>3, <2>5, <2>9, <1>3, OpsAre DEF BuildRows, MadeRows, Making, NoBuild, In, NoRecord
    <3>5. ChainOK(j)' /\ LocalOK(j)' /\ RetryOK(j)'
      BY <1>1, <1>4, <2>2 DEF ChainOK, LocalOK, RetryOK, Retrying, Idle, In, NoRecord
    <3>6. RevertOK(j)' /\ KeptOK(j)'
      BY <2>2, <2>5, <2>9, OpsAre DEF RevertOK, KeptOK, In, NoRecord, None
    <3> QED
      BY <3>1, <3>2, <3>3, <3>4, <3>5, <3>6 DEF JobOK
  <2> HIDE DEF d, e, w
  <2> QED
    BY <1>1, <2>1, <2>4, <2>7, <2>8, <2>9, Handler DEF d
<1>7. CASE ~(phase # "boot" /\ Admissible(j))
  <2>1. relay' = [relay EXCEPT ![j] = "error"] /\ UNCHANGED <<mem, build, plan>>
    BY <1>7 DEF OnSwap
  <2>2. relay'[j] = "error"
    BY <2>1, <1>5 DEF Typed
  <2>3. Plan(j, <<>>) /\ Takes(d, <<>>, {d}, d)
    BY <1>1, <2>1, TakesNone, PlansNothing
  <2>4. Truth(d, "error")
    BY <1>2, <1>1, <1>3 DEF Truth, Sent, Unsent, Dead
  <2>5. Touched(j)
    BY <1>1, <1>2, <1>5, <2>1, <2>2 DEF Touched, Typed, Answers
  <2>6. ASSUME Ahead(db, plan, j)' = d, Via(db, plan, j)' \subseteq {d} PROVE JobOK(j)'
    <3>1. TruthOK(j)' /\ SendOK(j)' /\ FreshOK(j)'
      BY <1>1, <1>4, <2>1, <2>2, <2>4, <2>6 DEF TruthOK, SendOK, FreshOK, NoBuild
    <3>2. BuildOK(j)' /\ BuildRows(j)' /\ ChainOK(j)' /\ LocalOK(j)' /\ RetryOK(j)'
      BY <1>1, <1>4, <2>1 DEF BuildOK, BuildRows, ChainOK, LocalOK, RetryOK, Making, Retrying, NoBuild, Idle, NoRecord
    <3>3. RevertOK(j)' /\ KeptOK(j)'
      BY <1>3, <2>6, OpsAre DEF RevertOK, KeptOK, Live
    <3> QED
      BY <3>1, <3>2, <3>3 DEF JobOK
  <2>7. \A x \in {d} : ~Live(x, "settlement")
    BY <1>3 DEF Live
  <2> HIDE DEF d
  <2> QED
    BY <1>1, <2>3, <2>5, <2>6, <2>7, Handler DEF d
<1> QED
  BY <1>6, <1>7

\* A job with no build, no operation and no recovery under way.
LEMMA JobRests ==
    ASSUME NEW j \in Jobs, NEW P, NEW e, Ahead(db, plan, j)' = e, Via(db, plan, j)' \subseteq P,
           \A x \in P : Truth(x, relay'[j]), build'[j] = NoBuild, chain'[j] = Idle,
           busy' # j \/ target' = None, e.row["settlement"] # None,
           mem'[j].local => Gone(j)' /\ mem'[j].place # "none",
           todo'[j].place # "boot", todo'[j].local => todo'[j].place # "none",
           Live(e, "settlement") => mem'[j].place # "none" /\ e.row["revert"] \notin {"PREPARED", "REVERTED"}
    PROVE  JobOK(j)'
<1>1. TruthOK(j)' /\ SendOK(j)' /\ FreshOK(j)'
  BY DEF TruthOK, SendOK, FreshOK, NoBuild
<1>2. BuildOK(j)' /\ BuildRows(j)'
  BY DEF BuildOK, BuildRows, Making, NoBuild
<1>3. ChainOK(j)' /\ LocalOK(j)' /\ RetryOK(j)'
  BY DEF ChainOK, LocalOK, RetryOK, Retrying, Idle
<1>4. RevertOK(j)' /\ KeptOK(j)'
  BY DEF RevertOK, KeptOK
<1> QED
  BY <1>1, <1>2, <1>3, <1>4 DEF JobOK

\* What is known of a job that is being built.
LEMMA WhileMaking ==
    ASSUME IInv, Quiet, NEW j \in Jobs, Making(j)
    PROVE  /\ chain[j] = Idle /\ todo[j] = NoRecord /\ busy # j /\ phase # "boot"
           /\ mem[j].place = "building" /\ ~mem[j].local /\ ~mem[j].reverting
           /\ relay[j] \in {"open", "error"} /\ ~Sent(relay[j]) /\ (mem[j].timedOut => relay[j] = "error")
           /\ build[j].call => build[j].pc = "cleanup" /\ build[j].own # {}
           /\ Live(db[j], "settlement") /\ db[j].row["settlement"] \in {"PREPARED", "QUARANTINED"}
           /\ MadeRows(db[j], mem[j].timedOut, build[j]) /\ Truth(db[j], "error")
<1>1. JobOK(j) /\ Ahead(db, plan, j) = db[j] /\ Truth(db[j], relay[j])
  BY AtRest
<1>2. MadeRows(db[j], mem[j].timedOut, build[j])
  BY <1>1 DEF JobOK, BuildRows
<1>3. /\ chain[j] = Idle /\ todo[j] = NoRecord /\ busy # j /\ phase # "boot"
      /\ mem[j].place = "building" /\ ~mem[j].local /\ ~mem[j].reverting
      /\ relay[j] = "error" \/ (relay[j] = "open" /\ ~mem[j].timedOut)
      /\ build[j].call => build[j].pc = "cleanup" /\ build[j].own # {}
  BY <1>1 DEF JobOK, BuildOK, Making
<1>4. Live(db[j], "settlement") /\ db[j].row["settlement"] \in {"PREPARED", "QUARANTINED"}
  BY <1>2 DEF MadeRows, Live, terminal, None
<1>5. Truth(db[j], "error")
  BY <1>1, <1>3, TruthEnds
<1> QED
  BY <1>2, <1>3, <1>4, <1>5 DEF Sent

\* A step of the build that goes on.
LEMMA Builds ==
    ASSUME IInv, Quiet, NEW j \in Jobs, Making(j),
           UNCHANGED <<db, mem, chain, phase, todo, busy, target, relay>>,
           NEW b \in Build, build' = [build EXCEPT ![j] = b], b.pc \notin {"none", "answer"},
           b.call => b.pc = "cleanup" /\ b.own # {},
           NEW ws, Plan(j, ws), NEW P, NEW e, Takes(db[j], ws, P, e), \A x \in P : Truth(x, relay[j]),
           MadeRows(e, mem[j].timedOut, b)
    PROVE  IInv'
<1>1. /\ chain[j] = Idle /\ todo[j] = NoRecord /\ busy # j /\ phase # "boot"
      /\ mem[j].place = "building" /\ ~mem[j].local /\ ~mem[j].reverting
      /\ relay[j] \in {"open", "error"} /\ (mem[j].timedOut => relay[j] = "error")
      /\ Live(db[j], "settlement")
  BY WhileMaking
<1>2. Typed /\ build'[j] = b
  BY DEF IInv, Typed
<1>3. Touched(j)
  <2>1. /\ mem[j] \in Record /\ chain[j] \in Chain /\ todo[j] \in Record /\ relay[j] \in Answers
        /\ busy \in Jobs \cup {Nobody} /\ target \in Recoveries \cup {None} /\ (target # None => busy \in Jobs)
    BY AtRest
  <2> QED
    BY <1>2, <2>1 DEF Touched, Typed
<1>4. e.row["settlement"] # None /\ e.row["revert"] = None
  BY OpsAre DEF MadeRows, None
<1>5. ASSUME Ahead(db, plan, j)' = e, Via(db, plan, j)' \subseteq P PROVE JobOK(j)'
  <2>1. TruthOK(j)' /\ SendOK(j)' /\ FreshOK(j)'
    BY <1>2, <1>4, <1>5 DEF TruthOK, SendOK, FreshOK
  <2>2. BuildOK(j)' /\ BuildRows(j)'
    BY <1>1, <1>2, <1>5 DEF BuildOK, BuildRows, Making
  <2>3. ChainOK(j)' /\ LocalOK(j)' /\ RetryOK(j)'
    BY <1>1 DEF ChainOK, LocalOK, RetryOK, Retrying, Idle, NoRecord
  <2>4. RevertOK(j)' /\ KeptOK(j)'
    BY <1>1, <1>4, <1>5 DEF RevertOK, KeptOK, None
  <2> QED
    BY <2>1, <2>2, <2>3, <2>4 DEF JobOK
<1> QED
  BY <1>1, <1>3, <1>5, Handler

\* A build that fails before it called the wallet.
LEMMA FailBuildKeeps ==
    ASSUME IInv, Quiet, NEW j \in Jobs, build[j].pc \in {"read", "addr"}, FailBuild(j),
           UNCHANGED <<db, chain, sweeper>>
    PROVE  IInv'
<1> DEFINE d == db[j]
<1>1. /\ chain[j] = Idle /\ todo[j] = NoRecord /\ busy # j /\ phase # "boot"
      /\ mem[j].place = "building" /\ relay[j] \in {"open", "error"} /\ Live(d, "settlement")
      /\ MadeRows(d, mem[j].timedOut, build[j]) /\ Truth(d, "error")
  BY WhileMaking DEF Making
<1>2. Typed /\ d \in Rows /\ mem[j] \in Record /\ chain[j] \in Chain /\ todo[j] \in Record
      /\ busy \in Jobs \cup {Nobody} /\ target \in Recoveries \cup {None} /\ (target # None => busy \in Jobs)
  BY AtRest DEF IInv
<1>3. build'[j] = NoBuild /\ relay'[j] = "error" /\ NoBuild \in Build
  BY <1>1, <1>2 DEF FailBuild, Answered, Typed, NoBuild, Build, Steps
<1>4. UNCHANGED <<chain, todo, phase, busy, target, db>>
  BY DEF sweeper
<1>5. ASSUME mem'[j] \in Record, mem' = [mem EXCEPT ![j] = mem'[j]] PROVE Touched(j)
  BY <1>2, <1>3, <1>4, <1>5 DEF Touched, FailBuild, Answered, Typed, Answers
<1>6. In("quarantined") \in Record /\ NoRecord \in Record /\ ~In("quarantined").local /\ ~NoRecord.local
      /\ In("quarantined").place = "quarantined" /\ NoRecord.place = "none"
  BY DEF In, NoRecord, Record, Places
<1>7. CASE mem[j].timedOut
  <2>1. mem'[j] = In("quarantined") /\ mem' = [mem EXCEPT ![j] = mem'[j]] /\ Plan(j, quarantineGroup(d, "local"))
    BY <1>7, <1>2 DEF FailBuild, Typed
  <2>2. PICK P, e : /\ Takes(d, quarantineGroup(d, "local"), P, e) /\ AllHeld(d, "local", e)
                    /\ \A x \in P : Holding(d, "local", x)
    BY <1>2, TakesHold
  <2>3. \A x \in P : Truth(x, "error")
    BY <1>1, <1>2, <2>2, TruthHolding DEF Sent
  <2>4. e.row["settlement"] = "QUARANTINED" /\ e.row["revert"] = None
    BY <1>1, <2>2, OpsAre DEF AllHeld, MadeRows, Live
  <2>5. ASSUME Ahead(db, plan, j)' = e, Via(db, plan, j)' \subseteq P PROVE JobOK(j)'
    BY <1>1, <1>3, <1>4, <1>6, <2>1, <2>3, <2>4, <2>5, JobRests DEF None
  <2> HIDE DEF d
  <2> QED
    BY <1>1, <1>5, <1>6, <2>1, <2>2, <2>5, Handler DEF d
<1>8. CASE ~mem[j].timedOut
  <2>1. mem'[j] = NoRecord /\ mem' = [mem EXCEPT ![j] = mem'[j]] /\ Plan(j, markFailed(d))
    BY <1>8, <1>2 DEF FailBuild, Forget, Typed
  <2>2. Failable(d)
    BY <1>1, <1>8, OpsAre DEF Failable, MadeRows, Live
  <2>3. PICK P, e : /\ Takes(d, markFailed(d), P, e) /\ Closed(d, "FAILED", d.fee, e)
                    /\ \A x \in P : Closing(d, "FAILED", "FAILED", d.fee, x)
    BY <1>2, <2>2, TakesFailed
  <2>4. \A x \in P : Truth(x, "error")
    <3>1. ~Live(d, "revert")
      BY <1>1, OpsAre DEF MadeRows, Live
    <3> QED
      BY <1>1, <1>2, <2>3, <3>1, TruthClosing DEF Sent
  <2>5. e.row["settlement"] = "FAILED" /\ ~Live(e, "settlement")
    BY <1>1, <2>3, OpsAre DEF Closed, AllEnded, Ended, Live, terminal
  <2>6. ASSUME Ahead(db, plan, j)' = e, Via(db, plan, j)' \subseteq P PROVE JobOK(j)'
    BY <1>1, <1>3, <1>4, <1>6, <2>1, <2>4, <2>5, <2>6, JobRests DEF None
  <2> HIDE DEF d
  <2> QED
    BY <1>1, <1>5, <1>6, <2>1, <2>3, <2>6, Handler DEF d
<1> QED
  BY <1>7, <1>8

\* A job whose files are read, or whose wallet has an address.
LEMMA ReadFilesKeeps == ASSUME IInv, NEW j \in Jobs, ReadFiles(j) PROVE IInv'
<1>1. Quiet /\ build[j].pc = "read" /\ UNCHANGED <<db, chain, sweeper>>
  BY DEF ReadFiles
<1>2. CASE FailBuild(j)
  BY <1>1, <1>2, FailBuildKeeps
<1>3. CASE build' = [build EXCEPT ![j].pc = "addr"] /\ UNCHANGED <<relay, stock, mem, plan>>
  <2> DEFINE d == db[j]
             b == [build[j] EXCEPT !.pc = "addr"]
  <2>1. Making(j)
    BY <1>1 DEF Making
  <2>2. MadeRows(d, mem[j].timedOut, build[j])
    BY <1>1, <2>1, WhileMaking
  <2>3. build[j] \in Build /\ Truth(d, relay[j])
    BY <1>1, AtRest
  <2>4. b \in Build /\ b.pc = "addr" /\ b.own = build[j].own /\ b.call = build[j].call
    BY <2>3 DEF Build, Steps
  <2>5. MadeRows(d, mem[j].timedOut, b) /\ ~b.call
    <3>1. ~build[j].call
      BY <1>1, <2>1, WhileMaking
    <3> QED
      BY <1>1, <2>2, <2>4, <3>1, OpsAre DEF MadeRows
  <2>6. Plan(j, <<>>) /\ Takes(d, <<>>, {d}, d)
    BY <1>1, <1>3, PlansNothing, TakesNone
  <2>7. build' = [build EXCEPT ![j] = b]
    BY <1>3 DEF IInv, Typed
  <2> DEFINE P == {d}
  <2>8. (\A x \in P : Truth(x, relay[j])) /\ Takes(d, <<>>, P, d)
    BY <2>3, <2>6
  <2> HIDE DEF b, P
  <2>9. UNCHANGED <<db, mem, chain, phase, todo, busy, target, relay>>
    BY <1>1, <1>3 DEF sweeper
  <2>10. b.pc \notin {"none", "answer"} /\ (b.call => b.pc = "cleanup" /\ b.own # {})
    BY <2>4, <2>5
  <2> QED
    BY <1>1, <2>1, <2>4, <2>5, <2>6, <2>7, <2>8, <2>9, <2>10, Builds
<1> QED
  BY <1>2, <1>3 DEF ReadFiles

\* Rows that differ from others in the row of one wallet operation.
LEMMA TruthNear ==
    ASSUME NEW d \in Rows, NEW r, Truth(d, r), ~Sent(r), Live(d, "settlement"), NEW op \in Ops \ {"settlement"},
           NEW y, NEW x, Near(d, op, y, x), x.row[op] \notin {"RELAY_SUBMITTED", "CONFIRMING", "SETTLED"},
           op = "revert" => Dead(r) /\ x.row[op] \in {None, "PREPARED", "REVERTING", "REVERTED", "QUARANTINED"}
    PROVE  Truth(x, r)
<1>1. x \in Rows /\ x.receipt = d.receipt /\ x.fee = d.fee /\ \A o \in Ops \ {op} : x.row[o] = d.row[o]
  BY DEF Near
<1>2. x.row["settlement"] = d.row["settlement"] /\ x.row["settlement"] \notin terminal /\ x.row["settlement"] # None
  BY <1>1, OpsAre DEF Live
<1> QED
  BY <1>1, <1>2, OpsAre DEF Truth, Unsent, Sent

\* One write to the row of a wallet operation.
Moves(from, to) == IF from = None THEN to = "PREPARED" ELSE to \in Journal!allowedTransitions[from]
\* It is accepted, and changes that row and its reason only.
LEMMA RowWritten ==
    ASSUME NEW d \in Rows, NEW op \in Ops \ {"settlement"}, NEW s \in States, NEW y \in Whys,
           Moves(d.row[op], s), NEW x, x = Put(d, Because(op, s, y))
    PROVE  /\ Takes(d, <<Because(op, s, y)>>, {d, x}, x) /\ Near(d, op, y, x)
           /\ x.row[op] = s /\ (s = "APPLIED" => op \in x.art)
<1>1. /\ Because(op, s, y) \in Writes /\ x \in Rows /\ x.row = [d.row EXCEPT ![op] = s]
      /\ x.receipt = d.receipt /\ x.fee = d.fee /\ d.art \subseteq x.art
      /\ x.art = d.art \cup (IF s = "APPLIED" \/ op \in Reverts THEN {op} ELSE {})
      /\ x.why = IF op = "settlement" /\ y # None THEN y ELSE d.why
  BY PutRow
<1>2. Accepted(d, Because(op, s, y))
  BY DEF Accepted, Because, Moves
<1>3. Takes(d, <<Because(op, s, y)>>, {d, x}, x)
  BY <1>1, <1>2, TakesOne
<1>4. x.row[op] = s /\ \A o \in Ops \ {op} : x.row[o] = d.row[o]
  BY <1>1 DEF Rows
<1> QED
  BY <1>1, <1>3, <1>4 DEF Near

\* getAddress returns and the first wallet call is prepared, or the build fails.
LEMMA GetAddressKeeps == ASSUME IInv, NEW j \in Jobs, GetAddress(j) PROVE IInv'
<1>1. Quiet /\ build[j].pc = "addr" /\ UNCHANGED <<db, chain, sweeper>>
  BY DEF GetAddress
<1>2. CASE FailBuild(j)
  BY <1>1, <1>2, FailBuildKeeps
<1>3. ASSUME NEW op \in Contributions, build' = [build EXCEPT ![j].pc = op],
             Plan(j, <<Set(op, "PREPARED")>>), UNCHANGED <<relay, stock, mem>>
      PROVE  IInv'
  <2> DEFINE d == db[j]
             b == [build[j] EXCEPT !.pc = op]
             x == Put(d, Because(op, "PREPARED", None))
  <2>1. Making(j)
    BY <1>1 DEF Making
  <2>2. MadeRows(d, mem[j].timedOut, build[j]) /\ ~Sent(relay[j]) /\ Live(d, "settlement") /\ ~build[j].call
    BY <1>1, <2>1, WhileMaking
  <2>3. build[j] \in Build /\ Truth(d, relay[j]) /\ d \in Rows
    BY <1>1, AtRest
  <2>4. b \in Build /\ b.pc = op /\ b.own = build[j].own /\ b.call = build[j].call
    BY <2>3 DEF Build, Steps, WalletOps, Contributions
  <2>5. op \in Ops \ {"settlement"} /\ op \in WalletOps /\ op # "revert" /\ "PREPARED" \in States /\ None \in Whys
        /\ Set(op, "PREPARED") = Because(op, "PREPARED", None)
    BY OpsAre DEF States, Journal!States, Whys, Set, Because, Contributions
  <2>6. d.row[op] = None
    BY <1>1, <2>2, <2>5 DEF MadeRows
  <2>7. /\ Takes(d, <<Because(op, "PREPARED", None)>>, {d, x}, x) /\ Near(d, op, None, x)
        /\ x.row[op] = "PREPARED"
    <3> DEFINE s == "PREPARED"
               y == None
    <3>1. x = Put(d, Because(op, s, y)) /\ Moves(d.row[op], s) /\ d \in Rows
      BY <2>3, <2>6 DEF Moves
    <3>2. op \in Ops \ {"settlement"} /\ s \in States /\ y \in Whys
      BY <2>5
    <3> HIDE DEF s, y, x, d, b
    <3>3. Takes(d, <<Because(op, s, y)>>, {d, x}, x) /\ Near(d, op, y, x) /\ x.row[op] = s
      BY <3>1, <3>2, RowWritten
    <3> QED
      BY <3>3 DEF s, y
  <2> HIDE DEF b, x
  <2> DEFINE P == {d, x}
  <2>8. \A z \in P : Truth(z, relay[j])
    <3>1. Truth(x, relay[j])
      BY <2>2, <2>3, <2>5, <2>7, TruthNear
    <3> QED
      BY <2>3, <3>1
  <2>9. MadeRows(x, mem[j].timedOut, b)
    BY <1>1, <2>2, <2>4, <2>7, OpsAre DEF MadeRows, Near, Later, Contributions
  <2>10. build' = [build EXCEPT ![j] = b]
    BY <1>3 DEF IInv, Typed, b
  <2>11. UNCHANGED <<db, mem, chain, phase, todo, busy, target, relay>>
    BY <1>1, <1>3 DEF sweeper
  <2>12. b.pc \notin {"none", "answer"} /\ (b.call => b.pc = "cleanup" /\ b.own # {})
    BY <2>2, <2>4 DEF Contributions
  <2> DEFINE ws == <<Because(op, "PREPARED", None)>>
  <2>13. Plan(j, ws) /\ Takes(d, ws, P, x)
    BY <1>3, <2>5, <2>7
  <2> HIDE DEF P, ws
  <2> QED
    BY <1>1, <2>1, <2>4, <2>8, <2>9, <2>10, <2>11, <2>12, <2>13, Builds
<1>4. (IF j \in Receives THEN "residual" ELSE "dust") \in Contributions
  BY DEF Contributions
<1> QED
  BY <1>1, <1>2, <1>3, <1>4 DEF GetAddress

\* A build that turns to its cleanup, or goes on with it, and writes nothing.
LEMMA CleansUp ==
    ASSUME IInv, Quiet, NEW j \in Jobs, Making(j),
           UNCHANGED <<db, mem, chain, phase, todo, busy, target, relay>>, UNCHANGED plan,
           NEW b \in Build, build' = [build EXCEPT ![j] = b], b.pc = "cleanup", ~b.call
    PROVE  IInv'
<1> DEFINE d == db[j]
           P == {d}
           ws == <<>>
<1>1. Plan(j, ws) /\ Takes(d, ws, P, d)
  BY TakesNone, PlansNothing
<1>2. MadeRows(d, mem[j].timedOut, b)
  <2>1. MadeRows(d, mem[j].timedOut, build[j])
    BY WhileMaking
  <2> QED
    BY <2>1, OpsAre DEF MadeRows
<1>3. \A x \in P : Truth(x, relay[j])
  BY AtRest
<1> HIDE DEF P, ws
<1>4. b.pc \notin {"none", "answer"} /\ (b.call => b.pc = "cleanup" /\ b.own # {})
  OBVIOUS
<1> QED
  BY <1>1, <1>2, <1>3, <1>4, Builds

\* A build that turns to its cleanup, or goes on with it, and writes some rows of wallet operations.
LEMMA CleansUpRows ==
    ASSUME IInv, Quiet, NEW j \in Jobs, Making(j),
           UNCHANGED <<db, mem, chain, phase, todo, busy, target, relay>>,
           NEW b \in Build, build' = [build EXCEPT ![j] = b], b.pc = "cleanup", b.call => b.own # {},
           NEW ws, Plan(j, ws), NEW P, NEW e, Takes(db[j], ws, P, e), e \in Rows,
           \A x \in P : Truth(x, relay[j]), e.receipt = db[j].receipt,
           \A op \in Ops \ WalletOps : e.row[op] = db[j].row[op]
    PROVE  IInv'
<1>1. MadeRows(e, mem[j].timedOut, b)
  <2>1. MadeRows(db[j], mem[j].timedOut, build[j])
    BY WhileMaking
  <2> QED
    BY <2>1, OpsAre DEF MadeRows
<1>2. b.pc \notin {"none", "answer"} /\ (b.call => b.pc = "cleanup" /\ b.own # {})
  OBVIOUS
<1> QED
  BY <1>1, <1>2, Builds

\* A call to the wallet that throws.
LEMMA WalletThrowsKeeps == ASSUME IInv, NEW j \in Jobs, WalletThrows(j) PROVE IInv'
<1> DEFINE b == [build[j] EXCEPT !.pc = "cleanup", !.own = build[j].own]
<1>1. /\ Quiet /\ build[j].pc \in WalletOps /\ ToCleanup(j, build[j].own)
      /\ UNCHANGED <<db, plan, mem, chain, phase, todo, busy, target, relay>>
  BY DEF WalletThrows, sweeper
<1>2. build[j] \in Build
  BY <1>1, AtRest
<1>3. b \in Build /\ b.pc = "cleanup" /\ b.call = build[j].call
  BY <1>2 DEF Build, Steps
<1>4. Making(j)
  BY <1>1, OpsAre DEF Making
<1>5. build' = [build EXCEPT ![j] = b]
  BY <1>1 DEF ToCleanup, IInv, Typed
<1>6. ~b.call
  BY <1>1, <1>3, <1>4, WhileMaking, OpsAre
<1> HIDE DEF b
<1> QED
  BY <1>1, <1>3, <1>4, <1>5, <1>6, CleansUp

\* A write to the reservation.
LEMMA FeeWritten ==
    ASSUME NEW d \in Rows, NEW f \in Fees, NEW x, x = Put(d, Fee(f))
    PROVE  /\ Takes(d, <<Fee(f)>>, {d, x}, x) /\ x \in Rows /\ x.row = d.row /\ x.art = d.art
           /\ x.receipt = d.receipt /\ x.why = d.why /\ x.fee = FeeTo(d.fee, f)
<1>1. Fee(f) \in Writes /\ x = [d EXCEPT !.fee = IF f = "RESERVED" \/ @ = "RESERVED" THEN f ELSE @]
      /\ x \in Rows /\ Accepted(d, Fee(f))
  BY PutFee
<1>2. Takes(d, <<Fee(f)>>, {d, x}, x)
  BY <1>1, TakesOne
<1> QED
  BY <1>1, <1>2 DEF Rows, FeeTo

\* The rows of wallet operations that Near leaves alone, and the terms they are near.
LEMMA NearRows ==
    ASSUME NEW d \in Rows, NEW op \in Ops, NEW y, NEW x, Near(d, op, y, x)
    PROVE  /\ x \in Rows /\ x.receipt = d.receipt /\ x.fee = d.fee /\ d.art \subseteq x.art
           /\ \A o \in Ops : o # op => x.row[o] = d.row[o]
  BY DEF Near

\* Any half but the last is returned: its row is applied, and the next call prepared.
LEMMA NextHalf ==
    ASSUME IInv, Quiet, NEW j \in Jobs, build[j].pc \in WalletOps, build[j].pc # "dustFinal",
           db[j].row[build[j].pc] = "PREPARED",
           UNCHANGED <<db, mem, chain, phase, todo, busy, target, relay>>,
           build' = [build EXCEPT ![j].pc = NextOp(build[j].pc), ![j].own = Own(j, build[j].pc)],
           Plan(j, <<Set(build[j].pc, "APPLIED")>>
                     \o (IF build[j].pc = "dust" THEN <<Fee("RESERVED")>> ELSE <<>>)
                     \o <<Set(NextOp(build[j].pc), "PREPARED")>>)
    PROVE  IInv'
<1> DEFINE d == db[j]
           op == build[j].pc
           next == NextOp(op)
           b == [build[j] EXCEPT !.pc = next, !.own = Own(j, op)]
           x1 == Put(d, Because(op, "APPLIED", None))
           wf == IF op = "dust" THEN <<Fee("RESERVED")>> ELSE <<>>
<1>1. Making(j)
  BY OpsAre DEF Making
<1>2. /\ MadeRows(d, mem[j].timedOut, build[j]) /\ ~Sent(relay[j]) /\ Live(d, "settlement") /\ ~build[j].call
      /\ d \in Rows /\ Truth(d, relay[j]) /\ build[j] \in Build
  BY <1>1, WhileMaking, AtRest, OpsAre
<1>3. /\ op \in WalletOps \ {"dustFinal"} /\ op \in Ops \ {"settlement"} /\ op # "revert"
      /\ next \in WalletOps /\ next \in Ops \ {"settlement"} /\ next # "revert" /\ next # op /\ next \in Later(op)
      /\ Later(next) \subseteq Later(op) /\ (next = "dustFinal" <=> op = "dust") /\ op \notin Later(next) /\ op \notin Later(op)
  BY OpsAre DEF NextOp, Later
<1>4. b \in Build /\ b.pc = next /\ b.call = build[j].call /\ build' = [build EXCEPT ![j] = b]
  <2>1. Own(j, op) \subseteq WalletOps
    BY <1>2, <1>3 DEF Own, Build
  <2>2. next \in Steps
    BY <1>3 DEF Steps
  <2> QED
    BY <1>2, <2>1, <2>2 DEF Build, IInv, Typed
<1>5. d.row[op] = "PREPARED" /\ \A o \in Later(op) : d.row[o] = None
  BY <1>2, <1>3 DEF MadeRows
<1>6. "APPLIED" \in States /\ "PREPARED" \in States /\ None \in Whys /\ "RESERVED" \in Fees
      /\ \A o \in Ops, s \in States : Set(o, s) = Because(o, s, None)
  BY DEF States, Journal!States, Whys, Set, Because, Fees
<1>7. Takes(d, <<Because(op, "APPLIED", None)>>, {d, x1}, x1) /\ Near(d, op, None, x1) /\ x1.row[op] = "APPLIED" /\ op \in x1.art
  <2> DEFINE s == "APPLIED"
             y == None
  <2>1. x1 = Put(d, Because(op, s, y)) /\ Moves(d.row[op], s)
    BY <1>5 DEF Moves, Journal!allowedTransitions, Journal!States, None
  <2>2. s \in States /\ y \in Whys /\ op \in Ops \ {"settlement"} /\ d \in Rows
    BY <1>2, <1>3, <1>6
  <2> HIDE DEF s, y, x1, d, op
  <2>3. Takes(d, <<Because(op, s, y)>>, {d, x1}, x1) /\ Near(d, op, y, x1) /\ x1.row[op] = s /\ (s = "APPLIED" => op \in x1.art)
    BY <2>1, <2>2, RowWritten
  <2> QED
    BY <2>3 DEF s, y
<1> HIDE DEF x1, d, op, next, b, wf
<1>8. x1 \in Rows /\ x1.receipt = d.receipt /\ \A o \in Ops : o # op => x1.row[o] = d.row[o]
  BY <1>2, <1>3, <1>7, NearRows
<1>9. Truth(x1, relay[j])
  BY <1>2, <1>3, <1>7, TruthNear
<1>10. PICK Q, x2 : /\ Takes(x1, wf, Q, x2) /\ x2 \in Rows /\ x2.row = x1.row /\ x2.art = x1.art
                    /\ x2.receipt = x1.receipt /\ (op = "dust" => x2.fee = "RESERVED")
                    /\ \A z \in Q \cup {x2} : Truth(z, relay[j])
  <2>1. CASE op = "dust"
    <3> DEFINE x == Put(x1, Fee("RESERVED"))
               f == "RESERVED"
    <3>1. wf = <<Fee(f)>> /\ f \in Fees /\ x = Put(x1, Fee(f)) /\ f # "SPENT"
      BY <2>1, <1>6 DEF wf
    <3> HIDE DEF f, x
    <3>2. /\ Takes(x1, <<Fee(f)>>, {x1, x}, x) /\ x \in Rows /\ x.row = x1.row /\ x.art = x1.art
          /\ x.receipt = x1.receipt /\ x.fee = FeeTo(x1.fee, f)
      BY <1>8, <3>1, FeeWritten
    <3>3. Truth(x, relay[j])
      BY <1>2, <1>8, <1>9, <3>1, TruthFee
    <3>4. x.fee = "RESERVED"
      BY <3>2 DEF FeeTo, f
    <3>5. \A z \in {x1, x} \cup {x} : Truth(z, relay[j])
      BY <1>9, <3>3
    <3> QED
      BY <3>1, <3>2, <3>4, <3>5
  <2>2. CASE op # "dust"
    <3>1. wf = <<>>
      BY <2>2 DEF wf
    <3>2. Takes(x1, wf, {x1}, x1)
      BY <3>1, TakesNone
    <3> QED
      BY <1>8, <1>9, <2>2, <3>2
  <2> QED
    BY <2>1, <2>2
<1> DEFINE x3 == Put(x2, Because(next, "PREPARED", None))
<1>11. \A o \in Ops : x2.row[o] = IF o = op THEN "APPLIED" ELSE d.row[o]
  BY <1>7, <1>8, <1>10
<1>12. Takes(x2, <<Because(next, "PREPARED", None)>>, {x2, x3}, x3) /\ Near(x2, next, None, x3) /\ x3.row[next] = "PREPARED"
  <2> DEFINE s == "PREPARED"
             y == None
  <2>1. x3 = Put(x2, Because(next, s, y)) /\ Moves(x2.row[next], s)
    BY <1>3, <1>5, <1>11 DEF Moves
  <2>2. s \in States /\ y \in Whys /\ next \in Ops \ {"settlement"} /\ x2 \in Rows
    BY <1>3, <1>6, <1>10
  <2> HIDE DEF s, y, x3
  <2>3. Takes(x2, <<Because(next, s, y)>>, {x2, x3}, x3) /\ Near(x2, next, y, x3) /\ x3.row[next] = s
    BY <2>1, <2>2, RowWritten
  <2> QED
    BY <2>3 DEF s, y
<1> HIDE DEF x3
<1>13. Truth(x3, relay[j])
  <2>1. Live(x2, "settlement")
    BY <1>2, <1>3, <1>11, OpsAre DEF Live
  <2>2. Truth(x2, relay[j])
    BY <1>10
  <2> QED
    BY <1>2, <1>3, <1>10, <1>12, <2>1, <2>2, TruthNear
<1>14. \A o \in Ops : x3.row[o] = IF o = next THEN "PREPARED" ELSE IF o = op THEN "APPLIED" ELSE d.row[o]
  BY <1>3, <1>10, <1>11, <1>12, NearRows
<1>15. x3.receipt = d.receipt /\ (op = "dust" => x3.fee = "RESERVED" /\ "dust" \in x3.art)
  BY <1>3, <1>7, <1>8, <1>10, <1>12, NearRows
<1>16. MadeRows(x3, mem[j].timedOut, b)
  <2>1. /\ d.row["settlement"] = (IF mem[j].timedOut THEN "QUARANTINED" ELSE "PREPARED")
        /\ d.receipt = None /\ \A o \in Reverts : d.row[o] = None
        /\ \A o \in WalletOps \ {op} : d.row[o] \in {"APPLIED", None} \/ (mem[j].timedOut /\ d.row[o] = "QUARANTINED")
    BY <1>2, <1>3 DEF MadeRows, op
  <2>2. x3.row["settlement"] = d.row["settlement"] /\ (\A o \in Reverts : x3.row[o] = None) /\ x3.receipt = None
    BY <2>1, <1>3, <1>14, <1>15, OpsAre
  <2>3. /\ x3.row[next] = "PREPARED" /\ \A o \in Later(next) : x3.row[o] = None
        /\ \A o \in WalletOps \ {next} : x3.row[o] \in {"APPLIED", None} \/ (mem[j].timedOut /\ x3.row[o] = "QUARANTINED")
    <3>1. WalletOps \subseteq Ops /\ Later(op) \subseteq Ops /\ next \notin Later(next)
      BY <1>3, OpsAre DEF Later
    <3> QED
      BY <2>1, <3>1, <1>3, <1>5, <1>14
  <2>4. next \notin {"read", "addr"}
    BY <1>3, OpsAre
  <2> QED
    BY <2>1, <2>2, <2>3, <2>4, <1>3, <1>4, <1>15 DEF MadeRows
<1> DEFINE ws == <<Because(op, "APPLIED", None)>> \o wf \o <<Because(next, "PREPARED", None)>>
           P == ({d, x1} \cup Q) \cup {x2, x3}
<1>17. Takes(d, ws, P, x3)
  BY <1>7, <1>10, <1>12, TakesBoth
<1>18. Plan(j, ws)
  BY <1>3, <1>6 DEF op, next, wf
<1>19. \A z \in P : Truth(z, relay[j])
  BY <1>2, <1>9, <1>10, <1>13
<1>20. b.pc \notin {"none", "answer"} /\ (b.call => b.pc = "cleanup" /\ b.own # {})
  BY <1>2, <1>3, <1>4, OpsAre
<1> HIDE DEF ws, P
<1> QED
  BY <1>1, <1>4, <1>16, <1>17, <1>18, <1>19, <1>20, Builds DEF d

\* The same, of a write without a reason.
LEMMA RowSet ==
    ASSUME NEW d \in Rows, NEW op \in Ops \ {"settlement"}, NEW s \in States, Moves(d.row[op], s),
           NEW x, x = Put(d, Set(op, s))
    PROVE  /\ Takes(d, <<Set(op, s)>>, {d, x}, x) /\ Near(d, op, None, x) /\ x \in Rows
           /\ x.row[op] = s /\ (s = "APPLIED" => op \in x.art) /\ x = After(d, <<Set(op, s)>>)
<1> DEFINE y == None
<1>1. Set(op, s) = Because(op, s, y) /\ y \in Whys
  BY DEF Set, Because, Whys
<1> HIDE DEF y
<1>2. /\ Takes(d, <<Set(op, s)>>, {d, x}, x) /\ Near(d, op, y, x) /\ x.row[op] = s
      /\ (s = "APPLIED" => op \in x.art)
  BY <1>1, RowWritten
<1>3. x = After(d, <<Set(op, s)>>)
  BY <1>2 DEF Takes, Runs
<1>4. x \in Rows
  BY <1>2 DEF Near
<1> QED
  BY <1>2, <1>3, <1>4 DEF y

\* The states of a row.
LEMMA StatesAre ==
    /\ {"PREPARED", "APPLIED", "AWAITING_RELAY", "RELAY_SUBMITTED", "CONFIRMING", "SETTLED", "REVERTING",
        "REVERTED", "FAILED", "QUARANTINED"} = States
    /\ Moves(None, "PREPARED") /\ Moves("PREPARED", "APPLIED")
    /\ \A s \in States \ (terminal \cup {"RELAY_SUBMITTED", "REVERTING"}) : Moves(s, "REVERTING")
    /\ Moves("REVERTING", "REVERTED") /\ Moves("QUARANTINED", "REVERTED")
    /\ Moves("REVERTING", "QUARANTINED")
  BY DEF States, Journal!States, Moves, Journal!allowedTransitions, None, terminal

\* The half is complete, and in time for the relay.
LEMMA HalfInTime ==
    ASSUME IInv, Quiet, NEW j \in Jobs, build[j].pc = "dustFinal", db[j].row["dustFinal"] = "PREPARED",
           UNCHANGED <<db, phase, todo, busy, target, relay>>, ~mem[j].timedOut,
           Complete(j, After(db[j], <<Set("dustFinal", "APPLIED")>>))
    PROVE  IInv'
<1> DEFINE d == db[j]
           op == "dustFinal"
           x == Put(d, Set(op, "APPLIED"))
<1>1. Making(j)
  BY DEF Making
<1>2. /\ MadeRows(d, mem[j].timedOut, build[j]) /\ ~Sent(relay[j]) /\ Live(d, "settlement") /\ relay[j] \in {"open", "error"}
      /\ d \in Rows /\ Truth(d, relay[j]) /\ todo[j] = NoRecord /\ busy # j /\ phase # "boot" /\ chain[j] = Idle
  BY <1>1, WhileMaking, AtRest
<1>3. op \in Ops \ {"settlement"} /\ op \in WalletOps /\ op # "revert" /\ Moves(d.row[op], "APPLIED") /\ "APPLIED" \in States
  BY OpsAre, StatesAre
<1> HIDE DEF d, x, op
<1>4. /\ Takes(d, <<Set(op, "APPLIED")>>, {d, x}, x) /\ Near(d, op, None, x) /\ x \in Rows
      /\ x.row[op] = "APPLIED" /\ op \in x.art /\ x = After(d, <<Set(op, "APPLIED")>>)
  BY <1>2, <1>3, RowSet DEF x
<1>5. Truth(x, relay[j])
  BY <1>2, <1>3, <1>4, TruthNear
<1>6. /\ x.row["settlement"] = "PREPARED" /\ (\A o \in Reverts : x.row[o] = None) /\ x.receipt = None
      /\ x.fee = "RESERVED" /\ \A o \in WalletOps : x.row[o] \in {"APPLIED", None}
  BY <1>2, <1>3, <1>4, OpsAre DEF MadeRows, Near, op
<1>7. Awaitable(x)
  BY <1>6, OpsAre DEF Awaitable, Live
<1>8. PICK Q, e : /\ Takes(x, markAwaitingRelay(x), Q, e) /\ Beside(x, None, e)
                  /\ \A o \in Ops : e.row[o] = Waits(x, o)
                  /\ \A z \in Q : /\ Beside(x, None, z)
                                  /\ \A o \in Ops : \/ z.row[o] = x.row[o]
                                                    \/ Live(x, o) /\ z.row[o] \in {"APPLIED", "AWAITING_RELAY"}
  BY <1>4, <1>7, TakesAwaiting
<1> DEFINE ws == <<Set(op, "APPLIED")>> \o markAwaitingRelay(x)
           P == {d, x} \cup Q
           rec == [In("awaiting") EXCEPT !.tx = TRUE]
           b == [NoBuild EXCEPT !.pc = "answer"]
<1>9. /\ Plan(j, ws) /\ mem' = [mem EXCEPT ![j] = rec] /\ build' = [build EXCEPT ![j] = b] /\ UNCHANGED chain
  BY <1>4 DEF Complete, d, op
<1>10. Takes(d, ws, P, e)
  BY <1>4, <1>8, TakesBoth
<1>11. ASSUME NEW z, Beside(x, None, z), \A o \in Ops : \/ z.row[o] = x.row[o]
                                                        \/ Live(x, o) /\ z.row[o] \in {"APPLIED", "AWAITING_RELAY"}
       PROVE  Truth(z, relay[j])
  <2>1. z.receipt = None /\ z.fee = "RESERVED" /\ (\A o \in Reverts : z.row[o] = None)
    BY <1>6, <1>11, OpsAre DEF Beside, Live
  <2>2. z.row["settlement"] \in {"PREPARED", "APPLIED", "AWAITING_RELAY"}
        /\ \A o \in WalletOps : z.row[o] \in {"APPLIED", None, "AWAITING_RELAY"}
    BY <1>6, <1>11, OpsAre
  <2>3. Unsent(z)
    BY <2>1, <2>2, OpsAre DEF Unsent, None
  <2> QED
    BY <1>2, <2>1, <2>2, <2>3, OpsAre DEF Truth, terminal, None
<1>12. \A z \in P : Truth(z, relay[j])
  BY <1>2, <1>5, <1>8, <1>11
<1>13. \A o \in Ops : \/ e.row[o] = x.row[o] /\ ~Live(x, o)
                      \/ Live(x, o) /\ e.row[o] = "AWAITING_RELAY"
  BY <1>8 DEF Waits
<1>14. Truth(e, relay[j])
  BY <1>8, <1>11, <1>13
<1>15. Owned(e)
  <2>1. e.row["settlement"] = "AWAITING_RELAY" /\ e.row["dustFinal"] = "AWAITING_RELAY"
    BY <1>3, <1>4, <1>6, <1>13, OpsAre DEF Live, op, terminal, None
  <2>2. \A o \in WalletOps : e.row[o] # "PREPARED"
    BY <1>6, <1>13, OpsAre DEF None
  <2>3. e.fee = "RESERVED" /\ "dustFinal" \in e.art
    BY <1>4, <1>6, <1>8 DEF Beside, op
  <2> QED
    BY <2>1, <2>2, <2>3 DEF Owned, relayAmbiguous, Artifactless, Live, terminal, None
<1>16. Truth(e, "half")
  <2>1. Unsent(e) /\ e.row["revert"] = None /\ e.receipt # "error"
    BY <1>2, <1>6, <1>8, <1>13, <1>14, OpsAre DEF Truth, Beside, Live, None
  <2>2. e.row["settlement"] \notin terminal /\ e.row["settlement"] # None
    BY <1>6, <1>13, OpsAre DEF Live, terminal, None
  <2> QED
    BY <1>15, <2>1, <2>2 DEF Truth, None
<1>17. rec \in Record /\ b \in Build /\ rec.place = "awaiting" /\ ~rec.local /\ b.pc = "answer" /\ ~b.call
  BY DEF In, NoRecord, Record, Places, NoBuild, Build, Steps
<1>18. Typed /\ mem'[j] = rec /\ build'[j] = b /\ chain[j] \in Chain /\ todo[j] \in Record /\ relay[j] \in Answers
       /\ busy \in Jobs \cup {Nobody} /\ target \in Recoveries \cup {None} /\ (target # None => busy \in Jobs)
  BY <1>9, AtRest DEF IInv, Typed
<1>19. Touched(j)
  BY <1>9, <1>17, <1>18 DEF Touched, Typed
<1>20. e.row["settlement"] # None /\ e.row["revert"] = None
  BY <1>6, <1>13, OpsAre DEF Live, None
<1>21. ASSUME Ahead(db, plan, j)' = e, Via(db, plan, j)' \subseteq P PROVE JobOK(j)'
  <2>1. TruthOK(j)' /\ SendOK(j)' /\ FreshOK(j)'
    BY <1>12, <1>16, <1>20, <1>21 DEF TruthOK, SendOK, FreshOK
  <2>2. BuildOK(j)' /\ BuildRows(j)'
    BY <1>2, <1>17, <1>18 DEF BuildOK, BuildRows, Making
  <2>3. ChainOK(j)' /\ LocalOK(j)' /\ RetryOK(j)'
    <3>1. chain'[j] = Idle /\ todo'[j] = NoRecord /\ busy' # j /\ phase' # "boot" /\ ~mem'[j].local
      BY <1>2, <1>9, <1>17, <1>18
    <3> QED
      BY <3>1 DEF ChainOK, LocalOK, RetryOK, Retrying, Idle, NoRecord
  <2>4. RevertOK(j)' /\ KeptOK(j)'
    BY <1>17, <1>18, <1>20, <1>21 DEF RevertOK, KeptOK, None
  <2> QED
    BY <2>1, <2>2, <2>3, <2>4 DEF JobOK
<1> HIDE DEF ws, P
<1> QED
  BY <1>2, <1>9, <1>10, <1>19, <1>21, Handler DEF d

\* revertWallet begins: its row is prepared if it was not, and reverting.
LEMMA BeginsRevert ==
    ASSUME NEW d \in Rows, NEW r, Truth(d, r), Dead(r), Live(d, "settlement"),
           d.row["revert"] \in {None, "QUARANTINED", "REVERTING"}
    PROVE  \E P, e : /\ Takes(d, RevertRows(d), P, e) /\ e \in Rows /\ e.row["revert"] = "REVERTING"
                     /\ e.receipt = d.receipt /\ \A o \in Ops : o # "revert" => e.row[o] = d.row[o]
                     /\ \A z \in P : Truth(z, r)
<1> DEFINE op == "revert"
<1>1. op \in Ops \ {"settlement"} /\ op \in Ops /\ ~Sent(r)
  BY OpsAre DEF Sent, Dead
<1>2. {"PREPARED", "REVERTING", "QUARANTINED"} \subseteq States /\ Moves(None, "PREPARED") /\ Moves("PREPARED", "REVERTING")
      /\ Moves("QUARANTINED", "REVERTING")
  BY StatesAre DEF terminal
<1>3. CASE d.row[op] = None
  <2> DEFINE x == Put(d, Set(op, "PREPARED"))
             z == Put(x, Set(op, "REVERTING"))
  <2>1. Moves(d.row[op], "PREPARED")
    BY <1>2, <1>3
  <2> HIDE DEF op, x, z
  <2>2. Takes(d, <<Set(op, "PREPARED")>>, {d, x}, x) /\ Near(d, op, None, x) /\ x \in Rows /\ x.row[op] = "PREPARED"
    BY <1>1, <1>2, <2>1, RowSet DEF x
  <2>3. Moves(x.row[op], "REVERTING")
    BY <1>2, <2>2
  <2>4. Takes(x, <<Set(op, "REVERTING")>>, {x, z}, z) /\ Near(x, op, None, z) /\ z \in Rows /\ z.row[op] = "REVERTING"
    BY <1>1, <1>2, <2>2, <2>3, RowSet DEF z
  <2>5. x.row["settlement"] = d.row["settlement"] /\ Live(x, "settlement")
    BY <2>2, OpsAre DEF Near, Live, op
  <2>6. Truth(x, r)
    BY <1>1, <2>2, TruthNear
  <2>7. Truth(z, r)
    BY <1>1, <2>2, <2>4, <2>5, <2>6, TruthNear
  <2>8. RevertRows(d) = <<Set(op, "PREPARED"), Set(op, "REVERTING")>>
    BY <1>3 DEF RevertRows, op, None
  <2>9. RevertRows(d) = <<Set(op, "PREPARED")>> \o <<Set(op, "REVERTING")>>
    <3>1. Set(op, "PREPARED") \in {Set(op, "PREPARED"), Set(op, "REVERTING")} /\ Set(op, "REVERTING") \in {Set(op, "PREPARED"), Set(op, "REVERTING")}
      OBVIOUS
    <3> QED
      BY <2>8, <3>1, PairOf, Zenon
  <2>10. Takes(d, RevertRows(d), {d, x} \cup {x, z}, z)
    BY <2>2, <2>4, <2>9, TakesBoth
  <2>11. z.receipt = d.receipt /\ \A o \in Ops : o # op => z.row[o] = d.row[o]
    BY <1>1, <2>2, <2>4, NearRows
  <2>12. \A y \in {d, x} \cup {x, z} : Truth(y, r)
    BY <2>6, <2>7
  <2> QED
    BY <2>4, <2>10, <2>11, <2>12 DEF op
<1>4. CASE d.row[op] = "QUARANTINED"
  <2> DEFINE z == Put(d, Set(op, "REVERTING"))
  <2>1. Moves(d.row[op], "REVERTING")
    BY <1>2, <1>4
  <2> HIDE DEF op, z
  <2>2. Takes(d, <<Set(op, "REVERTING")>>, {d, z}, z) /\ Near(d, op, None, z) /\ z \in Rows /\ z.row[op] = "REVERTING"
    BY <1>1, <1>2, <2>1, RowSet DEF z
  <2>3. Truth(z, r)
    BY <1>1, <2>2, TruthNear
  <2>4. RevertRows(d) = <<Set(op, "REVERTING")>>
    BY <1>4 DEF RevertRows, op, None
  <2>5. z.receipt = d.receipt /\ \A o \in Ops : o # op => z.row[o] = d.row[o]
    BY <1>1, <2>2, NearRows
  <2>6. \A y \in {d, z} : Truth(y, r)
    BY <2>3
  <2> QED
    BY <2>2, <2>4, <2>5, <2>6 DEF op
<1>5. CASE d.row[op] = "REVERTING"
  <2>1. RevertRows(d) = <<>>
    BY <1>5 DEF RevertRows, None
  <2>2. Takes(d, RevertRows(d), {d}, d)
    BY <2>1, TakesNone
  <2> QED
    BY <1>5, <2>2
<1> QED
  BY <1>3, <1>4, <1>5

\* A job whose revert is under way.
LEMMA JobReverting ==
    ASSUME NEW j \in Jobs, NEW P, NEW e, Ahead(db, plan, j)' = e, Via(db, plan, j)' \subseteq P,
           \A x \in P : Truth(x, relay'[j]), BuildOK(j)', ~Making(j)', chain'[j].at = "revert", Dead(relay'[j]),
           busy' # j \/ target' = None, Live(e, "settlement"), e.row["revert"] = "REVERTING",
           mem'[j].reverting, mem'[j].place # "none",
           todo'[j].place # "boot", todo'[j].local => todo'[j].place # "none"
    PROVE  JobOK(j)'
<1>1. TruthOK(j)' /\ SendOK(j)' /\ FreshOK(j)'
  BY DEF TruthOK, SendOK, FreshOK, Live, Dead
<1>2. BuildRows(j)'
  BY DEF BuildRows
<1>3. ChainOK(j)' /\ LocalOK(j)' /\ RetryOK(j)'
  BY DEF ChainOK, LocalOK, RetryOK, Retrying, Gone
<1>4. RevertOK(j)' /\ KeptOK(j)'
  BY DEF RevertOK, KeptOK
<1> QED
  BY <1>1, <1>2, <1>3, <1>4 DEF JobOK

\* The half is complete, and too late: it is reverted.
LEMMA HalfLate ==
    ASSUME IInv, Quiet, NEW j \in Jobs, build[j].pc = "dustFinal", db[j].row["dustFinal"] = "PREPARED",
           UNCHANGED <<db, phase, todo, busy, target, relay>>, mem[j].timedOut,
           Complete(j, After(db[j], <<Set("dustFinal", "APPLIED")>>))
    PROVE  IInv'
<1> DEFINE d == db[j]
           op == "dustFinal"
           x == Put(d, Set(op, "APPLIED"))
<1>1. Making(j)
  BY DEF Making
<1>2. /\ MadeRows(d, mem[j].timedOut, build[j]) /\ ~Sent(relay[j]) /\ Live(d, "settlement") /\ relay[j] = "error"
      /\ d \in Rows /\ Truth(d, relay[j]) /\ todo[j] = NoRecord /\ busy # j /\ phase # "boot"
  BY <1>1, WhileMaking, AtRest
<1>3. op \in Ops \ {"settlement"} /\ op \in WalletOps /\ op # "revert" /\ Moves(d.row[op], "APPLIED") /\ "APPLIED" \in States
  BY OpsAre, StatesAre
<1> HIDE DEF d, x, op
<1>4. /\ Takes(d, <<Set(op, "APPLIED")>>, {d, x}, x) /\ Near(d, op, None, x) /\ x \in Rows
      /\ x.row[op] = "APPLIED" /\ op \in x.art /\ x = After(d, <<Set(op, "APPLIED")>>)
  BY <1>2, <1>3, RowSet DEF x
<1>5. Truth(x, relay[j]) /\ Dead(relay[j])
  BY <1>2, <1>3, <1>4, TruthNear DEF Dead
<1>6. Live(x, "settlement") /\ x.row["revert"] = None
  BY <1>2, <1>3, <1>4, OpsAre DEF MadeRows, Near, Live, op
<1>7. PICK Q, e : /\ Takes(x, RevertRows(x), Q, e) /\ e \in Rows /\ e.row["revert"] = "REVERTING"
                  /\ e.receipt = x.receipt /\ \A o \in Ops : o # "revert" => e.row[o] = x.row[o]
                  /\ \A z \in Q : Truth(z, relay[j])
  BY <1>4, <1>5, <1>6, BeginsRevert
<1> DEFINE ws == <<Set(op, "APPLIED")>> \o RevertRows(x)
           P == {d, x} \cup Q
           rec == [In("awaiting") EXCEPT !.tx = TRUE, !.refused = TRUE, !.reverting = TRUE]
<1>8. /\ Plan(j, ws) /\ mem' = [mem EXCEPT ![j] = rec] /\ build' = [build EXCEPT ![j] = NoBuild]
      /\ chain' = [chain EXCEPT ![j] = [at |-> "revert", rec |-> rec]]
  BY <1>4 DEF Complete, d, op
<1>9. Takes(d, ws, P, e)
  BY <1>4, <1>7, TakesBoth
<1>10. \A z \in P : Truth(z, relay[j])
  BY <1>2, <1>5, <1>7
<1>11. rec \in Record /\ rec.place = "awaiting" /\ rec.reverting /\ NoBuild \in Build
  BY DEF In, NoRecord, Record, Places, NoBuild, Build, Steps
<1>12. Typed /\ mem'[j] = rec /\ build'[j] = NoBuild /\ chain'[j] = [at |-> "revert", rec |-> rec]
       /\ todo[j] \in Record /\ relay[j] \in Answers
       /\ busy \in Jobs \cup {Nobody} /\ target \in Recoveries \cup {None} /\ (target # None => busy \in Jobs)
  BY <1>8, AtRest DEF IInv, Typed
<1>13. chain'[j] \in Chain /\ chain'[j].at = "revert"
  BY <1>11, <1>12 DEF Chain
<1>14. Touched(j)
  BY <1>8, <1>11, <1>12, <1>13 DEF Touched, Typed
<1>15. Live(e, "settlement")
  BY <1>6, <1>7, OpsAre DEF Live
<1>16. todo'[j].place # "boot" /\ (todo'[j].local => todo'[j].place # "none") /\ busy' # j /\ relay'[j] = relay[j]
  BY <1>2 DEF NoRecord
<1> HIDE DEF ws, P, rec
<1>17. ASSUME Ahead(db, plan, j)' = e, Via(db, plan, j)' \subseteq P PROVE JobOK(j)'
  <2>1. BuildOK(j)' /\ ~Making(j)'
    BY <1>12 DEF BuildOK, Making, NoBuild
  <2> QED
    BY <1>5, <1>7, <1>10, <1>11, <1>12, <1>13, <1>15, <1>16, <1>17, <2>1, JobReverting
<1> QED
  BY <1>2, <1>8, <1>9, <1>14, <1>17, Handler DEF d

\* A call to the wallet returns.
LEMMA WalletReturnsKeeps == ASSUME IInv, NEW j \in Jobs, WalletReturns(j) PROVE IInv'
<1> DEFINE op == build[j].pc
           d == db[j]
<1>1. Quiet /\ op \in WalletOps /\ UNCHANGED <<db, phase, todo, busy, target, relay>>
  BY DEF WalletReturns, sweeper
<1>2. Making(j)
  BY <1>1, OpsAre DEF Making
<1>3. /\ ~Sent(relay[j]) /\ Live(d, "settlement") /\ ~build[j].call
      /\ d \in Rows /\ Truth(d, relay[j]) /\ build[j] \in Build
  BY <1>1, <1>2, WhileMaking, AtRest, OpsAre
<1>4. CASE d.row[op] = "PREPARED" /\ op = "dustFinal" /\ Complete(j, After(db[j], <<Set(op, "APPLIED")>>))
  BY <1>1, <1>4, HalfInTime, HalfLate
<1>5. CASE /\ d.row[op] = "PREPARED" /\ op # "dustFinal"
           /\ build' = [build EXCEPT ![j].pc = NextOp(op), ![j].own = Own(j, op)]
           /\ Plan(j, <<Set(op, "APPLIED")>>
                        \o (IF op = "dust" THEN <<Fee("RESERVED")>> ELSE <<>>)
                        \o <<Set(NextOp(op), "PREPARED")>>)
           /\ UNCHANGED <<mem, chain>>
  BY <1>1, <1>5, NextHalf
<1>6. CASE /\ d.row[op] = "PREPARED"
           /\ ToCleanup(j, Own(j, op))
           /\ Plan(j, <<Set(op, "APPLIED")>>) /\ UNCHANGED <<mem, chain>>
  <2> DEFINE b == [build[j] EXCEPT !.pc = "cleanup", !.own = Own(j, op)]
             x == Put(d, Set(op, "APPLIED"))
             ws == <<Set(op, "APPLIED")>>
             P == {d, x}
  <2>1. op \in Ops \ {"settlement"} /\ op \in Ops /\ op # "revert" /\ Moves(d.row[op], "APPLIED") /\ "APPLIED" \in States
    BY <1>1, <1>6, OpsAre, StatesAre
  <2>2. b \in Build /\ b.pc = "cleanup" /\ b.call = build[j].call /\ build' = [build EXCEPT ![j] = b]
    <3>1. Own(j, op) \subseteq WalletOps
      BY <1>1, <1>3 DEF Own, Build
    <3> QED
      BY <1>3, <1>6, <3>1 DEF Build, Steps, ToCleanup, IInv, Typed
  <2> HIDE DEF d, x, op, b
  <2>3. Takes(d, ws, P, x) /\ Near(d, op, None, x) /\ x \in Rows /\ x.row[op] = "APPLIED"
    BY <1>3, <2>1, RowSet DEF x
  <2>4. Truth(x, relay[j])
    BY <1>3, <2>1, <2>3, TruthNear
  <2>5. \A z \in P : Truth(z, relay[j])
    BY <1>3, <2>4
  <2>6. x.receipt = d.receipt /\ \A o \in Ops \ WalletOps : x.row[o] = d.row[o]
    BY <1>1, <1>3, <2>1, <2>3, NearRows
  <2>7. Plan(j, ws) /\ ~b.call
    BY <1>3, <1>6, <2>2
  <2>8. UNCHANGED <<db, mem, chain, phase, todo, busy, target, relay>>
    BY <1>1, <1>6
  <2> HIDE DEF ws, P
  <2> QED
    BY <1>1, <1>2, <2>2, <2>3, <2>5, <2>6, <2>7, <2>8, CleansUpRows DEF d
<1>7. CASE ToCleanup(j, build[j].own) /\ UNCHANGED <<mem, chain, plan>>
  <2> DEFINE b == [build[j] EXCEPT !.pc = "cleanup", !.own = build[j].own]
  <2>1. b \in Build /\ b.pc = "cleanup" /\ ~b.call /\ build' = [build EXCEPT ![j] = b]
    BY <1>3, <1>7 DEF Build, Steps, ToCleanup, IInv, Typed
  <2>2. UNCHANGED <<db, mem, chain, phase, todo, busy, target, relay>> /\ UNCHANGED plan
    BY <1>1, <1>7
  <2> HIDE DEF b
  <2> QED
    BY <1>1, <1>2, <2>1, <2>2, CleansUp
<1> QED
  BY <1>4, <1>5, <1>6, <1>7 DEF WalletReturns

\* What the deadline makes of a job that is being built.
LEMMA AnsweredError ==
    ASSUME Typed, NEW j \in Jobs, relay[j] \in {"open", "error"}, relay' = Answered(j)
    PROVE  relay'[j] = "error" /\ relay' = [relay EXCEPT ![j] = relay'[j]] /\ relay'[j] \in Answers
  BY DEF Typed, Answered, Answers

\* The deadline of a build: its rows are held, and the relay has an answer.
LEMMA TimeoutKeeps == ASSUME IInv, NEW j \in Jobs, Timeout(j) PROVE IInv'
<1> DEFINE d == db[j]
           m == [mem[j] EXCEPT !.timedOut = TRUE]
<1>1. /\ Quiet /\ build[j].pc \in WalletOps \cup {"addr", "cleanup"} /\ ~mem[j].timedOut
      /\ mem' = [mem EXCEPT ![j].timedOut = TRUE] /\ Plan(j, quarantineGroup(d, "local")) /\ relay' = Answered(j)
      /\ UNCHANGED <<db, build, chain, phase, todo, busy, target>>
  BY DEF Timeout, sweeper
<1>2. Making(j)
  BY <1>1, OpsAre DEF Making
<1>3. /\ chain[j] = Idle /\ todo[j] = NoRecord /\ busy # j /\ phase # "boot"
      /\ mem[j].place = "building" /\ ~mem[j].local /\ ~mem[j].reverting /\ relay[j] \in {"open", "error"}
      /\ build[j].call => build[j].pc = "cleanup" /\ build[j].own # {}
      /\ Live(d, "settlement") /\ MadeRows(d, mem[j].timedOut, build[j]) /\ Truth(d, "error")
  BY <1>1, <1>2, WhileMaking
<1>4. Typed /\ d \in Rows /\ mem[j] \in Record /\ chain[j] \in Chain /\ todo[j] \in Record /\ build[j] \in Build
      /\ busy \in Jobs \cup {Nobody} /\ target \in Recoveries \cup {None} /\ (target # None => busy \in Jobs)
  BY <1>1, AtRest DEF IInv
<1>5. relay'[j] = "error" /\ relay' = [relay EXCEPT ![j] = relay'[j]] /\ relay'[j] \in Answers
  BY <1>1, <1>3, <1>4, AnsweredError
<1>6. mem'[j] = m /\ mem' = [mem EXCEPT ![j] = m] /\ m \in Record /\ m.place = "building" /\ ~m.local /\ ~m.reverting /\ m.timedOut
  BY <1>1, <1>3, <1>4 DEF Typed, Record
<1> HIDE DEF d, m
<1>7. Touched(j)
  BY <1>1, <1>4, <1>5, <1>6 DEF Touched, Typed
<1>8. PICK P, e : /\ Takes(d, quarantineGroup(d, "local"), P, e) /\ AllHeld(d, "local", e)
                  /\ \A x \in P : Holding(d, "local", x)
  BY <1>4, TakesHold
<1>9. \A x \in P : Truth(x, "error")
  BY <1>3, <1>4, <1>8, TruthHolding DEF Sent
<1>10. /\ e.receipt = d.receipt /\ e.fee = d.fee /\ d.art \subseteq e.art
       /\ \A op \in Ops : e.row[op] = IF Live(d, op) THEN "QUARANTINED" ELSE d.row[op]
  BY <1>8 DEF AllHeld, Beside
<1>11. MadeRows(e, m.timedOut, build[j])
  <2>1. /\ d.row["settlement"] = "PREPARED" /\ d.receipt = None /\ \A op \in Reverts : d.row[op] = None
        /\ build[j].pc \in {"read", "addr"} => build[j].own = {} /\ \A op \in WalletOps : d.row[op] = None
        /\ build[j].pc \in WalletOps =>
             /\ d.row[build[j].pc] = "PREPARED"
             /\ \A op \in WalletOps \ {build[j].pc} : d.row[op] \in {"APPLIED", None}
             /\ \A op \in Later(build[j].pc) : d.row[op] = None
        /\ build[j].pc = "dustFinal" => d.fee = "RESERVED" /\ ("dust" \in d.art)
    BY <1>1, <1>3 DEF MadeRows
  <2>2. e.row["settlement"] = "QUARANTINED" /\ e.receipt = None /\ \A op \in Reverts : e.row[op] = None
    BY <1>10, <2>1, OpsAre DEF Live, terminal, None
  <2>3. build[j].pc \in {"read", "addr"} => build[j].own = {} /\ \A op \in WalletOps : e.row[op] = None
    BY <1>10, <2>1, OpsAre DEF Live
  <2>4. build[j].pc \in WalletOps =>
             /\ e.row[build[j].pc] = "QUARANTINED"
             /\ \A op \in WalletOps \ {build[j].pc} : e.row[op] \in {"QUARANTINED", None}
             /\ \A op \in Later(build[j].pc) : e.row[op] = None
    <3>1. \A op \in WalletOps : Later(op) \subseteq Ops /\ op \in Ops
      BY OpsAre DEF Later
    <3> QED
      BY <3>1, <1>10, <2>1 DEF Live, terminal, None
  <2>5. build[j].pc = "dustFinal" => e.fee = "RESERVED" /\ ("dust" \in e.art)
    BY <1>10, <2>1
  <2>6. build[j].pc # "read"
    BY <1>1, OpsAre
  <2> QED
    BY <1>6, <2>2, <2>3, <2>4, <2>5, <2>6 DEF MadeRows
<1>12. ASSUME Ahead(db, plan, j)' = e, Via(db, plan, j)' \subseteq P PROVE JobOK(j)'
  <2>0. e.row["settlement"] # None /\ e.row["revert"] = None /\ build'[j] = build[j]
    BY <1>1, <1>11, OpsAre DEF MadeRows, None
  <2>1. TruthOK(j)' /\ SendOK(j)' /\ FreshOK(j)'
    BY <1>5, <1>9, <1>12, <2>0 DEF TruthOK, SendOK, FreshOK
  <2>2. BuildOK(j)'
    BY <1>1, <1>2, <1>3, <1>5, <1>6, <2>0 DEF BuildOK, Making
  <2>3. BuildRows(j)'
    BY <1>6, <1>11, <1>12, <2>0 DEF BuildRows
  <2>4. ChainOK(j)' /\ LocalOK(j)' /\ RetryOK(j)'
    BY <1>1, <1>3, <1>6 DEF ChainOK, LocalOK, RetryOK, Retrying, Idle, NoRecord
  <2>5. RevertOK(j)' /\ KeptOK(j)'
    BY <1>6, <1>12, <2>0 DEF RevertOK, KeptOK, None
  <2> QED
    BY <2>1, <2>2, <2>3, <2>4, <2>5 DEF JobOK
<1> QED
  BY <1>1, <1>3, <1>7, <1>8, <1>12, Handler DEF d

\* The half is sent, or the socket is gone.
LEMMA AnswerKeeps == ASSUME IInv, NEW j \in Jobs, Answer(j) PROVE IInv'
<1> DEFINE d == db[j]
<1>1. /\ Quiet /\ build[j].pc = "answer" /\ build' = [build EXCEPT ![j] = NoBuild]
      /\ relay' \in {relay, [relay EXCEPT ![j] = IF @ = "open" THEN "half" ELSE @]}
      /\ UNCHANGED <<db, plan, mem, chain, phase, todo, busy, target>>
  BY DEF Answer, sweeper
<1>2. /\ Ahead(db, plan, j) = d /\ Via(db, plan, j) = {d} /\ JobOK(j)
      /\ d \in Rows /\ mem[j] \in Record /\ build[j] \in Build /\ chain[j] \in Chain
      /\ todo[j] \in Record /\ relay[j] \in Answers /\ Truth(d, relay[j])
      /\ phase \in Phases /\ busy \in Jobs \cup {Nobody} /\ target \in Recoveries \cup {None}
      /\ target # None => busy \in Jobs
  BY <1>1, AtRest
<1>3. Typed /\ NoBuild \in Build /\ build'[j] = NoBuild
  BY <1>1 DEF IInv, Typed, NoBuild, Build, Steps
<1>4. /\ relay' = [relay EXCEPT ![j] = relay'[j]] /\ relay'[j] \in Answers
      /\ relay'[j] = relay[j] \/ (relay[j] = "open" /\ relay'[j] = "half")
  BY <1>1, <1>2, <1>3 DEF Typed, Answers
<1>5. Touched(j)
  BY <1>1, <1>2, <1>3, <1>4 DEF Touched, Typed
<1>6. Plan(j, <<>>) /\ Takes(d, <<>>, {d}, d)
  BY <1>1, PlansNothing, TakesNone
<1>7. Truth(d, relay'[j])
  BY <1>1, <1>2, <1>4 DEF JobOK, SendOK
<1> HIDE DEF d
<1>8. ASSUME Ahead(db, plan, j)' = d, Via(db, plan, j)' \subseteq {d} PROVE JobOK(j)'
  <2>1. TruthOK(j)' /\ SendOK(j)'
    BY <1>3, <1>7, <1>8 DEF TruthOK, SendOK, NoBuild
  <2>2. FreshOK(j)' /\ BuildOK(j)' /\ BuildRows(j)'
    BY <1>1, <1>2, <1>3, <1>8 DEF JobOK, FreshOK, BuildOK, BuildRows, Making, NoBuild
  <2>3. ChainOK(j)' /\ RetryOK(j)' /\ RevertOK(j)' /\ KeptOK(j)'
    BY <1>1, <1>2, <1>4, <1>8 DEF JobOK, ChainOK, RetryOK, RevertOK, KeptOK, Retrying, Dead
  <2>4. LocalOK(j)'
    <3>1. mem[j].local => Dead(relay[j])
      BY <1>1, <1>2 DEF JobOK, LocalOK, Gone
    <3>2. mem'[j].local => Dead(relay'[j])
      BY <1>1, <1>4, <3>1 DEF Dead
    <3> QED
      BY <1>1, <1>2, <3>2 DEF JobOK, LocalOK, Gone
  <2> QED
    BY <2>1, <2>2, <2>3, <2>4 DEF JobOK
<1> DEFINE P == {d}
           ws == <<>>
<1>9. Plan(j, ws) /\ Takes(d, ws, P, d) /\ ((Ahead(db, plan, j)' = d /\ Via(db, plan, j)' \subseteq P) => JobOK(j)')
      /\ ((\A x \in P : ~Live(x, "settlement")) \/ Live(d, "settlement"))
  BY <1>6, <1>8
<1> HIDE DEF P, ws
<1> QED
  BY <1>1, <1>5, <1>9, Handler DEF d

\* The contribution that a cleanup comes to next is one it owns.
LEMMA FirstIn == ASSUME NEW own \in SUBSET WalletOps, own # {} PROVE First(own) \in own
<1> DEFINE Next0(i) == CleanupOrder[i] \in own /\ \A k \in 1..i-1 : CleanupOrder[k] \notin own
<1>1. /\ CleanupOrder[1] = "residualFinal" /\ CleanupOrder[2] = "dustFinal"
      /\ CleanupOrder[3] = "residual" /\ CleanupOrder[4] = "dust"
  BY DEF CleanupOrder
<1>2. \E i \in 1..4 : CleanupOrder[i] \in own
  <2>1. PICK o \in own : o \in {"residual", "dust", "residualFinal", "dustFinal"}
    BY OpsAre
  <2>2. o = CleanupOrder[1] \/ o = CleanupOrder[2] \/ o = CleanupOrder[3] \/ o = CleanupOrder[4]
    BY <1>1, <2>1
  <2> QED
    BY <2>2
<1>3. \E i \in 1..4 : Next0(i)
  <2>1. CASE CleanupOrder[1] \in own
    <3>1. Next0(1)
      BY <2>1
    <3> QED
      BY <3>1
  <2>2. CASE CleanupOrder[1] \notin own /\ CleanupOrder[2] \in own
    <3>1. Next0(2)
      BY <2>2
    <3> QED
      BY <3>1
  <2>3. CASE CleanupOrder[1] \notin own /\ CleanupOrder[2] \notin own /\ CleanupOrder[3] \in own
    <3>1. Next0(3)
      BY <2>3
    <3> QED
      BY <3>1
  <2>4. CASE CleanupOrder[1] \notin own /\ CleanupOrder[2] \notin own /\ CleanupOrder[3] \notin own /\ CleanupOrder[4] \in own
    <3>1. Next0(4)
      BY <2>4
    <3> QED
      BY <3>1
  <2> QED
    BY <1>2, <2>1, <2>2, <2>3, <2>4
<1> DEFINE n == CHOOSE i \in 1..4 : Next0(i)
<1>4. Next0(n)
  BY <1>3
<1>5. First(own) = CleanupOrder[n]
  BY DEF First
<1> QED
  BY <1>4, <1>5

\* The cleanup leaves a contribution it cannot revert, or begins to revert it.
LEMMA CleanupCallKeeps == ASSUME IInv, NEW j \in Jobs, CleanupCall(j) PROVE IInv'
<1> DEFINE op == First(build[j].own)
           d == db[j]
<1>1. /\ Quiet /\ build[j].pc = "cleanup" /\ build[j].own # {} /\ ~build[j].call
      /\ UNCHANGED <<db, mem, chain, phase, todo, busy, target, relay>>
  BY DEF CleanupCall, sweeper, world
<1>2. Making(j)
  BY <1>1 DEF Making
<1>3. /\ ~Sent(relay[j]) /\ Live(d, "settlement") /\ d \in Rows /\ Truth(d, relay[j]) /\ build[j] \in Build
  BY <1>1, <1>2, WhileMaking, AtRest
<1>4. op \in build[j].own /\ op \in WalletOps
  BY <1>1, <1>3, FirstIn DEF Build
<1>5. CASE d.row[op] = "APPLIED"
  <2> DEFINE b == [build[j] EXCEPT !.call = TRUE]
             x == Put(d, Set(op, "REVERTING"))
             ws == <<Set(op, "REVERTING")>>
             P == {d, x}
  <2>1. build' = [build EXCEPT ![j].call = TRUE] /\ Plan(j, ws)
    BY <1>5 DEF CleanupCall
  <2>2. b \in Build /\ b.pc = "cleanup" /\ b.own = build[j].own /\ build' = [build EXCEPT ![j] = b]
    BY <1>1, <1>3, <2>1 DEF Build, IInv, Typed
  <2>3. op \in Ops \ {"settlement"} /\ op # "revert" /\ "REVERTING" \in States
        /\ Moves("APPLIED", "REVERTING")
    BY <1>4, OpsAre, StatesAre DEF terminal
  <2>4. Moves(d.row[op], "REVERTING")
    BY <1>5, <2>3
  <2> HIDE DEF d, x, op, b
  <2>5. Takes(d, ws, P, x) /\ Near(d, op, None, x) /\ x \in Rows /\ x.row[op] = "REVERTING"
    BY <1>3, <2>3, <2>4, RowSet DEF x
  <2>6. Truth(x, relay[j])
    BY <1>3, <2>3, <2>5, TruthNear
  <2>7. \A z \in P : Truth(z, relay[j])
    BY <1>3, <2>6
  <2>8. x.receipt = d.receipt /\ \A o \in Ops \ WalletOps : x.row[o] = d.row[o]
    BY <1>3, <1>4, <2>3, <2>5, NearRows
  <2>9. b.own # {}
    BY <1>1, <2>2
  <2> HIDE DEF ws, P
  <2> QED
    BY <1>1, <1>2, <2>1, <2>2, <2>5, <2>7, <2>8, <2>9, CleansUpRows DEF d
<1>6. CASE d.row[op] # "APPLIED"
  <2> DEFINE b == [build[j] EXCEPT !.own = @ \ {op}, !.failed = @ \cup {Kind(op)}, !.call = FALSE]
  <2>1. CleanupFails(j, op) /\ UNCHANGED plan
    BY <1>6 DEF CleanupCall
  <2>2. b \in Build /\ b.pc = "cleanup" /\ ~b.call /\ build' = [build EXCEPT ![j] = b]
    BY <1>1, <1>3, <2>1 DEF Build, IInv, Typed, CleanupFails, Kind
  <2> HIDE DEF b
  <2> QED
    BY <1>1, <1>2, <2>1, <2>2, CleansUp
<1> QED
  BY <1>5, <1>6

\* The row of a contribution is reverted, by way of REVERTING unless it is there or held.
LEMMA RevertsRow ==
    ASSUME NEW d, NEW x \in Rows, NEW r, Truth(x, r), ~Sent(r), Live(x, "settlement"),
           NEW op \in WalletOps, d.row[op] = x.row[op], Live(x, op)
    PROVE  \E P, e : /\ Takes(x, RevertRow(d, op), P, e) /\ e \in Rows /\ e.row[op] = "REVERTED"
                     /\ e.receipt = x.receipt /\ (\A o \in Ops : o # op => e.row[o] = x.row[o])
                     /\ \A z \in P : Truth(z, r)
<1>1. op \in Ops \ {"settlement"} /\ op \in Ops /\ op # "revert" /\ x.row[op] \in States
      /\ {"REVERTING", "REVERTED"} \subseteq States /\ Moves("REVERTING", "REVERTED")
  <2>1. op \in Ops \ {"settlement"} /\ op \in Ops /\ op # "revert"
    BY OpsAre
  <2>2. x.row[op] \in States
    BY <2>1 DEF Live, Rows
  <2> QED
    BY <2>1, <2>2, StatesAre
<1>2. CASE x.row[op] \in {"QUARANTINED", "REVERTING"}
  <2> DEFINE z == Put(x, Set(op, "REVERTED"))
  <2>1. Moves(x.row[op], "REVERTED")
    BY <1>2, StatesAre
  <2> HIDE DEF z
  <2>2. Takes(x, <<Set(op, "REVERTED")>>, {x, z}, z) /\ Near(x, op, None, z) /\ z \in Rows /\ z.row[op] = "REVERTED"
    BY <1>1, <2>1, RowSet DEF z
  <2>3. Truth(z, r)
    BY <1>1, <2>2, TruthNear
  <2>4. RevertRow(d, op) = <<Set(op, "REVERTED")>>
    BY <1>2 DEF RevertRow
  <2>5. z.receipt = x.receipt /\ \A o \in Ops : o # op => z.row[o] = x.row[o]
    BY <1>1, <2>2, NearRows
  <2>6. \A y \in {x, z} : Truth(y, r)
    BY <2>3
  <2> QED
    BY <2>2, <2>4, <2>5, <2>6
<1>3. CASE x.row[op] \notin {"QUARANTINED", "REVERTING"}
  <2> DEFINE y == Put(x, Set(op, "REVERTING"))
             z == Put(y, Set(op, "REVERTED"))
  <2>1. Moves(x.row[op], "REVERTING")
    <3>1. x.row[op] \notin terminal /\ x.row[op] # "RELAY_SUBMITTED"
      BY <1>1 DEF Live, Truth, Unsent, Sent
    <3> QED
      BY <1>1, <1>3, <3>1, StatesAre
  <2> HIDE DEF y, z
  <2>2. Takes(x, <<Set(op, "REVERTING")>>, {x, y}, y) /\ Near(x, op, None, y) /\ y \in Rows /\ y.row[op] = "REVERTING"
    BY <1>1, <2>1, RowSet DEF y
  <2>3. Moves(y.row[op], "REVERTED")
    BY <1>1, <2>2
  <2>4. Takes(y, <<Set(op, "REVERTED")>>, {y, z}, z) /\ Near(y, op, None, z) /\ z \in Rows /\ z.row[op] = "REVERTED"
    BY <1>1, <2>2, <2>3, RowSet DEF z
  <2>5. Live(y, "settlement")
    BY <1>1, <2>2, OpsAre DEF Near, Live
  <2>6. Truth(y, r)
    BY <1>1, <2>2, TruthNear
  <2>7. Truth(z, r)
    BY <1>1, <2>2, <2>4, <2>5, <2>6, TruthNear
  <2>8. RevertRow(d, op) = <<Set(op, "REVERTING"), Set(op, "REVERTED")>>
    BY <1>3 DEF RevertRow
  <2>9. RevertRow(d, op) = <<Set(op, "REVERTING")>> \o <<Set(op, "REVERTED")>>
    <3>1. Set(op, "REVERTING") \in {Set(op, "REVERTING"), Set(op, "REVERTED")} /\ Set(op, "REVERTED") \in {Set(op, "REVERTING"), Set(op, "REVERTED")}
      OBVIOUS
    <3> QED
      BY <2>8, <3>1, PairOf, Zenon
  <2>10. Takes(x, RevertRow(d, op), {x, y} \cup {y, z}, z)
    BY <2>2, <2>4, <2>9, TakesBoth
  <2>11. z.receipt = x.receipt /\ \A o \in Ops : o # op => z.row[o] = x.row[o]
    BY <1>1, <2>2, <2>4, NearRows
  <2>12. \A w \in {x, y} \cup {y, z} : Truth(w, r)
    BY <2>6, <2>7
  <2> QED
    BY <2>4, <2>10, <2>11, <2>12
<1> QED
  BY <1>2, <1>3

\* The revert of a contribution returns: its row is reverted, and the row of what it was made of.
LEMMA CleanupRevertedKeeps ==
    ASSUME IInv, Quiet, NEW j \in Jobs, build[j].call, NEW op \in WalletOps, db[j].row[op] = "REVERTING",
           UNCHANGED <<db, mem, chain, phase, todo, busy, target, relay>>,
           NEW b \in Build, build' = [build EXCEPT ![j] = b], b.pc = "cleanup", ~b.call,
           NEW w2, w2 = (IF op \in Finals /\ Live(db[j], SourceOf[op])
                         THEN RevertRow(db[j], SourceOf[op]) ELSE <<>>),
           Plan(j, <<Set(op, "REVERTED")>> \o w2)
    PROVE  IInv'
<1> DEFINE d == db[j]
           x == Put(d, Set(op, "REVERTED"))
           w1 == <<Set(op, "REVERTED")>>
<1>1. build[j].pc = "cleanup" /\ Making(j)
  <2>1. JobOK(j)
    BY AtRest
  <2> QED
    BY <2>1 DEF JobOK, BuildOK, Making
<1>2. /\ ~Sent(relay[j]) /\ Live(d, "settlement") /\ d \in Rows /\ Truth(d, relay[j]) /\ build[j] \in Build
  BY <1>1, WhileMaking, AtRest
<1>3. w2 = IF op \in Finals /\ Live(d, SourceOf[op]) THEN RevertRow(d, SourceOf[op]) ELSE <<>>
  OBVIOUS
<1>4. op \in Ops \ {"settlement"} /\ op # "revert" /\ "REVERTED" \in States /\ Moves(d.row[op], "REVERTED")
  BY OpsAre, StatesAre
<1> HIDE DEF d, x
<1>5. Takes(d, w1, {d, x}, x) /\ Near(d, op, None, x) /\ x \in Rows /\ x.row[op] = "REVERTED"
  BY <1>2, <1>4, RowSet DEF x
<1>6. Truth(x, relay[j])
  BY <1>2, <1>4, <1>5, TruthNear
<1>7. x.receipt = d.receipt /\ \A o \in Ops : o # op => x.row[o] = d.row[o]
  BY <1>2, <1>4, <1>5, NearRows
<1>8. Live(x, "settlement")
  BY <1>2, <1>4, <1>7, OpsAre DEF Live
<1>9. PICK Q, e : /\ Takes(x, w2, Q, e) /\ e \in Rows /\ e.receipt = x.receipt
                  /\ (\A o \in Ops \ WalletOps : e.row[o] = x.row[o])
                  /\ \A z \in Q : Truth(z, relay[j])
  <2>1. CASE op \in Finals /\ Live(d, SourceOf[op])
    <3> DEFINE src == SourceOf[op]
    <3>1. src \in WalletOps /\ src # op /\ src \in Ops
      BY <2>1, OpsAre DEF Finals, SourceOf
    <3>2. w2 = RevertRow(d, src)
      BY <1>3, <2>1
    <3> HIDE DEF src
    <3>3. d.row[src] = x.row[src] /\ Live(x, src)
      BY <2>1, <1>7, <3>1 DEF Live, src
    <3>4. \E P, e : /\ Takes(x, RevertRow(d, src), P, e) /\ e \in Rows /\ e.row[src] = "REVERTED"
                    /\ e.receipt = x.receipt /\ (\A o \in Ops : o # src => e.row[o] = x.row[o])
                    /\ \A z \in P : Truth(z, relay[j])
      BY <1>2, <1>5, <1>6, <1>8, <3>1, <3>3, RevertsRow
    <3> QED
      BY <3>1, <3>2, <3>4
  <2>2. CASE ~(op \in Finals /\ Live(d, SourceOf[op]))
    <3>1. w2 = <<>> /\ Takes(x, <<>>, {x}, x)
      BY <1>3, <2>2, TakesNone
    <3> QED
      BY <1>5, <1>6, <3>1
  <2> QED
    BY <2>1, <2>2
<1> DEFINE ws == w1 \o w2
           P == {d, x} \cup Q
<1>10. Plan(j, ws)
  OBVIOUS
<1> HIDE DEF w1
<1>11. Takes(d, ws, P, e)
  BY <1>5, <1>9, TakesBoth
<1>12. \A z \in P : Truth(z, relay[j])
  BY <1>2, <1>6, <1>9
<1>13. e \in Rows /\ e.receipt = d.receipt /\ \A o \in Ops \ WalletOps : e.row[o] = d.row[o]
  BY <1>7, <1>9
<1>14. /\ Takes(db[j], ws, P, e) /\ e.receipt = db[j].receipt
       /\ \A o \in Ops \ WalletOps : e.row[o] = db[j].row[o]
  BY <1>11, <1>13 DEF d
<1> HIDE DEF ws, P
<1>15. b.call => b.own # {}
  OBVIOUS
<1> QED
  BY <1>1, <1>10, <1>12, <1>13, <1>14, <1>15, CleansUpRows

\* The revert of a contribution ends: it is reverted, or its outcome is not known.
LEMMA CleanupReturnsKeeps == ASSUME IInv, NEW j \in Jobs, CleanupReturns(j) PROVE IInv'
<1> DEFINE op == First(build[j].own)
           d == db[j]
           b == [build[j] EXCEPT !.own = @ \ {op}, !.failed = @ \cup {Kind(op)}, !.call = FALSE]
<1>1. /\ Quiet /\ build[j].call /\ UNCHANGED <<db, mem, chain, phase, todo, busy, target, relay>>
  BY DEF CleanupReturns, sweeper
<1>2. build[j].pc = "cleanup" /\ build[j].own # {} /\ Making(j) /\ build[j] \in Build
  <2>1. JobOK(j) /\ build[j] \in Build
    BY <1>1, AtRest
  <2> QED
    BY <1>1, <2>1 DEF JobOK, BuildOK, Making
<1>3. op \in WalletOps
  BY <1>2, FirstIn DEF Build
<1>4. CASE /\ d.row[op] = "REVERTING"
           /\ build' = [build EXCEPT ![j].own = @ \ {op}, ![j].call = FALSE]
           /\ Plan(j, <<Set(op, "REVERTED")>> \o (IF op \in Finals /\ Live(d, SourceOf[op])
                                                  THEN RevertRow(d, SourceOf[op]) ELSE <<>>))
  <2> DEFINE c == [build[j] EXCEPT !.own = @ \ {op}, !.call = FALSE]
             w2 == IF op \in Finals /\ Live(d, SourceOf[op]) THEN RevertRow(d, SourceOf[op]) ELSE <<>>
  <2>1. c \in Build /\ c.pc = "cleanup" /\ ~c.call /\ build' = [build EXCEPT ![j] = c]
    BY <1>2, <1>4 DEF Build, IInv, Typed
  <2>2. w2 = (IF op \in Finals /\ Live(db[j], SourceOf[op]) THEN RevertRow(db[j], SourceOf[op]) ELSE <<>>)
    OBVIOUS
  <2>3. Plan(j, <<Set(op, "REVERTED")>> \o w2)
    BY <1>4
  <2> HIDE DEF op, c, w2
  <2> QED
    BY <1>1, <1>3, <1>4, <2>1, <2>2, <2>3, CleanupRevertedKeeps
<1>5. ASSUME CleanupFails(j, op) PROVE b \in Build /\ b.pc = "cleanup" /\ ~b.call /\ build' = [build EXCEPT ![j] = b]
  BY <1>2, <1>5 DEF Build, IInv, Typed, CleanupFails, Kind
<1>6. CASE d.row[op] = "REVERTING" /\ CleanupFails(j, op) /\ Plan(j, <<Because(op, "QUARANTINED", "local")>>)
  <2> DEFINE y == "local"
             s == "QUARANTINED"
             x == Put(d, Because(op, s, y))
             ws == <<Because(op, s, y)>>
             P == {d, x}
  <2>1. /\ ~Sent(relay[j]) /\ Live(d, "settlement") /\ d \in Rows /\ Truth(d, relay[j])
    BY <1>1, <1>2, WhileMaking, AtRest
  <2>2. op \in Ops \ {"settlement"} /\ op # "revert" /\ s \in States /\ Moves(d.row[op], s) /\ y \in Whys
        /\ s \notin {"RELAY_SUBMITTED", "CONFIRMING", "SETTLED"}
    BY <1>3, <1>6, OpsAre, StatesAre DEF Whys
  <2>3. b \in Build /\ b.pc = "cleanup" /\ ~b.call /\ build' = [build EXCEPT ![j] = b] /\ Plan(j, ws)
    BY <1>5, <1>6
  <2> HIDE DEF d, x, op, b, y, s
  <2>4. Takes(d, ws, P, x) /\ Near(d, op, y, x) /\ x.row[op] = s
    BY <2>1, <2>2, RowWritten DEF x
  <2>5. Truth(x, relay[j])
    BY <2>1, <2>2, <2>4, TruthNear
  <2>6. \A z \in P : Truth(z, relay[j])
    BY <2>1, <2>5
  <2>7. x \in Rows /\ x.receipt = d.receipt /\ \A o \in Ops \ WalletOps : x.row[o] = d.row[o]
    BY <1>3, <2>1, <2>2, <2>4, NearRows
  <2> HIDE DEF ws, P
  <2> QED
    BY <1>1, <1>2, <2>3, <2>4, <2>6, <2>7, CleansUpRows DEF d
<1>7. CASE CleanupFails(j, op) /\ UNCHANGED plan
  <2>1. b \in Build /\ b.pc = "cleanup" /\ ~b.call /\ build' = [build EXCEPT ![j] = b]
    BY <1>5, <1>7
  <2> HIDE DEF b
  <2> QED
    BY <1>1, <1>2, <1>7, <2>1, CleansUp
<1> QED
  BY <1>4, <1>6, <1>7 DEF CleanupReturns

\* What the marks write depends on the rows and not on the reservation.
LEMMA MarksAlike ==
    ASSUME NEW d, NEW x, x.row = d.row
    PROVE  markReverted(x) = markReverted(d) /\ markFailed(x) = markFailed(d)
<1>1. \A op : (Live(x, op) <=> Live(d, op)) /\ RevertRow(x, op) = RevertRow(d, op)
  BY DEF Live, RevertRow
<1> DEFINE o == terminalOrder
<1>2. [i \in DOMAIN o |-> IF Live(x, o[i]) THEN RevertRow(x, o[i]) ELSE <<>>]
         = [i \in DOMAIN o |-> IF Live(d, o[i]) THEN RevertRow(d, o[i]) ELSE <<>>]
  <2> HIDE DEF o
  <2> QED
    BY <1>1
<1>3. [i \in DOMAIN o |-> IF Live(x, o[i]) THEN <<Set(o[i], "FAILED")>> ELSE <<>>]
         = [i \in DOMAIN o |-> IF Live(d, o[i]) THEN <<Set(o[i], "FAILED")>> ELSE <<>>]
  <2> HIDE DEF o
  <2> QED
    BY <1>1
<1> QED
  BY <1>2, <1>3 DEF markReverted, markFailed, ForRows

\* The build has failed, and its cleanup is over.
LEMMA CleanupDoneKeeps == ASSUME IInv, NEW j \in Jobs, CleanupDone(j) PROVE IInv'
<1> DEFINE d == db[j]
<1>0. Quiet /\ build[j].pc = "cleanup" /\ UNCHANGED <<db, chain, phase, todo, busy, target>>
  BY DEF CleanupDone, sweeper
<1>1. /\ chain[j] = Idle /\ todo[j] = NoRecord /\ busy # j /\ phase # "boot"
      /\ mem[j].place = "building" /\ relay[j] \in {"open", "error"}
      /\ Live(d, "settlement") /\ d.row["settlement"] \in {"PREPARED", "QUARANTINED"}
      /\ MadeRows(d, mem[j].timedOut, build[j]) /\ Truth(d, "error")
  BY <1>0, WhileMaking DEF Making
<1>2. Typed /\ d \in Rows /\ mem[j] \in Record /\ chain[j] \in Chain /\ todo[j] \in Record
      /\ busy \in Jobs \cup {Nobody} /\ target \in Recoveries \cup {None} /\ (target # None => busy \in Jobs)
  BY <1>0, AtRest DEF IInv
<1>3. build'[j] = NoBuild /\ build' = [build EXCEPT ![j] = NoBuild] /\ NoBuild \in Build
  BY <1>2 DEF CleanupDone, Typed, NoBuild, Build, Steps
<1>4. relay'[j] = "error" /\ relay' = [relay EXCEPT ![j] = relay'[j]] /\ relay'[j] \in Answers
  BY <1>1, <1>2, AnsweredError DEF CleanupDone
<1>5. ASSUME mem'[j] \in Record, mem' = [mem EXCEPT ![j] = mem'[j]] PROVE Touched(j)
  BY <1>0, <1>2, <1>3, <1>4, <1>5 DEF Touched, Typed
<1>6. NoRecord \in Record /\ ~NoRecord.local /\ NoRecord.place = "none"
  BY DEF NoRecord, Record, Places
<1>7. CASE Unresolved(d) = {}
  <2> DEFINE x == Put(d, Fee("RELEASED"))
             late == d.row["settlement"] = "QUARANTINED"
             w1 == <<Fee("RELEASED")>>
             w2 == IF late THEN markReverted(d) ELSE markFailed(d)
  <2>1. mem'[j] = NoRecord /\ mem' = [mem EXCEPT ![j] = mem'[j]] /\ Plan(j, w1 \o w2)
    BY <1>2, <1>7 DEF CleanupDone, Forget, Typed
  <2>2. \A op \in Ops \ {"settlement"} : ~Live(d, op)
    BY <1>7 DEF Unresolved
  <2>3. Takes(d, w1, {d, x}, x) /\ x \in Rows /\ x.row = d.row /\ x.fee # "SPENT" /\ Truth(x, "error")
    <3> DEFINE f == "RELEASED"
    <3>1. f \in Fees /\ f # "SPENT" /\ d.fee # "SPENT" /\ x = Put(d, Fee(f))
      BY <1>1 DEF Fees, Truth, Unsent
    <3> HIDE DEF f, x, d
    <3>2. Takes(d, <<Fee(f)>>, {d, x}, x) /\ x \in Rows /\ x.row = d.row /\ x.fee = FeeTo(d.fee, f)
      BY <1>2, <3>1, FeeWritten
    <3>3. Truth(x, "error")
      BY <1>1, <1>2, <3>1, TruthFee DEF Sent
    <3> QED
      BY <3>1, <3>2, <3>3 DEF f, FeeTo
  <2> HIDE DEF x, d
  <2>4. w2 = IF late THEN markReverted(x) ELSE markFailed(x)
    BY <2>3, MarksAlike
  <2>5. ~Live(x, "revert") /\ Live(x, "settlement") /\ Revertible(x)
        /\ (d.row["settlement"] # "QUARANTINED" => Failable(x))
    BY <1>1, <2>2, <2>3, OpsAre DEF Live, Revertible, Failable
  <2>6. PICK Q, e : /\ Takes(x, w2, Q, e) /\ e.row["settlement"] \in {"REVERTED", "FAILED"}
                    /\ \A z \in Q : Truth(z, "error")
    <3>1. CASE late
      <4>1. PICK Q, e : /\ Takes(x, markReverted(x), Q, e) /\ Closed(x, "REVERTED", FeeTo(x.fee, "RELEASED"), e)
                        /\ \A z \in Q : Closing(x, "REVERTING", "REVERTED", FeeTo(x.fee, "RELEASED"), z)
        BY <2>3, <2>5, TakesReverted
      <4>2. FeeTo(x.fee, "RELEASED") # "SPENT"
        BY <2>3 DEF FeeTo
      <4>3. \A z \in Q : Truth(z, "error")
        BY <2>3, <4>1, <4>2, TruthClosing DEF Sent
      <4>4. e.row["settlement"] = "REVERTED"
        BY <2>5, <4>1, OpsAre DEF Closed, AllEnded, Ended
      <4> QED
        BY <2>4, <3>1, <4>1, <4>3, <4>4
    <3>2. CASE ~late
      <4>1. PICK Q, e : /\ Takes(x, markFailed(x), Q, e) /\ Closed(x, "FAILED", x.fee, e)
                        /\ \A z \in Q : Closing(x, "FAILED", "FAILED", x.fee, z)
        BY <2>3, <2>5, <3>2, TakesFailed
      <4>2. \A z \in Q : Truth(z, "error")
        BY <2>3, <2>5, <4>1, TruthClosing DEF Sent
      <4>3. e.row["settlement"] = "FAILED"
        BY <2>5, <4>1, OpsAre DEF Closed, AllEnded, Ended
      <4> QED
        BY <2>4, <3>2, <4>1, <4>2, <4>3
    <3> QED
      BY <3>1, <3>2
  <2> DEFINE ws == w1 \o w2
             P == {d, x} \cup Q
  <2>7. Plan(j, ws)
    BY <2>1
  <2> HIDE DEF w1, w2
  <2>8. Takes(d, ws, P, e)
    BY <2>3, <2>6, TakesBoth
  <2>9. \A z \in P : Truth(z, "error")
    BY <1>1, <2>3, <2>6
  <2> HIDE DEF ws, P
  <2>10. ~Live(e, "settlement") /\ e.row["settlement"] # None
    BY <2>6 DEF Live, terminal, None
  <2>11. ASSUME Ahead(db, plan, j)' = e, Via(db, plan, j)' \subseteq P PROVE JobOK(j)'
    <3>1. /\ \A z \in P : Truth(z, relay'[j])
          /\ chain'[j] = Idle /\ busy' # j /\ ~mem'[j].local /\ todo'[j].place # "boot" /\ ~todo'[j].local
      BY <1>0, <1>1, <1>4, <1>6, <2>1, <2>9
    <3> QED
      BY <1>3, <2>10, <2>11, <3>1, JobRests
  <2> QED
    BY <1>0, <1>1, <1>5, <1>6, <2>1, <2>7, <2>8, <2>11, Handler DEF d
<1>8. CASE Unresolved(d) # {}
  <2> DEFINE rec == [In("quarantined") EXCEPT !.local = build[j].failed # {}, !.tx = "final" \in build[j].failed]
  <2>1. mem' = [mem EXCEPT ![j] = rec] /\ Plan(j, quarantineGroup(d, "local"))
    BY <1>8 DEF CleanupDone
  <2>2. rec \in Record /\ rec.place = "quarantined"
    <3> DEFINE l == build[j].failed # {}
               t == "final" \in build[j].failed
    <3>1. l \in BOOLEAN /\ t \in BOOLEAN
      OBVIOUS
    <3>2. rec = [In("quarantined") EXCEPT !.local = l, !.tx = t]
      OBVIOUS
    <3> HIDE DEF l, t, rec
    <3> QED
      BY <3>1, <3>2 DEF In, NoRecord, Record, Places
  <2> HIDE DEF rec
  <2>3. mem'[j] = rec /\ mem' = [mem EXCEPT ![j] = mem'[j]]
    BY <1>2, <2>1 DEF Typed
  <2>4. PICK P, e : /\ Takes(d, quarantineGroup(d, "local"), P, e) /\ AllHeld(d, "local", e)
                    /\ \A x \in P : Holding(d, "local", x)
    BY <1>2, TakesHold
  <2>5. \A x \in P : Truth(x, "error")
    BY <1>1, <1>2, <2>4, TruthHolding DEF Sent
  <2>6. e.row["settlement"] = "QUARANTINED" /\ e.row["revert"] = None
    BY <1>1, <2>4, OpsAre DEF AllHeld, MadeRows, Live
  <2> HIDE DEF d
  <2>7. ASSUME Ahead(db, plan, j)' = e, Via(db, plan, j)' \subseteq P PROVE JobOK(j)'
    <3>1. /\ \A z \in P : Truth(z, relay'[j])
          /\ chain'[j] = Idle /\ busy' # j /\ todo'[j].place # "boot" /\ ~todo'[j].local
          /\ Gone(j)' /\ mem'[j].place # "none" /\ e.row["settlement"] # None
          /\ e.row["revert"] \notin {"PREPARED", "REVERTED"}
      BY <1>0, <1>1, <1>4, <1>6, <2>2, <2>3, <2>5, <2>6 DEF Gone, Dead, None
    <3> QED
      BY <1>3, <2>7, <3>1, JobRests
  <2> QED
    BY <1>0, <1>1, <1>5, <2>1, <2>2, <2>3, <2>4, <2>7, Handler DEF d
<1> QED
  BY <1>7, <1>8

-----------------------------------------------------------------------------
(* The operations of terminalChains.                                       *)

\* What an operation of a chain leaves alone, and what it may do to the sweep.
Steady(j) ==
    /\ UNCHANGED <<db, build, phase, target, relay>>
    /\ todo' = [todo EXCEPT ![j] = todo'[j]] /\ todo'[j] \in Record /\ todo'[j].place # "boot"
    /\ todo'[j].local => todo'[j].place # "none"
    /\ busy' \in Jobs \cup {Nobody} /\ (target # None => busy' \in Jobs) /\ (busy' # j \/ target = None)
    /\ \A k \in Jobs \ {j} : busy' = k <=> busy = k
\* What its caller writes before it: nothing, or a mark that holds the rows.
Leads(d, pre, Q, x) == Takes(d, pre, Q, x) /\ \A z \in Q : Holding(d, "relay", z)

\* Held rows are as alive as they were.
LEMMA HeldAlike ==
    ASSUME NEW d, NEW y, NEW x, Holding(d, y, x)
    PROVE  /\ x \in Rows /\ x.receipt = d.receipt
           /\ \A op \in Ops : /\ Live(x, op) <=> Live(d, op)
                              /\ x.row[op] = None <=> d.row[op] = None
                              /\ x.row[op] # "QUARANTINED" => x.row[op] = d.row[op]
  BY DEF Holding, Beside, Live, terminal, None

\* What is written before leads to held rows.
LEMMA LeadsTo ==
    ASSUME NEW d, NEW pre, NEW Q, NEW x, Leads(d, pre, Q, x)
    PROVE  Holding(d, "relay", x) /\ x = After(d, pre)
  BY DEF Leads, Takes, Runs

\* An operation that writes nothing before.
LEMMA LeadsNone == ASSUME NEW d \in Rows PROVE Leads(d, <<>>, {d}, d)
<1>1. Holding(d, "relay", d)
  BY DEF Holding, Beside
<1> QED
  BY <1>1, TakesNone DEF Leads

\* An operation leaves a job without one, but perhaps with a half to send.
LEMMA ChainRests ==
    ASSUME NEW j \in Jobs, NEW P, NEW e, Ahead(db, plan, j)' = e, Via(db, plan, j)' \subseteq P,
           \A x \in P : Truth(x, relay'[j]), BuildOK(j)', ~Making(j)',
           build'[j].pc = "answer" /\ relay'[j] = "open" => Truth(e, "half"), chain'[j] = Idle,
           busy' # j \/ target' = None, e.row["settlement"] # None,
           mem'[j].local => Gone(j)' /\ mem'[j].place # "none",
           todo'[j].place # "boot", todo'[j].local => todo'[j].place # "none",
           Live(e, "settlement") => mem'[j].place # "none" /\ e.row["revert"] \notin {"PREPARED", "REVERTED"}
    PROVE  JobOK(j)'
<1>1. TruthOK(j)' /\ SendOK(j)' /\ FreshOK(j)'
  BY DEF TruthOK, SendOK, FreshOK
<1>2. BuildRows(j)'
  BY DEF BuildRows
<1>3. ChainOK(j)' /\ LocalOK(j)' /\ RetryOK(j)'
  BY DEF ChainOK, LocalOK, RetryOK, Retrying, Idle
<1>4. RevertOK(j)' /\ KeptOK(j)'
  BY DEF RevertOK, KeptOK
<1> QED
  BY <1>1, <1>2, <1>3, <1>4 DEF JobOK

\* What is not being made stays so.
LEMMA NotMaking ==
    ASSUME IInv, Quiet, NEW j \in Jobs, ~Making(j), UNCHANGED <<build, phase>>
    PROVE  BuildOK(j)' /\ ~Making(j)'
<1>1. BuildOK(j)
  BY DEF IInv, JobOK
<1> QED
  BY <1>1 DEF BuildOK, Making

\* A step of a chain is a step of its job.
LEMMA SteadyTouched ==
    ASSUME IInv, Quiet, NEW j \in Jobs, Steady(j), NEW m \in Record, mem' = [mem EXCEPT ![j] = m],
           NEW c \in Chain, chain' = [chain EXCEPT ![j] = c]
    PROVE  Touched(j) /\ mem'[j] = m /\ chain'[j] = c
<1>1. Typed
  BY DEF IInv
<1>2. /\ mem'[j] = m /\ chain'[j] = c /\ build[j] \in Build /\ relay[j] \in Answers
  BY <1>1 DEF Typed
<1> QED
  BY <1>1, <1>2 DEF Steady, Touched, Typed

\* quarantineEvidence: nothing is known yet, and the job is held with its claim.
LEMMA EvidenceHeld ==
    ASSUME IInv, Quiet, NEW j \in Jobs, ~Making(j), Steady(j), db[j].row["settlement"] # None,
           NEW pre, NEW Q, NEW x, Leads(db[j], pre, Q, x),
           Live(x, "settlement") => x.row["revert"] # "REVERTED",
           NEW m \in Record, mem' = [mem EXCEPT ![j] = m], m.place = "quarantined", ~m.local,
           chain' = [chain EXCEPT ![j] = Idle],
           NEW ws, ws = pre \o quarantineGroup(x, "relay"), Plan(j, ws)
    PROVE  IInv'
<1> DEFINE d == db[j]
<1>1. d \in Rows /\ JobOK(j) /\ Ahead(db, plan, j) = d /\ Truth(d, relay[j])
  BY AtRest
<1>2. Idle \in Chain
  BY DEF Idle, Chain, NoRecord, Record, Places
<1>3. Touched(j) /\ mem'[j] = m /\ chain'[j] = Idle
  BY <1>2, SteadyTouched
<1>4. x \in Rows /\ Holding(d, "relay", x) /\ Takes(d, pre, Q, x) /\ \A z \in Q : Holding(d, "relay", z)
  BY LeadsTo, HeldAlike DEF Leads
<1>5. PICK R, e : /\ Takes(x, quarantineGroup(x, "relay"), R, e) /\ AllHeld(x, "relay", e)
                  /\ \A z \in R : Holding(x, "relay", z)
  BY <1>4, TakesHold
<1>6. Holding(x, "relay", e)
  BY <1>5 DEF Takes, Runs
<1> HIDE DEF d
<1>7. ASSUME NEW s, Truth(d, s) PROVE Truth(e, s) /\ \A z \in Q \cup R : Truth(z, s)
  <2> DEFINE y == "relay"
  <2>1. y \in {"local", "relay"} /\ Holding(d, y, x) /\ Holding(x, y, e) /\ y = "relay"
        /\ (\A z \in Q : Holding(d, y, z)) /\ \A z \in R : Holding(x, y, z)
    BY <1>4, <1>5, <1>6
  <2> HIDE DEF y
  <2>2. Truth(x, s) /\ \A z \in Q : Truth(z, s)
    BY <1>1, <1>4, <1>7, <2>1, TruthHolding
  <2>3. Truth(e, s) /\ \A z \in R : Truth(z, s)
    BY <1>4, <2>1, <2>2, TruthHolding
  <2> QED
    BY <2>2, <2>3
<1> DEFINE P == Q \cup R
<1>8. Takes(d, ws, P, e)
  BY <1>4, <1>5, TakesBoth
<1>9. e.row["settlement"] # None /\ (Live(e, "settlement") => e.row["revert"] \notin {"PREPARED", "REVERTED"})
  <2>1. "settlement" \in Ops /\ "revert" \in Ops
    BY OpsAre
  <2>2. e.row["settlement"] # None /\ (Live(e, "settlement") <=> Live(x, "settlement"))
    BY <1>4, <1>6, <2>1, HeldAlike DEF d
  <2>3. e.row["revert"] = IF Live(x, "revert") THEN "QUARANTINED" ELSE x.row["revert"]
    BY <1>5, <2>1 DEF AllHeld
  <2> QED
    BY <2>2, <2>3 DEF Live, terminal, None
<1>10. Live(d, "settlement") \/ \A z \in P : ~Live(z, "settlement")
  <2>1. "settlement" \in Ops
    BY OpsAre
  <2>2. \A z \in P : Live(z, "settlement") => Live(d, "settlement")
    BY <1>4, <1>5, <2>1, HeldAlike
  <2> QED
    BY <2>2
<1>11. (\A z \in P : Truth(z, relay'[j])) /\ (build'[j].pc = "answer" /\ relay'[j] = "open" => Truth(e, "half"))
  <2>1. \A z \in P : Truth(z, relay[j])
    BY <1>1, <1>7
  <2>2. build[j].pc = "answer" /\ relay[j] = "open" => Truth(d, "half")
    BY <1>1 DEF JobOK, SendOK
  <2>3. build[j].pc = "answer" /\ relay[j] = "open" => Truth(e, "half")
    BY <2>2, <1>7
  <2> QED
    BY <2>1, <2>3 DEF Steady
<1> HIDE DEF P
<1>12. BuildOK(j)' /\ ~Making(j)'
  BY NotMaking DEF Steady
<1>13. /\ busy' # j \/ target' = None
       /\ todo'[j].place # "boot" /\ (todo'[j].local => todo'[j].place # "none")
  BY DEF Steady
<1>14. ASSUME Ahead(db, plan, j)' = e, Via(db, plan, j)' \subseteq P PROVE JobOK(j)'
  BY <1>3, <1>9, <1>11, <1>12, <1>13, <1>14, ChainRests
<1> QED
  BY <1>3, <1>8, <1>10, <1>14, Handler DEF d

\* reconcileRelayDone: the half was submitted, and the job waits for its confirmation.
LEMMA RelayDoneKeeps ==
    ASSUME IInv, Quiet, NEW j \in Jobs, ~Making(j), Steady(j), db[j].row["settlement"] # None,
           NEW pre, NEW Q, NEW x, Leads(db[j], pre, Q, x), relay[j] = "done", Submittable(x),
           NEW m \in Record, mem' = [mem EXCEPT ![j] = m], m.place = "confirming", ~m.local,
           NEW c \in Chain, c.at = "done", chain' = [chain EXCEPT ![j] = c],
           NEW ws, ws = pre \o markRelaySubmitted(x), Plan(j, ws)
    PROVE  IInv'
<1> DEFINE d == db[j]
<1>1. d \in Rows /\ JobOK(j) /\ Ahead(db, plan, j) = d /\ Truth(d, "done")
  BY AtRest
<1>2. Touched(j) /\ mem'[j] = m /\ chain'[j] = c
  BY SteadyTouched
<1>3. x \in Rows /\ Holding(d, "relay", x) /\ Takes(d, pre, Q, x) /\ \A z \in Q : Holding(d, "relay", z)
  BY LeadsTo, HeldAlike DEF Leads
<1>4. PICK R, e : /\ Takes(x, markRelaySubmitted(x), R, e)
                  /\ e \in Rows /\ e.receipt = "done" /\ e.fee = x.fee /\ e.why = x.why /\ x.art \subseteq e.art
                  /\ \A op \in Ops : e.row[op] = Submitted(x, op)
                  /\ \A z \in R : /\ z \in Rows /\ z.receipt \in {x.receipt, "done"}
                                  /\ z.fee = x.fee /\ z.why = x.why /\ x.art \subseteq z.art
                                  /\ \A op \in Ops : z.row[op] \in {x.row[op], Submitted(x, op)}
                                  /\ z = x \/ z.receipt = "done"
  BY <1>3, TakesSubmitted
<1> HIDE DEF d
<1>5. Truth(x, "done") /\ \A z \in Q : Truth(z, "done")
  <2> DEFINE y == "relay"
  <2>1. y \in {"local", "relay"} /\ Holding(d, y, x) /\ y = "relay" /\ \A z \in Q : Holding(d, y, z)
    BY <1>3
  <2> HIDE DEF y
  <2> QED
    BY <1>1, <2>1, TruthHolding
<1>6. \A z \in R : Truth(z, "done")
  BY <1>3, <1>4, <1>5, TruthSubmitted
<1> DEFINE P == Q \cup R
<1>7. Takes(d, ws, P, e)
  BY <1>3, <1>4, TakesBoth
<1>8. \A z \in P : Truth(z, "done")
  BY <1>5, <1>6
<1>9. /\ e.row["settlement"] # None /\ e.row["revert"] = None
      /\ \A op \in Ops : Live(e, op) => e.row[op] \in {"RELAY_SUBMITTED", "CONFIRMING"}
  <2>1. x.row["settlement"] # None /\ x.row["revert"] = None /\ "settlement" \in Ops /\ "revert" \in Ops
    BY <1>3, <1>5, HeldAlike, OpsAre DEF d, Truth, Dead
  <2>2. \A op \in Ops : /\ e.row[op] = None <=> x.row[op] = None
                        /\ Live(e, op) => Live(x, op) /\ e.row[op] = Submitted(x, op)
    BY <1>4 DEF Submitted, Live, None, terminal
  <2>3. \A op \in Ops : Live(e, op) => e.row[op] \in {"RELAY_SUBMITTED", "CONFIRMING"}
    BY <2>2 DEF Submittable, Submitted
  <2> QED
    BY <2>1, <2>2, <2>3
<1>10. Live(d, "settlement") \/ \A z \in P : ~Live(z, "settlement")
  <2>1. "settlement" \in Ops
    BY OpsAre
  <2>2. \A z \in Q : Live(z, "settlement") => Live(d, "settlement")
    BY <1>3, <2>1, HeldAlike
  <2>3. \A z \in R : Live(z, "settlement") => Live(x, "settlement")
    BY <1>4, <2>1 DEF Live, Submitted, terminal, None
  <2>4. Live(x, "settlement") => Live(d, "settlement")
    BY <1>3, <2>1, HeldAlike
  <2> QED
    BY <2>2, <2>3, <2>4
<1> HIDE DEF P
<1>11. BuildOK(j)' /\ ~Making(j)'
  BY NotMaking DEF Steady
<1>12. /\ busy' # j \/ target' = None
       /\ todo'[j].place # "boot" /\ (todo'[j].local => todo'[j].place # "none") /\ relay'[j] = "done"
  BY DEF Steady
<1>13. ASSUME Ahead(db, plan, j)' = e, Via(db, plan, j)' \subseteq P PROVE JobOK(j)'
  <2>1. TruthOK(j)' /\ SendOK(j)' /\ FreshOK(j)'
    BY <1>8, <1>9, <1>12, <1>13 DEF TruthOK, SendOK, FreshOK
  <2>2. BuildRows(j)'
    BY <1>11 DEF BuildRows
  <2>3. ChainOK(j)'
    BY <1>2, <1>4, <1>9, <1>12, <1>13 DEF ChainOK
  <2>4. LocalOK(j)' /\ RetryOK(j)'
    BY <1>2, <1>12 DEF LocalOK, RetryOK, Retrying
  <2>5. RevertOK(j)' /\ KeptOK(j)'
    BY <1>2, <1>9, <1>13 DEF RevertOK, KeptOK, None
  <2> QED
    BY <1>11, <2>1, <2>2, <2>3, <2>4, <2>5 DEF JobOK
<1> QED
  BY <1>2, <1>7, <1>10, <1>13, Handler DEF d

\* reconcileRelayFailure: the relay gave the job up, and the ledger is to be read.
LEMMA RelayFailureKeeps ==
    ASSUME IInv, Quiet, NEW j \in Jobs, ~Making(j), Steady(j), db[j].row["settlement"] # None,
           NEW pre, NEW Q, NEW x, Leads(db[j], pre, Q, x), Dead(relay[j]),
           Live(x, "settlement") => x.row["revert"] \notin {"PREPARED", "REVERTED"},
           NEW m \in Record, mem' = [mem EXCEPT ![j] = m], m.local => m.place # "none" /\ busy' = j,
           Live(x, "settlement") => m.place # "none" \/ (phase = "boot" /\ busy' = j /\ target = None),
           NEW c \in Chain, c.at = "fail", chain' = [chain EXCEPT ![j] = c],
           NEW ws, ws = pre \o <<Receipt("error")>>, Plan(j, ws)
    PROVE  IInv'
<1> DEFINE d == db[j]
           e == Put(x, Receipt("error"))
<1>1. d \in Rows /\ JobOK(j) /\ Ahead(db, plan, j) = d /\ Truth(d, relay[j])
  BY AtRest
<1>2. Touched(j) /\ mem'[j] = m /\ chain'[j] = c
  BY SteadyTouched
<1>3. x \in Rows /\ Holding(d, "relay", x) /\ Takes(d, pre, Q, x) /\ \A z \in Q : Holding(d, "relay", z)
  BY LeadsTo, HeldAlike DEF Leads
<1>4. /\ Receipt("error") \in Writes /\ Accepted(x, Receipt("error"))
      /\ e = [x EXCEPT !.receipt = "error"]
  BY <1>3, PutReceipt
<1>5. Takes(x, <<Receipt("error")>>, {x, e}, e)
  BY <1>4, TakesOne
<1>6. e.row = x.row /\ e.receipt = "error"
  BY <1>3, <1>4 DEF Rows
<1> HIDE DEF d
<1>7. Truth(x, relay[j]) /\ \A z \in Q : Truth(z, relay[j])
  <2> DEFINE y == "relay"
  <2>1. y \in {"local", "relay"} /\ Holding(d, y, x) /\ y = "relay" /\ \A z \in Q : Holding(d, y, z)
    BY <1>3
  <2> HIDE DEF y
  <2> QED
    BY <1>1, <2>1, TruthHolding
<1>8. x.row["settlement"] # None
  BY <1>3, HeldAlike, OpsAre DEF d
<1>9. Truth(e, relay[j])
  BY <1>3, <1>4, <1>7, <1>8, TruthRefused
<1> HIDE DEF e
<1> DEFINE P == Q \cup {x, e}
<1>10. Takes(d, ws, P, e)
  BY <1>3, <1>5, TakesBoth
<1>11. \A z \in P : Truth(z, relay[j])
  BY <1>7, <1>9
<1>12. Live(d, "settlement") \/ \A z \in P : ~Live(z, "settlement")
  <2>1. "settlement" \in Ops
    BY OpsAre
  <2>2. \A z \in Q \cup {x} : Live(z, "settlement") => Live(d, "settlement")
    BY <1>3, <2>1, HeldAlike
  <2>3. Live(e, "settlement") => Live(x, "settlement")
    BY <1>6 DEF Live
  <2> QED
    BY <2>2, <2>3
<1> HIDE DEF P
<1>13. BuildOK(j)' /\ ~Making(j)'
  BY NotMaking DEF Steady
<1>14. /\ busy' # j \/ target' = None
       /\ todo'[j].place # "boot" /\ (todo'[j].local => todo'[j].place # "none")
       /\ relay'[j] = relay[j] /\ relay'[j] # "open" /\ phase' = phase /\ target' = target
  BY DEF Steady, Dead
<1>15. ASSUME Ahead(db, plan, j)' = e, Via(db, plan, j)' \subseteq P PROVE JobOK(j)'
  <2>1. TruthOK(j)' /\ SendOK(j)' /\ FreshOK(j)'
    BY <1>6, <1>8, <1>11, <1>14, <1>15 DEF TruthOK, SendOK, FreshOK
  <2>2. BuildRows(j)'
    BY <1>13 DEF BuildRows
  <2>3. ChainOK(j)'
    BY <1>2, <1>6, <1>15 DEF ChainOK
  <2>4. LocalOK(j)' /\ RetryOK(j)'
    BY <1>2, <1>14 DEF LocalOK, RetryOK, Retrying, Gone
  <2>5. RevertOK(j)' /\ KeptOK(j)'
    BY <1>2, <1>6, <1>14, <1>15 DEF RevertOK, KeptOK, Live
  <2> QED
    BY <1>13, <2>1, <2>2, <2>3, <2>4, <2>5 DEF JobOK
<1> QED
  BY <1>2, <1>10, <1>12, <1>15, Handler DEF d

\* A job whose operation is running.
LEMMA InChain ==
    ASSUME IInv, Quiet, NEW j \in Jobs, chain[j].at # "idle"
    PROVE  /\ db[j].row["settlement"] # None /\ ~Making(j) /\ ~Retrying(j)
           /\ todo[j].place # "boot" /\ (todo[j].local => todo[j].place # "none")
           /\ Live(db[j], "settlement") => db[j].row["revert"] \in {None, "QUARANTINED", "REVERTING"}
<1>1. JobOK(j) /\ Ahead(db, plan, j) = db[j] /\ Truth(db[j], relay[j])
  BY AtRest
<1>2. chain[j] # Idle
  BY DEF Idle
<1>3. db[j].row["settlement"] # None /\ ~Making(j)
  BY <1>1, <1>2 DEF JobOK, FreshOK, BuildOK
<1>4. ~Retrying(j) /\ todo[j].place # "boot" /\ (todo[j].local => todo[j].place # "none")
  BY <1>1, <1>2 DEF JobOK, RetryOK, LocalOK
<1>5. Live(db[j], "settlement") => db[j].row["revert"] \notin {"PREPARED", "REVERTED"}
  BY <1>1, <1>4 DEF JobOK, RevertOK
<1> QED
  BY <1>1, <1>3, <1>4, <1>5 DEF Truth

\* It ends, or goes on without the sweep.
LEMMA Finished ==
    ASSUME IInv, Quiet, NEW j \in Jobs, chain[j].at # "idle", Finish(j) \/ UNCHANGED sweeper,
           UNCHANGED <<db, build, relay>>
    PROVE  Steady(j)
<1>1. /\ todo[j] \in Record /\ busy \in Jobs \cup {Nobody} /\ (target # None => busy \in Jobs) /\ Typed
  BY AtRest DEF IInv
<1>2. (busy # j \/ target = None) /\ todo[j].place # "boot" /\ (todo[j].local => todo[j].place # "none")
  BY InChain DEF Retrying
<1>3. UNCHANGED <<phase, todo, target>> /\ busy' \in {busy, IF busy = j THEN Nobody ELSE busy}
  BY DEF Finish, sweeper
<1>4. todo' = [todo EXCEPT ![j] = todo'[j]]
  BY <1>1, <1>3 DEF Typed
<1> QED
  BY <1>1, <1>2, <1>3, <1>4, NameAssumption DEF Steady

\* quarantineEvidence, in an operation.
LEMMA EvidenceHeldInChain ==
    ASSUME IInv, Quiet, NEW j \in Jobs, chain[j].at # "idle", Steady(j),
           quarantineEvidence(j, chain[j].rec, <<>>)
    PROVE  IInv'
<1> DEFINE d == db[j]
           t == chain[j].rec.tx \/ (mem[j].place = "quarantined" /\ mem[j].tx)
           m == [In("quarantined") EXCEPT !.evid = TRUE, !.tx = t]
           pre == <<>>
           Q == {d}
           ws == pre \o quarantineGroup(d, "relay")
<1>1. d \in Rows /\ db[j].row["settlement"] # None /\ ~Making(j)
      /\ (Live(d, "settlement") => d.row["revert"] # "REVERTED")
  BY AtRest, InChain DEF None
<1>2. Plan(j, ws) /\ mem' = [mem EXCEPT ![j] = m] /\ chain' = [chain EXCEPT ![j] = Idle]
  BY AfterNone DEF quarantineEvidence, EndChain
<1>3. m \in Record /\ m.place = "quarantined" /\ ~m.local
  <2>1. t \in BOOLEAN
    OBVIOUS
  <2> HIDE DEF t
  <2> QED
    BY <2>1 DEF In, NoRecord, Record, Places
<1>4. Leads(d, pre, Q, d) /\ ws = pre \o quarantineGroup(d, "relay")
  BY <1>1, LeadsNone
<1> HIDE DEF m, pre, Q, ws
<1> QED
  BY <1>1, <1>2, <1>3, <1>4, EvidenceHeld

\* The ledger is read for a job that was submitted.
LEMMA EvidenceDoneKeeps == ASSUME IInv, NEW j \in Jobs, EvidenceDone(j) PROVE IInv'
<1> DEFINE d == db[j]
<1>1. Quiet /\ chain[j].at = "done" /\ Finish(j) /\ UNCHANGED <<db, build, relay>>
  BY DEF EvidenceDone, world
<1>2. Steady(j)
  BY <1>1, Finished
<1>3. CASE quarantineEvidence(j, chain[j].rec, <<>>)
  BY <1>1, <1>2, <1>3, EvidenceHeldInChain
<1>4. CASE finishSettled(j)
  <2>1. Plan(j, markSettled(d)) /\ mem' = [mem EXCEPT ![j] = NoRecord] /\ chain' = [chain EXCEPT ![j] = Idle]
    BY <1>4 DEF finishSettled, Forget, EndChain
  <2>2. /\ d \in Rows /\ JobOK(j) /\ Ahead(db, plan, j) = d /\ Truth(d, relay[j])
        /\ d.row["settlement"] # None /\ ~Making(j)
    BY <1>1, AtRest, InChain
  <2>3. /\ relay[j] = "done" /\ d.receipt = "done"
        /\ \A op \in Ops : Live(d, op) => d.row[op] \in {"RELAY_SUBMITTED", "CONFIRMING"}
    BY <1>1, <2>2 DEF JobOK, ChainOK
  <2>4. Settleable(d)
    BY <2>3 DEF Settleable
  <2>5. PICK P, e : /\ Takes(d, markSettled(d), P, e) /\ Closed(d, "SETTLED", FeeTo(d.fee, "SPENT"), e)
                    /\ \A x \in P : Closing(d, "RELAY_SUBMITTED", "SETTLED", FeeTo(d.fee, "SPENT"), x)
    BY <2>2, <2>4, TakesSettled
  <2>6. \A x \in P : Truth(x, "done")
    BY <2>2, <2>3, <2>5, TruthSettling
  <2>7. e.row["settlement"] # None /\ ~Live(e, "settlement")
    BY <2>2, <2>5, OpsAre DEF Closed, AllEnded, Ended, Live, terminal, None
  <2>8. Live(d, "settlement") \/ \A x \in P : ~Live(x, "settlement")
    BY <2>5, OpsAre DEF Closing, Ending, Live
  <2>9. NoRecord \in Record /\ Idle \in Chain /\ ~NoRecord.local
    BY DEF Idle, Chain, NoRecord, Record, Places
  <2>10. Touched(j) /\ mem'[j] = NoRecord /\ chain'[j] = Idle
    BY <1>1, <1>2, <2>1, <2>9, SteadyTouched
  <2>11. BuildOK(j)' /\ ~Making(j)'
    BY <1>1, <1>2, <2>2, NotMaking DEF Steady
  <2>12. /\ busy' # j \/ target' = None
         /\ todo'[j].place # "boot" /\ (todo'[j].local => todo'[j].place # "none") /\ relay'[j] = "done"
    BY <1>2, <2>3 DEF Steady
  <2> HIDE DEF d
  <2>13. ASSUME Ahead(db, plan, j)' = e, Via(db, plan, j)' \subseteq P PROVE JobOK(j)'
    <3>1. (\A x \in P : Truth(x, relay'[j])) /\ relay'[j] # "open" /\ ~mem'[j].local
      BY <2>6, <2>9, <2>10, <2>12
    <3> QED
      BY <2>7, <2>10, <2>11, <2>12, <2>13, <3>1, ChainRests
  <2> QED
    BY <1>1, <2>1, <2>5, <2>8, <2>10, <2>13, Handler DEF d
<1> QED
  BY <1>3, <1>4 DEF EvidenceDone

\* A job that nobody will submit is reverted to the end.
LEMMA RevertsAll ==
    ASSUME NEW x \in Rows, NEW r, Truth(x, r), ~Sent(r), Live(x, "settlement")
    PROVE  \E Q, e : /\ Takes(x, markReverted(x), Q, e) /\ e.row["settlement"] = "REVERTED"
                     /\ \A z \in Q : Truth(z, r)
<1>1. Unsent(x)
  BY DEF Truth, Sent
<1>2. Revertible(x) /\ x.fee # "SPENT"
  BY <1>1 DEF Revertible, Unsent
<1>3. PICK Q, e : /\ Takes(x, markReverted(x), Q, e) /\ Closed(x, "REVERTED", FeeTo(x.fee, "RELEASED"), e)
                  /\ \A z \in Q : Closing(x, "REVERTING", "REVERTED", FeeTo(x.fee, "RELEASED"), z)
  BY <1>2, TakesReverted
<1>4. FeeTo(x.fee, "RELEASED") # "SPENT"
  BY <1>2 DEF FeeTo
<1>5. \A z \in Q : Truth(z, r)
  BY <1>3, <1>4, TruthClosing
<1>6. e.row["settlement"] = "REVERTED"
  BY <1>3, OpsAre DEF Closed, AllEnded, Ended
<1> QED
  BY <1>3, <1>5, <1>6

\* The ledger is read for a job that the relay gave up.
LEMMA EvidenceFailKeeps == ASSUME IInv, NEW j \in Jobs, EvidenceFail(j) PROVE IInv'
<1> DEFINE d == db[j]
           l == owns(j)
           rec == [chain[j].rec EXCEPT !.place = "awaiting", !.refused = FALSE, !.reverting = l]
<1>1. Quiet /\ chain[j].at = "fail" /\ (Finish(j) \/ UNCHANGED sweeper) /\ UNCHANGED <<db, build, relay>>
  BY DEF EvidenceFail, world
<1>2. Steady(j)
  BY <1>1, Finished
<1>3. CASE quarantineEvidence(j, chain[j].rec, <<>>)
  BY <1>1, <1>2, <1>3, EvidenceHeldInChain
<1>4. CASE RevertOrKeep(j, chain[j].rec)
  <2>1. mem' = [mem EXCEPT ![j] = rec]
        /\ \/ Live(d, "settlement") /\ Plan(j, RevertRows(d)) /\ chain' = [chain EXCEPT ![j] = [at |-> "revert", rec |-> rec]]
           \/ ~Live(d, "settlement") /\ chain' = [chain EXCEPT ![j] = Idle] /\ UNCHANGED plan
    BY <1>4 DEF RevertOrKeep, EndChain, RunChain, owns
  <2>2. /\ d \in Rows /\ JobOK(j) /\ Ahead(db, plan, j) = d /\ Truth(d, relay[j]) /\ chain[j] \in Chain
        /\ d.row["settlement"] # None /\ ~Making(j)
        /\ Live(d, "settlement") => d.row["revert"] \in {None, "QUARANTINED", "REVERTING"}
    BY <1>1, AtRest, InChain
  <2>3. Dead(relay[j]) /\ relay[j] # "open"
    BY <1>1, <2>2 DEF JobOK, ChainOK, Truth, Dead
  <2>4. rec \in Record /\ rec.place = "awaiting" /\ (Live(d, "settlement") => rec.reverting)
    <3>1. l \in BOOLEAN /\ (Live(d, "settlement") => l) /\ chain[j].rec \in Record
      BY <2>2 DEF owns, Chain, Live
    <3> HIDE DEF l
    <3> QED
      BY <3>1 DEF Record, Places
  <2>5. BuildOK(j)' /\ ~Making(j)'
    BY <1>1, <1>2, <2>2, NotMaking DEF Steady
  <2>6. /\ busy' # j \/ target' = None
        /\ todo'[j].place # "boot" /\ (todo'[j].local => todo'[j].place # "none") /\ relay'[j] = relay[j]
    BY <1>2 DEF Steady
  <2> HIDE DEF d, rec
  <2>7. CASE Live(d, "settlement") /\ Plan(j, RevertRows(d)) /\ chain' = [chain EXCEPT ![j] = [at |-> "revert", rec |-> rec]]
    <3> DEFINE c == [at |-> "revert", rec |-> rec]
    <3>1. c \in Chain /\ c.at = "revert"
      BY <2>4 DEF Chain
    <3> HIDE DEF c
    <3>2. Touched(j) /\ mem'[j] = rec /\ chain'[j] = c
      BY <1>1, <1>2, <2>1, <2>4, <2>7, <3>1, SteadyTouched DEF c
    <3>3. PICK P, e : /\ Takes(d, RevertRows(d), P, e) /\ e \in Rows /\ e.row["revert"] = "REVERTING"
                      /\ e.receipt = d.receipt /\ \A o \in Ops : o # "revert" => e.row[o] = d.row[o]
                      /\ \A z \in P : Truth(z, relay[j])
      BY <2>2, <2>3, <2>7, BeginsRevert
    <3>4. Live(e, "settlement")
      BY <2>7, <3>3, OpsAre DEF Live
    <3>5. ASSUME Ahead(db, plan, j)' = e, Via(db, plan, j)' \subseteq P PROVE JobOK(j)'
      <4>1. (\A x \in P : Truth(x, relay'[j])) /\ Dead(relay'[j]) /\ mem'[j].reverting /\ mem'[j].place # "none"
            /\ chain'[j].at = "revert"
        BY <2>3, <2>4, <2>6, <2>7, <3>1, <3>2, <3>3
      <4> QED
        BY <2>5, <2>6, <3>3, <3>4, <3>5, <4>1, JobReverting
    <3> QED
      BY <1>1, <2>7, <3>2, <3>3, <3>5, Handler DEF d
  <2>8. CASE ~Live(d, "settlement") /\ chain' = [chain EXCEPT ![j] = Idle] /\ UNCHANGED plan
    <3> DEFINE P == {d}
               ws == <<>>
    <3>1. Idle \in Chain
      BY DEF Idle, Chain, NoRecord, Record, Places
    <3>2. Touched(j) /\ mem'[j] = rec /\ chain'[j] = Idle
      BY <1>1, <1>2, <2>1, <2>4, <2>8, <3>1, SteadyTouched
    <3>3. Plan(j, ws) /\ Takes(d, ws, P, d) /\ (\A x \in P : Truth(x, relay'[j])) /\ \A x \in P : ~Live(x, "settlement")
      BY <1>1, <2>2, <2>6, <2>8, PlansNothing, TakesNone
    <3> HIDE DEF P, ws
    <3>4. ASSUME Ahead(db, plan, j)' = d, Via(db, plan, j)' \subseteq P PROVE JobOK(j)'
      <4>1. relay'[j] # "open" /\ Gone(j)' /\ mem'[j].place # "none"
        BY <2>3, <2>4, <2>6, <3>2 DEF Gone
      <4> QED
        BY <2>2, <2>5, <2>6, <2>8, <3>2, <3>3, <3>4, <4>1, ChainRests
    <3> QED
      BY <1>1, <3>2, <3>3, <3>4, Handler DEF d
  <2> QED
    BY <2>1, <2>7, <2>8
<1> QED
  BY <1>3, <1>4 DEF EvidenceFail

\* revertWallet ends.
LEMMA RevertReturnsKeeps == ASSUME IInv, NEW j \in Jobs, RevertReturns(j) PROVE IInv'
<1> DEFINE d == db[j]
           op == "revert"
<1>1. Quiet /\ chain[j].at = "revert" /\ Finish(j) /\ UNCHANGED <<db, build, relay>> /\ chain' = [chain EXCEPT ![j] = Idle]
  BY DEF RevertReturns, EndChain
<1>2. Steady(j)
  BY <1>1, Finished
<1>3. /\ d \in Rows /\ JobOK(j) /\ Ahead(db, plan, j) = d /\ Truth(d, relay[j]) /\ chain[j] \in Chain
      /\ ~Making(j)
  BY <1>1, AtRest, InChain
<1>4. Dead(relay[j]) /\ ~Sent(relay[j]) /\ relay[j] # "open" /\ Live(d, "settlement") /\ d.row[op] = "REVERTING"
  BY <1>1, <1>3 DEF JobOK, ChainOK, Dead, Sent
<1>5. BuildOK(j)' /\ ~Making(j)'
  BY <1>1, <1>2, <1>3, NotMaking DEF Steady
<1>6. /\ busy' # j \/ target' = None
      /\ todo'[j].place # "boot" /\ (todo'[j].local => todo'[j].place # "none") /\ relay'[j] = relay[j]
  BY <1>2 DEF Steady
<1>7. NoRecord \in Record /\ Idle \in Chain /\ ~NoRecord.local
  BY DEF Idle, Chain, NoRecord, Record, Places
<1>8. ASSUME NEW ws, Plan(j, ws), NEW P, NEW e, Takes(d, ws, P, e), \A z \in P : Truth(z, relay[j]),
             NEW m \in Record, mem' = [mem EXCEPT ![j] = m], m.local => m.place # "none",
             e.row["settlement"] # None,
             Live(e, "settlement") => m.place # "none" /\ e.row["revert"] \notin {"PREPARED", "REVERTED"}
      PROVE  IInv'
  <2> HIDE DEF d
  <2>1. Touched(j) /\ mem'[j] = m /\ chain'[j] = Idle
    BY <1>1, <1>2, <1>7, <1>8, SteadyTouched
  <2>2. ASSUME Ahead(db, plan, j)' = e, Via(db, plan, j)' \subseteq P PROVE JobOK(j)'
    <3>1. (\A x \in P : Truth(x, relay'[j])) /\ relay'[j] # "open" /\ Gone(j)' /\ (mem'[j].local => mem'[j].place # "none")
      BY <1>4, <1>6, <1>8, <2>1 DEF Gone
    <3>2. Live(e, "settlement") => mem'[j].place # "none" /\ e.row["revert"] \notin {"PREPARED", "REVERTED"}
      BY <1>8, <2>1
    <3> QED
      BY <1>5, <1>6, <1>8, <2>1, <2>2, <3>1, <3>2, ChainRests
  <2>3. Live(d, "settlement")
    BY <1>4
  <2> QED
    BY <1>1, <1>8, <2>1, <2>2, <2>3, Handler DEF d
<1>9. CASE /\ Plan(j, <<Set(op, "REVERTED")>> \o markReverted(After(d, <<Set(op, "REVERTED")>>)))
           /\ mem' = [mem EXCEPT ![j] = NoRecord]
  <2> DEFINE x == Put(d, Set(op, "REVERTED"))
  <2>1. op \in Ops \ {"settlement"} /\ "REVERTED" \in States /\ Moves(d.row[op], "REVERTED") /\ op = "revert"
    BY <1>4, OpsAre, StatesAre
  <2> HIDE DEF d, x, op
  <2>2. Takes(d, <<Set(op, "REVERTED")>>, {d, x}, x) /\ Near(d, op, None, x) /\ x \in Rows /\ x.row[op] = "REVERTED"
        /\ x = After(d, <<Set(op, "REVERTED")>>)
    BY <1>3, <2>1, RowSet DEF x
  <2>3. Truth(x, relay[j])
    BY <1>3, <1>4, <2>1, <2>2, TruthNear
  <2>4. Live(x, "settlement")
    BY <1>4, <2>1, <2>2, OpsAre DEF Near, Live
  <2>5. PICK Q, e : /\ Takes(x, markReverted(x), Q, e) /\ e.row["settlement"] = "REVERTED"
                    /\ \A z \in Q : Truth(z, relay[j])
    BY <1>4, <2>2, <2>3, <2>4, RevertsAll
  <2> DEFINE ws == <<Set(op, "REVERTED")>> \o markReverted(x)
             P == {d, x} \cup Q
  <2>6. Takes(d, ws, P, e) /\ Plan(j, ws)
    BY <1>9, <2>2, <2>5, TakesBoth
  <2>7. \A z \in P : Truth(z, relay[j])
    BY <1>3, <2>3, <2>5
  <2>8. e.row["settlement"] # None /\ ~Live(e, "settlement")
    BY <2>5 DEF Live, terminal, None
  <2> HIDE DEF ws, P
  <2> QED
    BY <1>7, <1>8, <1>9, <2>6, <2>7, <2>8
<1>10. CASE /\ Plan(j, quarantineGroup(d, "local"))
            /\ mem' = [mem EXCEPT ![j] = [chain[j].rec EXCEPT !.place = "quarantined", !.local = TRUE, !.evid = FALSE]]
  <2> DEFINE m == [chain[j].rec EXCEPT !.place = "quarantined", !.local = TRUE, !.evid = FALSE]
             ws == quarantineGroup(d, "local")
  <2>1. m \in Record /\ m.place = "quarantined"
    <3>1. chain[j].rec \in Record
      BY <1>3 DEF Chain
    <3> QED
      BY <3>1 DEF Record, Places
  <2>2. PICK P, e : /\ Takes(d, ws, P, e) /\ AllHeld(d, "local", e) /\ \A x \in P : Holding(d, "local", x)
    BY <1>3, TakesHold
  <2>3. \A x \in P : Truth(x, relay[j])
    BY <1>3, <1>4, <2>2, TruthHolding
  <2>4. e.row["settlement"] = "QUARANTINED" /\ e.row["revert"] = "QUARANTINED"
    BY <1>4, <2>2, OpsAre DEF AllHeld, Live, terminal, None
  <2>5. e.row["settlement"] # None /\ e.row["revert"] \notin {"PREPARED", "REVERTED"} /\ m.place # "none"
    BY <2>1, <2>4 DEF None
  <2>6. mem' = [mem EXCEPT ![j] = m] /\ Plan(j, ws)
    BY <1>10
  <2> HIDE DEF m, ws, d
  <2> QED
    BY <1>8, <2>1, <2>2, <2>3, <2>5, <2>6
<1> QED
  BY <1>9, <1>10 DEF RevertReturns, Forget

\* A record of memory for a job whose end the relay has said.
LEMMA ConfirmingRecord == In("confirming") \in Record /\ In("confirming").place = "confirming" /\ ~In("confirming").local
  BY DEF In, NoRecord, Record, Places

\* A frame of the relay finds a job at rest.
LEMMA Answering ==
    ASSUME IInv, NEW j \in Jobs, Answerable(j), UNCHANGED <<db, build, sweeper, relay>>
    PROVE  /\ db[j].row["settlement"] # None /\ ~Making(j) /\ Steady(j) /\ mem[j] \in Record
           /\ Live(db[j], "settlement") => db[j].row["revert"] \notin {"PREPARED", "REVERTED"}
<1>1. /\ Quiet /\ chain[j].at = "idle" /\ mem[j].place \notin {"none", "building"} /\ ~mem[j].local
  BY DEF Answerable
<1>2. JobOK(j) /\ Ahead(db, plan, j) = db[j] /\ Typed /\ mem[j] \in Record /\ todo[j] \in Record
      /\ busy \in Jobs \cup {Nobody} /\ (target # None => busy \in Jobs)
  BY <1>1, AtRest DEF IInv
<1>3. mem[j] # NoRecord
  BY <1>1 DEF NoRecord
<1>4. db[j].row["settlement"] # None /\ ~Making(j) /\ ~Retrying(j) /\ todo[j].place # "boot"
      /\ (todo[j].local => todo[j].place # "none")
  BY <1>1, <1>2, <1>3 DEF JobOK, FreshOK, BuildOK, RetryOK, LocalOK
<1>5. Live(db[j], "settlement") => db[j].row["revert"] \notin {"PREPARED", "REVERTED"}
  BY <1>1, <1>2, <1>4 DEF JobOK, RevertOK
<1>6. UNCHANGED <<phase, todo, busy, target>>
  BY DEF sweeper
<1>7. todo' = [todo EXCEPT ![j] = todo'[j]]
  BY <1>2, <1>6 DEF Typed
<1>8. Steady(j)
  BY <1>2, <1>4, <1>6, <1>7 DEF Steady, Retrying
<1> QED
  BY <1>2, <1>4, <1>5, <1>8

\* The relay says that it submitted the half.
LEMMA OnTxSubmittedKeeps == ASSUME IInv, NEW j \in Jobs, onTxSubmitted(j) PROVE IInv'
<1> DEFINE d == db[j]
           m == In("confirming")
           c == [at |-> "done", rec |-> mem[j]]
           pre == <<>>
           Q == {d}
           ws == pre \o markRelaySubmitted(d)
<1>1. /\ Answerable(j) /\ Quiet /\ relay[j] = "done" /\ UNCHANGED <<db, build, sweeper, relay>>
      /\ reconcileRelayDone(j, mem[j], <<>>)
  BY DEF onTxSubmitted, Answerable, world
<1>2. d \in Rows /\ d.row["settlement"] # None /\ ~Making(j) /\ Steady(j) /\ mem[j] \in Record
  BY <1>1, Answering, AtRest
<1>3. /\ Submittable(d) /\ Plan(j, ws) /\ mem' = [mem EXCEPT ![j] = m] /\ chain' = [chain EXCEPT ![j] = c]
  BY <1>1, AfterNone DEF reconcileRelayDone, RunChain
<1>4. c \in Chain /\ c.at = "done"
  BY <1>2 DEF Chain
<1>5. Leads(d, pre, Q, d) /\ ws = pre \o markRelaySubmitted(d)
  BY <1>2, LeadsNone
<1> HIDE DEF m, c, pre, Q, ws
<1> QED
  BY <1>1, <1>2, <1>3, <1>4, <1>5, ConfirmingRecord, RelayDoneKeeps DEF m

\* The relay says that it gave the half up.
LEMMA OnSubmitFailedKeeps == ASSUME IInv, NEW j \in Jobs, onSubmitFailed(j) PROVE IInv'
<1> DEFINE d == db[j]
           m == mem[j]
           c == [at |-> "fail", rec |-> mem[j]]
           pre == <<>>
           Q == {d}
           ws == pre \o <<Receipt("error")>>
<1>1. /\ Answerable(j) /\ Quiet /\ relay[j] = "failed" /\ UNCHANGED <<db, build, sweeper, relay>>
      /\ reconcileRelayFailure(j, mem[j], <<>>)
  BY DEF onSubmitFailed, Answerable, world
<1>2. /\ d \in Rows /\ d.row["settlement"] # None /\ ~Making(j) /\ Steady(j) /\ m \in Record /\ Dead(relay[j])
      /\ Live(d, "settlement") => d.row["revert"] \notin {"PREPARED", "REVERTED"}
  BY <1>1, Answering, AtRest DEF Dead
<1>3. /\ Plan(j, ws) /\ mem' = [mem EXCEPT ![j] = m] /\ chain' = [chain EXCEPT ![j] = c]
  BY <1>1 DEF reconcileRelayFailure, RunChain, IInv, Typed
<1>4. c \in Chain /\ c.at = "fail" /\ ~m.local /\ m.place # "none"
  BY <1>1, <1>2 DEF Chain, Answerable
<1>5. Leads(d, pre, Q, d) /\ ws = pre \o <<Receipt("error")>>
  BY <1>2, LeadsNone
<1> HIDE DEF m, c, pre, Q, ws
<1> QED
  BY <1>1, <1>2, <1>3, <1>4, <1>5, RelayFailureKeeps

\* reconcileDurableEvidence and reconcileFromHttp, for the sweep and the start-up.
LEMMA Reconciles ==
    ASSUME IInv, Quiet, NEW j \in Jobs, ~Making(j), Steady(j), db[j].row["settlement"] # None,
           NEW pre, NEW Q, NEW x, Leads(db[j], pre, Q, x),
           Live(x, "settlement") => x.row["revert"] \notin {"PREPARED", "REVERTED"},
           NEW r \in Record, pre # <<>> => r.place # "none" /\ ~r.local,
           chain'[j].at = "fail" => busy' = j,
           Live(x, "settlement") => mem[j].place # "none" \/ (phase = "boot" /\ target = None),
           reconcileDurableEvidence(j, r, pre) \/ reconcileFromHttp(j, r, pre)
    PROVE  IInv'
<1>1. Typed /\ JobOK(j) /\ db[j] \in Rows /\ Truth(db[j], relay[j]) /\ mem[j] \in Record /\ x = After(db[j], pre)
  BY AtRest, LeadsTo DEF IInv
<1>2. \/ relay[j] = "done" /\ reconcileRelayDone(j, r, pre)
      \/ Dead(relay[j]) /\ reconcileRelayFailure(j, r, pre)
      \/ quarantineEvidence(j, r, pre)
  <2>1. db[j].receipt = "done" => relay[j] = "done"
    BY <1>1 DEF Truth, Unsent
  <2>2. db[j].receipt = "error" => Dead(relay[j])
    BY <1>1 DEF Truth
  <2>3. reconcileDurableEvidence(j, r, pre) =>
           \/ relay[j] = "done" /\ reconcileRelayDone(j, r, pre)
           \/ Dead(relay[j]) /\ reconcileRelayFailure(j, r, pre)
           \/ reconcileFromHttp(j, r, pre)
    BY <2>1, <2>2 DEF reconcileDurableEvidence
  <2> QED
    BY <2>3 DEF reconcileFromHttp, Dead
<1>3. CASE relay[j] = "done" /\ reconcileRelayDone(j, r, pre)
  <2> DEFINE m == In("confirming")
             c == [at |-> "done", rec |-> r]
             ws == pre \o markRelaySubmitted(x)
  <2>1. Submittable(x) /\ Plan(j, ws) /\ mem' = [mem EXCEPT ![j] = m] /\ chain' = [chain EXCEPT ![j] = c]
    BY <1>1, <1>3 DEF reconcileRelayDone, RunChain
  <2>2. c \in Chain /\ c.at = "done" /\ ws = pre \o markRelaySubmitted(x)
    BY DEF Chain
  <2> HIDE DEF m, c, ws
  <2> QED
    BY <1>3, <2>1, <2>2, ConfirmingRecord, RelayDoneKeeps DEF m
<1>4. CASE Dead(relay[j]) /\ reconcileRelayFailure(j, r, pre)
  <2> DEFINE m == IF pre = <<>> THEN mem[j] ELSE r
             c == [at |-> "fail", rec |-> r]
             ws == pre \o <<Receipt("error")>>
  <2>1. Plan(j, ws) /\ mem' = [mem EXCEPT ![j] = m] /\ chain' = [chain EXCEPT ![j] = c]
    BY <1>1, <1>4 DEF reconcileRelayFailure, RunChain, Typed
  <2>2. c \in Chain /\ c.at = "fail" /\ ws = pre \o <<Receipt("error")>>
    BY DEF Chain
  <2>3. chain'[j] = c
    BY <1>1, <2>1 DEF Typed
  <2> HIDE DEF c, ws
  <2>4. busy' = j
    BY <2>2, <2>3
  <2>5. m \in Record /\ (m.local => m.place # "none" /\ busy' = j)
    BY <1>1, <2>4 DEF JobOK, LocalOK
  <2>6. Live(x, "settlement") => m.place # "none" \/ (phase = "boot" /\ busy' = j /\ target = None)
    BY <2>4
  <2> HIDE DEF m
  <2> QED
    BY <1>4, <2>1, <2>2, <2>5, <2>6, RelayFailureKeeps
<1>5. CASE quarantineEvidence(j, r, pre)
  <2> DEFINE t == r.tx \/ (mem[j].place = "quarantined" /\ mem[j].tx)
             m == [In("quarantined") EXCEPT !.evid = TRUE, !.tx = t]
             ws == pre \o quarantineGroup(x, "relay")
  <2>1. Plan(j, ws) /\ mem' = [mem EXCEPT ![j] = m] /\ chain' = [chain EXCEPT ![j] = Idle]
    BY <1>1, <1>5 DEF quarantineEvidence, EndChain
  <2>2. m \in Record /\ m.place = "quarantined" /\ ~m.local
    <3>1. t \in BOOLEAN
      OBVIOUS
    <3> HIDE DEF t
    <3> QED
      BY <3>1 DEF In, NoRecord, Record, Places
  <2>3. ws = pre \o quarantineGroup(x, "relay")
    OBVIOUS
  <2> HIDE DEF m, ws
  <2> QED
    BY <2>1, <2>2, <2>3, EvidenceHeld
<1> QED
  BY <1>2, <1>3, <1>4, <1>5

-----------------------------------------------------------------------------
(* The sweep.                                                              *)

\* The loop takes a record of a job.
LEMMA Taking ==
    ASSUME IInv, NEW j \in Jobs, Take(j)
    PROVE  /\ Quiet /\ busy = Nobody /\ target = None /\ todo[j].place # "none" /\ todo[j] \in Record
           /\ db[j].row["settlement"] # None /\ ~Making(j)
           /\ todo' = [todo EXCEPT ![j] = todo'[j]] /\ todo'[j] = NoRecord /\ NoRecord \in Record
           /\ NoRecord.place = "none" /\ ~NoRecord.local /\ UNCHANGED <<db, build, phase, relay>>
           /\ phase # "boot" => /\ Live(db[j], "settlement") => db[j].row["revert"] \notin {"PREPARED", "REVERTED"}
                                /\ Live(db[j], "settlement") => mem[j].place # "none"
<1>1. Quiet /\ busy = Nobody /\ todo[j].place # "none" /\ UNCHANGED <<db, build, phase, relay>>
      /\ todo' = [todo EXCEPT ![j] = NoRecord]
  BY DEF Take, Waiting
<1>2. Typed /\ JobOK(j) /\ Ahead(db, plan, j) = db[j] /\ todo[j] \in Record
  BY <1>1, AtRest DEF IInv
<1>3. target = None /\ todo'[j] = NoRecord
  BY <1>1, <1>2, NameAssumption DEF Typed
<1>4. NoRecord \in Record /\ NoRecord.place = "none" /\ ~NoRecord.local
  BY DEF NoRecord, Record, Places
<1>5. db[j].row["settlement"] # None /\ ~Making(j)
  BY <1>1, <1>2, <1>4 DEF JobOK, FreshOK, BuildOK
<1>6. ASSUME phase # "boot", Live(db[j], "settlement")
      PROVE  db[j].row["revert"] \notin {"PREPARED", "REVERTED"} /\ mem[j].place # "none"
  BY <1>2, <1>6 DEF JobOK, RevertOK, KeptOK, LocalOK
<1> QED
  BY <1>1, <1>2, <1>3, <1>4, <1>5, <1>6

\* It passes over a record that it can do nothing for.
LEMMA SweepSkipsKeeps == ASSUME IInv, NEW j \in Jobs, SweepSkips(j) PROVE IInv'
<1> DEFINE d == db[j]
           P == {d}
           ws == <<>>
<1>1. Take(j) /\ phase # "boot" /\ UNCHANGED <<plan, mem, chain, busy, target>>
  BY DEF SweepSkips
<1>2. /\ Quiet /\ busy = Nobody /\ target = None
      /\ d.row["settlement"] # None /\ ~Making(j)
      /\ todo' = [todo EXCEPT ![j] = todo'[j]] /\ todo'[j] = NoRecord /\ NoRecord \in Record
      /\ NoRecord.place = "none" /\ ~NoRecord.local /\ UNCHANGED <<db, build, phase, relay>>
      /\ Live(d, "settlement") => d.row["revert"] \notin {"PREPARED", "REVERTED"}
      /\ Live(d, "settlement") => mem[j].place # "none"
  BY <1>1, Taking
<1>3. /\ Typed /\ JobOK(j) /\ Ahead(db, plan, j) = d /\ Truth(d, relay[j]) /\ mem[j] \in Record
      /\ build[j] \in Build /\ chain[j] \in Chain /\ relay[j] \in Answers
  BY <1>2, AtRest DEF IInv
<1>4. Touched(j)
  BY <1>1, <1>2, <1>3 DEF Touched, Typed
<1>5. Plan(j, ws) /\ Takes(d, ws, P, d) /\ (\A x \in P : Truth(x, relay[j]))
      /\ (Live(d, "settlement") \/ \A x \in P : ~Live(x, "settlement"))
  BY <1>1, <1>2, <1>3, PlansNothing, TakesNone
<1> HIDE DEF d, P, ws
<1>6. ASSUME Ahead(db, plan, j)' = d, Via(db, plan, j)' \subseteq P PROVE JobOK(j)'
  <2>0. UNCHANGED <<mem, build, chain, busy, target, relay, phase>> /\ busy # j
    BY <1>1, <1>2, NameAssumption
  <2>1. TruthOK(j)' /\ SendOK(j)' /\ FreshOK(j)'
    BY <1>2, <1>3, <1>5, <1>6, <2>0 DEF JobOK, TruthOK, SendOK, FreshOK
  <2>2. BuildOK(j)' /\ BuildRows(j)'
    BY <1>2, <1>3, <2>0 DEF JobOK, BuildOK, BuildRows, Making
  <2>3. ChainOK(j)' /\ LocalOK(j)' /\ RetryOK(j)'
    BY <1>2, <1>3, <1>6, <2>0 DEF JobOK, ChainOK, LocalOK, Gone, RetryOK, Retrying
  <2>4. RevertOK(j)' /\ KeptOK(j)'
    BY <1>2, <1>6, <2>0 DEF RevertOK, KeptOK
  <2> QED
    BY <2>1, <2>2, <2>3, <2>4 DEF JobOK
<1> QED
  BY <1>2, <1>4, <1>5, <1>6, Handler DEF d

\* It reconciles a record with relay and ledger.
LEMMA SweepReconcilesKeeps == ASSUME IInv, NEW j \in Jobs, SweepReconciles(j) PROVE IInv'
<1> DEFINE d == db[j]
           Q == {d}
           pre == <<>>
           r == todo[j]
<1>1. /\ Take(j) /\ phase # "boot" /\ target' = target /\ busy' = (IF chain'[j].at = "idle" THEN Nobody ELSE j)
      /\ reconcileDurableEvidence(j, r, pre) \/ reconcileFromHttp(j, r, pre)
  BY DEF SweepReconciles
<1>2. /\ Quiet /\ busy = Nobody /\ target = None /\ r \in Record
      /\ d.row["settlement"] # None /\ ~Making(j)
      /\ todo' = [todo EXCEPT ![j] = todo'[j]] /\ todo'[j] = NoRecord /\ NoRecord \in Record
      /\ NoRecord.place = "none" /\ ~NoRecord.local /\ UNCHANGED <<db, build, phase, relay>>
      /\ Live(d, "settlement") => d.row["revert"] \notin {"PREPARED", "REVERTED"}
      /\ Live(d, "settlement") => mem[j].place # "none"
  BY <1>1, Taking
<1>3. busy' \in {j, Nobody} /\ (chain'[j].at = "fail" => busy' = j)
  BY <1>1
<1>4. Steady(j)
  BY <1>1, <1>2, <1>3, NameAssumption DEF Steady
<1>5. d \in Rows
  BY <1>2, AtRest
<1>6. Leads(d, pre, Q, d) /\ pre = <<>>
  BY <1>5, LeadsNone
<1> HIDE DEF Q, pre, r
<1> QED
  BY <1>1, <1>2, <1>3, <1>4, <1>6, Reconciles

-----------------------------------------------------------------------------
(* The start-up.                                                           *)

\* The start-up comes to a job: the restart has left its rows and nothing else.
LEMMA Starting ==
    ASSUME IInv, NEW j \in Jobs, Boot(j)
    PROVE  /\ Quiet /\ phase = "boot" /\ busy = Nobody /\ busy # j /\ Nobody # j /\ target = None
           /\ mem[j] = NoRecord /\ chain[j] = Idle /\ build[j].pc = "none" /\ ~Making(j)
           /\ BuildOK(j)' /\ ~Making(j)' /\ build'[j].pc = "none"
           /\ UNCHANGED <<db, build, phase, target, relay>>
           /\ db[j] \in Rows /\ Truth(db[j], relay[j]) /\ db[j].row["settlement"] # None
           /\ relay[j] \in Answers \ {"none"} /\ build[j] \in Build
           /\ NoRecord \in Record /\ NoRecord.place = "none" /\ ~NoRecord.local /\ Idle \in Chain /\ Idle.at = "idle"
<1>1. Quiet /\ phase = "boot" /\ busy = Nobody /\ todo[j].place = "boot" /\ UNCHANGED <<db, build, phase, target, relay>>
  BY DEF Boot
<1>2. /\ Typed /\ JobOK(j) /\ Ahead(db, plan, j) = db[j] /\ db[j] \in Rows /\ Truth(db[j], relay[j])
      /\ relay[j] \in Answers /\ build[j] \in Build
  BY <1>1, AtRest DEF IInv
<1>3. target = None /\ busy # j /\ Nobody # j
  BY <1>1, <1>2, NameAssumption DEF Typed
<1>4. NoRecord \in Record /\ NoRecord.place = "none" /\ ~NoRecord.local /\ Idle \in Chain /\ Idle.at = "idle"
  BY DEF Idle, Chain, NoRecord, Record, Places
<1>5. mem[j] = NoRecord /\ chain[j] = Idle /\ build[j].pc = "none" /\ ~Making(j) /\ db[j].row["settlement"] # None
  BY <1>1, <1>2, <1>4 DEF JobOK, LocalOK, BuildOK, FreshOK, Making
<1>6. relay[j] # "none"
  BY <1>2, <1>5 DEF Truth
<1>7. BuildOK(j)' /\ ~Making(j)'
  BY <1>1, <1>5, NotMaking
<1> QED
  BY <1>1, <1>2, <1>3, <1>4, <1>5, <1>6, <1>7

\* A proved revert is one of a job that nobody submitted.
LEMMA RevertedUnsent ==
    ASSUME NEW d \in Rows, NEW r, Truth(d, r), d.row["revert"] = "REVERTED"
    PROVE  ~Sent(r) /\ ProvedRevert(d)
<1>1. Dead(r)
  BY DEF Truth, None
<1>2. Unsent(d)
  BY <1>1 DEF Truth, Dead
<1>3. d.row["settlement"] \notin {"RELAY_SUBMITTED", "CONFIRMING"}
  BY <1>2, OpsAre DEF Unsent
<1> QED
  BY <1>1, <1>3 DEF Dead, Sent, ProvedRevert

\* A job that the relay has, or had, can be restored, or its receipt says so.
LEMMA SentRestores ==
    ASSUME NEW d \in Rows, NEW r, Truth(d, r), Sent(r)
    PROVE  ~Artifactless(d) /\ (Restored(d) \/ d.receipt = "done")
<1>1. Owned(d) /\ ~primary(d)
  BY DEF Truth, Sent, Dead, primary
<1>2. "dustFinal" \in d.art /\ Live(d, "dustFinal") => "dustFinal" \in FinalRows(d)
  BY <1>1 DEF FinalRows, Finals
<1> QED
  BY <1>1, <1>2 DEF Owned, Restored

\* A job whose artifacts are restored and that no relay has: it is to be reverted.
LEMMA BootRevertsKeeps == ASSUME IInv, NEW j \in Jobs, BootReverts(j) PROVE IInv'
<1> DEFINE d == db[j]
           t == FinalRows(db[j]) # {}
           m == [In("quarantined") EXCEPT !.local = TRUE, !.tx = t]
           P == {d}
           ws == <<>>
<1>1. /\ Boot(j) /\ Live(d, "settlement") /\ ~ProvedRevert(d) /\ ~relayAmbiguous(d)
      /\ mem' = [mem EXCEPT ![j] = m] /\ todo' = [todo EXCEPT ![j] = m] /\ UNCHANGED <<plan, chain, busy>>
  BY DEF BootReverts, Restorable, owns
<1>2. /\ Quiet /\ phase = "boot" /\ busy = Nobody /\ busy # j /\ Nobody # j /\ target = None
      /\ chain[j] = Idle /\ build[j].pc = "none"
      /\ BuildOK(j)' /\ ~Making(j)' /\ build'[j].pc = "none" /\ UNCHANGED <<db, build, phase, target, relay>>
      /\ d \in Rows /\ Truth(d, relay[j]) /\ d.row["settlement"] # None /\ relay[j] \in Answers \ {"none"}
      /\ build[j] \in Build /\ Idle \in Chain /\ Idle.at = "idle"
  BY <1>1, Starting
<1>3. m \in Record /\ m.place = "quarantined" /\ m.local
  <2>1. t \in BOOLEAN
    OBVIOUS
  <2> HIDE DEF t
  <2> QED
    BY <2>1 DEF In, NoRecord, Record, Places
<1> HIDE DEF m
<1>4. Typed
  BY DEF IInv
<1>5. mem'[j] = m /\ todo'[j] = m /\ chain'[j] = Idle /\ relay'[j] = relay[j] /\ busy' # j
  BY <1>1, <1>2, <1>4 DEF Typed
<1>6. Touched(j)
  BY <1>1, <1>2, <1>3, <1>4, <1>5 DEF Touched, Typed
<1>7. Plan(j, ws) /\ Takes(d, ws, P, d) /\ \A x \in P : Truth(x, relay[j])
  BY <1>1, <1>2, PlansNothing, TakesNone
<1>8. ~Sent(relay[j]) /\ Gone(j)'
  <2>1. ~Owned(d)
    BY <1>1 DEF Owned, Live, terminal
  <2>2. ~Sent(relay[j])
    BY <1>2, <2>1 DEF Truth
  <2> QED
    BY <1>2, <1>5, <2>2 DEF Sent, Gone, Dead, Answers
<1>9. d.row["revert"] # "REVERTED"
  BY <1>1, <1>2, RevertedUnsent
<1> HIDE DEF d, P, ws
<1>10. ASSUME Ahead(db, plan, j)' = d, Via(db, plan, j)' \subseteq P PROVE JobOK(j)'
  <2>1. TruthOK(j)' /\ SendOK(j)' /\ FreshOK(j)'
    BY <1>2, <1>5, <1>7, <1>10 DEF TruthOK, SendOK, FreshOK
  <2>2. BuildOK(j)' /\ BuildRows(j)'
    BY <1>2 DEF BuildRows
  <2>3. ChainOK(j)' /\ LocalOK(j)' /\ RetryOK(j)'
    BY <1>2, <1>3, <1>5, <1>8 DEF ChainOK, LocalOK, RetryOK, Retrying
  <2>4. RevertOK(j)' /\ KeptOK(j)'
    BY <1>2, <1>3, <1>5, <1>9, <1>10 DEF RevertOK, KeptOK
  <2> QED
    BY <2>1, <2>2, <2>3, <2>4 DEF JobOK
<1> QED
  BY <1>1, <1>2, <1>6, <1>7, <1>10, Handler DEF d

\* The start-up is done with a job that it leaves in the record m.
LEMMA Started ==
    ASSUME IInv, NEW j \in Jobs, Boot(j), BootNext(j), UNCHANGED chain,
           NEW m \in Record, mem' = [mem EXCEPT ![j] = m], ~m.local,
           NEW ws, Plan(j, ws), NEW P, NEW e, Takes(db[j], ws, P, e), \A z \in P : Truth(z, relay[j]),
           Live(db[j], "settlement") \/ \A z \in P : ~Live(z, "settlement"), e.row["settlement"] # None,
           Live(e, "settlement") => m.place # "none" /\ e.row["revert"] \notin {"PREPARED", "REVERTED"}
    PROVE  IInv'
<1> DEFINE d == db[j]
<1>1. /\ Quiet /\ busy = Nobody /\ Nobody # j /\ target = None /\ chain[j] = Idle
      /\ BuildOK(j)' /\ ~Making(j)' /\ build'[j].pc = "none" /\ UNCHANGED <<db, build, phase, target, relay>>
      /\ relay[j] \in Answers \ {"none"} /\ build[j] \in Build /\ Idle \in Chain
      /\ NoRecord \in Record /\ NoRecord.place = "none" /\ ~NoRecord.local
  BY Starting
<1>2. todo' = [todo EXCEPT ![j] = NoRecord] /\ busy' = Nobody /\ UNCHANGED chain
  BY DEF BootNext
<1>3. Typed
  BY DEF IInv
<1>4. mem'[j] = m /\ todo'[j] = NoRecord /\ chain'[j] = Idle /\ relay'[j] = relay[j] /\ busy' # j
  BY <1>1, <1>2, <1>3 DEF Typed
<1>5. Touched(j)
  BY <1>1, <1>2, <1>3, <1>4 DEF Touched, Typed
<1> HIDE DEF d
<1>6. ASSUME Ahead(db, plan, j)' = e, Via(db, plan, j)' \subseteq P PROVE JobOK(j)'
  <2>1. (\A x \in P : Truth(x, relay'[j])) /\ ~mem'[j].local /\ todo'[j].place # "boot" /\ ~todo'[j].local
        /\ (Live(e, "settlement") => mem'[j].place # "none" /\ e.row["revert"] \notin {"PREPARED", "REVERTED"})
    BY <1>1, <1>4
  <2>2. build'[j].pc # "answer"
    BY <1>1
  <2> QED
    BY <1>1, <1>4, <1>6, <2>1, <2>2, ChainRests
<1> QED
  BY <1>1, <1>5, <1>6, Handler

\* Nothing can be proved of a job, and it is kept with its claim.
LEMMA BootKeepsKeeps == ASSUME IInv, NEW j \in Jobs, BootKeeps(j) PROVE IInv'
<1> DEFINE d == db[j]
           t == ~Artifactless(db[j]) /\ relayAmbiguous(db[j])
           m == [In("quarantined") EXCEPT !.evid = t]
           ws == quarantineGroup(d, "local")
<1>1. /\ Boot(j) /\ BootNext(j) /\ Live(d, "settlement") /\ ~ProvedRevert(d)
      /\ Artifactless(d) \/ ~Restored(d)
      /\ Plan(j, ws) /\ mem' = [mem EXCEPT ![j] = m] /\ UNCHANGED chain
  BY DEF BootKeeps, owns
<1>2. d \in Rows /\ Truth(d, relay[j]) /\ d.row["settlement"] # None
  BY <1>1, Starting
<1>3. m \in Record /\ m.place = "quarantined" /\ ~m.local
  <2>1. t \in BOOLEAN
    OBVIOUS
  <2> HIDE DEF t
  <2> QED
    BY <2>1 DEF In, NoRecord, Record, Places
<1>4. PICK P, e : /\ Takes(d, ws, P, e) /\ AllHeld(d, "local", e) /\ \A x \in P : Holding(d, "local", x)
  BY <1>2, TakesHold
<1>5. ~Sent(relay[j]) \/ d.receipt # None
  <2>1. Sent(relay[j]) => d.receipt = "done"
    BY <1>1, <1>2, SentRestores
  <2> QED
    BY <2>1 DEF None
<1>6. \A x \in P : Truth(x, relay[j])
  BY <1>2, <1>4, <1>5, TruthHolding
<1>7. d.row["revert"] # "REVERTED"
  BY <1>1, <1>2, RevertedUnsent
<1>8. e.row["settlement"] # None /\ e.row["revert"] \notin {"PREPARED", "REVERTED"} /\ m.place # "none"
  BY <1>1, <1>3, <1>4, <1>7, OpsAre DEF AllHeld, Live, terminal, None
<1> HIDE DEF m, ws, d
<1> QED
  BY <1>1, <1>3, <1>4, <1>6, <1>8, Started DEF d

\* A terminal job is closed again, a proved revert is finished, and a job that
\* touched no wallet fails.
LEMMA BootCompletesKeeps == ASSUME IInv, NEW j \in Jobs, BootCompletes(j) PROVE IInv'
<1> DEFINE d == db[j]
           m == NoRecord
<1>1. Boot(j) /\ BootNext(j) /\ UNCHANGED <<mem, chain>>
  BY DEF BootCompletes
<1>2. /\ Quiet /\ mem[j] = NoRecord /\ d \in Rows /\ Truth(d, relay[j]) /\ d.row["settlement"] # None /\ relay[j] \in Answers
      /\ NoRecord \in Record /\ ~NoRecord.local
  BY <1>1, Starting
<1>3. mem' = [mem EXCEPT ![j] = m] /\ m \in Record /\ ~m.local
  BY <1>1, <1>2 DEF IInv, Typed
<1> HIDE DEF m
<1>4. ASSUME NEW ws, Plan(j, ws), NEW P, NEW e, Takes(d, ws, P, e), \A z \in P : Truth(z, relay[j]),
             Live(d, "settlement") \/ \A z \in P : ~Live(z, "settlement"), e.row["settlement"] # None,
             ~Live(e, "settlement")
      PROVE  IInv'
  BY <1>1, <1>3, <1>4, Started
<1>5. CASE d.row["settlement"] = "REVERTED" /\ Plan(j, markReverted(d))
  <2> DEFINE ws == markReverted(d)
             f == FeeTo(d.fee, "RELEASED")
  <2>1. ~Sent(relay[j]) /\ \A op \in Ops : ~Live(d, op)
    BY <1>2, <1>5 DEF Truth, Owned, relayAmbiguous, terminal
  <2>2. Revertible(d)
    BY <2>1 DEF Revertible
  <2>3. PICK P, e : /\ Takes(d, ws, P, e) /\ Closed(d, "REVERTED", f, e)
                    /\ \A x \in P : Closing(d, "REVERTING", "REVERTED", f, x)
    BY <1>2, <2>2, TakesReverted
  <2>4. f # "SPENT" \/ f = d.fee
    BY DEF FeeTo
  <2>5. Plan(j, ws)
    BY <1>5
  <2> HIDE DEF f, ws, d
  <2>6. \A x \in P : Truth(x, relay[j])
    BY <1>2, <2>1, <2>3, <2>4, TruthClosing
  <2>7. \A x \in P : x.row["settlement"] = "REVERTED"
    BY <1>5, <2>1, <2>3, OpsAre DEF Closing, Ending
  <2>8. (\A x \in P : ~Live(x, "settlement")) /\ e \in P
    BY <2>3, <2>7 DEF Live, terminal, Takes, Runs
  <2>9. e.row["settlement"] # None
    BY <2>7, <2>8 DEF None
  <2> QED
    BY <1>4, <2>3, <2>5, <2>6, <2>8, <2>9
<1>6. CASE d.row["settlement"] = "SETTLED" /\ Plan(j, markSettled(d))
  <2> DEFINE ws == markSettled(d)
             f == FeeTo(d.fee, "SPENT")
  <2>1. relay[j] = "done" /\ (\A op \in Ops : ~Live(d, op))
    BY <1>2, <1>6, OpsAre DEF Truth, Unsent, terminal
  <2>2. d.receipt = "done" /\ Settleable(d)
    BY <1>2, <2>1, OpsAre DEF Truth, Sent, Owned, Settleable
  <2>3. PICK P, e : /\ Takes(d, ws, P, e) /\ Closed(d, "SETTLED", f, e)
                    /\ \A x \in P : Closing(d, "RELAY_SUBMITTED", "SETTLED", f, x)
    BY <1>2, <2>2, TakesSettled
  <2>4. Plan(j, ws)
    BY <1>6
  <2>5. \A x \in P : Truth(x, relay[j])
    BY <1>2, <2>1, <2>2, <2>3, TruthSettling
  <2> HIDE DEF f, ws, d
  <2>7. \A x \in P : x.row["settlement"] = "SETTLED"
    BY <1>6, <2>1, <2>3, OpsAre DEF Closing, Ending
  <2>8. (\A x \in P : ~Live(x, "settlement")) /\ e \in P
    BY <2>3, <2>7 DEF Live, terminal, Takes, Runs
  <2>9. e.row["settlement"] # None
    BY <2>7, <2>8 DEF None
  <2> QED
    BY <1>4, <2>3, <2>4, <2>5, <2>8, <2>9
<1>7. CASE d.row["settlement"] \in terminal /\ Plan(j, <<>>)
  <2> DEFINE ws == <<>>
             P == {d}
  <2>1. Takes(d, ws, P, d) /\ Plan(j, ws) /\ (\A x \in P : Truth(x, relay[j])) /\ (\A x \in P : ~Live(x, "settlement"))
    BY <1>2, <1>7, TakesNone DEF Live
  <2>2. ~Live(d, "settlement")
    BY <2>1
  <2> HIDE DEF ws, P, d
  <2> QED
    BY <1>2, <1>4, <2>1, <2>2
<1>8. CASE Live(d, "settlement") /\ ProvedRevert(d) /\ Plan(j, markReverted(d))
  <2> DEFINE ws == markReverted(d)
  <2>1. ~Sent(relay[j])
    BY <1>2, <1>8, RevertedUnsent DEF ProvedRevert
  <2>2. PICK P, e : /\ Takes(d, ws, P, e) /\ e.row["settlement"] = "REVERTED"
                    /\ \A z \in P : Truth(z, relay[j])
    BY <1>2, <1>8, <2>1, RevertsAll
  <2>3. Plan(j, ws) /\ e.row["settlement"] # None /\ ~Live(e, "settlement")
    BY <1>8, <2>2 DEF Live, terminal, None
  <2> HIDE DEF ws, d
  <2> QED
    BY <1>4, <1>8, <2>2, <2>3
<1>9. CASE Live(d, "settlement") /\ ~Restored(d) /\ Failable(d) /\ Plan(j, markFailed(d))
  <2> DEFINE ws == markFailed(d)
             f == d.fee
  <2>1. d.row["settlement"] = "PREPARED" /\ ~Sent(relay[j])
    BY <1>2, <1>9, OpsAre DEF Failable, Truth, Owned, relayAmbiguous
  <2>2. ~Live(d, "revert")
    <3>1. d.row["revert"] = None
      BY <1>9 DEF Restored, FinalRows, primary
    <3> QED
      BY <3>1 DEF Live
  <2>3. PICK P, e : /\ Takes(d, ws, P, e) /\ Closed(d, "FAILED", f, e)
                    /\ \A x \in P : Closing(d, "FAILED", "FAILED", f, x)
    BY <1>2, <1>9, TakesFailed
  <2>4. \A x \in P : Truth(x, relay[j])
    BY <1>2, <2>1, <2>2, <2>3, TruthClosing
  <2>5. e.row["settlement"] = "FAILED"
    BY <1>9, <2>3, OpsAre DEF Closed, AllEnded, Ended
  <2>6. Plan(j, ws) /\ e.row["settlement"] # None /\ ~Live(e, "settlement")
    BY <1>9, <2>5 DEF Live, terminal, None
  <2> HIDE DEF ws, d, f
  <2> QED
    BY <1>4, <1>9, <2>3, <2>4, <2>6
<1> QED
  BY <1>5, <1>6, <1>7, <1>8, <1>9 DEF BootCompletes, Settlement, owns

\* A job that the relay may have: its rows are held, and relay and ledger decide.
LEMMA BootReconcilesKeeps == ASSUME IInv, NEW j \in Jobs, BootReconciles(j) PROVE IInv'
<1> DEFINE d == db[j]
           t == FinalRows(db[j]) # {}
           r == [In("quarantined") EXCEPT !.evid = TRUE, !.tx = t]
           pre == quarantineGroup(d, "relay")
<1>1. /\ Boot(j) /\ Live(d, "settlement") /\ ~ProvedRevert(d)
      /\ reconcileDurableEvidence(j, r, pre)
      /\ todo' = [todo EXCEPT ![j] = NoRecord] /\ busy' = (IF chain'[j].at = "idle" THEN Nobody ELSE j)
  BY DEF BootReconciles, Restorable, owns
<1>2. /\ Quiet /\ phase = "boot" /\ busy = Nobody /\ Nobody # j /\ target = None
      /\ ~Making(j) /\ UNCHANGED <<db, build, phase, target, relay>>
      /\ d \in Rows /\ Truth(d, relay[j]) /\ d.row["settlement"] # None
      /\ NoRecord \in Record /\ NoRecord.place = "none" /\ ~NoRecord.local
  BY <1>1, Starting
<1>3. r \in Record /\ r.place # "none" /\ ~r.local
  <2>1. t \in BOOLEAN
    OBVIOUS
  <2> HIDE DEF t
  <2> QED
    BY <2>1 DEF In, NoRecord, Record, Places
<1>4. todo'[j] = NoRecord /\ busy' \in {j, Nobody} /\ (chain'[j].at = "fail" => busy' = j)
  BY <1>1 DEF IInv, Typed
<1> HIDE DEF r
<1>5. Steady(j)
  BY <1>1, <1>2, <1>4, NameAssumption DEF Steady
<1>6. PICK Q, x : /\ Takes(d, pre, Q, x) /\ AllHeld(d, "relay", x) /\ \A z \in Q : Holding(d, "relay", z)
  BY <1>2, TakesHold
<1>7. Leads(d, pre, Q, x)
  BY <1>6 DEF Leads
<1>8. d.row["revert"] # "REVERTED"
  BY <1>1, <1>2, RevertedUnsent
<1>9. x.row["revert"] \notin {"PREPARED", "REVERTED"}
  BY <1>6, <1>8, OpsAre DEF AllHeld, Live, terminal, None
<1> HIDE DEF pre, d
<1> QED
  BY <1>1, <1>2, <1>3, <1>4, <1>5, <1>7, <1>9, Reconciles DEF d

-----------------------------------------------------------------------------
(* Local recovery.                                                         *)

\* Each target has a recovery of its own; when one remains, the next is one of them.
LEMMA NextRecovery ==
    ASSUME NEW d, Remaining(d) # {}
    PROVE  /\ NextTarget(d) \in Remaining(d)
           /\ RecoveryOf(NextTarget(d)) \in Recoveries /\ d.row[RecoveryOf(NextTarget(d))] # "REVERTED"
<1> DEFINE R == Remaining(d)
           t == NextTarget(d)
<1>1. \A u : Turn(u) \in {1, 2, 3}
  BY DEF Turn
<1>2. \E v \in R : \A u \in R : Turn(v) <= Turn(u)
  <2> HIDE DEF R
  <2>0. R # {}
    BY DEF R
  <2>1. CASE \E v \in R : Turn(v) = 1
    BY <1>1, <2>1
  <2>2. CASE (\A v \in R : Turn(v) # 1) /\ \E v \in R : Turn(v) = 2
    <3>1. \A v \in R : Turn(v) \in {2, 3}
      BY <1>1, <2>2
    <3> QED
      BY <2>2, <3>1
  <2>3. CASE \A v \in R : Turn(v) \notin {1, 2}
    <3>1. \A v \in R : Turn(v) = 3
      BY <1>1, <2>3
    <3> QED
      BY <2>0, <3>1
  <2> QED
    BY <2>1, <2>2, <2>3
<1>3. t \in R
  BY <1>2 DEF NextTarget
<1>4. t \in Targets(d) /\ d.row[RecoveryOf(t)] # "REVERTED"
  BY <1>3 DEF Remaining
<1>5. t \in {{"residual"}, {"dust"}, {"residualFinal"}, {"dustFinal"}, {"residualFinal", "dustFinal"}, {"revert"}}
  <2>1. CASE \E op \in RawRows(d) : t = {op}
    BY <2>1 DEF RawRows, Contributions
  <2>2. CASE t = FinalRows(d) /\ t # {}
    <3>1. CASE primary(d)
      BY <2>2, <3>1 DEF FinalRows
    <3>2. CASE ~primary(d)
      <4>1. t \subseteq {"residualFinal", "dustFinal"}
        BY <2>2, <3>2 DEF FinalRows, Finals
      <4> QED
        BY <2>2, <4>1
    <3> QED
      BY <3>1, <3>2
  <2> QED
    BY <1>4, <2>1, <2>2 DEF Targets
<1>6. \E k \in Recoveries : recoveryRevertKey[k] = t
  <2> DEFINE K == recoveryRevertKey
  <2>1. /\ Recoveries = {"recResidual", "recDust", "recResidualFinal", "recDustFinal", "recFinals", "recRevert"}
        /\ K["recResidual"] = {"residual"} /\ K["recDust"] = {"dust"} /\ K["recResidualFinal"] = {"residualFinal"}
        /\ K["recDustFinal"] = {"dustFinal"} /\ K["recFinals"] = {"residualFinal", "dustFinal"} /\ K["recRevert"] = {"revert"}
    BY DEF Recoveries, recoveryRevertKey, Finals
  <2> HIDE DEF K
  <2>2. \E k \in Recoveries : K[k] = t
    BY <1>5, <2>1
  <2> QED
    BY <2>2 DEF K
<1>7. RecoveryOf(t) \in Recoveries
  BY <1>6 DEF RecoveryOf, KeyOf
<1> QED
  BY <1>3, <1>4, <1>7

\* A recovery revert begins: its row is prepared if it was not, and reverting.
LEMMA BeginsRecovery ==
    ASSUME NEW x \in Rows, NEW r, Truth(x, r), ~Sent(r), Live(x, "settlement"), NEW k \in Recoveries,
           x.row[k] \in {None, "PREPARED"}, NEW first, NEW last, last = <<Set(k, "REVERTING")>>,
           IF x.row[k] = None THEN first = <<Set(k, "PREPARED")>> ELSE first = <<>>
    PROVE  \E P, y, Q, e : /\ Takes(x, first, P, y) /\ Takes(y, last, Q, e)
                           /\ e \in Rows /\ e.row[k] = "REVERTING"
                           /\ (\A o \in Ops : o # k => e.row[o] = x.row[o])
                           /\ \A z \in P \cup Q : Truth(z, r)
<1>1. k \in Ops \ {"settlement"} /\ k \in Ops /\ k # "revert"
  BY OpsAre DEF Recoveries, recoveryRevertKey
<1>2. {"PREPARED", "REVERTING"} \subseteq States /\ Moves(None, "PREPARED") /\ Moves("PREPARED", "REVERTING")
  BY StatesAre DEF terminal
<1>3. \E P, y : /\ Takes(x, first, P, y) /\ y \in Rows /\ y.row[k] = "PREPARED" /\ Truth(y, r)
                /\ (\A o \in Ops : o # k => y.row[o] = x.row[o]) /\ \A z \in P : Truth(z, r)
  <2>1. CASE x.row[k] = None
    <3> DEFINE y == Put(x, Set(k, "PREPARED"))
    <3>1. Moves(x.row[k], "PREPARED")
      BY <1>2, <2>1
    <3> HIDE DEF y
    <3>2. Takes(x, <<Set(k, "PREPARED")>>, {x, y}, y) /\ Near(x, k, None, y) /\ y \in Rows /\ y.row[k] = "PREPARED"
      BY <1>1, <1>2, <3>1, RowSet DEF y
    <3>3. Truth(y, r)
      BY <1>1, <3>2, TruthNear
    <3>4. \A o \in Ops : o # k => y.row[o] = x.row[o]
      BY <1>1, <3>2, NearRows
    <3>5. \A z \in {x, y} : Truth(z, r)
      BY <3>3
    <3> QED
      BY <2>1, <3>2, <3>3, <3>4, <3>5
  <2>2. CASE x.row[k] # None
    <3>1. first = <<>> /\ Takes(x, first, {x}, x)
      BY <2>2, TakesNone
    <3>2. x.row[k] = "PREPARED" /\ \A z \in {x} : Truth(z, r)
      BY <2>2
    <3> QED
      BY <3>1, <3>2
  <2> QED
    BY <2>1, <2>2
<1>4. PICK P, y : /\ Takes(x, first, P, y) /\ y \in Rows /\ y.row[k] = "PREPARED" /\ Truth(y, r)
                  /\ (\A o \in Ops : o # k => y.row[o] = x.row[o]) /\ \A z \in P : Truth(z, r)
  BY <1>3
<1> DEFINE e == Put(y, Set(k, "REVERTING"))
<1>5. Moves(y.row[k], "REVERTING") /\ Live(y, "settlement")
  BY <1>1, <1>2, <1>4, OpsAre DEF Live
<1> HIDE DEF e
<1>6. Takes(y, <<Set(k, "REVERTING")>>, {y, e}, e) /\ Near(y, k, None, e) /\ e \in Rows /\ e.row[k] = "REVERTING"
  BY <1>1, <1>2, <1>4, <1>5, RowSet DEF e
<1>7. Truth(e, r)
  BY <1>1, <1>4, <1>5, <1>6, TruthNear
<1>8. \A o \in Ops : o # k => e.row[o] = x.row[o]
  BY <1>1, <1>4, <1>6, NearRows
<1>9. \A z \in P \cup {y, e} : Truth(z, r)
  BY <1>4, <1>7
<1> QED
  BY <1>4, <1>6, <1>8, <1>9

\* A step of the recovery of a job.
Recovering(j) ==
    /\ Quiet /\ chain[j].at = "idle" /\ mem[j].local /\ ~Making(j)
    /\ UNCHANGED <<db, build, chain, phase, relay>> /\ busy \in {j, Nobody}
    /\ todo' = [todo EXCEPT ![j] = todo'[j]] /\ todo'[j] \in Record /\ todo'[j].place # "boot"
    /\ todo'[j].local => todo'[j].place # "none"
    /\ Live(db[j], "settlement") /\ db[j].row["revert"] # "REVERTED"
    /\ db[j].row["revert"] = "PREPARED" => phase = "boot"

\* It is one of a job that nobody will submit.
LEMMA RecoveringFacts ==
    ASSUME IInv, NEW j \in Jobs, Recovering(j), NEW m \in Record, mem' = [mem EXCEPT ![j] = m],
           (target' = None /\ busy' = Nobody) \/ (target' \in Recoveries /\ busy' = j)
    PROVE  /\ Touched(j) /\ mem'[j] = m /\ chain'[j].at = "idle" /\ relay'[j] = relay[j]
           /\ ~Sent(relay[j]) /\ Gone(j)' /\ BuildOK(j)' /\ ~Making(j)'
           /\ db[j] \in Rows /\ Truth(db[j], relay[j]) /\ mem[j] \in Record /\ mem[j].place # "none"
           /\ build'[j].pc = "answer" => relay'[j] # "open"
<1>1. /\ Quiet /\ chain[j].at = "idle" /\ mem[j].local /\ ~Making(j)
      /\ UNCHANGED <<db, build, chain, phase, relay>> /\ busy \in {j, Nobody}
      /\ todo' = [todo EXCEPT ![j] = todo'[j]] /\ todo'[j] \in Record
  BY DEF Recovering
<1>2. /\ Typed /\ JobOK(j) /\ db[j] \in Rows /\ Truth(db[j], relay[j]) /\ mem[j] \in Record
      /\ build[j] \in Build /\ chain[j] \in Chain /\ relay[j] \in Answers
  BY <1>1, AtRest DEF IInv
<1>3. mem'[j] = m /\ chain'[j].at = "idle" /\ relay'[j] = relay[j]
  BY <1>1, <1>2 DEF Typed
<1>4. busy' \in Jobs \cup {Nobody} /\ target' \in Recoveries \cup {None} /\ (target' # None => busy' \in Jobs)
  OBVIOUS
<1>5. \A k \in Jobs \ {j} : busy' # k /\ busy # k
  BY <1>1, NameAssumption
<1>6. Touched(j)
  BY <1>1, <1>2, <1>3, <1>4, <1>5 DEF Touched, Typed
<1>7. Gone(j) /\ mem[j].place # "none"
  BY <1>1, <1>2 DEF JobOK, LocalOK
<1>8. ~Sent(relay[j]) /\ Gone(j)' /\ (build'[j].pc = "answer" => relay'[j] # "open")
  BY <1>1, <1>7 DEF Gone, Dead, Sent
<1>9. BuildOK(j)' /\ ~Making(j)'
  BY <1>1, NotMaking
<1> QED
  BY <1>2, <1>3, <1>6, <1>7, <1>8, <1>9

\* The recovery is over, with the job or with what is known of it.
LEMMA RecoveryRests ==
    ASSUME IInv, NEW j \in Jobs, Recovering(j), NEW m \in Record, mem' = [mem EXCEPT ![j] = m], ~m.local,
           target' = None, busy' = Nobody, NEW ws, Plan(j, ws), NEW P, NEW e, Takes(db[j], ws, P, e),
           \A z \in P : Truth(z, relay[j]), e.row["settlement"] # None,
           Live(e, "settlement") => m.place # "none" /\ e.row["revert"] \notin {"PREPARED", "REVERTED"}
    PROVE  IInv'
<1> DEFINE d == db[j]
<1>1. /\ Touched(j) /\ mem'[j] = m /\ chain'[j].at = "idle" /\ relay'[j] = relay[j] /\ BuildOK(j)' /\ ~Making(j)'
      /\ build'[j].pc = "answer" => relay'[j] # "open"
  BY RecoveringFacts
<1>2. /\ Quiet /\ Live(d, "settlement") /\ todo'[j].place # "boot" /\ (todo'[j].local => todo'[j].place # "none")
  BY DEF Recovering
<1> HIDE DEF d
<1>3. ASSUME Ahead(db, plan, j)' = e, Via(db, plan, j)' \subseteq P PROVE JobOK(j)'
  <2>1. TruthOK(j)' /\ SendOK(j)' /\ FreshOK(j)'
    BY <1>1, <1>3 DEF TruthOK, SendOK, FreshOK
  <2>2. BuildRows(j)'
    BY <1>1 DEF BuildRows
  <2>3. ChainOK(j)' /\ LocalOK(j)' /\ RetryOK(j)'
    BY <1>1, <1>2 DEF ChainOK, LocalOK, RetryOK, Retrying
  <2>4. RevertOK(j)' /\ KeptOK(j)'
    BY <1>1, <1>3 DEF RevertOK, KeptOK
  <2> QED
    BY <1>1, <2>1, <2>2, <2>3, <2>4 DEF JobOK
<1> QED
  BY <1>1, <1>2, <1>3, Handler DEF d

\* retainRecoveryAmbiguity: the outcome of a wallet call is not known, and the job is held.
LEMMA RetainsKeeps ==
    ASSUME IInv, NEW j \in Jobs, Recovering(j), retainRecoveryAmbiguity(j)
    PROVE  IInv'
<1> DEFINE d == db[j]
           ws == quarantineGroup(d, "local")
           m == [mem[j] EXCEPT !.local = FALSE, !.evid = FALSE, !.reverting = FALSE]
<1>1. Plan(j, ws) /\ target' = None /\ busy' = Nobody
      /\ mem' = [mem EXCEPT ![j].local = FALSE, ![j].evid = FALSE, ![j].reverting = FALSE]
  BY DEF retainRecoveryAmbiguity
<1>2. Quiet /\ Live(d, "settlement") /\ d.row["revert"] # "REVERTED" /\ Typed
  BY DEF Recovering, IInv
<1>3. mem' = [mem EXCEPT ![j] = m]
  BY <1>1, <1>2 DEF Typed, Record
<1>4. mem[j] \in Record
  BY <1>2 DEF Typed
<1>5. m \in Record /\ ~m.local /\ m.place = mem[j].place
  BY <1>4 DEF Record
<1> HIDE DEF m
<1>6. d \in Rows /\ Truth(d, relay[j]) /\ ~Sent(relay[j]) /\ mem[j].place # "none"
  BY <1>1, <1>3, <1>5, RecoveringFacts
<1>7. PICK P, e : /\ Takes(d, ws, P, e) /\ AllHeld(d, "local", e) /\ \A x \in P : Holding(d, "local", x)
  BY <1>6, TakesHold
<1>8. \A x \in P : Truth(x, relay[j])
  BY <1>6, <1>7, TruthHolding
<1>9. e.row["settlement"] # None /\ e.row["revert"] \notin {"PREPARED", "REVERTED"} /\ m.place # "none"
  BY <1>2, <1>5, <1>6, <1>7, OpsAre DEF AllHeld, Live, terminal, None
<1> HIDE DEF ws, d
<1> QED
  BY <1>1, <1>3, <1>5, <1>7, <1>8, <1>9, RecoveryRests DEF d

\* The next target of a recovery, or its end.
LEMMA RecoveryGoesOn ==
    ASSUME IInv, NEW j \in Jobs, Recovering(j), NEW pre, NEW P, NEW x, Takes(db[j], pre, P, x), x \in Rows,
           \A z \in P : Truth(z, relay[j]), Live(x, "settlement"), x.row["revert"] = db[j].row["revert"],
           \A k \in Recoveries : x.row[k] \in {None, "PREPARED", "REVERTED"},
           ContinueRecovery(j, pre)
    PROVE  IInv'
<1> DEFINE d == db[j]
           r == relay[j]
<1>1. x = After(d, pre) /\ x \in P /\ Truth(x, r)
  BY DEF Takes, Runs
<1>2. Quiet /\ Typed /\ mem[j].local /\ mem[j] \in Record /\ Live(d, "settlement") /\ d.row["revert"] # "REVERTED"
      /\ (d.row["revert"] = "PREPARED" => phase = "boot") /\ todo'[j].place # "boot" /\ (todo'[j].local => todo'[j].place # "none")
      /\ UNCHANGED <<db, phase>>
  BY DEF Recovering, IInv, Typed
<1>3. CASE Remaining(x) = {}
  <2> DEFINE ws == pre \o markReverted(x)
             m == NoRecord
  <2>1. Plan(j, ws) /\ mem' = [mem EXCEPT ![j] = m] /\ target' = None /\ busy' = Nobody
    BY <1>1, <1>3 DEF ContinueRecovery, Forget
  <2>2. m \in Record /\ ~m.local
    BY DEF NoRecord, Record, Places
  <2> HIDE DEF m
  <2>3. ~Sent(r)
    BY <2>1, <2>2, RecoveringFacts
  <2>4. PICK Q, e : /\ Takes(x, markReverted(x), Q, e) /\ e.row["settlement"] = "REVERTED" /\ \A z \in Q : Truth(z, r)
    BY <1>1, <2>3, RevertsAll
  <2> DEFINE S == P \cup Q
  <2>5. Takes(d, ws, S, e) /\ (\A z \in S : Truth(z, r)) /\ e.row["settlement"] # None /\ ~Live(e, "settlement")
    BY <2>4, TakesBoth DEF Live, terminal, None
  <2> HIDE DEF ws, S, d
  <2> QED
    BY <2>1, <2>2, <2>5, RecoveryRests DEF d
<1>4. CASE Remaining(x) # {}
  <2> DEFINE k == RecoveryOf(NextTarget(x))
             first == IF x.row[k] = None THEN <<Set(k, "PREPARED")>> ELSE <<>>
             last == <<Set(k, "REVERTING")>>
             ws == (pre \o first) \o last
             m == [mem[j] EXCEPT !.reverting = TRUE]
  <2>1. Plan(j, ws) /\ target' = k /\ busy' = j /\ mem' = [mem EXCEPT ![j].reverting = TRUE]
    BY <1>1, <1>2, <1>4 DEF ContinueRecovery
  <2>2. mem' = [mem EXCEPT ![j] = m] /\ m \in Record /\ m.local /\ m.reverting /\ m.place = mem[j].place
    BY <1>2, <2>1 DEF Typed, Record
  <2>3. k \in Recoveries /\ x.row[k] \in {None, "PREPARED"}
    <3>1. k \in Recoveries /\ x.row[k] # "REVERTED"
      BY <1>4, NextRecovery
    <3> HIDE DEF k
    <3> QED
      BY <3>1
  <2>4. IF x.row[k] = None THEN first = <<Set(k, "PREPARED")>> ELSE first = <<>>
    OBVIOUS
  <2>5. last = <<Set(k, "REVERTING")>>
    OBVIOUS
  <2>6. ws = (pre \o first) \o last
    OBVIOUS
  <2> HIDE DEF k, first, last, ws, m
  <2>7. /\ Touched(j) /\ mem'[j] = m /\ chain'[j].at = "idle" /\ relay'[j] = r /\ BuildOK(j)' /\ ~Making(j)'
        /\ ~Sent(r) /\ Gone(j)' /\ mem[j].place # "none" /\ (build'[j].pc = "answer" => relay'[j] # "open")
    BY <2>1, <2>2, <2>3, RecoveringFacts
  <2>8. PICK Q, y, S, e : /\ Takes(x, first, Q, y) /\ Takes(y, last, S, e) /\ e \in Rows /\ e.row[k] = "REVERTING"
                          /\ (\A o \in Ops : o # k => e.row[o] = x.row[o])
                          /\ \A z \in Q \cup S : Truth(z, r)
    BY <1>1, <2>3, <2>4, <2>5, <2>7, BeginsRecovery
  <2> DEFINE T == (P \cup Q) \cup S
  <2>9. Takes(d, pre \o first, P \cup Q, y)
    BY <2>8, TakesBoth
  <2>10. Takes(d, ws, T, e)
    BY <2>6, <2>8, <2>9, TakesBoth
  <2>11. \A z \in T : Truth(z, r)
    BY <2>8
  <2>12. /\ Live(e, "settlement") /\ e.row["revert"] = d.row["revert"]
         /\ \A o \in Recoveries \ {k} : e.row[o] \in {None, "PREPARED", "REVERTED"}
    <3>1. k # "settlement" /\ k # "revert" /\ Recoveries \subseteq Ops
      BY <2>3, OpsAre DEF Recoveries, recoveryRevertKey
    <3>2. e.row["settlement"] = x.row["settlement"] /\ e.row["revert"] = x.row["revert"]
      BY <2>8, <3>1, OpsAre
    <3> QED
      BY <2>8, <3>1, <3>2 DEF Live
  <2> HIDE DEF T, d
  <2>13. ASSUME Ahead(db, plan, j)' = e, Via(db, plan, j)' \subseteq T PROVE JobOK(j)'
    <3>1. TruthOK(j)' /\ SendOK(j)' /\ FreshOK(j)'
      BY <2>7, <2>11, <2>12, <2>13 DEF TruthOK, SendOK, FreshOK, Live
    <3>2. BuildRows(j)'
      BY <2>7 DEF BuildRows
    <3>3. ChainOK(j)' /\ LocalOK(j)'
      BY <1>2, <2>2, <2>7 DEF ChainOK, LocalOK
    <3>4. RetryOK(j)'
      BY <2>1, <2>2, <2>7, <2>8, <2>12, <2>13 DEF RetryOK, Retrying
    <3>5. target' # None
      BY <2>1, <2>3 DEF Recoveries, recoveryRevertKey, None
    <3>6. RevertOK(j)' /\ KeptOK(j)'
      BY <1>2, <2>1, <2>2, <2>7, <2>12, <2>13, <3>5 DEF RevertOK, KeptOK, Retrying
    <3> QED
      BY <2>7, <3>1, <3>2, <3>3, <3>4, <3>6 DEF JobOK
  <2> QED
    BY <1>2, <2>1, <2>7, <2>10, <2>13, Handler DEF d
<1> QED
  BY <1>3, <1>4

\* The sweep, or the start-up, retries a job that is to be reverted locally.
LEMMA SweepRetriesKeeps == ASSUME IInv, NEW j \in Jobs, SweepRetries(j) PROVE IInv'
<1> DEFINE d == db[j]
<1>1. /\ Take(j) /\ todo[j].local /\ mem[j].local /\ ~mem[j].reverting /\ Live(d, "settlement")
      /\ phase \in {"quarantined", "boot"} /\ retryQuarantine(j) /\ UNCHANGED chain
  BY DEF SweepRetries, Retryable, owns
<1>2. /\ Quiet /\ busy = Nobody /\ target = None /\ ~Making(j)
      /\ todo' = [todo EXCEPT ![j] = todo'[j]] /\ todo'[j] = NoRecord /\ NoRecord \in Record
      /\ NoRecord.place = "none" /\ ~NoRecord.local /\ UNCHANGED <<db, build, phase, relay>>
      /\ phase # "boot" => d.row["revert"] \notin {"PREPARED", "REVERTED"}
  BY <1>1, Taking
<1>3. JobOK(j) /\ Ahead(db, plan, j) = d /\ chain[j] \in Chain /\ d \in Rows /\ Truth(d, relay[j])
  BY <1>2, AtRest
<1>4. d.row["revert"] # "REVERTED"
  <2>1. todo[j].place # "boot"
    BY <1>1, <1>2, <1>3 DEF JobOK, LocalOK
  <2> QED
    BY <1>1, <1>3, <2>1 DEF JobOK, RevertOK
<1>5. chain[j].at = "idle"
  <2>1. Gone(j) /\ busy # j
    BY <1>1, <1>2, <1>3, NameAssumption DEF JobOK, LocalOK
  <2>2. chain[j].at \notin {"done", "fail", "revert"}
    BY <1>1, <1>3, <2>1 DEF JobOK, ChainOK, Gone, Dead
  <2> QED
    BY <1>3, <2>2 DEF Chain
<1>6. Recovering(j)
  BY <1>1, <1>2, <1>4, <1>5 DEF Recovering
<1>7. CASE retainRecoveryAmbiguity(j)
  BY <1>6, <1>7, RetainsKeeps
<1>8. CASE ~Ambiguity(d) /\ ContinueRecovery(j, <<>>)
  <2> DEFINE pre == <<>>
             P == {d}
  <2>1. Takes(d, pre, P, d) /\ (\A z \in P : Truth(z, relay[j])) /\ ContinueRecovery(j, pre)
    BY <1>3, <1>8, TakesNone
  <2>2. \A k \in Recoveries : d.row[k] \in {None, "PREPARED", "REVERTED"}
    BY <1>8 DEF Ambiguity
  <2> HIDE DEF pre, P
  <2> QED
    BY <1>1, <1>3, <1>6, <2>1, <2>2, RecoveryGoesOn
<1> QED
  BY <1>1, <1>4, <1>7, <1>8 DEF retryQuarantine

\* The wallet call of a recovery ends.
LEMMA RecoveryReturnsKeeps == ASSUME IInv, RecoveryReturns PROVE IInv'
<1> DEFINE j == busy
           d == db[j]
           k == target
<1>1. /\ Quiet /\ target # None /\ UNCHANGED <<db, build, chain, phase, todo, relay>>
      /\ ContinueRecovery(j, <<Set(k, "REVERTED")>>) \/ retainRecoveryAmbiguity(j)
  BY DEF RecoveryReturns
<1>2. j \in Jobs /\ k \in Recoveries /\ Typed
  BY <1>1 DEF IInv, Typed
<1>3. JobOK(j) /\ Ahead(db, plan, j) = d /\ todo[j] \in Record /\ d \in Rows /\ Truth(d, relay[j])
  BY <1>1, <1>2, AtRest
<1>4. /\ chain[j].at = "idle" /\ mem[j].local /\ Live(d, "settlement") /\ d.row[k] = "REVERTING"
      /\ \A o \in Recoveries \ {k} : d.row[o] \in {None, "PREPARED", "REVERTED"}
  BY <1>1, <1>2, <1>3 DEF JobOK, RetryOK, Retrying
<1>5. /\ ~Making(j) /\ todo[j].place # "boot" /\ (todo[j].local => todo[j].place # "none") /\ Gone(j)
      /\ d.row["revert"] # "REVERTED" /\ (d.row["revert"] = "PREPARED" => phase = "boot")
  BY <1>3, <1>4 DEF JobOK, BuildOK, LocalOK, RevertOK
<1>6. todo' = [todo EXCEPT ![j] = todo'[j]] /\ todo'[j] = todo[j]
  BY <1>1, <1>2 DEF Typed
<1>7. Recovering(j)
  BY <1>1, <1>3, <1>4, <1>5, <1>6 DEF Recovering
<1> HIDE DEF j, d, k
<1>8. CASE retainRecoveryAmbiguity(j)
  BY <1>2, <1>7, <1>8, RetainsKeeps
<1>9. CASE ContinueRecovery(j, <<Set(k, "REVERTED")>>)
  <2> DEFINE x == Put(d, Set(k, "REVERTED"))
             pre == <<Set(k, "REVERTED")>>
             P == {d, x}
  <2>1. k \in Ops \ {"settlement"} /\ k # "revert" /\ Recoveries \subseteq Ops
    BY <1>2, OpsAre DEF Recoveries, recoveryRevertKey
  <2>2. "REVERTED" \in States /\ Moves(d.row[k], "REVERTED")
    BY <1>4, StatesAre
  <2> HIDE DEF x
  <2>3. Takes(d, pre, P, x) /\ Near(d, k, None, x) /\ x \in Rows /\ x.row[k] = "REVERTED"
    BY <1>3, <2>1, <2>2, RowSet DEF x
  <2>4. ~Sent(relay[j])
    BY <1>5 DEF Gone, Dead, Sent
  <2>5. Truth(x, relay[j])
    BY <1>3, <1>4, <2>1, <2>3, <2>4, TruthNear
  <2>6. \A o \in Ops : o # k => x.row[o] = d.row[o]
    BY <2>3 DEF Near
  <2>7. /\ Live(x, "settlement") /\ x.row["revert"] = d.row["revert"]
        /\ \A o \in Recoveries : x.row[o] \in {None, "PREPARED", "REVERTED"}
    <3>1. x.row["settlement"] = d.row["settlement"] /\ x.row["revert"] = d.row["revert"]
      BY <2>1, <2>6, OpsAre
    <3> QED
      BY <1>4, <2>1, <2>3, <2>6, <3>1 DEF Live
  <2>8. (\A z \in P : Truth(z, relay[j])) /\ ContinueRecovery(j, pre)
    BY <1>3, <1>9, <2>5
  <2> HIDE DEF pre, P
  <2> QED
    BY <1>2, <1>7, <2>3, <2>7, <2>8, RecoveryGoesOn DEF d
<1> QED
  BY <1>1, <1>8, <1>9 DEF j, k

-----------------------------------------------------------------------------
(* The invariant is inductive, and what follows from it.                   *)

\* No step of the executor, its wallet, its relay or the ledger breaks the invariant.
LEMMA StepsKeep == ASSUME IInv, [Next]_vars PROVE IInv'
<1>1. CASE Next
  <2>1. CASE Write
    BY <2>1, WriteKeeps
  <2>2. CASE Crash
    BY <2>2, CrashKeeps
  <2>3. CASE Sweeping
    BY <2>3, LoopsKeep, RecoveryReturnsKeeps, SweepSkipsKeeps, SweepRetriesKeeps, SweepReconcilesKeeps DEF Sweeping
  <2>4. CASE Booting
    BY <2>4, LoopsKeep, BootCompletesKeeps, BootKeepsKeeps, BootReconcilesKeeps, BootRevertsKeeps DEF Booting
  <2>5. ASSUME NEW j \in Jobs, Building(j) PROVE IInv'
    BY <2>5, ReadFilesKeeps, GetAddressKeeps, WalletReturnsKeeps, WalletThrowsKeeps, CleanupCallKeeps,
       CleanupReturnsKeeps, CleanupDoneKeeps, AnswerKeeps DEF Building
  <2>6. ASSUME NEW j \in Jobs, Reconciling(j) PROVE IInv'
    BY <2>6, EvidenceDoneKeeps, EvidenceFailKeeps, RevertReturnsKeeps DEF Reconciling
  <2>7. ASSUME NEW j \in Jobs, OnSwap(j) \/ Timeout(j) \/ onTxSubmitted(j) \/ onSubmitFailed(j) PROVE IInv'
    BY <2>7, OnSwapKeeps, TimeoutKeeps, OnTxSubmittedKeeps, OnSubmitFailedKeeps
  <2>8. ASSUME NEW j \in Jobs, RelayGivesUp(j) \/ RelaySubmits(j) PROVE IInv'
    <3> DEFINE s == relay'[j]
    <3>1. /\ UNCHANGED <<db, plan, mem, build, chain, todo, phase, busy, target>>
          /\ relay' = [relay EXCEPT ![j] = s]
          /\ (relay[j] = "open" /\ s = "error") \/ (relay[j] = "half" /\ s \in {"failed", "done"})
      BY <2>8 DEF RelayGivesUp, RelaySubmits, memory, IInv, Typed
    <3> HIDE DEF s
    <3> QED
      BY <3>1, RelayKeeps
  <2>9. ASSUME NEW o \in Offers, RivalTakes(o) \/ IndexConsumption(o) PROVE IInv'
    BY <2>9, OthersKeep DEF RivalTakes, IndexConsumption, memory
  <2> QED
    BY <1>1, <2>1, <2>2, <2>3, <2>4, <2>5, <2>6, <2>7, <2>8, <2>9 DEF Next
<1>2. CASE UNCHANGED vars
  BY <1>2, OthersKeep DEF vars, memory, world
<1> QED
  BY <1>1, <1>2

\* Whatever is interleaved, refused, timed out or cut by a restart, the records in
\* memory, the writes still to be made and the journal agree on every job.
THEOREM SwapInvariant == Spec => []IInv
<1>1. Init => IInv
  BY Begins
<1>2. IInv /\ [Next]_vars => IInv'
  BY StepsKeep
<1> QED
  BY <1>1, <1>2, PTL DEF Spec

\* What the invariant says of the journal as it is now, were the process to stop.
LEMMA NowTrue == ASSUME IInv, NEW j \in Jobs PROVE Truth(db[j], relay[j])
<1>1. Typed /\ TruthOK(j)
  BY DEF IInv, JobOK
<1>2. db[j] \in Via(db, plan, j)
  BY <1>1, HereIsPassed
<1> QED
  BY <1>1, <1>2 DEF TruthOK

\* Two jobs that are not over never hold the same maker offer in the journal: the
\* claims that reconcileStartup rebuilds after a restart do not overlap.
THEOREM ClaimsAreExclusive == Spec => []ExclusiveClaims
<1>1. IInv => ExclusiveClaims
  <2> SUFFICES ASSUME IInv, NEW j \in Jobs, NEW k \in Jobs, j # k, owns(j), owns(k)
               PROVE  Route[j] \cap Route[k] = {}
    BY DEF ExclusiveClaims
  <2>1. db[j] \in Via(db, plan, j) /\ db[k] \in Via(db, plan, k)
    BY HereIsPassed DEF IInv
  <2>2. Alive(j) /\ Alive(k)
    BY <2>1 DEF Alive, owns
  <2> QED
    BY <2>2 DEF IInv, AliveApart
<1> QED
  BY <1>1, SwapInvariant, PTL

\* A half that the relay may still submit, or has submitted, is never reverted:
\* neither by the build that fails, nor by revertWallet, nor by a local recovery.
THEOREM RevertsOnlyTheDead == Spec => []RevertOnlyWhenDead
<1>1. IInv => RevertOnlyWhenDead
  <2> SUFFICES ASSUME IInv, NEW j \in Jobs, InRevert(j) PROVE ~Sent(relay[j])
    BY DEF RevertOnlyWhenDead, Sent
  <2>1. BuildOK(j) /\ ChainOK(j) /\ LocalOK(j) /\ RetryOK(j)
    BY DEF IInv, JobOK
  <2>2. CASE build[j].call
    BY <2>1, <2>2 DEF BuildOK, Making, Sent
  <2>3. CASE chain[j].at = "revert"
    BY <2>1, <2>3 DEF ChainOK, Dead, Sent
  <2>4. CASE busy = j /\ target # None
    BY <2>1, <2>4 DEF RetryOK, Retrying, LocalOK, Gone, Dead, Sent
  <2> QED
    BY <2>2, <2>3, <2>4 DEF InRevert
<1> QED
  BY <1>1, SwapInvariant, PTL

\* The settlement row becomes terminal after the rows of its wallet operations, at
\* every point where the process may stop (terminalOrder).
THEOREM SettlementEndsLast == Spec => []TerminalLast
<1>1. IInv => TerminalLast
  BY NowTrue DEF TerminalLast, Truth, Settlement
<1> QED
  BY <1>1, SwapInvariant, PTL

\* The DUST of a half that landed stays counted, and is spent only by one.
THEOREM FeesAreKept == Spec => []FeeKept
<1>1. IInv => FeeKept
  BY NowTrue DEF FeeKept, landed, Truth, Sent, Owned, Unsent
<1> QED
  BY <1>1, SwapInvariant, PTL

\* A write of the journal is the first that is pending.
LEMMA WritesFirst ==
    ASSUME IInv, Write
    PROVE  \E m \in Jobs, w \in Writes : db' = [db EXCEPT ![m] = Put(@, w)] /\ Accepted(db[m], w)
<1> DEFINE j == Head(plan).job
           w == Head(plan).w
           R == [job : Jobs, w : Writes]
           ws == [i \in DOMAIN plan |-> plan[i].w]
<1>1. plan # <<>> /\ db' = [db EXCEPT ![j] = Put(@, w)]
  BY DEF Write
<1>2. plan \in Seq(R)
  BY DEF IInv, Typed, PlanTyped
<1>3. \A q \in R : q.job \in Jobs /\ q.w \in Writes
  OBVIOUS
<1> HIDE DEF R
<1>4. /\ Len(plan) \in Nat \ {0} /\ Head(plan) = plan[1] /\ plan[1] \in R /\ DOMAIN plan = 1..Len(plan)
      /\ \A i \in 1..Len(plan) : plan[i] \in R
  BY <1>1, <1>2, TailOf
<1>5. j \in Jobs /\ w \in Writes /\ \A i \in 1..Len(plan) : plan[i].w \in Writes
  BY <1>3, <1>4
<1>6. WritesOf(plan, j) = ws
  BY <1>1, <1>4 DEF WritesOf
<1>7. ws \in Seq(Writes) /\ Len(ws) = Len(plan) /\ ws[1] = w /\ 1 \in 1..Len(ws)
  BY <1>4, <1>5
<1>8. AllAccepted(db[j], ws)
  BY <1>5, <1>6 DEF IInv, Accepting
<1> HIDE DEF ws
<1>9. Accepted(At(db[j], ws, 1 - 1), ws[1]) /\ 1 - 1 = 0
  BY <1>7, <1>8 DEF AllAccepted
<1>10. At(db[j], ws, 0) = db[j]
  BY <1>7, AtNext
<1> HIDE DEF j, w
<1> QED
  BY <1>1, <1>5, <1>7, <1>9, <1>10

\* It changes the state of no other row than its own.
LEMMA OneRow ==
    ASSUME NEW d \in Rows, NEW w \in Writes, NEW op \in Ops, Put(d, w).row[op] # d.row[op]
    PROVE  w.op = op /\ Put(d, w).row[op] = w.to
<1>1. CASE w \in [op : Ops, to : States, why : Whys]
  <2> DEFINE o == w.op
             s == w.to
             y == w.why
  <2>1. o \in Ops /\ s \in States /\ y \in Whys /\ w = Because(o, s, y)
    BY <1>1 DEF Because
  <2> HIDE DEF o, s, y
  <2>2. Put(d, w).row = [d.row EXCEPT ![o] = s]
    BY <2>1, PutRow
  <2>3. o = op /\ Put(d, w).row[op] = s
    BY <2>1, <2>2 DEF Rows
  <2> QED
    BY <2>3 DEF o, s
<1>2. CASE w \in [op : {"receipt"}, to : {"done", "error"}, why : {None}] \cup [op : {"fee"}, to : Fees, why : {None}]
  <2>1. w.op \in {"receipt", "fee"}
    BY <1>2
  <2>2. Put(d, w).row = d.row
    BY <2>1 DEF Put, Rows
  <2> QED
    BY <2>2
<1> QED
  BY <1>1, <1>2 DEF Writes

\* Every write is one that the journal accepts: no loop over the rows of a job
\* throws half-way, whatever another handler or a restart did to them before.
THEOREM WritesAreAccepted == Spec => JournalAccepts
<1> DEFINE A == \A j \in Jobs, op \in Ops :
                   db'[j].row[op] # db[j].row[op] =>
                       IF db[j].row[op] = None THEN db'[j].row[op] = "PREPARED"
                       ELSE db'[j].row[op] \in Journal!allowedTransitions[db[j].row[op]]
<1>1. IInv /\ [Next]_vars => [A]_vars
  <2> SUFFICES ASSUME IInv, [Next]_vars, NEW j \in Jobs, NEW op \in Ops, db'[j].row[op] # db[j].row[op]
               PROVE  IF db[j].row[op] = None THEN db'[j].row[op] = "PREPARED"
                      ELSE db'[j].row[op] \in Journal!allowedTransitions[db[j].row[op]]
    OBVIOUS
  <2>1. Write
    <3>1. db' # db
      OBVIOUS
    <3> QED
      BY <3>1, ZenonT(60) DEF Next, vars, Crash, Sweeping, Booting, Building, Reconciling, sweep, RecoveryReturns, SweepSkips,
         SweepRetries, SweepReconciles, Take, BootEnds, BootCompletes, BootKeeps, BootReconciles, BootReverts, Boot,
         OnSwap, ReadFiles, GetAddress, WalletReturns, WalletThrows, CleanupCall, CleanupReturns, CleanupDone, Answer,
         Timeout, EvidenceDone, EvidenceFail, RevertReturns, onTxSubmitted, onSubmitFailed, RelayGivesUp, RelaySubmits,
         RivalTakes, IndexConsumption
  <2>2. PICK m \in Jobs, w \in Writes : db' = [db EXCEPT ![m] = Put(@, w)] /\ Accepted(db[m], w)
    BY <2>1, WritesFirst
  <2>3. db \in [Jobs -> Rows] /\ db[m] \in Rows
    BY DEF IInv, Typed
  <2>4. m = j /\ db'[j] = Put(db[j], w)
    BY <2>2, <2>3
  <2>5. w.op = op /\ db'[j].row[op] = w.to
    BY <2>3, <2>4, OneRow
  <2> QED
    BY <2>2, <2>4, <2>5 DEF Accepted
<1> QED
  BY <1>1, SwapInvariant, PTL DEF JournalAccepts, Spec
=============================================================================

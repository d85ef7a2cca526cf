-------------------------- MODULE OfferIndexProofs --------------------------
(***************************************************************************)
(* What TLAPS proves of OfferIndex, for every value of its constants: the  *)
(* types, the deadlines of the book, that an offer never comes back, the   *)
(* exclusion of markers and, of the index and the ledger that it follows,  *)
(* that the book offers no coin seen spent but those born spent, that the  *)
(* expiry it advertises outlives the roots of a block by a block at most,  *)
(* that fill-vs-cancel and the stored verdicts are exact, and that a coin  *)
(* backs one trade.                                                        *)
(***************************************************************************)
EXTENDS OfferIndex, TLAPS, WellFoundedInduction

-----------------------------------------------------------------------------
(* Facts about the helpers.                                                *)

\* The earliest of some times is one of them and at most each of them.
LEMMA EarliestIsMinimum ==
    ASSUME NEW S \in SUBSET Nat, S # {}
    PROVE  Earliest(S) \in S /\ \A u \in S : Earliest(S) <= u
<1>. DEFINE Less == {p \in Nat \X Nat : p[1] < p[2]}
<1>1. IsWellFoundedOn(Less, Nat)
  BY NatLessThanWellFounded DEF OpToRel
<1>2. \A x, y \in Nat : x < y => <<x, y>> \in Less
  OBVIOUS
<1>. HIDE DEF Less
<1>3. PICK t \in S : \A u \in S : ~(<<u, t>> \in Less)
  BY <1>1, WFMin
<1>4. \A u \in S : t <= u
  <2>1. \A u \in S : ~(u < t)
    BY <1>2, <1>3
  <2>. QED
    BY <2>1
<1>. QED
  BY <1>4 DEF Earliest

\* An event built from typed parts is typed.
LEMMA EvTyped ==
    ASSUME NEW type \in EventTypes, NEW tx \in TxHash,
           NEW on \in Offers \cup Nullifiers \cup Commitments \cup Utxos \cup Nat
    PROVE  Ev(type, on, tx) \in Event
BY DEF Ev, Event

\* A transaction reports typed events.
LEMMA EventsOfTyped ==
    ASSUME NEW tx \in Tx, NEW hash \in TxHash
    PROVE  EventsOf(tx, hash) \subseteq Event
BY EvTyped DEF EventsOf, Tx, EventTypes

\* Recording an observation keeps the type of its table.
LEMMA RecordTyped ==
    ASSUME NEW S, NEW table \in [S -> TxHash], NEW key \in S, NEW tx \in TxHash
    PROVE  Record(table, key, tx) \in [S -> TxHash]
BY DEF Record

\* Merging offers gives a transaction.
LEMMA MergedTyped == ASSUME NEW S \in SUBSET Valid PROVE Merged(S) \in Tx
BY DeclaredAssumption, ShapeAssumption DEF Merged, Tx

\* An accepted offer has a natural expiry that has not passed: its roots are
\* live, so each counts from a time in the window, and its TTLs lie ahead.
LEMMA ExpiryAhead ==
    ASSUME TypeOK, NEW o \in Offers, InputsLive(o), CryptoOk(o)
    PROVE  Expiry(o) \in Nat /\ Expiry(o) >= now
<1>. USE DeclaredAssumption, BoundAssumption
<1>1. \A t \in ExpiryLimits(o) : t \in Nat /\ t >= now
  <2>1. ASSUME NEW r \in OfferRoots[o]
        PROVE  /\ RootAnchor(o, r) + RootWindow \in Nat
               /\ RootAnchor(o, r) + RootWindow >= now
    <3>1. r \in Roots /\ knownRoots[r] \in Nat /\ now \in Nat
      BY <2>1 DEF TypeOK
    <3>2. IsNewest(r) \/ knownRoots[r] >= now - RootWindow
      BY <2>1 DEF InputsLive, RootLive
    <3>. QED
      BY <3>1, <3>2 DEF RootAnchor
  <2>2. \A t \in IntentTtls[o] : t \in Nat /\ t >= now
    BY DEF CryptoOk, TypeOK
  <2>. QED
    BY <2>1, <2>2 DEF ExpiryLimits
<1>2. CASE ExpiryLimits(o) = {}
  BY <1>2 DEF Expiry, TypeOK
<1>3. CASE ExpiryLimits(o) # {}
  BY <1>1, <1>3, EarliestIsMinimum DEF Expiry
<1>. QED
  BY <1>2, <1>3

\* An accepted offer has no input that was seen spent before it, so the
\* reconciliation of early nullifiers after its insert finds nothing to do,
\* although the early arrival of a nullifier is what it is for.
THEOREM NothingEarly ==
    ASSUME NEW o \in Offers, Accepts(o)
    PROVE  {n \in OfferNulls[o] : Unmatched(n)} = {}
BY DEF Accepts, InputsLive, Unmatched

-----------------------------------------------------------------------------
(* Types.                                                                  *)

\* The initial tables and chains have their types.
LEMMA TypeInit == Init => TypeOK
<1>. SUFFICES ASSUME Init PROVE TypeOK
  OBVIOUS
<1>1. 1 \in Roots
  BY BoundAssumption DEF Roots
<1>. QED
  BY <1>1, DeclaredAssumption
     DEF Init, TypeOK, TxHash, NotSeen, Verdicts

\* Including a transaction keeps the types.
LEMMA TypeInclude ==
    ASSUME TypeOK, NEW tx \in Tx, Include(tx)
    PROVE  TypeOK'
<1>1. PICK hash \in TxHash : staged' = staged \cup EventsOf(tx, hash)
  BY DEF Include, TypeOK, TxHash, NoHash
<1>2. staged' \subseteq Event
  BY <1>1, EventsOfTyped DEF TypeOK
<1>3. chain' \in Seq(Tx) /\ mined' \in Seq(Nat)
  BY DEF Include, TypeOK
<1>. QED
  BY <1>2, <1>3 DEF Include, TypeOK, bookVars, seenVars

\* Archiving typed rows keeps the types of the book, the history and notices.
LEMMA ArchiveTyped ==
    ASSUME TypeOK, NEW S \in SUBSET Offers, NEW reason \in Reasons,
           Archive(S, reason)
    PROVE  /\ offerFile' \subseteq Offers
           /\ history' \subseteq [offer : Offers, reason : Reasons, at : Nat]
           /\ notices' \subseteq Offers
BY DEF Archive, TypeOK

\* Taking an input leaves typed inputs.
LEMMA TakeTyped ==
    ASSUME TypeOK, NEW e, Take(e)
    PROVE  inbox' \subseteq Event /\ e \in Event
BY DEF Take, TypeOK

\* Every step keeps the types.
LEMMA TypeStep == TypeOK /\ [Next]_vars => TypeOK'
<1>. SUFFICES ASSUME TypeOK, [Next]_vars PROVE TypeOK'
  OBVIOUS
<1>. USE DeclaredAssumption, BoundAssumption
<1>1. CASE UNCHANGED vars
  BY <1>1 DEF TypeOK, vars, chainVars, bookVars, seenVars
<1>2. ASSUME NEW S \in SUBSET Valid, Settlement(S) PROVE TypeOK'
  BY <1>2, MergedTyped, TypeInclude DEF Settlement
<1>3. ASSUME NEW N \in SUBSET Nullifiers, NEW U \in SUBSET Utxos, OtherSpend(N, U)
      PROVE  TypeOK'
  <2>1. [nulls |-> N, comms |-> {}, spends |-> U, creates |-> {}] \in Tx
    BY DEF Tx
  <2>. QED
    BY <1>3, <2>1, TypeInclude DEF OtherSpend
<1>4. CASE RootAdvances
  <2>1. Ev("root", tip + 1, NoHash) \in Event
    BY EvTyped DEF TypeOK, Roots, EventTypes, TxHash, NoHash
  <2>2. staged' \subseteq Event /\ tip' \in Roots
    BY <1>4, <2>1 DEF RootAdvances, TypeOK, Roots
  <2>3. appeared' \in [Roots -> Nat]
    <3>1. appeared' = [appeared EXCEPT ![tip + 1] = now + 1] /\ now + 1 \in Nat
      BY <1>4 DEF RootAdvances, TypeOK
    <3>. QED
      BY <3>1 DEF TypeOK
  <2>4. lastCurrent' \in [Roots -> Nat]
    <3>1. tip + 1 \in Roots /\ tip \in Roots /\ lastCurrent[tip] \in Nat /\ now + 1 \in Nat
      BY <1>4 DEF RootAdvances, TypeOK, Roots
    <3>2. PICK last \in Nat :
             lastCurrent' = [lastCurrent EXCEPT ![tip] = last, ![tip + 1] = now + 1]
      BY <1>4, <3>1 DEF RootAdvances
    <3>. QED
      BY <3>1, <3>2 DEF TypeOK
  <2>. QED
    BY <1>4, <2>2, <2>3, <2>4 DEF RootAdvances, TypeOK, bookVars, seenVars
<1>5. ASSUME NEW o \in Offers, PostBlob(o) PROVE TypeOK'
  <2>1. Ev("blob", o, NoHash) \in Event
    BY EvTyped DEF EventTypes, TxHash, NoHash
  <2>2. staged' \subseteq Event
    BY <1>5, <2>1 DEF PostBlob, TypeOK
  <2>. QED
    BY <1>5, <2>2 DEF PostBlob, TypeOK, bookVars, seenVars
<1>6. CASE BeginBlock
  <2>1. \A c \in cleanups : Ev("cleanup", c[1], NoHash) \in Event
    BY EvTyped DEF TypeOK, EventTypes, TxHash, NoHash
  <2>2. inbox' \subseteq Event /\ staged' = {} /\ now' \in Nat
    BY <1>6, <2>1 DEF BeginBlock, TypeOK
  <2>3. lastCurrent' \in [Roots -> Nat]
    <3>1. lastCurrent' = [lastCurrent EXCEPT ![tip] = now + 1]
      BY <1>6 DEF BeginBlock
    <3>2. lastCurrent \in [Roots -> Nat] /\ now + 1 \in Nat
      BY DEF TypeOK
    <3>. QED
      BY <3>1, <3>2
  <2>. QED
    BY <1>6, <2>2, <2>3 DEF BeginBlock, TypeOK, seenVars
<1>7. ASSUME NEW o \in Offers, RejectBlob(o) PROVE TypeOK'
  BY <1>7, TakeTyped
     DEF RejectBlob, TypeOK, chainVars, bookVars, seenVars
<1>8. ASSUME NEW o \in Offers, IndexBlob(o) PROVE TypeOK'
  <2>1. {n \in OfferNulls[o] : Unmatched(n)} = {}
    BY <1>8, NothingEarly DEF IndexBlob
  <2>2. Expiry(o) \in Nat /\ inbox' \subseteq Event
    BY <1>8, ExpiryAhead, TakeTyped DEF IndexBlob, Accepts
  <2>3. offerFile' = offerFile \cup {o} /\ cleanups' = cleanups \cup {<<o, Expiry(o)>>}
    BY <1>8, <2>1 DEF IndexBlob, CleanupTime
  <2>4. UNCHANGED <<history, notices, matched>>
    BY <1>8, <2>1 DEF IndexBlob, TypeOK
  <2>5. expiresAt' \in [Offers -> Nat]
    BY <1>8, <2>2 DEF IndexBlob, TypeOK
  <2>6. UNCHANGED <<chainVars, now, seenVars, verdict>>
    BY <1>8 DEF IndexBlob
  <2>7. cleanups' \subseteq Offers \X Nat /\ offerFile' \subseteq Offers
    BY <2>2, <2>3 DEF TypeOK
  <2>. QED
    BY <2>2, <2>4, <2>5, <2>6, <2>7 DEF TypeOK, chainVars, seenVars
<1>9. ASSUME NEW o \in Offers, TtlCleanup(o) PROVE TypeOK'
  <2>1. {p \in offerFile : p = o /\ PastExpiry(p)} \subseteq Offers
    OBVIOUS
  <2>2. /\ offerFile' \subseteq Offers /\ notices' \subseteq Offers
        /\ history' \subseteq [offer : Offers, reason : Reasons, at : Nat]
    BY <1>9, <2>1, ArchiveTyped DEF TtlCleanup, Reasons
  <2>. QED
    BY <1>9, <2>2, TakeTyped DEF TtlCleanup, TypeOK, chainVars, seenVars
<1>10. ASSUME NEW n \in Nullifiers, NEW tx \in {e.tx : e \in inbox},
              NullifierEvent(n, tx)
       PROVE  TypeOK'
  <2>1. tx \in TxHash
    BY DEF TypeOK, Event
  <2>2. OffersSpending(n) \subseteq Offers
    BY DEF OffersSpending, TypeOK
  <2>3. /\ offerFile' \subseteq Offers /\ notices' \subseteq Offers
        /\ history' \subseteq [offer : Offers, reason : Reasons, at : Nat]
    BY <1>10, <2>2, ArchiveTyped DEF NullifierEvent, Reasons
  <2>4. nullTx' \in [Nullifiers -> TxHash]
    BY <1>10, <2>1, RecordTyped DEF NullifierEvent, TypeOK
  <2>. QED
    BY <1>10, <2>3, <2>4, TakeTyped DEF NullifierEvent, TypeOK, chainVars
<1>11. ASSUME NEW c \in Commitments, NEW tx \in {e.tx : e \in inbox},
              CommitmentEvent(c, tx)
       PROVE  TypeOK'
  <2>1. tx \in TxHash
    BY DEF TypeOK, Event
  <2>2. commTx' \in [Commitments -> TxHash]
    BY <1>11, <2>1, RecordTyped DEF CommitmentEvent, TypeOK
  <2>. QED
    BY <1>11, <2>2, TakeTyped
       DEF CommitmentEvent, TypeOK, chainVars, bookVars
<1>12. ASSUME NEW u \in Utxos, NEW tx \in {e.tx : e \in inbox}, SpendEvent(u, tx)
       PROVE  TypeOK'
  <2>1. tx \in TxHash
    BY DEF TypeOK, Event
  <2>2. {o \in offerFile : u \in OfferSpends[o]} \subseteq Offers
    BY DEF TypeOK
  <2>3. /\ offerFile' \subseteq Offers /\ notices' \subseteq Offers
        /\ history' \subseteq [offer : Offers, reason : Reasons, at : Nat]
    BY <1>12, <2>2, ArchiveTyped DEF SpendEvent, Reasons
  <2>4. spendTx' \in [Utxos -> TxHash]
    BY <1>12, <2>1, RecordTyped DEF SpendEvent, TypeOK
  <2>. QED
    BY <1>12, <2>3, <2>4, TakeTyped DEF SpendEvent, TypeOK, chainVars
<1>13. ASSUME NEW u \in Utxos, NEW tx \in {e.tx : e \in inbox}, CreateEvent(u, tx)
       PROVE  TypeOK'
  BY <1>13, TakeTyped DEF CreateEvent, TypeOK, chainVars, bookVars
<1>14. ASSUME NEW r \in Roots, RootEvent(r) PROVE TypeOK'
  <2>1. knownRoots' \in [Roots -> Nat]
    BY <1>14 DEF RootEvent, Pruned, NotSeen, TypeOK
  <2>. QED
    BY <1>14, <2>1, TakeTyped
       DEF RootEvent, TypeOK, chainVars, bookVars
<1>15. ASSUME NEW o \in Offers,
              AdjudicateOnEvent(o) \/ LoseNotice(o) \/ RepairSweep(o)
       PROVE  TypeOK'
  <2>1. verdict' \in [Offers -> Verdicts] /\ notices' \subseteq Offers
    BY <1>15
       DEF AdjudicateOnEvent, LoseNotice, RepairSweep, AdjudicateFill, TypeOK, Verdicts
  <2>. QED
    BY <1>15, <2>1 DEF AdjudicateOnEvent, LoseNotice, RepairSweep, TypeOK,
                       chainVars, bookVars, seenVars
<1>. QED
  BY <1>1, <1>2, <1>3, <1>4, <1>5, <1>6, <1>7, <1>8, <1>9, <1>10, <1>11, <1>12,
     <1>13, <1>14, <1>15 DEF Next, Chains, HandleInput, Adjudication

\* The tables, the inputs of a block and the chains always have their types.
THEOREM TypeCorrect == Spec => []TypeOK
<1>. QED
  BY TypeInit, TypeStep, PTL DEF Spec

-----------------------------------------------------------------------------
(* The book and the history.  Rows enter the book by IndexBlob alone and   *)
(* leave it by archiving; every other step leaves both tables alone.       *)

\* What each step does to the tables of the book and of nullifiers.
LEMMA BookSteps ==
    ASSUME [Next]_vars
    PROVE  \/ UNCHANGED <<offerFile, history, nullTx>>
           \/ \E o \in Offers : IndexBlob(o)
           \/ \E o \in Offers : TtlCleanup(o)
           \/ \E n \in Nullifiers, tx \in {e.tx : e \in inbox} : NullifierEvent(n, tx)
           \/ \E u \in Utxos, tx \in {e.tx : e \in inbox} : SpendEvent(u, tx)
<1>1. CASE UNCHANGED vars
  BY <1>1 DEF vars, bookVars, seenVars
<1>2. CASE Chains
  BY <1>2 DEF Chains, Settlement, OtherSpend, Include, RootAdvances, PostBlob,
              bookVars, seenVars
<1>3. CASE BeginBlock
  BY <1>3 DEF BeginBlock, bookVars, seenVars
<1>4. CASE HandleInput
  BY <1>4 DEF HandleInput, RejectBlob, CommitmentEvent, CreateEvent, RootEvent,
              bookVars, seenVars
<1>5. CASE Adjudication
  BY <1>5 DEF Adjudication, AdjudicateOnEvent, LoseNotice, RepairSweep, bookVars, seenVars
<1>. QED
  BY <1>1, <1>2, <1>3, <1>4, <1>5 DEF Next

\* Archiving live rows moves them: none is left live, none is archived twice.
LEMMA ArchiveMoves ==
    ASSUME TypeOK, NoResurrection, NEW S \in SUBSET offerFile, NEW reason,
           Archive(S, reason)
    PROVE  /\ offerFile' = offerFile \ S
           /\ NoResurrection'
           /\ \A o : AlreadyIndexed(o) => AlreadyIndexed(o)'
<1>1. /\ offerFile' = offerFile \ S
      /\ history' = history \cup {[offer |-> o, reason |-> reason, at |-> now] : o \in S}
  BY DEF Archive
<1>2. \A h \in history' : h \in history \/ \E o \in S :
                              h = [offer |-> o, reason |-> reason, at |-> now]
  BY <1>1
<1>3. \A h \in history' : h.offer \notin offerFile'
  BY <1>1, <1>2 DEF NoResurrection
<1>4. \A g, h \in history' : g.offer = h.offer => g = h
  BY <1>2 DEF NoResurrection
<1>5. ASSUME NEW o, AlreadyIndexed(o) PROVE AlreadyIndexed(o)'
  <2>1. CASE o \in S
    <3>1. [offer |-> o, reason |-> reason, at |-> now] \in history'
      BY <1>1, <2>1
    <3>. QED
      BY <3>1 DEF AlreadyIndexed, Archived
  <2>2. CASE o \notin S
    BY <1>1, <1>5, <2>2 DEF AlreadyIndexed, Archived
  <2>. QED
    BY <2>1, <2>2
<1>. QED
  BY <1>1, <1>3, <1>4, <1>5 DEF NoResurrection

\* Indexing inserts one row, which is new, with the earliest limit as expiry
\* and a cleanup at it.
LEMMA IndexInserts ==
    ASSUME NEW o \in Offers, IndexBlob(o)
    PROVE  /\ ~AlreadyIndexed(o) /\ InputsLive(o) /\ CryptoOk(o) /\ ~MarkersClaimed(o)
           /\ offerFile' = offerFile \cup {o}
           /\ cleanups' = cleanups \cup {<<o, Expiry(o)>>}
           /\ expiresAt' = [expiresAt EXCEPT ![o] = Expiry(o)]
           /\ Take(Ev("blob", o, NoHash))
           /\ UNCHANGED <<history, now, chain, mined, staged, nullTx, spendTx, liveUtxos>>
<1>1. {n \in OfferNulls[o] : Unmatched(n)} = {}
  BY NothingEarly DEF IndexBlob
<1>. QED
  BY <1>1 DEF IndexBlob, Accepts, CleanupTime, chainVars, seenVars

\* The book holds each offer once, under distinct markers and with shielded
\* inputs that no event has spent.
BookInv ==
    /\ NoResurrection
    /\ MarkersExclusive
    /\ \A o \in offerFile : \A n \in OfferNulls[o] : nullTx[n] = NotSeen

\* Archiving live rows keeps the book, if no nullifier of a row left is taken.
LEMMA ArchiveKeepsBook ==
    ASSUME TypeOK, BookInv, NEW S \in SUBSET offerFile, NEW reason,
           Archive(S, reason),
           \A o \in offerFile \ S : \A n \in OfferNulls[o] : nullTx'[n] = nullTx[n]
    PROVE  BookInv'
<1>1. offerFile' = offerFile \ S /\ NoResurrection'
  BY ArchiveMoves DEF BookInv
<1>. QED
  BY <1>1 DEF BookInv, MarkersExclusive, Markers

\* Every transition of the state machine keeps the rows of the book distinct.
LEMMA BookStep == TypeOK /\ BookInv /\ [Next]_vars => BookInv'
<1>. SUFFICES ASSUME TypeOK, BookInv, [Next]_vars PROVE BookInv'
  OBVIOUS
<1>1. CASE UNCHANGED <<offerFile, history, nullTx>>
  BY <1>1 DEF BookInv, NoResurrection, MarkersExclusive, Markers
<1>2. ASSUME NEW o \in Offers, IndexBlob(o) PROVE BookInv'
  <2>1. /\ ~AlreadyIndexed(o) /\ InputsLive(o) /\ ~MarkersClaimed(o)
        /\ offerFile' = offerFile \cup {o} /\ UNCHANGED <<history, nullTx>>
    BY <1>2, IndexInserts
  <2>2. NoResurrection'
    BY <2>1 DEF BookInv, NoResurrection, AlreadyIndexed, Archived
  <2>3. MarkersExclusive'
    BY <2>1 DEF BookInv, MarkersExclusive, MarkersClaimed, Markers
  <2>4. \A p \in offerFile' : \A n \in OfferNulls[p] : nullTx'[n] = NotSeen
    BY <2>1 DEF BookInv, InputsLive
  <2>. QED
    BY <2>2, <2>3, <2>4 DEF BookInv
<1>3. ASSUME NEW o \in Offers, TtlCleanup(o) PROVE BookInv'
  BY <1>3, ArchiveKeepsBook DEF TtlCleanup, seenVars
<1>4. ASSUME NEW n \in Nullifiers, NEW tx, NullifierEvent(n, tx) PROVE BookInv'
  <2>1. /\ OffersSpending(n) \in SUBSET offerFile
        /\ Archive(OffersSpending(n), "CONSUMED")
    BY <1>4 DEF NullifierEvent, OffersSpending
  <2>2. \A m : m # n => nullTx'[m] = nullTx[m]
    BY <1>4 DEF NullifierEvent, Record, TypeOK
  <2>3. \A o \in offerFile \ OffersSpending(n) : n \notin OfferNulls[o]
    BY DEF OffersSpending
  <2>4. \A o \in offerFile \ OffersSpending(n) :
            \A m \in OfferNulls[o] : nullTx'[m] = nullTx[m]
    BY <2>2, <2>3
  <2>. QED
    BY <2>1, <2>4, ArchiveKeepsBook
<1>5. ASSUME NEW u \in Utxos, NEW tx, SpendEvent(u, tx) PROVE BookInv'
  BY <1>5, ArchiveKeepsBook DEF SpendEvent
<1>. QED
  BY <1>1, <1>2, <1>3, <1>4, <1>5, BookSteps

\* The rows of the book are distinct in every state.
LEMMA BookAlways == Spec => []BookInv
<1>1. Init => BookInv
  BY DEF Init, BookInv, NoResurrection, MarkersExclusive
<1>. QED
  BY <1>1, TypeInit, TypeStep, BookStep, PTL DEF Spec

\* A replayed blob never brings an archived offer back, and no offer is
\* archived twice: celestia-zswap looks a content hash up in both tables.
THEOREM NeverResurrected == Spec => []NoResurrection
<1>1. BookInv => NoResurrection
  BY DEF BookInv
<1>. QED
  BY BookAlways, <1>1, PTL

\* No two live offers wrap one intent: the insert of celestia-zswap is guarded
\* by marker dedup and nothing else adds a row.
THEOREM MarkersStayExclusive == Spec => []MarkersExclusive
<1>1. BookInv => MarkersExclusive
  BY DEF BookInv
<1>. QED
  BY BookAlways, <1>1, PTL

-----------------------------------------------------------------------------
(* Deadlines.  CleanupPending alone is not inductive: a cleanup that runs  *)
(* removes a live offer only if the persisted expiry has passed, so the    *)
(* scheduled time must be that expiry, and stay it, for every cleanup.     *)

DeadlineInv ==
    /\ CleanupPending
    /\ \A c \in cleanups : /\ c[2] = expiresAt[c[1]] /\ c[2] >= now
                           /\ AlreadyIndexed(c[1])
    /\ \A o \in Offers : Ev("cleanup", o, NoHash) \in inbox =>
                            expiresAt[o] <= now /\ AlreadyIndexed(o)
    /\ \A e \in staged : e.type # "cleanup"

\* The deadlines survive a step that adds no live offer, forgets none, and
\* touches neither an expiry nor a cleanup.
LEMMA DeadlineFrame ==
    ASSUME DeadlineInv, UNCHANGED <<expiresAt, cleanups, now>>,
           offerFile' \subseteq offerFile,
           \A o : AlreadyIndexed(o) => AlreadyIndexed(o)',
           \A o \in Offers : Ev("cleanup", o, NoHash) \in inbox' <=>
                             Ev("cleanup", o, NoHash) \in inbox,
           offerFile \subseteq Offers,
           \A e \in staged' : e.type # "cleanup"
    PROVE  DeadlineInv'
BY DEF DeadlineInv, CleanupPending

\* The steps that only read the book.
LEMMA BookUntouched ==
    ASSUME UNCHANGED <<offerFile, history>>
    PROVE  /\ offerFile' \subseteq offerFile
           /\ \A o : AlreadyIndexed(o) => AlreadyIndexed(o)'
BY DEF AlreadyIndexed, Archived

\* Taking an input of another type leaves the cleanups of the block.
LEMMA TakeKeepsCleanups ==
    ASSUME NEW type, NEW on, NEW tx, type # "cleanup", Take(Ev(type, on, tx))
    PROVE  \A o \in Offers : Ev("cleanup", o, NoHash) \in inbox' <=>
                             Ev("cleanup", o, NoHash) \in inbox
BY DEF Take, Ev

\* Every transition keeps a live offer's cleanup pending and its expiry ahead.
LEMMA DeadlineStep ==
    TypeOK /\ BookInv /\ DeadlineInv /\ [Next]_vars => DeadlineInv'
<1>. SUFFICES ASSUME TypeOK, BookInv, DeadlineInv, [Next]_vars PROVE DeadlineInv'
  OBVIOUS
<1>0. offerFile \subseteq Offers /\ now \in Nat /\ \A o \in Offers : expiresAt[o] \in Nat
  BY DEF TypeOK
<1>s. \A e \in staged : e.type # "cleanup"
  BY DEF DeadlineInv
<1>1. CASE UNCHANGED vars
  BY <1>0, <1>1, <1>s, DeadlineFrame, BookUntouched DEF vars, chainVars, bookVars
<1>2. ASSUME NEW tx, Include(tx) PROVE DeadlineInv'
  <2>1. \A hash : \A e \in EventsOf(tx, hash) : e.type # "cleanup"
    BY DEF EventsOf, Ev
  <2>2. \A e \in staged' : e.type # "cleanup"
    BY <1>2, <1>s, <2>1 DEF Include
  <2>. QED
    BY <1>0, <1>2, <2>2, DeadlineFrame, BookUntouched DEF Include, bookVars
<1>3. CASE RootAdvances
  <2>1. \A e \in staged' : e.type # "cleanup"
    BY <1>3, <1>s DEF RootAdvances, Ev
  <2>. QED
    BY <1>0, <1>3, <2>1, DeadlineFrame, BookUntouched DEF RootAdvances, bookVars
<1>4. ASSUME NEW o \in Offers, PostBlob(o) PROVE DeadlineInv'
  <2>1. \A e \in staged' : e.type # "cleanup"
    BY <1>4, <1>s DEF PostBlob, Ev
  <2>. QED
    BY <1>0, <1>4, <2>1, DeadlineFrame, BookUntouched DEF PostBlob, bookVars
<1>5. CASE BeginBlock
  <2>. DEFINE due == {c \in cleanups : c[2] <= now + 1}
  <2>1. /\ inbox = {} /\ now' = now + 1 /\ cleanups' = cleanups \ due /\ staged' = {}
        /\ inbox' = staged \cup {Ev("cleanup", c[1], NoHash) : c \in due}
        /\ UNCHANGED <<offerFile, expiresAt, history>>
    BY <1>5 DEF BeginBlock, Committed
  <2>2. cleanups \subseteq Offers \X Nat
    BY DEF TypeOK
  <2>3. \A o \in offerFile : <<o, expiresAt[o]>> \in cleanups
    BY <2>1 DEF DeadlineInv, CleanupPending
  <2>4. CleanupPending'
    <3>1. ASSUME NEW o \in offerFile, <<o, expiresAt[o]>> \in due
          PROVE  Ev("cleanup", o, NoHash) \in inbox'
      BY <2>1, <3>1
    <3>. QED
      BY <2>1, <2>3, <3>1 DEF CleanupPending
  <2>5. \A c \in cleanups' : c[2] = expiresAt'[c[1]] /\ c[2] >= now' /\ AlreadyIndexed(c[1])'
    BY <1>0, <2>1, <2>2 DEF DeadlineInv, AlreadyIndexed, Archived
  <2>6. ASSUME NEW o \in Offers, Ev("cleanup", o, NoHash) \in inbox'
        PROVE  expiresAt'[o] <= now' /\ AlreadyIndexed(o)'
    <3>1. Ev("cleanup", o, NoHash) \notin staged
      BY <1>s DEF Ev
    <3>2. PICK c \in due : Ev("cleanup", o, NoHash) = Ev("cleanup", c[1], NoHash)
      BY <2>1, <2>6, <3>1
    <3>3. c[1] = o /\ expiresAt[o] <= now + 1 /\ AlreadyIndexed(o)
      BY <3>2 DEF Ev, DeadlineInv
    <3>. QED
      BY <2>1, <3>3 DEF AlreadyIndexed, Archived
  <2>. QED
    BY <2>1, <2>4, <2>5, <2>6 DEF DeadlineInv
<1>6. ASSUME NEW o \in Offers, RejectBlob(o) PROVE DeadlineInv'
  BY <1>0, <1>6, <1>s, DeadlineFrame, BookUntouched, TakeKeepsCleanups
     DEF RejectBlob, bookVars, chainVars
<1>7. ASSUME NEW o \in Offers, IndexBlob(o) PROVE DeadlineInv'
  <2>1. /\ ~AlreadyIndexed(o) /\ InputsLive(o) /\ CryptoOk(o)
        /\ offerFile' = offerFile \cup {o}
        /\ cleanups' = cleanups \cup {<<o, Expiry(o)>>}
        /\ expiresAt' = [expiresAt EXCEPT ![o] = Expiry(o)]
        /\ Take(Ev("blob", o, NoHash))
        /\ UNCHANGED <<history, now, staged>>
    BY <1>7, IndexInserts
  <2>2. Expiry(o) \in Nat /\ Expiry(o) >= now
    BY <2>1, ExpiryAhead
  <2>3. /\ \A p \in Offers : expiresAt'[p] = IF p = o THEN Expiry(o) ELSE expiresAt[p]
        /\ cleanups \subseteq Offers \X Nat
    BY <2>1 DEF TypeOK
  <2>4. \A p : AlreadyIndexed(p)' <=> AlreadyIndexed(p) \/ p = o
    BY <2>1 DEF AlreadyIndexed, Archived
  <2>5. \A p \in Offers : Ev("cleanup", p, NoHash) \in inbox' <=>
                          Ev("cleanup", p, NoHash) \in inbox
    BY <2>1, TakeKeepsCleanups
  <2>6. CleanupPending'
    <3>1. \A p \in offerFile : p # o /\ p \in Offers
      BY <1>0, <2>1 DEF AlreadyIndexed
    <3>. QED
      BY <2>1, <2>3, <2>5, <3>1 DEF DeadlineInv, CleanupPending
  <2>7. \A c \in cleanups' : c[2] = expiresAt'[c[1]] /\ c[2] >= now' /\ AlreadyIndexed(c[1])'
    <3>1. \A c \in cleanups : c[1] # o /\ c[1] \in Offers
      BY <2>1, <2>3 DEF DeadlineInv
    <3>2. \A c \in cleanups : c[2] = expiresAt'[c[1]] /\ c[2] >= now' /\ AlreadyIndexed(c[1])'
      BY <2>1, <2>3, <2>4, <3>1 DEF DeadlineInv
    <3>. QED
      BY <2>1, <2>2, <2>3, <2>4, <3>2
  <2>8. \A p \in Offers : Ev("cleanup", p, NoHash) \in inbox' =>
                          expiresAt'[p] <= now' /\ AlreadyIndexed(p)'
    BY <2>1, <2>3, <2>4, <2>5 DEF DeadlineInv
  <2>. QED
    BY <1>s, <2>1, <2>6, <2>7, <2>8 DEF DeadlineInv
<1>8. ASSUME NEW o \in Offers, TtlCleanup(o) PROVE DeadlineInv'
  <2>. DEFINE S == {p \in offerFile : p = o /\ PastExpiry(p)}
  <2>1. /\ Take(Ev("cleanup", o, NoHash)) /\ Archive(S, "TTL") /\ S \in SUBSET offerFile
        /\ UNCHANGED <<staged, now, expiresAt, cleanups>>
    BY <1>8 DEF TtlCleanup, chainVars
  <2>2. offerFile' = offerFile \ S /\ \A p : AlreadyIndexed(p) => AlreadyIndexed(p)'
    BY <2>1, ArchiveMoves DEF BookInv
  <2>3. o \notin offerFile'
    <3>1. expiresAt[o] <= now
      BY <2>1 DEF DeadlineInv, Take
    <3>. QED
      BY <2>2, <3>1 DEF PastExpiry
  <2>4. \A p \in Offers : p # o => (Ev("cleanup", p, NoHash) \in inbox' <=>
                                    Ev("cleanup", p, NoHash) \in inbox)
    BY <2>1 DEF Take, Ev
  <2>5. inbox' \subseteq inbox
    BY <2>1 DEF Take
  <2>6. CleanupPending'
    BY <1>0, <2>1, <2>2, <2>3, <2>4 DEF DeadlineInv, CleanupPending
  <2>7. \A p \in Offers : Ev("cleanup", p, NoHash) \in inbox' =>
                          expiresAt'[p] <= now' /\ AlreadyIndexed(p)'
    BY <2>1, <2>2, <2>5 DEF DeadlineInv
  <2>. QED
    BY <1>s, <2>1, <2>2, <2>6, <2>7 DEF DeadlineInv
<1>9. ASSUME NEW n \in Nullifiers, NEW tx, NullifierEvent(n, tx) PROVE DeadlineInv'
  <2>1. OffersSpending(n) \in SUBSET offerFile
    BY DEF OffersSpending
  <2>2. /\ offerFile' \subseteq offerFile
        /\ \A p : AlreadyIndexed(p) => AlreadyIndexed(p)'
    BY <1>9, <2>1, ArchiveMoves DEF NullifierEvent, BookInv
  <2>. QED
    BY <1>0, <1>9, <1>s, <2>2, DeadlineFrame, TakeKeepsCleanups DEF NullifierEvent, chainVars
<1>10. ASSUME NEW u \in Utxos, NEW tx, SpendEvent(u, tx) PROVE DeadlineInv'
  <2>1. /\ offerFile' \subseteq offerFile
        /\ \A p : AlreadyIndexed(p) => AlreadyIndexed(p)'
    BY <1>10, ArchiveMoves DEF SpendEvent, BookInv
  <2>. QED
    BY <1>0, <1>10, <1>s, <2>1, DeadlineFrame, TakeKeepsCleanups DEF SpendEvent, chainVars
<1>11. ASSUME NEW c \in Commitments, NEW tx, CommitmentEvent(c, tx) PROVE DeadlineInv'
  BY <1>0, <1>11, <1>s, DeadlineFrame, BookUntouched, TakeKeepsCleanups
     DEF CommitmentEvent, bookVars, chainVars
<1>12. ASSUME NEW u \in Utxos, NEW tx, CreateEvent(u, tx) PROVE DeadlineInv'
  BY <1>0, <1>12, <1>s, DeadlineFrame, BookUntouched, TakeKeepsCleanups
     DEF CreateEvent, bookVars, chainVars
<1>13. ASSUME NEW r \in Roots, RootEvent(r) PROVE DeadlineInv'
  BY <1>0, <1>13, <1>s, DeadlineFrame, BookUntouched, TakeKeepsCleanups
     DEF RootEvent, bookVars, chainVars
<1>14. CASE Adjudication
  <2>1. UNCHANGED <<inbox, now, staged, offerFile, expiresAt, history, cleanups>>
    BY <1>14 DEF Adjudication, AdjudicateOnEvent, LoseNotice, RepairSweep, bookVars, chainVars
  <2>. QED
    BY <1>0, <1>s, <2>1, DeadlineFrame, BookUntouched
<1>. QED
  BY <1>1, <1>2, <1>3, <1>4, <1>5, <1>6, <1>7, <1>8, <1>9, <1>10, <1>11, <1>12,
     <1>13, <1>14 DEF Next, Chains, Settlement, OtherSpend, HandleInput

\* A live offer's cleanup is pending and its expiry ahead in every state.
LEMMA DeadlineAlways == Spec => [](TypeOK /\ DeadlineInv)
<1>1. Init => DeadlineInv
  BY DEF Init, DeadlineInv, CleanupPending
<1>. QED
  BY <1>1, TypeInit, TypeStep, BookAlways, DeadlineStep, PTL DEF Spec

\* A live offer's cleanup is pending at the expiry the API advertises: the
\* scheduled and the persisted deadline of celestia-zswap are one value.
THEOREM CleanupStaysPending == Spec => []CleanupPending
<1>1. DeadlineInv => CleanupPending
  BY DEF DeadlineInv
<1>. QED
  BY DeadlineAlways, <1>1, PTL

\* Between blocks no offer is live beyond its expiry: zswap-ttl-cleanup has
\* archived it in the block that reached the deadline.
THEOREM BookNeverStale == Spec => []BookNotStale
<1>1. TypeOK /\ DeadlineInv => BookNotStale
  <2>1. ASSUME TypeOK, DeadlineInv, inbox = {}, NEW o \in offerFile
        PROVE  expiresAt[o] >= now
    <3>1. <<o, expiresAt[o]>> \in cleanups
      BY <2>1 DEF DeadlineInv, CleanupPending
    <3>. QED
      BY <2>1, <3>1 DEF DeadlineInv
  <2>. QED
    BY <2>1 DEF BookNotStale, Committed
<1>. QED
  BY DeadlineAlways, <1>1, PTL

-----------------------------------------------------------------------------
(* Coins.  The shielded half follows from the book alone (BookInv).  The   *)
(* unshielded one reads created_unshielded, where a coin enters after its  *)
(* spend was recorded only if the events of both came in one block, which  *)
(* handles spends before creates: the ledger creates a coin in no later    *)
(* block than the one that spends it.                                      *)

\* The events of spends and creates that a set of inputs holds are of block b.
Reports(inputs, b) ==
    \A e \in inputs : /\ e.type = "spend" => MinedIn(e.on, "spends", b)
                      /\ e.type = "create" => MinedIn(e.on, "creates", b)

CoinInv ==
    /\ Len(mined) = Len(chain)
    /\ \A field \in {"spends", "creates"} : \A u, b : MinedIn(u, field, b) => b \in 1 .. now + 1
    /\ \A u, b, c : MinedIn(u, "creates", b) /\ MinedIn(u, "spends", c) => b <= c
    /\ \A u \in Landed("spends") : u \in GenesisUtxos \/ u \in Landed("creates")
    /\ Reports(staged, now + 1) /\ Reports(inbox, now)
    /\ \A u \in Utxos : spendTx[u] # NotSeen => \E b \in 1 .. now : MinedIn(u, "spends", b)
    /\ \A u \in liveUtxos : spendTx[u] # NotSeen => BornSpent(u)
    /\ \A o \in offerFile : \A u \in OfferSpends[o] : spendTx[u] # NotSeen => BornSpent(u)

\* A transaction adds its own coins, in the next block, to those mined.
LEMMA MinedAppend ==
    ASSUME TypeOK, Len(mined) = Len(chain), NEW tx \in Tx, NEW field,
           NEW at \in Nat, chain' = Append(chain, tx), mined' = Append(mined, at)
    PROVE  /\ \A u, b : MinedIn(u, field, b)' <=>
                           MinedIn(u, field, b) \/ (u \in tx[field] /\ b = at)
           /\ \A u : (u \in Landed(field))' <=> u \in Landed(field) \/ u \in tx[field]
<1>1. /\ chain \in Seq(Tx) /\ mined \in Seq(Nat) /\ DOMAIN chain' = 1 .. Len(chain) + 1
      /\ DOMAIN chain = 1 .. Len(chain) /\ Len(chain) \in Nat
  BY DEF TypeOK
<1>2. /\ \A i \in DOMAIN chain : i \in DOMAIN chain' /\ chain'[i] = chain[i]
      /\ chain'[Len(chain) + 1] = tx /\ Len(chain) + 1 \in DOMAIN chain'
      /\ \A i \in DOMAIN chain' : i \in DOMAIN chain \/ i = Len(chain) + 1
  BY <1>1
<1>3. /\ \A i \in DOMAIN chain : mined'[i] = mined[i]
      /\ mined'[Len(chain) + 1] = at
  BY <1>1 DEF TypeOK
<1>. HIDE <1>1
<1>4. ASSUME NEW u, NEW b
      PROVE  MinedIn(u, field, b)' <=> MinedIn(u, field, b) \/ (u \in tx[field] /\ b = at)
  BY <1>2, <1>3 DEF MinedIn
<1>5. ASSUME NEW u PROVE (u \in Landed(field))' <=> u \in Landed(field) \/ u \in tx[field]
  <2>1. (u \in Landed(field))' <=> \E i \in DOMAIN chain' : u \in chain'[i][field]
    BY DEF Landed
  <2>2. u \in Landed(field) <=> \E i \in DOMAIN chain : u \in chain[i][field]
    BY DEF Landed
  <2>. QED
    BY <1>2, <2>1, <2>2
<1>. QED
  BY <1>4, <1>5

\* A coin is mined in a block as long as the chain is.
LEMMA MinedSame ==
    ASSUME UNCHANGED <<chain, mined>>
    PROVE  /\ \A u, field, b : MinedIn(u, field, b)' <=> MinedIn(u, field, b)
           /\ \A field : Landed(field)' = Landed(field)
BY DEF MinedIn, Landed

\* A coin once born spent stays so.
LEMMA BornSpentStays ==
    ASSUME now \in Nat, now' \in Nat, now' >= now,
           \A u, b : MinedIn(u, "spends", b) => MinedIn(u, "spends", b)',
           \A u, b : MinedIn(u, "creates", b) => MinedIn(u, "creates", b)'
    PROVE  \A u : BornSpent(u) => BornSpent(u)'
<1>1. \A b \in 1 .. now : b \in 1 .. now'
  OBVIOUS
<1>. QED
  BY <1>1 DEF BornSpent

\* What a transaction has the primitives report.
LEMMA ReportedOfTx ==
    ASSUME NEW tx, NEW hash
    PROVE  /\ \A e \in EventsOf(tx, hash) : e.type = "spend" => e.on \in tx.spends
           /\ \A e \in EventsOf(tx, hash) : e.type = "create" => e.on \in tx.creates
BY DEF EventsOf, Ev

\* Including a transaction: no output is created after its spend.
LEMMA CoinInclude ==
    ASSUME TypeOK, CoinInv, NEW tx \in Tx, Include(tx)
    PROVE  CoinInv'
<1>1. PICK hash : staged' = staged \cup EventsOf(tx, hash)
  BY DEF Include
<1>2. /\ inbox' = {} /\ LedgerAccepts(tx)
      /\ chain' = Append(chain, tx) /\ mined' = Append(mined, now + 1)
      /\ UNCHANGED <<spendTx, liveUtxos, offerFile, now>>
  BY DEF Include, Committed, bookVars, seenVars
<1>3. now \in Nat
  BY DEF TypeOK
<1>. DEFINE Mined(u, field, b) == MinedIn(u, field, b) \/ (u \in tx[field] /\ b = now + 1)
<1>4. ASSUME NEW field
      PROVE  /\ \A u, b : MinedIn(u, field, b)' <=> Mined(u, field, b)
             /\ \A u : (u \in Landed(field))' <=> u \in Landed(field) \/ u \in tx[field]
  <2>1. PICK at \in Nat : at = now + 1
    BY <1>3
  <2>2. Len(mined) = Len(chain) /\ chain' = Append(chain, tx) /\ mined' = Append(mined, at)
    BY <1>2, <2>1 DEF CoinInv
  <2>3. /\ \A u, b : MinedIn(u, field, b)' <=> MinedIn(u, field, b) \/ (u \in tx[field] /\ b = at)
        /\ \A u : (u \in Landed(field))' <=> u \in Landed(field) \/ u \in tx[field]
    BY <2>2, MinedAppend
  <2>. QED
    BY <2>1, <2>3
<1>5. /\ \A field : \A u, b : MinedIn(u, field, b)' <=> Mined(u, field, b)
      /\ \A field : \A u : (u \in Landed(field))' <=> u \in Landed(field) \/ u \in tx[field]
  <2>. HIDE DEF Mined
  <2>. QED
    BY <1>4
<1>6. Len(mined') = Len(chain')
  <2>1. chain \in Seq(Tx) /\ mined \in Seq(Nat) /\ Len(mined) = Len(chain)
    BY DEF TypeOK, CoinInv
  <2>2. now + 1 \in Nat
    BY <1>3
  <2>. QED
    BY <1>2, <2>1, <2>2
<1>7. \A field \in {"spends", "creates"} : \A u, b : Mined(u, field, b) => b \in 1 .. now + 1
  BY <1>3 DEF CoinInv
<1>8. \A u \in tx.creates : ~ (u \in Landed("spends")) /\ ~ (u \in tx.spends)
  BY <1>2 DEF LedgerAccepts, CoinInv
<1>9. ASSUME NEW u, NEW b, NEW c, Mined(u, "creates", b), Mined(u, "spends", c)
      PROVE  b <= c
  <2>1. CASE u \in tx.creates
    <3>1. ~MinedIn(u, "spends", c)
      BY <1>8, <2>1 DEF MinedIn, Landed
    <3>. QED
      BY <1>8, <1>9, <2>1, <3>1
  <2>2. CASE u \notin tx.creates
    <3>1. MinedIn(u, "creates", b)
      BY <1>9, <2>2
    <3>2. b \in 1 .. now + 1 /\ (MinedIn(u, "spends", c) => b <= c)
      BY <3>1 DEF CoinInv
    <3>. QED
      BY <1>3, <1>9, <3>2
  <2>. QED
    BY <2>1, <2>2
<1>10. \A u : u \in Landed("spends") \/ u \in tx.spends =>
                 u \in GenesisUtxos \/ u \in Landed("creates") \/ u \in tx.creates
  BY <1>2 DEF LedgerAccepts, CoinInv
<1>11. \A e \in staged' : /\ e.type = "spend" => Mined(e.on, "spends", now + 1)
                          /\ e.type = "create" => Mined(e.on, "creates", now + 1)
  BY <1>1, ReportedOfTx DEF CoinInv, Reports
<1>12. \A u \in Utxos : spendTx[u] # NotSeen => \E b \in 1 .. now : Mined(u, "spends", b)
  BY DEF CoinInv
<1>13. \A u : BornSpent(u) => BornSpent(u)'
  BY <1>2, <1>3, <1>5, BornSpentStays
<1>. HIDE DEF Mined
<1>14. Reports(staged, now + 1)' /\ Reports(inbox, now)'
  BY <1>2, <1>5, <1>11 DEF Reports
<1>15. /\ \A field \in {"spends", "creates"} : \A u, b : MinedIn(u, field, b)' => b \in 1 .. now' + 1
       /\ \A u, b, c : MinedIn(u, "creates", b)' /\ MinedIn(u, "spends", c)' => b <= c
  BY <1>2, <1>5, <1>7, <1>9
<1>16. \A u : (u \in Landed("spends"))' => u \in GenesisUtxos \/ (u \in Landed("creates"))'
  BY <1>5, <1>10
<1>17. \A u \in Utxos : spendTx'[u] # NotSeen => \E b \in 1 .. now' : MinedIn(u, "spends", b)'
  BY <1>2, <1>5, <1>12
<1>18. /\ \A u \in liveUtxos' : spendTx'[u] # NotSeen => BornSpent(u)'
       /\ \A o \in offerFile' : \A u \in OfferSpends[o] : spendTx'[u] # NotSeen => BornSpent(u)'
  BY <1>2, <1>13 DEF CoinInv
<1>. QED
  BY <1>6, <1>14, <1>15, <1>16, <1>17, <1>18 DEF CoinInv

\* Inputs that carry no other spend or create than those given.
NothingNew(inputs, others) ==
    \A e \in others : e.type \in {"spend", "create"} => e \in inputs

\* A step that reports nothing new, records no spend and puts no row in the
\* book.
LEMMA CoinFrame ==
    ASSUME CoinInv, UNCHANGED <<chain, mined, now, spendTx, liveUtxos>>,
           offerFile' \subseteq offerFile,
           NothingNew(staged, staged'), NothingNew(inbox, inbox')
    PROVE  CoinInv'
<1>1. \A u, field, b : MinedIn(u, field, b)' <=> MinedIn(u, field, b)
  BY MinedSame
<1>2. \A field : Landed(field)' = Landed(field)
  BY MinedSame
<1>3. \A u : BornSpent(u)' <=> BornSpent(u)
  BY <1>1 DEF BornSpent
<1>4. Reports(staged, now + 1)' /\ Reports(inbox, now)'
  BY <1>1 DEF CoinInv, Reports, NothingNew
<1>. QED
  BY <1>1, <1>2, <1>3, <1>4 DEF CoinInv

\* Taking an input reports nothing new.
LEMMA TakeReports ==
    ASSUME NEW e, Take(e), staged' = staged
    PROVE  NothingNew(staged, staged') /\ NothingNew(inbox, inbox')
BY DEF Take, NothingNew

\* Every step keeps the coins the index knows in agreement with the ledger.
LEMMA CoinStep == TypeOK /\ CoinInv /\ [Next]_vars => CoinInv'
<1>. SUFFICES ASSUME TypeOK, CoinInv, [Next]_vars PROVE CoinInv'
  OBVIOUS
<1>t. now \in Nat /\ spendTx \in [Utxos -> TxHash]
  BY DEF TypeOK
<1>1. CASE UNCHANGED vars
  BY <1>1, CoinFrame DEF vars, chainVars, bookVars, seenVars, NothingNew
<1>2. ASSUME NEW S \in SUBSET Valid, Settlement(S) PROVE CoinInv'
  BY <1>2, MergedTyped, CoinInclude DEF Settlement
<1>3. ASSUME NEW N \in SUBSET Nullifiers, NEW U \in SUBSET Utxos, OtherSpend(N, U)
      PROVE  CoinInv'
  <2>1. [nulls |-> N, comms |-> {}, spends |-> U, creates |-> {}] \in Tx
    BY DEF Tx
  <2>. QED
    BY <1>3, <2>1, CoinInclude DEF OtherSpend
<1>4. ASSUME NEW o, RootAdvances \/ PostBlob(o) PROVE CoinInv'
  <2>1. /\ \A e \in staged' : e \in staged \/ e.type \in {"root", "blob"}
        /\ UNCHANGED <<chain, mined, now, spendTx, liveUtxos, offerFile, inbox>>
    BY <1>4 DEF RootAdvances, PostBlob, Ev, bookVars, seenVars
  <2>. QED
    BY <2>1, CoinFrame DEF NothingNew
<1>5. CASE BeginBlock
  <2>1. /\ \A e \in inbox' : e \in staged \/ e.type = "cleanup"
        /\ staged' = {} /\ now' = now + 1
        /\ UNCHANGED <<chain, mined, spendTx, liveUtxos, offerFile>>
    BY <1>5 DEF BeginBlock, Ev, seenVars
  <2>2. \A u, field, b : MinedIn(u, field, b)' <=> MinedIn(u, field, b)
    BY <2>1, MinedSame
  <2>3. \A field : Landed(field)' = Landed(field)
    BY <2>1, MinedSame
  <2>4. Reports(staged, now + 1)' /\ Reports(inbox, now)'
    BY <2>1, <2>2 DEF CoinInv, Reports
  <2>5. \A u : BornSpent(u) => BornSpent(u)'
    BY <1>t, <2>1, <2>2, BornSpentStays
  <2>6. \A b \in 1 .. now + 1 : b \in 1 .. now' + 1
    BY <1>t, <2>1
  <2>7. \A b \in 1 .. now : b \in 1 .. now'
    BY <1>t, <2>1
  <2>8. /\ Len(mined') = Len(chain')
        /\ \A u, b, c : MinedIn(u, "creates", b)' /\ MinedIn(u, "spends", c)' => b <= c
        /\ \A field \in {"spends", "creates"} : \A u, b : MinedIn(u, field, b)' => b \in 1 .. now' + 1
    BY <2>1, <2>2, <2>6 DEF CoinInv
  <2>9. /\ \A u \in Landed("spends")' : u \in GenesisUtxos \/ u \in Landed("creates")'
        /\ \A u \in Utxos : spendTx'[u] # NotSeen => \E b \in 1 .. now' : MinedIn(u, "spends", b)'
    BY <2>1, <2>2, <2>3, <2>7 DEF CoinInv
  <2>10. /\ \A u \in liveUtxos' : spendTx'[u] # NotSeen => BornSpent(u)'
         /\ \A o \in offerFile' : \A u \in OfferSpends[o] : spendTx'[u] # NotSeen => BornSpent(u)'
    BY <2>1, <2>5 DEF CoinInv
  <2>. QED
    BY <2>4, <2>8, <2>9, <2>10 DEF CoinInv
<1>6. ASSUME NEW o \in Offers, RejectBlob(o) PROVE CoinInv'
  BY <1>6, CoinFrame, TakeReports DEF RejectBlob, chainVars, bookVars, seenVars
<1>7. ASSUME NEW o \in Offers, IndexBlob(o) PROVE CoinInv'
  <2>1. /\ InputsLive(o) /\ offerFile' = offerFile \cup {o}
        /\ Take(Ev("blob", o, NoHash))
        /\ UNCHANGED <<chain, mined, now, staged, spendTx, liveUtxos>>
    BY <1>7, IndexInserts
  <2>2. NothingNew(staged, staged') /\ NothingNew(inbox, inbox')
    BY <2>1, TakeReports
  <2>3. \A u, field, b : MinedIn(u, field, b)' <=> MinedIn(u, field, b)
    BY <2>1, MinedSame
  <2>4. \A field : Landed(field)' = Landed(field)
    BY <2>1, MinedSame
  <2>5. \A u : BornSpent(u)' <=> BornSpent(u)
    BY <2>1, <2>3 DEF BornSpent
  <2>6. Reports(staged, now + 1)' /\ Reports(inbox, now)'
    BY <2>1, <2>2, <2>3 DEF CoinInv, Reports, NothingNew
  <2>7. \A p \in offerFile' : \A u \in OfferSpends[p] : spendTx[u] # NotSeen => BornSpent(u)
    BY <2>1 DEF InputsLive, CoinInv
  <2>. QED
    BY <2>1, <2>3, <2>4, <2>5, <2>6, <2>7 DEF CoinInv
<1>8. ASSUME NEW o \in Offers, TtlCleanup(o) PROVE CoinInv'
  BY <1>8, CoinFrame, TakeReports DEF TtlCleanup, Archive, chainVars, seenVars
<1>9. ASSUME NEW n \in Nullifiers, NEW tx, NullifierEvent(n, tx) PROVE CoinInv'
  BY <1>9, CoinFrame, TakeReports DEF NullifierEvent, Archive, chainVars
<1>10. ASSUME NEW u \in Utxos, NEW tx, SpendEvent(u, tx) PROVE CoinInv'
  <2>1. /\ Take(Ev("spend", u, tx)) /\ UNCHANGED <<chain, mined, now, staged>>
        /\ liveUtxos' = liveUtxos \ {u}
        /\ offerFile' = offerFile \ {o \in offerFile : u \in OfferSpends[o]}
    BY <1>10 DEF SpendEvent, Archive, chainVars
  <2>2. \A v : v # u => spendTx'[v] = spendTx[v]
    BY <1>10, <1>t DEF SpendEvent, Record
  <2>3. MinedIn(u, "spends", now) /\ now \in 1 .. now
    <3>1. MinedIn(u, "spends", now)
      BY <2>1 DEF Take, Ev, Reports, CoinInv
    <3>2. now \in 1 .. now + 1
      BY <3>1 DEF CoinInv
    <3>. QED
      BY <1>t, <3>1, <3>2
  <2>4. NothingNew(staged, staged') /\ NothingNew(inbox, inbox')
    BY <2>1, TakeReports
  <2>5. \A v, field, b : MinedIn(v, field, b)' <=> MinedIn(v, field, b)
    BY <2>1, MinedSame
  <2>6. \A field : Landed(field)' = Landed(field)
    BY <2>1, MinedSame
  <2>7. \A v : BornSpent(v)' <=> BornSpent(v)
    BY <2>1, <2>5 DEF BornSpent
  <2>8. Reports(staged, now + 1)' /\ Reports(inbox, now)'
    BY <2>1, <2>4, <2>5 DEF CoinInv, Reports, NothingNew
  <2>9. \A v \in Utxos : spendTx'[v] # NotSeen => \E b \in 1 .. now : MinedIn(v, "spends", b)
    BY <2>2, <2>3 DEF CoinInv
  <2>10. /\ \A v \in liveUtxos' : spendTx'[v] # NotSeen => BornSpent(v)
         /\ \A o \in offerFile' : \A v \in OfferSpends[o] : spendTx'[v] # NotSeen => BornSpent(v)
    BY <2>1, <2>2 DEF CoinInv
  <2>. QED
    BY <2>1, <2>5, <2>6, <2>7, <2>8, <2>9, <2>10 DEF CoinInv
<1>11. ASSUME NEW u \in Utxos, NEW tx, CreateEvent(u, tx) PROVE CoinInv'
  <2>1. /\ Take(Ev("create", u, tx))
        /\ UNCHANGED <<chain, mined, now, staged, spendTx, offerFile>>
        /\ liveUtxos' = liveUtxos \cup {u}
    BY <1>11 DEF CreateEvent, chainVars, bookVars
  <2>2. spendTx[u] # NotSeen => BornSpent(u)
    <3>1. MinedIn(u, "creates", now)
      BY <2>1 DEF Take, Ev, Reports, CoinInv
    <3>2. SUFFICES ASSUME spendTx[u] # NotSeen PROVE BornSpent(u)
      OBVIOUS
    <3>3. PICK b \in 1 .. now : MinedIn(u, "spends", b)
      BY <3>2 DEF CoinInv
    <3>4. now <= b
      BY <3>1, <3>3 DEF CoinInv
    <3>5. b = now
      BY <1>t, <3>3, <3>4
    <3>. QED
      BY <3>1, <3>3, <3>5 DEF BornSpent
  <2>3. NothingNew(staged, staged') /\ NothingNew(inbox, inbox')
    BY <2>1, TakeReports
  <2>4. \A v, field, b : MinedIn(v, field, b)' <=> MinedIn(v, field, b)
    BY <2>1, MinedSame
  <2>5. \A field : Landed(field)' = Landed(field)
    BY <2>1, MinedSame
  <2>6. \A v : BornSpent(v)' <=> BornSpent(v)
    BY <2>1, <2>4 DEF BornSpent
  <2>7. Reports(staged, now + 1)' /\ Reports(inbox, now)'
    BY <2>1, <2>3, <2>4 DEF CoinInv, Reports, NothingNew
  <2>. QED
    BY <2>1, <2>2, <2>4, <2>5, <2>6, <2>7 DEF CoinInv
<1>12. ASSUME NEW c \in Commitments, NEW tx, CommitmentEvent(c, tx) PROVE CoinInv'
  BY <1>12, CoinFrame, TakeReports DEF CommitmentEvent, chainVars, bookVars
<1>13. ASSUME NEW r \in Roots, RootEvent(r) PROVE CoinInv'
  BY <1>13, CoinFrame, TakeReports DEF RootEvent, chainVars, bookVars
<1>14. CASE Adjudication
  <2>1. UNCHANGED <<chain, mined, now, staged, inbox, spendTx, liveUtxos, offerFile>>
    BY <1>14 DEF Adjudication, AdjudicateOnEvent, LoseNotice, RepairSweep,
                 chainVars, bookVars, seenVars
  <2>. QED
    BY <2>1, CoinFrame DEF NothingNew
<1>. QED
  BY <1>1, <1>2, <1>3, <1>4, <1>5, <1>6, <1>7, <1>8, <1>9, <1>10, <1>11, <1>12,
     <1>13, <1>14 DEF Next, Chains, HandleInput

\* Before the first block no coin is spent.
LEMMA CoinInit == Init => CoinInv
<1>. SUFFICES ASSUME Init PROVE CoinInv
  OBVIOUS
<1>1. /\ \A field : Landed(field) = {}
      /\ \A u, field, b : ~MinedIn(u, field, b)
  BY DEF Init, Landed, MinedIn
<1>. QED
  BY <1>1, DeclaredAssumption DEF Init, CoinInv, Reports

\* The book never offers a coin the index has seen spent, unless one block both
\* created and spent it: celestia-zswap admits no spent input and each spend
\* archives every live offer of the coin.  The ledger is free to spend a coin in
\* the block that creates it.
THEOREM LiveInputsStayUnspent == Spec => []LiveInputsUnspent
<1>1. BookInv /\ CoinInv => LiveInputsUnspent
  BY DEF BookInv, CoinInv, LiveInputsUnspent
<1>. QED
  BY TypeInit, TypeStep, BookAlways, CoinInit, CoinStep, <1>1, PTL DEF Spec

-----------------------------------------------------------------------------
(* Roots.  The index measures the age of a root from the block that        *)
(* reports it, the ledger from the last moment it was current; the newest  *)
(* roots of the index, those of one block, never age.  The two agree       *)
(* within a block: the index lags the ledger's tip only by the roots that  *)
(* the next block will report or that wait behind the other inputs of this *)
(* one, and the last root that it knows was current until the first of     *)
(* those appeared.                                                         *)

RootEv(r) == Ev("root", r, NoHash)
RootPending == \E r \in Roots : RootEv(r) \in inbox

\* The roots not yet handled are the last ones, those after p.
Pending(p) ==
    /\ \A r \in Roots : RootEv(r) \in staged \cup inbox <=> p < r /\ r <= tip
    /\ \A e \in staged \cup inbox : e.type = "root" => \E r \in Roots : e = RootEv(r)
\* Roots appear in their order and each is current when it appears.
Dated ==
    /\ \A r \in Roots : RootEv(r) \in staged => appeared[r] = now + 1
    /\ \A r \in Roots : RootEv(r) \in inbox => appeared[r] = now
    /\ \A r \in Roots : r > tip => appeared[r] = NotSeen
    /\ \A r, s \in Roots : r <= s /\ s <= tip => 1 <= appeared[r] /\ appeared[r] <= appeared[s]
    /\ \A r \in Roots : r <= tip => appeared[r] <= lastCurrent[r] /\ lastCurrent[r] <= now + 1
Knows(p) ==
    /\ knownRoots[p] = appeared[p]
    /\ \A r \in Roots : r <= p => knownRoots[r] \in {NotSeen, appeared[r]}
    /\ \A r \in Roots : r > p => knownRoots[r] = NotSeen
Current(p) ==
    /\ lastCurrent[tip] >= now /\ lastCurrent[p] + 1 >= now
    /\ ~RootPending => lastCurrent[p] >= now
Floors ==
    /\ FloorWithinOneBlock
    /\ \A o \in offerFile : \A r \in OfferRoots[o] : r <= tip

Lag(p) == p <= tip /\ Pending(p) /\ Dated /\ Knows(p) /\ Current(p) /\ Floors
RootInv == \E p \in Roots : Lag(p)

\* The roots that count as newest are those reported with the last one known.
LEMMA NewestIsRecent ==
    ASSUME TypeOK, NEW p \in Roots, Lag(p), NEW r \in Roots, IsNewest(r)
    PROVE  appeared[p] = appeared[r] /\ r <= p
<1>1. knownRoots[r] # NotSeen /\ knownRoots[p] <= knownRoots[r]
  BY DEF IsNewest
<1>2. p \in Nat /\ r \in Nat /\ appeared[p] \in Nat /\ appeared[r] \in Nat
  <2>1. p \in Nat /\ r \in Nat
    BY BoundAssumption DEF Roots
  <2>. QED
    BY <2>1 DEF TypeOK
<1>3. r <= p /\ knownRoots[r] = appeared[r] /\ knownRoots[p] = appeared[p]
  BY <1>1, <1>2 DEF Lag, Knows
<1>4. appeared[r] <= appeared[p]
  BY <1>3 DEF Lag, Dated
<1>. QED
  BY <1>1, <1>2, <1>3, <1>4

\* The expiry an accepted offer gets is bounded by each of its roots.
LEMMA ExpiryWithinRoots ==
    ASSUME TypeOK, RootInv, NEW o \in Offers, InputsLive(o), CryptoOk(o),
           NEW r \in OfferRoots[o]
    PROVE  /\ \E s \in Roots : /\ appeared[s] = appeared[r]
                               /\ Expiry(o) <= lastCurrent[s] + RootWindow + 1
           /\ r <= tip
<1>. USE DeclaredAssumption, BoundAssumption
<1>1. \A t \in ExpiryLimits(o) : t \in Nat
  <2>1. ASSUME NEW s \in OfferRoots[o] PROVE RootAnchor(o, s) + RootWindow \in Nat
    BY DEF RootAnchor, TypeOK
  <2>. QED
    BY <2>1 DEF ExpiryLimits
<1>2. RootAnchor(o, r) + RootWindow \in ExpiryLimits(o)
  BY DEF ExpiryLimits
<1>3. Expiry(o) \in Nat /\ Expiry(o) <= RootAnchor(o, r) + RootWindow
  BY <1>1, <1>2, EarliestIsMinimum DEF Expiry
<1>4. PICK p \in Roots : Lag(p)
  BY DEF RootInv
<1>5. /\ r \in Roots /\ knownRoots[r] \in Nat /\ now \in Nat /\ p <= tip /\ tip \in Nat
      /\ \A s \in Roots : s \in Nat /\ lastCurrent[s] \in Nat
  BY <1>4 DEF TypeOK, Roots, Lag
<1>6. knownRoots[r] # NotSeen
  BY DEF InputsLive, RootLive
<1>7. r <= p /\ knownRoots[r] = appeared[r]
  BY <1>4, <1>5, <1>6 DEF Lag, Knows
<1>8. r <= tip
  BY <1>5, <1>7
<1>9. CASE IsNewest(r)
  <2>1. appeared[p] = appeared[r] /\ lastCurrent[p] + 1 >= now
    BY <1>4, <1>5, <1>9, NewestIsRecent DEF Lag, Current
  <2>2. RootAnchor(o, r) = now
    BY <1>9 DEF RootAnchor
  <2>3. Expiry(o) <= lastCurrent[p] + RootWindow + 1
    BY <1>3, <1>4, <1>5, <2>1, <2>2
  <2>. QED
    BY <1>4, <1>8, <2>1, <2>3
<1>10. CASE ~IsNewest(r)
  <2>1. appeared[r] <= lastCurrent[r]
    BY <1>4, <1>5, <1>8 DEF Lag, Dated
  <2>2. RootAnchor(o, r) = appeared[r]
    BY <1>7, <1>10 DEF RootAnchor
  <2>3. Expiry(o) <= lastCurrent[r] + RootWindow + 1
    BY <1>3, <1>5, <1>7, <2>1, <2>2
  <2>. QED
    BY <1>5, <1>8, <2>3
<1>. QED
  BY <1>9, <1>10

\* Two sets of inputs carry the same roots.
SameRoots(inputs, others) == \A e : e.type = "root" => (e \in inputs <=> e \in others)

\* A step that reports no root, knows no new one and puts no row in the book.
LEMMA RootFrame ==
    ASSUME RootInv, UNCHANGED <<tip, appeared, lastCurrent, now, knownRoots, expiresAt>>,
           offerFile' \subseteq offerFile, SameRoots(staged, staged'), SameRoots(inbox, inbox')
    PROVE  RootInv'
<1>1. PICK p \in Roots : Lag(p)
  BY DEF RootInv
<1>2. \A r : (RootEv(r) \in staged' <=> RootEv(r) \in staged) /\ (RootEv(r) \in inbox' <=> RootEv(r) \in inbox)
  BY DEF SameRoots, RootEv, Ev
<1>3. Pending(p)' /\ Dated'
  BY <1>1, <1>2 DEF Lag, Pending, Dated, SameRoots
<1>4. Knows(p)' /\ Current(p)' /\ (p <= tip)'
  BY <1>1, <1>2 DEF Lag, Knows, Current, RootPending
<1>5. Floors'
  BY <1>1 DEF Lag, Floors, FloorWithinOneBlock
<1>. QED
  BY <1>1, <1>3, <1>4, <1>5 DEF RootInv, Lag

\* Taking an input of another type leaves the roots of the block waiting.
LEMMA TakeKeepsRoot ==
    ASSUME NEW type, NEW on, NEW tx, type # "root", Take(Ev(type, on, tx)), staged' = staged
    PROVE  SameRoots(staged, staged') /\ SameRoots(inbox, inbox')
BY DEF Take, Ev, SameRoots

\* The commitment tree changes: the new root waits for the next block.
LEMMA RootAdvancesKeeps ==
    ASSUME TypeOK, RootInv, RootAdvances
    PROVE  RootInv'
<1>. USE BoundAssumption
<1>1. PICK p \in Roots : Lag(p)
  BY DEF RootInv
<1>2. PICK last \in {lastCurrent[tip], now + 1} :
         lastCurrent' = [lastCurrent EXCEPT ![tip] = last, ![tip + 1] = now + 1]
  BY DEF RootAdvances
<1>3. /\ inbox = {} /\ inbox' = {} /\ tip' = tip + 1 /\ tip + 1 \in Roots /\ tip \in Roots
      /\ staged' = staged \cup {RootEv(tip + 1)}
      /\ appeared' = [appeared EXCEPT ![tip + 1] = now + 1]
      /\ UNCHANGED <<now, knownRoots, offerFile, expiresAt>>
  BY DEF RootAdvances, RootEv, Committed, TypeOK, Roots, bookVars, seenVars
<1>4. /\ now \in Nat /\ tip \in Nat /\ p \in Nat /\ p <= tip
      /\ \A r \in Roots : r \in Nat /\ appeared[r] \in Nat /\ lastCurrent[r] \in Nat
      /\ appeared \in [Roots -> Nat] /\ lastCurrent \in [Roots -> Nat]
      /\ offerFile \subseteq Offers
  <2>1. p <= tip
    BY <1>1 DEF Lag
  <2>2. appeared \in [Roots -> Nat] /\ lastCurrent \in [Roots -> Nat] /\ tip \in Roots
    BY DEF TypeOK
  <2>3. \A r \in Roots : r \in Nat
    BY DEF Roots
  <2>. QED
    BY <2>1, <2>2, <2>3 DEF TypeOK
<1>5. \A r, s : RootEv(r) = RootEv(s) => r = s
  BY DEF RootEv, Ev
<1>6. /\ \A r \in Roots : appeared'[r] = IF r = tip + 1 THEN now + 1 ELSE appeared[r]
      /\ \A r \in Roots : lastCurrent'[r] = IF r = tip + 1 THEN now + 1
                                            ELSE IF r = tip THEN last ELSE lastCurrent[r]
  BY <1>2, <1>3, <1>4
<1>7. /\ lastCurrent[tip] <= now + 1 /\ appeared[tip] <= lastCurrent[tip] /\ lastCurrent[tip] >= now
      /\ lastCurrent[tip] \in Nat
  BY <1>1, <1>3, <1>4 DEF Lag, Dated, Current
<1>8. /\ last \in Nat /\ last <= now + 1 /\ lastCurrent[tip] <= last
  BY <1>2, <1>4, <1>7
<1>9. Pending(p)'
  <2>1. ASSUME NEW r \in Roots
        PROVE  RootEv(r) \in staged' \cup inbox' <=> p < r /\ r <= tip + 1
    <3>1. RootEv(r) \in staged' \cup inbox' <=> RootEv(r) \in staged \cup inbox \/ r = tip + 1
      BY <1>3, <1>5
    <3>2. RootEv(r) \in staged \cup inbox <=> p < r /\ r <= tip
      BY <1>1 DEF Lag, Pending
    <3>. QED
      BY <1>4, <3>1, <3>2
  <2>2. \A e \in staged' \cup inbox' : e.type = "root" => \E r \in Roots : e = RootEv(r)
    BY <1>1, <1>3 DEF Lag, Pending
  <2>. QED
    BY <1>3, <2>1, <2>2 DEF Pending
<1>10. Dated'
  <2>1. \A r \in Roots : RootEv(r) \in staged' => appeared'[r] = now' + 1
    BY <1>1, <1>3, <1>5, <1>6 DEF Lag, Dated
  <2>2. \A r \in Roots : RootEv(r) \notin inbox'
    BY <1>3
  <2>3. \A r \in Roots : r > tip' => appeared'[r] = NotSeen
    BY <1>1, <1>3, <1>4, <1>6 DEF Lag, Dated
  <2>4. ASSUME NEW r \in Roots, NEW s \in Roots, r <= s, s <= tip + 1
        PROVE  1 <= appeared'[r] /\ appeared'[r] <= appeared'[s]
    <3>1. CASE s <= tip
      <4>1. 1 <= appeared[r] /\ appeared[r] <= appeared[s] /\ r # tip + 1 /\ s # tip + 1
        BY <1>1, <1>4, <2>4, <3>1 DEF Lag, Dated
      <4>. QED
        BY <1>6, <4>1
    <3>2. CASE s = tip + 1 /\ r <= tip
      <4>1. 1 <= appeared[r] /\ appeared[r] <= now + 1
        BY <1>1, <1>4, <3>2 DEF Lag, Dated
      <4>. QED
        BY <1>4, <1>6, <3>2, <4>1
    <3>3. CASE s = tip + 1 /\ r = tip + 1
      BY <1>4, <1>6, <3>3
    <3>. QED
      BY <1>4, <2>4, <3>1, <3>2, <3>3
  <2>5. ASSUME NEW r \in Roots, r <= tip + 1
        PROVE  appeared'[r] <= lastCurrent'[r] /\ lastCurrent'[r] <= now + 1
    <3>1. CASE r = tip + 1
      BY <1>4, <1>6, <3>1
    <3>2. CASE r = tip
      BY <1>4, <1>6, <1>7, <1>8, <3>2
    <3>3. CASE r < tip
      <4>1. appeared[r] <= lastCurrent[r] /\ lastCurrent[r] <= now + 1
        BY <1>1, <1>4, <3>3 DEF Lag, Dated
      <4>. QED
        BY <1>4, <1>6, <3>3, <4>1
    <3>. QED
      BY <1>4, <2>5, <3>1, <3>2, <3>3
  <2>. QED
    BY <1>3, <2>1, <2>2, <2>3, <2>4, <2>5 DEF Dated
<1>11. Knows(p)'
  BY <1>1, <1>3, <1>4, <1>6 DEF Lag, Knows
<1>12. \A r \in Roots : r <= tip => lastCurrent'[r] >= lastCurrent[r] /\ lastCurrent'[r] \in Nat
  BY <1>4, <1>6, <1>8
<1>13. Current(p)' /\ (p <= tip)'
  <2>1. lastCurrent[p] >= now /\ lastCurrent'[p] >= lastCurrent[p] /\ lastCurrent'[p] \in Nat
    BY <1>1, <1>3, <1>4, <1>12 DEF Lag, Current, RootPending
  <2>2. lastCurrent'[tip + 1] = now + 1
    BY <1>3, <1>6
  <2>. QED
    BY <1>3, <1>4, <2>1, <2>2 DEF Current
<1>14. Floors'
  <2>1. ASSUME NEW o \in offerFile, NEW r \in OfferRoots[o]
        PROVE  /\ r <= tip + 1
               /\ \E s \in Roots : /\ appeared'[s] = appeared'[r]
                                   /\ expiresAt[o] <= lastCurrent'[s] + RootWindow + 1
    <3>1. r \in Roots /\ expiresAt[o] \in Nat
      BY <1>4, DeclaredAssumption DEF TypeOK
    <3>2. r <= tip
      BY <1>1 DEF Lag, Floors
    <3>3. PICK s \in Roots : /\ appeared[s] = appeared[r]
                             /\ expiresAt[o] <= lastCurrent[s] + RootWindow + 1
      BY <1>1 DEF Lag, Floors, FloorWithinOneBlock
    <3>4. 1 <= appeared[r]
      BY <1>1, <1>4, <3>1, <3>2 DEF Lag, Dated
    <3>5. s <= tip
      BY <1>1, <1>4, <3>3, <3>4 DEF Lag, Dated, NotSeen
    <3>6. appeared'[s] = appeared'[r]
      BY <1>4, <1>6, <3>1, <3>2, <3>3, <3>5
    <3>7. lastCurrent'[s] >= lastCurrent[s] /\ lastCurrent'[s] \in Nat /\ lastCurrent[s] \in Nat
      BY <1>4, <1>12, <3>5
    <3>8. expiresAt[o] <= lastCurrent'[s] + RootWindow + 1
      BY <3>1, <3>3, <3>7
    <3>9. r <= tip + 1
      BY <1>4, <3>1, <3>2
    <3>. QED
      BY <3>6, <3>8, <3>9
  <2>2. /\ offerFile' = offerFile /\ expiresAt' = expiresAt /\ tip' = tip + 1
    BY <1>3
  <2>3. FloorWithinOneBlock'
    BY <2>1, <2>2 DEF FloorWithinOneBlock
  <2>4. (\A o \in offerFile : \A r \in OfferRoots[o] : r <= tip)'
    BY <2>1, <2>2
  <2>. QED
    BY <2>3, <2>4 DEF Floors
<1>. QED
  BY <1>1, <1>9, <1>10, <1>11, <1>13, <1>14 DEF RootInv, Lag

\* A block begins: what was staged for it becomes its inputs.
LEMMA BeginBlockKeeps ==
    ASSUME TypeOK, RootInv, BeginBlock
    PROVE  RootInv'
<1>. USE BoundAssumption
<1>1. PICK p \in Roots : Lag(p)
  BY DEF RootInv
<1>2. /\ inbox = {} /\ now' = now + 1 /\ staged' = {} /\ staged \subseteq inbox'
      /\ \A e \in inbox' : e \in staged \/ e.type = "cleanup"
      /\ lastCurrent' = [lastCurrent EXCEPT ![tip] = now + 1]
      /\ UNCHANGED <<tip, appeared, knownRoots, offerFile, expiresAt>>
  BY DEF BeginBlock, Committed, Ev, seenVars
<1>3. /\ now \in Nat /\ tip \in Roots /\ tip \in Nat /\ p \in Nat /\ p <= tip
      /\ \A r \in Roots : r \in Nat /\ appeared[r] \in Nat /\ lastCurrent[r] \in Nat
      /\ lastCurrent \in [Roots -> Nat] /\ offerFile \subseteq Offers
  BY <1>1 DEF TypeOK, Roots, Lag
<1>4. \A r : RootEv(r) \in inbox' <=> RootEv(r) \in staged
  BY <1>2 DEF RootEv, Ev
<1>5. \A r \in Roots : lastCurrent'[r] = IF r = tip THEN now + 1 ELSE lastCurrent[r]
  BY <1>2, <1>3
<1>6. lastCurrent[tip] <= now + 1 /\ appeared[tip] <= lastCurrent[tip]
  BY <1>1, <1>3 DEF Lag, Dated
<1>7. \A r \in Roots : lastCurrent'[r] >= lastCurrent[r] /\ lastCurrent'[r] \in Nat
  BY <1>3, <1>5, <1>6
<1>8. Pending(p)'
  BY <1>1, <1>2, <1>4 DEF Lag, Pending
<1>9. Dated'
  <2>1. \A r \in Roots : RootEv(r) \in inbox' => appeared'[r] = now'
    BY <1>1, <1>2, <1>4 DEF Lag, Dated
  <2>2. \A r \in Roots : r <= tip => appeared[r] <= lastCurrent'[r] /\ lastCurrent'[r] <= now + 2
    <3>1. \A r \in Roots : r <= tip => appeared[r] <= lastCurrent[r] /\ lastCurrent[r] <= now + 1
      BY <1>1 DEF Lag, Dated
    <3>. QED
      BY <1>3, <1>5, <1>6, <3>1
  <2>3. /\ \A r \in Roots : r > tip => appeared[r] = NotSeen
        /\ \A r, s \in Roots : r <= s /\ s <= tip => 1 <= appeared[r] /\ appeared[r] <= appeared[s]
    BY <1>1 DEF Lag, Dated
  <2>4. now' + 1 = now + 2
    BY <1>2, <1>3
  <2>. QED
    BY <1>2, <2>1, <2>2, <2>3, <2>4 DEF Dated
<1>10. Knows(p)'
  BY <1>1, <1>2 DEF Lag, Knows
<1>11. Current(p)'
  <2>1. lastCurrent[p] >= now
    BY <1>1, <1>2 DEF Lag, Current, RootPending
  <2>2. lastCurrent'[tip] = now + 1 /\ lastCurrent'[p] + 1 >= now + 1
    BY <1>1, <1>3, <1>5, <1>7, <2>1
  <2>3. ASSUME ~RootPending' PROVE lastCurrent'[p] >= now + 1
    <3>1. ~(p < tip)
      BY <1>1, <1>2, <1>3, <1>4, <2>3 DEF Lag, Pending, RootPending
    <3>2. p = tip
      BY <1>3, <3>1
    <3>. QED
      BY <1>3, <2>2, <3>2
  <2>. QED
    BY <1>2, <1>3, <2>2, <2>3 DEF Current
<1>12. Floors'
  <2>1. ASSUME NEW o \in offerFile, NEW r \in OfferRoots[o]
        PROVE  \E s \in Roots : /\ appeared[s] = appeared[r]
                                /\ expiresAt[o] <= lastCurrent'[s] + RootWindow + 1
    <3>1. PICK s \in Roots : /\ appeared[s] = appeared[r]
                             /\ expiresAt[o] <= lastCurrent[s] + RootWindow + 1
      BY <1>1 DEF Lag, Floors, FloorWithinOneBlock
    <3>2. lastCurrent'[s] >= lastCurrent[s] /\ lastCurrent'[s] \in Nat /\ lastCurrent[s] \in Nat
      BY <1>3, <1>7
    <3>3. expiresAt[o] \in Nat
      BY <1>3 DEF TypeOK
    <3>4. expiresAt[o] <= lastCurrent'[s] + RootWindow + 1
      BY <3>1, <3>2, <3>3
    <3>. QED
      BY <3>1, <3>4
  <2>. QED
    BY <1>1, <1>2, <2>1 DEF Lag, Floors, FloorWithinOneBlock
<1>. QED
  BY <1>1, <1>2, <1>8, <1>9, <1>10, <1>11, <1>12 DEF RootInv, Lag

\* The index takes the next root of the block: the one after the last it knew.
LEMMA RootEventKeeps ==
    ASSUME TypeOK, RootInv, NEW r \in Roots, RootEvent(r)
    PROVE  RootInv'
<1>. USE BoundAssumption
<1>1. PICK p \in Roots : Lag(p)
  BY DEF RootInv
<1>2. /\ RootEv(r) \in inbox /\ inbox' = inbox \ {RootEv(r)}
      /\ \A f \in inbox : f.type = "root" => r <= f.on
      /\ knownRoots' = Pruned([knownRoots EXCEPT ![r] = now])
      /\ UNCHANGED <<tip, appeared, lastCurrent, now, staged, offerFile, expiresAt>>
  BY DEF RootEvent, Take, RootEv, chainVars, bookVars
<1>3. /\ now \in Nat /\ tip \in Roots /\ tip \in Nat /\ p \in Nat /\ p <= tip
      /\ \A s \in Roots : s \in Nat /\ appeared[s] \in Nat /\ lastCurrent[s] \in Nat /\ knownRoots[s] \in Nat
      /\ knownRoots \in [Roots -> Nat]
  <2>1. p <= tip
    BY <1>1 DEF Lag
  <2>2. /\ appeared \in [Roots -> Nat] /\ lastCurrent \in [Roots -> Nat]
        /\ knownRoots \in [Roots -> Nat] /\ tip \in Roots
    BY DEF TypeOK
  <2>3. \A s \in Roots : s \in Nat
    BY DEF Roots
  <2>. QED
    BY <2>1, <2>2, <2>3 DEF TypeOK
<1>4. \A s, t : RootEv(s) = RootEv(t) => s = t
  BY DEF RootEv, Ev
<1>5. appeared[r] = now /\ p < r /\ r <= tip
  BY <1>1, <1>2 DEF Lag, Dated, Pending
<1>6. r = p + 1
  <2>1. p + 1 \in Roots /\ p + 1 <= tip /\ p + 1 <= r
    BY <1>3, <1>5 DEF Roots
  <2>2. RootEv(p + 1) \in staged \cup inbox
    BY <1>1, <1>3, <2>1 DEF Lag, Pending
  <2>3. appeared[p + 1] <= now
    BY <1>1, <1>5, <2>1 DEF Lag, Dated
  <2>4. RootEv(p + 1) \notin staged
    BY <1>1, <1>3, <2>1, <2>3 DEF Lag, Dated
  <2>5. r <= p + 1
    BY <1>2, <2>2, <2>4 DEF RootEv, Ev
  <2>. QED
    BY <1>3, <2>1, <2>5
<1>7. RootEv(r) \notin staged
  BY <1>1, <1>3, <1>5 DEF Lag, Dated
<1>8. Pending(r)'
  <2>1. ASSUME NEW s \in Roots
        PROVE  RootEv(s) \in staged' \cup inbox' <=> r < s /\ s <= tip
    <3>1. RootEv(s) \in staged' \cup inbox' <=> RootEv(s) \in staged \cup inbox /\ s # r
      BY <1>2, <1>4, <1>7
    <3>2. RootEv(s) \in staged \cup inbox <=> p < s /\ s <= tip
      BY <1>1 DEF Lag, Pending
    <3>. QED
      BY <1>3, <1>6, <3>1, <3>2
  <2>2. \A e \in staged' \cup inbox' : e.type = "root" => \E s \in Roots : e = RootEv(s)
    BY <1>1, <1>2 DEF Lag, Pending
  <2>. QED
    BY <1>2, <2>1, <2>2 DEF Pending
<1>9. Dated'
  BY <1>1, <1>2 DEF Lag, Dated
<1>10. Knows(r)'
  <2>. DEFINE table == [knownRoots EXCEPT ![r] = now]
  <2>1. \A s \in Roots : table[s] = IF s = r THEN now ELSE knownRoots[s]
    BY <1>3
  <2>2. \A s \in Roots : knownRoots'[s] \in {NotSeen, table[s]}
    BY <1>2 DEF Pruned
  <2>3. ~(table[r] < now - RootWindow)
    BY <1>3, <2>1
  <2>4. knownRoots'[r] = now
    BY <1>2, <2>1, <2>3 DEF Pruned
  <2>. HIDE DEF table
  <2>5. ASSUME NEW s \in Roots, s <= r PROVE knownRoots'[s] \in {NotSeen, appeared[s]}
    <3>1. CASE s = r
      BY <1>5, <2>4, <3>1
    <3>2. CASE s <= p
      <4>1. knownRoots[s] \in {NotSeen, appeared[s]} /\ s # r
        BY <1>1, <1>3, <1>5, <3>2 DEF Lag, Knows
      <4>. QED
        BY <2>1, <2>2, <4>1
    <3>. QED
      BY <1>3, <1>6, <2>5, <3>1, <3>2
  <2>6. ASSUME NEW s \in Roots, s > r PROVE knownRoots'[s] = NotSeen
    <3>1. knownRoots[s] = NotSeen /\ s # r
      BY <1>1, <1>3, <1>5, <2>6 DEF Lag, Knows
    <3>. QED
      BY <2>1, <2>2, <3>1
  <2>. QED
    BY <1>2, <1>5, <2>4, <2>5, <2>6 DEF Knows
<1>11. Current(r)'
  <2>1. lastCurrent[r] >= now
    BY <1>1, <1>3, <1>5 DEF Lag, Dated
  <2>2. lastCurrent[tip] >= now
    BY <1>1 DEF Lag, Current
  <2>. QED
    BY <1>2, <1>3, <2>1, <2>2 DEF Current
<1>12. Floors'
  BY <1>1, <1>2 DEF Lag, Floors, FloorWithinOneBlock
<1>. QED
  BY <1>2, <1>5, <1>8, <1>9, <1>10, <1>11, <1>12 DEF RootInv, Lag

\* An indexed offer gets an expiry its roots bound.
LEMMA IndexKeepsRoot ==
    ASSUME TypeOK, RootInv, NEW o \in Offers, IndexBlob(o)
    PROVE  RootInv'
<1>1. PICK p \in Roots : Lag(p)
  BY DEF RootInv
<1>2. /\ ~AlreadyIndexed(o) /\ InputsLive(o) /\ CryptoOk(o)
      /\ offerFile' = offerFile \cup {o}
      /\ expiresAt' = [expiresAt EXCEPT ![o] = Expiry(o)]
      /\ Take(Ev("blob", o, NoHash))
  BY IndexInserts
<1>3. UNCHANGED <<tip, appeared, lastCurrent, now, staged, knownRoots>>
  BY DEF IndexBlob, chainVars, seenVars
<1>4. SameRoots(staged, staged') /\ SameRoots(inbox, inbox')
  BY <1>2, <1>3, TakeKeepsRoot
<1>5. \A r : (RootEv(r) \in staged' <=> RootEv(r) \in staged) /\ (RootEv(r) \in inbox' <=> RootEv(r) \in inbox)
  BY <1>4 DEF SameRoots, RootEv, Ev
<1>6. Pending(p)' /\ Dated'
  BY <1>1, <1>3, <1>4, <1>5 DEF Lag, Pending, Dated, SameRoots
<1>7. Knows(p)' /\ Current(p)' /\ (p <= tip)'
  BY <1>1, <1>3, <1>5 DEF Lag, Knows, Current, RootPending
<1>8. Floors'
  <2>1. /\ expiresAt'[o] = Expiry(o)
        /\ \A q \in offerFile : expiresAt'[q] = expiresAt[q]
    BY <1>2 DEF AlreadyIndexed, TypeOK
  <2>2. \A r \in OfferRoots[o] :
           /\ \E s \in Roots : /\ appeared[s] = appeared[r]
                               /\ expiresAt'[o] <= lastCurrent[s] + RootWindow + 1
           /\ r <= tip
    BY <1>2, <2>1, ExpiryWithinRoots
  <2>. QED
    BY <1>1, <1>2, <1>3, <2>1, <2>2 DEF Lag, Floors, FloorWithinOneBlock
<1>. QED
  BY <1>1, <1>6, <1>7, <1>8 DEF RootInv, Lag

\* Every step keeps the roots the index knows in agreement with the ledger.
LEMMA RootStep == TypeOK /\ RootInv /\ [Next]_vars => RootInv'
<1>. SUFFICES ASSUME TypeOK, RootInv, [Next]_vars PROVE RootInv'
  OBVIOUS
<1>1. CASE UNCHANGED vars
  BY <1>1, RootFrame DEF vars, chainVars, bookVars, seenVars, SameRoots
<1>2. ASSUME NEW tx, Include(tx) PROVE RootInv'
  <2>1. \A hash : \A e \in EventsOf(tx, hash) : e.type # "root"
    BY DEF EventsOf, Ev
  <2>2. SameRoots(staged, staged')
    BY <1>2, <2>1 DEF Include, SameRoots
  <2>. QED
    BY <1>2, <2>2, RootFrame DEF Include, bookVars, seenVars, SameRoots
<1>3. CASE RootAdvances
  BY <1>3, RootAdvancesKeeps
<1>4. ASSUME NEW o \in Offers, PostBlob(o) PROVE RootInv'
  <2>1. SameRoots(staged, staged')
    BY <1>4 DEF PostBlob, Ev, SameRoots
  <2>. QED
    BY <1>4, <2>1, RootFrame DEF PostBlob, bookVars, seenVars, SameRoots
<1>5. CASE BeginBlock
  BY <1>5, BeginBlockKeeps
<1>6. ASSUME NEW o \in Offers, RejectBlob(o) PROVE RootInv'
  BY <1>6, RootFrame, TakeKeepsRoot DEF RejectBlob, chainVars, bookVars, seenVars
<1>7. ASSUME NEW o \in Offers, IndexBlob(o) PROVE RootInv'
  BY <1>7, IndexKeepsRoot
<1>8. ASSUME NEW o \in Offers, TtlCleanup(o) PROVE RootInv'
  BY <1>8, RootFrame, TakeKeepsRoot DEF TtlCleanup, Archive, chainVars, seenVars
<1>9. ASSUME NEW n \in Nullifiers, NEW tx, NullifierEvent(n, tx) PROVE RootInv'
  BY <1>9, RootFrame, TakeKeepsRoot DEF NullifierEvent, Archive, chainVars
<1>10. ASSUME NEW u \in Utxos, NEW tx, SpendEvent(u, tx) PROVE RootInv'
  BY <1>10, RootFrame, TakeKeepsRoot DEF SpendEvent, Archive, chainVars
<1>11. ASSUME NEW c \in Commitments, NEW tx, CommitmentEvent(c, tx) PROVE RootInv'
  BY <1>11, RootFrame, TakeKeepsRoot DEF CommitmentEvent, chainVars, bookVars
<1>12. ASSUME NEW u \in Utxos, NEW tx, CreateEvent(u, tx) PROVE RootInv'
  BY <1>12, RootFrame, TakeKeepsRoot DEF CreateEvent, chainVars, bookVars
<1>13. ASSUME NEW r \in Roots, RootEvent(r) PROVE RootInv'
  BY <1>13, RootEventKeeps
<1>14. CASE Adjudication
  <2>1. UNCHANGED <<tip, appeared, lastCurrent, now, knownRoots, expiresAt, offerFile, staged, inbox>>
    BY <1>14 DEF Adjudication, AdjudicateOnEvent, LoseNotice, RepairSweep,
                 chainVars, bookVars, seenVars
  <2>. QED
    BY <2>1, RootFrame DEF SameRoots
<1>. QED
  BY <1>1, <1>2, <1>3, <1>4, <1>5, <1>6, <1>7, <1>8, <1>9, <1>10, <1>11, <1>12,
     <1>13, <1>14 DEF Next, Chains, Settlement, OtherSpend, HandleInput

\* Before the first block the index and the ledger know the first root.
LEMMA RootInit == Init => RootInv
<1>. SUFFICES ASSUME Init PROVE RootInv
  OBVIOUS
<1>1. 1 \in Roots /\ \A r \in Roots : r \in Nat /\ r >= 1
  BY BoundAssumption DEF Roots
<1>2. Pending(1) /\ Dated
  BY <1>1 DEF Init, Pending, Dated, NotSeen
<1>3. Knows(1) /\ Current(1) /\ Floors
  BY <1>1 DEF Init, Knows, Current, Floors, FloorWithinOneBlock, NotSeen
<1>. QED
  BY <1>1, <1>2, <1>3 DEF Init, RootInv, Lag

\* deriveOfferExpiry bounds an expiry by what the ledger will still accept, to
\* the L2 block: however many roots a block reports, the expiry of an offer
\* exceeds the window of each of its roots, counted from the last moment at which
\* a root of the same block was current, by one block at most.
THEOREM FloorStaysWithinOneBlock == Spec => []FloorWithinOneBlock
<1>1. RootInv => FloorWithinOneBlock
  BY DEF RootInv, Lag, Floors
<1>. QED
  BY TypeInit, TypeStep, RootInit, RootStep, <1>1, PTL DEF Spec

-----------------------------------------------------------------------------
(* Evidence.  What the tables record of a transaction, and what has yet to *)
(* be handled of it.                                                       *)

Waiting == staged \cup inbox
\* Each observation of the table is of the transaction that made it, and of
\* each transaction all are recorded or waiting.
Recorded(txs, waiting, table, type, field) ==
    /\ \A x \in DOMAIN table : table[x] # NotSeen => table[x] \in DOMAIN txs /\ x \in txs[table[x]][field]
    /\ \A i \in DOMAIN txs : \A x \in txs[i][field] : table[x] = i \/ Ev(type, x, i) \in waiting
    /\ \A e \in waiting : e.type = type => e.tx \in DOMAIN txs /\ e.on \in txs[e.tx][field]
    /\ \A i, k \in DOMAIN txs : i # k => txs[i][field] \cap txs[k][field] = {}
Made(txs, waiting, made) ==
    /\ \A i \in DOMAIN txs : \A u \in txs[i].creates : u \in made \/ Ev("create", u, i) \in waiting
    /\ \A e \in waiting : e.type = "create" => e.tx \in DOMAIN txs /\ e.on \in txs[e.tx].creates
    /\ \A u \in made : u \in GenesisUtxos \/ \E i \in DOMAIN txs : u \in txs[i].creates
Records ==
    /\ Recorded(chain, Waiting, nullTx, "nullifier", "nulls")
    /\ Recorded(chain, Waiting, commTx, "commitment", "comms")
    /\ Recorded(chain, Waiting, spendTx, "spend", "spends")
    /\ Made(chain, Waiting, creates)
\* Nothing of the transaction of an input has been recorded.
Fresh(e) ==
    /\ \A n \in Nullifiers : nullTx[n] # e.tx
    /\ \A c \in Commitments : commTx[c] # e.tx
    /\ \A u \in Utxos : spendTx[u] # e.tx
Seen(o) == \/ \E n \in OfferNulls[o] : nullTx[n] # NotSeen
           \/ \E u \in OfferSpends[o] : spendTx[u] # NotSeen
Traded(tx) == (tx.comms = {} /\ tx.creates = {}) \/ \E S \in SUBSET Valid : Mergeable(S) /\ tx = Merged(S)
\* Who is in the tables of offers, and what is known of the consumed.
Rows ==
    /\ offerFile \subseteq Valid /\ \A h \in history : h.offer \in Valid
    /\ \A h \in history : h.reason = "CONSUMED" => Seen(h.offer)
\* Between blocks the tables hold all of a transaction or nothing, and blobs are
\* handled before anything of the block's transactions is recorded.
Unrecorded ==
    /\ inbox # {} => staged = {}
    /\ \A e \in staged : Fresh(e)
    /\ (\E e \in inbox : e.type = "blob") => \A e \in inbox : Fresh(e)
Trades == \A i \in DOMAIN chain : Traded(chain[i])
EvidenceInv == Rows /\ Records /\ Unrecorded /\ Trades

\* A transaction is appended.
LEMMA ChainGrows ==
    ASSUME NEW txs \in Seq(Tx), NEW tx \in Tx
    PROVE  LET more == Append(txs, tx)
               n == Len(txs) + 1
           IN  /\ DOMAIN more = DOMAIN txs \cup {n} /\ n \notin DOMAIN txs /\ n \in Nat \ {0}
               /\ (\A i \in DOMAIN txs : i \in Nat \ {0} /\ more[i] = txs[i]) /\ more[n] = tx
  OBVIOUS

\* It is recorded as nothing yet, and its events wait.
LEMMA RecordedGrows ==
    ASSUME NEW txs \in Seq(Tx), NEW tx \in Tx, NEW waiting, NEW events, NEW table, NEW type, NEW field,
           Recorded(txs, waiting, table, type, field),
           \A i \in DOMAIN txs : tx[field] \cap txs[i][field] = {},
           \A e \in events : e.type = type => e.tx = Len(txs) + 1 /\ e.on \in tx[field],
           \A x \in tx[field] : Ev(type, x, Len(txs) + 1) \in events
    PROVE  Recorded(Append(txs, tx), waiting \cup events, table, type, field)
<1> DEFINE more == Append(txs, tx)
           n == Len(txs) + 1
<1>1. /\ DOMAIN more = DOMAIN txs \cup {n} /\ n \notin DOMAIN txs
      /\ (\A i \in DOMAIN txs : more[i] = txs[i]) /\ more[n] = tx
  BY ChainGrows
<1> HIDE DEF more, n
<1>2. \A x \in DOMAIN table : table[x] # NotSeen => table[x] \in DOMAIN more /\ x \in more[table[x]][field]
  BY <1>1 DEF Recorded
<1>3. \A i \in DOMAIN more : \A x \in more[i][field] : table[x] = i \/ Ev(type, x, i) \in waiting \cup events
  BY <1>1 DEF Recorded, n
<1>4. \A e \in waiting \cup events : e.type = type => e.tx \in DOMAIN more /\ e.on \in more[e.tx][field]
  BY <1>1 DEF Recorded, n
<1>5. \A i, k \in DOMAIN more : i # k => more[i][field] \cap more[k][field] = {}
  BY <1>1 DEF Recorded
<1> QED
  BY <1>2, <1>3, <1>4, <1>5 DEF Recorded, more

\* An event of the table is handled.
LEMMA RecordedTakes ==
    ASSUME NEW txs, NEW waiting, NEW D, NEW table \in [D -> TxHash], NEW type, NEW field,
           NEW x \in D, NEW tx \in TxHash,
           Recorded(txs, waiting, table, type, field), Ev(type, x, tx) \in waiting,
           \A i \in DOMAIN txs : i # NotSeen /\ txs[i][field] \subseteq D
    PROVE  /\ Recorded(txs, waiting \ {Ev(type, x, tx)}, Record(table, x, tx), type, field)
           /\ Record(table, x, tx)[x] = tx /\ tx \in DOMAIN txs /\ x \in txs[tx][field]
<1> DEFINE e == Ev(type, x, tx)
           new == Record(table, x, tx)
<1>1. e.type = type /\ e.tx = tx /\ e.on = x
  BY DEF Ev
<1>2. tx \in DOMAIN txs /\ x \in txs[tx][field]
  BY <1>1 DEF Recorded
<1>3. table[x] # NotSeen => table[x] = tx
  BY <1>2 DEF Recorded
<1>4. new[x] = tx /\ DOMAIN new = D /\ \A y \in D : y # x => new[y] = table[y]
  BY <1>3 DEF Record
<1>5. \A y, i : y # x \/ i # tx => Ev(type, y, i) # e
  BY DEF Ev
<1> HIDE DEF e, new
<1>6. \A y \in DOMAIN new : new[y] # NotSeen => new[y] \in DOMAIN txs /\ y \in txs[new[y]][field]
  BY <1>2, <1>4 DEF Recorded
<1>7. \A i \in DOMAIN txs : \A y \in txs[i][field] : new[y] = i \/ Ev(type, y, i) \in waiting \ {e}
  <2> SUFFICES ASSUME NEW i \in DOMAIN txs, NEW y \in txs[i][field], Ev(type, y, i) \notin waiting \ {e}
               PROVE  new[y] = i
    OBVIOUS
  <2>1. CASE y = x /\ i = tx
    BY <1>4, <2>1
  <2>2. CASE y # x \/ i # tx
    <3>1. table[y] = i
      BY <1>5, <2>2 DEF Recorded
    <3>2. y \in D /\ i # NotSeen
      OBVIOUS
    <3>3. y # x
      BY <1>3, <2>2, <3>1, <3>2
    <3> QED
      BY <1>4, <3>1, <3>2, <3>3
  <2> QED
    BY <2>1, <2>2
<1>8. \A f \in waiting \ {e} : f.type = type => f.tx \in DOMAIN txs /\ f.on \in txs[f.tx][field]
  BY DEF Recorded
<1> QED
  BY <1>2, <1>4, <1>6, <1>7, <1>8 DEF Recorded, e, new

\* Other events come and go.
LEMMA RecordedSame ==
    ASSUME NEW txs, NEW waiting, NEW later, NEW table, NEW type, NEW field,
           Recorded(txs, waiting, table, type, field),
           \A e \in waiting \cup later : e.type = type => (e \in later <=> e \in waiting)
    PROVE  Recorded(txs, later, table, type, field)
<1>1. \A x, i : Ev(type, x, i).type = type
  BY DEF Ev
<1> QED
  BY <1>1 DEF Recorded

\* The same of creations.
LEMMA MadeSame ==
    ASSUME NEW txs, NEW waiting, NEW later, NEW made, Made(txs, waiting, made),
           \A e \in waiting \cup later : e.type = "create" => (e \in later <=> e \in waiting)
    PROVE  Made(txs, later, made)
<1>1. \A x, i : Ev("create", x, i).type = "create"
  BY DEF Ev
<1> QED
  BY <1>1 DEF Made

\* A transaction is appended, whose creations wait.
LEMMA MadeGrows ==
    ASSUME NEW txs \in Seq(Tx), NEW tx \in Tx, NEW waiting, NEW events, NEW made,
           Made(txs, waiting, made),
           \A e \in events : e.type = "create" => e.tx = Len(txs) + 1 /\ e.on \in tx.creates,
           \A u \in tx.creates : Ev("create", u, Len(txs) + 1) \in events
    PROVE  Made(Append(txs, tx), waiting \cup events, made)
<1> DEFINE more == Append(txs, tx)
           n == Len(txs) + 1
<1>1. /\ DOMAIN more = DOMAIN txs \cup {n} /\ n \notin DOMAIN txs
      /\ (\A i \in DOMAIN txs : more[i] = txs[i]) /\ more[n] = tx
  BY ChainGrows
<1> HIDE DEF more, n
<1>2. \A i \in DOMAIN more : \A u \in more[i].creates : u \in made \/ Ev("create", u, i) \in waiting \cup events
  BY <1>1 DEF Made, n
<1>3. \A e \in waiting \cup events : e.type = "create" => e.tx \in DOMAIN more /\ e.on \in more[e.tx].creates
  BY <1>1 DEF Made, n
<1>4. \A u \in made : u \in GenesisUtxos \/ \E i \in DOMAIN more : u \in more[i].creates
  BY <1>1 DEF Made
<1> QED
  BY <1>2, <1>3, <1>4 DEF Made, more

\* A creation is handled.
LEMMA MadeTakes ==
    ASSUME NEW txs, NEW waiting, NEW made, NEW u, NEW tx,
           Made(txs, waiting, made), Ev("create", u, tx) \in waiting
    PROVE  Made(txs, waiting \ {Ev("create", u, tx)}, made \cup {u})
<1> DEFINE e == Ev("create", u, tx)
<1>1. e.type = "create" /\ e.tx = tx /\ e.on = u
  BY DEF Ev
<1>2. tx \in DOMAIN txs /\ u \in txs[tx].creates
  BY <1>1 DEF Made
<1>3. \A v, i : v # u => Ev("create", v, i) # e
  BY DEF Ev
<1> HIDE DEF e
<1>4. \A i \in DOMAIN txs : \A v \in txs[i].creates :
          v \in made \cup {u} \/ Ev("create", v, i) \in waiting \ {e}
  BY <1>3 DEF Made
<1>5. \A v \in made \cup {u} : v \in GenesisUtxos \/ \E i \in DOMAIN txs : v \in txs[i].creates
  BY <1>2 DEF Made
<1>6. \A f \in waiting \ {e} : f.type = "create" => f.tx \in DOMAIN txs /\ f.on \in txs[f.tx].creates
  BY DEF Made
<1> QED
  BY <1>4, <1>5, <1>6 DEF Made, e

-----------------------------------------------------------------------------
(* Steps.                                                                  *)

\* What is recorded is known to be of the chain.
LEMMA RecordedOnChain ==
    ASSUME TypeOK, Records
    PROVE  /\ \A i \in DOMAIN chain : i \in Nat \ {0} /\ chain[i] \in Tx
           /\ Len(chain) + 1 \notin DOMAIN chain /\ NoHash \notin DOMAIN chain /\ NotSeen \notin DOMAIN chain
           /\ \A n \in Nullifiers : nullTx[n] \in DOMAIN chain \cup {NotSeen}
           /\ \A c \in Commitments : commTx[c] \in DOMAIN chain \cup {NotSeen}
           /\ \A u \in Utxos : spendTx[u] \in DOMAIN chain \cup {NotSeen}
<1>1. /\ \A i \in DOMAIN chain : i \in Nat \ {0} /\ chain[i] \in Tx
      /\ Len(chain) + 1 \notin DOMAIN chain /\ NoHash \notin DOMAIN chain /\ NotSeen \notin DOMAIN chain
  BY DEF TypeOK, NoHash, NotSeen
<1> QED
  BY <1>1 DEF Records, Recorded, TypeOK

\* Nothing is recorded of a transaction yet to be included, or of no transaction.
LEMMA FreshTx ==
    ASSUME TypeOK, Records, NEW e, e.tx \in {NoHash, Len(chain) + 1}
    PROVE  Fresh(e)
<1>1. e.tx \notin DOMAIN chain /\ e.tx # NotSeen
  BY RecordedOnChain DEF TypeOK, NoHash, NotSeen
<1> QED
  BY <1>1, RecordedOnChain DEF Fresh

Observed == {"nullifier", "commitment", "spend", "create"}

\* Other events than those the tables record come and go.
LEMMA RecordsSame ==
    ASSUME Records, UNCHANGED <<chain, nullTx, commTx, spendTx, creates>>,
           \A e \in Waiting \cup Waiting' : e.type \in Observed => (e \in Waiting' <=> e \in Waiting)
    PROVE  Records'
<1>1. /\ Recorded(chain, Waiting', nullTx, "nullifier", "nulls")
      /\ Recorded(chain, Waiting', commTx, "commitment", "comms")
      /\ Recorded(chain, Waiting', spendTx, "spend", "spends")
  BY RecordedSame DEF Records, Observed
<1>2. Made(chain, Waiting', creates)
  BY MadeSame DEF Records, Observed
<1> QED
  BY <1>1, <1>2 DEF Records

\* A transaction of the ledger is appended and its events staged.
LEMMA EvidenceInclude ==
    ASSUME ~HashlessEvents, TypeOK, EvidenceInv, NEW tx \in Tx, Traded(tx), Include(tx)
    PROVE  EvidenceInv'
<1>0. PICK events : events = EventsOf(tx, Len(chain) + 1)
  OBVIOUS
<1>1. /\ inbox = {} /\ LedgerAccepts(tx) /\ chain' = Append(chain, tx)
      /\ UNCHANGED <<inbox, offerFile, history, nullTx, commTx, spendTx, creates>>
  BY DEF Include, Committed, bookVars, seenVars
<1>2. staged' = staged \cup events
  BY <1>0 DEF Include
<1>3. Waiting' = Waiting \cup events
  BY <1>1, <1>2 DEF Waiting
<1>4. chain \in Seq(Tx)
  BY DEF TypeOK
<1>5. \A e \in events : /\ e.tx = Len(chain) + 1
                        /\ e.type = "nullifier" => e.on \in tx.nulls
                        /\ e.type = "commitment" => e.on \in tx.comms
                        /\ e.type = "spend" => e.on \in tx.spends
                        /\ e.type = "create" => e.on \in tx.creates
  BY <1>0 DEF EventsOf, Ev
<1>6. /\ \A x \in tx.nulls : Ev("nullifier", x, Len(chain) + 1) \in events
      /\ \A x \in tx.comms : Ev("commitment", x, Len(chain) + 1) \in events
      /\ \A x \in tx.spends : Ev("spend", x, Len(chain) + 1) \in events
      /\ \A x \in tx.creates : Ev("create", x, Len(chain) + 1) \in events
  BY <1>0 DEF EventsOf
<1>7. \A i \in DOMAIN chain : /\ tx.nulls \cap chain[i].nulls = {}
                              /\ tx.comms \cap chain[i].comms = {}
                              /\ tx.spends \cap chain[i].spends = {}
  BY <1>1 DEF LedgerAccepts, Landed
<1>8. Records'
  <2>1. Recorded(Append(chain, tx), Waiting \cup events, nullTx, "nullifier", "nulls")
    <3>1. Recorded(chain, Waiting, nullTx, "nullifier", "nulls")
      BY DEF EvidenceInv, Records
    <3>2. /\ \A i \in DOMAIN chain : tx["nulls"] \cap chain[i]["nulls"] = {}
          /\ \A e \in events : e.type = "nullifier" => e.tx = Len(chain) + 1 /\ e.on \in tx["nulls"]
          /\ \A x \in tx["nulls"] : Ev("nullifier", x, Len(chain) + 1) \in events
      BY <1>5, <1>6, <1>7
    <3> QED
      BY <1>4, <3>1, <3>2, RecordedGrows
  <2>2. Recorded(Append(chain, tx), Waiting \cup events, commTx, "commitment", "comms")
    <3>1. Recorded(chain, Waiting, commTx, "commitment", "comms")
      BY DEF EvidenceInv, Records
    <3>2. /\ \A i \in DOMAIN chain : tx["comms"] \cap chain[i]["comms"] = {}
          /\ \A e \in events : e.type = "commitment" => e.tx = Len(chain) + 1 /\ e.on \in tx["comms"]
          /\ \A x \in tx["comms"] : Ev("commitment", x, Len(chain) + 1) \in events
      BY <1>5, <1>6, <1>7
    <3> QED
      BY <1>4, <3>1, <3>2, RecordedGrows
  <2>3. Recorded(Append(chain, tx), Waiting \cup events, spendTx, "spend", "spends")
    <3>1. Recorded(chain, Waiting, spendTx, "spend", "spends")
      BY DEF EvidenceInv, Records
    <3>2. /\ \A i \in DOMAIN chain : tx["spends"] \cap chain[i]["spends"] = {}
          /\ \A e \in events : e.type = "spend" => e.tx = Len(chain) + 1 /\ e.on \in tx["spends"]
          /\ \A x \in tx["spends"] : Ev("spend", x, Len(chain) + 1) \in events
      BY <1>5, <1>6, <1>7
    <3> QED
      BY <1>4, <3>1, <3>2, RecordedGrows
  <2>4. Made(Append(chain, tx), Waiting \cup events, creates)
    <3>1. Made(chain, Waiting, creates)
      BY DEF EvidenceInv, Records
    <3>2. /\ \A e \in events : e.type = "create" => e.tx = Len(chain) + 1 /\ e.on \in tx.creates
          /\ \A x \in tx.creates : Ev("create", x, Len(chain) + 1) \in events
      BY <1>5, <1>6
    <3> QED
      BY <1>4, <3>1, <3>2, MadeGrows
  <2> QED
    BY <1>1, <1>3, <2>1, <2>2, <2>3, <2>4 DEF Records
<1>9. Unrecorded'
  <2>1. \A e \in events : e.tx \in {NoHash, Len(chain) + 1}
    BY <1>5
  <2>2. \A e \in events : Fresh(e)
    BY <2>1, FreshTx DEF EvidenceInv
  <2> QED
    BY <1>1, <1>2, <2>2 DEF EvidenceInv, Unrecorded, Fresh
<1>10. Trades'
  BY <1>1, <1>4, ChainGrows DEF EvidenceInv, Trades
<1>11. Rows'
  BY <1>1 DEF EvidenceInv, Rows, Seen
<1> QED
  BY <1>8, <1>9, <1>10, <1>11 DEF EvidenceInv

\* A step that records nothing: it may index an offer that verifies, archive one
\* whose deadline passed, and handle an input that is not an observation.
LEMMA EvidenceFrame ==
    ASSUME EvidenceInv, UNCHANGED <<chain, staged, nullTx, commTx, spendTx, creates>>,
           offerFile' \subseteq Valid,
           \A h \in history' \ history : h.offer \in Valid /\ h.reason = "TTL",
           inbox' \subseteq inbox, \A e \in inbox \ inbox' : e.type \notin Observed
    PROVE  EvidenceInv'
<1>1. Records'
  BY RecordsSame DEF EvidenceInv, Waiting
<1>2. Rows'
  BY DEF EvidenceInv, Rows, Seen
<1>3. Unrecorded'
  BY DEF EvidenceInv, Unrecorded, Fresh
<1> QED
  BY <1>1, <1>2, <1>3 DEF EvidenceInv, Trades

\* An observation is handled: the tables keep what they have, and an offer that
\* is archived has an input that is now seen.
LEMMA EvidenceTakes ==
    ASSUME TypeOK, EvidenceInv, Records', UNCHANGED <<chain, staged>>,
           NEW type \in Observed, NEW on, NEW tx, Take(Ev(type, on, tx)),
           \A n \in Nullifiers : nullTx[n] # NotSeen => nullTx'[n] # NotSeen,
           \A u \in Utxos : spendTx[u] # NotSeen => spendTx'[u] # NotSeen,
           offerFile' \subseteq offerFile,
           \A h \in history' \ history : h.offer \in offerFile /\ Seen(h.offer)'
    PROVE  EvidenceInv'
<1>1. inbox # {} /\ inbox' \subseteq inbox /\ ~\E e \in inbox : e.type = "blob"
  BY DEF Take, Ev, Precedes, Observed
<1>2. Unrecorded'
  BY <1>1 DEF EvidenceInv, Unrecorded
<1>3. \A o \in Offers : OfferNulls[o] \subseteq Nullifiers /\ OfferSpends[o] \subseteq Utxos
  BY DeclaredAssumption
<1>4. \A o \in Offers : Seen(o) => Seen(o)'
  BY <1>3 DEF Seen
<1>5. \A h \in history : h.offer \in Offers
  BY DEF TypeOK
<1>6. Rows'
  BY <1>4, <1>5 DEF EvidenceInv, Rows
<1> QED
  BY <1>2, <1>6 DEF EvidenceInv, Trades

\* The records of a step that handles an observation of a transaction.
LEMMA RecordsTake ==
    ASSUME TypeOK, EvidenceInv, UNCHANGED <<chain, staged>>,
           NEW type \in Observed, NEW on, NEW tx \in TxHash, Take(Ev(type, on, tx)),
           \/ /\ type = "nullifier" /\ on \in Nullifiers /\ nullTx' = Record(nullTx, on, tx)
              /\ UNCHANGED <<commTx, spendTx, creates>>
           \/ /\ type = "commitment" /\ on \in Commitments /\ commTx' = Record(commTx, on, tx)
              /\ UNCHANGED <<nullTx, spendTx, creates>>
           \/ /\ type = "spend" /\ on \in Utxos /\ spendTx' = Record(spendTx, on, tx)
              /\ UNCHANGED <<nullTx, commTx, creates>>
           \/ /\ type = "create" /\ creates' = creates \cup {on}
              /\ UNCHANGED <<nullTx, commTx, spendTx>>
    PROVE  /\ Records' /\ tx # NotSeen
           /\ \A n \in Nullifiers : nullTx[n] # NotSeen => nullTx'[n] # NotSeen
           /\ \A u \in Utxos : spendTx[u] # NotSeen => spendTx'[u] # NotSeen
           /\ type = "nullifier" => nullTx'[on] = tx
           /\ type = "spend" => spendTx'[on] = tx
<1>0. PICK e : e = Ev(type, on, tx)
  OBVIOUS
<1>1. /\ e \in Waiting /\ e.type = type /\ staged = {} /\ Waiting' = Waiting \ {e}
  BY <1>0 DEF Take, Ev, Waiting, EvidenceInv, Unrecorded
<1>2. /\ Recorded(chain, Waiting, nullTx, "nullifier", "nulls")
      /\ Recorded(chain, Waiting, commTx, "commitment", "comms")
      /\ Recorded(chain, Waiting, spendTx, "spend", "spends")
      /\ Made(chain, Waiting, creates)
  BY DEF EvidenceInv, Records
<1>3. /\ nullTx \in [Nullifiers -> TxHash] /\ commTx \in [Commitments -> TxHash]
      /\ spendTx \in [Utxos -> TxHash]
  BY DEF TypeOK
<1>4. \A i \in DOMAIN chain : /\ i # NotSeen /\ chain[i]["nulls"] \subseteq Nullifiers
                              /\ chain[i]["comms"] \subseteq Commitments
                              /\ chain[i]["spends"] \subseteq Utxos
  <2>1. \A i \in DOMAIN chain : i \in Nat \ {0} /\ chain[i] \in Tx
    BY DEF TypeOK
  <2> QED
    BY <2>1 DEF Tx, NotSeen
<1>5. type # "nullifier" => Recorded(chain, Waiting', nullTx, "nullifier", "nulls")
  BY <1>1, <1>2, RecordedSame
<1>6. type # "commitment" => Recorded(chain, Waiting', commTx, "commitment", "comms")
  BY <1>1, <1>2, RecordedSame
<1>7. type # "spend" => Recorded(chain, Waiting', spendTx, "spend", "spends")
  BY <1>1, <1>2, RecordedSame
<1>8. type # "create" => Made(chain, Waiting', creates)
  BY <1>1, <1>2, MadeSame
<1>9. tx # NotSeen
  <2>1. tx \in DOMAIN chain
    BY <1>0, <1>1, <1>2 DEF Recorded, Made, Ev, Observed
  <2> QED
    BY <1>4, <2>1
<1>10. /\ \A n \in Nullifiers : nullTx[n] # NotSeen => nullTx'[n] # NotSeen
       /\ \A u \in Utxos : spendTx[u] # NotSeen => spendTx'[u] # NotSeen
  BY <1>3, <1>9 DEF Record
<1>11. CASE type = "nullifier"
  <2>1. on \in Nullifiers /\ nullTx' = Record(nullTx, on, tx) /\ UNCHANGED <<commTx, spendTx, creates>>
    BY <1>11
  <2>2. Ev("nullifier", on, tx) \in Waiting /\ Waiting' = Waiting \ {Ev("nullifier", on, tx)}
    BY <1>0, <1>1, <1>11
  <2>3. /\ Recorded(chain, Waiting \ {Ev("nullifier", on, tx)}, Record(nullTx, on, tx), "nullifier", "nulls")
        /\ Record(nullTx, on, tx)[on] = tx
    BY <1>2, <1>3, <1>4, <2>1, <2>2, RecordedTakes
  <2> QED
    BY <1>6, <1>7, <1>8, <1>9, <1>10, <1>11, <2>1, <2>2, <2>3 DEF Records
<1>12. CASE type = "commitment"
  <2>1. on \in Commitments /\ commTx' = Record(commTx, on, tx) /\ UNCHANGED <<nullTx, spendTx, creates>>
    BY <1>12
  <2>2. Ev("commitment", on, tx) \in Waiting /\ Waiting' = Waiting \ {Ev("commitment", on, tx)}
    BY <1>0, <1>1, <1>12
  <2>3. Recorded(chain, Waiting \ {Ev("commitment", on, tx)}, Record(commTx, on, tx), "commitment", "comms")
    BY <1>2, <1>3, <1>4, <2>1, <2>2, RecordedTakes
  <2> QED
    BY <1>5, <1>7, <1>8, <1>9, <1>10, <1>12, <2>1, <2>2, <2>3 DEF Records
<1>13. CASE type = "spend"
  <2>1. on \in Utxos /\ spendTx' = Record(spendTx, on, tx) /\ UNCHANGED <<nullTx, commTx, creates>>
    BY <1>13
  <2>2. Ev("spend", on, tx) \in Waiting /\ Waiting' = Waiting \ {Ev("spend", on, tx)}
    BY <1>0, <1>1, <1>13
  <2>3. /\ Recorded(chain, Waiting \ {Ev("spend", on, tx)}, Record(spendTx, on, tx), "spend", "spends")
        /\ Record(spendTx, on, tx)[on] = tx
    BY <1>2, <1>3, <1>4, <2>1, <2>2, RecordedTakes
  <2> QED
    BY <1>5, <1>6, <1>8, <1>9, <1>10, <1>13, <2>1, <2>2, <2>3 DEF Records
<1>14. CASE type = "create"
  <2>1. creates' = creates \cup {on} /\ UNCHANGED <<nullTx, commTx, spendTx>>
    BY <1>14
  <2>2. Ev("create", on, tx) \in Waiting /\ Waiting' = Waiting \ {Ev("create", on, tx)}
    BY <1>0, <1>1, <1>14
  <2>3. Made(chain, Waiting \ {Ev("create", on, tx)}, creates \cup {on})
    BY <1>2, <2>2, MadeTakes
  <2> QED
    BY <1>5, <1>6, <1>7, <1>9, <1>10, <1>14, <2>1, <2>2, <2>3 DEF Records
<1> QED
  BY <1>11, <1>12, <1>13, <1>14 DEF Observed

\* Every step keeps the tables in agreement with the ledger.
LEMMA EvidenceStep ==
    ASSUME ~HashlessEvents
    PROVE  TypeOK /\ EvidenceInv /\ [Next]_vars => EvidenceInv'
<1> SUFFICES ASSUME TypeOK, EvidenceInv, [Next]_vars PROVE EvidenceInv'
  OBVIOUS
<1>0. offerFile \subseteq Valid /\ inbox \subseteq Event
  BY DEF EvidenceInv, Rows, TypeOK
<1>1. CASE UNCHANGED vars
  BY <1>0, <1>1, EvidenceFrame DEF vars, chainVars, bookVars, seenVars
<1>2. ASSUME NEW S \in SUBSET Valid, Settlement(S) PROVE EvidenceInv'
  BY <1>2, MergedTyped, EvidenceInclude DEF Settlement, Traded
<1>3. ASSUME NEW N \in SUBSET Nullifiers, NEW U \in SUBSET Utxos, OtherSpend(N, U)
      PROVE  EvidenceInv'
  <2>1. PICK tx : tx = [nulls |-> N, comms |-> {}, spends |-> U, creates |-> {}]
    OBVIOUS
  <2>2. tx \in Tx /\ Traded(tx)
    BY <2>1 DEF Tx, Traded
  <2> QED
    BY <1>3, <2>1, <2>2, EvidenceInclude DEF OtherSpend
<1>4. ASSUME NEW o, RootAdvances \/ PostBlob(o) PROVE EvidenceInv'
  <2>1. PICK e : e.type \in {"root", "blob"} /\ e.tx = NoHash /\ staged' = staged \cup {e}
    BY <1>4 DEF RootAdvances, PostBlob, Ev
  <2>2. /\ inbox = {} /\ inbox' = {}
        /\ UNCHANGED <<chain, offerFile, history, nullTx, commTx, spendTx, creates>>
    BY <1>4 DEF RootAdvances, PostBlob, Committed, bookVars, seenVars
  <2>3. Records'
    BY <2>1, <2>2, RecordsSame DEF EvidenceInv, Waiting, Observed
  <2>4. Fresh(e)
    BY <2>1, FreshTx DEF EvidenceInv
  <2>5. Unrecorded'
    BY <2>1, <2>2, <2>4 DEF EvidenceInv, Unrecorded, Fresh
  <2>6. Rows' /\ Trades'
    BY <2>2 DEF EvidenceInv, Rows, Trades, Seen
  <2> QED
    BY <2>3, <2>5, <2>6 DEF EvidenceInv
<1>5. CASE BeginBlock
  <2>1. /\ \A e \in inbox' : e \in staged \/ (e.type = "cleanup" /\ e.tx = NoHash)
        /\ staged \subseteq inbox' /\ inbox = {} /\ staged' = {}
        /\ UNCHANGED <<chain, offerFile, history, nullTx, commTx, spendTx, creates>>
    BY <1>5 DEF BeginBlock, Ev, Committed, seenVars
  <2>2. Records'
    BY <2>1, RecordsSame DEF EvidenceInv, Waiting, Observed
  <2>3. \A e \in inbox' : Fresh(e)
    BY <2>1, FreshTx DEF EvidenceInv, Unrecorded
  <2>4. Unrecorded'
    BY <2>1, <2>3 DEF Unrecorded, Fresh
  <2>5. Rows' /\ Trades'
    BY <2>1 DEF EvidenceInv, Rows, Trades, Seen
  <2> QED
    BY <2>2, <2>4, <2>5 DEF EvidenceInv
<1>6. ASSUME NEW o \in Offers, RejectBlob(o) PROVE EvidenceInv'
  BY <1>0, <1>6, EvidenceFrame DEF RejectBlob, chainVars, bookVars, seenVars, Take, Ev, Observed
<1>7. ASSUME NEW o \in Offers, IndexBlob(o) PROVE EvidenceInv'
  <2>1. /\ CryptoOk(o) /\ offerFile' = offerFile \cup {o} /\ Take(Ev("blob", o, NoHash))
        /\ UNCHANGED history
    BY <1>7, IndexInserts
  <2>2. UNCHANGED <<chain, staged, nullTx, commTx, spendTx, creates>>
    BY <1>7 DEF IndexBlob, chainVars, seenVars
  <2> QED
    BY <1>0, <2>1, <2>2, EvidenceFrame DEF CryptoOk, Take, Ev, Observed
<1>8. ASSUME NEW o \in Offers, TtlCleanup(o) PROVE EvidenceInv'
  <2>1. /\ offerFile' \subseteq offerFile
        /\ \A h \in history' \ history : h.offer \in offerFile /\ h.reason = "TTL"
    BY <1>8 DEF TtlCleanup, Archive
  <2> QED
    BY <1>0, <1>8, <2>1, EvidenceFrame DEF TtlCleanup, chainVars, seenVars, Take, Ev, Observed
<1>9. ASSUME NEW n \in Nullifiers, NEW tx \in {e.tx : e \in inbox}, NullifierEvent(n, tx)
      PROVE  EvidenceInv'
  <2>1. tx \in TxHash /\ "nullifier" \in Observed
    BY <1>0 DEF Event, Observed
  <2>2. /\ Take(Ev("nullifier", n, tx)) /\ nullTx' = Record(nullTx, n, tx)
        /\ UNCHANGED <<chain, staged, commTx, spendTx, creates>>
    BY <1>9 DEF NullifierEvent, chainVars
  <2>3. /\ Records' /\ tx # NotSeen /\ nullTx'[n] = tx
        /\ \A m \in Nullifiers : nullTx[m] # NotSeen => nullTx'[m] # NotSeen
        /\ \A u \in Utxos : spendTx[u] # NotSeen => spendTx'[u] # NotSeen
    BY <2>1, <2>2, RecordsTake
  <2>4. /\ offerFile' \subseteq offerFile
        /\ \A h \in history' \ history : h.offer \in offerFile /\ n \in OfferNulls[h.offer]
    BY <1>9 DEF NullifierEvent, Archive, OffersSpending
  <2>5. \A h \in history' \ history : h.offer \in offerFile /\ Seen(h.offer)'
    BY <2>3, <2>4 DEF Seen
  <2> QED
    BY <2>1, <2>2, <2>3, <2>4, <2>5, EvidenceTakes
<1>10. ASSUME NEW u \in Utxos, NEW tx \in {e.tx : e \in inbox}, SpendEvent(u, tx)
       PROVE  EvidenceInv'
  <2>1. tx \in TxHash /\ "spend" \in Observed
    BY <1>0 DEF Event, Observed
  <2>2. /\ Take(Ev("spend", u, tx)) /\ spendTx' = Record(spendTx, u, tx)
        /\ UNCHANGED <<chain, staged, nullTx, commTx, creates>>
    BY <1>10 DEF SpendEvent, chainVars
  <2>3. /\ Records' /\ tx # NotSeen /\ spendTx'[u] = tx
        /\ \A m \in Nullifiers : nullTx[m] # NotSeen => nullTx'[m] # NotSeen
        /\ \A v \in Utxos : spendTx[v] # NotSeen => spendTx'[v] # NotSeen
    BY <2>1, <2>2, RecordsTake
  <2>4. /\ offerFile' \subseteq offerFile
        /\ \A h \in history' \ history : h.offer \in offerFile /\ u \in OfferSpends[h.offer]
    BY <1>10 DEF SpendEvent, Archive
  <2>5. \A h \in history' \ history : h.offer \in offerFile /\ Seen(h.offer)'
    BY <2>3, <2>4 DEF Seen
  <2> QED
    BY <2>1, <2>2, <2>3, <2>4, <2>5, EvidenceTakes
<1>11. ASSUME NEW c \in Commitments, NEW tx \in {e.tx : e \in inbox}, CommitmentEvent(c, tx)
       PROVE  EvidenceInv'
  <2>1. tx \in TxHash /\ "commitment" \in Observed
    BY <1>0 DEF Event, Observed
  <2>2. /\ Take(Ev("commitment", c, tx)) /\ commTx' = Record(commTx, c, tx)
        /\ UNCHANGED <<chain, staged, nullTx, spendTx, creates, offerFile, history>>
    BY <1>11 DEF CommitmentEvent, chainVars, bookVars
  <2>3. Records'
    BY <2>1, <2>2, RecordsTake
  <2> QED
    BY <2>1, <2>2, <2>3, EvidenceTakes
<1>12. ASSUME NEW u \in Utxos, NEW tx \in {e.tx : e \in inbox}, CreateEvent(u, tx)
       PROVE  EvidenceInv'
  <2>1. tx \in TxHash /\ "create" \in Observed
    BY <1>0 DEF Event, Observed
  <2>2. /\ Take(Ev("create", u, tx)) /\ creates' = creates \cup {u}
        /\ UNCHANGED <<chain, staged, nullTx, commTx, spendTx, offerFile, history>>
    BY <1>12 DEF CreateEvent, chainVars, bookVars
  <2>3. Records'
    BY <2>1, <2>2, RecordsTake
  <2> QED
    BY <2>1, <2>2, <2>3, EvidenceTakes
<1>13. ASSUME NEW r \in Roots, RootEvent(r) PROVE EvidenceInv'
  BY <1>0, <1>13, EvidenceFrame DEF RootEvent, chainVars, bookVars, Take, Ev, Observed
<1>14. CASE Adjudication
  <2>1. UNCHANGED <<chain, staged, inbox, nullTx, commTx, spendTx, creates, offerFile, history>>
    BY <1>14 DEF Adjudication, AdjudicateOnEvent, LoseNotice, RepairSweep,
                 chainVars, bookVars, seenVars
  <2> QED
    BY <1>0, <2>1, EvidenceFrame
<1> QED
  BY <1>1, <1>2, <1>3, <1>4, <1>5, <1>6, <1>7, <1>8, <1>9, <1>10, <1>11, <1>12,
     <1>13, <1>14 DEF Next, Chains, HandleInput

\* Before the first block nothing is on the chain and nothing recorded.
LEMMA EvidenceInit == Init => EvidenceInv
<1> SUFFICES ASSUME Init PROVE EvidenceInv
  OBVIOUS
<1>1. DOMAIN chain = {} /\ Waiting = {}
  BY DEF Init, Waiting
<1>2. Records
  BY <1>1 DEF Init, Records, Recorded, Made
<1> QED
  BY <1>1, <1>2 DEF Init, EvidenceInv, Rows, Unrecorded, Trades

-----------------------------------------------------------------------------
(* Exactness.                                                              *)

\* A transaction of which anything is recorded is recorded whole.
LEMMA RecordedWhole ==
    ASSUME TypeOK, EvidenceInv, Committed, NEW i \in DOMAIN chain,
           \/ \E n \in Nullifiers : nullTx[n] = i
           \/ \E u \in Utxos : spendTx[u] = i
    PROVE  /\ \A n \in chain[i].nulls : nullTx[n] = i
           /\ \A c \in chain[i].comms : commTx[c] = i
           /\ \A u \in chain[i].spends : spendTx[u] = i
           /\ chain[i].creates \subseteq creates
<1>1. \A type, x : Ev(type, x, i) \notin staged
  BY DEF EvidenceInv, Unrecorded, Fresh, Ev
<1>2. Waiting = staged
  BY DEF Committed, Waiting
<1>3. /\ Recorded(chain, Waiting, nullTx, "nullifier", "nulls")
      /\ Recorded(chain, Waiting, commTx, "commitment", "comms")
      /\ Recorded(chain, Waiting, spendTx, "spend", "spends")
      /\ Made(chain, Waiting, creates)
  BY DEF EvidenceInv, Records
<1> QED
  BY <1>1, <1>2, <1>3 DEF Recorded, Made

\* What is recorded of a coin is the one transaction that has it.
LEMMA CoinOnce ==
    ASSUME TypeOK, EvidenceInv
    PROVE  /\ \A n \in Nullifiers : nullTx[n] # NotSeen =>
                  nullTx[n] \in DOMAIN chain /\ n \in chain[nullTx[n]].nulls
           /\ \A c \in Commitments : commTx[c] # NotSeen =>
                  commTx[c] \in DOMAIN chain /\ c \in chain[commTx[c]].comms
           /\ \A u \in Utxos : spendTx[u] # NotSeen =>
                  spendTx[u] \in DOMAIN chain /\ u \in chain[spendTx[u]].spends
           /\ \A i, k \in DOMAIN chain : i # k => chain[i].nulls \cap chain[k].nulls = {}
           /\ \A i, k \in DOMAIN chain : i # k => chain[i].spends \cap chain[k].spends = {}
<1>1. /\ Recorded(chain, Waiting, nullTx, "nullifier", "nulls")
      /\ Recorded(chain, Waiting, commTx, "commitment", "comms")
      /\ Recorded(chain, Waiting, spendTx, "spend", "spends")
  BY DEF EvidenceInv, Records
<1>2. /\ DOMAIN nullTx = Nullifiers /\ DOMAIN commTx = Commitments /\ DOMAIN spendTx = Utxos
  BY DEF TypeOK
<1> QED
  BY <1>1, <1>2 DEF Recorded

\* An offer archived by a spend verifies, and one of its coins has been recorded.
LEMMA ConsumedSeen ==
    ASSUME TypeOK, EvidenceInv, NEW o \in Offers, Consumed(o)
    PROVE  o \in Valid /\ Seen(o) /\ OfferNulls[o] \subseteq Nullifiers /\ OfferSpends[o] \subseteq Utxos
BY DeclaredAssumption DEF EvidenceInv, Rows, Consumed

\* If it was settled, the transaction is recorded whole, under its hash.
LEMMA SettledRecorded ==
    ASSUME TypeOK, EvidenceInv, Committed, NEW o \in Offers, Consumed(o),
           NEW i \in DOMAIN chain, Settles(chain[i], o)
    PROVE  /\ \A n \in OfferNulls[o] : nullTx[n] = i
           /\ \A c \in OfferComms[o] : commTx[c] = i
           /\ \A u \in OfferSpends[o] : spendTx[u] = i
           /\ OfferOuts[o] \subseteq creates
<1>1. Seen(o) /\ OfferNulls[o] \subseteq Nullifiers /\ OfferSpends[o] \subseteq Utxos
  BY ConsumedSeen
<1>2. \/ \E n \in Nullifiers : nullTx[n] = i
      \/ \E u \in Utxos : spendTx[u] = i
  BY <1>1, CoinOnce DEF Seen, Settles
<1>3. /\ \A n \in chain[i].nulls : nullTx[n] = i
      /\ \A c \in chain[i].comms : commTx[c] = i
      /\ \A u \in chain[i].spends : spendTx[u] = i
      /\ chain[i].creates \subseteq creates
  BY <1>2, RecordedWhole
<1> QED
  BY <1>3 DEF Settles

\* An output on the chain is that of an offer the transaction carries, and so is
\* the coin its intent spends.
LEMMA OutputTraded ==
    ASSUME EvidenceInv, NEW seal, Wraps(seal, OfferSpends, OfferOuts),
           NEW o \in Valid, NEW u \in OfferOuts[o], NEW k \in DOMAIN chain, u \in chain[k].creates
    PROVE  \E x \in OfferSpends[o] : x \in chain[k].spends
<1>1. PICK x \in OfferSpends[o] : u \in seal[o][x]
  BY DEF Wraps
<1>2. PICK S \in SUBSET Valid : chain[k] = Merged(S)
  BY DEF EvidenceInv, Trades, Traded
<1>3. PICK p \in S : u \in OfferOuts[p]
  BY <1>2 DEF Merged
<1>4. x \in OfferSpends[p]
  BY <1>1, <1>3 DEF Wraps
<1> QED
  BY <1>2, <1>4 DEF Merged

\* The predicates of queries.app.ts on an archived row decide whether one
\* transaction of the ledger executed the terms of the offer.
LEMMA Exact ==
    ASSUME TypeOK, EvidenceInv, Committed,
           NEW seal, Wraps(seal, OfferSpends, OfferOuts),
           \A o \in Valid : OfferOuts[o] \cap GenesisUtxos = {},
           NEW o \in Offers, Consumed(o)
    PROVE  Cancelled(o) <=> ~WasSettled(o)
<1>1. /\ o \in Valid /\ OfferNulls[o] \subseteq Nullifiers
      /\ OfferSpends[o] \subseteq Utxos /\ OfferComms[o] \subseteq Commitments
  BY ConsumedSeen, DeclaredAssumption
<1>n. \A i \in DOMAIN chain : i # NotSeen /\ i # NoHash
  BY DEF TypeOK, NotSeen, NoHash
<1>2. ASSUME NEW i \in DOMAIN chain, Settles(chain[i], o)
      PROVE  ~Cancelled(o)
  <2>1. /\ \A n \in OfferNulls[o] : nullTx[n] = i
        /\ \A c \in OfferComms[o] : commTx[c] = i
        /\ \A u \in OfferSpends[o] : spendTx[u] = i
        /\ OfferOuts[o] \subseteq creates
    BY <1>2, SettledRecorded
  <2>2. ~ShieldedCancelled(o)
    BY <1>n, <2>1 DEF ShieldedCancelled, SplitSpend
  <2>3. ~UnshieldedCancelled(o)
    BY <1>n, <2>1 DEF UnshieldedCancelled, SplitSpend
  <2> QED
    BY <2>2, <2>3 DEF Cancelled
<1>3. ASSUME ~Cancelled(o)
      PROVE  WasSettled(o)
  <2>1. CASE OfferSpends[o] \cup OfferOuts[o] = {}
    <3>1. PICK n \in OfferNulls[o] : TRUE
      BY <1>1, <2>1, ShapeAssumption
    <3>2. PICK i : i = nullTx[n]
      OBVIOUS
    <3> DEFINE spentBy == {nullTx[m] : m \in OfferNulls[o]}
    <3>3. /\ NotSeen \notin spentBy /\ ~SplitSpend(spentBy) /\ i \in spentBy
          /\ NoHash \notin spentBy => \A c \in OfferComms[o] : commTx[c] \in spentBy
      BY <1>3, <3>2 DEF Cancelled, ShieldedCancelled
    <3>4. \A m \in OfferNulls[o] : /\ nullTx[m] # NotSeen /\ nullTx[m] \in DOMAIN chain
                              /\ m \in chain[nullTx[m]].nulls
      BY <1>1, <3>3, CoinOnce
    <3>5. \A h \in spentBy : h \in DOMAIN chain /\ h # NoHash /\ h # NotSeen
      BY <1>n, <3>4
    <3> HIDE DEF spentBy
    <3>6. spentBy = {i}
      BY <3>3, <3>5 DEF SplitSpend
    <3>7. \A c \in OfferComms[o] : commTx[c] = i
      BY <3>3, <3>5, <3>6
    <3>8. i \in DOMAIN chain /\ i # NotSeen
      BY <3>3, <3>5
    <3>9. OfferComms[o] \subseteq chain[i].comms
      BY <1>1, <3>7, <3>8, CoinOnce
    <3>10. OfferNulls[o] \subseteq chain[i].nulls
      BY <3>4, <3>6 DEF spentBy
    <3> QED
      BY <2>1, <3>8, <3>9, <3>10 DEF WasSettled, Settles
  <2>2. CASE OfferNulls[o] \cup OfferComms[o] = {}
    <3>1. OfferOuts[o] # {}
      BY <1>1, <2>2, ShapeAssumption
    <3>2. PICK v \in OfferSpends[o] : TRUE
      BY <1>1, <2>2, ShapeAssumption
    <3>3. PICK i : i = spendTx[v]
      OBVIOUS
    <3> DEFINE spentBy == {spendTx[u] : u \in OfferSpends[o]}
    <3>4. NotSeen \notin spentBy /\ ~SplitSpend(spentBy) /\ i \in spentBy /\ OfferOuts[o] \subseteq creates
      BY <1>3, <3>1, <3>3 DEF Cancelled, UnshieldedCancelled
    <3>5. \A u \in OfferSpends[o] : /\ spendTx[u] # NotSeen /\ spendTx[u] \in DOMAIN chain
                               /\ u \in chain[spendTx[u]].spends
      BY <1>1, <3>4, CoinOnce
    <3>6. \A h \in spentBy : h \in DOMAIN chain /\ h # NoHash /\ h # NotSeen
      BY <1>n, <3>5
    <3> HIDE DEF spentBy
    <3>7. spentBy = {i}
      BY <3>4, <3>6 DEF SplitSpend
    <3>8. i \in DOMAIN chain /\ OfferSpends[o] \subseteq chain[i].spends
      BY <3>5, <3>6, <3>7 DEF spentBy
    <3>9. ASSUME NEW u \in OfferOuts[o]
          PROVE  u \in chain[i].creates
      <4>1. PICK k \in DOMAIN chain : u \in chain[k].creates
        BY <1>1, <3>4 DEF EvidenceInv, Records, Made
      <4>2. PICK x \in OfferSpends[o] : x \in chain[k].spends
        BY <1>1, <4>1, OutputTraded
      <4> QED
        BY <3>8, <4>1, <4>2, CoinOnce
    <3> QED
      BY <2>2, <3>8, <3>9 DEF WasSettled, Settles
  <2> QED
    BY <1>1, <2>1, <2>2, ShapeAssumption
<1> QED
  BY <1>2, <1>3 DEF WasSettled

-----------------------------------------------------------------------------
(* Verdicts and trades.                                                    *)

\* What the steps do to the chain and the history: the chain grows by a
\* transaction or not at all, and the history only grows.
LEMMA ChainSteps ==
    ASSUME [Next]_vars
    PROVE  /\ history \subseteq history'
           /\ \/ UNCHANGED chain
              \/ \E tx \in Tx : /\ LedgerAccepts(tx) /\ chain' = Append(chain, tx)
                                /\ UNCHANGED <<inbox, offerFile, history, verdict>>
<1>1. CASE UNCHANGED vars
  BY <1>1 DEF vars, chainVars, bookVars
<1>2. ASSUME NEW tx \in Tx, Include(tx)
      PROVE  /\ LedgerAccepts(tx) /\ chain' = Append(chain, tx)
             /\ UNCHANGED <<inbox, offerFile, history, verdict>>
  BY <1>2 DEF Include, bookVars
<1>3. ASSUME NEW S \in SUBSET Valid, Settlement(S)
      PROVE  \E tx \in Tx : Include(tx)
  BY <1>3, MergedTyped DEF Settlement
<1>4. ASSUME NEW N \in SUBSET Nullifiers, NEW U \in SUBSET Utxos, OtherSpend(N, U)
      PROVE  \E tx \in Tx : Include(tx)
  <2>1. [nulls |-> N, comms |-> {}, spends |-> U, creates |-> {}] \in Tx
    BY DEF Tx
  <2> QED
    BY <1>4, <2>1 DEF OtherSpend
<1>5. CASE RootAdvances \/ \E o \in Offers : PostBlob(o)
  BY <1>5 DEF RootAdvances, PostBlob, bookVars
<1>6. CASE BeginBlock
  BY <1>6 DEF BeginBlock
<1>7. CASE HandleInput
  BY <1>7 DEF HandleInput, RejectBlob, IndexBlob, TtlCleanup, NullifierEvent, CommitmentEvent,
              SpendEvent, CreateEvent, RootEvent, Archive, chainVars, bookVars
<1>8. CASE Adjudication
  BY <1>8 DEF Adjudication, AdjudicateOnEvent, LoseNotice, RepairSweep, chainVars, bookVars
<1> QED
  BY <1>1, <1>2, <1>3, <1>4, <1>5, <1>6, <1>7, <1>8 DEF Next, Chains

\* A coin of a consumed offer is on the chain, so no later transaction settles it.
LEMMA NeverSettledLater ==
    ASSUME TypeOK, EvidenceInv, NEW o \in Offers, Consumed(o), NEW tx \in Tx, LedgerAccepts(tx)
    PROVE  ~Settles(tx, o)
<1>1. Seen(o) /\ OfferNulls[o] \subseteq Nullifiers /\ OfferSpends[o] \subseteq Utxos
  BY ConsumedSeen
<1>2. \/ \E n \in OfferNulls[o] : n \in Landed("nulls")
      \/ \E u \in OfferSpends[o] : u \in Landed("spends")
  BY <1>1, CoinOnce DEF Seen, Landed
<1> QED
  BY <1>2 DEF LedgerAccepts, Settles

\* Whether a consumed offer was settled is decided when it is archived.
LEMMA SettledStable ==
    ASSUME TypeOK, EvidenceInv, [Next]_vars, NEW o \in Offers, Consumed(o)
    PROVE  Consumed(o)' /\ (WasSettled(o)' <=> WasSettled(o))
<1>1. Consumed(o)'
  BY ChainSteps DEF Consumed
<1>2. CASE UNCHANGED chain
  BY <1>1, <1>2 DEF WasSettled, Settles
<1>3. ASSUME NEW tx \in Tx, LedgerAccepts(tx), chain' = Append(chain, tx)
      PROVE  WasSettled(o)' <=> WasSettled(o)
  <2>1. ~Settles(tx, o)
    BY <1>3, NeverSettledLater
  <2>2. chain \in Seq(Tx)
    BY DEF TypeOK
  <2>3. /\ DOMAIN chain' = DOMAIN chain \cup {Len(chain) + 1}
        /\ (\A i \in DOMAIN chain : chain'[i] = chain[i]) /\ chain'[Len(chain) + 1] = tx
    BY <1>3, <2>2, ChainGrows
  <2> QED
    BY <2>1, <2>3 DEF WasSettled
<1> QED
  BY <1>1, <1>2, <1>3, ChainSteps

\* Only rows archived by a spend have a verdict, and it is that of the ledger.
VerdictInv == \A o \in Offers : verdict[o] # "null" => Consumed(o) /\ (verdict[o] = "settled" <=> WasSettled(o))

\* Every step keeps the verdicts: they are written from committed rows.
LEMMA VerdictStep ==
    ASSUME NEW seal, Sealed(seal)
    PROVE  TypeOK /\ EvidenceInv /\ VerdictInv /\ [Next]_vars => VerdictInv'
<1> SUFFICES ASSUME TypeOK, EvidenceInv, VerdictInv, [Next]_vars PROVE VerdictInv'
  OBVIOUS
<1>1. CASE UNCHANGED verdict
  BY <1>1, SettledStable DEF VerdictInv
<1>2. ASSUME NEW o \in Offers, Committed, AdjudicateFill(o)
      PROVE  VerdictInv'
  <2>1. \A p \in Offers : p # o => verdict'[p] = verdict[p]
    BY <1>2 DEF AdjudicateFill, TypeOK
  <2>2. CASE Consumed(o)
    <3>1. verdict'[o] = IF Cancelled(o) THEN "cancelled" ELSE "settled"
      BY <1>2, <2>2 DEF AdjudicateFill, TypeOK
    <3>2. Cancelled(o) <=> ~WasSettled(o)
      BY <1>2, <2>2, Exact DEF Sealed
    <3> QED
      BY <2>1, <2>2, <3>1, <3>2, SettledStable DEF VerdictInv
  <2>3. CASE ~Consumed(o)
    BY <1>1, <1>2, <2>3 DEF AdjudicateFill
  <2> QED
    BY <2>2, <2>3
<1>3. CASE Chains
  BY <1>1, <1>3 DEF Chains, Settlement, OtherSpend, Include, RootAdvances, PostBlob
<1>4. CASE BeginBlock
  BY <1>1, <1>4 DEF BeginBlock
<1>5. CASE HandleInput
  BY <1>1, <1>5 DEF HandleInput, RejectBlob, IndexBlob, TtlCleanup, NullifierEvent, CommitmentEvent,
                    SpendEvent, CreateEvent, RootEvent
<1>6. CASE Adjudication
  BY <1>1, <1>2, <1>6 DEF Adjudication, AdjudicateOnEvent, LoseNotice, RepairSweep, Visible
<1>7. CASE UNCHANGED vars
  BY <1>1, <1>7 DEF vars
<1> QED
  BY <1>3, <1>4, <1>5, <1>6, <1>7 DEF Next

\* The tables agree with the ledger in every state.
LEMMA EvidenceAlways ==
    ASSUME ~HashlessEvents
    PROVE  Spec => [](TypeOK /\ EvidenceInv)
<1>1. TypeOK /\ EvidenceInv /\ [Next]_vars => EvidenceInv'
  BY EvidenceStep
<1> QED
  BY TypeInit, TypeStep, EvidenceInit, <1>1, PTL DEF Spec

\* Fill-vs-cancel is exact: between blocks an offer archived by a spend reads as
\* consumed if and only if one transaction of the ledger executed its terms.
THEOREM FillStaysExact ==
    ASSUME ~HashlessEvents, NEW seal, Sealed(seal)
    PROVE  Spec => []FillExact
<1>1. TypeOK /\ EvidenceInv => FillExact
  BY Exact DEF Sealed, FillExact, Status
<1>2. Spec => [](TypeOK /\ EvidenceInv)
  BY EvidenceAlways
<1> QED
  BY <1>1, <1>2, PTL

\* The stored verdict is what a reader computes, whenever it was written: the
\* predicate of a consumed offer does not change once its block has committed.
THEOREM VerdictStaysTrue ==
    ASSUME ~HashlessEvents, NEW seal, Sealed(seal)
    PROVE  Spec => []VerdictMatchesEvidence
<1>1. Init => VerdictInv
  BY DEF Init, VerdictInv
<1>2. TypeOK /\ EvidenceInv /\ VerdictInv /\ [Next]_vars => VerdictInv'
  BY VerdictStep
<1>3. TypeOK /\ EvidenceInv /\ VerdictInv => VerdictMatchesEvidence
  BY Exact DEF Sealed, VerdictInv, VerdictMatchesEvidence
<1>4. Spec => [](TypeOK /\ EvidenceInv)
  BY EvidenceAlways
<1> QED
  BY <1>1, <1>2, <1>3, <1>4, PTL DEF Spec

-----------------------------------------------------------------------------
(* One trade.  While o was live its markers kept p out of the book, so one *)
(* of the two was archived before the other came in.  No transaction       *)
(* settles both, unless the later one is of coins that were all spent      *)
(* before it came in (those born spent, that the live set still holds),    *)
(* and then no spend will ever archive it.                                 *)

Overlap(o, p) == Markers(o) \cap Markers(p) # {}
Apart(o, p) == \A i \in DOMAIN chain : ~(Settles(chain[i], o) /\ Settles(chain[i], p))
\* No event is to come that spends a coin of the offer.
Gone(p) == OfferNulls[p] = {} /\ \A u \in OfferSpends[p] : spendTx[u] # NotSeen
\* A spend that waits is the first of its coin.
AwaitInv == \A e \in Waiting : e.type = "spend" => spendTx[e.on] = NotSeen
TradeInv ==
    /\ \A o, p \in Offers : Consumed(o) /\ p \in offerFile /\ Overlap(o, p) => Apart(o, p) \/ Gone(p)
    /\ \A o, p \in Offers : o # p /\ Consumed(o) /\ Consumed(p) /\ Overlap(o, p) => Apart(o, p)

\* Spends come to wait with their transaction, and only their event records them.
LEMMA SpendSteps ==
    ASSUME [Next]_vars
    PROVE  \/ \E tx \in Tx : Include(tx)
           \/ \E u \in Utxos, tx \in {e.tx : e \in inbox} : SpendEvent(u, tx)
           \/ spendTx' = spendTx /\ \A e \in Waiting' : e.type = "spend" => e \in Waiting
<1>1. CASE UNCHANGED vars
  BY <1>1 DEF vars, chainVars, seenVars, Waiting
<1>2. ASSUME NEW S \in SUBSET Valid, Settlement(S)
      PROVE  \E tx \in Tx : Include(tx)
  BY <1>2, MergedTyped DEF Settlement
<1>3. ASSUME NEW N \in SUBSET Nullifiers, NEW U \in SUBSET Utxos, OtherSpend(N, U)
      PROVE  \E tx \in Tx : Include(tx)
  <2>1. [nulls |-> N, comms |-> {}, spends |-> U, creates |-> {}] \in Tx
    BY DEF Tx
  <2> QED
    BY <1>3, <2>1 DEF OtherSpend
<1>4. ASSUME NEW o, RootAdvances \/ PostBlob(o)
      PROVE  spendTx' = spendTx /\ \A e \in Waiting' : e.type = "spend" => e \in Waiting
  BY <1>4 DEF RootAdvances, PostBlob, Ev, seenVars, Waiting
<1>5. CASE BeginBlock
  BY <1>5 DEF BeginBlock, Ev, seenVars, Waiting
<1>6. CASE HandleInput
  <2>1. ASSUME NEW e, Take(e), staged' = staged
        PROVE  \A f \in Waiting' : f \in Waiting
    BY <2>1 DEF Take, Waiting
  <2> QED
    BY <1>6, <2>1 DEF HandleInput, RejectBlob, IndexBlob, TtlCleanup, NullifierEvent,
                      CommitmentEvent, CreateEvent, RootEvent, chainVars, seenVars
<1>7. CASE Adjudication
  BY <1>7 DEF Adjudication, AdjudicateOnEvent, LoseNotice, RepairSweep, chainVars, seenVars, Waiting
<1> QED
  BY <1>1, <1>2, <1>3, <1>4, <1>5, <1>6, <1>7 DEF Next, Chains

\* What a spend that waits says of its coin.
LEMMA SpendWaits ==
    ASSUME TypeOK, EvidenceInv, NEW e \in Waiting, e.type = "spend"
    PROVE  /\ e = Ev("spend", e.on, e.tx) /\ e.tx \in DOMAIN chain
           /\ e.on \in chain[e.tx].spends /\ e.on \in Utxos
<1>1. Recorded(chain, Waiting, spendTx, "spend", "spends")
  BY DEF EvidenceInv, Records
<1>2. e.tx \in DOMAIN chain /\ e.on \in chain[e.tx].spends
  BY <1>1 DEF Recorded
<1>3. chain[e.tx].spends \subseteq Utxos
  <2>1. chain \in Seq(Tx)
    BY DEF TypeOK
  <2>2. chain[e.tx] \in Tx
    BY <1>2, <2>1
  <2> QED
    BY <2>2 DEF Tx
<1>4. e \in Event
  BY DEF Waiting, TypeOK
<1>5. e = Ev("spend", e.on, e.tx)
  BY <1>4 DEF Event, Ev
<1> QED
  BY <1>2, <1>3, <1>5

\* No coin has two spends to be handled.
LEMMA AwaitStep ==
    TypeOK /\ EvidenceInv /\ AwaitInv /\ [Next]_vars => AwaitInv'
<1> SUFFICES ASSUME TypeOK, EvidenceInv, AwaitInv, [Next]_vars PROVE AwaitInv'
  OBVIOUS
<1>1. ASSUME NEW tx \in Tx, Include(tx) PROVE AwaitInv'
  <2>1. PICK hash : staged' = staged \cup EventsOf(tx, hash)
    BY <1>1 DEF Include
  <2>2. /\ inbox' = inbox /\ spendTx' = spendTx /\ tx.spends \cap Landed("spends") = {}
    BY <1>1 DEF Include, LedgerAccepts, seenVars
  <2>3. \A u \in tx.spends : u \in Utxos
    BY DEF Tx
  <2>4. \A u \in tx.spends : spendTx[u] = NotSeen
    BY <2>2, <2>3, CoinOnce DEF Landed
  <2>5. \A e \in EventsOf(tx, hash) : e.type = "spend" => e.on \in tx.spends
    BY ReportedOfTx
  <2> QED
    BY <2>1, <2>2, <2>4, <2>5 DEF AwaitInv, Waiting
<1>2. ASSUME NEW u \in Utxos, NEW tx, SpendEvent(u, tx) PROVE AwaitInv'
  <2>1. /\ Ev("spend", u, tx) \in Waiting /\ staged' = staged /\ inbox' = inbox \ {Ev("spend", u, tx)}
        /\ spendTx' = Record(spendTx, u, tx)
    BY <1>2 DEF SpendEvent, Take, Waiting, chainVars
  <2>2. \A v : v # u => spendTx'[v] = spendTx[v]
    BY <2>1 DEF Record, TypeOK
  <2>3. tx \in DOMAIN chain /\ u \in chain[tx].spends
    BY <2>1, SpendWaits DEF Ev
  <2>4. ASSUME NEW e \in Waiting', e.type = "spend", e.on = u
        PROVE  FALSE
    <3>1. e \in Waiting
      BY <2>1 DEF Waiting
    <3>2. e = Ev("spend", u, e.tx) /\ e.tx \in DOMAIN chain /\ u \in chain[e.tx].spends
      BY <2>4, <3>1, SpendWaits
    <3>3. e.tx = tx
      BY <2>3, <3>2, CoinOnce
    <3>4. Ev("spend", u, tx) \in staged
      BY <2>1, <3>2, <3>3 DEF Waiting
    <3> QED
      BY <2>1, <3>4, <1>2 DEF SpendEvent, Take, EvidenceInv, Unrecorded
  <2> QED
    BY <2>1, <2>2, <2>4 DEF AwaitInv, Waiting
<1>3. CASE spendTx' = spendTx /\ \A e \in Waiting' : e.type = "spend" => e \in Waiting
  BY <1>3 DEF AwaitInv
<1> QED
  BY <1>1, <1>2, <1>3, SpendSteps

\* A coin recorded as spent stays so.
LEMMA GoneStays ==
    ASSUME TypeOK, [Next]_vars, NEW p \in Offers, Gone(p)
    PROVE  Gone(p)'
<1>1. ASSUME NEW u \in Utxos, NEW tx, SpendEvent(u, tx)
      PROVE  \A v \in Utxos : spendTx[v] # NotSeen => spendTx'[v] # NotSeen
  BY <1>1 DEF SpendEvent, Record, TypeOK
<1>2. OfferSpends[p] \subseteq Utxos
  BY DeclaredAssumption
<1>3. \A v \in Utxos : spendTx[v] # NotSeen => spendTx'[v] # NotSeen
  BY <1>1, SpendSteps DEF Include, seenVars
<1> QED
  BY <1>2, <1>3 DEF Gone

\* Nobody comes into the book, and who is archived by a spend was live, with a
\* coin to be spent.
LEMMA TradeArchives ==
    ASSUME TypeOK, MarkersExclusive, TradeInv, [Next]_vars, UNCHANGED chain, NEW S \in SUBSET offerFile,
           offerFile' = offerFile \ S,
           \A o \in Offers : Consumed(o)' => Consumed(o) \/ (o \in S /\ ~Gone(o))
    PROVE  TradeInv'
<1>1. \A o, p : Apart(o, p)' <=> Apart(o, p)
  BY DEF Apart, Settles
<1>2. \A o, p \in offerFile : Overlap(o, p) => o = p
  BY DEF MarkersExclusive, Overlap
<1>3. \A o, p : (Overlap(o, p) => Overlap(p, o)) /\ (Apart(o, p) => Apart(p, o))
  BY DEF Overlap, Apart
<1>4. ASSUME NEW o \in Offers, NEW p \in Offers, Consumed(o)', p \in offerFile', Overlap(o, p)
      PROVE  Apart(o, p)' \/ Gone(p)'
  <2>1. p \in offerFile /\ p \notin S
    BY <1>4
  <2>2. Consumed(o)
    BY <1>2, <1>4, <2>1
  <2>3. Apart(o, p) \/ Gone(p)
    BY <1>4, <2>1, <2>2 DEF TradeInv
  <2> QED
    BY <1>1, <2>3, GoneStays
<1>5. ASSUME NEW o \in Offers, NEW p \in Offers, o # p, Consumed(o)', Consumed(p)', Overlap(o, p)
      PROVE  Apart(o, p)'
  <2>1. CASE Consumed(o) /\ Consumed(p)
    BY <1>1, <1>5, <2>1 DEF TradeInv
  <2>2. CASE Consumed(o) /\ p \in S /\ ~Gone(p)
    BY <1>1, <1>5, <2>2 DEF TradeInv
  <2>3. CASE o \in S /\ ~Gone(o) /\ Consumed(p)
    <3>1. Apart(p, o)
      BY <1>3, <1>5, <2>3 DEF TradeInv
    <3> QED
      BY <1>1, <1>3, <3>1
  <2>4. CASE o \in S /\ p \in S
    BY <1>2, <1>5, <2>4
  <2> QED
    BY <1>5, <2>1, <2>2, <2>3, <2>4
<1> QED
  BY <1>4, <1>5 DEF TradeInv, Overlap, Markers

\* An offer admitted after another was settled was not settled with it, unless
\* all its coins are spent: blobs are handled before anything of their own block
\* is recorded.
LEMMA TradeIndexes ==
    ASSUME TypeOK, EvidenceInv, NEW o \in Offers, Consumed(o), NEW p \in Offers,
           InputsLive(p), Ev("blob", p, NoHash) \in inbox
    PROVE  Apart(o, p) \/ Gone(p)
<1> SUFFICES ASSUME NEW i \in DOMAIN chain, Settles(chain[i], o), Settles(chain[i], p)
             PROVE  Gone(p)
  BY DEF Apart
<1>1. \/ \E n \in Nullifiers : nullTx[n] = i
      \/ \E u \in Utxos : spendTx[u] = i
  BY ConsumedSeen, CoinOnce DEF Seen, Settles
<1>2. staged = {} /\ \A e \in inbox : Fresh(e)
  BY DEF EvidenceInv, Unrecorded, Ev
<1>3. \A type, x : Ev(type, x, i) \notin Waiting
  BY <1>1, <1>2 DEF Waiting, Fresh, Ev
<1>4. i # NotSeen
  BY DEF TypeOK, NotSeen
<1>5. (\A n \in chain[i].nulls : nullTx[n] = i) /\ \A u \in chain[i].spends : spendTx[u] = i
  BY <1>3 DEF EvidenceInv, Records, Recorded
<1> QED
  BY <1>4, <1>5 DEF InputsLive, Gone, Settles

\* Every step keeps the trades apart.
LEMMA TradeStep ==
    TypeOK /\ EvidenceInv /\ AwaitInv /\ BookInv /\ TradeInv /\ [Next]_vars => TradeInv'
<1> SUFFICES ASSUME TypeOK, EvidenceInv, AwaitInv, BookInv, TradeInv, [Next]_vars PROVE TradeInv'
  OBVIOUS
<1>0. MarkersExclusive /\ offerFile \subseteq Offers
  BY DEF BookInv, TypeOK
<1>1. CASE UNCHANGED <<chain, offerFile, history>>
  <2>1. \A o : Consumed(o)' <=> Consumed(o)
    BY <1>1 DEF Consumed
  <2>2. {} \in SUBSET offerFile /\ offerFile' = offerFile \ {}
    BY <1>1
  <2> QED
    BY <1>0, <1>1, <2>1, <2>2, TradeArchives
<1>2. ASSUME NEW tx \in Tx, LedgerAccepts(tx), chain' = Append(chain, tx), UNCHANGED <<offerFile, history>>
      PROVE  TradeInv'
  <2>1. chain \in Seq(Tx)
    BY DEF TypeOK
  <2>2. /\ DOMAIN chain' = DOMAIN chain \cup {Len(chain) + 1}
        /\ (\A i \in DOMAIN chain : chain'[i] = chain[i]) /\ chain'[Len(chain) + 1] = tx
    BY <1>2, <2>1, ChainGrows
  <2>3. \A o \in Offers : Consumed(o) => ~Settles(tx, o)
    BY <1>2, NeverSettledLater
  <2>4. \A o, p \in Offers : Consumed(o) /\ Apart(o, p) => Apart(o, p)'
    BY <2>2, <2>3 DEF Apart
  <2>5. \A o : Consumed(o)' <=> Consumed(o)
    BY <1>2 DEF Consumed
  <2>6. \A o, p \in Offers : Consumed(o)' /\ p \in offerFile' /\ Overlap(o, p) =>
                                 Apart(o, p)' \/ Gone(p)'
    BY <1>2, <2>4, <2>5, GoneStays DEF TradeInv
  <2>7. \A o, p \in Offers : o # p /\ Consumed(o)' /\ Consumed(p)' /\ Overlap(o, p) => Apart(o, p)'
    BY <2>4, <2>5 DEF TradeInv
  <2> QED
    BY <2>6, <2>7 DEF TradeInv, Overlap, Markers
<1>3. ASSUME NEW p \in Offers, IndexBlob(p) PROVE TradeInv'
  <2>1. /\ InputsLive(p) /\ offerFile' = offerFile \cup {p} /\ Ev("blob", p, NoHash) \in inbox
        /\ UNCHANGED <<history, chain>>
    BY <1>3, IndexInserts DEF Take
  <2>2. \A o : Consumed(o)' <=> Consumed(o)
    BY <2>1 DEF Consumed
  <2>3. \A o, q : Apart(o, q)' <=> Apart(o, q)
    BY <2>1 DEF Apart, Settles
  <2>4. \A o \in Offers : Consumed(o) => Apart(o, p) \/ Gone(p)
    BY <2>1, TradeIndexes
  <2>5. \A o, q \in Offers : Consumed(o)' /\ q \in offerFile' /\ Overlap(o, q) =>
                                 Apart(o, q)' \/ Gone(q)'
    BY <2>1, <2>2, <2>3, <2>4, GoneStays DEF TradeInv
  <2>6. \A o, q \in Offers : o # q /\ Consumed(o)' /\ Consumed(q)' /\ Overlap(o, q) => Apart(o, q)'
    BY <2>2, <2>3 DEF TradeInv
  <2> QED
    BY <2>5, <2>6 DEF TradeInv, Overlap, Markers
<1>4. ASSUME NEW o \in Offers, TtlCleanup(o) PROVE TradeInv'
  <2>1. PICK S \in SUBSET offerFile : Archive(S, "TTL")
    BY <1>4 DEF TtlCleanup
  <2>2. UNCHANGED chain /\ offerFile' = offerFile \ S
    BY <1>4, <2>1 DEF TtlCleanup, Archive, chainVars
  <2>3. \A p \in Offers : Consumed(p)' => Consumed(p)
    BY <2>1 DEF Archive, Consumed
  <2> QED
    BY <1>0, <2>2, <2>3, TradeArchives
<1>5. ASSUME NEW S \in SUBSET offerFile, Archive(S, "CONSUMED"), UNCHANGED chain,
             \A p \in S : ~Gone(p)
      PROVE  TradeInv'
  <2>1. offerFile' = offerFile \ S
    BY <1>5 DEF Archive
  <2>2. \A p \in Offers : Consumed(p)' => Consumed(p) \/ p \in S
    BY <1>5 DEF Archive, Consumed
  <2> QED
    BY <1>0, <1>5, <2>1, <2>2, TradeArchives
<1>6. ASSUME NEW n \in Nullifiers, NEW tx, NullifierEvent(n, tx) PROVE TradeInv'
  <2>1. \A p \in OffersSpending(n) : ~Gone(p)
    BY DEF OffersSpending, Gone
  <2>2. OffersSpending(n) \in SUBSET offerFile
    BY DEF OffersSpending
  <2> QED
    BY <1>5, <1>6, <2>1, <2>2 DEF NullifierEvent, chainVars
<1>7. ASSUME NEW u \in Utxos, NEW tx, SpendEvent(u, tx) PROVE TradeInv'
  <2>1. spendTx[u] = NotSeen
    BY <1>7 DEF SpendEvent, Take, AwaitInv, Waiting, Ev
  <2>2. \A p \in {o \in offerFile : u \in OfferSpends[o]} : ~Gone(p)
    BY <2>1 DEF Gone
  <2> QED
    BY <1>5, <1>7, <2>2 DEF SpendEvent, chainVars
<1>8. CASE UNCHANGED <<offerFile, history, nullTx>>
  BY <1>1, <1>2, <1>8, ChainSteps
<1> QED
  BY <1>3, <1>4, <1>6, <1>7, <1>8, BookSteps

\* Two offers that read as consumed and share a coin were executed by the same
\* transaction, so either their markers overlap, or two intents of the coin did.
LEMMA TradedOnce ==
    ASSUME NEW seal, NEW inputs, NEW markers, Wraps(seal, inputs, markers), Paid(seal, inputs),
           NEW S \in SUBSET Valid, \A q, r \in S : q # r => inputs[q] \cap inputs[r] = {},
           NEW o \in Valid, NEW p \in Valid, NEW x \in inputs[o] \cap inputs[p],
           markers[o] \cup markers[p] \subseteq UNION {markers[q] : q \in S}
    PROVE  markers[o] \cap markers[p] # {}
<1>1. PICK c \in seal[o][x], d \in seal[p][x] : TRUE
  BY DEF Paid
<1>2. c \in markers[o] /\ d \in markers[p] /\ seal[o][x] \subseteq markers[o] /\ seal[p][x] \subseteq markers[p]
  BY <1>1 DEF Wraps
<1>3. PICK q \in S, r \in S : c \in markers[q] /\ d \in markers[r]
  BY <1>2
<1>4. /\ x \in inputs[q] /\ seal[q][x] = seal[o][x]
      /\ x \in inputs[r] /\ seal[r][x] = seal[p][x]
  BY <1>1, <1>3 DEF Wraps
<1>5. q = r
  BY <1>4
<1> QED
  BY <1>1, <1>2, <1>4, <1>5

\* A coin backs one trade at most: the purpose of marker dedup.
THEOREM OneTradeHolds ==
    ASSUME ~HashlessEvents, NEW seal, Sealed(seal), Paid(seal, OfferSpends),
           NEW shielded, Wraps(shielded, OfferNulls, OfferComms), Paid(shielded, OfferNulls)
    PROVE  Spec => []OneTradePerCoin
<1>1. ASSUME TypeOK, EvidenceInv, TradeInv, Committed,
             NEW o \in Offers, NEW p \in Offers, o # p, Consumed(o), Consumed(p),
             Status(o) = "consumed", Status(p) = "consumed",
             OfferNulls[o] \cap OfferNulls[p] # {} \/ OfferSpends[o] \cap OfferSpends[p] # {}
      PROVE  FALSE
  <2>1. WasSettled(o) /\ WasSettled(p)
    BY <1>1, Exact DEF Sealed, Status
  <2>2. PICK i \in DOMAIN chain : Settles(chain[i], o)
    BY <2>1 DEF WasSettled
  <2>3. PICK k \in DOMAIN chain : Settles(chain[k], p)
    BY <2>1 DEF WasSettled
  <2>4. i = k
    BY <1>1, <2>2, <2>3, CoinOnce DEF Settles
  <2>5. o \in Valid /\ p \in Valid
    BY <1>1, ConsumedSeen
  <2>6. ~Apart(o, p)
    BY <2>2, <2>3, <2>4 DEF Apart
  <2>7. ~Overlap(o, p)
    BY <1>1, <2>6 DEF TradeInv
  <2>8. chain[i].comms # {} \/ chain[i].creates # {}
    BY <2>2, <2>5, ShapeAssumption DEF Settles
  <2>9. PICK S \in SUBSET Valid : Mergeable(S) /\ chain[i] = Merged(S)
    BY <1>1, <2>8 DEF EvidenceInv, Trades, Traded
  <2>10. CASE OfferNulls[o] \cap OfferNulls[p] # {}
    <3>1. OfferComms[o] \cup OfferComms[p] \subseteq UNION {OfferComms[q] : q \in S}
      BY <2>2, <2>3, <2>4, <2>9 DEF Settles, Merged
    <3>2. \A q, r \in S : q # r => OfferNulls[q] \cap OfferNulls[r] = {}
      BY <2>9 DEF Mergeable
    <3>3. PICK x \in OfferNulls[o] \cap OfferNulls[p] : TRUE
      BY <2>10
    <3>4. OfferComms[o] \cap OfferComms[p] # {}
      BY <2>5, <3>1, <3>2, <3>3, TradedOnce
    <3> QED
      BY <2>7, <3>4 DEF Overlap, Markers
  <2>11. CASE OfferSpends[o] \cap OfferSpends[p] # {}
    <3>1. OfferOuts[o] \cup OfferOuts[p] \subseteq UNION {OfferOuts[q] : q \in S}
      BY <2>2, <2>3, <2>4, <2>9 DEF Settles, Merged
    <3>2. \A q, r \in S : q # r => OfferSpends[q] \cap OfferSpends[r] = {}
      BY <2>9 DEF Mergeable
    <3>3. PICK x \in OfferSpends[o] \cap OfferSpends[p] : TRUE
      BY <2>11
    <3>4. OfferOuts[o] \cap OfferOuts[p] # {}
      BY <2>5, <3>1, <3>2, <3>3, TradedOnce DEF Sealed
    <3> QED
      BY <2>7, <3>4 DEF Overlap, Markers
  <2> QED
    BY <1>1, <2>10, <2>11
<1>2. TypeOK /\ EvidenceInv /\ TradeInv => OneTradePerCoin
  BY <1>1 DEF OneTradePerCoin
<1>3. TypeOK /\ EvidenceInv /\ AwaitInv /\ BookInv /\ TradeInv /\ [Next]_vars => TradeInv'
  BY TradeStep
<1>4. Init => AwaitInv /\ TradeInv
  BY DEF Init, AwaitInv, Waiting, TradeInv, Consumed
<1>5. TypeOK /\ EvidenceInv /\ AwaitInv /\ [Next]_vars => AwaitInv'
  BY AwaitStep
<1>6. Spec => [](TypeOK /\ EvidenceInv)
  BY EvidenceAlways
<1> QED
  BY <1>2, <1>3, <1>4, <1>5, <1>6, BookAlways, PTL DEF Spec
=============================================================================

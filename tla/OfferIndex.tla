----------------------------- MODULE OfferIndex -----------------------------
(***************************************************************************)
(* The rollup's offer index: the state machine of packages/node            *)
(* (state-machine.ts) over its SQL tables.  It consumes two chains, merged *)
(* into L2 blocks: Celestia, which carries published offers, and Midnight, *)
(* which spends and creates coins.  It keeps the live order book, archives *)
(* an offer when one of its inputs is spent or its deadline passes, and    *)
(* decides afterwards whether a spent offer was filled or cancelled.       *)
(*                                                                         *)
(* An input of a block is handled by one action, in the order the          *)
(* primitives are declared (config.dev.ts): the Celestia blobs, then the   *)
(* zswap events, unshielded spends, unshielded creates and root of         *)
(* Midnight.  Nothing relates the scheduled cleanups of a block to those,  *)
(* so they run at any point.                                               *)
(* The block's database transaction is one unit: readers and adjudication  *)
(* see the tables only when the inbox of the block is empty.  Rollback and *)
(* retry of a block are the subject of EventGate.                          *)
(*                                                                         *)
(* Simplifications.  An offer is named by its content hash, and what its   *)
(* bytes declare (inputs, markers, roots, limits) is a constant function   *)
(* of that hash, so the offer_file_* child tables are the restriction of   *)
(* those functions to the rows present.  A block's height and timestamp    *)
(* are one number, now.  Legs, prices and the per-height rejection counter *)
(* are not kept here.                                                      *)
(***************************************************************************)
EXTENDS Integers, Sequences, FiniteSets

CONSTANTS
    Offers,         \* content hashes of offers that may be published
    Nullifiers,     \* shielded coins, named by the nullifier that spends them
    Commitments,    \* shielded coin creations
    Utxos,          \* unshielded outputs: (owner, intent_hash, output_no)
    OfferNulls,     \* [Offers -> SUBSET Nullifiers]   declared shielded inputs
    OfferComms,     \* [Offers -> SUBSET Commitments]  declared shielded outputs
    OfferSpends,    \* [Offers -> SUBSET Utxos]        declared unshielded inputs
    OfferOuts,      \* [Offers -> SUBSET Utxos]        declared unshielded outputs
    OfferRoots,     \* [Offers -> SUBSET Roots]        roots its proofs refer to
    IntentTtls,     \* [Offers -> SUBSET Nat]          the TTLs of its intents
    Valid,          \* offers whose shape, signatures and proofs verify
    GenesisUtxos,   \* unshielded outputs that exist before the first block
    MaxRoot,        \* BOUND: roots are numbered 1..MaxRoot in chain order
    RootWindow,     \* ROOT_WINDOW_SECONDS
    OfferTtl,       \* OFFER_TTL_SECONDS, the fallback lifetime
    GlobalTtl,      \* the ledger's global_ttl, the bound on intent TTLs
    MaxTime,        \* BOUND: the last L2 block
    LastPost,       \* BOUND: the last block that may carry an offer
    MaxPosts,       \* BOUND: published blobs
    MaxTxs,         \* BOUND: Midnight transactions
    HashlessEvents  \* BOOLEAN: may an event arrive without a txHash?

Roots == 1 .. MaxRoot
NotSeen == 0        \* no row in a chain-observation table
NoHash == -1        \* a row whose tx_hash is NULL
TxHash == Int
Reasons == {"CONSUMED", "TTL"}
Verdicts == {"null", "settled", "cancelled"}
EventTypes == {"blob", "cleanup", "nullifier", "commitment", "spend", "create", "root"}
Event == [type : EventTypes,
          on   : Offers \cup Nullifiers \cup Commitments \cup Utxos \cup Nat,
          tx   : TxHash]

ASSUME DeclaredAssumption ==
    /\ OfferNulls \in [Offers -> SUBSET Nullifiers]
    /\ OfferComms \in [Offers -> SUBSET Commitments]
    /\ OfferSpends \in [Offers -> SUBSET Utxos]
    /\ OfferOuts \in [Offers -> SUBSET Utxos]
    /\ OfferRoots \in [Offers -> SUBSET Roots]
    /\ IntentTtls \in [Offers -> SUBSET Nat]
    /\ GenesisUtxos \subseteq Utxos
\* validate.ts: a well-formed offer has inputs (NO_SPENDABLE_INPUT), wants
\* something back (NOT_A_SWAP) and lives on one layer (CROSS_LAYER).
ASSUME ShapeAssumption ==
    \A o \in Valid : /\ o \in Offers
                     /\ OfferNulls[o] \cup OfferSpends[o] # {}
                     /\ OfferComms[o] \cup OfferOuts[o] # {}
                     /\ \/ OfferSpends[o] \cup OfferOuts[o] = {}
                        \/ OfferNulls[o] \cup OfferComms[o] = {}
ASSUME BoundAssumption ==
    /\ MaxRoot \in Nat \ {0} /\ MaxTime \in Nat /\ LastPost \in Nat
    /\ MaxPosts \in Nat /\ MaxTxs \in Nat
    /\ RootWindow \in Nat /\ OfferTtl \in Nat /\ GlobalTtl \in Nat
    /\ HashlessEvents \in BOOLEAN

VARIABLES
    \* the two chains
    chain,       \* Seq of Midnight transactions, in ledger order
    mined,       \* Seq of the L2 blocks that carry them
    tip,         \* the current root of the coin-commitment tree
    appeared,    \* [Roots -> Nat]: the L2 block that reports a root
    lastCurrent, \* [Roots -> Nat]: the last block in which a root was current
    posts,       \* blobs published so far
    staged,      \* inputs the next L2 block will carry
    \* the block being processed
    now,         \* its height and timestamp
    inbox,       \* its inputs not yet handled; empty when it has committed
    \* the tables
    offerFile,   \* offer_file: the live book
    expiresAt,   \* metadata_expires_at of every row ever inserted
    history,     \* offer_file_history: [offer, reason, at]
    verdict,     \* offer_file_history.settled: NULL, true or false
    cleanups,    \* scheduled zswap-ttl-cleanup inputs, <<offer, at>>
    nullTx,      \* nullifiers: the spending tx of each
    matched,     \* nullifiers.offer_matched
    commTx,      \* commitments: the creating tx of each
    spendTx,     \* unshielded_spends: the spending tx of each
    creates,     \* unshielded_creates
    liveUtxos,   \* created_unshielded, the live set
    knownRoots,  \* known_roots: height and last_seen_ms of each
    \* the adjudicating process
    notices      \* released offer_consumed events its listener has not handled

chainVars == <<chain, mined, tip, appeared, lastCurrent, posts, staged>>
bookVars == <<offerFile, expiresAt, history, cleanups>>
seenVars == <<nullTx, commTx, spendTx, creates, liveUtxos, knownRoots>>
vars == <<chainVars, now, inbox, bookVars, seenVars, matched, verdict, notices>>

Markers(o) == OfferComms[o] \cup OfferOuts[o]
Archived(o) == \E h \in history : h.offer = o
Consumed(o) == \E h \in history : h.offer = o /\ h.reason = "CONSUMED"
Committed == inbox = {}

-----------------------------------------------------------------------------
(* Intents.  An offer may wrap intents that others wrap too (a merge under *)
(* other bytes).  seal[o][x] is what the intent that spends x declares: its *)
(* signer bound the two, so that any overlap of outputs means one signer   *)
(* (marker-dedup.ts).  No action reads it; proofs take it as hypothesis.   *)

Wraps(seal, inputs, markers) ==
    \A o \in Valid :
        /\ markers[o] = UNION {seal[o][x] : x \in inputs[o]}
        /\ \A x \in inputs[o], p \in Valid :
              seal[o][x] \cap markers[p] # {} => x \in inputs[p] /\ seal[p][x] = seal[o][x]
\* No intent gives its coin away.
Paid(seal, inputs) == \A o \in Valid : \A x \in inputs[o] : seal[o][x] # {}
\* The unshielded intents: what they pay out does not exist yet.
Sealed(seal) == /\ Wraps(seal, OfferSpends, OfferOuts)
                /\ \A o \in Valid : OfferOuts[o] \cap GenesisUtxos = {}

-----------------------------------------------------------------------------
(* Roots.  The age of a root is measured from last_seen_ms, except that    *)
(* the highest root known never ages: the primitive reports a root only    *)
(* when it advances, so the current one is not refreshed on a quiet chain. *)

\* height >= (SELECT MAX(height) FROM known_roots)
IsNewest(r) == knownRoots[r] # NotSeen /\ \A s \in Roots : knownRoots[s] <= knownRoots[r]

RootLive(r) ==
    /\ knownRoots[r] # NotSeen
    /\ knownRoots[r] >= now - RootWindow \/ IsNewest(r)

\* window_anchor_ms of one root: the escape is applied per row, before MIN.
RootAnchorLifted(o, r) ==
    IF \E s \in OfferRoots[o] : IsNewest(s) THEN now ELSE knownRoots[r]
RootAnchor(o, r) == IF IsNewest(r) THEN now ELSE knownRoots[r]

Earliest(S) == CHOOSE t \in S : \A u \in S : t <= u

\* deriveOfferExpiry: the earliest limit that applies, else the fallback.
ExpiryLimits(o) ==
    {RootAnchor(o, r) + RootWindow : r \in OfferRoots[o]} \cup IntentTtls[o]
Expiry(o) ==
    IF ExpiryLimits(o) = {} THEN now + OfferTtl ELSE Earliest(ExpiryLimits(o))

\* The time the cleanup is scheduled for.  It once was a second calculation.
CleanupTimePolicy(o) == now + OfferTtl
CleanupTime(o) == Expiry(o)

-----------------------------------------------------------------------------
(* The gate of celestia-zswap: every check an offer passes to be indexed.  *)

AlreadyIndexedLive(o) == o \in offerFile
AlreadyIndexed(o) == o \in offerFile \/ Archived(o)

InputsLiveUnchecked(o) == \A r \in OfferRoots[o] : RootLive(r)
InputsLive(o) ==
    /\ \A n \in OfferNulls[o] : nullTx[n] = NotSeen
    /\ OfferSpends[o] \subseteq liveUtxos
    /\ \A r \in OfferRoots[o] : RootLive(r)

CryptoOk(o) ==
    /\ o \in Valid
    /\ \A t \in IntentTtls[o] : now <= t /\ t <= now + GlobalTtl

MarkersClaimedNever(o) == FALSE
MarkersClaimed(o) == \E p \in offerFile : Markers(o) \cap Markers(p) # {}

Accepts(o) == CryptoOk(o) /\ ~AlreadyIndexed(o) /\ InputsLive(o) /\ ~MarkersClaimed(o)

\* findUnmatchedNullifier
Unmatched(n) == nullTx[n] # NotSeen /\ n \notin matched

-----------------------------------------------------------------------------
(* Fill or cancel: the predicates of queries.app.ts over the archived row. *)

\* COUNT(DISTINCT tx_hash) > 1: NULLs are not counted.
SplitSpend(hashes) == \E a, b \in hashes \ {NotSeen, NoHash} : a # b

ShieldedCancelledHeuristic(o) ==
    LET spentBy == {nullTx[n] : n \in OfferNulls[o]}
    IN  NotSeen \in spentBy \/ SplitSpend(spentBy)
ShieldedCancelled(o) ==
    LET spentBy == {nullTx[n] : n \in OfferNulls[o]}
    IN  \/ NotSeen \in spentBy
        \/ SplitSpend(spentBy)
        \/ /\ NoHash \notin spentBy /\ spentBy # {}
           /\ \E c \in OfferComms[o] : commTx[c] \notin spentBy

UnshieldedCancelledNoMarkers(o) ==
    LET spentBy == {spendTx[u] : u \in OfferSpends[o]}
    IN  OfferOuts[o] # {} /\ (NotSeen \in spentBy \/ SplitSpend(spentBy))
UnshieldedCancelled(o) ==
    LET spentBy == {spendTx[u] : u \in OfferSpends[o]}
    IN  /\ OfferOuts[o] # {}
        /\ NotSeen \in spentBy \/ SplitSpend(spentBy) \/ ~(OfferOuts[o] \subseteq creates)

Cancelled(o) == ShieldedCancelled(o) \/ UnshieldedCancelled(o)

\* archivedStatusCase, the status every read of an archived offer serves.
Status(o) == IF ~Consumed(o) THEN "expired"
             ELSE IF Cancelled(o) THEN "cancelled" ELSE "consumed"

-----------------------------------------------------------------------------
(* Midnight, as far as the index depends on it.                            *)

Tx == [nulls : SUBSET Nullifiers, comms : SUBSET Commitments,
       spends : SUBSET Utxos, creates : SUBSET Utxos]

Landed(field) == UNION {chain[i][field] : i \in DOMAIN chain}
Settles(tx, o) == /\ OfferNulls[o] \subseteq tx.nulls /\ OfferComms[o] \subseteq tx.comms
                  /\ OfferSpends[o] \subseteq tx.spends /\ OfferOuts[o] \subseteq tx.creates
WasSettled(o) == \E i \in DOMAIN chain : Settles(chain[i], o)

\* apply_input accepts a root that was current within the window.
LedgerKnows(r) == lastCurrent[r] # NotSeen /\ lastCurrent[r] >= now - RootWindow

LedgerAccepts(tx) ==
    /\ tx.nulls \cap Landed("nulls") = {} /\ tx.comms \cap Landed("comms") = {}
    /\ tx.spends \cap Landed("spends") = {} /\ tx.creates \cap Landed("creates") = {}
    /\ tx.spends \subseteq GenesisUtxos \cup Landed("creates")
    /\ tx.creates \cap GenesisUtxos = {} /\ tx.creates \cap tx.spends = {}

\* The events the primitives report for a transaction.
Ev(type, on, tx) == [type |-> type, on |-> on, tx |-> tx]
EventsOf(tx, hash) ==
    {Ev("nullifier", n, hash) : n \in tx.nulls} \cup
    {Ev("commitment", c, hash) : c \in tx.comms} \cup
    {Ev("spend", u, hash) : u \in tx.spends} \cup
    {Ev("create", u, hash) : u \in tx.creates}

Include(tx) ==
    /\ Committed /\ Len(chain) < MaxTxs /\ now < MaxTime
    /\ LedgerAccepts(tx)
    /\ chain' = Append(chain, tx) /\ mined' = Append(mined, now + 1)
    /\ \E hash \in {Len(chain) + 1} \cup (IF HashlessEvents THEN {NoHash} ELSE {}) :
          staged' = staged \cup EventsOf(tx, hash)
    /\ UNCHANGED <<tip, appeared, lastCurrent, posts, now, inbox, bookVars, seenVars,
                   matched, verdict, notices>>

\* Merging keeps every output of every offer, and no input can be spent twice.
Mergeable(S) == \A o, p \in S : o # p =>
    /\ OfferNulls[o] \cap OfferNulls[p] = {} /\ OfferSpends[o] \cap OfferSpends[p] = {}
    /\ Markers(o) \cap Markers(p) = {}
Merged(S) == [nulls   |-> UNION {OfferNulls[o] : o \in S},
              comms   |-> UNION {OfferComms[o] : o \in S},
              spends  |-> UNION {OfferSpends[o] : o \in S},
              creates |-> UNION {OfferOuts[o] : o \in S}]

\* A taker settles some offers in one transaction.
Settlement(S) ==
    /\ S # {} /\ Mergeable(S)
    /\ \A o \in S : \A r \in OfferRoots[o] : LedgerKnows(r)
    /\ \A o \in S : \A t \in IntentTtls[o] : now + 1 <= t
    /\ Include(Merged(S))

\* Owners spend coins for another purpose: none of the declared outputs.
OtherSpend(N, U) ==
    /\ N \cup U # {}
    /\ Include([nulls |-> N, comms |-> {}, spends |-> U, creates |-> {}])

\* The commitment tree of the next Midnight block differs.  An L2 block covers
\* many of those (BLOCK_TIME_MS), so it may report several roots; the one that
\* was current may have been so in the first of them or not.
RootAdvances ==
    /\ Committed /\ tip < MaxRoot /\ now < MaxTime
    /\ tip' = tip + 1
    /\ staged' = staged \cup {Ev("root", tip + 1, NoHash)}
    /\ appeared' = [appeared EXCEPT ![tip + 1] = now + 1]
    /\ \E last \in {lastCurrent[tip], now + 1} :
          lastCurrent' = [lastCurrent EXCEPT ![tip] = last, ![tip + 1] = now + 1]
    /\ UNCHANGED <<chain, mined, posts, now, inbox, bookVars, seenVars,
                   matched, verdict, notices>>

\* Anyone posts a blob to the namespace: a new offer or a replay.
PostBlob(o) ==
    /\ Committed /\ now < LastPost /\ posts < MaxPosts
    /\ Ev("blob", o, NoHash) \notin staged
    /\ posts' = posts + 1
    /\ staged' = staged \cup {Ev("blob", o, NoHash)}
    /\ UNCHANGED <<chain, mined, tip, appeared, lastCurrent, now, inbox, bookVars,
                   seenVars, matched, verdict, notices>>

-----------------------------------------------------------------------------
(* Block production and the order of a block's inputs.                     *)

BeginBlock ==
    LET due == {c \in cleanups : c[2] <= now + 1}
    IN  /\ Committed /\ now < MaxTime
        /\ now' = now + 1
        /\ inbox' = staged \cup {Ev("cleanup", c[1], NoHash) : c \in due}
        /\ staged' = {}
        /\ cleanups' = cleanups \ due
        /\ lastCurrent' = [lastCurrent EXCEPT ![tip] = now + 1]
        /\ UNCHANGED <<chain, mined, tip, appeared, posts, offerFile, expiresAt, history, seenVars,
                       matched, verdict, notices>>

\* Primitives run in declaration order (config.dev.ts, event-bus.ts).
Precedes(a, b) ==
    \/ a = "blob" /\ b \in {"nullifier", "commitment", "spend", "create", "root"}
    \/ a \in {"nullifier", "commitment"} /\ b \in {"spend", "create", "root"}
    \/ a = "spend" /\ b \in {"create", "root"}
    \/ a = "create" /\ b = "root"

Take(e) == /\ e \in inbox
           /\ ~\E f \in inbox : Precedes(f.type, e.type)
           /\ inbox' = inbox \ {e}

-----------------------------------------------------------------------------
(* The transitions.                                                        *)

\* archiveOfferSql: the rows move, with their markers, and the DELETE returns
\* the hashes the lifecycle events carry.
Archive(S, reason) ==
    /\ offerFile' = offerFile \ S
    /\ history' = history \cup {[offer |-> o, reason |-> reason, at |-> now] : o \in S}
    /\ notices' = IF reason = "CONSUMED" THEN notices \cup S ELSE notices

\* celestia-zswap, rejected: rejectOffer leaves no trace in these tables.
RejectBlob(o) ==
    /\ Take(Ev("blob", o, NoHash))
    /\ ~Accepts(o)
    /\ UNCHANGED <<chainVars, now, bookVars, seenVars, matched, verdict, notices>>

\* celestia-zswap, accepted: insert, reconcile with nullifiers seen early, then
\* schedule the cleanup, which an offer archived at once does not get.
IndexBlob(o) ==
    LET early == {n \in OfferNulls[o] : Unmatched(n)}
    IN  /\ Take(Ev("blob", o, NoHash))
        /\ Accepts(o)
        /\ expiresAt' = [expiresAt EXCEPT ![o] = Expiry(o)]
        /\ matched' = matched \cup early
        /\ IF early = {}
           THEN /\ offerFile' = offerFile \cup {o}
                /\ cleanups' = cleanups \cup {<<o, CleanupTime(o)>>}
                /\ UNCHANGED <<history, notices>>
           ELSE Archive({o}, "CONSUMED") /\ UNCHANGED cleanups
        /\ UNCHANGED <<chainVars, now, seenVars, verdict>>

OffersSpending(n) == {o \in offerFile : n \in OfferNulls[o]}

\* First-seen wins: ON CONFLICT DO NOTHING.
Record(table, key, tx) ==
    IF table[key] = NotSeen THEN [table EXCEPT ![key] = tx] ELSE table

\* midnight-zswap-event, kind nullifier.
NullifierEvent(n, tx) ==
    /\ Take(Ev("nullifier", n, tx))
    /\ nullTx' = Record(nullTx, n, tx)
    /\ Archive(OffersSpending(n), "CONSUMED")
    /\ matched' = IF OffersSpending(n) = {} THEN matched ELSE matched \cup {n}
    /\ UNCHANGED <<chainVars, now, expiresAt, cleanups, commTx, spendTx, creates,
                   liveUtxos, knownRoots, verdict>>

\* midnight-zswap-event, kind commitment.
CommitmentEvent(c, tx) ==
    /\ Take(Ev("commitment", c, tx))
    /\ commTx' = Record(commTx, c, tx)
    /\ UNCHANGED <<chainVars, now, bookVars, nullTx, spendTx, creates, liveUtxos,
                   knownRoots, matched, verdict, notices>>

\* midnight-unshielded-spend: the permanent record before the live-set delete.
SpendEvent(u, tx) ==
    /\ Take(Ev("spend", u, tx))
    /\ spendTx' = Record(spendTx, u, tx)
    /\ liveUtxos' = liveUtxos \ {u}
    /\ Archive({o \in offerFile : u \in OfferSpends[o]}, "CONSUMED")
    /\ UNCHANGED <<chainVars, now, expiresAt, cleanups, nullTx, commTx, creates,
                   knownRoots, matched, verdict>>

\* midnight-unshielded-create: the live set and the permanent record.
CreateEvent(u, tx) ==
    /\ Take(Ev("create", u, tx))
    /\ liveUtxos' = liveUtxos \cup {u}
    /\ creates' = creates \cup {u}
    /\ UNCHANGED <<chainVars, now, bookVars, nullTx, commTx, spendTx, knownRoots,
                   matched, verdict, notices>>

\* midnight-zswap-root, once per root of the block and in their order: upsert,
\* then prune what is out of the window and not the highest.
Pruned(table) ==
    [r \in Roots |-> IF /\ table[r] < now - RootWindow
                        /\ \E s \in Roots : table[r] < table[s]
                     THEN NotSeen ELSE table[r]]
RootEvent(r) ==
    /\ Take(Ev("root", r, NoHash))
    /\ \A f \in inbox : f.type = "root" => r <= f.on
    /\ knownRoots' = Pruned([knownRoots EXCEPT ![r] = now])
    /\ UNCHANGED <<chainVars, now, bookVars, nullTx, commTx, spendTx, creates,
                   liveUtxos, matched, verdict, notices>>

\* metadata_expires_at <= :expires_at_cutoff
PastExpiryStrict(o) == expiresAt[o] < now
PastExpiry(o) == expiresAt[o] <= now

\* zswap-ttl-cleanup: by id, only when live and persisted expiry has passed.
TtlCleanup(o) ==
    /\ Take(Ev("cleanup", o, NoHash))
    /\ Archive({p \in offerFile : p = o /\ PastExpiry(p)}, "TTL")
    /\ UNCHANGED <<chainVars, now, expiresAt, cleanups, seenVars, matched, verdict>>

-----------------------------------------------------------------------------
(* Adjudication, on a connection of its own, of rows that have committed.  *)

\* The event gate and a separate connection: only committed rows are visible.
VisibleInBlock == TRUE
Visible == Committed

AdjudicateFill(o) ==
    verdict' = IF Consumed(o)
               THEN [verdict EXCEPT ![o] = IF Cancelled(o) THEN "cancelled" ELSE "settled"]
               ELSE verdict

\* onAppEvent: the released event, whose write may be lost to an error or crash.
AdjudicateOnEvent(o) ==
    /\ Visible /\ o \in notices
    /\ notices' = notices \ {o}
    /\ AdjudicateFill(o)
    /\ UNCHANGED <<chainVars, now, inbox, bookVars, seenVars, matched>>
LoseNotice(o) ==
    /\ o \in notices
    /\ notices' = notices \ {o}
    /\ UNCHANGED <<chainVars, now, inbox, bookVars, seenVars, matched, verdict>>

\* fillSweep: findUnadjudicatedFills, then the same statement for each row.
OwedAVerdictNotified(o) == Consumed(o) /\ verdict[o] = "null" /\ o \in notices
OwedAVerdict(o) == Consumed(o) /\ verdict[o] = "null"
RepairSweep(o) ==
    /\ Visible /\ OwedAVerdict(o)
    /\ AdjudicateFill(o)
    /\ UNCHANGED <<chainVars, now, inbox, bookVars, seenVars, matched, notices>>

-----------------------------------------------------------------------------
Init ==
    /\ chain = <<>> /\ mined = <<>> /\ tip = 1 /\ posts = 0
    /\ appeared = [r \in Roots |-> IF r = 1 THEN 1 ELSE NotSeen]
    /\ lastCurrent = [r \in Roots |-> IF r = 1 THEN 1 ELSE NotSeen]
    /\ staged = {} /\ now = 1 /\ inbox = {}
    /\ offerFile = {} /\ history = {} /\ cleanups = {}
    /\ expiresAt = [o \in Offers |-> 0]
    /\ verdict = [o \in Offers |-> "null"]
    /\ nullTx = [n \in Nullifiers |-> NotSeen] /\ matched = {}
    /\ commTx = [c \in Commitments |-> NotSeen]
    /\ spendTx = [u \in Utxos |-> NotSeen]
    /\ creates = GenesisUtxos /\ liveUtxos = GenesisUtxos
    /\ knownRoots = [r \in Roots |-> IF r = 1 THEN 1 ELSE NotSeen]
    /\ notices = {}

Chains ==
    \/ \E S \in SUBSET Valid : Settlement(S)
    \/ \E N \in SUBSET Nullifiers, U \in SUBSET Utxos : OtherSpend(N, U)
    \/ RootAdvances
    \/ \E o \in Offers : PostBlob(o)

HandleInput ==
    \/ \E o \in Offers : RejectBlob(o)
    \/ \E o \in Offers : IndexBlob(o)
    \/ \E o \in Offers : TtlCleanup(o)
    \/ \E n \in Nullifiers, tx \in {e.tx : e \in inbox} : NullifierEvent(n, tx)
    \/ \E c \in Commitments, tx \in {e.tx : e \in inbox} : CommitmentEvent(c, tx)
    \/ \E u \in Utxos, tx \in {e.tx : e \in inbox} : SpendEvent(u, tx)
    \/ \E u \in Utxos, tx \in {e.tx : e \in inbox} : CreateEvent(u, tx)
    \/ \E r \in Roots : RootEvent(r)

Adjudication ==
    \/ \E o \in Offers : AdjudicateOnEvent(o)
    \/ \E o \in Offers : LoseNotice(o)
    \/ \E o \in Offers : RepairSweep(o)

Next == Chains \/ BeginBlock \/ HandleInput \/ Adjudication

Spec == Init /\ [][Next]_vars

\* The runtime keeps producing blocks and handling their inputs, and the sweep
\* runs on an interval.  Nothing is assumed of the chains or the listener.
Fairness == /\ WF_vars(BeginBlock)
            /\ WF_vars(HandleInput)
            /\ WF_vars(\E o \in Offers : RepairSweep(o))
FairSpec == Spec /\ Fairness

-----------------------------------------------------------------------------
(* Properties.                                                             *)

\* The types of the tables, the inbox and the chains.
TypeOK ==
    /\ chain \in Seq(Tx) /\ mined \in Seq(Nat) /\ tip \in Roots /\ posts \in Nat
    /\ appeared \in [Roots -> Nat] /\ lastCurrent \in [Roots -> Nat]
    /\ staged \subseteq Event /\ inbox \subseteq Event /\ now \in Nat
    /\ offerFile \subseteq Offers /\ notices \subseteq Offers
    /\ expiresAt \in [Offers -> Nat]
    /\ history \subseteq [offer : Offers, reason : Reasons, at : Nat]
    /\ verdict \in [Offers -> Verdicts]
    /\ cleanups \subseteq Offers \X Nat
    /\ nullTx \in [Nullifiers -> TxHash] /\ matched \subseteq Nullifiers
    /\ commTx \in [Commitments -> TxHash]
    /\ spendTx \in [Utxos -> TxHash]
    /\ creates \subseteq Utxos /\ liveUtxos \subseteq Utxos
    /\ knownRoots \in [Roots -> Nat]

\* The spends of an L2 block are handled before its creates, so a UTXO spent in
\* the block that creates it enters the live set spent (state-machine.ts).
MinedIn(u, field, b) == \E i \in DOMAIN chain : u \in chain[i][field] /\ mined[i] = b
BornSpent(u) == \E b \in 1 .. now : MinedIn(u, "creates", b) /\ MinedIn(u, "spends", b)

\* The book offers no coin the index has seen spent, but those: ingestion
\* refuses the others and every spend archives each live offer of its coin.
LiveInputsUnspent ==
    \A o \in offerFile :
        /\ \A n \in OfferNulls[o] : nullTx[n] = NotSeen
        /\ \A u \in OfferSpends[o] : spendTx[u] # NotSeen => BornSpent(u)

\* Marker dedup: no two live offers wrap one intent (marker-dedup.ts).
MarkersExclusive ==
    \A o, p \in offerFile : Markers(o) \cap Markers(p) # {} => o = p

\* A replayed blob never brings an archived offer back, and an offer is
\* archived once: celestia-zswap's byte dedup reads the history too.
NoResurrection ==
    /\ \A h \in history : h.offer \notin offerFile
    /\ \A g, h \in history : g.offer = h.offer => g = h

\* One deadline: a live offer's cleanup is pending at the very expiry the API
\* advertises, or is in the block being processed.
CleanupPending ==
    \A o \in offerFile : \/ <<o, expiresAt[o]>> \in cleanups
                         \/ Ev("cleanup", o, NoHash) \in inbox

\* Between blocks the book holds no offer whose advertised expiry has passed.
BookNotStale == Committed => \A o \in offerFile : expiresAt[o] >= now

\* The advertised expiry follows the ledger to the L2 block: it exceeds the
\* window of each root of the offer, counted to when the last root reported
\* with it was current, by one block at most (getOfferRootTiming).
FloorWithinOneBlock ==
    \A o \in offerFile : \A r \in OfferRoots[o] :
        \E s \in Roots : /\ appeared[s] = appeared[r]
                         /\ expiresAt[o] <= lastCurrent[s] + RootWindow + 1

\* Fill-vs-cancel is exact: an offer archived by a spend reads as consumed if
\* and only if one ledger transaction executed its terms (queries.app.ts).
FillExact ==
    Committed => \A o \in Offers : Consumed(o) => (Status(o) = "consumed" <=> WasSettled(o))

\* A coin backs at most one trade: of the archived offers that spend it, one
\* at most reads as consumed (the purpose of marker dedup).
OneTradePerCoin ==
    Committed => \A o, p \in Offers :
        /\ o # p /\ Consumed(o) /\ Consumed(p)
        /\ Status(o) = "consumed" /\ Status(p) = "consumed"
        => /\ OfferNulls[o] \cap OfferNulls[p] = {}
           /\ OfferSpends[o] \cap OfferSpends[p] = {}

\* The stored verdict is a cache of the predicate: whenever it was written, it
\* equals what a reader computes now, so market data and status agree.
VerdictMatchesEvidence ==
    Committed => \A o \in Offers :
        verdict[o] # "null" => (verdict[o] = "settled" <=> ~Cancelled(o))

\* Every offer leaves the book: its cleanup is never lost or ineffective.
EveryOfferLeaves == \A o \in Offers : o \in offerFile ~> o \notin offerFile

\* Every offer archived by a spend gets its verdict, although the listener's
\* write may be lost: the sweep finds what is owed.
EveryFillAdjudicated == \A o \in Offers : Consumed(o) ~> verdict[o] # "null"

(* What the comments say and the code does not do.                         *)

\* state-machine.ts: after a spend "a later Celestia offer will see no row and
\* be rejected".
SpentNeverListed ==
    \A o \in offerFile : \A u \in OfferSpends[o] : spendTx[u] = NotSeen

\* queries.app.ts: counting the highest root as current is "semantic parity with
\* the ledger".
HighestRootCurrent ==
    Committed => \A r \in Roots : RootLive(r) => LedgerKnows(r)

\* The other half of that parity.
RootGateParity ==
    Committed => \A r \in Roots : appeared[r] <= now /\ LedgerKnows(r) => RootLive(r)

\* state-machine.ts: "the floor never over-promises fillability".
FloorNeverOverPromises ==
    \A o \in offerFile : \A r \in OfferRoots[o] :
        expiresAt[o] <= lastCurrent[r] + RootWindow

\* 000-init.sql: every table the predicate reads is append-only, so an offer
\* archived last week "can never reclassify".
NeverReclassifies ==
    Committed => \A o \in Offers : verdict[o] = "cancelled" => Status(o) = "cancelled"
=============================================================================

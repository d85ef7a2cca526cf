------------------------------ MODULE EventGate ------------------------------
(***************************************************************************)
(* Block transactions and the event gate (packages/node): the runtime runs *)
(* the inputs of a block inside one database transaction, a failing input  *)
(* rolls the whole block back (app-input-savepoint.ts), and the block is   *)
(* processed again.  Transitions emit application events as they run; the  *)
(* gate (event-bus.ts) holds them until a separate connection sees their   *)
(* block committed.  The buffer belongs to the process and not to the      *)
(* transaction: a rollback does not clear it, a restart does.              *)
(*                                                                         *)
(* Row ids come from a SERIAL sequence, which a rollback does not rewind.  *)
(***************************************************************************)
EXTENDS Integers, Sequences, FiniteSets, SequencesExt, Subsequences

CONSTANTS
    Offers,        \* content hashes
    NoOffer,       \* the subject of an event that has no offerHash
    Blocks,        \* the blocks that may arrive, each a sequence of inputs
    MaxHeight,     \* BOUND: blocks committed
    MaxRollbacks,  \* BOUND: rolled-back attempts
    MaxCrashes     \* BOUND: restarts of the process

Kinds == {"index", "malformed", "consume", "expire"}
EventTypes == {"offer_indexed", "offer_rejected", "offer_consumed", "offer_expired"}
States == {"live", "consumed", "expired"}
NoRow == 0

Input == [kind : Kinds, offers : SUBSET Offers]
Row == [id : Nat, offer : Offers, state : States]
Event == [at : Nat, type : EventTypes, offer : Offers \cup {NoOffer}, id : Nat]

\* What an event is about, without the local row id.
Subject(e) == [at |-> e.at, type |-> e.type, offer |-> e.offer]
Subjects(seq) == [i \in DOMAIN seq |-> Subject(seq[i])]
About == [at : Nat, type : EventTypes, offer : Offers \cup {NoOffer}]

\* A blob carries one offer.
ASSUME BlocksAssumption ==
    /\ NoOffer \notin Offers /\ Blocks \subseteq Seq(Input)
    /\ \A b \in Blocks : \A i \in DOMAIN b :
          b[i].kind = "index" => \E o \in Offers : b[i].offers = {o}
ASSUME GateBoundAssumption == {MaxHeight, MaxRollbacks, MaxCrashes} \subseteq Nat

VARIABLES
    \* the database
    height,     \* the committed block
    rows,       \* offer_file and offer_file_history, as committed
    serial,     \* the id sequence
    \* the block transaction
    block,      \* the inputs of block height + 1; <<>> until it arrives
    pos,        \* the next input to run; 0 when no transaction is open
    txRows,     \* the rows as this transaction sees them
    txEvents,   \* ghost: the subjects of the events of this attempt
    \* the process
    pending,         \* events awaiting their block's commit, oldest first
    committedHeight, \* the highest block seen committed
    published,       \* what the listeners have received
    \* history and bounds
    log,        \* ghost: those of the attempts that committed
    rollbacks, crashes

dbVars == <<height, rows, serial>>
txVars == <<block, pos, txRows, txEvents>>
gateVars == <<pending, committedHeight, published>>
vars == <<dbVars, txVars, gateVars, log, rollbacks, crashes>>

InTx == pos > 0
Ended == pos = Len(block) + 1
Known(o) == \E r \in txRows : r.offer = o
LiveRows(S) == {r \in txRows : r.offer \in S /\ r.state = "live"}

-----------------------------------------------------------------------------
(* The gate.                                                               *)

\* identity(): the content hash, and the row id only for events without one.
IdentityByRow(e) == <<e.type, e.id>>
Identity(e) == <<e.type, e.offer>>

\* emitAppEvent, for the events one transition emits.
Emit(events) ==
    LET new == {k \in DOMAIN events : ~\E i \in DOMAIN pending :
                      pending[i].at = events[k].at /\ Identity(pending[i]) = Identity(events[k])}
    IN  IF height + 1 <= committedHeight
        THEN published' = published \o events /\ UNCHANGED pending
        ELSE pending' = pending \o PickSeq(events, new) /\ UNCHANGED published

ReleasableBefore(e, h) == e.at < h
Releasable(e, h) == e.at <= h

\* flush(): it scans from the newest and prepends, so the order is kept.
Ready(h) == PickSeq(pending, {i \in DOMAIN pending : Releasable(pending[i], h)})
Held(h) == PickSeq(pending, {i \in DOMAIN pending : ~Releasable(pending[i], h)})

\* The block a reader sees: a connection of its own never sees the open one.
Seen(h) == h

\* The poll reads a height, which may lag; markBlockCommitted ignores one it
\* has passed.
PollGate(h) ==
    /\ committedHeight < Seen(h)
    /\ committedHeight' = Seen(h)
    /\ published' = published \o Ready(Seen(h))
    /\ pending' = Held(Seen(h))
    /\ UNCHANGED <<dbVars, txVars, log, rollbacks, crashes>>

-----------------------------------------------------------------------------
(* The block transaction.                                                  *)

\* A block arrives, or the one rolled back is processed again from BEGIN.
Begin ==
    /\ ~InTx /\ height < MaxHeight
    /\ block' \in IF block = <<>> THEN Blocks ELSE {block}
    /\ pos' = 1 /\ txRows' = rows /\ txEvents' = <<>>
    /\ UNCHANGED <<dbVars, gateVars, log, rollbacks, crashes>>

RunInput(kind) ==
    /\ InTx /\ ~Ended /\ block[pos].kind = kind
    /\ pos' = pos + 1
    /\ UNCHANGED <<height, rows, block, committedHeight, log, rollbacks, crashes>>

Announce(type, from) ==
    LET events == [i \in DOMAIN from |-> [at |-> height + 1, type |-> type,
                                          offer |-> from[i].offer, id |-> from[i].id]]
    IN  Emit(events) /\ txEvents' = txEvents \o Subjects(events)

\* celestia-zswap: a new offer is inserted under the next id, a known one is
\* rejected by its hash.
IndexInput ==
    /\ RunInput("index")
    /\ \E o \in block[pos].offers :
          IF Known(o)
          THEN /\ Announce("offer_rejected", <<[offer |-> o, id |-> NoRow]>>)
               /\ UNCHANGED <<txRows, serial>>
          ELSE /\ serial' = serial + 1
               /\ txRows' = txRows \cup {[id |-> serial + 1, offer |-> o, state |-> "live"]}
               /\ Announce("offer_indexed", <<[offer |-> o, id |-> serial + 1]>>)

\* celestia-zswap: bytes that do not parse as an offer have no hash to report.
MalformedInput ==
    /\ RunInput("malformed")
    /\ Announce("offer_rejected", <<[offer |-> NoOffer, id |-> NoRow]>>)
    /\ UNCHANGED <<txRows, serial>>

\* A spend archives every live offer that uses the coin, a cleanup its own;
\* each archived row is one event, in the order the DELETE returned them.
ArchiveInput(kind, state, type) ==
    /\ RunInput(kind)
    /\ LET gone == LiveRows(block[pos].offers)
       IN  /\ txRows' = (txRows \ gone) \cup {[r EXCEPT !.state = state] : r \in gone}
           /\ \E order \in SetToSeqs(gone) : Announce(type, order)
    /\ UNCHANGED serial
ConsumeInput == ArchiveInput("consume", "consumed", "offer_consumed")
ExpireInput == ArchiveInput("expire", "expired", "offer_expired")

Commit ==
    /\ InTx /\ Ended
    /\ height' = height + 1 /\ rows' = txRows
    /\ log' = log \o txEvents
    /\ block' = <<>> /\ pos' = 0 /\ txRows' = {} /\ txEvents' = <<>>
    /\ UNCHANGED <<serial, gateVars, rollbacks, crashes>>

\* A transition throws, or the database fails: failStopAppInput poisons the
\* transaction and the runtime rolls the block back, keeping its inputs.
Rollback ==
    /\ InTx /\ rollbacks < MaxRollbacks
    /\ rollbacks' = rollbacks + 1
    /\ pos' = 0 /\ txRows' = {} /\ txEvents' = <<>>
    /\ UNCHANGED <<dbVars, block, gateVars, log, crashes>>

\* The process restarts: the open transaction and everything in memory go.
Crash ==
    /\ crashes < MaxCrashes
    /\ crashes' = crashes + 1
    /\ pos' = 0 /\ txRows' = {} /\ txEvents' = <<>>
    /\ pending' = <<>> /\ committedHeight' = -1
    /\ UNCHANGED <<dbVars, block, published, log, rollbacks>>

-----------------------------------------------------------------------------
Init ==
    /\ height = 0 /\ rows = {} /\ serial = 0
    /\ block = <<>> /\ pos = 0 /\ txRows = {} /\ txEvents = <<>>
    /\ pending = <<>> /\ committedHeight = -1 /\ published = <<>>
    /\ log = <<>> /\ rollbacks = 0 /\ crashes = 0

Run == IndexInput \/ MalformedInput \/ ConsumeInput \/ ExpireInput
Poll == \E h \in 0 .. height : PollGate(h)

Next == Begin \/ Run \/ Commit \/ Rollback \/ Crash \/ Poll

Spec == Init /\ [][Next]_vars

\* The runtime keeps processing blocks; the poll's interval keeps firing and a
\* read that lags does so for a while only.
Fairness == WF_vars(Begin) /\ WF_vars(Run) /\ WF_vars(Commit) /\ WF_vars(PollGate(height))
FairSpec == Spec /\ Fairness

-----------------------------------------------------------------------------
(* Properties.                                                             *)

\* The types of the tables, the transaction and the buffer.
TypeOK ==
    /\ height \in Nat /\ rows \subseteq Row /\ serial \in Nat
    /\ block \in Seq(Input) /\ pos \in Nat /\ txRows \subseteq Row
    /\ {pending, published} \subseteq Seq(Event) /\ {log, txEvents} \subseteq Seq(About)
    /\ committedHeight \in -1 .. height
    /\ rollbacks \in 0 .. MaxRollbacks /\ crashes \in 0 .. MaxCrashes

\* The feed of the subjects.
Feed == INSTANCE CommittedFeed WITH Event <- About, delivered <- Subjects(published)

\* No two inputs of a block announce the same: it carries an offer once, and one
\* blob that does not parse.  Where this fails the gate releases one event for both.
DistinctInputs(blocks) ==
    \A b \in blocks : \A i, j \in DOMAIN b :
        /\ b[i].kind = b[j].kind
        /\ b[i].kind = "malformed" \/ (b[i].kind = "index" /\ b[i].offers = b[j].offers)
        => i = j

\* The gate delivers the committed events, in order, whole blocks, once, over
\* rollbacks, retries that hand out other ids, lagging reads and restarts.
ImplementsFeed == Feed!Spec

\* The events buffered for a block are released, or gone with the process: the
\* poll finds the block committed however often it is retried.
Buffered(h) == \E i \in DOMAIN pending : pending[i].at = h
EveryEventReleased == \A h \in 1 .. MaxHeight : Buffered(h) ~> ~Buffered(h)

(* What the comments say and the code does not do.                         *)

\* event-bus.ts: events without a hash are kept apart, because one empty
\* subject would collapse unrelated offers into a single release.
Rejections(seq) == {i \in DOMAIN seq : seq[i].type = "offer_rejected"}
RejectionsKeptApart ==
    crashes = 0 => Cardinality(Rejections(log))
                     <= Cardinality(Rejections(published)) + Cardinality(Rejections(pending))

\* api.ts: the listener is guaranteed to see the archive of the event it gets.
ListenerSeesArchive ==
    \A i \in DOMAIN published :
        published[i].type = "offer_consumed" =>
            \E r \in rows : r.id = published[i].id /\ r.state = "consumed"
=============================================================================

------------------------------- MODULE BookSync -------------------------------
(***************************************************************************)
(* The solver's mirror of the node's book: the node's update stream        *)
(* (packages/node/offer-updates-stream.ts), its client                     *)
(* (packages/solver-core/api-client.ts, openOfferUpdatesStream) and        *)
(* packages/solver/src/book-sync.ts over book.ts.                          *)
(*                                                                         *)
(* The node commits a change of the book and releases its event later.  A  *)
(* subscription carries events from `ready` on, numbered; it is cut rather *)
(* than made to skip one.  The solver reads the book page by page while    *)
(* events arrive, in one serial queue, and calls its mirror current only   *)
(* for a subscription that has been live since before the snapshot.        *)
(*                                                                         *)
(* Data.  An offer is a name; offers of one coin die together, each with   *)
(* its event.  Pages hold one offer, newest first, as the cursor has them. *)
(* A health verdict is good, or a fault.  `ready` has number 1, the first  *)
(* event 2.  Prices, legs and diagnostics are left out.                    *)
(*                                                                         *)
(* Left out.  The rewind floor of a subscription, which one node whose     *)
(* height only grows never meets; the byte ceiling beside maxBufferedEvents*)
(***************************************************************************)
EXTENDS Naturals, FiniteSets, Sequences, SequencesExt

CONSTANTS
    Offers, Coin,   \* the coin each offer spends
    MaxBuffered,    \* maxBufferedEvents
    MaxBacklog,     \* MAX_OFFER_UPDATES_BUFFERED_BYTES, in frames
    MaxChanges,     \* BOUND: offers indexed, offers that age or leave, and faults
    MaxFaults       \* BOUND: requests that fail, frames and subscriptions lost

ASSUME BookAssumption ==
    /\ IsFiniteSet(Offers) /\ MaxBuffered \in Nat /\ MaxBacklog \in Nat \ {0} /\ DOMAIN Coin = Offers
    /\ MaxChanges \in Nat /\ MaxFaults \in Nat

VARIABLES
    node,    \* what the node has committed of each offer
    indexed, \* the offers in the order of their indexing
    outbox,  \* committed events the gate has not released
    server,  \* the subscription: its listener is attached, its last number
    wire,    \* frames on their way
    client,  \* the socket exists; the number of its last frame, 0 before `ready`
    link,    \* streamConnected, streamOpenGeneration
    current, \* currentness
    boot,    \* buffering, the buffer, bufferOverflowed, initialAttempt, retryInitialAfterAttempt
    queue,   \* `pending`: the tasks, the first one running
    task,    \* where the running task is, and its locals
    resync,  \* postReadyResyncRunner, and a trigger it has not served
    probe,   \* healthCheckRunner: the generation it asks for, 0 when none
    stopped, book,
    overdue, \* history: offers of the last snapshot whose removal waits in the queue
    faults   \* BOUND

nodeVars == <<node, indexed, outbox>>
wireVars == <<server, wire, client>>
workVars == <<boot, queue, task, resync>>
mirrorVars == <<book, overdue>>
vars == <<nodeVars, wireVars, link, current, workVars, probe, stopped, mirrorVars, faults>>

Changes == Len(indexed) + Cardinality({o \in Offers : node[o] \notin {"none", "live"}})
Fault == faults < MaxFaults /\ faults + Changes < MaxChanges /\ faults' = faults + 1
Fresh == [at |-> "start", gen |-> 0, cursor |-> 0, got |-> {}, batch |-> <<>>]
Task(kind) == [kind |-> kind, ev |-> <<>>, gen |-> 0]
Event(kind, o) == [kind |-> kind, offer |-> o]
EventTask(ev) == [Task("event") EXCEPT !.ev = ev]

Listed(o) == node[o] \in {"live", "ageing"}
Sharing(o) == {p \in Offers : Coin[p] = Coin[o]}

\* Book.remove and removeByNullifier.
Removes(ev) == CASE ev.kind = "consumed" -> Sharing(ev.offer)
                 [] ev.kind = "expired" -> {ev.offer}
                 [] OTHER -> {}

-----------------------------------------------------------------------------
(* The node.                                                               *)

Index(o) ==
    /\ node[o] = "none" /\ \A p \in Sharing(o) : node[p] # "spent"
    /\ node' = [node EXCEPT ![o] = "live"] /\ indexed' = Append(indexed, o)
    /\ outbox' = Append(outbox, Event("indexed", o))
Consume(o) ==
    LET gone == {p \in Sharing(o) : Listed(p)}
    IN  /\ Listed(o) /\ node' = [p \in Offers |-> IF p \in gone THEN "spent" ELSE node[p]]
        /\ outbox' = outbox \o [i \in 1..Cardinality(gone) |-> Event("consumed", SetToSeq(gone)[i])]
        /\ UNCHANGED indexed
\* The margin before expiry begins; at expiry the node drops the offer.
Age(o) == node[o] = "live" /\ node' = [node EXCEPT ![o] = "ageing"] /\ UNCHANGED <<indexed, outbox>>
Expire(o) ==
    /\ node[o] = "ageing" /\ node' = [node EXCEPT ![o] = "expired"]
    /\ outbox' = Append(outbox, Event("expired", o)) /\ UNCHANGED indexed
\* What the node does after the mirror has stopped is left out.
Commit ==
    /\ ~stopped /\ \E o \in Offers : Index(o) \/ Consume(o) \/ Age(o) \/ Expire(o)
    /\ Changes' + faults <= MaxChanges
    /\ UNCHANGED <<wireVars, link, current, workVars, probe, stopped, mirrorVars, faults>>

\* The listener numbers the event, sends it, and ends a subscription that backs up.
listenerSkips(ev) ==
    IF server.attached /\ Len(wire) < MaxBacklog
    THEN /\ wire' = Append(wire, [seq |-> server.seq + 1, ev |-> ev])
         /\ server' = [server EXCEPT !.seq = @ + 1]
    ELSE UNCHANGED <<wire, server>>
listener(ev) ==
    IF server.attached
    THEN /\ wire' = Append(wire, [seq |-> server.seq + 1, ev |-> ev])
         /\ server' = [attached |-> Len(wire) < MaxBacklog, seq |-> server.seq + 1]
    ELSE UNCHANGED <<wire, server>>
StreamStep == UNCHANGED <<node, indexed, link, current, workVars, probe, stopped, mirrorVars>>
Release ==
    /\ ~stopped /\ outbox # <<>> /\ listener(Head(outbox)) /\ outbox' = Tail(outbox)
    /\ StreamStep /\ UNCHANGED <<client, faults>>

\* The subscription ends at the node or on the way: no pong, shutdown, an error.
Drop ==
    /\ server.attached /\ Fault /\ server' = [server EXCEPT !.attached = FALSE]
    /\ StreamStep /\ UNCHANGED <<outbox, wire, client>>
\* A frame is swallowed.
Lose ==
    /\ wire # <<>> /\ Fault /\ wire' = Tail(wire)
    /\ StreamStep /\ UNCHANGED <<outbox, server, client>>

\* A socket after the backoff; the node attaches its listener and says `ready` at once.
Subscribe ==
    /\ ~client.open /\ ~stopped
    /\ client' = [open |-> TRUE, seq |-> 0]
    /\ server' = [attached |-> TRUE, seq |-> 1]
    /\ wire' = <<[seq |-> 1, ev |-> <<>>]>>
    /\ StreamStep /\ UNCHANGED <<outbox, faults>>

-----------------------------------------------------------------------------
(* The serial queue and those who fill it.                                 *)

ensureInitialSync(b, q) ==
    LET starts == b.buffering /\ link'.up /\ ~b.attempt
    IN  /\ boot' = [b EXCEPT !.attempt = @ \/ starts]
        /\ queue' = IF starts THEN Append(q, Task("initial")) ELSE q
\* One snapshot runs and at most one follow-up is due.
schedulePostReadyResync(q) ==
    /\ resync' = [running |-> TRUE, due |-> resync.running]
    /\ queue' = IF resync.running THEN q ELSE Append(q, Task("stage"))

onOpen ==
    /\ link' = [up |-> TRUE, gen |-> link.gen + 1]
    /\ IF boot.buffering
       THEN /\ ensureInitialSync([boot EXCEPT !.retry = @ \/ boot.attempt], queue)
            /\ UNCHANGED <<current, resync>>
       ELSE current' = FALSE /\ schedulePostReadyResync(queue) /\ UNCHANGED boot
onDisconnect ==
    /\ link' = [up |-> FALSE, gen |-> link.gen + 1] /\ current' = FALSE
    /\ boot' = IF boot.buffering THEN [boot EXCEPT !.buffered = <<>>, !.overflow = FALSE] ELSE boot
onEvent(ev) ==
    IF boot.buffering
    THEN /\ boot' = IF boot.overflow THEN boot
                    ELSE IF Len(boot.buffered) >= MaxBuffered
                    THEN [boot EXCEPT !.buffered = <<>>, !.overflow = TRUE]
                    ELSE [boot EXCEPT !.buffered = Append(@, ev)]
         /\ UNCHANGED queue
    ELSE queue' = Append(queue, EventTask(ev)) /\ UNCHANGED boot

\* The subscription is over, whoever ended it.
finish ==
    /\ client' = [open |-> FALSE, seq |-> 0] /\ wire' = <<>>
    /\ server' = [attached |-> FALSE, seq |-> 0]
    /\ IF client.seq > 0 THEN onDisconnect ELSE UNCHANGED <<link, current, boot>>
    /\ UNCHANGED <<queue, resync>>
ClientStep == client.open /\ UNCHANGED <<nodeVars, task, probe, stopped, mirrorVars, faults>>
Closed == ~server.attached /\ ClientStep /\ finish
\* connectTimeoutMs: a subscription that never says `ready` is given up.
ReadyTimeout == client.seq = 0 /\ wire = <<>> /\ ClientStep /\ finish
followsInSequence(frame) == frame.seq = client.seq + 1
Receive ==
    /\ wire # <<>> /\ ClientStep
    /\ LET frame == Head(wire)
       IN  IF ~followsInSequence(frame) THEN finish
           ELSE /\ client' = [client EXCEPT !.seq = frame.seq] /\ wire' = Tail(wire)
                /\ UNCHANGED server
                /\ IF frame.seq = 1 THEN onOpen
                   ELSE onEvent(frame.ev) /\ UNCHANGED <<link, current, resync>>

TimerStep == ~stopped /\ UNCHANGED <<nodeVars, wireVars, link, task, stopped, mirrorVars>>
\* The periodic resync, or a call of resync().
Resync ==
    /\ TimerStep /\ UNCHANGED <<current, probe, faults>>
    /\ IF boot.buffering THEN ensureInitialSync(boot, queue) /\ UNCHANGED resync
       ELSE schedulePostReadyResync(queue) /\ UNCHANGED boot
scheduleHealthCheck ==
    IF boot.buffering /\ link.up
    THEN ensureInitialSync(boot, queue) /\ UNCHANGED <<probe, resync>>
    ELSE /\ probe' = IF link.up /\ ~resync.running /\ probe = 0 THEN link.gen ELSE probe
         /\ UNCHANGED <<boot, queue, resync>>
HealthTick == TimerStep /\ scheduleHealthCheck /\ UNCHANGED <<current, faults>>
HealthExpires == TimerStep /\ current /\ Fault /\ current' = FALSE /\ scheduleHealthCheck
\* A good verdict keeps what is current; otherwise only a snapshot can restore it.
HealthAnswer ==
    /\ probe # 0 /\ TimerStep /\ probe' = 0 /\ UNCHANGED boot
    /\ \/ /\ UNCHANGED <<current, faults>>
          /\ IF link.up /\ link.gen = probe /\ ~current THEN schedulePostReadyResync(queue)
             ELSE UNCHANGED <<queue, resync>>
       \/ /\ Fault /\ UNCHANGED <<queue, resync>>
          /\ current' = (current /\ link.gen # probe)

-----------------------------------------------------------------------------
(* The tasks.  A task runs until it has to wait; `at` says for what.       *)

Rest == Tail(queue)
Running(kind, at) ==
    /\ queue # <<>> /\ Head(queue).kind \in kind /\ task.at = at
    /\ UNCHANGED <<nodeVars, wireVars, link, probe, stopped>>
Goes(at) == task' = [task EXCEPT !.at = at]
Over == task' = Fresh
Still == link.up /\ link.gen = task.gen

EndAttemptKept(b, q) == boot' = b /\ queue' = q
EndAttempt(b, q) ==
    LET ended == [b EXCEPT !.attempt = FALSE, !.retry = FALSE]
    IN  IF b.retry THEN ensureInitialSync(ended, q) ELSE boot' = ended /\ queue' = q
EndRun(q) ==
    /\ resync' = [running |-> resync.due, due |-> FALSE]
    /\ queue' = IF resync.due THEN Append(q, Task("stage")) ELSE q

\* A snapshot attempt throws: blocked, and the queue goes on.
Fails ==
    /\ Over /\ current' = FALSE
    /\ IF Head(queue).kind = "initial" THEN EndAttempt(boot, Rest) /\ UNCHANGED resync
       ELSE EndRun(Rest) /\ UNCHANGED boot

\* applyEvent, and the awaited half of addByHash: the detail of an offer is served
\* whatever its status.
Apply(ev) == book' = book \ Removes(ev) /\ overdue' = overdue \ Removes(ev)
WantsDetail(ev) == ev.kind = "indexed" /\ ev.offer \notin book
UnlessStopped(books) == IF stopped THEN book ELSE books

EventStarts ==
    /\ Running({"event"}, "start") /\ ~stopped
    /\ LET ev == Head(queue).ev
       IN  IF WantsDetail(ev) THEN Goes("detail") /\ UNCHANGED <<queue, mirrorVars>>
           ELSE Apply(ev) /\ Over /\ queue' = Rest
    /\ UNCHANGED <<current, boot, resync, faults>>
EventDetail ==
    /\ Running({"event"}, "detail") /\ Over /\ queue' = Rest
    /\ \/ book' = UnlessStopped(book \cup {Head(queue).ev.offer}) /\ UNCHANGED faults
       \/ Fault /\ UNCHANGED book
    /\ UNCHANGED <<current, boot, resync, overdue>>

\* loadCurrentSnapshot: at startup a verdict comes first.
SnapshotStarts ==
    /\ Running({"initial", "stage"}, "start") /\ ~stopped /\ UNCHANGED <<mirrorVars, faults>>
    /\ IF ~link.up THEN Fails
       ELSE /\ task' = [Fresh EXCEPT !.at = IF Head(queue).kind = "initial" THEN "preflight" ELSE "page",
                                     !.gen = link.gen, !.cursor = Cardinality(Offers) + 1]
            /\ UNCHANGED <<current, boot, queue, resync>>
Preflight ==
    /\ Running({"initial"}, "preflight") /\ ~stopped /\ UNCHANGED mirrorVars
    /\ \/ Still /\ Goes("page") /\ UNCHANGED <<current, boot, queue, resync, faults>>
       \/ ~Still /\ Fails /\ UNCHANGED faults
       \/ Fault /\ Fails
\* fetchWholeBook: the offers listed after the cursor, as the node has them now.
Page ==
    /\ Running({"initial", "stage"}, "page") /\ ~stopped /\ UNCHANGED mirrorVars
    /\ \/ LET older == {i \in 1..Len(indexed) : i < task.cursor /\ Listed(indexed[i])}
          IN  /\ IF older = {} THEN Goes("verdict")
                 ELSE LET i == CHOOSE i \in older : \A j \in older : j <= i
                      IN  task' = [task EXCEPT !.cursor = i, !.got = @ \cup {indexed[i]}]
              /\ UNCHANGED <<current, boot, queue, resync, faults>>
       \/ Fault /\ Fails

\* applySnapshot.
Waiting(events) == UNION {Removes(events[i]) : i \in 1..Len(events)}
Queued == UNION {Removes(queue[i].ev) : i \in {j \in 1..Len(queue) : queue[j].kind = "event"}}
applySnapshot ==
    /\ book' = task.got
    /\ overdue' = task.got \cap (Queued \cup Waiting(boot.buffered))
Cleared == [boot EXCEPT !.buffered = <<>>, !.overflow = FALSE]
Again == task' = [Fresh EXCEPT !.at = "preflight", !.gen = link.gen, !.cursor = Cardinality(Offers) + 1]

StageDoneAtOnce == current' = TRUE /\ EndRun(Rest)
\* A second task makes it current: what arrived during the snapshot comes first.
StageDone ==
    /\ queue' = Append(Rest, [Task("install") EXCEPT !.gen = task.gen])
    /\ UNCHANGED <<current, resync>>
Verdict ==
    /\ Running({"initial", "stage"}, "verdict") /\ ~stopped
    /\ \/ /\ Still /\ applySnapshot /\ UNCHANGED faults
          /\ IF Head(queue).kind = "stage" THEN StageDone /\ Over /\ UNCHANGED boot
             ELSE /\ UNCHANGED <<current, queue, resync>>
                  /\ IF boot.overflow THEN boot' = Cleared /\ Again ELSE Goes("drain") /\ UNCHANGED boot
       \/ ~Still /\ Fails /\ UNCHANGED <<mirrorVars, faults>>
       \/ Fault /\ Fails /\ UNCHANGED mirrorVars

\* installCurrent at the end of a resync; the verdict may have become stale.
Install ==
    /\ Running({"install"}, "start") /\ ~stopped /\ Over
    /\ \/ current' = (link.up /\ link.gen = Head(queue).gen) /\ UNCHANGED faults
       \/ current' = FALSE /\ Fault
    /\ EndRun(Rest) /\ UNCHANGED <<boot, mirrorVars>>

\* The gap of the startup is drained in batches; buffering ends with nothing left.
Drain ==
    /\ Running({"initial"}, "drain") /\ ~stopped /\ UNCHANGED resync
    /\ \/ /\ ~Still /\ EndAttempt(Cleared, Rest) /\ Over
          /\ UNCHANGED <<current, mirrorVars, faults>>
       \/ /\ Still /\ boot.overflow /\ boot' = Cleared /\ Again
          /\ UNCHANGED <<current, queue, mirrorVars, faults>>
       \/ /\ Still /\ ~boot.overflow /\ task.batch # <<>> /\ UNCHANGED <<current, boot, queue, faults>>
          /\ IF WantsDetail(Head(task.batch)) THEN Goes("drainDetail") /\ UNCHANGED mirrorVars
             ELSE task' = [task EXCEPT !.batch = Tail(@)] /\ Apply(Head(task.batch))
       \/ /\ Still /\ ~boot.overflow /\ task.batch = <<>> /\ boot.buffered # <<>>
          /\ task' = [task EXCEPT !.batch = boot.buffered] /\ boot' = [boot EXCEPT !.buffered = <<>>]
          /\ UNCHANGED <<current, queue, mirrorVars, faults>>
       \/ /\ Still /\ ~boot.overflow /\ task.batch = <<>> /\ boot.buffered = <<>>
          /\ UNCHANGED mirrorVars
          /\ \/ current' = TRUE /\ Over /\ EndAttempt([boot EXCEPT !.buffering = FALSE], Rest) /\ UNCHANGED faults
             \/ Fault /\ current' = FALSE /\ Over /\ EndAttempt(boot, Rest)
DrainDetail ==
    /\ Running({"initial"}, "drainDetail") /\ UNCHANGED <<current, resync, overdue>>
    /\ \/ /\ book' = UnlessStopped(book \cup {Head(task.batch).offer})
          /\ task' = [task EXCEPT !.at = "drain", !.batch = Tail(@)]
          /\ UNCHANGED <<boot, queue, faults>>
       \/ Fault /\ Over /\ EndAttempt(boot, Rest) /\ UNCHANGED book
\* A task finds that the synchronisation has stopped.
Abandon ==
    /\ stopped /\ queue # <<>> /\ task.at \notin {"detail", "drainDetail"}
    /\ queue' = Rest /\ Over
    /\ UNCHANGED <<nodeVars, wireVars, link, current, boot, resync, probe, stopped, mirrorVars, faults>>
Work ==
    \/ EventStarts \/ EventDetail \/ SnapshotStarts \/ Preflight \/ Page \/ Verdict
    \/ Install \/ Drain \/ DrainDetail \/ Abandon

-----------------------------------------------------------------------------
\* sweepExpired: offers at or past their margin.
Sweep ==
    /\ ~stopped
    /\ LET over == {o \in book : node[o] \in {"ageing", "expired"}}
       IN  over # {} /\ book' = book \ over /\ overdue' = overdue \ over
    /\ UNCHANGED <<nodeVars, wireVars, link, current, workVars, probe, stopped, faults>>
\* stop(), or the readiness deadline.
Stop ==
    /\ ~stopped /\ stopped' = TRUE /\ current' = FALSE
    /\ boot' = [boot EXCEPT !.buffered = <<>>]
    /\ client' = [open |-> FALSE, seq |-> 0] /\ wire' = <<>>
    /\ server' = [attached |-> FALSE, seq |-> 0]
    /\ UNCHANGED <<nodeVars, link, queue, task, resync, probe, mirrorVars, faults>>

Init ==
    /\ node = [o \in Offers |-> "none"] /\ indexed = <<>> /\ outbox = <<>>
    /\ server = [attached |-> FALSE, seq |-> 0] /\ wire = <<>>
    /\ client = [open |-> FALSE, seq |-> 0]
    /\ link = [up |-> FALSE, gen |-> 0] /\ current = FALSE
    /\ boot = [buffering |-> TRUE, buffered |-> <<>>, overflow |-> FALSE,
               attempt |-> FALSE, retry |-> FALSE]
    /\ queue = <<>> /\ task = Fresh /\ resync = [running |-> FALSE, due |-> FALSE]
    /\ probe = 0 /\ stopped = FALSE /\ book = {} /\ overdue = {} /\ faults = 0

Next ==
    \/ Commit \/ Release \/ Drop \/ Lose \/ Subscribe \/ Closed
    \/ ReadyTimeout \/ Receive \/ Resync \/ HealthTick \/ HealthExpires \/ HealthAnswer
    \/ Work \/ Sweep \/ Stop
Spec == Init /\ [][Next]_vars
\* The gate polls, sockets deliver or close, timers fire, requests end.
Fairness ==
    /\ WF_vars(Release) /\ WF_vars(Subscribe) /\ WF_vars(Closed) /\ WF_vars(Receive)
    /\ WF_vars(ReadyTimeout) /\ WF_vars(Resync) /\ WF_vars(HealthTick) /\ WF_vars(HealthAnswer)
    /\ WF_vars(Work) /\ WF_vars(Sweep)
FairSpec == Spec /\ Fairness

-----------------------------------------------------------------------------
(* Properties.                                                             *)

\* A removal of the offer is on its way to the mirror.
InFlight(o) ==
    \/ \E i \in 1..Len(outbox) : o \in Removes(outbox[i])
    \/ \E i \in 1..Len(wire) : wire[i].ev # <<>> /\ o \in Removes(wire[i].ev)
    \/ o \in Queued
Unbroken == server.attached /\ Len(wire) = server.seq - client.seq
Gone(o) == ~Listed(o) /\ ~InFlight(o)

\* On a subscription without a gap, a current mirror is behind the node by events on
\* their way alone: it quotes no offer whose removal nothing will tell it of, whatever
\* pages, details and events it mixed (startBookSync).
StaleOnlyInFlight == current /\ Unbroken => \A o \in book : ~Gone(o)

\* The same, while no resynchronisation is under way: what an event of an earlier
\* subscription brought back lasts until the snapshot that follows (addByHash).
QuietMirrorTrue == ~resync.running => StaleOnlyInFlight

\* A mirror becomes current only when it has applied every event that came while its
\* snapshot was read (schedulePostReadyResync, ensureInitialSync).
CurrentWhenDrained == [][~current /\ current' => overdue' = {}]_vars

\* Once changes and faults end, the mirror is current and equals the node's book, but
\* for offers in the expiry margin, or the synchronisation was stopped.
MirrorConverges ==
    <>[](stopped \/ (current /\ {o \in book : node[o] # "ageing"} = {o \in Offers : node[o] = "live"}))
=============================================================================

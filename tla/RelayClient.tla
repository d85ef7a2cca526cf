----------------------------- MODULE RelayClient -----------------------------
(***************************************************************************)
(* The solver's relay client (packages/solver/src/relay-client.ts over     *)
(* ladder-source.ts).  It keeps one outbound socket, publishes on it the   *)
(* ladder derived from the book mirror, as a capabilities frame and a      *)
(* levels frame, answers the jobs that arrive on it, and withdraws before  *)
(* it stops.  Whatever it awaits, socket, book and shutdown go on.         *)
(*                                                                         *)
(* A ladder is the set of offers it quotes: those in the book that nothing *)
(* claims and that are outside the expiry margin.  A frame that send() has *)
(* taken is on the wire, in order; its promise settles later.  A socket is *)
(* named by its generation, and the relay forgets what it was sent on one  *)
(* that closes.  A requested push begins with a step of its own, which     *)
(* allows more interleavings than the code.  Diagnostics are left out.     *)
(*                                                                         *)
(* Simplification.  The empty capabilities that a withdrawal may still     *)
(* send after its deadline are not modelled.                               *)
(***************************************************************************)
EXTENDS Naturals, FiniteSets, Sequences

CONSTANTS
    Offers,
    MaxSourceOffers,  \* the ladder's resource limit on the book
    Jobs,             \* the jobs the relay routes here
    MaxChanges,       \* BOUND: changes of the book
    MaxFaults,        \* BOUND: sockets refused or dropped, sends and derivations that fail
    MaxFrames         \* BOUND: verdict frames for one job

ASSUME RelayAssumption ==
    MaxSourceOffers \in Nat /\ MaxChanges \in Nat /\ MaxFaults \in Nat /\ MaxFrames \in Nat

VARIABLES
    book,      \* the mirror: the offers that may be quoted, and isCurrent()
    changes,   \* BOUND
    faults,    \* BOUND
    socket,    \* the attached generation, 0 for none
    ready,     \* its readyState
    opened,    \* generations made so far
    timers,    \* connectTimer, reconnectTimer, pushTimer: those that run
    sent,      \* the last frames handed to the attached socket
    push,      \* the push in flight: what it awaits, and for which generation
    queued,    \* a follow-up is due
    record,    \* lastPush()
    retired,   \* no more pushes, no more reconnects
    withdrawal,\* what runWithdraw awaits
    stopping,  \* what stop() awaits
    job,       \* each routed job: its socket and its handler
    answers,   \* the terminal messages sent
    chain      \* terminalChains: the verdict frames a job's handler still owes

socketVars == <<socket, ready, opened, timers>>
pushVars == <<sent, push, queued, record>>
endVars == <<retired, withdrawal, stopping>>
jobVars == <<job, answers, chain>>
envVars == <<book, changes, faults>>
vars == <<envVars, socketVars, pushVars, endVars, jobVars>>

Nothing == [caps |-> {}, levels |-> {}, any |-> FALSE]
NoPush == [at |-> "idle", on |-> 0, ladder |-> {}, checked |-> FALSE, first |-> "caps", again |-> FALSE]
Loop == [NoPush EXCEPT !.at = "loop"]
Fault == faults < MaxFaults /\ faults' = faults + 1

Quotes == IF book.current /\ Cardinality(book.offers) <= MaxSourceOffers THEN book.offers ELSE {}
isOpen == ready = "open"
\* sendOn: the socket must still be the one that is meant.
CanSendAnywhere(g) == isOpen
CanSend(g) == socket = g /\ isOpen
Hand(frame, ladder) == sent' = [sent EXCEPT ![frame] = ladder, !.any = TRUE]

-----------------------------------------------------------------------------
(* The socket.                                                             *)

ScheduleReconnectUnlessConnecting == IF retired \/ ready = "connecting" THEN {} ELSE {"reconnect"}
ScheduleReconnect == IF retired THEN {} ELSE {"reconnect"}
handleClosed ==
    /\ socket' = 0 /\ ready' = "none" /\ sent' = Nothing
    /\ timers' = (timers \ {"connect", "push"}) \cup ScheduleReconnect
closeOnlyReports(g) == UNCHANGED <<socket, ready, sent, timers>>
closeSocketGeneration(g) ==
    IF socket = g THEN handleClosed ELSE UNCHANGED <<socket, ready, sent, timers>>

connect ==
    /\ "reconnect" \in timers /\ ~retired /\ socket = 0
    /\ socket' = opened + 1 /\ opened' = opened + 1 /\ ready' = "connecting"
    /\ timers' = (timers \ {"reconnect"}) \cup {"connect"}
    /\ UNCHANGED <<envVars, pushVars, endVars, jobVars>>

\* The connection is refused, times out, fails, or the peer leaves.
Dropped ==
    /\ socket # 0 /\ Fault /\ handleClosed
    /\ UNCHANGED <<book, changes, opened, push, queued, record, endVars, jobVars>>
\* readyState leaves OPEN before the close event is delivered.
Closing ==
    /\ isOpen /\ Fault /\ ready' = "closing"
    /\ UNCHANGED <<book, changes, socket, opened, timers, pushVars, endVars, jobVars>>
OnClose ==
    /\ ready = "closing" /\ handleClosed
    /\ UNCHANGED <<envVars, opened, push, queued, record, endVars, jobVars>>

-----------------------------------------------------------------------------
(* Publication.                                                            *)

\* withdrawFailedPush: an explicit empty pair replaces what could not be published.
Withhold(g, first, again) ==
    IF socket # g \/ retired
    THEN push' = Loop /\ queued' = (queued \/ again) /\ UNCHANGED <<sent, record, socket, ready, timers>>
    ELSE /\ record' = [ladder |-> {}, withdrawn |-> FALSE]
         /\ IF isOpen
            THEN /\ Hand(first, {})
                 /\ push' = [at |-> "withhold", on |-> g, ladder |-> {}, checked |-> FALSE,
                             first |-> first, again |-> again]
                 /\ UNCHANGED <<queued, socket, ready, timers>>
            ELSE closeSocketGeneration(g) /\ push' = Loop /\ queued' = (queued \/ again)

\* The loop of requestPush, up to the first await of runPush: one push in flight, one
\* follow-up behind it.  A ladder that the derivation withheld is not checked again.
Begin(p) == record' = [ladder |-> p.ladder, withdrawn |-> FALSE] /\ Hand("caps", p.ladder) /\ push' = p
Derivable == book.current /\ Cardinality(book.offers) <= MaxSourceOffers
runPush ==
    /\ push.at = "loop" /\ queued' = FALSE
    /\ IF queued /\ ~retired /\ isOpen
       THEN \/ /\ Begin([NoPush EXCEPT !.at = "caps", !.on = socket, !.ladder = Quotes, !.checked = Derivable])
               /\ UNCHANGED <<book, faults>>
            \/ \* the derivation throws, or an offer enters the expiry margin meanwhile
               /\ Fault
               /\ \E gone \in SUBSET Quotes :
                     /\ Cardinality(gone) <= 1 /\ book' = [book EXCEPT !.offers = @ \ gone]
                     /\ Begin([NoPush EXCEPT !.at = "withhold", !.on = socket, !.again = gone # {}])
       ELSE push' = NoPush /\ UNCHANGED <<sent, record, book, faults>>
    /\ UNCHANGED <<changes, socketVars, endVars, jobVars>>
Request == queued' = TRUE /\ push' = (IF push.at = "idle" THEN Loop ELSE push)

Resumes(at) == push.at = at /\ UNCHANGED <<book, changes, opened, endVars, jobVars>>
Return == push' = Loop /\ UNCHANGED <<queued, record>>

\* The capabilities are out; the book, the claims and the margin are looked at again.
AbandonedIfClosed == socket # push.on
Abandoned == socket # push.on \/ retired
Unchecked == TRUE
StillTrue == push.checked => book.current /\ book.offers = push.ladder
CapsSent ==
    /\ Resumes("caps") /\ UNCHANGED faults
    /\ \/ Abandoned /\ Return /\ UNCHANGED <<sent, socket, ready, timers>>
       \/ ~Abandoned /\ ~StillTrue /\ Withhold(push.on, "levels", TRUE)
       \/ /\ ~Abandoned /\ StillTrue
          /\ IF CanSend(push.on)
             THEN /\ Hand("levels", push.ladder) /\ push' = [push EXCEPT !.at = "levels"]
                  /\ UNCHANGED <<queued, record, socket, ready, timers>>
             ELSE closeSocketGeneration(push.on) /\ Return
LevelsSent == Resumes("levels") /\ Return /\ UNCHANGED <<faults, sent, socket, ready, timers>>

Other == [caps |-> "levels", levels |-> "caps"]
WithheldOne ==
    /\ Resumes("withhold") /\ UNCHANGED <<faults, record>>
    /\ IF CanSend(push.on)
       THEN /\ Hand(Other[push.first], {}) /\ push' = [push EXCEPT !.at = "withheld"]
            /\ UNCHANGED <<queued, socket, ready, timers>>
       ELSE closeSocketGeneration(push.on) /\ push' = Loop /\ queued' = (queued \/ push.again)
WithheldBoth ==
    /\ Resumes("withheld") /\ push' = Loop /\ queued' = (queued \/ push.again)
    /\ UNCHANGED <<faults, sent, record, socket, ready, timers>>

\* A send is rejected, or a withdrawal misses its deadline: the generation goes.
PushFails ==
    /\ push.at \in {"caps", "levels", "withhold", "withheld"} /\ Resumes(push.at) /\ Fault
    /\ closeSocketGeneration(push.on) /\ push' = Loop
    /\ queued' = (queued \/ push.again) /\ UNCHANGED record
Pushing == runPush \/ CapsSent \/ LevelsSent \/ WithheldOne \/ WithheldBoth

OnOpen ==
    /\ ready = "connecting" /\ ready' = "open"
    /\ Request /\ timers' = (timers \ {"connect"}) \cup (IF retired THEN {} ELSE {"push"})
    /\ UNCHANGED <<envVars, socket, opened, sent, record, endVars, jobVars>>
Tick ==
    /\ "push" \in timers /\ ~retired
    /\ IF isOpen THEN Request /\ UNCHANGED timers
       ELSE timers' = timers \ {"push"} /\ UNCHANGED <<queued, push>>
    /\ UNCHANGED <<envVars, socket, ready, opened, sent, record, endVars, jobVars>>

-----------------------------------------------------------------------------
(* Withdrawal and stop.                                                    *)

Withdrawn(levels) == record' = [ladder |-> levels, withdrawn |-> TRUE]
\* runWithdraw, once no push is in flight or the wait for it is over.
SendWithdrawal ==
    IF isOpen
    THEN Hand("levels", {}) /\ withdrawal' = [at |-> "levels", on |-> socket] /\ UNCHANGED record
    ELSE Withdrawn({}) /\ withdrawal' = [at |-> "done", on |-> 0] /\ UNCHANGED sent

withdraw ==
    /\ withdrawal.at = "none" /\ retired' = TRUE /\ timers' = timers \ {"push", "reconnect"}
    /\ IF push.at = "idle" THEN SendWithdrawal
       ELSE withdrawal' = [at |-> "wait", on |-> 0] /\ UNCHANGED <<sent, record>>
\* By itself, or as the first thing stop() does.
Withdraw ==
    /\ withdraw /\ stopping' \in {stopping, IF stopping = "none" THEN "withdraw" ELSE stopping}
    /\ UNCHANGED <<envVars, socket, ready, opened, push, queued, jobVars>>
StopAfterWithdraw ==
    /\ stopping = "none" /\ withdrawal.at # "none" /\ stopping' = "withdraw"
    /\ UNCHANGED <<envVars, socketVars, pushVars, retired, withdrawal, jobVars>>

WithdrawalStep == UNCHANGED <<envVars, socketVars, push, queued, retired, stopping, jobVars>>
\* The push has ended, or `bounded` has.
PushAwaited == withdrawal.at = "wait" /\ SendWithdrawal /\ WithdrawalStep
WithdrawLevelsSent ==
    /\ withdrawal.at = "levels" /\ WithdrawalStep /\ UNCHANGED record
    /\ IF CanSend(withdrawal.on)
       THEN Hand("caps", {}) /\ withdrawal' = [withdrawal EXCEPT !.at = "caps"]
       ELSE withdrawal' = [withdrawal EXCEPT !.at = "failed"] /\ UNCHANGED sent
WithdrawCapsSent ==
    /\ withdrawal.at = "caps" /\ WithdrawalStep /\ UNCHANGED sent
    /\ Withdrawn({}) /\ withdrawal' = [withdrawal EXCEPT !.at = "done"]
WithdrawFails ==
    /\ withdrawal.at \in {"levels", "caps"} /\ Fault
    /\ withdrawal' = [withdrawal EXCEPT !.at = "failed"]
    /\ UNCHANGED <<book, changes, socketVars, pushVars, retired, stopping, jobVars>>

\* stop() detaches the socket, then idle() drains the verdict handlers.
Detach ==
    /\ stopping = "withdraw" /\ withdrawal.at \in {"done", "failed"}
    /\ stopping' = "drain" /\ socket' = 0 /\ ready' = "none" /\ timers' = {} /\ sent' = Nothing
    /\ UNCHANGED <<envVars, opened, push, queued, record, retired, withdrawal, jobVars>>
DrainedOrNot == TRUE
Drained == \A j \in Jobs : chain[j] = <<>>
Stopped ==
    /\ stopping = "drain" /\ Drained /\ stopping' = "stopped"
    /\ UNCHANGED <<envVars, socketVars, pushVars, retired, withdrawal, jobVars>>
Ending == PushAwaited \/ WithdrawLevelsSent \/ WithdrawCapsSent \/ Detach \/ Stopped

-----------------------------------------------------------------------------
(* Jobs and verdicts.                                                      *)

\* A frame is taken while its socket is attached.
onSwap(j) ==
    /\ isOpen /\ job[j].at = "none" /\ job' = [job EXCEPT ![j] = [at |-> "running", on |-> socket]]
    /\ UNCHANGED <<envVars, socketVars, pushVars, endVars, answers, chain>>
\* Its handler has a terminal message, or it rejects and a job-error stands in for it.
\* It goes to the socket that delivered the job, or nowhere.
Answer(j) ==
    /\ job[j].at = "running" /\ job' = [job EXCEPT ![j].at = "over"]
    /\ answers' = (IF CanSend(job[j].on) THEN answers \cup {[job |-> j, on |-> socket]} ELSE answers)
    /\ UNCHANGED <<envVars, socketVars, pushVars, endVars, chain>>
\* dispatchTerminal: the handlers of one job run one after another, whichever socket
\* their frames came on.
Frame(j, verdict) ==
    /\ isOpen /\ Len(chain[j]) < MaxFrames /\ chain' = [chain EXCEPT ![j] = Append(@, verdict)]
    /\ UNCHANGED <<envVars, socketVars, pushVars, endVars, job, answers>>
Handled(j) ==
    /\ chain[j] # <<>> /\ chain' = [chain EXCEPT ![j] = Tail(@)]
    /\ UNCHANGED <<envVars, socketVars, pushVars, endVars, job, answers>>

\* The mirror changes, is resynchronised, or an offer is claimed, released or ages.
BookChanges ==
    /\ changes < MaxChanges /\ changes' = changes + 1
    /\ \/ book' = [book EXCEPT !.current = ~@]
       \/ \E o \in Offers : book' = [book EXCEPT !.offers = IF o \in @ THEN @ \ {o} ELSE @ \cup {o}]
    /\ UNCHANGED <<faults, socketVars, pushVars, endVars, jobVars>>

Init ==
    /\ book = [offers |-> {}, current |-> FALSE] /\ changes = 0 /\ faults = 0
    /\ socket = 1 /\ ready = "connecting" /\ opened = 1 /\ timers = {"connect"}
    /\ sent = Nothing /\ push = NoPush /\ queued = FALSE
    /\ record = [ladder |-> {}, withdrawn |-> FALSE]
    /\ retired = FALSE /\ withdrawal = [at |-> "none", on |-> 0] /\ stopping = "none"
    /\ job = [j \in Jobs |-> [at |-> "none", on |-> 0]] /\ answers = {}
    /\ chain = [j \in Jobs |-> <<>>]

Next ==
    \/ connect \/ OnOpen \/ Dropped \/ Closing \/ OnClose
    \/ Pushing \/ PushFails \/ Tick
    \/ Withdraw \/ StopAfterWithdraw \/ WithdrawFails \/ Ending \/ BookChanges
    \/ \E j \in Jobs : onSwap(j) \/ Answer(j) \/ Handled(j)
                       \/ \E v \in {"tx-submitted", "submit-failed"} : Frame(j, v)
Spec == Init /\ [][Next]_vars

\* Sockets and sends end in some way; timers fire; handlers end.
Fairness ==
    /\ WF_vars(connect) /\ WF_vars(OnOpen) /\ WF_vars(OnClose)
    /\ WF_vars(Pushing) /\ WF_vars(Tick) /\ WF_vars(Ending)
    /\ \A j \in Jobs : WF_vars(Answer(j)) /\ WF_vars(Handled(j))
FairSpec == Spec /\ Fairness

-----------------------------------------------------------------------------
(* Properties.                                                             *)

\* When no push is in flight, what the relay holds is one derivation, capabilities
\* and levels alike, and lastPush() tells which: pushes never interleave, and one
\* that stops half-way costs its socket.
PushesWhole ==
    push.at = "idle" /\ isOpen /\ ~retired /\ sent.any =>
        sent.caps = record.ladder /\ sent.levels = record.ladder

\* A client that says it is withdrawn quotes nothing, whatever push it overtook.
WithdrawnIsTrue == record.withdrawn => retired /\ (isOpen => sent.levels = {})

\* Levels are handed over only while the book they were derived from is still the
\* book: it may have changed while the capabilities were being sent.
QuotesFresh ==
    [][sent'.levels # sent.levels => sent'.levels \subseteq Quotes]_vars

\* A job is answered once at most, on the socket that delivered it.
OneAnswer ==
    /\ \A a \in answers : a.on = job[a.job].on
    /\ \A a, b \in answers : a.job = b.job => a = b

\* After stop() nothing runs: no socket, no timer, no verdict handler.
StopIsFinal ==
    stopping = "stopped" => socket = 0 /\ timers = {} /\ ~sent.any /\ \A j \in Jobs : chain[j] = <<>>

\* However the book and the socket change, the relay comes to quote the book as it is,
\* or the client retires.
QuotesConverge == []<>(retired \/ (isOpen /\ sent.any /\ sent.levels = Quotes))
=============================================================================

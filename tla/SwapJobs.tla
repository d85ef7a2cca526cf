------------------------------ MODULE SwapJobs ------------------------------
(***************************************************************************)
(* The swap-job executor (packages/solver/src/swap-job-executor.ts): it    *)
(* admits the relay's jobs, has the wallet build a half for each, hands it *)
(* to the relay, and settles or reverts it on what relay and ledger say.   *)
(* Everything else it does happens between two awaits.  What it must not   *)
(* forget is in the operation journal, one row per wallet operation of a   *)
(* job; the process may stop between any two writes.                       *)
(*                                                                         *)
(* A handler changes memory at once and queues its journal writes in       *)
(* `plan`, which are then written one at a time; until they are, only a    *)
(* restart can come between (the code between two awaits is synchronous).  *)
(*                                                                         *)
(* Simplifications.  A job id is dispatched once (isSeen and the           *)
(* tombstones refuse the others) and has one generation.  Prices, merge    *)
(* order and balances decide only whether a step is refused, which is a    *)
(* choice here.  Artifacts restore as they were stored, rows are not       *)
(* pruned, MIRROR_ rows of an older release do not occur, and the process  *)
(* ends by a restart, never by stop().                                     *)
(***************************************************************************)
EXTENDS Naturals, FiniteSets, SequencesExt

CONSTANTS
    Jobs, Offers,
    Route,        \* the maker offers that serve a job
    Receives,     \* the jobs whose half has a receipt leg (RESIDUAL_BUILD)
    MaxParallel,  \* maxParallelSwaps
    Rivals,       \* the offers that somebody else may take
    Faults,       \* which of AllFaults happen
    MaxCrashes    \* BOUND: restarts of the process

AllFaults == {"timeout", "wallet", "revert", "read", "socket"}

ASSUME RouteAssumption ==
    /\ Route \in [Jobs -> SUBSET Offers] /\ Receives \subseteq Jobs
    /\ \A j \in Jobs : Route[j] # {}
    /\ Rivals \subseteq Offers /\ Offers \cap Jobs = {}
ASSUME JobBoundAssumption ==
    Faults \subseteq AllFaults /\ MaxParallel \in Nat \ {0} /\ MaxCrashes \in Nat

VARIABLES
    \* durable: the journal
    db,       \* the rows of each job
    plan,     \* the writes still to be made in the present synchronous section
    \* the memory of the process
    mem,      \* building, awaiting, confirmations, quarantined: the record of each job
    stock,    \* the claims held in Stock
    build,    \* executeSwap and buildHalf of each job
    chain,    \* terminalChains: the operation running for each job
    phase,    \* reconcileStartup, or the loop of runSweep
    todo,     \* the records that loop took when it began
    busy,     \* the job it waits for
    target,   \* retryQuarantine: the recovery revert in flight
    \* the world
    wallet,   \* the contributions of each job that the wallet holds
    tries,    \* ghost: revert calls made, per job and artifact
    relay,    \* the job as its relay has it
    taken,    \* who consumed each offer, on the ledger
    visible,  \* the offers whose consumption the backend serves
    crashes   \* BOUND: restarts

memory == <<mem, stock, build, chain, phase, todo, busy, target>>
sweeper == <<phase, todo, busy, target>>
world == <<wallet, tries, relay, taken, visible, crashes>>
vars == <<db, plan, memory, world>>

Nobody == "nobody"
Free == "free"
ASSUME NameAssumption == Nobody \notin Jobs /\ Free \notin Jobs \cup Offers
-----------------------------------------------------------------------------
(* Journal rows.                                                           *)

None == "none"
Contributions == {"residual", "dust"}
Finals == {"residualFinal", "dustFinal"}
WalletOps == Contributions \cup Finals
FinalOf == [residual |-> "residualFinal", dust |-> "dustFinal"]
SourceOf == [residualFinal |-> "residual", dustFinal |-> "dust"]

\* A recovery revert is keyed by a digest of the rows whose artifact it reverts.
recoveryRevertKey ==
    [recResidual |-> {"residual"}, recDust |-> {"dust"}, recResidualFinal |-> {"residualFinal"},
     recDustFinal |-> {"dustFinal"}, recFinals |-> Finals, recRevert |-> {"revert"}]
Recoveries == DOMAIN recoveryRevertKey
KeyOf(sources) == CHOOSE k \in Recoveries : recoveryRevertKey[k] = sources

Reverts == Recoveries \cup {"revert"}
Ops == {"settlement"} \cup WalletOps \cup Reverts
ChildOrder == <<"residual", "residualFinal", "dust", "dustFinal", "revert", "recResidual", "recDust",
                "recResidualFinal", "recDustFinal", "recFinals", "recRevert">>
ListOrder == <<"settlement">> \o ChildOrder
terminalOrder == ChildOrder \o <<"settlement">>

\* The artifacts that a revert row, or a wallet operation's own row, reverts, and
\* the contributions it so gives back.
Artifacts == WalletOps \cup {"revert"}
Reverted(op) == IF op \in Recoveries THEN recoveryRevertKey[op] ELSE {op} \cap Artifacts
Part(op) ==
    UNION {CASE a \in {"residual", "residualFinal"} -> {"residual"}
             [] a \in {"dust", "dustFinal"} -> {"dust"}
             [] OTHER -> Contributions : a \in Reverted(op)}

terminal == {"SETTLED", "REVERTED", "FAILED"}
Journal == INSTANCE OperationJournal WITH
    Keys <- Ops, Fields <- {"relayState"}, Values <- {"done", "error"}, Null <- None,
    Amounts <- {1}, MaxPerJob <- 1, MaxPerWindow <- 1, Window <- 1, Margin <- 1, MaxTtl <- 1,
    MaxRows <- 1, MaxTime <- 1, now <- 1, state <- 1, retention <- 1, receipt <- 1,
    dust <- 1, amount <- 1, spentAt <- 1, spends <- 1

NoRows == [row |-> [op \in Ops |-> None], art |-> {}, receipt |-> None, why |-> None, fee |-> None]
Live(d, op) == d.row[op] \notin terminal \cup {None}

\* One write: a row's state, the relay's receipt, or the DUST reservation.
Set(op, to) == [op |-> op, to |-> to, why |-> None]
Because(op, to, why) == [op |-> op, to |-> to, why |-> why]
Fee(to) == Set("fee", to)
Receipt(to) == Set("receipt", to)
Put(d, w) ==
    CASE w.op = "receipt" -> [d EXCEPT !.receipt = w.to]
      [] w.op = "fee" -> [d EXCEPT !.fee = IF w.to = "RESERVED" \/ @ = "RESERVED" THEN w.to ELSE @]
      [] OTHER -> [d EXCEPT !.row[w.op] = w.to,
                            !.art = IF w.to = "APPLIED" \/ w.op \in Reverts THEN @ \cup {w.op} ELSE @,
                            !.why = IF w.op = "settlement" /\ w.why # None THEN w.why ELSE @]
After(d, ws) == FoldLeft(Put, d, ws)

\* The writes of a loop over the live rows of a job.
ForRows(d, order, W(_)) ==
    FlattenSeq([i \in DOMAIN order |-> IF Live(d, order[i]) THEN W(order[i]) ELSE <<>>])

quarantineGroup(d, why) ==
    LET W(op) == IF d.row[op] = "QUARANTINED" THEN <<>> ELSE <<Because(op, "QUARANTINED", why)>>
    IN  ForRows(d, ListOrder, W)
RevertRowDirect(d, op) == <<Set(op, "REVERTED")>>
RevertRow(d, op) ==
    IF d.row[op] \in {"QUARANTINED", "REVERTING"} THEN <<Set(op, "REVERTED")>>
    ELSE <<Set(op, "REVERTING"), Set(op, "REVERTED")>>
markRevertedJobFirst(d) == ForRows(d, ListOrder, LAMBDA op : RevertRow(d, op)) \o <<Fee("RELEASED")>>
markReverted(d) == ForRows(d, terminalOrder, LAMBDA op : RevertRow(d, op)) \o <<Fee("RELEASED")>>
Failable(d) == \A op \in Ops : Live(d, op) => d.row[op] = "PREPARED"
markFailed(d) == ForRows(d, terminalOrder, LAMBDA op : <<Set(op, "FAILED")>>)
markAwaitingRelaySpends(d) == ForRows(d, ListOrder, LAMBDA op : <<Set(op, "AWAITING_RELAY")>>) \o <<Fee("SPENT")>>
markAwaitingRelay(d) ==
    LET W(op) == (IF d.row[op] = "PREPARED" THEN <<Set(op, "APPLIED")>> ELSE <<>>)
                    \o <<Set(op, "AWAITING_RELAY")>>
    IN  ForRows(d, ListOrder, W)
Submittable(d) ==
    \A op \in Ops : Live(d, op) =>
        d.row[op] \in {"AWAITING_RELAY", "QUARANTINED", "RELAY_SUBMITTED", "CONFIRMING"}
markRelaySubmitted(d) ==
    LET W(op) == CASE d.row[op] = "AWAITING_RELAY" -> <<Set(op, "RELAY_SUBMITTED")>>
                   [] d.row[op] = "QUARANTINED" -> <<Set(op, "CONFIRMING")>>
                   [] OTHER -> <<>>
    IN  <<Receipt("done")>> \o ForRows(d, terminalOrder, W)
markSettled(d) ==
    LET W(op) == (IF d.row[op] = "AWAITING_RELAY" THEN <<Set(op, "RELAY_SUBMITTED")>> ELSE <<>>)
                    \o <<Set(op, "SETTLED")>>
    IN  ForRows(d, terminalOrder, W) \o <<Fee("SPENT")>>

-----------------------------------------------------------------------------
(* Records in memory.                                                      *)

NoRecord == [place |-> "none", local |-> FALSE, evid |-> FALSE, reverting |-> FALSE,
             refused |-> FALSE, tx |-> FALSE, timedOut |-> FALSE]
In(p) == [NoRecord EXCEPT !.place = p]
NoBuild == [pc |-> "none", own |-> {}, call |-> FALSE, failed |-> {}]
Idle == [at |-> "idle", rec |-> NoRecord]
NoTodo == [j \in Jobs |-> NoRecord]

Quiet == plan = <<>>
Ready == Quiet /\ phase # "boot"
Plan(j, ws) == plan' = [i \in DOMAIN ws |-> [job |-> j, w |-> ws[i]]]
Settlement(j) == db[j].row["settlement"]
owns(j) == Live(db[j], "settlement")
Occupied == {j \in Jobs : mem[j].place \in {"building", "quarantined"}}
unavailableOfferHashes == UNION {Route[j] : j \in {k \in Jobs : mem[k].place # "none"}}
\* Stock.release is keyed by what is claimed, not by who claimed it.
Release(j) == stock' = stock \ {Route[j]}
Answered(j) == [relay EXCEPT ![j] = IF @ = "open" THEN "error" ELSE @]
\* The sweep goes on when the operation it waits for has ended.
Finish(j) == busy' = (IF busy = j THEN Nobody ELSE busy) /\ UNCHANGED <<phase, todo, target>>
Forget(j) == mem' = [mem EXCEPT ![j] = NoRecord] /\ Release(j)

-----------------------------------------------------------------------------
(* executeSwap and buildHalf.                                              *)

\* resolveSwapJobRoute, as far as other jobs and restarts decide it.
AdmissibleUnclaimed(j) == Cardinality(Occupied) < MaxParallel /\ Route[j] \cap visible = {}
Admissible(j) ==
    /\ Cardinality(Occupied) < MaxParallel
    /\ Route[j] \cap (unavailableOfferHashes \cup (UNION stock) \cup visible) = {}

OnSwap(j) ==
    /\ Quiet /\ relay[j] = "none"
    /\ IF phase # "boot" /\ Admissible(j)
       THEN /\ relay' = [relay EXCEPT ![j] = "open"]
            /\ stock' = stock \cup {Route[j]}
            /\ mem' = [mem EXCEPT ![j] = In("building")]
            /\ build' = [build EXCEPT ![j].pc = "read"]
            /\ Plan(j, <<Set("settlement", "PREPARED")>>)
       ELSE /\ relay' = [relay EXCEPT ![j] = "error"]
            /\ UNCHANGED <<stock, mem, build, plan>>
    /\ UNCHANGED <<db, chain, sweeper, wallet, tries, taken, visible, crashes>>

\* A build that failed before buildHalf had anything to undo.
FailBuild(j) ==
    /\ build' = [build EXCEPT ![j] = NoBuild]
    /\ relay' = Answered(j)
    /\ IF mem[j].timedOut
       THEN /\ mem' = [mem EXCEPT ![j] = In("quarantined")]
            /\ Plan(j, quarantineGroup(db[j], "local")) /\ UNCHANGED stock
       ELSE Forget(j) /\ Plan(j, markFailed(db[j]))

\* readAndReconstruct, then getAddress; each is awaited and may refuse.
ReadFiles(j) ==
    /\ Quiet /\ build[j].pc = "read"
    /\ \/ build' = [build EXCEPT ![j].pc = "addr"] /\ UNCHANGED <<relay, stock, mem, plan>>
       \/ FailBuild(j)
    /\ UNCHANGED <<db, chain, sweeper, wallet, tries, taken, visible, crashes>>
GetAddress(j) ==
    /\ Quiet /\ build[j].pc = "addr"
    /\ \/ LET op == IF j \in Receives THEN "residual" ELSE "dust"
          IN  /\ build' = [build EXCEPT ![j].pc = op]
              /\ Plan(j, <<Set(op, "PREPARED")>>) /\ UNCHANGED <<relay, stock, mem>>
       \/ "wallet" \in Faults /\ FailBuild(j)
    /\ UNCHANGED <<db, chain, sweeper, wallet, tries, taken, visible, crashes>>

\* A later proof step: initSwap, finalizeTransaction, balanceTransactions.
NextOp(op) == CASE op = "residual" -> "residualFinal"
                [] op = "residualFinal" -> "dust"
                [] OTHER -> "dustFinal"
\* transferPendingToFinalized: one form of a contribution is owned at a time.
Own(j, op) ==
    (build[j].own \cup {op}) \ (IF op \in Finals THEN {SourceOf[op]} ELSE {})
ToCleanup(j, own) == build' = [build EXCEPT ![j].pc = "cleanup", ![j].own = own]

\* revertWallet begins: the durable revert row first, then the call.  A confirmed
\* record, or one whose rows have become terminal, is left alone.
RevertRows(d) ==
    CASE d.row["revert"] = None -> <<Set("revert", "PREPARED"), Set("revert", "REVERTING")>>
      [] d.row["revert"] = "QUARANTINED" -> <<Set("revert", "REVERTING")>>
      [] d.row["revert"] = "REVERTING" -> <<>>

\* The half is complete.  In time, it goes to the relay; late, it is reverted.
Complete(j, d) ==
    IF ~mem[j].timedOut
    THEN /\ Plan(j, <<Set("dustFinal", "APPLIED")>> \o markAwaitingRelay(d))
         /\ mem' = [mem EXCEPT ![j] = [In("awaiting") EXCEPT !.tx = TRUE]]
         /\ build' = [build EXCEPT ![j] = [NoBuild EXCEPT !.pc = "answer"]]
         /\ UNCHANGED chain
    ELSE LET rec == [In("awaiting") EXCEPT !.tx = TRUE, !.refused = TRUE, !.reverting = TRUE]
         IN  /\ Plan(j, <<Set("dustFinal", "APPLIED")>> \o RevertRows(d))
             /\ mem' = [mem EXCEPT ![j] = rec]
             /\ chain' = [chain EXCEPT ![j] = [at |-> "revert", rec |-> rec]]
             /\ build' = [build EXCEPT ![j] = NoBuild]

\* A wallet call returns.  A row quarantined meanwhile refuses its artifact.
WalletReturns(j) ==
    LET op == build[j].pc
        applied == After(db[j], <<Set(op, "APPLIED")>>)
    IN  /\ Quiet /\ op \in WalletOps
        /\ wallet' = [wallet EXCEPT ![j] = @ \cup (Contributions \cap {op})]
        /\ \/ /\ db[j].row[op] = "PREPARED" /\ op = "dustFinal"
              /\ Complete(j, applied)
           \/ /\ db[j].row[op] = "PREPARED" /\ op # "dustFinal"
              /\ build' = [build EXCEPT ![j].pc = NextOp(op), ![j].own = Own(j, op)]
              /\ Plan(j, <<Set(op, "APPLIED")>>
                           \o (IF op = "dust" THEN <<Fee("RESERVED")>> ELSE <<>>)
                           \o <<Set(NextOp(op), "PREPARED")>>)
              /\ UNCHANGED <<mem, chain>>
           \/ /\ db[j].row[op] = "PREPARED" /\ "wallet" \in Faults
              /\ ToCleanup(j, Own(j, op))
              /\ Plan(j, <<Set(op, "APPLIED")>>) /\ UNCHANGED <<mem, chain>>
           \/ /\ db[j].row[op] # "PREPARED"
              /\ ToCleanup(j, build[j].own) /\ UNCHANGED <<mem, chain, plan>>
        /\ UNCHANGED <<db, stock, sweeper, tries, relay, taken, visible, crashes>>
WalletThrows(j) ==
    LET op == build[j].pc
    IN  /\ Quiet /\ op \in WalletOps /\ "wallet" \in Faults
        /\ wallet' \in {wallet, [wallet EXCEPT ![j] = @ \cup (Contributions \cap {op})]}
        /\ ToCleanup(j, build[j].own)
        /\ UNCHANGED <<db, plan, mem, stock, chain, sweeper, tries, relay, taken, visible, crashes>>

\* awaitWithDeadline: the call goes on, the claim and the slot stay.
Timeout(j) ==
    /\ Quiet /\ "timeout" \in Faults
    /\ build[j].pc \in WalletOps \cup {"addr", "cleanup"} /\ ~mem[j].timedOut
    /\ mem' = [mem EXCEPT ![j].timedOut = TRUE]
    /\ Plan(j, quarantineGroup(db[j], "local"))
    /\ relay' = Answered(j)
    /\ UNCHANGED <<db, stock, build, chain, sweeper, wallet, tries, taken, visible, crashes>>

\* The catch block of buildHalf: finalized contributions, then raw ones.
CleanupOrder == <<"residualFinal", "dustFinal", "residual", "dust">>
First(own) == CleanupOrder[CHOOSE i \in 1..4 : CleanupOrder[i] \in own /\ \A k \in 1..i-1 : CleanupOrder[k] \notin own]
Kind(op) == IF op \in Finals THEN "final" ELSE "raw"
CleanupFails(j, op) ==
    build' = [build EXCEPT ![j].own = @ \ {op}, ![j].failed = @ \cup {Kind(op)}, ![j].call = FALSE]
\* Two calls are as good as three.
Tried(j, op) ==
    [a \in Artifacts |-> tries[j][a] + (IF a \in Reverted(op) /\ tries[j][a] < 2 THEN 1 ELSE 0)]
Try(j, op) == tries' = [tries EXCEPT ![j] = Tried(j, op)]

CleanupCall(j) ==
    /\ Quiet /\ build[j].pc = "cleanup" /\ build[j].own # {} /\ ~build[j].call
    /\ LET op == First(build[j].own)
       IN  IF db[j].row[op] = "APPLIED"
           THEN build' = [build EXCEPT ![j].call = TRUE] /\ Plan(j, <<Set(op, "REVERTING")>>)
           ELSE CleanupFails(j, op) /\ UNCHANGED plan
    /\ UNCHANGED <<db, mem, stock, chain, sweeper, world>>
CleanupReturns(j) ==
    /\ Quiet /\ build[j].call
    /\ LET op == First(build[j].own)
           source == IF op \in Finals /\ Live(db[j], SourceOf[op])
                     THEN RevertRow(db[j], SourceOf[op]) ELSE <<>>
       IN  /\ Try(j, op)
           /\ \/ /\ db[j].row[op] = "REVERTING"
                 /\ build' = [build EXCEPT ![j].own = @ \ {op}, ![j].call = FALSE]
                 /\ wallet' = [wallet EXCEPT ![j] = @ \ Part(op)]
                 /\ Plan(j, <<Set(op, "REVERTED")>> \o source)
              \/ /\ db[j].row[op] = "REVERTING" /\ "revert" \in Faults
                 /\ CleanupFails(j, op)
                 /\ wallet' \in {wallet, [wallet EXCEPT ![j] = @ \ Part(op)]}
                 /\ Plan(j, <<Because(op, "QUARANTINED", "local")>>)
              \/ /\ db[j].row[op] # "REVERTING"
                 /\ CleanupFails(j, op)
                 /\ wallet' = [wallet EXCEPT ![j] = @ \ Part(op)] /\ UNCHANGED plan
    /\ UNCHANGED <<db, mem, stock, chain, sweeper, relay, taken, visible, crashes>>

\* The build has failed.  It is free of mutations, or its residue is retained.
UnresolvedIgnored(d) == {}
Unresolved(d) == {op \in Ops \ {"settlement"} : Live(d, op)}
CleanupDone(j) ==
    /\ Quiet /\ build[j].pc = "cleanup" /\ build[j].own = {}
    /\ IF Unresolved(db[j]) = {}
       THEN /\ Forget(j)
            /\ Plan(j, <<Fee("RELEASED")>> \o (IF db[j].row["settlement"] = "QUARANTINED"
                                               THEN markReverted(db[j]) ELSE markFailed(db[j])))
       ELSE /\ mem' = [mem EXCEPT ![j] = [In("quarantined") EXCEPT
                                            !.local = build[j].failed # {}, !.tx = "final" \in build[j].failed]]
            /\ Plan(j, quarantineGroup(db[j], "local")) /\ UNCHANGED stock
    /\ build' = [build EXCEPT ![j] = NoBuild]
    /\ relay' = Answered(j)
    /\ UNCHANGED <<db, chain, sweeper, wallet, tries, taken, visible, crashes>>

\* The promise resolves and the half is sent, if the socket still takes it.
Answer(j) ==
    /\ Quiet /\ build[j].pc = "answer"
    /\ build' = [build EXCEPT ![j] = NoBuild]
    /\ \/ relay' = [relay EXCEPT ![j] = IF @ = "open" THEN "half" ELSE @]
       \/ "socket" \in Faults /\ UNCHANGED relay
    /\ UNCHANGED <<db, plan, mem, stock, chain, sweeper, wallet, tries, taken, visible, crashes>>

-----------------------------------------------------------------------------
(* terminalChains: one operation at a time for a job.  `pre` is what the   *)
(* caller writes first.  Each decides plan, mem and chain, and no more.    *)

RunChain(j, at, r) == chain' = [chain EXCEPT ![j] = [at |-> at, rec |-> r]]
EndChain(j) == chain' = [chain EXCEPT ![j] = Idle]

quarantineEvidence(j, r, pre) ==
    /\ Plan(j, pre \o quarantineGroup(After(db[j], pre), "relay"))
    /\ mem' = [mem EXCEPT ![j] = [In("quarantined") EXCEPT
                 !.evid = TRUE, !.tx = r.tx \/ (mem[j].place = "quarantined" /\ mem[j].tx)]]
    /\ EndChain(j)

\* reconcileRelayDone and reconcileRelayFailure, up to their evidence read.
reconcileRelayDone(j, r, pre) ==
    LET d == After(db[j], pre)
    IN  /\ Submittable(d)
        /\ Plan(j, pre \o markRelaySubmitted(d))
        /\ mem' = [mem EXCEPT ![j] = In("confirming")]
        /\ RunChain(j, "done", r)
reconcileRelayFailure(j, r, pre) ==
    /\ Plan(j, pre \o <<Receipt("error")>>)
    /\ RunChain(j, "fail", r)
    /\ mem' = IF pre = <<>> THEN mem ELSE [mem EXCEPT ![j] = r]

reconcileFromHttpPending(j, r, pre) ==
    \/ relay[j] = "done" /\ reconcileRelayDone(j, r, pre)
    \/ relay[j] # "done" /\ reconcileRelayFailure(j, r, pre)
reconcileFromHttp(j, r, pre) ==
    \/ relay[j] = "done" /\ reconcileRelayDone(j, r, pre)
    \/ relay[j] \in {"failed", "error"} /\ reconcileRelayFailure(j, r, pre)
    \/ (relay[j] \in {"open", "half"} \/ "read" \in Faults) /\ quarantineEvidence(j, r, pre)
reconcileReceiptOnly(j, r, pre) ==
    CASE db[j].receipt = "done" -> reconcileRelayDone(j, r, pre)
      [] db[j].receipt = "error" -> reconcileRelayFailure(j, r, pre)
      [] OTHER -> quarantineEvidence(j, r, pre)
reconcileDurableEvidence(j, r, pre) ==
    CASE db[j].receipt = "done" -> reconcileRelayDone(j, r, pre)
      [] db[j].receipt = "error" -> reconcileRelayFailure(j, r, pre)
      [] OTHER -> reconcileFromHttp(j, r, pre)

\* readUniformEvidence: `taken` names the transaction that consumed an offer.
Uniform(j) ==
    Route[j] \subseteq visible /\ Cardinality({taken[o] : o \in Route[j]}) = 1
NoEvidence(j) == Route[j] \cap visible = {}

finishSettled(j) == Plan(j, markSettled(db[j])) /\ Forget(j) /\ EndChain(j)
EvidenceDone(j) ==
    /\ Quiet /\ chain[j].at = "done"
    /\ \/ Uniform(j) /\ finishSettled(j)
       \/ /\ ~Uniform(j) \/ "read" \in Faults
          /\ quarantineEvidence(j, chain[j].rec, <<>>) /\ UNCHANGED stock
    /\ Finish(j) /\ UNCHANGED <<db, build, world>>

\* The backend knows of no consumption: the record is put back under `awaiting`,
\* and reverted if its job is not terminal.
RevertOrKeep(j, r) ==
    LET rec == [r EXCEPT !.place = "awaiting", !.refused = FALSE, !.reverting = owns(j)]
    IN  /\ mem' = [mem EXCEPT ![j] = rec]
        /\ IF owns(j) THEN Plan(j, RevertRows(db[j])) /\ RunChain(j, "revert", rec)
                      ELSE EndChain(j) /\ UNCHANGED plan
EvidenceFail(j) ==
    /\ Quiet /\ chain[j].at = "fail"
    /\ \/ NoEvidence(j) /\ chain[j].rec.tx /\ RevertOrKeep(j, chain[j].rec)
       \/ /\ ~NoEvidence(j) \/ ~chain[j].rec.tx \/ "read" \in Faults
          /\ quarantineEvidence(j, chain[j].rec, <<>>)
    /\ (IF chain'[j].at = "idle" THEN Finish(j) ELSE UNCHANGED sweeper)
    /\ UNCHANGED <<db, build, stock, world>>

\* revertWallet ends.  When it fails the record is copied, its flag still set.
RevertReturns(j) ==
    /\ Quiet /\ chain[j].at = "revert"
    /\ Try(j, "revert")
    /\ \/ LET done == <<Set("revert", "REVERTED")>>
          IN  /\ Plan(j, done \o markReverted(After(db[j], done))) /\ Forget(j)
              /\ wallet' = [wallet EXCEPT ![j] = {}]
       \/ /\ "revert" \in Faults
          /\ wallet' \in {wallet, [wallet EXCEPT ![j] = {}]}
          /\ Plan(j, quarantineGroup(db[j], "local"))
          /\ mem' = [mem EXCEPT ![j] = [chain[j].rec EXCEPT
                       !.place = "quarantined", !.local = TRUE, !.evid = FALSE]]
          /\ UNCHANGED stock
    /\ EndChain(j) /\ Finish(j)
    /\ UNCHANGED <<db, build, relay, taken, visible, crashes>>

\* The relay's frames.
Answerable(j) ==
    /\ Quiet /\ chain[j].at = "idle"
    /\ mem[j].place \in {"awaiting", "confirming", "quarantined"}
    /\ ~mem[j].refused /\ ~mem[j].local /\ ~mem[j].reverting
onTxSubmitted(j) ==
    /\ Answerable(j) /\ relay[j] = "done" /\ reconcileRelayDone(j, mem[j], <<>>)
    /\ UNCHANGED <<db, build, stock, sweeper, world>>
onSubmitFailed(j) ==
    /\ Answerable(j) /\ relay[j] = "failed" /\ reconcileRelayFailure(j, mem[j], <<>>)
    /\ UNCHANGED <<db, build, stock, sweeper, world>>

-----------------------------------------------------------------------------
(* retryQuarantine: a local recovery, never under terminalChains.          *)

primary(d) == d.row["revert"] # None
FinalRows(d) == IF primary(d) THEN {"revert"} ELSE {op \in Finals \cap d.art : Live(d, op)}
RawRows(d) ==
    IF primary(d) THEN {}
    ELSE {op \in Contributions \cap d.art : Live(d, op) /\ FinalOf[op] \notin FinalRows(d)}
Artifactless(d) == \E op \in WalletOps : d.row[op] = "PREPARED"

\* restoreRecoveryTargets: a target per raw artifact, one for the merged final ones.
Targets(d) == {{op} : op \in RawRows(d)} \cup ({FinalRows(d)} \ {{}})
RecoveryOf(t) == KeyOf(t)
Expected(d) == IF primary(d) THEN "PREPARED" ELSE "APPLIED"
TargetKeys(d) == {RecoveryOf(t) : t \in Targets(d)}
AmbiguityIgnored(d) == FALSE
Ambiguity(d) ==
    \/ \E k \in Recoveries :
          d.row[k] # None /\ (k \notin TargetKeys(d) \/ d.row[k] \notin {"PREPARED", "REVERTED"})
    \/ \E t \in Targets(d) :
          d.row[RecoveryOf(t)] # "REVERTED" /\ \E op \in t : d.row[op] # Expected(d)
Remaining(d) == {t \in Targets(d) : d.row[RecoveryOf(t)] # "REVERTED"}
\* The raw ones come before the final ones, the residual before the DUST.
Turn(t) == IF t = {"residual"} THEN 1 ELSE IF t = {"dust"} THEN 2 ELSE 3
NextTarget(d) == CHOOSE t \in Remaining(d) : \A u \in Remaining(d) : Turn(t) <= Turn(u)

\* The next target, after the writes `pre`; when there is none the job is reverted.
ContinueRecovery(j, pre) ==
    LET d == After(db[j], pre)
    IN  IF Remaining(d) = {} \/ d.row["revert"] = "REVERTED"
        THEN /\ Plan(j, pre \o markReverted(d)) /\ Forget(j)
             /\ target' = None /\ busy' = Nobody
        ELSE LET k == RecoveryOf(NextTarget(d))
             IN  /\ Plan(j, pre \o (IF d.row[k] = None THEN <<Set(k, "PREPARED")>> ELSE <<>>)
                             \o <<Set(k, "REVERTING")>>)
                 /\ target' = k /\ busy' = j
                 /\ mem' = [mem EXCEPT ![j].reverting = TRUE] /\ UNCHANGED stock
retainRecoveryAmbiguity(j) ==
    /\ Plan(j, quarantineGroup(db[j], "local"))
    /\ mem' = [mem EXCEPT ![j].local = FALSE, ![j].evid = FALSE, ![j].reverting = FALSE]
    /\ target' = None /\ busy' = Nobody /\ UNCHANGED stock
retryQuarantine(j) ==
    IF /\ db[j].row["revert"] # "REVERTED"
       /\ Ambiguity(db[j]) \/ Artifactless(db[j]) \/ Targets(db[j]) = {}
    THEN retainRecoveryAmbiguity(j)
    ELSE ContinueRecovery(j, <<>>)

RecoveryReturns ==
    /\ Quiet /\ target # None
    /\ LET j == busy
       IN  /\ Try(j, target)
           /\ \/ /\ ContinueRecovery(j, <<Set(target, "REVERTED")>>)
                 /\ wallet' = [wallet EXCEPT ![j] = @ \ Part(target)]
              \/ /\ "revert" \in Faults /\ retainRecoveryAmbiguity(j)
                 /\ wallet' \in {wallet, [wallet EXCEPT ![j] = @ \ Part(target)]}
    /\ UNCHANGED <<db, build, chain, phase, todo, relay, taken, visible, crashes>>

-----------------------------------------------------------------------------
(* runSweep.  It goes over the records each map held when it came to it.   *)

Waiting == {j \in Jobs : todo[j].place # "none"}
Held(place) == [j \in Jobs |-> IF mem[j].place = place THEN mem[j] ELSE NoRecord]
Enter(place) == phase' = place /\ todo' = Held(place)

sweep ==
    /\ Ready /\ Waiting = {} /\ busy = Nobody
    /\ \/ phase = "idle" /\ Enter("quarantined")
       \/ phase = "quarantined" /\ Enter("awaiting")
       \/ phase = "awaiting" /\ Enter("confirming")
       \/ phase = "confirming" /\ phase' = "idle" /\ UNCHANGED todo
    /\ UNCHANGED <<db, plan, mem, stock, build, chain, busy, target, world>>

Take(j) ==
    /\ Quiet /\ busy = Nobody /\ j \in Waiting
    /\ todo' = [todo EXCEPT ![j] = NoRecord]
    /\ UNCHANGED <<db, build, phase, relay, taken, visible, crashes>>
Retryable(j) == todo[j].local /\ mem[j].local /\ ~mem[j].reverting /\ owns(j)
SweepSkips(j) ==
    /\ Take(j)
    /\ \/ phase = "quarantined" /\ ~todo[j].evid /\ ~Retryable(j)
       \/ phase = "awaiting" /\ todo[j].refused
    /\ UNCHANGED <<plan, mem, stock, chain, busy, target, tries, wallet>>
SweepRetries(j) ==
    /\ Take(j) /\ Retryable(j) /\ phase \in {"quarantined", "boot"}
    /\ retryQuarantine(j)
    /\ UNCHANGED <<chain, tries, wallet>>
SweepReconciles(j) ==
    /\ Take(j) /\ chain[j].at = "idle"
    /\ \/ phase = "quarantined" /\ todo[j].evid /\ reconcileDurableEvidence(j, todo[j], <<>>)
       \/ phase = "awaiting" /\ ~todo[j].refused /\ reconcileFromHttp(j, todo[j], <<>>)
       \/ phase = "confirming" /\ reconcileDurableEvidence(j, todo[j], <<>>)
    /\ busy' = (IF chain'[j].at = "idle" THEN Nobody ELSE j)
    /\ UNCHANGED <<stock, target, tries, wallet>>

-----------------------------------------------------------------------------
(* A restart, and reconcileStartup.                                        *)

\* The wallet call of a job that the restart leaves behind.
CallMade(j) == plan = <<>> \/ Head(plan).job # j
RevertCall(j) ==
    IF ~CallMade(j) THEN None
    ELSE IF build[j].call THEN First(build[j].own)
    ELSE IF chain[j].at = "revert" THEN "revert"
    ELSE IF busy = j THEN target ELSE None
BuildCall(j) == IF CallMade(j) THEN {build[j].pc} \cap Contributions ELSE {}

Crash ==
    /\ crashes < MaxCrashes /\ crashes' = crashes + 1
    /\ \E done \in SUBSET Jobs :
          wallet' = [j \in Jobs |-> IF j \in done THEN (wallet[j] \ Part(RevertCall(j))) \cup BuildCall(j)
                                                ELSE wallet[j]]
    /\ tries' = [j \in Jobs |-> Tried(j, RevertCall(j))]
    /\ mem' = [j \in Jobs |-> NoRecord] /\ stock' = {} /\ plan' = <<>>
    /\ build' = [j \in Jobs |-> NoBuild] /\ chain' = [j \in Jobs |-> Idle]
    /\ phase' = "boot" /\ busy' = Nobody /\ target' = None
    /\ todo' = [j \in Jobs |-> IF Settlement(j) = None THEN NoRecord ELSE In("boot")]
    /\ UNCHANGED <<db, relay, taken, visible>>

Boot(j) ==
    /\ Quiet /\ phase = "boot" /\ busy = Nobody /\ todo[j].place = "boot"
    /\ UNCHANGED <<db, build, phase, target, tries, wallet, relay, taken, visible, crashes>>
BootNext(j) == todo' = [todo EXCEPT ![j] = NoRecord] /\ busy' = Nobody
Claimed(j) == stock' = stock \cup {Route[j]}
relayAmbiguous(d) ==
    \/ d.row["settlement"] \in {"AWAITING_RELAY", "RELAY_SUBMITTED", "CONFIRMING"}
    \/ d.row["settlement"] = "QUARANTINED" /\ (d.receipt # None \/ d.why = "relay")
ProvedRevertStarted(d) == d.row["revert"] \in {"REVERTING", "REVERTED"}
ProvedRevert(d) ==
    d.row["revert"] = "REVERTED" /\ d.row["settlement"] \notin {"RELAY_SUBMITTED", "CONFIRMING"}
Restored(d) == FinalRows(d) \cup RawRows(d) # {}

\* A terminal job, one whose revert is proved, or one that touched no wallet.
BootCompletes(j) ==
    /\ Boot(j) /\ BootNext(j)
    /\ LET d == db[j]
       IN  \/ /\ Settlement(j) \in terminal
              /\ Plan(j, CASE Settlement(j) = "REVERTED" -> markReverted(d)
                           [] Settlement(j) = "SETTLED" -> markSettled(d)
                           [] OTHER -> <<>>)
           \/ owns(j) /\ ProvedRevert(d) /\ Plan(j, markReverted(d))
           \/ /\ owns(j) /\ ~ProvedRevert(d) /\ ~Artifactless(d) /\ ~Restored(d) /\ Failable(d)
              /\ Plan(j, markFailed(d))
    /\ UNCHANGED <<mem, stock, chain>>
\* Nothing can be proved: the job is kept, with its claim.
BootKeeps(j) ==
    /\ Boot(j) /\ BootNext(j)
    /\ LET d == db[j]
       IN  /\ owns(j) /\ ~ProvedRevert(d)
           /\ Artifactless(d) \/ (~Restored(d) /\ ~Failable(d))
           /\ Plan(j, quarantineGroup(d, "local"))
           /\ mem' = [mem EXCEPT ![j] = [In("quarantined") EXCEPT
                        !.evid = ~Artifactless(d) /\ relayAmbiguous(d)]]
    /\ Claimed(j) /\ UNCHANGED chain
\* Its artifacts are restored: relay and ledger decide, or they are reverted.
Restorable(j) == owns(j) /\ ~ProvedRevert(db[j]) /\ ~Artifactless(db[j]) /\ Restored(db[j])
BootReconciles(j) ==
    /\ Boot(j) /\ Restorable(j) /\ relayAmbiguous(db[j])
    /\ LET rec == [In("quarantined") EXCEPT !.evid = TRUE, !.tx = FinalRows(db[j]) # {}]
       IN  reconcileDurableEvidence(j, rec, quarantineGroup(db[j], "relay"))
    /\ todo' = [todo EXCEPT ![j] = NoRecord]
    /\ busy' = (IF chain'[j].at = "idle" THEN Nobody ELSE j)
    /\ Claimed(j)
BootReverts(j) ==
    /\ Boot(j) /\ Restorable(j) /\ ~relayAmbiguous(db[j])
    /\ LET rec == [In("quarantined") EXCEPT !.local = TRUE, !.tx = FinalRows(db[j]) # {}]
       IN  /\ mem' = [mem EXCEPT ![j] = rec]
           /\ todo' = [todo EXCEPT ![j] = rec]      \* retryQuarantine follows
    /\ Claimed(j) /\ UNCHANGED <<plan, chain, busy>>
BootEnds ==
    /\ Quiet /\ phase = "boot" /\ Waiting = {} /\ busy = Nobody
    /\ phase' = "idle"
    /\ UNCHANGED <<db, plan, mem, stock, build, chain, todo, busy, target, world>>

-----------------------------------------------------------------------------
(* The journal write, and the world.                                       *)

Write ==
    /\ plan # <<>> /\ plan' = Tail(plan)
    /\ db' = [db EXCEPT ![Head(plan).job] = Put(@, Head(plan).w)]
    /\ UNCHANGED <<memory, world>>

RelayGivesUp(j) ==
    /\ relay[j] \in {"open", "half"}
    /\ relay' = [relay EXCEPT ![j] = IF @ = "open" THEN "error" ELSE "failed"]
    /\ UNCHANGED <<db, plan, memory, wallet, tries, taken, visible, crashes>>
RelaySubmits(j) ==
    /\ relay[j] = "half" /\ \A o \in Route[j] : taken[o] = Free
    /\ relay' = [relay EXCEPT ![j] = "done"]
    /\ taken' = [o \in Offers |-> IF o \in Route[j] THEN j ELSE taken[o]]
    /\ wallet' = [wallet EXCEPT ![j] = {}]
    /\ UNCHANGED <<db, plan, memory, tries, visible, crashes>>
\* Each offer in a transaction of its own.
RivalTakes(o) ==
    /\ o \in Rivals /\ taken[o] = Free /\ taken' = [taken EXCEPT ![o] = o]
    /\ UNCHANGED <<db, plan, memory, wallet, tries, relay, visible, crashes>>
IndexConsumption(o) ==
    /\ taken[o] # Free /\ o \notin visible /\ visible' = visible \cup {o}
    /\ UNCHANGED <<db, plan, memory, wallet, tries, relay, taken, crashes>>

Init ==
    /\ db = [j \in Jobs |-> NoRows] /\ plan = <<>>
    /\ mem = [j \in Jobs |-> NoRecord] /\ stock = {}
    /\ build = [j \in Jobs |-> NoBuild] /\ chain = [j \in Jobs |-> Idle]
    /\ phase = "idle" /\ todo = NoTodo /\ busy = Nobody /\ target = None
    /\ wallet = [j \in Jobs |-> {}]
    /\ tries = [j \in Jobs |-> [a \in Artifacts |-> 0]]
    /\ relay = [j \in Jobs |-> "none"]
    /\ taken = [o \in Offers |-> Free] /\ visible = {} /\ crashes = 0

Building(j) == ReadFiles(j) \/ GetAddress(j) \/ WalletReturns(j) \/ WalletThrows(j)
                 \/ CleanupCall(j) \/ CleanupReturns(j) \/ CleanupDone(j) \/ Answer(j)
Reconciling(j) == EvidenceDone(j) \/ EvidenceFail(j) \/ RevertReturns(j)
Sweeping == sweep \/ RecoveryReturns \/ \E j \in Jobs :
                SweepSkips(j) \/ SweepRetries(j) \/ SweepReconciles(j)
Booting == BootEnds \/ \E j \in Jobs :
                BootCompletes(j) \/ BootKeeps(j) \/ BootReconciles(j) \/ BootReverts(j)
Next ==
    \/ Write \/ Crash \/ Sweeping \/ Booting
    \/ \E j \in Jobs : \/ OnSwap(j) \/ Building(j) \/ Timeout(j) \/ Reconciling(j)
                       \/ onTxSubmitted(j) \/ onSubmitFailed(j) \/ RelayGivesUp(j) \/ RelaySubmits(j)
    \/ \E o \in Offers : RivalTakes(o) \/ IndexConsumption(o)
Spec == Init /\ [][Next]_vars

-----------------------------------------------------------------------------
(* Properties.                                                             *)

landed(j) == relay[j] = "done"
InRevert(j) == build[j].call \/ chain[j].at = "revert" \/ (busy = j /\ target # None)

\* Every write the executor makes is one the journal accepts: no handler acts on
\* a row that another has moved on, for such a write would throw half-way through
\* a group of rows (markReverted, markSettled, markRelaySubmitted).
JournalAccepts ==
    [][\A j \in Jobs, op \in Ops :
          db'[j].row[op] # db[j].row[op] =>
              IF db[j].row[op] = None THEN db'[j].row[op] = "PREPARED"
              ELSE db'[j].row[op] \in Journal!allowedTransitions[db[j].row[op]]]_vars

\* What the wallet has given to a job that did not land stays accounted for: its
\* offers are claimed until the wallet has it back, whatever failed meanwhile.
NothingLeaks ==
    \A j \in Jobs : wallet[j] # {} /\ phase # "boot" => Route[j] \in stock

\* A half that the relay may still submit, or has submitted, is never reverted
\* (reconcileRelayFailure wants an explicit failure and no consumption).
RevertOnlyWhenDead == \A j \in Jobs : InRevert(j) => relay[j] \notin {"half", "done"}

\* Two jobs that are not over never hold the same maker offer, in the journal that
\* the start-up rebuilds its claims from.
ExclusiveClaims ==
    \A j, k \in Jobs : j # k /\ owns(j) /\ owns(k) => Route[j] \cap Route[k] = {}

\* The settlement row becomes terminal after the rows of its wallet operations,
\* at every point where the process may stop (terminalOrder).
TerminalLast ==
    \A j \in Jobs : Settlement(j) \in terminal => \A op \in Ops : ~Live(db[j], op)

\* A verdict in the journal is true: SETTLED of a half that landed, REVERTED and
\* FAILED of one that did not and whose contributions the wallet has back.
VerdictTrue ==
    \A j \in Jobs : /\ Settlement(j) = "SETTLED" => landed(j)
                   /\ Settlement(j) \in {"REVERTED", "FAILED"} => ~landed(j) /\ wallet[j] = {}

\* The DUST of a half that landed stays counted, and is spent only by one.
FeeKept ==
    \A j \in Jobs : /\ landed(j) => db[j].fee \in {"RESERVED", "SPENT"}
                   /\ db[j].fee = "SPENT" => landed(j)

\* A wallet call whose outcome a restart hid is not made again by local recovery:
\* only an explicit relay failure (revertWallet) tries a second time.
RevertedOnce ==
    \A j \in Jobs, a \in Artifacts : tries[j][a] > 1 => a = "revert" /\ db[j].receipt = "error"

\* Under fair handlers, relay and indexer, a job ends, or it is held because the
\* outcome of a wallet call is unknown.
Decided(j) == ~owns(j) \/ (mem[j].place = "quarantined" /\ ~mem[j].evid)
EveryJobDecided == \A j \in Jobs : owns(j) ~> Decided(j)

Fairness ==
    /\ WF_vars(Write) /\ WF_vars(Sweeping) /\ WF_vars(Booting)
    /\ \A j \in Jobs : /\ WF_vars(Building(j)) /\ WF_vars(Reconciling(j))
                      /\ WF_vars(RelayGivesUp(j) \/ RelaySubmits(j))
    /\ \A o \in Offers : WF_vars(IndexConsumption(o))
FairSpec == Spec /\ Fairness

\* A wallet call that may have been made is never made again (the tests say so of
\* the primary revert).
RevertNeverReplayed == \A j \in Jobs, a \in Artifacts : tries[j][a] <= 1

\* A job that is over does not go back to awaiting the relay, where its maker offers
\* would stay unavailable: delivering its end twice changes nothing.
TerminalForgotten ==
    \A j \in Jobs : Settlement(j) \in terminal /\ Quiet /\ phase # "boot" => mem[j].place # "awaiting"

\* A job that is over holds no DUST.
FeeReturned ==
    \A j \in Jobs : Settlement(j) \in {"REVERTED", "FAILED"} /\ Quiet /\ phase # "boot"
                      => db[j].fee # "RESERVED"
=============================================================================

-------------------------- MODULE OperationJournal --------------------------
(***************************************************************************)
(* The solver's operation journal (packages/solver/src/operation-journal): *)
(* a SQLite table of wallet operations, their receipts and their DUST      *)
(* reservations, which outlives the process.  Its callers, job handlers,   *)
(* relay callbacks, the sweep and the start-up reconciliation, each act on *)
(* the copy of a row they read earlier, so any call may come at any time   *)
(* with any expected state.  Every call is one SQLite transaction.  A call *)
(* that throws changes nothing and is not a step.                          *)
(*                                                                         *)
(* Simplifications.  An operation's job and generation are part of its     *)
(* key.  Artifacts, error text, retry counts and the byte ceiling are left *)
(* out, and one prune removes every candidate row (the code: 1000).  The   *)
(* clock, Date.now, does not go back.                                      *)
(***************************************************************************)
EXTENDS Integers, FiniteSets, FiniteSetsExt

CONSTANTS
    Keys,          \* operation keys
    Fields,        \* the fields of a receipt
    Values,        \* what an observer may report in one of them
    Null,          \* a field not reported, a NULL column
    Amounts,       \* DUST amounts that may be asked for
    MaxPerJob, MaxPerWindow, Window,   \* the DUST admission limits
    Margin,        \* reconciliationMarginMs
    MaxTtl,        \* BOUND: how far ahead an operation's TTL may lie
    MaxRows,       \* the row ceiling
    MaxTime        \* BOUND: the clock

ASSUME JournalAssumption ==
    /\ Null \notin Values /\ Amounts \subseteq Nat \ {0}
    /\ {MaxPerJob, MaxPerWindow, Window, Margin, MaxTtl, MaxRows} \subseteq Nat \ {0}
    /\ MaxTime \in Nat

States == {"PREPARED", "APPLIED", "AWAITING_RELAY", "RELAY_SUBMITTED", "CONFIRMING",
           "REVERTING", "SETTLED", "REVERTED", "FAILED", "QUARANTINED"}
Terminal == {"SETTLED", "REVERTED", "FAILED"}
NoRow == "none"
DustStates == {"RESERVED", "SPENT", "RELEASED"}
Receipt == [Fields -> Values \cup {Null}]

VARIABLES
    now,       \* the clock
    state,     \* journal_operations: lifecycle_state of each row
    retention, \* retention_until_ms
    receipt,   \* journal_receipts
    dust,      \* journal_dust_reservations: state of each row
    amount,    \* amount_text
    spentAt,   \* spent_at_ms
    spends     \* ghost: every DUST spend recorded, [amount, at]

opVars == <<state, retention, receipt>>
dustVars == <<dust, amount, spentAt, spends>>
vars == <<now, opVars, dustVars>>

NoReceipt == [f \in Fields |-> Null]
Rows == {k \in Keys : state[k] # NoRow}
DustRows == {k \in Keys : dust[k] # NoRow}

-----------------------------------------------------------------------------
(* The rules the calls check.                                              *)

allowedTransitions ==
    [s \in States |->
        CASE s = "PREPARED"        -> {"APPLIED", "FAILED", "REVERTING", "REVERTED", "QUARANTINED"}
          [] s = "APPLIED"         -> {"AWAITING_RELAY", "CONFIRMING", "REVERTING", "QUARANTINED"}
          [] s = "AWAITING_RELAY"  -> {"RELAY_SUBMITTED", "REVERTING", "QUARANTINED"}
          [] s = "RELAY_SUBMITTED" -> {"CONFIRMING", "SETTLED", "QUARANTINED"}
          [] s = "CONFIRMING"      -> {"SETTLED", "REVERTING", "QUARANTINED"}
          [] s = "REVERTING"       -> {"REVERTED", "QUARANTINED"}
          [] s = "QUARANTINED"     -> {"CONFIRMING", "REVERTING", "SETTLED", "REVERTED"}
          [] OTHER                 -> {}]

\* The compare-and-set of transition().
CasUnchecked(k, expected, next) == next \in allowedTransitions[expected]
Cas(k, expected, next) == state[k] = expected /\ next \in allowedTransitions[expected]

\* #writeReceipt: a conflict aborts the call, then COALESCE takes what is new.
Merge(old, new) == [f \in Fields |-> IF new[f] # Null THEN new[f] ELSE old[f]]
CompatibleAny(old, new) == TRUE
Compatible(old, new) == \A f \in Fields : new[f] = Null \/ old[f] = Null \/ new[f] = old[f]

\* #assertWithinCeilings, for a call that adds one row of either table.
RoomForOperation == Cardinality(Rows) < MaxRows
RoomForRow == Cardinality(Rows) + Cardinality(DustRows) < MaxRows

\* #dustUsage: reservations of any age, and spends of one rolling window.
Cutoff == IF now > Window THEN now - Window ELSE 0
Counts(k) == dust[k] = "RESERVED" \/ (dust[k] = "SPENT" /\ spentAt[k] > Cutoff)
Usage == MapThenSumSet(LAMBDA k : amount[k], {k \in Keys : Counts(k)})

\* reserveDust wants the job's durable settlement row.
JournaledUnchecked(k) == TRUE
Journaled(k) == state[k] # NoRow

\* Which rows pruneTerminal and pruneDust delete.
PrunableCascading(k) == state[k] \in Terminal /\ retention[k] <= now
Prunable(k) == state[k] \in Terminal /\ retention[k] <= now /\ dust[k] = NoRow
DustPrunableSettled(k) == dust[k] \in {"RELEASED", "SPENT"}
DustPrunable(k) == dust[k] = "RELEASED" \/ (dust[k] = "SPENT" /\ spentAt[k] <= Cutoff)

-----------------------------------------------------------------------------
(* The calls.                                                              *)

createPrepared(k, ttl, r) ==
    /\ state[k] = NoRow /\ RoomForRow
    /\ state' = [state EXCEPT ![k] = "PREPARED"]
    /\ retention' = [retention EXCEPT ![k] = ttl + Margin]
    /\ receipt' = [receipt EXCEPT ![k] = r]
    /\ UNCHANGED <<now, dustVars>>

transition(k, expected, next, r) ==
    /\ state[k] # NoRow /\ Cas(k, expected, next)
    /\ Compatible(receipt[k], r)
    /\ state' = [state EXCEPT ![k] = next]
    /\ receipt' = [receipt EXCEPT ![k] = Merge(receipt[k], r)]
    /\ UNCHANGED <<now, retention, dustVars>>

recordReceipt(k, r) ==
    /\ state[k] # NoRow /\ Compatible(receipt[k], r)
    /\ receipt' = [receipt EXCEPT ![k] = Merge(receipt[k], r)]
    /\ UNCHANGED <<now, state, retention, dustVars>>

\* A replay of the same reservation changes nothing; the others are refused.
reserveDust(k, a) ==
    /\ dust[k] = NoRow
    /\ a <= MaxPerJob /\ Usage + a <= MaxPerWindow
    /\ Journaled(k) /\ RoomForRow
    /\ dust' = [dust EXCEPT ![k] = "RESERVED"]
    /\ amount' = [amount EXCEPT ![k] = a]
    /\ UNCHANGED <<now, opVars, spentAt, spends>>

markDustSpent(k) ==
    /\ dust[k] = "RESERVED"
    /\ dust' = [dust EXCEPT ![k] = "SPENT"]
    /\ spentAt' = [spentAt EXCEPT ![k] = now]
    /\ spends' = spends \cup {[key |-> k, amount |-> amount[k], at |-> now]}
    /\ UNCHANGED <<now, opVars, amount>>

releaseDust(k) ==
    /\ dust[k] = "RESERVED"
    /\ dust' = [dust EXCEPT ![k] = "RELEASED"]
    /\ UNCHANGED <<now, opVars, amount, spentAt, spends>>

\* The rows go with their receipts, and their DUST row with them: both tables
\* reference the operation ON DELETE CASCADE.
Without(table, gone, null) == [k \in Keys |-> IF k \in gone THEN null ELSE table[k]]
DropDust(gone) ==
    /\ dust' = Without(dust, gone, NoRow)
    /\ amount' = Without(amount, gone, 0)
    /\ spentAt' = Without(spentAt, gone, 0)

pruneTerminal ==
    LET gone == {k \in Keys : Prunable(k)}
    IN  /\ gone # {}
        /\ state' = Without(state, gone, NoRow)
        /\ retention' = Without(retention, gone, 0)
        /\ receipt' = Without(receipt, gone, NoReceipt)
        /\ DropDust(gone)
        /\ UNCHANGED <<now, spends>>

pruneDust ==
    LET gone == {k \in Keys : DustPrunable(k)}
    IN  gone # {} /\ DropDust(gone) /\ UNCHANGED <<now, opVars, spends>>

Tick == now < MaxTime /\ now' = now + 1 /\ UNCHANGED <<opVars, dustVars>>

-----------------------------------------------------------------------------
Init ==
    /\ now = 1
    /\ state = [k \in Keys |-> NoRow] /\ retention = [k \in Keys |-> 0]
    /\ receipt = [k \in Keys |-> NoReceipt]
    /\ dust = [k \in Keys |-> NoRow] /\ amount = [k \in Keys |-> 0]
    /\ spentAt = [k \in Keys |-> 0] /\ spends = {}

OperationCalls ==
    \E k \in Keys :
        \/ \E ttl \in now + 1 .. now + MaxTtl, r \in Receipt : createPrepared(k, ttl, r)
        \/ \E expected, next \in States, r \in Receipt : transition(k, expected, next, r)
        \/ \E r \in Receipt : recordReceipt(k, r)
DustCalls ==
    \E k \in Keys :
        \/ \E a \in Amounts : reserveDust(k, a)
        \/ markDustSpent(k)
        \/ releaseDust(k)

Next == OperationCalls \/ DustCalls \/ pruneTerminal \/ pruneDust \/ Tick

Spec == Init /\ [][Next]_vars

-----------------------------------------------------------------------------
(* Properties.                                                             *)

\* The types of the columns, and the row ceiling over both tables, whatever mix
\* of calls made the rows (#assertWithinCeilings).
Columns ==
    /\ now \in Nat
    /\ state \in [Keys -> States \cup {NoRow}] /\ retention \in [Keys -> Nat]
    /\ receipt \in [Keys -> Receipt]
    /\ dust \in [Keys -> DustStates \cup {NoRow}]
    /\ amount \in [Keys -> Nat] /\ spentAt \in [Keys -> Nat]
    /\ spends \subseteq [key : Keys, amount : Nat, at : Nat]
WithinCeiling == Cardinality(Rows) + Cardinality(DustRows) <= MaxRows
TypeOK == Columns /\ WithinCeiling

\* What is reserved and what was spent in the last window, pruned rows too,
\* stay within the window's cap (reserveDust, dustUsage, pruneDust).
DustBudget ==
    MapThenSumSet(LAMBDA k : amount[k], {k \in Keys : dust[k] = "RESERVED"})
      + MapThenSumSet(LAMBDA s : s.amount, {s \in spends : s.at > Cutoff})
        <= MaxPerWindow

\* A reservation exists only for a journalled operation: the budget is never
\* held by a job nothing would recover (reserveDust, pruneTerminal).
DustBacked == \A k \in Keys : dust[k] # NoRow => state[k] # NoRow

\* A reservation ends by being spent or released, never by pruning, and a
\* spend leaves the journal only when no window contains it.
ReservationKept ==
    [][\A k \in Keys :
         /\ dust[k] = "RESERVED" => dust'[k] \in DustStates
         /\ dust[k] = "SPENT" /\ spentAt[k] > Cutoff => dust'[k] = "SPENT"]_vars

\* A settled, reverted or failed operation is final until its row is pruned,
\* although callers still hold older copies of it (transition).
TerminalIsFinal ==
    [][\A k \in Keys : state[k] \in Terminal => state'[k] \in {state[k], NoRow}]_vars

\* Evidence, once recorded, is never replaced while the row lives: the relay
\* and the ledger report separately and late (recordReceipt).
EvidenceKept ==
    [][\A k \in Keys, f \in Fields :
         state'[k] # NoRow /\ receipt[k][f] # Null => receipt'[k][f] = receipt[k][f]]_vars
=============================================================================

-------------------------- MODULE SwapClaimsProofs --------------------------
(***************************************************************************)
(* What the swap-job executor owes: the contributions the wallet gave to a *)
(* job stay accounted for in the journal, a verdict is written only when   *)
(* they are back or spent, until then the maker offers of the job stay     *)
(* claimed, and no revert that it may have made is called for again.       *)
(*                                                                         *)
(* WalletInv says it of the rows.  While the wallet has given a job        *)
(* something, or is asked to (Due), its half has not landed and all rows   *)
(* that its pending writes pass through are Backed: what it gave has a     *)
(* live row, under its own name or that of its final form (Accounted); a   *)
(* revert row that is REVERTED has given it back (Returned); and a live    *)
(* row without an artifact is that of the last call, with no row behind it *)
(* and none APPLIED beside it once it is quarantined (BareOK), so that a   *)
(* recovery which finds such a row cannot take it for one that gave        *)
(* nothing.                                                                *)
(*                                                                         *)
(* StockInv says it of the claims, which memory holds and a restart loses: *)
(* a job that is not over is in the stock once the start-up has come to    *)
(* it.  A claim is released by its offers and not by its owner, so a late  *)
(* release could free that of another job; DoneApart is why it does not.   *)
(*                                                                         *)
(* TriesInv counts the revert calls.  An artifact for which one was made   *)
(* is Beyond, in the journal, the states in which such a call is begun,    *)
(* its own row or that of a recovery which covers it (TriedOK); no write   *)
(* brings it back, and a call under way is the first (FlightOK).           *)
(***************************************************************************)
EXTENDS SwapJobsProofs

-----------------------------------------------------------------------------
(* What the rows of a job say of the contributions the wallet gave it.     *)

\* A row whose wallet call has not returned, as far as the journal knows.
Bare(e, op) == Live(e, op) /\ op \notin e.art
BareOK(e, op) ==
    /\ e.row[op] \in {"PREPARED", "QUARANTINED"} /\ \A o \in Later(op) : e.row[o] = None
    /\ e.row[op] = "QUARANTINED" => \A o \in WalletOps : e.row[o] # "APPLIED"
    /\ e.row["revert"] = None => \A k \in Recoveries : e.row[k] = None
Accounted(e, w) == \A c \in w : Live(e, c) \/ Live(e, FinalOf[c])
Returned(e, w) ==
    /\ e.row["revert"] = "REVERTED" => w = {}
    /\ \A k \in Recoveries : e.row[k] = "REVERTED" => w \cap Part(k) = {}
Backed(e, w) == Accounted(e, w) /\ Returned(e, w) /\ \A op \in WalletOps : Bare(e, op) => BareOK(e, op)

\* The two forms of a contribution.
LEMMA FinalIs ==
    /\ Contributions = {"residual", "dust"} /\ FinalOf["residual"] = "residualFinal" /\ FinalOf["dust"] = "dustFinal"
    /\ \A c \in Contributions : c \in WalletOps /\ FinalOf[c] \in WalletOps /\ FinalOf[c] \in Finals
  BY DEF Contributions, FinalOf, WalletOps, Finals

\* What the wallet takes back it need not account for.
LEMMA BackedLess ==
    ASSUME NEW e, NEW w, Backed(e, w), NEW v \in SUBSET w PROVE Backed(e, v)
<1>1. Accounted(e, v)
  BY DEF Backed, Accounted
<1>2. Returned(e, v)
  BY DEF Backed, Returned
<1> QED
  BY <1>1, <1>2 DEF Backed

\* Rows that differ elsewhere, or in a revert that has not ended.
LEMMA BackedAlike ==
    ASSUME NEW d \in Rows, NEW w \in SUBSET Contributions, Backed(d, w), NEW x \in Rows, d.art \subseteq x.art,
           \A op \in WalletOps \cup Recoveries : x.row[op] = d.row[op],
           x.row["revert"] = d.row["revert"] \/ x.row["revert"] \notin {None, "REVERTED"}
    PROVE  Backed(x, w)
<1> USE OpsAre
<1>1. \A op \in WalletOps : (Live(x, op) <=> Live(d, op)) /\ (Bare(x, op) => Bare(d, op))
  BY DEF Live, Bare
<1>2. Accounted(x, w)
  <2>1. \A c \in w : (Live(x, c) <=> Live(d, c)) /\ (Live(x, FinalOf[c]) <=> Live(d, FinalOf[c]))
    BY <1>1, FinalIs
  <2> QED
    BY <2>1 DEF Backed, Accounted
<1>3. Returned(x, w)
  BY DEF Backed, Returned
<1>4. \A op \in WalletOps : Bare(x, op) => BareOK(x, op)
  <2> SUFFICES ASSUME NEW op \in WalletOps, Bare(x, op) PROVE BareOK(x, op)
    OBVIOUS
  <2>1. BareOK(d, op)
    BY <1>1 DEF Backed
  <2>2. Later(op) \subseteq WalletOps
    BY DEF Later
  <2> QED
    BY <2>1, <2>2 DEF BareOK
<1> QED
  BY <1>2, <1>3, <1>4 DEF Backed

\* quarantineGroup holds the rows in the order the build wrote them, so one whose call
\* has not returned is held last.
LEMMA BackedHolding ==
    ASSUME NEW d \in Rows, NEW w \in SUBSET Contributions, Backed(d, w), NEW y, NEW x, Holding(d, y, x)
    PROVE  Backed(x, w)
<1> USE OpsAre
<1>1. /\ x \in Rows /\ d.art \subseteq x.art
      /\ \A op \in Ops : x.row[op] = d.row[op] \/ (Live(d, op) /\ x.row[op] = "QUARANTINED")
      /\ \A op \in WalletOps, l \in Ops : l \in Later(op) /\ x.row[l] # d.row[l] /\ Live(d, op) => x.row[op] = "QUARANTINED"
  BY DEF Holding, Beside
<1>2. \A op \in Ops : /\ Live(x, op) <=> Live(d, op)
                      /\ x.row[op] # "QUARANTINED" => x.row[op] = d.row[op]
                      /\ d.row[op] = None => x.row[op] = None
                      /\ x.row[op] = None => d.row[op] = None
  BY <1>1 DEF Live, terminal, None
<1>3. Accounted(x, w)
  <2>1. \A c \in w : (Live(x, c) <=> Live(d, c)) /\ (Live(x, FinalOf[c]) <=> Live(d, FinalOf[c]))
    BY <1>2, FinalIs
  <2> QED
    BY <2>1 DEF Backed, Accounted
<1>4. Returned(x, w)
  BY <1>2 DEF Backed, Returned
<1>5. ASSUME NEW op \in WalletOps, Bare(x, op) PROVE BareOK(x, op)
  <2>1. Bare(d, op) /\ BareOK(d, op)
    BY <1>1, <1>2, <1>5 DEF Backed, Bare
  <2>2. Later(op) \subseteq WalletOps /\ \A o \in WalletOps \ {op} : o \in Later(op) \/ op \in Later(o)
    BY DEF Later
  <2>3. x.row[op] \in {"PREPARED", "QUARANTINED"}
    BY <1>1, <2>1 DEF BareOK
  <2>4. \A o \in Later(op) : x.row[o] = None
    BY <1>2, <2>1, <2>2 DEF BareOK
  <2>5. ASSUME x.row[op] = "QUARANTINED", NEW o \in WalletOps, x.row[o] = "APPLIED" PROVE FALSE
    <3>1. d.row[o] = "APPLIED" /\ o # op
      BY <1>2, <2>5
    <3>2. d.row[op] # x.row[op]
      BY <2>1, <2>5, <3>1 DEF BareOK
    <3>3. op \in Later(o)
      BY <2>2, <2>4, <2>5, <3>1 DEF None
    <3>4. Live(d, o)
      BY <3>1 DEF Live, terminal, None
    <3> QED
      BY <1>1, <2>5, <3>2, <3>3, <3>4
  <2>6. x.row["revert"] = None => \A k \in Recoveries : x.row[k] = None
    BY <1>2, <2>1 DEF BareOK
  <2> QED
    BY <2>3, <2>4, <2>5, <2>6 DEF BareOK
<1> QED
  BY <1>3, <1>4, <1>5 DEF Backed

\* Rows that need no BareOK: every live one has its artifact.
NoBare(e) == \A op \in WalletOps : ~Bare(e, op)

\* What the wallet gives to a row that is live is accounted for.
LEMMA BackedGiven ==
    ASSUME NEW e, NEW w, Backed(e, w), NEW op, Live(e, op), \A o \in Reverts : e.row[o] = None
    PROVE  Backed(e, w \cup ({op} \cap Contributions))
<1>1. Accounted(e, w \cup ({op} \cap Contributions))
  BY DEF Backed, Accounted
<1>2. Returned(e, w \cup ({op} \cap Contributions))
  BY OpsAre DEF Returned, None
<1> QED
  BY <1>1, <1>2 DEF Backed

\* The row of the last call is applied: then every live row has its artifact.
LEMMA BackedApplied ==
    ASSUME NEW d \in Rows, NEW w \in SUBSET Contributions, Backed(d, w), NEW op \in WalletOps,
           d.row[op] = "PREPARED", \A o \in Later(op) : d.row[o] = None,
           NEW y, NEW x, Near(d, op, y, x), x.row[op] = "APPLIED", op \in x.art
    PROVE  Backed(x, w) /\ NoBare(x)
<1> USE OpsAre
<1>1. x \in Rows /\ d.art \subseteq x.art /\ \A o \in Ops : o # op => x.row[o] = d.row[o]
  BY NearRows
<1>2. \A o \in WalletOps : Live(x, o) <=> Live(d, o)
  BY <1>1 DEF Live, terminal, None
<1>3. NoBare(x)
  <2> SUFFICES ASSUME NEW o \in WalletOps, Bare(x, o) PROVE FALSE
    BY DEF NoBare
  <2>1. o # op /\ Live(d, o) /\ Bare(d, o)
    BY <1>1, <1>2 DEF Bare
  <2>2. BareOK(d, o)
    BY <2>1 DEF Backed
  <2>3. op \notin Later(o)
    BY <2>2 DEF BareOK, None
  <2>4. o \in Later(op)
    BY <2>1, <2>3 DEF Later
  <2> QED
    BY <2>1, <2>4 DEF Live
<1>4. Accounted(x, w)
  <2>1. \A c \in w : (Live(x, c) <=> Live(d, c)) /\ (Live(x, FinalOf[c]) <=> Live(d, FinalOf[c]))
    BY <1>2, FinalIs
  <2> QED
    BY <2>1 DEF Backed, Accounted
<1>5. Returned(x, w)
  BY <1>1 DEF Backed, Returned
<1> QED
  BY <1>3, <1>4, <1>5 DEF Backed, NoBare

\* While every live row has its artifact, it matters only which rows are live.
LEMMA BackedOnward ==
    ASSUME NEW d \in Rows, NEW w \in SUBSET Contributions, Backed(d, w), NoBare(d), NEW x \in Rows, d.art \subseteq x.art,
           \A op \in WalletOps : Live(x, op) => Live(d, op), \A op \in WalletOps : Live(d, op) => Live(x, op),
           \A op \in Reverts : x.row[op] = d.row[op] \/ x.row[op] # "REVERTED"
    PROVE  Backed(x, w) /\ NoBare(x)
<1>1. NoBare(x)
  BY DEF NoBare, Bare
<1>2. Accounted(x, w)
  <2>1. \A c \in w : (Live(x, c) <=> Live(d, c)) /\ (Live(x, FinalOf[c]) <=> Live(d, FinalOf[c]))
    BY FinalIs
  <2> QED
    BY <2>1 DEF Backed, Accounted
<1>3. Returned(x, w)
  BY OpsAre DEF Backed, Returned
<1> QED
  BY <1>1, <1>2, <1>3 DEF Backed, NoBare

\* The next call is prepared.
LEMMA BackedNext ==
    ASSUME NEW d \in Rows, NEW w \in SUBSET Contributions, Backed(d, w), NoBare(d), NEW op \in WalletOps,
           d.row[op] = None, \A o \in Later(op) : d.row[o] = None, \A o \in Reverts : d.row[o] = None,
           NEW y, NEW x, Near(d, op, y, x), x.row[op] = "PREPARED"
    PROVE  Backed(x, w)
<1> USE OpsAre
<1>1. x \in Rows /\ d.art \subseteq x.art /\ \A o \in Ops : o # op => x.row[o] = d.row[o]
  BY NearRows
<1>2. \A o \in WalletOps : Live(d, o) => Live(x, o)
  BY <1>1 DEF Live, terminal, None
<1>3. Accounted(x, w)
  <2>1. \A c \in w : (Live(d, c) => Live(x, c)) /\ (Live(d, FinalOf[c]) => Live(x, FinalOf[c]))
    BY <1>2, FinalIs
  <2> QED
    BY <2>1 DEF Backed, Accounted
<1>4. Returned(x, w)
  BY <1>1 DEF Backed, Returned
<1>5. ASSUME NEW o \in WalletOps, Bare(x, o) PROVE BareOK(x, o)
  <2>1. o = op
    BY <1>1, <1>5 DEF Bare, NoBare, Live
  <2>2. \A l \in Later(op) : l # op /\ l \in Ops
    BY DEF Later
  <2> QED
    BY <1>1, <2>1, <2>2 DEF BareOK
<1> QED
  BY <1>3, <1>4, <1>5 DEF Backed

\* Rows whose calls have returned move on, and none that the wallet still needs ends.
MovesOn(d, S, x, v) ==
    /\ S \subseteq WalletOps /\ (\A o \in S : ~Bare(d, o)) /\ x \in Rows /\ d.art \subseteq x.art
    /\ \A o \in Ops : o \notin S => x.row[o] = d.row[o]
    /\ \A o \in S : x.row[o] = d.row[o] \/ (Live(d, o) /\ x.row[o] \notin {None, "APPLIED"})
    /\ \A c \in v : (Live(d, c) => Live(x, c)) /\ (Live(d, FinalOf[c]) => Live(x, FinalOf[c]))

\* Then they account for it still.
LEMMA BackedMoves ==
    ASSUME NEW d \in Rows, NEW w \in SUBSET Contributions, Backed(d, w), NEW S, NEW x, NEW v \in SUBSET w,
           MovesOn(d, S, x, v)
    PROVE  Backed(x, v)
<1> USE OpsAre DEF MovesOn
<1>1. Accounted(x, v)
  BY DEF Backed, Accounted
<1>2. Returned(x, v)
  <2>1. \A o \in Reverts : x.row[o] = d.row[o]
    OBVIOUS
  <2> QED
    BY <2>1 DEF Backed, Returned
<1>3. ASSUME NEW o \in WalletOps, Bare(x, o) PROVE BareOK(x, o)
  <2>1. o \notin S /\ Bare(d, o)
    BY <1>3 DEF Bare, Live
  <2>2. BareOK(d, o) /\ x.row[o] = d.row[o]
    BY <2>1 DEF Backed
  <2>3. \A l \in Later(o) : l \in Ops /\ x.row[l] = None
    <3>1. \A l \in Later(o) : l \in Ops /\ d.row[l] = None
      BY <2>2 DEF BareOK, Later
    <3> QED
      BY <3>1 DEF Live
  <2>4. \A l \in WalletOps : x.row[l] = "APPLIED" => d.row[l] = "APPLIED"
    OBVIOUS
  <2>5. \A k \in Reverts : x.row[k] = d.row[k]
    OBVIOUS
  <2> QED
    BY <2>2, <2>3, <2>4, <2>5 DEF BareOK
<1> QED
  BY <1>1, <1>2, <1>3 DEF Backed

\* A job with no live row owes nothing.
LEMMA NothingOwed ==
    ASSUME NEW e, NEW w \in SUBSET Contributions, Backed(e, w), \A op \in WalletOps : ~Live(e, op)
    PROVE  w = {}
  BY FinalIs DEF Backed, Accounted

-----------------------------------------------------------------------------
(* The account of the wallet, kept by every step.                          *)

\* While the wallet has given a job something, or is asked to.
Due(j) == wallet[j] # {} \/ build[j].pc \in WalletOps
WalletOK(j) == Due(j) => relay[j] # "done" /\ \A e \in Via(db, plan, j) : Backed(e, wallet[j])
WalletInv == wallet \in [Jobs -> SUBSET Contributions] /\ \A j \in Jobs : WalletOK(j)

\* What it says while nothing is to be written.
LEMMA Owes ==
    ASSUME IInv, WalletInv, Quiet, NEW j \in Jobs
    PROVE  wallet[j] \in SUBSET Contributions /\ (Due(j) => relay[j] # "done" /\ Backed(db[j], wallet[j]))
<1>1. Via(db, plan, j) = {db[j]}
  BY AtRest
<1> QED
  BY <1>1 DEF WalletInv, WalletOK

\* A step of one job only, and one that does not begin a wallet call.
Only(j) ==
    /\ db' = db /\ relay' = [relay EXCEPT ![j] = relay'[j]] /\ build' = [build EXCEPT ![j] = build'[j]]
NoCall(j) == build'[j].pc \in WalletOps => build[j].pc \in WalletOps

\* A handler that accounts for what the wallet then has of its own job.
LEMMA WalletHandler ==
    ASSUME IInv, WalletInv, Quiet, NEW j \in Jobs, Only(j), NEW ws, Plan(j, ws), NEW P, NEW e,
           Takes(db[j], ws, P, e), NEW w \in SUBSET Contributions, wallet' = [wallet EXCEPT ![j] = w],
           w # {} \/ build'[j].pc \in WalletOps => relay'[j] # "done" /\ \A x \in P : Backed(x, w)
    PROVE  WalletInv'
<1>1. Via(db, plan', j) \subseteq P /\ \A k \in Jobs \ {j} : WritesOf(plan', k) = <<>>
  BY Planned
<1>2. \A k \in Jobs : WritesOf(plan, k) = <<>> /\ Via(db, plan, k) = {db[k]}
  BY Still DEF Quiet
<1>3. \A k \in Jobs \ {j} : Via(db, plan', k) = Via(db, plan, k)
  BY <1>1, <1>2 DEF Via
<1>4. /\ wallet \in [Jobs -> SUBSET Contributions] /\ relay \in [Jobs -> Answers] /\ build \in [Jobs -> Build]
      /\ \A k \in Jobs : WalletOK(k)
  BY DEF WalletInv, IInv, Typed
<1>5. wallet' \in [Jobs -> SUBSET Contributions] /\ wallet'[j] = w /\ db' = db
  BY <1>4 DEF Only
<1>6. WalletOK(j)'
  BY <1>1, <1>5 DEF WalletOK, Due
<1>7. ASSUME NEW k \in Jobs \ {j} PROVE WalletOK(k)'
  <2>1. wallet'[k] = wallet[k] /\ relay'[k] = relay[k] /\ build'[k] = build[k]
    BY <1>4 DEF Only
  <2>2. Via(db, plan, k)' = Via(db, plan, k)
    BY <1>3, <1>5
  <2>3. WalletOK(k)
    BY <1>4
  <2> QED
    BY <2>1, <2>2, <2>3 DEF WalletOK, Due
<1> QED
  BY <1>5, <1>6, <1>7 DEF WalletInv

\* One that takes nothing more from the wallet.
LEMMA WalletLess ==
    ASSUME IInv, WalletInv, Quiet, NEW j \in Jobs, Only(j), NoCall(j), NEW ws, Plan(j, ws), NEW P, NEW e,
           Takes(db[j], ws, P, e), NEW w \in SUBSET wallet[j], wallet' = [wallet EXCEPT ![j] = w],
           Due(j) /\ Backed(db[j], wallet[j]) /\ relay[j] # "done" => relay'[j] # "done" /\ \A x \in P : Backed(x, w)
    PROVE  WalletInv'
<1>1. wallet[j] \in SUBSET Contributions /\ (Due(j) => relay[j] # "done" /\ Backed(db[j], wallet[j]))
  BY Owes
<1>2. w # {} \/ build'[j].pc \in WalletOps => Due(j)
  BY DEF Due, NoCall
<1> QED
  BY <1>1, <1>2, WalletHandler

\* One that leaves the wallet alone.
LEMMA WalletAlone ==
    ASSUME IInv, WalletInv, Quiet, NEW j \in Jobs, Only(j), NoCall(j), wallet' = wallet, NEW ws, Plan(j, ws),
           NEW P, NEW e, Takes(db[j], ws, P, e),
           Due(j) /\ Backed(db[j], wallet[j]) /\ relay[j] # "done" => relay'[j] # "done" /\ \A x \in P : Backed(x, wallet[j])
    PROVE  WalletInv'
<1>1. wallet' = [wallet EXCEPT ![j] = wallet[j]]
  BY DEF WalletInv
<1> QED
  BY <1>1, WalletLess

\* One that writes nothing.
LEMMA WalletStill ==
    ASSUME IInv, WalletInv, Quiet, NEW j \in Jobs, Only(j), NoCall(j), plan' = plan,
           NEW w \in SUBSET wallet[j], wallet' = [wallet EXCEPT ![j] = w], relay'[j] # "done" \/ relay'[j] = relay[j]
    PROVE  WalletInv'
<1> DEFINE ws == <<>>
           P == {db[j]}
<1>1. Plan(j, ws) /\ Takes(db[j], ws, P, db[j])
  BY PlansNothing, TakesNone
<1>2. Due(j) /\ Backed(db[j], wallet[j]) /\ relay[j] # "done" => relay'[j] # "done" /\ \A x \in P : Backed(x, w)
  BY BackedLess
<1> HIDE DEF ws, P
<1> QED
  BY <1>1, <1>2, WalletLess

\* One that quarantines the rows of a job.
LEMMA WalletHolds ==
    ASSUME IInv, WalletInv, Quiet, NEW j \in Jobs, Only(j), NoCall(j), NEW y \in {"local", "relay"},
           Plan(j, quarantineGroup(db[j], y)), NEW w \in SUBSET wallet[j], wallet' = [wallet EXCEPT ![j] = w],
           relay'[j] # "done" \/ relay'[j] = relay[j]
    PROVE  WalletInv'
<1>1. db[j] \in Rows
  BY AtRest
<1>2. PICK P, e : /\ Takes(db[j], quarantineGroup(db[j], y), P, e) /\ AllHeld(db[j], y, e)
                  /\ \A x \in P : Holding(db[j], y, x)
  BY <1>1, TakesHold
<1>3. wallet[j] \in SUBSET Contributions
  BY Owes
<1>4. Due(j) /\ Backed(db[j], wallet[j]) /\ relay[j] # "done" => relay'[j] # "done" /\ \A x \in P : Backed(x, w)
  BY <1>1, <1>2, <1>3, BackedHolding, BackedLess
<1> QED
  BY <1>2, <1>4, WalletLess

\* What a step plans for one job concerns no other.
LEMMA OthersWrite ==
    ASSUME IInv', NEW j \in Jobs, NEW ws, Plan(j, ws), NEW k \in Jobs \ {j} PROVE WritesOf(plan', k) = <<>>
<1>1. plan' \in Seq([job : Jobs, w : Writes])
  BY DEF IInv, Typed, PlanTyped
<1>2. CASE plan' = <<>>
  BY <1>2 DEF WritesOf
<1>3. CASE plan' # <<>>
  <2>1. 1 \in DOMAIN plan'
    BY <1>1, <1>3
  <2>2. plan'[1].job = j
    BY <2>1 DEF Plan
  <2> QED
    BY <2>2 DEF WritesOf
<1> QED
  BY <1>2, <1>3

\* One after which the wallet has nothing of the job.
LEMMA WalletEmpty ==
    ASSUME IInv, IInv', WalletInv, Quiet, NEW j \in Jobs, Only(j), build'[j].pc \notin WalletOps,
           wallet' = [wallet EXCEPT ![j] = {}], NEW ws, Plan(j, ws)
    PROVE  WalletInv'
<1>1. /\ wallet \in [Jobs -> SUBSET Contributions] /\ relay \in [Jobs -> Answers] /\ build \in [Jobs -> Build]
      /\ \A k \in Jobs : WalletOK(k) /\ Via(db, plan, k) = {db[k]}
  BY AtRest DEF WalletInv, IInv, Typed
<1>2. wallet' \in [Jobs -> SUBSET Contributions] /\ wallet'[j] = {} /\ db' = db
  BY <1>1 DEF Only
<1>3. WalletOK(j)'
  BY <1>2 DEF WalletOK, Due
<1>4. ASSUME NEW k \in Jobs \ {j} PROVE WalletOK(k)'
  <2>1. wallet'[k] = wallet[k] /\ relay'[k] = relay[k] /\ build'[k] = build[k]
    BY <1>1 DEF Only
  <2>2. Via(db, plan, k)' = Via(db, plan, k)
    <3>1. WritesOf(plan', k) = <<>> /\ WritesOf(plan, k) = <<>>
      BY OthersWrite, Still DEF Quiet
    <3> QED
      BY <3>1, <1>2 DEF Via
  <2>3. WalletOK(k)
    BY <1>1
  <2> QED
    BY <2>1, <2>2, <2>3 DEF WalletOK, Due
<1> QED
  BY <1>2, <1>3, <1>4 DEF WalletInv

\* One of a job of which the wallet has nothing.
LEMMA WalletNone ==
    ASSUME IInv, IInv', WalletInv, Quiet, NEW j \in Jobs, Only(j), build'[j].pc \notin WalletOps, wallet[j] = {},
           wallet' = wallet, NEW ws, Plan(j, ws)
    PROVE  WalletInv'
<1>1. wallet' = [wallet EXCEPT ![j] = {}]
  BY DEF WalletInv
<1> QED
  BY <1>1, WalletEmpty

\* The wallet has nothing of a job with no live row.
LEMMA NothingLive ==
    ASSUME IInv, WalletInv, Quiet, NEW j \in Jobs, \A op \in WalletOps : ~Live(db[j], op)
    PROVE  wallet[j] = {}
  BY Owes, NothingOwed DEF Due

\* A handler of a job that landed.
LEMMA WalletLanded ==
    ASSUME IInv, IInv', WalletInv, Quiet, NEW j \in Jobs, Only(j), NoCall(j), relay[j] = "done",
           wallet' = wallet, NEW ws, Plan(j, ws)
    PROVE  WalletInv'
<1>1. wallet[j] = {} /\ build'[j].pc \notin WalletOps
  BY Owes DEF Due, NoCall
<1> QED
  BY <1>1, WalletNone

\* revertWallet writes its own row only, and does not end it.
LEMMA RevertRowsPass ==
    ASSUME NEW d \in Rows, d.row["revert"] \in {None, "QUARANTINED", "REVERTING"}
    PROVE  \E P, e : /\ Takes(d, RevertRows(d), P, e)
                     /\ \A z \in P : /\ z \in Rows
                                     /\ d.art \subseteq z.art
                                     /\ z.row["revert"] \in {d.row["revert"], "PREPARED", "REVERTING"}
                                     /\ \A o \in Ops : o # "revert" => z.row[o] = d.row[o]
<1> DEFINE op == "revert"
           p == "PREPARED"
           v == "REVERTING"
<1>1. op \in Ops \ {"settlement"} /\ op \in Ops /\ p \in States /\ v \in States
  BY OpsAre, StatesAre
<1>2. Moves(None, p) /\ Moves(p, v) /\ Moves("QUARANTINED", v)
  BY StatesAre DEF terminal
<1>3. /\ d.row[op] = None => RevertRows(d) = <<Set(op, p), Set(op, v)>>
      /\ d.row[op] = "QUARANTINED" => RevertRows(d) = <<Set(op, v)>>
      /\ d.row[op] = v => RevertRows(d) = <<>>
  BY DEF RevertRows, None
<1>4. \A z : /\ z \in Rows /\ d.art \subseteq z.art /\ z.row[op] \in {d.row[op], p, v}
             /\ \A o \in Ops : o # op => z.row[o] = d.row[o]
             => /\ z \in Rows /\ d.art \subseteq z.art /\ z.row["revert"] \in {d.row["revert"], "PREPARED", "REVERTING"}
                /\ \A o \in Ops : o # "revert" => z.row[o] = d.row[o]
  OBVIOUS
<1>5. d.row[op] \in {None, "QUARANTINED", v}
  OBVIOUS
<1> DEFINE x == Put(d, Set(op, p))
           y == Put(x, Set(op, v))
           u == Put(d, Set(op, v))
<1> HIDE DEF op, p, v, x, y, u
<1>6. CASE d.row[op] = None
  <2>1. Takes(d, <<Set(op, p)>>, {d, x}, x) /\ Near(d, op, None, x) /\ x \in Rows /\ x.row[op] = p
    BY <1>1, <1>2, <1>6, RowSet DEF x
  <2>2. Takes(x, <<Set(op, v)>>, {x, y}, y) /\ Near(x, op, None, y) /\ y \in Rows /\ y.row[op] = v
    BY <1>1, <1>2, <2>1, RowSet DEF y
  <2>3. <<Set(op, p), Set(op, v)>> = <<Set(op, p)>> \o <<Set(op, v)>>
    <3>1. Set(op, p) \in {Set(op, p), Set(op, v)} /\ Set(op, v) \in {Set(op, p), Set(op, v)}
      OBVIOUS
    <3> QED
      BY <3>1, PairOf, Zenon
  <2>4. Takes(d, RevertRows(d), {d, x} \cup {x, y}, y)
    <3>1. RevertRows(d) = <<Set(op, p)>> \o <<Set(op, v)>>
      BY <1>3, <1>6, <2>3
    <3> QED
      BY <2>1, <2>2, <3>1, TakesBoth
  <2>5. /\ x.art \subseteq y.art /\ d.art \subseteq x.art
        /\ \A o \in Ops : o # op => x.row[o] = d.row[o] /\ y.row[o] = x.row[o]
    BY <1>1, <2>1, <2>2, NearRows
  <2>6. \A z \in {d, x} \cup {x, y} : /\ z \in Rows /\ d.art \subseteq z.art /\ z.row[op] \in {d.row[op], p, v}
                                      /\ \A o \in Ops : o # op => z.row[o] = d.row[o]
    BY <2>1, <2>2, <2>5
  <2> QED
    BY <1>4, <2>4, <2>6
<1>7. CASE d.row[op] = "QUARANTINED"
  <2>1. Takes(d, <<Set(op, v)>>, {d, u}, u) /\ Near(d, op, None, u) /\ u \in Rows /\ u.row[op] = v
    BY <1>1, <1>2, <1>7, RowSet DEF u
  <2>2. d.art \subseteq u.art /\ \A o \in Ops : o # op => u.row[o] = d.row[o]
    BY <1>1, <2>1, NearRows
  <2>3. \A z \in {d, u} : /\ z \in Rows /\ d.art \subseteq z.art /\ z.row[op] \in {d.row[op], p, v}
                          /\ \A o \in Ops : o # op => z.row[o] = d.row[o]
    BY <2>1, <2>2
  <2>4. Takes(d, RevertRows(d), {d, u}, u)
    BY <1>3, <1>7, <2>1
  <2> QED
    BY <1>4, <2>3, <2>4
<1>8. CASE d.row[op] = v
  <2>1. Takes(d, RevertRows(d), {d}, d)
    BY <1>3, <1>8, TakesNone
  <2>2. \A z \in {d} : /\ z \in Rows /\ d.art \subseteq z.art /\ z.row[op] \in {d.row[op], p, v}
                       /\ \A o \in Ops : o # op => z.row[o] = d.row[o]
    OBVIOUS
  <2> QED
    BY <1>4, <2>1, <2>2
<1> QED
  BY <1>5, <1>6, <1>7, <1>8

-----------------------------------------------------------------------------
(* The steps of a build.                                                   *)

\* A step that changes the build of one job.
LEMMA OnlyBuild ==
    ASSUME IInv, NEW j \in Jobs, db' = db, NEW b, build' = [build EXCEPT ![j] = b],
           NEW r, relay' = [relay EXCEPT ![j] = r]
    PROVE  Only(j) /\ build'[j] = b /\ relay'[j] = r
  BY DEF Only, IInv, Typed

\* A job is admitted, or refused.
LEMMA OnSwapOwes == ASSUME IInv, IInv', WalletInv, NEW j \in Jobs, OnSwap(j) PROVE WalletInv'
<1>1. Quiet /\ relay[j] = "none" /\ db' = db /\ wallet' = wallet
  BY DEF OnSwap
<1>2. Truth(db[j], relay[j]) /\ JobOK(j) /\ Ahead(db, plan, j) = db[j] /\ build[j] \in Build
  BY <1>1, AtRest
<1>3. db[j].row["settlement"] = None /\ \A op \in Ops : db[j].row[op] = None
  BY <1>1, <1>2 DEF Truth
<1>4. wallet[j] = {} /\ build[j] = NoBuild
  BY <1>1, <1>2, <1>3, NothingLive, OpsAre DEF Live, JobOK, FreshOK
<1>5. CASE phase # "boot" /\ Admissible(j)
  <2> DEFINE b == [build[j] EXCEPT !.pc = "read"]
             ws == <<Set("settlement", "PREPARED")>>
  <2>1. Plan(j, ws) /\ build' = [build EXCEPT ![j] = b] /\ relay' = [relay EXCEPT ![j] = "open"] /\ b.pc = "read"
    BY <1>5, <1>2 DEF OnSwap, Build, IInv, Typed
  <2> HIDE DEF b, ws
  <2>2. Only(j) /\ build'[j] = b
    BY <1>1, <2>1, OnlyBuild
  <2>3. build'[j].pc \notin WalletOps
    BY <2>1, <2>2, OpsAre
  <2> QED
    BY <1>1, <1>4, <2>1, <2>2, <2>3, WalletNone
<1>6. CASE ~(phase # "boot" /\ Admissible(j))
  <2> DEFINE ws == <<>>
  <2>1. plan' = plan /\ build' = build /\ relay' = [relay EXCEPT ![j] = "error"]
    BY <1>6 DEF OnSwap
  <2>2. Plan(j, ws)
    BY <1>1, <2>1, PlansNothing
  <2>3. Only(j) /\ build'[j].pc \notin WalletOps
    BY <1>1, <1>4, <2>1, OpsAre DEF Only, IInv, Typed, NoBuild
  <2> HIDE DEF ws
  <2> QED
    BY <1>1, <1>4, <2>2, <2>3, WalletNone
<1> QED
  BY <1>5, <1>6

\* A build that fails before it called the wallet.
LEMMA FailBuildOwes ==
    ASSUME IInv, IInv', WalletInv, Quiet, NEW j \in Jobs, build[j].pc \in {"read", "addr"}, FailBuild(j),
           db' = db, wallet' = wallet
    PROVE  WalletInv'
<1>1. MadeRows(db[j], mem[j].timedOut, build[j])
  BY WhileMaking DEF Making
<1>2. wallet[j] = {}
  BY <1>1, NothingLive DEF MadeRows, Live
<1>3. Only(j) /\ build'[j].pc \notin WalletOps
  BY OpsAre DEF FailBuild, Answered, Only, IInv, Typed, NoBuild
<1>4. \E ws : Plan(j, ws)
  BY DEF FailBuild
<1> QED
  BY <1>2, <1>3, <1>4, WalletNone

\* The files of a job are read.
LEMMA ReadFilesOwes == ASSUME IInv, IInv', WalletInv, NEW j \in Jobs, ReadFiles(j) PROVE WalletInv'
<1>1. Quiet /\ build[j].pc = "read" /\ db' = db /\ wallet' = wallet
  BY DEF ReadFiles
<1>2. CASE FailBuild(j)
  BY <1>1, <1>2, FailBuildOwes
<1>3. CASE build' = [build EXCEPT ![j].pc = "addr"] /\ UNCHANGED <<relay, stock, mem, plan>>
  <2> DEFINE b == [build[j] EXCEPT !.pc = "addr"]
             r == relay[j]
  <2>1. build' = [build EXCEPT ![j] = b] /\ relay' = [relay EXCEPT ![j] = r] /\ b.pc = "addr"
    BY <1>3 DEF IInv, Typed, Build
  <2> HIDE DEF b, r
  <2>2. Only(j) /\ build'[j] = b /\ relay'[j] = r
    BY <1>1, <2>1, OnlyBuild
  <2>3. NoCall(j) /\ r = relay[j]
    BY <2>1, <2>2, OpsAre DEF NoCall, r
  <2>4. wallet' = [wallet EXCEPT ![j] = wallet[j]]
    BY <1>1 DEF WalletInv
  <2> QED
    BY <1>1, <1>3, <2>2, <2>3, <2>4, WalletStill
<1> QED
  BY <1>1, <1>2, <1>3 DEF ReadFiles

\* getAddress returns, or fails.
LEMMA GetAddressOwes == ASSUME IInv, IInv', WalletInv, NEW j \in Jobs, GetAddress(j) PROVE WalletInv'
<1>1. Quiet /\ build[j].pc = "addr" /\ db' = db /\ wallet' = wallet
  BY DEF GetAddress
<1>2. CASE FailBuild(j)
  BY <1>1, <1>2, FailBuildOwes
<1>3. ASSUME NEW op \in Contributions, build' = [build EXCEPT ![j].pc = op],
             Plan(j, <<Set(op, "PREPARED")>>), UNCHANGED <<relay, stock, mem>>
      PROVE  WalletInv'
  <2> DEFINE d == db[j]
             b == [build[j] EXCEPT !.pc = op]
             r == relay[j]
             s == "PREPARED"
             x == Put(d, Set(op, s))
             ws == <<Set(op, s)>>
             w == {}
             P == {d, x}
  <2>1. MadeRows(d, mem[j].timedOut, build[j]) /\ r \in {"open", "error"} /\ d \in Rows
    BY <1>1, WhileMaking, AtRest DEF Making
  <2>2. op \in WalletOps /\ op \in Ops \ {"settlement"} /\ s \in States
    BY OpsAre, StatesAre, FinalIs
  <2>3. (\A o \in WalletOps : d.row[o] = None) /\ (\A o \in Reverts : d.row[o] = None)
    BY <1>1, <2>1 DEF MadeRows
  <2>4. Plan(j, ws) /\ build' = [build EXCEPT ![j] = b] /\ relay' = [relay EXCEPT ![j] = r] /\ Moves(d.row[op], s)
    BY <1>3, <2>2, <2>3, StatesAre DEF IInv, Typed
  <2>5. wallet[j] = w
    BY <1>1, <2>3, NothingLive DEF Live
  <2>6. wallet' = [wallet EXCEPT ![j] = w] /\ w \in SUBSET Contributions
    BY <1>1, <2>5 DEF WalletInv
  <2>7. Backed(d, w) /\ NoBare(d)
    BY <2>3, OpsAre DEF Backed, Accounted, Returned, Bare, NoBare, Live
  <2>8. \A o \in Later(op) : d.row[o] = None
    BY <2>3, OpsAre DEF Later
  <2> HIDE DEF s, x, w, b, r, P
  <2>9. Takes(d, ws, {d, x}, x) /\ Near(d, op, None, x) /\ x.row[op] = s
    BY <2>1, <2>2, <2>4, RowSet DEF x
  <2>10. Backed(x, w)
    BY <2>1, <2>2, <2>3, <2>6, <2>7, <2>8, <2>9, BackedNext DEF s
  <2>11. Only(j) /\ relay'[j] = r
    BY <1>1, <2>4, OnlyBuild
  <2>12. relay'[j] # "done" /\ \A z \in P : Backed(z, w)
    BY <2>1, <2>7, <2>10, <2>11 DEF P
  <2>13. Takes(d, ws, P, x)
    BY <2>9 DEF P
  <2> HIDE DEF ws
  <2> QED
    BY <1>1, <2>4, <2>6, <2>11, <2>12, <2>13, WalletHandler
<1>4. (IF j \in Receives THEN "residual" ELSE "dust") \in Contributions
  BY DEF Contributions
<1> QED
  BY <1>1, <1>2, <1>3, <1>4 DEF GetAddress

\* What is known while the wallet is asked for a half.
Given(j) == wallet[j] \cup ({build[j].pc} \cap Contributions)
LEMMA WhileCalling ==
    ASSUME IInv, WalletInv, Quiet, NEW j \in Jobs, build[j].pc \in WalletOps
    PROVE  /\ db[j] \in Rows /\ Given(j) \in SUBSET Contributions /\ Backed(db[j], Given(j)) /\ relay[j] \in {"open", "error"}
           /\ (\A o \in Later(build[j].pc) : db[j].row[o] = None) /\ (\A o \in Reverts : db[j].row[o] = None)
           /\ build[j] \in Build /\ Making(j)
<1> DEFINE op == build[j].pc
           w == Given(j)
<1>1. MadeRows(db[j], mem[j].timedOut, build[j]) /\ relay[j] \in {"open", "error"} /\ Making(j) /\ db[j] \in Rows /\ build[j] \in Build
  BY WhileMaking, AtRest, OpsAre DEF Making
<1>2. wallet[j] \in SUBSET Contributions /\ Backed(db[j], wallet[j])
  BY Owes DEF Due
<1>3. /\ \A o \in Later(op) : db[j].row[o] = None
      /\ \A o \in Reverts : db[j].row[o] = None
      /\ Live(db[j], op)
  BY <1>1 DEF MadeRows, Live, terminal, None
<1>4. Backed(db[j], w)
  BY <1>2, <1>3, BackedGiven DEF Given
<1> QED
  BY <1>1, <1>2, <1>3, <1>4 DEF Given

\* The wallet returns a half that nothing is written of, or it throws.
LEMMA CallUnwritten ==
    ASSUME IInv, WalletInv, Quiet, NEW j \in Jobs, build[j].pc \in WalletOps, ToCleanup(j, build[j].own),
           UNCHANGED <<db, plan, relay>>, NEW v \in SUBSET Given(j),
           wallet' = [wallet EXCEPT ![j] = v]
    PROVE  WalletInv'
<1> DEFINE op == build[j].pc
           w == Given(j)
           b == [build[j] EXCEPT !.pc = "cleanup", !.own = build[j].own]
           ws == <<>>
           P == {db[j]}
           r == relay[j]
<1>1. /\ db[j] \in Rows /\ w \in SUBSET Contributions /\ Backed(db[j], w) /\ r \in {"open", "error"}
      /\ build[j] \in Build
  BY WhileCalling
<1>2. b.pc = "cleanup" /\ build' = [build EXCEPT ![j] = b] /\ relay' = [relay EXCEPT ![j] = r]
  BY <1>1 DEF ToCleanup, Build, IInv, Typed
<1>3. Plan(j, ws) /\ Takes(db[j], ws, P, db[j])
  BY PlansNothing, TakesNone
<1>4. v \in SUBSET Contributions /\ \A x \in P : Backed(x, v)
  BY <1>1, BackedLess
<1> HIDE DEF b, ws, P, w, op, r
<1>5. Only(j) /\ relay'[j] = r
  BY <1>2, OnlyBuild
<1>6. relay'[j] # "done"
  BY <1>1, <1>5
<1> QED
  BY <1>3, <1>4, <1>5, <1>6, WalletHandler

\* A call to the wallet throws, after it took effect or before.
LEMMA WalletThrowsOwes == ASSUME IInv, IInv', WalletInv, NEW j \in Jobs, WalletThrows(j) PROVE WalletInv'
<1> DEFINE w == Given(j)
<1>1. /\ Quiet /\ build[j].pc \in WalletOps /\ ToCleanup(j, build[j].own) /\ UNCHANGED <<db, plan, relay>>
      /\ wallet' \in {wallet, [wallet EXCEPT ![j] = w]}
  BY DEF WalletThrows, Given, WalletInv
<1>2. wallet' = [wallet EXCEPT ![j] = wallet[j]] \/ wallet' = [wallet EXCEPT ![j] = w]
  BY <1>1 DEF WalletInv
<1>3. \E v \in SUBSET w : wallet' = [wallet EXCEPT ![j] = v]
  BY <1>2 DEF Given
<1> QED
  BY <1>1, <1>3, CallUnwritten

\* The half is complete.
LEMMA CompleteOwes ==
    ASSUME IInv, WalletInv, Quiet, NEW j \in Jobs, build[j].pc = "dustFinal", db[j].row["dustFinal"] = "PREPARED",
           UNCHANGED <<db, relay>>, Complete(j, After(db[j], <<Set("dustFinal", "APPLIED")>>)),
           wallet' = [wallet EXCEPT ![j] = @ \cup (Contributions \cap {"dustFinal"})]
    PROVE  WalletInv'
<1> DEFINE d == db[j]
           op == "dustFinal"
           s == "APPLIED"
           x == Put(d, Set(op, s))
           w == Given(j)
           r == relay[j]
<1>1. /\ d \in Rows /\ w \in SUBSET Contributions /\ Backed(d, w) /\ r \in {"open", "error"}
      /\ (\A o \in Later(op) : d.row[o] = None) /\ (\A o \in Reverts : d.row[o] = None)
      /\ op \in Ops \ {"settlement"} /\ op \in WalletOps
  BY WhileCalling, OpsAre
<1>2. s \in States /\ Moves(d.row[op], s) /\ wallet' = [wallet EXCEPT ![j] = w] /\ d.row[op] = "PREPARED"
  BY StatesAre DEF WalletInv, Given
<1>3. MadeRows(d, mem[j].timedOut, build[j])
  BY WhileMaking DEF Making
<1> HIDE DEF d, x, op, w, s, r
<1>4. /\ Takes(d, <<Set(op, s)>>, {d, x}, x) /\ Near(d, op, None, x) /\ x \in Rows
      /\ x.row[op] = s /\ op \in x.art /\ x = After(d, <<Set(op, s)>>)
  BY <1>1, <1>2, RowSet DEF x, s
<1>5. Backed(x, w) /\ NoBare(x)
  BY <1>1, <1>2, <1>4, BackedApplied DEF s
<1>6. \A o \in Ops : o # op => x.row[o] = d.row[o]
  BY <1>1, <1>4, NearRows
<1>7. ASSUME ~mem[j].timedOut
      PROVE  \E b, ws, P, e : /\ build' = [build EXCEPT ![j] = b] /\ b.pc \notin WalletOps /\ Plan(j, ws)
                              /\ Takes(d, ws, P, e) /\ \A z \in P : Backed(z, w)
  <2>1. Awaitable(x)
    <3>1. \A o \in WalletOps : x.row[o] \in {"APPLIED", None}
      BY <1>3, <1>4, <1>6, <1>7, OpsAre DEF MadeRows, op, s
    <3>2. x.row["settlement"] = "PREPARED"
      BY <1>3, <1>6, <1>7, OpsAre DEF MadeRows, op
    <3>3. \A o \in Reverts : x.row[o] = None
      BY <1>1, <1>6, OpsAre DEF op
    <3> QED
      BY <3>1, <3>2, <3>3, OpsAre DEF Awaitable, Live
  <2>2. PICK Q, e : /\ Takes(x, markAwaitingRelay(x), Q, e) /\ Beside(x, None, e)
                    /\ \A o \in Ops : e.row[o] = Waits(x, o)
                    /\ \A z \in Q : /\ Beside(x, None, z)
                                    /\ \A o \in Ops : \/ z.row[o] = x.row[o]
                                                      \/ Live(x, o) /\ z.row[o] \in {"APPLIED", "AWAITING_RELAY"}
    BY <1>4, <2>1, TakesAwaiting
  <2>3. ASSUME NEW z \in Q PROVE Backed(z, w)
    <3>1. z \in Rows /\ x.art \subseteq z.art
      BY <2>2 DEF Beside
    <3>2. \A o \in Ops : (Live(z, o) <=> Live(x, o)) /\ (z.row[o] = x.row[o] \/ z.row[o] # "REVERTED")
      BY <2>2 DEF Live, terminal, None
    <3>3. WalletOps \subseteq Ops /\ Reverts \subseteq Ops
      BY OpsAre
    <3> QED
      BY <1>1, <1>4, <1>5, <3>1, <3>2, <3>3, BackedOnward
  <2>4. Takes(d, <<Set(op, s)>> \o markAwaitingRelay(x), {d, x} \cup Q, e)
    BY <1>4, <2>2, TakesBoth
  <2>5. Plan(j, <<Set(op, s)>> \o markAwaitingRelay(x)) /\ build' = [build EXCEPT ![j] = [NoBuild EXCEPT !.pc = "answer"]]
    BY <1>4, <1>7 DEF Complete, d, op, s
  <2>6. [NoBuild EXCEPT !.pc = "answer"].pc \notin WalletOps
    BY OpsAre DEF NoBuild
  <2>7. \A z \in {d, x} \cup Q : Backed(z, w)
    BY <1>1, <1>5, <2>3
  <2> QED
    BY <2>4, <2>5, <2>6, <2>7
<1>8. ASSUME mem[j].timedOut
      PROVE  \E b, ws, P, e : /\ build' = [build EXCEPT ![j] = b] /\ b.pc \notin WalletOps /\ Plan(j, ws)
                              /\ Takes(d, ws, P, e) /\ \A z \in P : Backed(z, w)
  <2>1. x.row["revert"] = None
    BY <1>1, <1>6, OpsAre DEF op
  <2>2. PICK Q, e : /\ Takes(x, RevertRows(x), Q, e)
                    /\ \A z \in Q : /\ z \in Rows
                                    /\ x.art \subseteq z.art
                                    /\ z.row["revert"] \in {x.row["revert"], "PREPARED", "REVERTING"}
                                    /\ \A o \in Ops : o # "revert" => z.row[o] = x.row[o]
    BY <1>4, <2>1, RevertRowsPass
  <2>3. ASSUME NEW z \in Q PROVE Backed(z, w)
    <3>1. z \in Rows /\ x.art \subseteq z.art /\ z.row["revert"] # "REVERTED"
      BY <2>1, <2>2 DEF None
    <3>2. /\ \A o \in WalletOps : Live(z, o) <=> Live(x, o)
          /\ \A o \in Reverts : z.row[o] = x.row[o] \/ z.row[o] # "REVERTED"
      BY <2>2, <3>1, OpsAre DEF Live
    <3> QED
      BY <1>1, <1>4, <1>5, <3>1, <3>2, BackedOnward
  <2>4. Takes(d, <<Set(op, s)>> \o RevertRows(x), {d, x} \cup Q, e)
    BY <1>4, <2>2, TakesBoth
  <2>5. Plan(j, <<Set(op, s)>> \o RevertRows(x)) /\ build' = [build EXCEPT ![j] = NoBuild]
    BY <1>4, <1>8 DEF Complete, d, op, s
  <2>6. NoBuild.pc \notin WalletOps
    BY OpsAre DEF NoBuild
  <2>7. \A z \in {d, x} \cup Q : Backed(z, w)
    BY <1>1, <1>5, <2>3
  <2> QED
    BY <2>4, <2>5, <2>6, <2>7
<1>9. PICK b, ws, P, e : /\ build' = [build EXCEPT ![j] = b] /\ b.pc \notin WalletOps /\ Plan(j, ws)
                         /\ Takes(d, ws, P, e) /\ \A z \in P : Backed(z, w)
  BY <1>7, <1>8
<1>10. relay' = [relay EXCEPT ![j] = r]
  BY DEF r, IInv, Typed
<1>11. Only(j) /\ build'[j] = b /\ relay'[j] = r
  BY <1>9, <1>10, OnlyBuild
<1>12. relay'[j] # "done"
  BY <1>1, <1>11
<1> QED
  BY <1>1, <1>2, <1>9, <1>11, <1>12, WalletHandler DEF d

\* Any half but the last is returned: what it gave is accounted for by its row.
LEMMA NextHalfOwes ==
    ASSUME IInv, WalletInv, Quiet, NEW j \in Jobs, build[j].pc \in WalletOps, build[j].pc # "dustFinal",
           db[j].row[build[j].pc] = "PREPARED", UNCHANGED <<db, relay>>,
           build' = [build EXCEPT ![j].pc = NextOp(build[j].pc), ![j].own = Own(j, build[j].pc)],
           Plan(j, <<Set(build[j].pc, "APPLIED")>>
                     \o (IF build[j].pc = "dust" THEN <<Fee("RESERVED")>> ELSE <<>>)
                     \o <<Set(NextOp(build[j].pc), "PREPARED")>>),
           wallet' = [wallet EXCEPT ![j] = Given(j)]
    PROVE  WalletInv'
<1> DEFINE d == db[j]
           op == build[j].pc
           next == NextOp(op)
           b == [build[j] EXCEPT !.pc = next, !.own = Own(j, op)]
           s == "APPLIED"
           p == "PREPARED"
           x1 == Put(d, Set(op, s))
           wf == IF op = "dust" THEN <<Fee("RESERVED")>> ELSE <<>>
           w == Given(j)
           r == relay[j]
<1>1. /\ d \in Rows /\ w \in SUBSET Contributions /\ Backed(d, w) /\ r \in {"open", "error"}
      /\ (\A o \in Later(op) : d.row[o] = None) /\ (\A o \in Reverts : d.row[o] = None)
      /\ build[j] \in Build
  BY WhileCalling
<1>2. /\ op \in WalletOps /\ op \in Ops \ {"settlement"} /\ op \in Ops
      /\ next \in WalletOps /\ next \in Ops \ {"settlement"} /\ next \in Ops /\ next # op /\ next \in Later(op)
      /\ Later(next) \subseteq Later(op) /\ op \notin Later(op)
      /\ op \notin Reverts /\ Reverts \subseteq Ops /\ Later(op) \subseteq Ops
  BY OpsAre DEF NextOp, Later
<1>3. build' = [build EXCEPT ![j] = b] /\ relay' = [relay EXCEPT ![j] = r]
  BY <1>1 DEF Build, IInv, Typed
<1>4. s \in States /\ p \in States /\ Moves(d.row[op], s) /\ "RESERVED" \in Fees /\ d.row[op] = "PREPARED" /\ Moves(None, p)
  BY StatesAre DEF Fees
<1>5. Plan(j, <<Set(op, s)>> \o wf \o <<Set(next, p)>>)
  OBVIOUS
<1> HIDE DEF x1, d, op, next, b, wf, s, p, w, r
<1>6. Takes(d, <<Set(op, s)>>, {d, x1}, x1) /\ Near(d, op, None, x1) /\ x1.row[op] = "APPLIED" /\ op \in x1.art
  <2>1. /\ Takes(d, <<Set(op, s)>>, {d, x1}, x1) /\ Near(d, op, None, x1) /\ x1.row[op] = s
        /\ s = "APPLIED" => op \in x1.art
    BY <1>1, <1>2, <1>4, RowSet DEF x1
  <2> QED
    BY <2>1 DEF s
<1>7. x1 \in Rows /\ \A o \in Ops : o # op => x1.row[o] = d.row[o]
  BY <1>1, <1>2, <1>6, NearRows
<1>8. Backed(x1, w) /\ NoBare(x1)
  BY <1>1, <1>2, <1>4, <1>6, BackedApplied
<1>9. PICK Q, x2 : /\ Takes(x1, wf, Q, x2) /\ x2 \in Rows /\ x2.row = x1.row /\ NoBare(x2)
                   /\ \A z \in Q \cup {x2} : Backed(z, w)
  <2>1. CASE op = "dust"
    <3> DEFINE f == "RESERVED"
               x == Put(x1, Fee(f))
    <3>1. wf = <<Fee(f)>> /\ f \in Fees
      BY <2>1, <1>4 DEF wf
    <3> HIDE DEF f, x
    <3>2. Takes(x1, <<Fee(f)>>, {x1, x}, x) /\ x \in Rows /\ x.row = x1.row /\ x.art = x1.art
      BY <1>7, <3>1, FeeWritten DEF x
    <3>3. \A o \in WalletOps : Live(x, o) <=> Live(x1, o)
      BY <3>2 DEF Live
    <3>4. Backed(x, w) /\ NoBare(x)
      BY <1>1, <1>7, <1>8, <3>2, <3>3, BackedOnward
    <3>5. \A z \in {x1, x} \cup {x} : Backed(z, w)
      BY <1>8, <3>4
    <3> QED
      BY <3>1, <3>2, <3>4, <3>5
  <2>2. CASE op # "dust"
    <3>1. Takes(x1, wf, {x1}, x1)
      BY <2>2, TakesNone DEF wf
    <3> QED
      BY <1>7, <1>8, <3>1
  <2> QED
    BY <2>1, <2>2
<1> DEFINE x3 == Put(x2, Set(next, p))
<1>10. /\ x2.row[next] = None /\ \A o \in Later(next) : x2.row[o] = None
       /\ \A o \in Reverts : x2.row[o] = None
  BY <1>1, <1>2, <1>7, <1>9
<1>11. Takes(x2, <<Set(next, p)>>, {x2, x3}, x3) /\ Near(x2, next, None, x3) /\ x3.row[next] = "PREPARED"
  <2>1. Moves(x2.row[next], p)
    BY <1>4, <1>10
  <2> HIDE DEF x3
  <2>2. Takes(x2, <<Set(next, p)>>, {x2, x3}, x3) /\ Near(x2, next, None, x3) /\ x3.row[next] = p
    BY <1>2, <1>4, <1>9, <2>1, RowSet DEF x3
  <2> QED
    BY <2>2 DEF p
<1> HIDE DEF x3
<1>12. Backed(x2, w)
  BY <1>9
<1>13. Backed(x3, w)
  BY <1>1, <1>2, <1>9, <1>10, <1>11, <1>12, BackedNext
<1> DEFINE ws == <<Set(op, s)>> \o wf \o <<Set(next, p)>>
           P == ({d, x1} \cup Q) \cup {x2, x3}
<1>14. Takes(d, ws, P, x3)
  BY <1>6, <1>9, <1>11, TakesBoth
<1>15. \A z \in P : Backed(z, w)
  BY <1>1, <1>8, <1>9, <1>13
<1>16. Plan(j, ws)
  BY <1>5
<1> HIDE DEF ws, P
<1>17. Only(j) /\ relay'[j] = r
  BY <1>3, OnlyBuild
<1>18. relay'[j] # "done"
  BY <1>1, <1>17
<1>19. wallet' = [wallet EXCEPT ![j] = w]
  BY DEF w
<1> QED
  BY <1>1, <1>14, <1>15, <1>16, <1>17, <1>18, <1>19, WalletHandler DEF d

\* A call to the wallet returns.
LEMMA WalletReturnsOwes == ASSUME IInv, IInv', WalletInv, NEW j \in Jobs, WalletReturns(j) PROVE WalletInv'
<1> DEFINE op == build[j].pc
           d == db[j]
           w == Given(j)
<1>1. Quiet /\ op \in WalletOps /\ UNCHANGED <<db, relay>> /\ wallet' = [wallet EXCEPT ![j] = w]
  BY DEF WalletReturns, WalletInv, Given
<1>2. CASE d.row[op] = "PREPARED" /\ op = "dustFinal" /\ Complete(j, After(db[j], <<Set(op, "APPLIED")>>))
  <2>1. wallet' = [wallet EXCEPT ![j] = @ \cup (Contributions \cap {"dustFinal"})]
    BY <1>2 DEF WalletReturns
  <2> QED
    BY <1>1, <1>2, <2>1, CompleteOwes
<1>3. CASE /\ d.row[op] = "PREPARED" /\ op # "dustFinal"
           /\ build' = [build EXCEPT ![j].pc = NextOp(op), ![j].own = Own(j, op)]
           /\ Plan(j, <<Set(op, "APPLIED")>>
                        \o (IF op = "dust" THEN <<Fee("RESERVED")>> ELSE <<>>)
                        \o <<Set(NextOp(op), "PREPARED")>>)
  BY <1>1, <1>3, NextHalfOwes
<1>4. CASE /\ d.row[op] = "PREPARED" /\ ToCleanup(j, Own(j, op)) /\ Plan(j, <<Set(op, "APPLIED")>>)
  <2> DEFINE b == [build[j] EXCEPT !.pc = "cleanup", !.own = Own(j, op)]
             s == "APPLIED"
             x == Put(d, Set(op, s))
             ws == <<Set(op, s)>>
             P == {d, x}
             r == relay[j]
  <2>1. /\ d \in Rows /\ w \in SUBSET Contributions /\ Backed(d, w) /\ r \in {"open", "error"}
        /\ (\A o \in Later(op) : d.row[o] = None) /\ build[j] \in Build
    BY <1>1, WhileCalling
  <2>2. op \in Ops \ {"settlement"} /\ Moves(d.row[op], s) /\ s \in States
    BY <1>1, <1>4, OpsAre, StatesAre
  <2>3. b.pc = "cleanup" /\ build' = [build EXCEPT ![j] = b] /\ relay' = [relay EXCEPT ![j] = r]
    BY <1>1, <1>4, <2>1 DEF Build, ToCleanup, IInv, Typed
  <2> HIDE DEF d, x, op, b, s, w, r
  <2>4. Takes(d, ws, P, x) /\ Near(d, op, None, x) /\ x.row[op] = s /\ (s = "APPLIED" => op \in x.art)
    BY <2>1, <2>2, RowSet DEF x
  <2>5. Backed(x, w)
    BY <1>1, <1>4, <2>1, <2>4, BackedApplied DEF s
  <2>6. \A z \in P : Backed(z, w)
    BY <2>1, <2>5
  <2>7. Plan(j, ws)
    BY <1>4 DEF s
  <2>8. Only(j) /\ relay'[j] = r
    BY <1>1, <2>3, OnlyBuild
  <2>9. relay'[j] # "done"
    BY <2>1, <2>8
  <2> HIDE DEF ws, P
  <2> QED
    BY <1>1, <2>1, <2>4, <2>6, <2>7, <2>8, <2>9, WalletHandler DEF d
<1>5. CASE ToCleanup(j, build[j].own) /\ UNCHANGED <<mem, chain, plan>>
  <2>1. w \in SUBSET Given(j)
    OBVIOUS
  <2> QED
    BY <1>1, <1>5, <2>1, CallUnwritten
<1> QED
  BY <1>2, <1>3, <1>4, <1>5 DEF WalletReturns

\* The cleanup writes of one contribution whose call has returned, and that stays live.
LEMMA CleansRow ==
    ASSUME IInv, WalletInv, Quiet, NEW j \in Jobs, Only(j), NoCall(j), relay'[j] = relay[j], NEW op \in WalletOps,
           db[j].row[op] \in {"APPLIED", "REVERTING"}, NEW s \in {"REVERTING", "QUARANTINED"}, Moves(db[j].row[op], s),
           NEW y \in Whys, Plan(j, <<Because(op, s, y)>>), NEW v \in SUBSET wallet[j], wallet' = [wallet EXCEPT ![j] = v]
    PROVE  WalletInv'
<1> DEFINE d == db[j]
           x == Put(d, Because(op, s, y))
           ws == <<Because(op, s, y)>>
           P == {d, x}
<1>1. d \in Rows /\ wallet[j] \in SUBSET Contributions
  BY AtRest, Owes
<1>2. op \in Ops \ {"settlement"} /\ op \in Ops /\ s \in States /\ Live(d, op)
      /\ (\A e : e.row[op] = s => Live(e, op) /\ s \notin {None, "APPLIED"}) /\ Moves(d.row[op], s)
  BY OpsAre, StatesAre DEF Live, terminal, None
<1> HIDE DEF d, x
<1>3. Takes(d, ws, P, x) /\ Near(d, op, y, x) /\ x.row[op] = s
  <2>1. d \in Rows
    BY <1>1 DEF d
  <2> QED
    BY <1>2, <2>1, RowWritten DEF x
<1>4. x \in Rows /\ d.art \subseteq x.art /\ \A o \in Ops : o # op => x.row[o] = d.row[o]
  BY <1>1, <1>2, <1>3, NearRows
<1>5. ASSUME Backed(d, wallet[j]) PROVE \A z \in P : Backed(z, v)
  <2> DEFINE S == {op}
  <2>1. ~Bare(d, op)
    BY <1>5 DEF Backed, BareOK, d
  <2>2. \A c \in v : (Live(d, c) => Live(x, c)) /\ (Live(d, FinalOf[c]) => Live(x, FinalOf[c]))
    <3>1. \A o \in WalletOps : Live(d, o) => Live(x, o)
      BY <1>2, <1>3, <1>4, OpsAre DEF Live
    <3>2. \A c \in v : c \in WalletOps /\ FinalOf[c] \in WalletOps
      BY <1>1, FinalIs
    <3> QED
      BY <3>1, <3>2
  <2>3. /\ S \in SUBSET WalletOps /\ (\A o \in S : ~Bare(d, o)) /\ (\A o \in Ops : o \notin S => x.row[o] = d.row[o])
        /\ \A o \in S : x.row[o] = d.row[o] \/ (Live(d, o) /\ x.row[o] \notin {None, "APPLIED"})
    BY <1>2, <1>3, <1>4, <2>1
  <2> HIDE DEF S
  <2>4. MovesOn(d, S, x, v)
    BY <1>4, <2>2, <2>3 DEF MovesOn
  <2>5. Backed(x, v)
    BY <1>1, <1>5, <2>4, BackedMoves
  <2> QED
    BY <1>5, <2>5, BackedLess
<1>6. Plan(j, ws)
  OBVIOUS
<1> HIDE DEF ws, P
<1> QED
  BY <1>3, <1>5, <1>6, WalletLess DEF d

\* A step of the cleanup is one of its job, and begins no call.
LEMMA CleaningUp ==
    ASSUME IInv, NEW j \in Jobs, UNCHANGED <<db, relay>>, NEW b, build' = [build EXCEPT ![j] = b], b.pc = "cleanup"
    PROVE  Only(j) /\ NoCall(j) /\ relay'[j] = relay[j]
<1> DEFINE r == relay[j]
<1>1. relay' = [relay EXCEPT ![j] = r]
  BY DEF IInv, Typed
<1> HIDE DEF r
<1>2. Only(j) /\ build'[j] = b
  BY <1>1, OnlyBuild
<1> QED
  BY <1>2, OpsAre DEF NoCall

\* The deadline of a build.
LEMMA TimeoutOwes == ASSUME IInv, IInv', WalletInv, NEW j \in Jobs, Timeout(j) PROVE WalletInv'
<1>1. /\ Quiet /\ Plan(j, quarantineGroup(db[j], "local")) /\ relay' = Answered(j) /\ UNCHANGED <<db, build, wallet>>
  BY DEF Timeout
<1>2. Only(j) /\ NoCall(j) /\ wallet' = [wallet EXCEPT ![j] = wallet[j]] /\ (relay'[j] # "done" \/ relay'[j] = relay[j])
  BY <1>1 DEF Only, NoCall, Answered, IInv, Typed, WalletInv
<1> DEFINE y == "local"
           v == wallet[j]
<1>3. y \in {"local", "relay"} /\ Plan(j, quarantineGroup(db[j], y)) /\ v \in SUBSET wallet[j] /\ wallet' = [wallet EXCEPT ![j] = v]
  BY <1>1, <1>2
<1> HIDE DEF y, v
<1> QED
  BY <1>1, <1>2, <1>3, WalletHolds

\* The cleanup leaves a contribution it cannot revert, or begins to revert it.
LEMMA CleanupCallOwes == ASSUME IInv, IInv', WalletInv, NEW j \in Jobs, CleanupCall(j) PROVE WalletInv'
<1> DEFINE op == First(build[j].own)
           v == wallet[j]
<1>1. Quiet /\ build[j].pc = "cleanup" /\ build[j].own # {} /\ UNCHANGED <<db, relay, wallet>>
  BY DEF CleanupCall, world
<1>2. build[j] \in Build
  BY <1>1, AtRest
<1>3. op \in WalletOps
  BY <1>1, <1>2, FirstIn DEF Build
<1>4. wallet' = [wallet EXCEPT ![j] = v] /\ v \in SUBSET wallet[j]
  BY <1>1 DEF WalletInv
<1>5. CASE db[j].row[op] = "APPLIED"
  <2> DEFINE b == [build[j] EXCEPT !.call = TRUE]
             s == "REVERTING"
             y == None
  <2>1. build' = [build EXCEPT ![j].call = TRUE] /\ Plan(j, <<Set(op, s)>>)
    BY <1>5 DEF CleanupCall
  <2>2. b.pc = "cleanup" /\ build' = [build EXCEPT ![j] = b]
    BY <1>1, <1>2, <2>1 DEF Build, IInv, Typed
  <2>3. Moves(db[j].row[op], s) /\ s \in {"REVERTING", "QUARANTINED"} /\ y \in Whys /\ Set(op, s) = Because(op, s, y)
    BY <1>5, StatesAre DEF terminal, Whys, Set, Because
  <2>4. Plan(j, <<Because(op, s, y)>>)
    BY <2>1, <2>3
  <2> HIDE DEF op, v, b, s, y
  <2>5. Only(j) /\ NoCall(j) /\ relay'[j] = relay[j]
    BY <1>1, <2>2, CleaningUp
  <2> QED
    BY <1>1, <1>3, <1>4, <1>5, <2>3, <2>4, <2>5, CleansRow
<1>6. CASE db[j].row[op] # "APPLIED"
  <2> DEFINE b == [build[j] EXCEPT !.own = @ \ {op}, !.failed = @ \cup {Kind(op)}, !.call = FALSE]
  <2>1. CleanupFails(j, op) /\ UNCHANGED plan
    BY <1>6 DEF CleanupCall
  <2>2. b.pc = "cleanup" /\ build' = [build EXCEPT ![j] = b]
    BY <1>1, <1>2, <2>1 DEF Build, IInv, Typed, CleanupFails
  <2> HIDE DEF op, v, b
  <2>3. Only(j) /\ NoCall(j) /\ relay'[j] = relay[j]
    BY <1>1, <2>2, CleaningUp
  <2> QED
    BY <1>1, <1>4, <2>1, <2>3, WalletStill
<1> QED
  BY <1>5, <1>6

\* The writes that revert the row of a contribution touch no other row.
LEMMA RevertRowPass ==
    ASSUME NEW d, NEW x \in Rows, NEW op \in WalletOps, d.row[op] = x.row[op], Live(x, op), x.row[op] # "RELAY_SUBMITTED"
    PROVE  \E P, e : /\ Takes(x, RevertRow(d, op), P, e)
                     /\ \A z \in P : /\ z \in Rows /\ x.art \subseteq z.art /\ z.row[op] \in {x.row[op], "REVERTING", "REVERTED"}
                                     /\ \A o \in Ops : o # op => z.row[o] = x.row[o]
<1> DEFINE v == "REVERTING"
           t == "REVERTED"
           y == Put(x, Set(op, v))
           z1 == Put(x, Set(op, t))
           z2 == Put(y, Set(op, t))
           All(z) == /\ z \in Rows /\ x.art \subseteq z.art /\ z.row[op] \in {x.row[op], v, t}
                     /\ \A o \in Ops : o # op => z.row[o] = x.row[o]
<1>1. op \in Ops \ {"settlement"} /\ op \in Ops /\ v \in States /\ t \in States
      /\ (x.row[op] \in {"QUARANTINED", v} => Moves(x.row[op], t)) /\ Moves(v, t)
      /\ (x.row[op] \notin {"QUARANTINED", v} => Moves(x.row[op], v))
  <2>1. op \in Ops \ {"settlement"} /\ op \in Ops
    BY OpsAre
  <2>2. x.row[op] \in States \ terminal
    BY <2>1 DEF Live, Rows
  <2> QED
    BY <2>1, <2>2, StatesAre
<1>2. /\ x.row[op] \in {"QUARANTINED", v} => RevertRow(d, op) = <<Set(op, t)>>
      /\ x.row[op] \notin {"QUARANTINED", v} => RevertRow(d, op) = <<Set(op, v), Set(op, t)>>
  BY DEF RevertRow
<1>3. \A P : (\A z \in P : All(z))
         => \A z \in P : /\ z \in Rows /\ x.art \subseteq z.art /\ z.row[op] \in {x.row[op], "REVERTING", "REVERTED"}
                         /\ \A o \in Ops : o # op => z.row[o] = x.row[o]
  OBVIOUS
<1>4. All(x)
  OBVIOUS
<1> HIDE DEF v, t, y, z1, z2
<1>5. CASE x.row[op] \in {"QUARANTINED", v}
  <2>1. Takes(x, <<Set(op, t)>>, {x, z1}, z1) /\ Near(x, op, None, z1) /\ z1.row[op] = t
    BY <1>1, <1>5, RowSet DEF z1
  <2>2. All(z1)
    BY <1>1, <2>1, NearRows
  <2>3. \A z \in {x, z1} : All(z)
    BY <1>4, <2>2
  <2> HIDE DEF All
  <2> DEFINE P == {x, z1}
  <2>4. \A z \in P : All(z)
    BY <2>3
  <2>5. Takes(x, RevertRow(d, op), P, z1)
    BY <1>2, <1>5, <2>1
  <2> HIDE DEF P
  <2>6. \A z \in P : /\ z \in Rows /\ x.art \subseteq z.art /\ z.row[op] \in {x.row[op], "REVERTING", "REVERTED"}
                      /\ \A o \in Ops : o # op => z.row[o] = x.row[o]
    BY <1>3, <2>4
  <2> QED
    BY <2>5, <2>6
<1>6. CASE x.row[op] \notin {"QUARANTINED", v}
  <2>1. Takes(x, <<Set(op, v)>>, {x, y}, y) /\ Near(x, op, None, y) /\ y \in Rows /\ y.row[op] = v
    BY <1>1, <1>6, RowSet DEF y
  <2>2. Takes(y, <<Set(op, t)>>, {y, z2}, z2) /\ Near(y, op, None, z2) /\ z2.row[op] = t
    BY <1>1, <2>1, RowSet DEF z2
  <2>3. All(y)
    BY <1>1, <2>1, NearRows
  <2>4. All(z2)
    <3>1. z2 \in Rows /\ y.art \subseteq z2.art /\ \A o \in Ops : o # op => z2.row[o] = y.row[o]
      BY <1>1, <2>1, <2>2, NearRows
    <3> QED
      BY <2>2, <2>3, <3>1
  <2>5. <<Set(op, v), Set(op, t)>> = <<Set(op, v)>> \o <<Set(op, t)>>
    <3>1. Set(op, v) \in {Set(op, v), Set(op, t)} /\ Set(op, t) \in {Set(op, v), Set(op, t)}
      OBVIOUS
    <3> QED
      BY <3>1, PairOf, Zenon
  <2>6. Takes(x, RevertRow(d, op), {x, y} \cup {y, z2}, z2)
    <3>1. RevertRow(d, op) = <<Set(op, v)>> \o <<Set(op, t)>>
      BY <1>2, <1>6, <2>5
    <3> QED
      BY <2>1, <2>2, <3>1, TakesBoth
  <2> HIDE DEF All
  <2> DEFINE P == {x, y} \cup {y, z2}
  <2>7. \A z \in P : All(z)
    BY <1>4, <2>3, <2>4
  <2>8. Takes(x, RevertRow(d, op), P, z2)
    BY <2>6
  <2> HIDE DEF P
  <2>9. \A z \in P : /\ z \in Rows /\ x.art \subseteq z.art /\ z.row[op] \in {x.row[op], "REVERTING", "REVERTED"}
                      /\ \A o \in Ops : o # op => z.row[o] = x.row[o]
    BY <1>3, <2>7
  <2> QED
    BY <2>8, <2>9
<1> QED
  BY <1>5, <1>6

\* The revert of a contribution has returned: its row ends, and the row of what it was made of.
LEMMA CleanupRevertedOwes ==
    ASSUME IInv, IInv', WalletInv, Quiet, NEW j \in Jobs, Only(j), NoCall(j), relay'[j] = relay[j],
           NEW op \in WalletOps, db[j].row[op] = "REVERTING",
           NEW w2, w2 = (IF op \in Finals /\ Live(db[j], SourceOf[op])
                         THEN RevertRow(db[j], SourceOf[op]) ELSE <<>>),
           Plan(j, <<Set(op, "REVERTED")>> \o w2),
           NEW v \in SUBSET wallet[j], v \cap Part(op) = {}, wallet' = [wallet EXCEPT ![j] = v]
    PROVE  WalletInv'
<1> DEFINE d == db[j]
           t == "REVERTED"
           x == Put(d, Set(op, t))
           w1 == <<Set(op, t)>>
           src == SourceOf[op]
           S == {op} \cup (IF op \in Finals THEN {src} ELSE {})
           w == wallet[j]
<1>1. d \in Rows /\ w \in SUBSET Contributions /\ v \in SUBSET w
  BY AtRest, Owes
<1>2. op \in Ops \ {"settlement"} /\ op \in Ops /\ t \in States /\ Moves(d.row[op], t) /\ t \notin {None, "APPLIED"}
  BY OpsAre, StatesAre DEF None
<1>3. S \in SUBSET WalletOps /\ WalletOps \subseteq Ops /\ (op \in Finals => src # op /\ src \in WalletOps)
  BY OpsAre DEF Finals, SourceOf
<1>4. w2 = IF op \in Finals /\ Live(d, src) THEN RevertRow(d, src) ELSE <<>>
  OBVIOUS
<1>5. \A c \in v : c \notin S /\ FinalOf[c] \notin S
  <2>1. op \in Finals \/ op \in Contributions
    BY DEF WalletOps
  <2>2. Part(op) = IF op \in {"residual", "residualFinal"} THEN {"residual"} ELSE {"dust"}
    <3>1. Reverted(op) = {op}
      BY OpsAre DEF Reverted, Artifacts
    <3> QED
      BY <3>1, OpsAre DEF Part
  <2> QED
    BY <1>1, <2>1, <2>2, OpsAre, FinalIs DEF Finals, SourceOf
<1>6. d.row[op] = "REVERTING" /\ Live(d, op) /\ Plan(j, w1 \o w2)
  BY DEF Live, terminal, None
<1> HIDE DEF d, x, t, src, S, w
<1>7. Takes(d, w1, {d, x}, x) /\ Near(d, op, None, x) /\ x \in Rows /\ x.row[op] = t
  BY <1>1, <1>2, RowSet DEF x
<1>8. d.art \subseteq x.art /\ \A o \in Ops : o # op => x.row[o] = d.row[o]
  BY <1>1, <1>2, <1>7, NearRows
<1>9. ASSUME Truth(d, relay[j]), relay[j] # "done"
      PROVE  \E Q, e : /\ Takes(x, w2, Q, e)
                       /\ \A z \in Q : /\ z \in Rows /\ x.art \subseteq z.art /\ z.row[op] = t
                                       /\ \A o \in Ops : o \notin S => z.row[o] = x.row[o]
                                       /\ op \in Finals => z.row[src] = x.row[src]
                                                             \/ (Live(d, src) /\ z.row[src] \in {"REVERTING", "REVERTED"})
  <2>1. CASE op \in Finals /\ Live(d, src)
    <3>1. w2 = RevertRow(d, src) /\ src \in WalletOps /\ src # op /\ src \in Ops
      BY <1>3, <1>4, <2>1
    <3>2. d.row[src] = x.row[src] /\ Live(x, src) /\ x.row[src] # "RELAY_SUBMITTED"
      BY <1>8, <1>9, <2>1, <3>1 DEF Live, Truth, Unsent
    <3>3. PICK Q, e : /\ Takes(x, RevertRow(d, src), Q, e)
                      /\ \A z \in Q : /\ z \in Rows /\ x.art \subseteq z.art /\ z.row[src] \in {x.row[src], "REVERTING", "REVERTED"}
                                      /\ \A o \in Ops : o # src => z.row[o] = x.row[o]
      <4>1. x \in Rows /\ src \in WalletOps /\ d.row[src] = x.row[src] /\ Live(x, src) /\ x.row[src] # "RELAY_SUBMITTED"
        BY <1>7, <3>1, <3>2
      <4> QED
        BY <4>1, RevertRowPass
    <3>4. src \in S
      BY <2>1 DEF S
    <3>5. \A z \in Q : /\ z \in Rows /\ x.art \subseteq z.art /\ z.row[op] = t
                       /\ \A o \in Ops : o \notin S => z.row[o] = x.row[o]
                       /\ z.row[src] = x.row[src] \/ (Live(d, src) /\ z.row[src] \in {"REVERTING", "REVERTED"})
      BY <1>2, <1>7, <2>1, <3>1, <3>3, <3>4
    <3> QED
      BY <3>1, <3>3, <3>5
  <2>2. CASE ~(op \in Finals /\ Live(d, src))
    <3>1. Takes(x, w2, {x}, x)
      BY <1>4, <2>2, TakesNone
    <3> QED
      BY <1>7, <3>1
  <2> QED
    BY <2>1, <2>2
<1>10. Truth(d, relay[j]) /\ (Due(j) => relay[j] # "done" /\ Backed(d, w))
  BY AtRest, Owes DEF d, w
<1>11. CASE Due(j)
  <2>1. PICK Q, e : /\ Takes(x, w2, Q, e)
                    /\ \A z \in Q : /\ z \in Rows /\ x.art \subseteq z.art /\ z.row[op] = t
                                    /\ \A o \in Ops : o \notin S => z.row[o] = x.row[o]
                                    /\ op \in Finals => z.row[src] = x.row[src]
                                                          \/ (Live(d, src) /\ z.row[src] \in {"REVERTING", "REVERTED"})
    BY <1>9, <1>10, <1>11
  <2>2. \A o \in S : ~Bare(d, o)
    <3>1. ~Bare(d, op)
      BY <1>6, <1>10, <1>11 DEF Backed, BareOK
    <3>2. op \in Finals => ~Bare(d, src)
      <4>1. op \in Finals => op \in Later(src)
        BY OpsAre DEF Later, Finals, src, SourceOf
      <4> QED
        BY <1>3, <1>6, <1>10, <1>11, <4>1 DEF Backed, BareOK, None
    <3> QED
      BY <3>1, <3>2 DEF S
  <2>3. ASSUME NEW z \in {x} \cup Q PROVE Backed(z, v)
    <3>1. /\ z \in Rows /\ d.art \subseteq z.art /\ z.row[op] = t /\ (\A o \in Ops : o \notin S => z.row[o] = d.row[o])
          /\ op \in Finals => z.row[src] = d.row[src] \/ (Live(d, src) /\ z.row[src] \in {"REVERTING", "REVERTED"})
      <4>1. op \in S
        BY DEF S
      <4> QED
        BY <1>3, <1>7, <1>8, <2>1, <2>3, <4>1
    <3>2. \A o \in S : z.row[o] = d.row[o] \/ (Live(d, o) /\ z.row[o] \notin {None, "APPLIED"})
      BY <1>2, <1>6, <3>1 DEF S, None
    <3>3. \A c \in v : (Live(d, c) => Live(z, c)) /\ (Live(d, FinalOf[c]) => Live(z, FinalOf[c]))
      <4>1. \A c \in v : z.row[c] = d.row[c] /\ z.row[FinalOf[c]] = d.row[FinalOf[c]]
        BY <1>1, <1>3, <1>5, <3>1, FinalIs
      <4> QED
        BY <4>1 DEF Live
    <3>4. MovesOn(d, S, z, v)
      BY <1>3, <2>2, <3>1, <3>2, <3>3 DEF MovesOn
    <3> QED
      BY <1>1, <1>10, <1>11, <3>4, BackedMoves
  <2> DEFINE P == {d, x} \cup Q
             ws == w1 \o w2
  <2>4. Backed(d, v)
    BY <1>1, <1>10, <1>11, BackedLess
  <2>5. \A z \in P : Backed(z, v)
    BY <2>3, <2>4
  <2>6. Plan(j, ws) /\ relay'[j] # "done"
    BY <1>6, <1>10, <1>11
  <2> HIDE DEF w1
  <2>7. Takes(d, ws, P, e)
    BY <1>7, <2>1, TakesBoth
  <2> HIDE DEF P, ws
  <2> QED
    BY <1>1, <2>5, <2>6, <2>7, WalletLess DEF d, w
<1>12. CASE ~Due(j)
  <2>1. wallet[j] = {} /\ build'[j].pc \notin WalletOps
    BY <1>12 DEF Due, NoCall
  <2>2. wallet' = [wallet EXCEPT ![j] = {}] /\ v = {}
    BY <2>1
  <2> DEFINE ws == w1 \o w2
  <2>3. Plan(j, ws)
    BY <1>6
  <2> HIDE DEF ws
  <2> QED
    BY <2>1, <2>2, <2>3, WalletEmpty
<1> QED
  BY <1>11, <1>12

\* The revert of a contribution ends: it is reverted, or its outcome is not known.
LEMMA CleanupReturnsOwes == ASSUME IInv, IInv', WalletInv, NEW j \in Jobs, CleanupReturns(j) PROVE WalletInv'
<1> DEFINE op == First(build[j].own)
           d == db[j]
           b == [build[j] EXCEPT !.own = @ \ {op}, !.failed = @ \cup {Kind(op)}, !.call = FALSE]
<1>1. Quiet /\ build[j].call /\ UNCHANGED <<db, relay>> /\ wallet' \in {wallet, [wallet EXCEPT ![j] = @ \ Part(op)]}
  BY DEF CleanupReturns
<1>2. build[j].pc = "cleanup" /\ build[j].own # {} /\ build[j] \in Build
  <2>1. JobOK(j) /\ build[j] \in Build
    BY <1>1, AtRest
  <2> QED
    BY <1>1, <2>1 DEF JobOK, BuildOK
<1>3. op \in WalletOps
  BY <1>2, FirstIn DEF Build
<1>4. \E v \in SUBSET wallet[j] : wallet' = [wallet EXCEPT ![j] = v]
  <2>1. wallet = [wallet EXCEPT ![j] = wallet[j]]
    BY DEF WalletInv
  <2>2. wallet' = [wallet EXCEPT ![j] = wallet[j]] \/ wallet' = [wallet EXCEPT ![j] = wallet[j] \ Part(op)]
    BY <1>1, <2>1
  <2>3. wallet[j] \in SUBSET wallet[j] /\ wallet[j] \ Part(op) \in SUBSET wallet[j]
    OBVIOUS
  <2> QED
    BY <2>2, <2>3
<1>5. CASE /\ d.row[op] = "REVERTING"
           /\ build' = [build EXCEPT ![j].own = @ \ {op}, ![j].call = FALSE]
           /\ wallet' = [wallet EXCEPT ![j] = @ \ Part(op)]
           /\ Plan(j, <<Set(op, "REVERTED")>> \o (IF op \in Finals /\ Live(d, SourceOf[op])
                                                  THEN RevertRow(d, SourceOf[op]) ELSE <<>>))
  <2> DEFINE c == [build[j] EXCEPT !.own = @ \ {op}, !.call = FALSE]
             w2 == IF op \in Finals /\ Live(d, SourceOf[op]) THEN RevertRow(d, SourceOf[op]) ELSE <<>>
             v == wallet[j] \ Part(op)
  <2>1. c.pc = "cleanup" /\ build' = [build EXCEPT ![j] = c]
    BY <1>2, <1>5 DEF Build, IInv, Typed
  <2>2. w2 = (IF op \in Finals /\ Live(db[j], SourceOf[op]) THEN RevertRow(db[j], SourceOf[op]) ELSE <<>>)
        /\ Plan(j, <<Set(op, "REVERTED")>> \o w2) /\ db[j].row[op] = "REVERTING"
    BY <1>5
  <2>3. v \in SUBSET wallet[j] /\ v \cap Part(op) = {} /\ wallet' = [wallet EXCEPT ![j] = v]
    BY <1>5
  <2> HIDE DEF op, c, w2, v, d
  <2>4. Only(j) /\ NoCall(j) /\ relay'[j] = relay[j]
    BY <1>1, <2>1, CleaningUp
  <2> QED
    BY <1>1, <1>3, <2>2, <2>3, <2>4, CleanupRevertedOwes
<1>6. ASSUME CleanupFails(j, op) PROVE b.pc = "cleanup" /\ build' = [build EXCEPT ![j] = b]
  BY <1>2, <1>6 DEF Build, IInv, Typed, CleanupFails
<1>7. CASE d.row[op] = "REVERTING" /\ CleanupFails(j, op) /\ Plan(j, <<Because(op, "QUARANTINED", "local")>>)
  <2> DEFINE y == "local"
             s == "QUARANTINED"
  <2>1. /\ db[j].row[op] \in {"APPLIED", "REVERTING"} /\ s \in {"REVERTING", "QUARANTINED"} /\ Moves(db[j].row[op], s)
        /\ y \in Whys /\ Plan(j, <<Because(op, s, y)>>)
    BY <1>7, StatesAre DEF Whys
  <2>2. b.pc = "cleanup" /\ build' = [build EXCEPT ![j] = b]
    BY <1>6, <1>7
  <2>3. PICK v \in SUBSET wallet[j] : wallet' = [wallet EXCEPT ![j] = v]
    BY <1>4
  <2> HIDE DEF op, b, s, y, d
  <2>4. Only(j) /\ NoCall(j) /\ relay'[j] = relay[j]
    BY <1>1, <2>2, CleaningUp
  <2> QED
    BY <1>1, <1>3, <2>1, <2>3, <2>4, CleansRow
<1>8. CASE CleanupFails(j, op) /\ UNCHANGED plan
  <2>1. b.pc = "cleanup" /\ build' = [build EXCEPT ![j] = b]
    BY <1>6, <1>8
  <2>2. PICK v \in SUBSET wallet[j] : wallet' = [wallet EXCEPT ![j] = v]
    BY <1>4
  <2> HIDE DEF op, b
  <2>3. Only(j) /\ NoCall(j) /\ relay'[j] = relay[j]
    BY <1>1, <2>1, CleaningUp
  <2> QED
    BY <1>1, <1>8, <2>2, <2>3, WalletStill
<1> QED
  BY <1>5, <1>7, <1>8 DEF CleanupReturns

\* The build has failed, and its cleanup is over.
LEMMA CleanupDoneOwes == ASSUME IInv, IInv', WalletInv, NEW j \in Jobs, CleanupDone(j) PROVE WalletInv'
<1>1. Quiet /\ db' = db /\ wallet' = wallet /\ build' = [build EXCEPT ![j] = NoBuild] /\ relay' = Answered(j)
  BY DEF CleanupDone
<1>2. Only(j) /\ build'[j].pc \notin WalletOps /\ (relay'[j] # "done" \/ relay'[j] = relay[j])
  BY <1>1, OpsAre DEF Only, Answered, IInv, Typed, NoBuild
<1>3. CASE Unresolved(db[j]) = {}
  <2>1. wallet[j] = {}
    <3>1. \A op \in WalletOps : ~Live(db[j], op)
      BY <1>3, OpsAre DEF Unresolved
    <3> QED
      BY <1>1, <3>1, NothingLive
  <2>2. \E ws : Plan(j, ws)
    BY <1>3 DEF CleanupDone
  <2> QED
    BY <1>1, <1>2, <2>1, <2>2, WalletNone
<1>4. CASE Unresolved(db[j]) # {}
  <2> DEFINE y == "local"
             v == wallet[j]
  <2>1. Plan(j, quarantineGroup(db[j], y)) /\ y \in {"local", "relay"} /\ v \in SUBSET wallet[j]
        /\ wallet' = [wallet EXCEPT ![j] = v]
    BY <1>1, <1>4 DEF CleanupDone, WalletInv
  <2> HIDE DEF y, v
  <2>2. NoCall(j)
    BY <1>2 DEF NoCall
  <2> QED
    BY <1>1, <1>2, <2>1, <2>2, WalletHolds
<1> QED
  BY <1>3, <1>4

\* The half is sent, or the socket is gone.
LEMMA AnswerOwes == ASSUME IInv, IInv', WalletInv, NEW j \in Jobs, Answer(j) PROVE WalletInv'
<1> DEFINE v == wallet[j]
<1>1. /\ Quiet /\ build' = [build EXCEPT ![j] = NoBuild] /\ UNCHANGED <<db, plan, wallet>>
      /\ relay' \in {relay, [relay EXCEPT ![j] = IF @ = "open" THEN "half" ELSE @]}
  BY DEF Answer
<1>2. /\ Only(j) /\ NoCall(j) /\ (relay'[j] # "done" \/ relay'[j] = relay[j])
      /\ v \in SUBSET wallet[j] /\ wallet' = [wallet EXCEPT ![j] = v]
  BY <1>1, OpsAre DEF Only, NoCall, IInv, Typed, NoBuild, WalletInv
<1> HIDE DEF v
<1> QED
  BY <1>1, <1>2, WalletStill

-----------------------------------------------------------------------------
(* The operations of terminalChains.                                       *)

\* A step that changes neither the builds nor what the wallet has.
Apart == UNCHANGED <<db, build, relay>>
LEMMA ApartIs ==
    ASSUME IInv, WalletInv, Apart, NEW j \in Jobs
    PROVE  /\ Only(j) /\ NoCall(j) /\ relay'[j] = relay[j]
           /\ wallet' = wallet => wallet' = [wallet EXCEPT ![j] = wallet[j]]
  BY DEF Apart, Only, NoCall, IInv, Typed, WalletInv

\* quarantineEvidence: nothing is known yet.
LEMMA EvidenceOwes ==
    ASSUME IInv, WalletInv, Quiet, NEW j \in Jobs, Apart, wallet' = wallet,
           NEW pre, NEW Q, NEW x, Leads(db[j], pre, Q, x), NEW r, quarantineEvidence(j, r, pre)
    PROVE  WalletInv'
<1> DEFINE d == db[j]
           w == wallet[j]
           y == "relay"
<1>1. d \in Rows /\ w \in SUBSET Contributions /\ Only(j) /\ NoCall(j) /\ relay'[j] = relay[j]
  BY AtRest, Owes, ApartIs
<1>2. Holding(d, y, x) /\ x = After(d, pre) /\ Takes(d, pre, Q, x) /\ \A z \in Q : Holding(d, y, z)
  BY LeadsTo DEF Leads
<1>3. x \in Rows
  BY <1>2 DEF Holding, Beside
<1>4. PICK H, e : /\ Takes(x, quarantineGroup(x, y), H, e) /\ \A z \in H : Holding(x, y, z)
  BY <1>3, TakesHold
<1> DEFINE ws == pre \o quarantineGroup(x, y)
           P == Q \cup H
<1>5. Plan(j, ws)
  BY <1>2 DEF quarantineEvidence
<1> HIDE DEF d, w, y
<1>6. Takes(d, ws, P, e)
  BY <1>2, <1>4, TakesBoth
<1>7. ASSUME Backed(d, w) PROVE \A z \in P : Backed(z, w)
  <2>1. \A z \in Q \cup {x} : Backed(z, w)
    BY <1>1, <1>2, <1>7, BackedHolding
  <2>2. \A z \in H : Backed(z, w)
    BY <1>1, <1>3, <1>4, <2>1, BackedHolding
  <2> QED
    BY <2>1, <2>2
<1> HIDE DEF ws, P
<1> QED
  BY <1>1, <1>5, <1>6, <1>7, WalletAlone DEF d, w

\* reconcileRelayFailure: the relay gave the job up.
LEMMA RelayFailureOwes ==
    ASSUME IInv, WalletInv, Quiet, NEW j \in Jobs, Apart, wallet' = wallet,
           NEW pre, NEW Q, NEW x, Leads(db[j], pre, Q, x), NEW r, reconcileRelayFailure(j, r, pre)
    PROVE  WalletInv'
<1> DEFINE d == db[j]
           w == wallet[j]
           y == "relay"
           wr == Receipt("error")
           e == Put(x, wr)
           ws == pre \o <<wr>>
           P == Q \cup {x, e}
<1>1. d \in Rows /\ w \in SUBSET Contributions /\ Only(j) /\ NoCall(j) /\ relay'[j] = relay[j]
  BY AtRest, Owes, ApartIs
<1>2. Holding(d, y, x) /\ Takes(d, pre, Q, x) /\ \A z \in Q : Holding(d, y, z)
  BY LeadsTo DEF Leads
<1>3. x \in Rows
  BY <1>2 DEF Holding, Beside
<1>4. wr \in Writes /\ e = [x EXCEPT !.receipt = "error"] /\ e \in Rows /\ Accepted(x, wr)
  BY <1>3, PutReceipt
<1>5. e.row = x.row /\ e.art = x.art
  BY <1>3, <1>4 DEF Rows
<1>6. Plan(j, ws)
  BY DEF reconcileRelayFailure
<1> HIDE DEF d, w, y, wr
<1>7. Takes(x, <<wr>>, {x, e}, e)
  BY <1>4, TakesOne
<1> HIDE DEF e
<1>8. Takes(d, ws, P, e)
  BY <1>2, <1>7, TakesBoth
<1>9. ASSUME Backed(d, w) PROVE \A z \in P : Backed(z, w)
  <2>1. \A z \in Q \cup {x} : Backed(z, w)
    BY <1>1, <1>2, <1>9, BackedHolding
  <2>2. Backed(e, w)
    BY <1>1, <1>3, <1>4, <1>5, <2>1, BackedAlike
  <2> QED
    BY <2>1, <2>2
<1> HIDE DEF ws, P
<1> QED
  BY <1>1, <1>6, <1>8, <1>9, WalletAlone DEF d, w

\* reconcileDurableEvidence and reconcileFromHttp, for the sweep and the start-up.
LEMMA ReconcilesOwes ==
    ASSUME IInv, IInv', WalletInv, Quiet, NEW j \in Jobs, Apart, wallet' = wallet,
           NEW pre, NEW Q, NEW x, Leads(db[j], pre, Q, x), NEW r,
           reconcileDurableEvidence(j, r, pre) \/ reconcileFromHttp(j, r, pre)
    PROVE  WalletInv'
<1>1. Truth(db[j], relay[j]) /\ Only(j) /\ NoCall(j)
  BY AtRest, ApartIs
<1>2. \/ relay[j] = "done" /\ reconcileRelayDone(j, r, pre)
      \/ reconcileRelayFailure(j, r, pre)
      \/ quarantineEvidence(j, r, pre)
  <2>1. db[j].receipt = "done" => relay[j] = "done"
    BY <1>1 DEF Truth, Unsent
  <2>2. reconcileDurableEvidence(j, r, pre) =>
           \/ relay[j] = "done" /\ reconcileRelayDone(j, r, pre)
           \/ reconcileRelayFailure(j, r, pre)
           \/ reconcileFromHttp(j, r, pre)
    BY <2>1 DEF reconcileDurableEvidence
  <2> QED
    BY <2>2 DEF reconcileFromHttp
<1>3. CASE relay[j] = "done" /\ reconcileRelayDone(j, r, pre)
  <2>1. \E ws : Plan(j, ws)
    BY <1>3 DEF reconcileRelayDone
  <2> QED
    BY <1>1, <1>3, <2>1, WalletLanded
<1> QED
  BY <1>2, <1>3, RelayFailureOwes, EvidenceOwes

\* The ledger is read for a job that was submitted.
LEMMA EvidenceDoneOwes == ASSUME IInv, IInv', WalletInv, NEW j \in Jobs, EvidenceDone(j) PROVE WalletInv'
<1>1. Quiet /\ chain[j].at = "done" /\ Apart /\ wallet' = wallet
  BY DEF EvidenceDone, Apart, world
<1>2. relay[j] = "done" /\ Only(j) /\ NoCall(j)
  BY <1>1, AtRest, ApartIs DEF JobOK, ChainOK
<1>3. \E ws : Plan(j, ws)
  BY DEF EvidenceDone, finishSettled, quarantineEvidence
<1> QED
  BY <1>1, <1>2, <1>3, WalletLanded

\* The ledger is read for a job that the relay gave up.
LEMMA EvidenceFailOwes == ASSUME IInv, IInv', WalletInv, NEW j \in Jobs, EvidenceFail(j) PROVE WalletInv'
<1> DEFINE d == db[j]
           r == chain[j].rec
           w == wallet[j]
<1>1. Quiet /\ chain[j].at # "idle" /\ Apart /\ wallet' = wallet
  BY DEF EvidenceFail, Apart, world
<1>2. d \in Rows /\ Only(j) /\ NoCall(j) /\ relay'[j] = relay[j] /\ w \in SUBSET Contributions
  BY <1>1, AtRest, ApartIs, Owes
<1>3. CASE RevertOrKeep(j, r) /\ owns(j)
  <2>1. Plan(j, RevertRows(d)) /\ d.row["revert"] \in {None, "QUARANTINED", "REVERTING"}
    BY <1>1, <1>3, InChain DEF RevertOrKeep, owns
  <2> HIDE DEF d, w
  <2>2. PICK P, e : /\ Takes(d, RevertRows(d), P, e)
                    /\ \A z \in P : /\ z \in Rows
                                    /\ d.art \subseteq z.art
                                    /\ z.row["revert"] \in {d.row["revert"], "PREPARED", "REVERTING"}
                                    /\ \A o \in Ops : o # "revert" => z.row[o] = d.row[o]
    BY <1>2, <2>1, RevertRowsPass
  <2>3. ASSUME Backed(d, w), NEW z \in P PROVE Backed(z, w)
    <3>1. /\ z \in Rows /\ d.art \subseteq z.art /\ \A op \in WalletOps \cup Recoveries : z.row[op] = d.row[op]
          /\ z.row["revert"] = d.row["revert"] \/ z.row["revert"] \notin {None, "REVERTED"}
      BY <2>2, <2>3, OpsAre DEF None
    <3> QED
      BY <1>2, <2>3, <3>1, BackedAlike
  <2>4. Backed(d, w) => \A z \in P : Backed(z, w)
    BY <2>3
  <2> QED
    BY <1>1, <1>2, <2>1, <2>2, <2>4, WalletAlone DEF d, w
<1>4. CASE RevertOrKeep(j, r) /\ ~owns(j)
  <2>1. plan' = plan /\ w \in SUBSET wallet[j] /\ wallet' = [wallet EXCEPT ![j] = w]
    BY <1>1, <1>4, ApartIs DEF RevertOrKeep
  <2> HIDE DEF w
  <2> QED
    BY <1>1, <1>2, <2>1, WalletStill
<1>5. CASE quarantineEvidence(j, r, <<>>)
  <2> DEFINE pre == <<>>
             Q == {d}
  <2>1. Leads(db[j], pre, Q, d) /\ quarantineEvidence(j, r, pre)
    BY <1>2, <1>5, LeadsNone
  <2> HIDE DEF pre, Q, d, r
  <2> QED
    BY <1>1, <2>1, EvidenceOwes
<1> QED
  BY <1>3, <1>4, <1>5 DEF EvidenceFail

\* revertWallet ends.
LEMMA RevertReturnsOwes == ASSUME IInv, IInv', WalletInv, NEW j \in Jobs, RevertReturns(j) PROVE WalletInv'
<1>1. Quiet /\ chain[j].at # "idle" /\ Apart
  BY DEF RevertReturns, Apart
<1>2. Only(j) /\ NoCall(j) /\ relay'[j] = relay[j] /\ ~Making(j) /\ build' = build
  BY <1>1, ApartIs, InChain DEF Apart
<1>3. build'[j].pc \notin WalletOps
  BY <1>2, OpsAre DEF Making
<1>4. CASE \E ws : Plan(j, ws) /\ wallet' = [wallet EXCEPT ![j] = {}]
  BY <1>1, <1>2, <1>3, <1>4, WalletEmpty
<1>5. CASE /\ wallet' \in {wallet, [wallet EXCEPT ![j] = {}]} /\ Plan(j, quarantineGroup(db[j], "local"))
  <2>1. wallet = [wallet EXCEPT ![j] = wallet[j]]
    BY DEF WalletInv
  <2>2. PICK v \in SUBSET wallet[j] : wallet' = [wallet EXCEPT ![j] = v]
    BY <1>5, <2>1
  <2> DEFINE y == "local"
  <2>3. y \in {"local", "relay"} /\ Plan(j, quarantineGroup(db[j], y))
    BY <1>5
  <2> HIDE DEF y
  <2> QED
    BY <1>1, <1>2, <2>2, <2>3, WalletHolds
<1> QED
  BY <1>4, <1>5 DEF RevertReturns

\* The relay says that it submitted the half.
LEMMA OnTxSubmittedOwes == ASSUME IInv, IInv', WalletInv, NEW j \in Jobs, onTxSubmitted(j) PROVE WalletInv'
<1>1. Quiet /\ relay[j] = "done" /\ Apart /\ wallet' = wallet /\ \E ws : Plan(j, ws)
  BY DEF onTxSubmitted, Answerable, reconcileRelayDone, Apart, world
<1>2. Only(j) /\ NoCall(j)
  BY <1>1, ApartIs
<1> QED
  BY <1>1, <1>2, WalletLanded

\* The relay says that it gave the half up.
LEMMA OnSubmitFailedOwes == ASSUME IInv, IInv', WalletInv, NEW j \in Jobs, onSubmitFailed(j) PROVE WalletInv'
<1> DEFINE pre == <<>>
           d == db[j]
           Q == {d}
           r == mem[j]
<1>1. Quiet /\ Apart /\ wallet' = wallet /\ reconcileRelayFailure(j, r, pre)
  BY DEF onSubmitFailed, Answerable, Apart, world
<1>2. Leads(db[j], pre, Q, d)
  BY <1>1, AtRest, LeadsNone
<1> HIDE DEF pre, d, Q, r
<1> QED
  BY <1>1, <1>2, RelayFailureOwes

-----------------------------------------------------------------------------
(* The sweep and the start-up.                                             *)

\* A step that writes nothing, and changes neither a build, a relay nor the wallet.
LEMMA WalletSame == ASSUME WalletInv, UNCHANGED <<db, plan, build, relay, wallet>> PROVE WalletInv'
  BY DEF WalletInv, WalletOK, Due, Via

\* The sweep reconciles a record with relay and ledger.
LEMMA SweepReconcilesOwes == ASSUME IInv, IInv', WalletInv, NEW j \in Jobs, SweepReconciles(j) PROVE WalletInv'
<1> DEFINE pre == <<>>
           d == db[j]
           Q == {d}
           r == todo[j]
<1>1. /\ Quiet /\ Apart /\ wallet' = wallet
      /\ reconcileDurableEvidence(j, r, pre) \/ reconcileFromHttp(j, r, pre)
  BY DEF SweepReconciles, Take, Apart
<1>2. Leads(db[j], pre, Q, d)
  BY <1>1, AtRest, LeadsNone
<1> HIDE DEF pre, d, Q, r
<1> QED
  BY <1>1, <1>2, ReconcilesOwes

\* A job that the relay may have: its rows are held, and relay and ledger decide.
LEMMA BootReconcilesOwes == ASSUME IInv, IInv', WalletInv, NEW j \in Jobs, BootReconciles(j) PROVE WalletInv'
<1> DEFINE d == db[j]
           y == "relay"
           pre == quarantineGroup(d, y)
           r == [In("quarantined") EXCEPT !.evid = TRUE, !.tx = FinalRows(db[j]) # {}]
<1>1. /\ Quiet /\ Apart /\ wallet' = wallet
      /\ reconcileDurableEvidence(j, r, pre) \/ reconcileFromHttp(j, r, pre)
  BY DEF BootReconciles, Boot, Apart
<1>2. d \in Rows
  BY <1>1, AtRest
<1>3. PICK Q, x : /\ Takes(d, pre, Q, x) /\ AllHeld(d, y, x) /\ \A z \in Q : Holding(d, y, z)
  BY <1>2, TakesHold
<1>4. Leads(d, pre, Q, x)
  BY <1>3 DEF Leads
<1> HIDE DEF d, pre, r
<1> QED
  BY <1>1, <1>4, ReconcilesOwes DEF d

\* Nothing can be proved of a job, and it is kept with its claim.
LEMMA BootKeepsOwes == ASSUME IInv, IInv', WalletInv, NEW j \in Jobs, BootKeeps(j) PROVE WalletInv'
<1> DEFINE y == "local"
           v == wallet[j]
<1>1. Quiet /\ Apart /\ wallet' = wallet /\ Plan(j, quarantineGroup(db[j], y)) /\ y \in {"local", "relay"}
  BY DEF BootKeeps, Boot, Apart
<1>2. Only(j) /\ NoCall(j) /\ relay'[j] = relay[j] /\ v \in SUBSET wallet[j] /\ wallet' = [wallet EXCEPT ![j] = v]
  BY <1>1, ApartIs
<1> HIDE DEF y, v
<1> QED
  BY <1>1, <1>2, WalletHolds

\* What is done with a job is done when the wallet has nothing of it.
LEMMA BootCompletesOwes == ASSUME IInv, IInv', WalletInv, NEW j \in Jobs, BootCompletes(j) PROVE WalletInv'
<1> DEFINE d == db[j]
<1>1. /\ Quiet /\ Apart /\ wallet' = wallet /\ \E ws : Plan(j, ws)
      /\ \/ d.row["settlement"] \in terminal
         \/ ProvedRevert(d)
         \/ ~Artifactless(d) /\ Failable(d)
  BY DEF BootCompletes, Boot, Apart, Settlement
<1>2. Truth(d, relay[j]) /\ Only(j) /\ build'[j].pc \notin WalletOps
  <2>1. Boot(j)
    BY DEF BootCompletes
  <2> QED
    BY <1>1, <2>1, Starting, ApartIs, OpsAre
<1>3. wallet[j] = {}
  <2>1. CASE d.row["settlement"] \in terminal
    <3>1. \A op \in WalletOps : ~Live(d, op)
      BY <1>2, <2>1, OpsAre DEF Truth
    <3> QED
      BY <1>1, <3>1, NothingLive
  <2>2. CASE ProvedRevert(d)
    BY <1>1, <2>2, Owes DEF ProvedRevert, Backed, Returned, Due
  <2>3. CASE ~Artifactless(d) /\ Failable(d)
    <3>1. \A op \in WalletOps : ~Live(d, op)
      BY <2>3, OpsAre DEF Failable, Artifactless
    <3> QED
      BY <1>1, <3>1, NothingLive
  <2> QED
    BY <1>1, <2>1, <2>2, <2>3
<1> QED
  BY <1>1, <1>2, <1>3, WalletNone

-----------------------------------------------------------------------------
(* Local recovery.                                                         *)

\* The recovery of a target is keyed by it.
LEMMA TargetKey ==
    ASSUME NEW d, NEW t \in Targets(d)
    PROVE  /\ RecoveryOf(t) \in Recoveries /\ recoveryRevertKey[RecoveryOf(t)] = t /\ t # {}
           /\ ~primary(d) => t \subseteq WalletOps
<1>1. /\ t \in {{"residual"}, {"dust"}, {"residualFinal"}, {"dustFinal"}, {"residualFinal", "dustFinal"}, {"revert"}}
      /\ ~primary(d) => t \subseteq WalletOps
  <2>1. CASE \E op \in RawRows(d) : t = {op}
    BY <2>1, OpsAre DEF RawRows, Contributions
  <2>2. CASE t = FinalRows(d) /\ t # {}
    <3>1. CASE primary(d)
      BY <2>2, <3>1 DEF FinalRows
    <3>2. CASE ~primary(d)
      <4>1. t \subseteq {"residualFinal", "dustFinal"}
        BY <2>2, <3>2 DEF FinalRows, Finals
      <4> QED
        BY <2>2, <4>1, OpsAre
    <3> QED
      BY <3>1, <3>2
  <2> QED
    BY <2>1, <2>2 DEF Targets
<1>2. \E k \in Recoveries : recoveryRevertKey[k] = t
  <2> DEFINE K == recoveryRevertKey
  <2>1. /\ Recoveries = {"recResidual", "recDust", "recResidualFinal", "recDustFinal", "recFinals", "recRevert"}
        /\ K["recResidual"] = {"residual"} /\ K["recDust"] = {"dust"} /\ K["recResidualFinal"] = {"residualFinal"}
        /\ K["recDustFinal"] = {"dustFinal"} /\ K["recFinals"] = {"residualFinal", "dustFinal"} /\ K["recRevert"] = {"revert"}
    BY DEF Recoveries, recoveryRevertKey, Finals
  <2> HIDE DEF K
  <2>2. \E k \in Recoveries : K[k] = t
    BY <1>1, <2>1
  <2> QED
    BY <2>2 DEF K
<1>3. RecoveryOf(t) \in Recoveries /\ recoveryRevertKey[RecoveryOf(t)] = t
  BY <1>2 DEF RecoveryOf, KeyOf
<1> QED
  BY <1>1, <1>3

\* What a recovery gives back.
LEMMA PartGives ==
    ASSUME NEW k \in Recoveries, NEW a \in recoveryRevertKey[k], NEW c \in Contributions,
           a = "revert" \/ a = c \/ a = FinalOf[c]
    PROVE  c \in Part(k)
<1>1. a \in Reverted(k)
  BY DEF Reverted
<1>2. \E S : S \in {CASE b \in {"residual", "residualFinal"} -> {"residual"}
                      [] b \in {"dust", "dustFinal"} -> {"dust"}
                      [] OTHER -> Contributions : b \in Reverted(k)} /\ c \in S
  <2> DEFINE f(b) == CASE b \in {"residual", "residualFinal"} -> {"residual"}
                       [] b \in {"dust", "dustFinal"} -> {"dust"}
                       [] OTHER -> Contributions
  <2>1. c \in f(a)
    <3>1. c \in {"residual", "dust"} /\ FinalOf["residual"] = "residualFinal" /\ FinalOf["dust"] = "dustFinal"
      BY FinalIs
    <3>2. CASE a = "revert"
      BY <3>2
    <3>3. CASE a = c
      BY <3>1, <3>3
    <3>4. CASE a = FinalOf[c]
      BY <3>1, <3>4
    <3> QED
      BY <3>2, <3>3, <3>4
  <2> HIDE DEF f
  <2>2. f(a) \in {f(b) : b \in Reverted(k)}
    BY <1>1
  <2>3. \E S : S \in {f(b) : b \in Reverted(k)} /\ c \in S
    BY <2>1, <2>2
  <2> QED
    BY <2>3 DEF f
<1> QED
  BY <1>2 DEF Part

\* While a recovery goes on, an artifact that it would not revert is behind the primary revert.
Plain(d) == NoBare(d) \/ d.row["revert"] # None

\* It begins only where that is so,
LEMMA RecoverPlain ==
    ASSUME NEW d, NEW w, Backed(d, w), ~Artifactless(d), ~Ambiguity(d), Targets(d) # {}
    PROVE  Plain(d)
<1> SUFFICES ASSUME d.row["revert"] = None, NEW op \in WalletOps, Bare(d, op) PROVE FALSE
  BY DEF Plain, NoBare
<1>1. BareOK(d, op) /\ ~primary(d)
  BY DEF Backed, primary
<1>2. (\A o \in WalletOps : d.row[o] # "APPLIED") /\ \A k \in Recoveries : d.row[k] = None
  BY <1>1 DEF BareOK, Artifactless
<1>3. PICK t \in Targets(d) : t # {}
  BY TargetKey
<1>4. d.row[RecoveryOf(t)] # "REVERTED" /\ t \subseteq WalletOps
  BY <1>1, <1>2, TargetKey DEF None
<1>5. \A o \in t : d.row[o] = "APPLIED"
  BY <1>1, <1>4 DEF Ambiguity, Expected
<1> QED
  BY <1>2, <1>3, <1>4, <1>5

\* and goes on where it is.
LEMMA RecoveringPlain ==
    ASSUME NEW d, NEW w, Backed(d, w), NEW k \in Recoveries, d.row[k] = "REVERTING"
    PROVE  Plain(d)
  BY DEF Plain, NoBare, Backed, BareOK, None

\* Recovery rows that end with what they give back.
LEMMA BackedRecovery ==
    ASSUME NEW d \in Rows, NEW w \in SUBSET Contributions, Backed(d, w), Plain(d), NEW x \in Rows, d.art \subseteq x.art,
           \A o \in Ops : o \notin Recoveries => x.row[o] = d.row[o], NEW v \in SUBSET w,
           \A k \in Recoveries : x.row[k] = "REVERTED" => d.row[k] = "REVERTED" \/ v \cap Part(k) = {}
    PROVE  Backed(x, v) /\ Plain(x)
<1>1. \A o \in WalletOps \cup {"revert"} : x.row[o] = d.row[o]
  BY OpsAre
<1>2. Accounted(x, v)
  BY <1>1, FinalIs DEF Backed, Accounted, Live
<1>3. Returned(x, v)
  BY <1>1 DEF Backed, Returned
<1>4. ASSUME NEW op \in WalletOps, Bare(x, op) PROVE Bare(d, op) /\ BareOK(x, op)
  <2>1. Bare(d, op)
    BY <1>1, <1>4 DEF Bare, Live
  <2>2. BareOK(d, op) /\ d.row["revert"] # None
    BY <2>1 DEF Backed, Plain, NoBare
  <2>3. \A o \in Later(op) : o \in WalletOps
    BY OpsAre DEF Later
  <2> QED
    BY <1>1, <2>1, <2>2, <2>3 DEF BareOK
<1>5. Plain(x)
  BY <1>1, <1>4 DEF Plain, NoBare
<1> QED
  BY <1>2, <1>3, <1>4, <1>5 DEF Backed

\* When no target remains the wallet has everything back.
LEMMA AllReturned ==
    ASSUME NEW d \in Rows, NEW w \in SUBSET Contributions, Backed(d, w), Plain(d),
           Remaining(d) = {} \/ d.row["revert"] = "REVERTED"
    PROVE  w = {}
<1>1. CASE d.row["revert"] = "REVERTED"
  BY <1>1 DEF Backed, Returned
<1>2. CASE Remaining(d) = {}
  <2> SUFFICES ASSUME NEW c \in w PROVE FALSE
    OBVIOUS
  <2>1. ASSUME NEW t \in Targets(d), NEW a \in t, a = "revert" \/ a = c \/ a = FinalOf[c] PROVE FALSE
    <3> DEFINE k == RecoveryOf(t)
    <3>1. k \in Recoveries /\ recoveryRevertKey[k] = t /\ d.row[k] = "REVERTED"
      BY <1>2, TargetKey DEF Remaining
    <3> HIDE DEF k
    <3>2. c \in Part(k)
      BY <2>1, <3>1, PartGives
    <3> QED
      BY <3>1, <3>2 DEF Backed, Returned
  <2>2. CASE primary(d)
    <3> DEFINE t == FinalRows(d)
    <3>1. t = {"revert"}
      BY <2>2 DEF FinalRows
    <3>2. t \in Targets(d) /\ "revert" \in t
      BY <3>1 DEF Targets
    <3> QED
      BY <2>1, <3>2
  <2>3. CASE ~primary(d)
    <3>1. NoBare(d)
      BY <2>3 DEF Plain, primary
    <3>2. /\ c \in WalletOps /\ c \in Contributions /\ FinalOf[c] \in Finals /\ FinalOf[c] \in WalletOps
          /\ Live(d, c) \/ Live(d, FinalOf[c])
      BY FinalIs DEF Backed, Accounted
    <3>3. CASE FinalOf[c] \in FinalRows(d)
      <4>1. FinalRows(d) \in Targets(d)
        BY <3>3 DEF Targets
      <4> QED
        BY <2>1, <3>3, <4>1
    <3>4. CASE FinalOf[c] \notin FinalRows(d)
      <4>1. Live(d, c)
        BY <2>3, <3>1, <3>2, <3>4 DEF FinalRows, NoBare, Bare
      <4>2. c \in RawRows(d)
        BY <2>3, <3>1, <3>2, <3>4, <4>1 DEF RawRows, NoBare, Bare
      <4>3. {c} \in Targets(d)
        BY <4>2 DEF Targets
      <4> QED
        BY <2>1, <4>3
    <3> QED
      BY <3>3, <3>4
  <2> QED
    BY <2>2, <2>3
<1> QED
  BY <1>1, <1>2

\* A recovery revert begins: only its own row is written.
LEMMA RecoveryRowPass ==
    ASSUME NEW x \in Rows, NEW k \in Recoveries, x.row[k] \in {None, "PREPARED"},
           NEW first, NEW last, last = <<Set(k, "REVERTING")>>,
           IF x.row[k] = None THEN first = <<Set(k, "PREPARED")>> ELSE first = <<>>
    PROVE  \E P, y, Q, e : /\ Takes(x, first, P, y) /\ Takes(y, last, Q, e)
                           /\ \A z \in P \cup Q : /\ z \in Rows /\ x.art \subseteq z.art /\ z.row[k] # "REVERTED"
                                                  /\ \A o \in Ops : o # k => z.row[o] = x.row[o]
<1> DEFINE p == "PREPARED"
           v == "REVERTING"
           Ok(z) == /\ z \in Rows /\ x.art \subseteq z.art /\ z.row[k] # "REVERTED"
                    /\ \A o \in Ops : o # k => z.row[o] = x.row[o]
<1>1. k \in Ops \ {"settlement"} /\ k \in Ops
  BY OpsAre DEF Recoveries, recoveryRevertKey
<1>2. p \in States /\ v \in States /\ Moves(None, p) /\ Moves(p, v)
  BY StatesAre DEF terminal
<1>3. p # "REVERTED" /\ v # "REVERTED" /\ Ok(x)
  BY DEF None
<1>4. last = <<Set(k, v)>> /\ (IF x.row[k] = None THEN first = <<Set(k, p)>> ELSE first = <<>>) /\ x.row[k] \in {None, p}
  OBVIOUS
<1> HIDE DEF p, v
<1>5. \E P, y : /\ Takes(x, first, P, y) /\ y \in Rows /\ y.row[k] = p /\ Ok(y) /\ \A z \in P : Ok(z)
  <2>1. CASE x.row[k] = None
    <3> DEFINE y == Put(x, Set(k, p))
    <3> HIDE DEF y, Ok
    <3>1. Moves(x.row[k], p)
      BY <1>2, <2>1
    <3>2. Takes(x, <<Set(k, p)>>, {x, y}, y) /\ Near(x, k, None, y) /\ y \in Rows /\ y.row[k] = p
      BY <1>1, <1>2, <3>1, RowSet DEF y
    <3>3. Ok(y)
      BY <1>1, <1>3, <3>2, NearRows DEF Ok, Near
    <3>4. \A z \in {x, y} : Ok(z)
      BY <1>3, <3>3
    <3> QED
      BY <1>4, <2>1, <3>2, <3>3, <3>4
  <2>2. CASE x.row[k] # None
    <3> HIDE DEF Ok
    <3>1. first = <<>> /\ Takes(x, first, {x}, x) /\ x.row[k] = p
      BY <1>4, <2>2, TakesNone
    <3>2. \A z \in {x} : Ok(z)
      BY <1>3
    <3> QED
      BY <1>3, <3>1, <3>2
  <2> QED
    BY <2>1, <2>2
<1>6. PICK P, y : /\ Takes(x, first, P, y) /\ y \in Rows /\ y.row[k] = p /\ Ok(y) /\ \A z \in P : Ok(z)
  BY <1>5
<1> DEFINE e == Put(y, Set(k, v))
<1> HIDE DEF e, Ok
<1>7. Moves(y.row[k], v)
  BY <1>2, <1>6
<1>8. Takes(y, <<Set(k, v)>>, {y, e}, e) /\ Near(y, k, None, e) /\ e \in Rows /\ e.row[k] = v
  BY <1>1, <1>2, <1>6, <1>7, RowSet DEF e
<1>9. Ok(e)
  BY <1>1, <1>3, <1>6, <1>8, NearRows DEF Ok, Near
<1>10. Takes(y, last, {y, e}, e) /\ \A z \in P \cup {y, e} : Ok(z)
  BY <1>4, <1>6, <1>8, <1>9
<1> QED
  BY <1>6, <1>10 DEF Ok

\* The next target of a recovery, or its end.
LEMMA RecoveryGoesOnOwes ==
    ASSUME IInv, IInv', WalletInv, Quiet, NEW j \in Jobs, Apart, build[j].pc \notin WalletOps, relay[j] # "done",
           NEW pre, NEW P, NEW x \in Rows, Takes(db[j], pre, P, x),
           NEW v \in SUBSET wallet[j], wallet' = [wallet EXCEPT ![j] = v], \A z \in P : Backed(z, v), Plain(x),
           \A k \in Recoveries : x.row[k] \in {None, "PREPARED", "REVERTED"},
           ContinueRecovery(j, pre)
    PROVE  WalletInv'
<1> DEFINE d == db[j]
<1>1. Only(j) /\ NoCall(j) /\ relay'[j] = relay[j] /\ build' = build /\ v \in SUBSET Contributions
  BY ApartIs, Owes DEF Apart
<1>2. x = After(d, pre) /\ Backed(x, v)
  BY DEF Takes, Runs
<1>3. CASE Remaining(x) = {} \/ x.row["revert"] = "REVERTED"
  <2>1. v = {}
    BY <1>1, <1>2, <1>3, AllReturned
  <2>2. \E ws : Plan(j, ws)
    BY DEF ContinueRecovery
  <2> QED
    BY <1>1, <2>1, <2>2, WalletEmpty
<1>4. CASE ~(Remaining(x) = {} \/ x.row["revert"] = "REVERTED")
  <2> DEFINE k == RecoveryOf(NextTarget(x))
             first == IF x.row[k] = None THEN <<Set(k, "PREPARED")>> ELSE <<>>
             last == <<Set(k, "REVERTING")>>
             ws == (pre \o first) \o last
  <2>1. Plan(j, ws)
    BY <1>2, <1>4 DEF ContinueRecovery
  <2>2. k \in Recoveries /\ x.row[k] \in {None, "PREPARED"}
    <3>1. k \in Recoveries /\ x.row[k] # "REVERTED"
      BY <1>4, NextRecovery
    <3> HIDE DEF k
    <3> QED
      BY <3>1
  <2>3. IF x.row[k] = None THEN first = <<Set(k, "PREPARED")>> ELSE first = <<>>
    OBVIOUS
  <2>4. last = <<Set(k, "REVERTING")>>
    OBVIOUS
  <2>40. ws = (pre \o first) \o last
    OBVIOUS
  <2> HIDE DEF k, first, last, ws
  <2>5. PICK Q, y, S, e : /\ Takes(x, first, Q, y) /\ Takes(y, last, S, e)
                          /\ \A z \in Q \cup S : /\ z \in Rows /\ x.art \subseteq z.art /\ z.row[k] # "REVERTED"
                                                 /\ \A o \in Ops : o # k => z.row[o] = x.row[o]
    BY <2>2, <2>3, <2>4, RecoveryRowPass
  <2> DEFINE T == (P \cup Q) \cup S
  <2>6. Takes(d, pre \o first, P \cup Q, y)
    BY <2>5, TakesBoth
  <2>7. Takes(d, ws, T, e)
    BY <2>40, <2>5, <2>6, TakesBoth
  <2>8. ASSUME NEW z \in Q \cup S PROVE Backed(z, v)
    <3>1. /\ z \in Rows /\ x.art \subseteq z.art /\ \A o \in Ops : o \notin Recoveries => z.row[o] = x.row[o]
          /\ \A o \in Recoveries : z.row[o] = "REVERTED" => x.row[o] = "REVERTED" \/ v \cap Part(o) = {}
      <4>1. Recoveries \subseteq Ops
        BY OpsAre
      <4> QED
        BY <2>2, <2>5, <2>8, <4>1
    <3> QED
      BY <1>1, <1>2, <3>1, BackedRecovery
  <2>9. \A z \in T : Backed(z, v)
    BY <2>8
  <2> HIDE DEF T, d
  <2> QED
    BY <1>1, <2>1, <2>7, <2>9, WalletLess DEF d
<1> QED
  BY <1>3, <1>4

\* A recovery that is over, or at rest, without the wallet having given anything.
LEMMA RetainsOwes ==
    ASSUME IInv, WalletInv, Quiet, NEW j \in Jobs, Apart, retainRecoveryAmbiguity(j),
           NEW v \in SUBSET wallet[j], wallet' = [wallet EXCEPT ![j] = v]
    PROVE  WalletInv'
<1> DEFINE y == "local"
<1>1. Plan(j, quarantineGroup(db[j], y)) /\ y \in {"local", "relay"}
  BY DEF retainRecoveryAmbiguity
<1>2. Only(j) /\ NoCall(j) /\ relay'[j] = relay[j]
  BY ApartIs
<1> HIDE DEF y
<1> QED
  BY <1>1, <1>2, WalletHolds

\* The sweep, or the start-up, retries a job that is to be reverted locally.
LEMMA SweepRetriesOwes == ASSUME IInv, IInv', WalletInv, NEW j \in Jobs, SweepRetries(j) PROVE WalletInv'
<1> DEFINE d == db[j]
           v == wallet[j]
<1>1. /\ Take(j) /\ todo[j].local /\ mem[j].local /\ Live(d, "settlement") /\ phase \in {"quarantined", "boot"}
      /\ retryQuarantine(j) /\ Apart /\ wallet' = wallet
  BY DEF SweepRetries, Retryable, owns, Take, Apart
<1>2. Quiet /\ ~Making(j) /\ ~NoRecord.local /\ (phase # "boot" => d.row["revert"] \notin {"PREPARED", "REVERTED"})
  BY <1>1, Taking
<1>3. JobOK(j) /\ Ahead(db, plan, j) = d /\ d \in Rows
  BY <1>2, AtRest
<1>4. d.row["revert"] # "REVERTED"
  <2>1. todo[j].place # "boot"
    BY <1>1, <1>2, <1>3 DEF JobOK, LocalOK
  <2> QED
    BY <1>1, <1>3, <2>1 DEF JobOK, RevertOK
<1>5. v \in SUBSET wallet[j] /\ wallet' = [wallet EXCEPT ![j] = v] /\ Only(j) /\ build[j].pc \notin WalletOps /\ build' = build
  BY <1>1, <1>2, ApartIs, OpsAre DEF Making, Apart
<1> HIDE DEF v
<1>6. CASE retainRecoveryAmbiguity(j)
  BY <1>1, <1>2, <1>5, <1>6, RetainsOwes
<1>7. CASE ~retainRecoveryAmbiguity(j)
  <2> DEFINE pre == <<>>
             P == {d}
  <2>1. ~Ambiguity(d) /\ ~Artifactless(d) /\ Targets(d) # {} /\ ContinueRecovery(j, pre)
    BY <1>1, <1>4, <1>7 DEF retryQuarantine
  <2>2. Takes(db[j], pre, P, d)
    BY TakesNone
  <2>3. \A k \in Recoveries : d.row[k] \in {None, "PREPARED", "REVERTED"}
    BY <2>1 DEF Ambiguity
  <2>4. \E ws : Plan(j, ws)
    BY <2>1 DEF ContinueRecovery
  <2>5. CASE wallet[j] = {}
    BY <1>1, <1>2, <1>5, <2>4, <2>5, WalletNone
  <2>6. CASE wallet[j] # {}
    <3>1. relay[j] # "done" /\ Backed(d, v)
      BY <1>2, <2>6, Owes DEF Due, v
    <3>2. Plain(d) /\ \A z \in P : Backed(z, v)
      BY <2>1, <3>1, RecoverPlain
    <3> HIDE DEF pre, P, d
    <3> QED
      BY <1>1, <1>2, <1>3, <1>5, <2>1, <2>2, <2>3, <3>1, <3>2, RecoveryGoesOnOwes
  <2> QED
    BY <2>5, <2>6
<1> QED
  BY <1>6, <1>7

\* The wallet call of a recovery ends.
LEMMA RecoveryReturnsOwes == ASSUME IInv, IInv', WalletInv, RecoveryReturns PROVE WalletInv'
<1> DEFINE j == busy
           d == db[j]
           k == target
<1>1. Quiet /\ k # None /\ Apart
  BY DEF RecoveryReturns, Apart
<1>2. j \in Jobs /\ k \in Recoveries
  BY <1>1 DEF IInv, Typed
<1>3. JobOK(j) /\ Ahead(db, plan, j) = d /\ d \in Rows /\ wallet[j] \in SUBSET Contributions
  BY <1>1, <1>2, AtRest, Owes
<1>4. /\ d.row[k] = "REVERTING" /\ ~Making(j)
      /\ \A o \in Recoveries \ {k} : d.row[o] \in {None, "PREPARED", "REVERTED"}
  BY <1>1, <1>2, <1>3 DEF JobOK, RetryOK, Retrying, BuildOK
<1>5. build[j].pc \notin WalletOps /\ Only(j) /\ build' = build
  BY <1>1, <1>2, <1>4, ApartIs, OpsAre DEF Making, Apart
<1>6. \/ /\ ContinueRecovery(j, <<Set(k, "REVERTED")>>) /\ wallet' = [wallet EXCEPT ![j] = wallet[j] \ Part(k)]
      \/ /\ retainRecoveryAmbiguity(j) /\ wallet' \in {wallet, [wallet EXCEPT ![j] = wallet[j] \ Part(k)]}
  BY DEF RecoveryReturns
<1> HIDE DEF j, d, k
<1>7. CASE retainRecoveryAmbiguity(j) /\ wallet' \in {wallet, [wallet EXCEPT ![j] = wallet[j] \ Part(k)]}
  <2>1. wallet = [wallet EXCEPT ![j] = wallet[j]]
    BY DEF WalletInv
  <2>2. PICK v \in SUBSET wallet[j] : wallet' = [wallet EXCEPT ![j] = v]
    BY <1>7, <2>1
  <2> QED
    BY <1>1, <1>2, <1>7, <2>2, RetainsOwes
<1>8. CASE ContinueRecovery(j, <<Set(k, "REVERTED")>>) /\ wallet' = [wallet EXCEPT ![j] = wallet[j] \ Part(k)]
  <2> DEFINE s == "REVERTED"
             x == Put(d, Set(k, s))
             pre == <<Set(k, s)>>
             P == {d, x}
             w == wallet[j]
             v == w \ Part(k)
  <2>1. k \in Ops \ {"settlement"} /\ Recoveries \subseteq Ops
    BY <1>2, OpsAre DEF Recoveries, recoveryRevertKey
  <2>2. s \in States /\ Moves(d.row[k], s)
    BY <1>4, StatesAre
  <2>3. ContinueRecovery(j, pre) /\ \E ws : Plan(j, ws)
    BY <1>8 DEF ContinueRecovery
  <2>4. v \in SUBSET w /\ v \cap Part(k) = {} /\ w \in SUBSET Contributions
    BY <1>3 DEF d
  <2>5. s = "REVERTED"
    OBVIOUS
  <2> HIDE DEF x, s
  <2>6. Takes(d, pre, P, x) /\ Near(d, k, None, x) /\ x \in Rows /\ x.row[k] = s
    BY <1>3, <2>1, <2>2, RowSet DEF x
  <2>7. d.art \subseteq x.art /\ \A o \in Ops : o # k => x.row[o] = d.row[o]
    BY <2>1, <2>6, NearRows DEF Near
  <2> HIDE DEF v, pre
  <2>8. CASE w = {}
    <3>1. v = {} /\ wallet' = [wallet EXCEPT ![j] = {}]
      BY <1>8, <2>4, <2>8 DEF v
    <3> QED
      BY <1>1, <1>2, <1>5, <2>3, <3>1, WalletEmpty
  <2>9. CASE w # {}
    <3>1. relay[j] # "done" /\ Backed(d, w)
      BY <1>1, <1>2, <2>9, Owes DEF Due, d
    <3>2. Plain(d)
      BY <1>2, <1>4, <3>1, RecoveringPlain
    <3>3. /\ \A o \in Ops : o \notin Recoveries => x.row[o] = d.row[o]
          /\ \A o \in Recoveries : x.row[o] = "REVERTED" => d.row[o] = "REVERTED" \/ v \cap Part(o) = {}
          /\ \A o \in Recoveries : x.row[o] \in {None, "PREPARED", "REVERTED"}
      BY <1>2, <1>4, <2>1, <2>4, <2>5, <2>6, <2>7
    <3>4. Backed(x, v) /\ Plain(x)
      BY <1>3, <2>4, <2>6, <2>7, <3>1, <3>2, <3>3, BackedRecovery
    <3>5. \A z \in P : Backed(z, v)
      BY <2>4, <3>1, <3>4, BackedLess
    <3>6. v \in SUBSET wallet[j] /\ wallet' = [wallet EXCEPT ![j] = v]
      BY <1>8, <2>4 DEF v
    <3> HIDE DEF P, w
    <3> QED
      BY <1>1, <1>2, <1>5, <2>3, <2>6, <3>1, <3>3, <3>4, <3>5, <3>6, RecoveryGoesOnOwes DEF d
  <2> QED
    BY <2>8, <2>9
<1> QED
  BY <1>6, <1>7, <1>8

-----------------------------------------------------------------------------
(* The journal, the world and a restart.                                   *)

\* At the start the wallet has given nothing.
LEMMA WalletBegins == Init => WalletInv
<1>1. Init => /\ wallet \in [Jobs -> SUBSET Contributions]
              /\ \A j \in Jobs : wallet[j] = {} /\ build[j].pc = "none"
  BY DEF Init, NoBuild
<1> QED
  BY <1>1, OpsAre DEF WalletInv, WalletOK, Due

\* A write of the journal.
LEMMA WriteOwes == ASSUME IInv, WalletInv, Write PROVE WalletInv'
<1>1. wallet' = wallet /\ build' = build /\ relay' = relay
  BY DEF Write, memory, world
<1>2. \A k \in Jobs : Via(db, plan, k)' \subseteq Via(db, plan, k)
  BY WriteAdvances
<1> QED
  BY <1>1, <1>2 DEF WalletInv, WalletOK, Due

\* The wallet call of a build that a restart meets.
LEMMA CallLeft ==
    ASSUME IInv, WalletInv, NEW j \in Jobs, NEW w \in SUBSET (wallet[j] \cup BuildCall(j)), w # {}
    PROVE  w \in SUBSET Contributions /\ relay[j] # "done" /\ Backed(db[j], w)
<1> DEFINE c == {build[j].pc} \cap Contributions
<1>1. db[j] \in Via(db, plan, j)
  BY HereIsPassed DEF IInv
<1>2. wallet[j] \in SUBSET Contributions /\ BuildCall(j) \in {c, {}}
  BY DEF WalletInv, BuildCall
<1>3. Due(j)
  BY <1>2, FinalIs DEF Due
<1>4. relay[j] # "done" /\ Backed(db[j], wallet[j])
  BY <1>1, <1>3 DEF WalletInv, WalletOK
<1>5. CASE BuildCall(j) = {}
  BY <1>2, <1>4, <1>5, BackedLess
<1>6. CASE BuildCall(j) # {}
  <2>1. CallMade(j) /\ build[j].pc \in Contributions /\ build[j].pc \in WalletOps /\ BuildCall(j) = c
    BY <1>2, <1>6, FinalIs DEF BuildCall
  <2>2. WritesOf(plan, j) = <<>>
    <3>1. plan \in Seq([job : Jobs, w : Writes])
      BY DEF IInv, Typed, PlanTyped
    <3> QED
      BY <2>1, <3>1 DEF CallMade, WritesOf
  <2>3. Ahead(db, plan, j) = db[j]
    BY <2>2, AfterNone DEF Ahead
  <2>4. MadeRows(db[j], mem[j].timedOut, build[j])
    BY <2>1, <2>3, OpsAre DEF IInv, JobOK, BuildRows, Making
  <2>5. Live(db[j], build[j].pc) /\ \A o \in Reverts : db[j].row[o] = None
    BY <2>1, <2>4 DEF MadeRows, Live, terminal, None
  <2>6. Backed(db[j], wallet[j] \cup c)
    BY <1>4, <2>5, BackedGiven
  <2> QED
    BY <1>2, <1>4, <2>1, <2>6, BackedLess
<1> QED
  BY <1>5, <1>6

\* A restart: of a call that was under way the wallet may have done all or nothing.
LEMMA CrashOwes == ASSUME IInv, WalletInv, Crash PROVE WalletInv'
<1>1. /\ plan' = <<>> /\ build' = [j \in Jobs |-> NoBuild] /\ db' = db /\ relay' = relay
  BY DEF Crash
<1>2. PICK done \in SUBSET Jobs :
         wallet' = [j \in Jobs |-> IF j \in done THEN (wallet[j] \ Part(RevertCall(j))) \cup BuildCall(j)
                                                ELSE wallet[j]]
  BY DEF Crash
<1>3. ASSUME NEW j \in Jobs PROVE wallet'[j] \in SUBSET Contributions /\ WalletOK(j)'
  <2>1. wallet'[j] \in SUBSET (wallet[j] \cup BuildCall(j))
    BY <1>2
  <2>2. wallet'[j] # {} => wallet'[j] \in SUBSET Contributions /\ relay[j] # "done" /\ Backed(db[j], wallet'[j])
    BY <2>1, CallLeft
  <2>3. Via(db, plan, j)' = {db[j]} /\ build'[j].pc \notin WalletOps
    BY <1>1, Still, OpsAre DEF NoBuild
  <2> QED
    BY <1>1, <2>2, <2>3 DEF WalletOK, Due
<1>4. wallet' \in [Jobs -> SUBSET Contributions]
  BY <1>2, <1>3
<1> QED
  BY <1>3, <1>4 DEF WalletInv

\* The relay submits a half, whose contributions it so takes, or it gives the job up.
LEMMA RelayOwes == ASSUME IInv, WalletInv, NEW j \in Jobs, RelaySubmits(j) \/ RelayGivesUp(j) PROVE WalletInv'
<1>1. /\ UNCHANGED <<db, plan, build>> /\ relay' = [relay EXCEPT ![j] = relay'[j]]
      /\ \/ relay[j] = "half" /\ wallet' = [wallet EXCEPT ![j] = {}]
         \/ relay'[j] # "done" /\ wallet' = wallet
  BY DEF RelaySubmits, RelayGivesUp, memory, IInv, Typed
<1>2. /\ wallet \in [Jobs -> SUBSET Contributions] /\ relay \in [Jobs -> Answers] /\ \A k \in Jobs : WalletOK(k)
      /\ BuildOK(j)
  BY DEF WalletInv, IInv, Typed, JobOK
<1>3. ASSUME NEW k \in Jobs \ {j} PROVE WalletOK(k)'
  <2>1. wallet'[k] = wallet[k] /\ relay'[k] = relay[k] /\ Via(db, plan, k)' = Via(db, plan, k) /\ build' = build
    BY <1>1, <1>2
  <2> QED
    BY <1>2, <2>1 DEF WalletOK, Due
<1>4. CASE relay[j] = "half" /\ wallet' = [wallet EXCEPT ![j] = {}]
  <2>1. wallet'[j] = {} /\ build'[j].pc \notin WalletOps
    BY <1>1, <1>2, <1>4, OpsAre DEF BuildOK, Making
  <2>2. WalletOK(j)' /\ wallet' \in [Jobs -> SUBSET Contributions]
    BY <1>2, <1>4, <2>1 DEF WalletOK, Due
  <2> QED
    BY <1>3, <2>2 DEF WalletInv
<1>5. CASE relay'[j] # "done" /\ wallet' = wallet
  <2>1. WalletOK(j)'
    BY <1>1, <1>2, <1>5 DEF WalletOK, Due
  <2> QED
    BY <1>2, <1>3, <1>5, <2>1 DEF WalletInv
<1> QED
  BY <1>1, <1>4, <1>5

\* No step loses account of what the wallet has given.
LEMMA WalletSteps == ASSUME IInv, WalletInv, [Next]_vars PROVE WalletInv'
<1>0. IInv'
  BY StepsKeep
<1>1. CASE Next
  <2>1. CASE Write
    BY <2>1, WriteOwes
  <2>2. CASE Crash
    BY <2>2, CrashOwes
  <2>3. CASE Sweeping
    <3>1. CASE sweep \/ \E j \in Jobs : SweepSkips(j)
      <4>1. UNCHANGED <<db, plan, build, relay, wallet>>
        BY <3>1 DEF sweep, SweepSkips, Take, world
      <4> QED
        BY <4>1, WalletSame
    <3> QED
      BY <1>0, <2>3, <3>1, RecoveryReturnsOwes, SweepRetriesOwes, SweepReconcilesOwes DEF Sweeping
  <2>4. CASE Booting
    <3>1. CASE BootEnds \/ \E j \in Jobs : BootReverts(j)
      <4>1. UNCHANGED <<db, plan, build, relay, wallet>>
        BY <3>1 DEF BootEnds, BootReverts, Boot, world
      <4> QED
        BY <4>1, WalletSame
    <3> QED
      BY <1>0, <2>4, <3>1, BootCompletesOwes, BootKeepsOwes, BootReconcilesOwes DEF Booting
  <2>5. ASSUME NEW j \in Jobs, Building(j) PROVE WalletInv'
    BY <1>0, <2>5, ReadFilesOwes, GetAddressOwes, WalletReturnsOwes, WalletThrowsOwes, CleanupCallOwes,
       CleanupReturnsOwes, CleanupDoneOwes, AnswerOwes DEF Building
  <2>6. ASSUME NEW j \in Jobs, Reconciling(j) PROVE WalletInv'
    BY <1>0, <2>6, EvidenceDoneOwes, EvidenceFailOwes, RevertReturnsOwes DEF Reconciling
  <2>7. ASSUME NEW j \in Jobs, OnSwap(j) \/ Timeout(j) \/ onTxSubmitted(j) \/ onSubmitFailed(j) PROVE WalletInv'
    BY <1>0, <2>7, OnSwapOwes, TimeoutOwes, OnTxSubmittedOwes, OnSubmitFailedOwes
  <2>8. ASSUME NEW j \in Jobs, RelayGivesUp(j) \/ RelaySubmits(j) PROVE WalletInv'
    BY <2>8, RelayOwes
  <2>9. ASSUME NEW o \in Offers, RivalTakes(o) \/ IndexConsumption(o) PROVE WalletInv'
    <3>1. UNCHANGED <<db, plan, build, relay, wallet>>
      BY <2>9 DEF RivalTakes, IndexConsumption, memory
    <3> QED
      BY <3>1, WalletSame
  <2> QED
    BY <1>1, <2>1, <2>2, <2>3, <2>4, <2>5, <2>6, <2>7, <2>8, <2>9 DEF Next
<1>2. CASE UNCHANGED vars
  <2>1. UNCHANGED <<db, plan, build, relay, wallet>>
    BY <1>2 DEF vars, memory, world
  <2> QED
    BY <2>1, WalletSame
<1> QED
  BY <1>1, <1>2

\* Whatever the wallet has given to a job that did not land, a row that is live says so:
\* under its own name or, when it was finalized, under that of its final form.
THEOREM WalletIsAccounted == Spec => [](IInv /\ WalletInv)
<1>1. Init => IInv /\ WalletInv
  BY Begins, WalletBegins
<1>2. IInv /\ WalletInv /\ [Next]_vars => IInv' /\ WalletInv'
  BY StepsKeep, WalletSteps
<1> QED
  BY <1>1, <1>2, PTL DEF Spec

\* A verdict in the journal is true: a job is settled only when its half landed, and it
\* is reverted or failed only when it did not and the wallet has everything back.
THEOREM VerdictsAreTrue == Spec => []VerdictTrue
<1>1. IInv /\ WalletInv => VerdictTrue
  <2> SUFFICES ASSUME IInv, WalletInv, NEW j \in Jobs
               PROVE  /\ Settlement(j) = "SETTLED" => landed(j)
                      /\ Settlement(j) \in {"REVERTED", "FAILED"} => ~landed(j) /\ wallet[j] = {}
    BY DEF VerdictTrue
  <2> DEFINE d == db[j]
  <2>1. Truth(d, relay[j]) /\ d \in Via(db, plan, j)
    BY NowTrue, HereIsPassed DEF IInv
  <2>2. d.row["settlement"] = "SETTLED" => relay[j] = "done"
    BY <2>1, OpsAre DEF Truth, Unsent
  <2>3. ASSUME d.row["settlement"] \in {"REVERTED", "FAILED"} PROVE relay[j] # "done" /\ wallet[j] = {}
    <3>1. relay[j] # "done"
      BY <2>1, <2>3 DEF Truth, Sent, Owned, relayAmbiguous
    <3>2. \A op \in WalletOps : ~Live(d, op)
      BY <2>1, <2>3, OpsAre DEF Truth, terminal
    <3>3. wallet[j] \in SUBSET Contributions /\ (wallet[j] # {} => Backed(d, wallet[j]))
      BY <2>1 DEF WalletInv, WalletOK, Due
    <3> QED
      BY <3>1, <3>2, <3>3, NothingOwed
  <2> QED
    BY <2>2, <2>3 DEF Settlement, landed
<1> QED
  BY <1>1, WalletIsAccounted, PTL

-----------------------------------------------------------------------------
(* The claims of the jobs that are not over.                               *)

\* A job that is not over is claimed, once the start-up has come to it.  A job that is
\* settled is one whose offers the backend shows as consumed, so that no other job is
\* admitted for them; nor is one for the offers of a job that landed and is not yet over.
StockOK(j) == Live(Ahead(db, plan, j), "settlement") /\ todo[j].place # "boot" => Route[j] \in stock
SettledOK(j) ==
    (\E e \in Via(db, plan, j) : e.row["settlement"] = "SETTLED") => Route[j] \subseteq visible
DoneApart == \A j, k \in Jobs : j # k /\ relay[j] = "done" /\ Alive(k) => Route[j] \cap Route[k] = {}
StockInv == DoneApart /\ \A j \in Jobs : StockOK(j) /\ SettledOK(j)

\* The pending writes of a job are writes.
LEMMA WritesTyped ==
    ASSUME NEW p \in Seq([job : Jobs, w : Writes]), NEW j PROVE WritesOf(p, j) \in Seq(Writes)
<1>1. DOMAIN p = 1..Len(p) /\ Len(p) \in Nat /\ \A i \in 1..Len(p) : p[i].w \in Writes
  <2> DEFINE R == [job : Jobs, w : Writes]
  <2>1. \A q \in R : q.w \in Writes
    OBVIOUS
  <2>2. p \in Seq(R)
    OBVIOUS
  <2> HIDE DEF R
  <2>3. DOMAIN p = 1..Len(p) /\ Len(p) \in Nat /\ \A i \in 1..Len(p) : p[i] \in R
    BY <2>2
  <2> QED
    BY <2>1, <2>3
<1>2. [i \in DOMAIN p |-> p[i].w] \in Seq(Writes)
  BY <1>1
<1>3. <<>> \in Seq(Writes)
  OBVIOUS
<1> QED
  BY <1>2, <1>3 DEF WritesOf

\* Once the settlement row of a job is terminal no write that is accepted changes it.
LEMMA TerminalStays ==
    ASSUME NEW d \in Rows, NEW ws \in Seq(Writes), AllAccepted(d, ws), d.row["settlement"] \in terminal,
           NEW z \in Passed(d, ws)
    PROVE  z.row["settlement"] = d.row["settlement"]
<1> DEFINE S == {n \in Nat : n <= Len(ws) => /\ At(d, ws, n) \in Rows
                                             /\ At(d, ws, n).row["settlement"] = d.row["settlement"]}
<1>0. Len(ws) \in Nat
  OBVIOUS
<1>1. At(d, ws, 0) = d /\ \A n \in 1..Len(ws) : At(d, ws, n) = Put(At(d, ws, n - 1), ws[n])
  BY AtNext
<1>2. 0 \in S
  BY <1>1
<1>3. ASSUME NEW n \in Nat, n \in S PROVE n + 1 \in S
  <2> SUFFICES ASSUME n + 1 <= Len(ws)
               PROVE  At(d, ws, n + 1) \in Rows /\ At(d, ws, n + 1).row["settlement"] = d.row["settlement"]
    OBVIOUS
  <2> DEFINE x == At(d, ws, n)
             w == ws[n + 1]
             y == At(d, ws, n + 1)
  <2>1. x \in Rows /\ x.row["settlement"] = d.row["settlement"]
    BY <1>0, <1>3
  <2>2. n + 1 \in 1..Len(ws) /\ n + 1 - 1 = n
    BY <1>0
  <2>3. y = Put(x, w) /\ w \in Writes /\ Accepted(x, w)
    BY <1>1, <2>2 DEF AllAccepted
  <2> HIDE DEF x, w, y
  <2>4. y \in Rows
    BY <2>1, <2>3, PutTyped
  <2>5. "settlement" \in Ops /\ x.row["settlement"] # None
    BY <2>1, OpsAre DEF terminal, None
  <2>6. ASSUME y.row["settlement"] # x.row["settlement"] PROVE FALSE
    <3>1. w.op = "settlement" /\ w.to # x.row["settlement"]
      BY <2>1, <2>3, <2>5, <2>6, OneRow
    <3>2. w.to \in Journal!allowedTransitions[x.row["settlement"]]
      BY <2>3, <2>5, <3>1 DEF Accepted
    <3> QED
      BY <2>1, <3>2 DEF terminal, Journal!allowedTransitions, Journal!States
  <2> QED
    BY <2>1, <2>4, <2>6 DEF y
<1> HIDE DEF S
<1>4. \A n \in Nat : n \in S
  BY <1>2, <1>3, NatSetInduction
<1>5. PICK n \in 0..Len(ws) : z = At(d, ws, n)
  BY DEF Passed
<1>6. n \in S /\ n \in Nat /\ n <= Len(ws)
  BY <1>0, <1>4, <1>5
<1> QED
  BY <1>5, <1>6 DEF S

\* A handler leaves a job that is over as it is.
LEMMA NotRevived ==
    ASSUME IInv, IInv', Quiet, db' = db, NEW j \in Jobs, db[j].row["settlement"] # None, ~Live(db[j], "settlement")
    PROVE  /\ \A z \in Via(db, plan, j)' : z.row["settlement"] = db[j].row["settlement"]
           /\ ~Live(Ahead(db, plan, j), "settlement")' /\ ~Alive(j)'
<1> DEFINE ws == WritesOf(plan', j)
<1>1. db[j] \in Rows
  BY AtRest
<1>2. ws \in Seq(Writes) /\ AllAccepted(db[j], ws)
  BY WritesTyped DEF IInv, Typed, PlanTyped, Accepting
<1>3. Via(db, plan, j)' = Passed(db[j], ws) /\ Ahead(db, plan, j)' = After(db[j], ws)
  BY DEF Via, Ahead
<1>4. db[j].row["settlement"] \in terminal
  BY DEF Live
<1>5. \A z \in Via(db, plan, j)' : z.row["settlement"] = db[j].row["settlement"]
  BY <1>1, <1>2, <1>3, <1>4, TerminalStays
<1>6. Ahead(db, plan, j)' \in Via(db, plan, j)'
  <2>1. At(db[j], ws, Len(ws)) = After(db[j], ws) /\ Len(ws) \in 0..Len(ws)
    BY <1>2, AtNext
  <2> QED
    BY <1>3, <2>1 DEF Passed
<1> QED
  BY <1>4, <1>5, <1>6 DEF Live, Alive

\* What a handler of a job does to what else there is.
Handles(j) ==
    /\ Quiet /\ db' = db /\ visible' = visible /\ \E ws : Plan(j, ws)
    /\ relay' = [relay EXCEPT ![j] = relay'[j]] /\ (relay'[j] = "done" => relay[j] = "done")
    /\ todo' = [todo EXCEPT ![j] = todo'[j]] /\ db[j].row["settlement"] # None
\* It settles a job that landed only where the backend shows its offers as consumed.
Settles(j) ==
    relay'[j] = "done" =>
        \A z \in Via(db, plan, j)' :
            z.row["settlement"] = "SETTLED" => db[j].row["settlement"] = "SETTLED" \/ Route[j] \subseteq visible
\* It releases the claim of no job but one that is then over.
Stocked(j) ==
    \/ /\ stock \subseteq stock'
       /\ \/ todo[j].place # "boot" \/ todo'[j].place = "boot" \/ Route[j] \in stock'
          \/ ~Live(Ahead(db, plan, j), "settlement")'
    \/ /\ stock' = stock \ {Route[j]} /\ ~Live(Ahead(db, plan, j), "settlement")'
       /\ Live(db[j], "settlement") \/ relay[j] = "done"

\* Such a handler keeps the claims.
LEMMA StockHandler ==
    ASSUME IInv, IInv', StockInv, NEW j \in Jobs, Handles(j), Settles(j), Stocked(j)
    PROVE  StockInv'
<1>1. /\ Quiet /\ db' = db /\ visible' = visible /\ (relay'[j] = "done" => relay[j] = "done")
      /\ db[j].row["settlement"] # None
  BY DEF Handles
<1>2. \A k \in Jobs : Ahead(db, plan, k) = db[k] /\ Via(db, plan, k) = {db[k]}
  BY <1>1, AtRest
<1>3. \A k \in Jobs \ {j} : relay'[k] = relay[k] /\ todo'[k] = todo[k]
  BY DEF Handles, IInv, Typed
<1>4. ASSUME NEW k \in Jobs \ {j} PROVE Ahead(db, plan, k)' = db[k] /\ Via(db, plan, k)' = {db[k]}
  <2>1. WritesOf(plan', k) = <<>>
    <3>1. PICK ws : Plan(j, ws)
      BY DEF Handles
    <3> QED
      BY <3>1, OthersWrite
  <2>2. WritesOf(plan, k) = <<>>
    BY <1>1, Still DEF Quiet
  <2>3. Ahead(db, plan', k) = Ahead(db, plan, k) /\ Via(db, plan', k) = Via(db, plan, k)
    BY <2>1, <2>2 DEF Ahead, Via
  <2> QED
    BY <1>1, <1>2, <2>3
<1>5. Live(db[j], "settlement") \/ (~Live(Ahead(db, plan, j), "settlement")' /\ ~Alive(j)'
                                    /\ \A z \in Via(db, plan, j)' : z.row["settlement"] = db[j].row["settlement"])
  BY <1>1, NotRevived
<1>6. \A k \in Jobs : (Alive(k) <=> Live(db[k], "settlement")) /\ (Alive(k)' => Alive(k))
  <2>1. \A k \in Jobs : Alive(k) <=> Live(db[k], "settlement")
    BY <1>2 DEF Alive
  <2>2. \A k \in Jobs \ {j} : Alive(k)' <=> Live(db[k], "settlement")
    BY <1>4 DEF Alive
  <2> QED
    BY <1>5, <2>1, <2>2
<1>7. DoneApart'
  <2> SUFFICES ASSUME NEW i \in Jobs, NEW k \in Jobs, i # k, relay'[i] = "done", Alive(k)'
               PROVE  Route[i] \cap Route[k] = {}
    BY DEF DoneApart
  <2>1. relay[i] = "done" /\ Alive(k)
    BY <1>1, <1>3, <1>6
  <2> QED
    BY <2>1 DEF StockInv, DoneApart
<1>8. ASSUME NEW k \in Jobs PROVE SettledOK(k)'
  <2> SUFFICES ASSUME NEW z \in Via(db, plan, k)', z.row["settlement"] = "SETTLED" PROVE Route[k] \subseteq visible
    BY <1>1 DEF SettledOK
  <2>1. SettledOK(k) /\ (db[k].row["settlement"] = "SETTLED" => Route[k] \subseteq visible)
    BY <1>2 DEF StockInv, SettledOK
  <2>2. CASE k # j
    BY <1>4, <2>1, <2>2
  <2>3. CASE k = j
    <3>1. relay'[j] = "done"
      BY <2>3, OpsAre DEF IInv, JobOK, TruthOK, Truth, Unsent
    <3> QED
      BY <2>1, <2>3, <3>1 DEF Settles
  <2> QED
    BY <2>2, <2>3
<1>9. ASSUME NEW k \in Jobs PROVE StockOK(k)'
  <2> SUFFICES ASSUME Live(Ahead(db, plan, k), "settlement")', todo'[k].place # "boot" PROVE Route[k] \in stock'
    BY DEF StockOK
  <2>1. StockOK(k)
    BY DEF StockInv
  <2>2. CASE k = j
    BY <1>2, <1>5, <2>1, <2>2 DEF StockOK, Stocked
  <2>3. CASE k # j
    <3>1. Live(db[k], "settlement") /\ Route[k] \in stock
      BY <1>2, <1>3, <1>4, <2>1, <2>3 DEF StockOK
    <3>2. CASE stock \subseteq stock'
      BY <3>1, <3>2
    <3>3. CASE stock' = stock \ {Route[j]} /\ (Live(db[j], "settlement") \/ relay[j] = "done")
      <4>1. Route[j] \cap Route[k] = {}
        BY <1>6, <2>3, <3>1, <3>3 DEF IInv, AliveApart, StockInv, DoneApart
      <4>2. Route[j] # Route[k]
        BY <4>1, RouteAssumption
      <4> QED
        BY <3>1, <3>3, <4>2
    <3> QED
      BY <3>2, <3>3 DEF Stocked
  <2> QED
    BY <2>2, <2>3
<1> QED
  BY <1>7, <1>8, <1>9 DEF StockInv

\* A step that leaves the claims alone, and brings no job nearer than it was already.
LEMMA StockSame ==
    ASSUME StockInv, stock' = stock, visible \subseteq visible',
           \A k \in Jobs : /\ Ahead(db, plan, k)' = Ahead(db, plan, k) /\ Via(db, plan, k)' \subseteq Via(db, plan, k)
                           /\ (todo'[k].place # "boot" => todo[k].place # "boot")
                           /\ (relay'[k] = "done" => relay[k] = "done")
    PROVE  StockInv'
<1>1. \A k \in Jobs : Alive(k)' => Alive(k)
  BY DEF Alive
<1>2. DoneApart'
  BY <1>1 DEF StockInv, DoneApart
<1>3. \A k \in Jobs : StockOK(k)' /\ SettledOK(k)'
  BY DEF StockInv, StockOK, SettledOK
<1> QED
  BY <1>2, <1>3 DEF StockInv

\* A job that memory forgets is over.
LEMMA Forgotten ==
    ASSUME IInv', NEW j \in Jobs, mem'[j] = NoRecord, todo'[j].place # "boot",
           busy' # j \/ target' # None \/ chain'[j].at # "fail"
    PROVE  ~Live(Ahead(db, plan, j), "settlement")'
  BY DEF IInv, JobOK, KeptOK, NoRecord

\* To leave the plan alone is to plan nothing.
LEMMA PlansSome == ASSUME Quiet, UNCHANGED plan, NEW j PROVE \E ws : Plan(j, ws)
  BY PlansNothing

\* A step of a build, or its deadline.
LEMMA BuildingStock == ASSUME IInv, IInv', StockInv, NEW j \in Jobs, Building(j) \/ Timeout(j) PROVE StockInv'
<1>1. Quiet
  BY DEF Building, Timeout, ReadFiles, GetAddress, WalletReturns, WalletThrows, CleanupCall, CleanupReturns,
         CleanupDone, Answer
<1>2. JobOK(j) /\ Ahead(db, plan, j) = db[j] /\ relay \in [Jobs -> Answers] /\ mem \in [Jobs -> Record]
  BY <1>1, AtRest DEF IInv, Typed
<1>3. UNCHANGED <<db, visible, todo, busy>>
  BY DEF Building, Timeout, ReadFiles, GetAddress, WalletReturns, WalletThrows, CleanupCall, CleanupReturns,
         CleanupDone, Answer, sweeper, world
<1>4. relay' = relay \/ relay' = Answered(j) \/ (build[j].pc = "answer" /\ relay' = [relay EXCEPT ![j] = IF @ = "open" THEN "half" ELSE @])
  BY DEF Building, Timeout, ReadFiles, GetAddress, WalletReturns, WalletThrows, CleanupCall, CleanupReturns,
         CleanupDone, Answer, FailBuild, world
<1>5. relay' = [relay EXCEPT ![j] = relay'[j]] /\ (relay'[j] = "done" => relay[j] = "done")
  BY <1>2, <1>4 DEF Answered
<1>6. \E ws : Plan(j, ws)
  <2>1. CASE ReadFiles(j) \/ GetAddress(j)
    BY <1>1, <2>1, PlansSome DEF ReadFiles, GetAddress, FailBuild
  <2>2. CASE WalletReturns(j)
    BY <1>1, <2>2, PlansSome DEF WalletReturns, Complete
  <2>3. CASE WalletThrows(j) \/ Answer(j)
    BY <1>1, <2>3, PlansSome DEF WalletThrows, Answer
  <2>4. CASE CleanupCall(j) \/ CleanupReturns(j)
    BY <1>1, <2>4, PlansSome DEF CleanupCall, CleanupReturns
  <2>5. CASE CleanupDone(j) \/ Timeout(j)
    BY <1>1, <2>5 DEF CleanupDone, Timeout
  <2> QED
    BY <2>1, <2>2, <2>3, <2>4, <2>5 DEF Building
<1>7. db[j].row["settlement"] # None
  <2>1. build[j] # NoBuild
    BY OpsAre DEF Building, Timeout, ReadFiles, GetAddress, WalletReturns, WalletThrows, CleanupCall, CleanupReturns,
           CleanupDone, Answer, NoBuild
  <2> QED
    BY <1>2, <2>1 DEF JobOK, FreshOK
<1>8. Handles(j) /\ todo[j] \in Record
  BY <1>1, <1>2, <1>3, <1>5, <1>6, <1>7 DEF Handles, IInv, Typed
<1>9. CASE Making(j)
  <2>1. chain[j] = Idle /\ todo[j] = NoRecord /\ busy # j /\ relay[j] \in {"open", "error"} /\ Live(db[j], "settlement")
    BY <1>1, <1>9, WhileMaking
  <2>2. Settles(j)
    BY <1>5, <2>1 DEF Settles
  <2>3. stock' = stock \/ Forget(j)
    BY DEF Building, Timeout, ReadFiles, GetAddress, WalletReturns, WalletThrows, CleanupCall, CleanupReturns,
         CleanupDone, Answer, FailBuild, world
  <2>4. ASSUME Forget(j) PROVE Stocked(j)
    <3>1. mem'[j] = NoRecord /\ stock' = stock \ {Route[j]}
      BY <1>2, <2>4 DEF Forget, Release
    <3>2. todo'[j].place # "boot" /\ busy' # j
      BY <1>3, <2>1 DEF NoRecord
    <3> QED
      BY <2>1, <3>1, <3>2, Forgotten DEF Stocked
  <2>5. ASSUME stock' = stock PROVE Stocked(j)
    BY <2>1, <2>5 DEF Stocked, NoRecord
  <2> QED
    BY <1>8, <2>2, <2>3, <2>4, <2>5, StockHandler
<1>10. CASE ~Making(j)
  <2>1. Answer(j)
    BY <1>10, OpsAre DEF Making, Building, Timeout, ReadFiles, GetAddress, WalletReturns, WalletThrows, CleanupCall, CleanupReturns,
         CleanupDone, JobOK, BuildOK, IInv
  <2>2. plan' = plan /\ stock' = stock
    BY <2>1 DEF Answer
  <2>3. Ahead(db, plan, j)' = Ahead(db, plan, j) /\ Via(db, plan, j)' = {db[j]}
    BY <1>1, <1>3, <2>2, AtRest
  <2>4. Settles(j)
    BY <2>3 DEF Settles
  <2>5. Stocked(j)
    BY <1>3, <2>2 DEF Stocked
  <2> QED
    BY <1>8, <2>4, <2>5, StockHandler
<1> QED
  BY <1>9, <1>10

\* Writes none of which settles a job that landed.
LEMMA SettlesNone ==
    ASSUME NEW j \in Jobs, db' = db, NEW ws, Plan(j, ws), NEW P, NEW e, Takes(db[j], ws, P, e),
           \A z \in P : z.row["settlement"] = "SETTLED" => db[j].row["settlement"] = "SETTLED" \/ Route[j] \subseteq visible
    PROVE  Settles(j) /\ \E vs : Plan(j, vs)
<1>1. Via(db, plan', j) \subseteq P
  BY Planned
<1> QED
  BY <1>1 DEF Settles

\* quarantineEvidence, reconcileRelayDone and reconcileRelayFailure hold or submit rows.
LEMMA ReconcilingSettles ==
    ASSUME IInv, Quiet, NEW j \in Jobs, db' = db, NEW pre, NEW Q, NEW x, Leads(db[j], pre, Q, x), NEW r,
           quarantineEvidence(j, r, pre) \/ reconcileRelayDone(j, r, pre) \/ reconcileRelayFailure(j, r, pre)
    PROVE  Settles(j) /\ \E vs : Plan(j, vs)
<1> DEFINE d == db[j]
<1>1. Takes(d, pre, Q, x) /\ (\A z \in Q : Holding(d, "relay", z)) /\ Holding(d, "relay", x) /\ x = After(d, pre)
  BY LeadsTo DEF Leads
<1>2. "settlement" \in Ops /\ x \in Rows
  BY <1>1, OpsAre DEF Holding, Beside
<1>3. (\A z \in Q : z.row["settlement"] \in {d.row["settlement"], "QUARANTINED"})
      /\ x.row["settlement"] \in {d.row["settlement"], "QUARANTINED"}
  BY <1>1, <1>2 DEF Holding
<1> HIDE DEF d
<1>4. CASE quarantineEvidence(j, r, pre)
  <2> DEFINE ws == quarantineGroup(x, "relay")
  <2>1. PICK P, e : Takes(x, ws, P, e) /\ \A z \in P : Holding(x, "relay", z)
    BY <1>2, TakesHold
  <2>2. Plan(j, pre \o ws)
    BY <1>1, <1>4 DEF quarantineEvidence, d
  <2>3. \A z \in P : z.row["settlement"] \in {x.row["settlement"], "QUARANTINED"}
    BY <1>2, <2>1 DEF Holding
  <2> DEFINE R == Q \cup P
             vs == pre \o ws
  <2> HIDE DEF ws
  <2>4. Takes(d, vs, R, e)
    BY <1>1, <2>1, TakesBoth
  <2>5. \A z \in R : z.row["settlement"] = "SETTLED" => d.row["settlement"] = "SETTLED" \/ Route[j] \subseteq visible
    BY <1>3, <2>3
  <2> HIDE DEF R, vs
  <2> QED
    BY <2>2, <2>4, <2>5, SettlesNone DEF d, vs
<1>5. CASE reconcileRelayDone(j, r, pre)
  <2> DEFINE ws == markRelaySubmitted(x)
  <2>1. PICK P, e : Takes(x, ws, P, e) /\ \A z \in P : \A op \in Ops : z.row[op] \in {x.row[op], Submitted(x, op)}
    BY <1>2, TakesSubmitted
  <2>2. Plan(j, pre \o ws)
    BY <1>1, <1>5 DEF reconcileRelayDone, d
  <2>3. \A z \in P : z.row["settlement"] = "SETTLED" => x.row["settlement"] = "SETTLED"
    BY <1>2, <2>1 DEF Submitted
  <2> DEFINE R == Q \cup P
             vs == pre \o ws
  <2> HIDE DEF ws
  <2>4. Takes(d, vs, R, e)
    BY <1>1, <2>1, TakesBoth
  <2>5. \A z \in R : z.row["settlement"] = "SETTLED" => d.row["settlement"] = "SETTLED" \/ Route[j] \subseteq visible
    BY <1>3, <2>3
  <2> HIDE DEF R, vs
  <2> QED
    BY <2>2, <2>4, <2>5, SettlesNone DEF d, vs
<1>6. CASE reconcileRelayFailure(j, r, pre)
  <2> DEFINE w == Receipt("error")
             e == Put(x, w)
             ws == <<w>>
             P == {x, e}
  <2>1. w \in Writes /\ Accepted(x, w) /\ e = [x EXCEPT !.receipt = "error"]
    BY <1>2, PutReceipt
  <2>2. Plan(j, pre \o ws)
    BY <1>6 DEF reconcileRelayFailure
  <2>3. e.row = x.row
    BY <1>2, <2>1 DEF Rows
  <2> HIDE DEF w, e
  <2>4. Takes(x, ws, P, e)
    BY <2>1, TakesOne DEF e
  <2>5. \A z \in P : z.row["settlement"] = x.row["settlement"]
    BY <2>3
  <2> HIDE DEF ws, P
  <2> DEFINE R == Q \cup P
             vs == pre \o ws
  <2>6. Takes(d, vs, R, e)
    BY <1>1, <2>4, TakesBoth
  <2>7. \A z \in R : z.row["settlement"] = "SETTLED" => d.row["settlement"] = "SETTLED" \/ Route[j] \subseteq visible
    BY <1>3, <2>5
  <2> HIDE DEF R, vs
  <2> QED
    BY <2>2, <2>6, <2>7, SettlesNone DEF d, vs
<1> QED
  BY <1>4, <1>5, <1>6

\* A handler that leaves the relay alone.
Rests(j) ==
    /\ Quiet /\ UNCHANGED <<db, relay, visible>>
    /\ todo' = [todo EXCEPT ![j] = todo'[j]] /\ db[j].row["settlement"] # None

\* One that reconciles a job with relay and ledger.
LEMMA ReconcilesStock ==
    ASSUME IInv, IInv', StockInv, NEW j \in Jobs, Rests(j), Stocked(j), NEW pre, NEW Q, NEW x, Leads(db[j], pre, Q, x), NEW r,
           \/ quarantineEvidence(j, r, pre) \/ reconcileRelayDone(j, r, pre) \/ reconcileRelayFailure(j, r, pre)
           \/ reconcileDurableEvidence(j, r, pre) \/ reconcileFromHttp(j, r, pre)
    PROVE  StockInv'
<1>1. quarantineEvidence(j, r, pre) \/ reconcileRelayDone(j, r, pre) \/ reconcileRelayFailure(j, r, pre)
  BY DEF reconcileDurableEvidence, reconcileFromHttp
<1>2. Settles(j) /\ \E vs : Plan(j, vs)
  BY <1>1, ReconcilingSettles DEF Rests
<1>3. Handles(j)
  BY <1>2 DEF Rests, Handles, IInv, Typed
<1> QED
  BY <1>2, <1>3, StockHandler

\* One of a job that did not land.
LEMMA UnsentStock ==
    ASSUME IInv, IInv', StockInv, NEW j \in Jobs, Rests(j), Stocked(j), relay[j] # "done", \E vs : Plan(j, vs)
    PROVE  StockInv'
<1>1. Handles(j) /\ Settles(j)
  BY DEF Rests, Handles, Settles, IInv, Typed
<1> QED
  BY <1>1, StockHandler

\* The ledger is read for a job that was submitted: it is settled when the backend shows
\* all its offers as consumed by one transaction, and its claim released.
LEMMA EvidenceDoneStock == ASSUME IInv, IInv', StockInv, NEW j \in Jobs, EvidenceDone(j) PROVE StockInv'
<1>1. Quiet /\ chain[j].at = "done" /\ Finish(j) /\ UNCHANGED <<db, relay, visible, todo>> /\ mem \in [Jobs -> Record]
  BY DEF EvidenceDone, Finish, world, IInv, Typed
<1>2. db[j].row["settlement"] # None /\ todo[j].place # "boot"
  BY <1>1, InChain
<1>3. Rests(j)
  BY <1>1, <1>2 DEF Rests, IInv, Typed
<1>4. CASE quarantineEvidence(j, chain[j].rec, <<>>) /\ stock' = stock
  <2> DEFINE pre == <<>>
             Q == {db[j]}
  <2>1. Leads(db[j], pre, Q, db[j]) /\ quarantineEvidence(j, chain[j].rec, pre)
    BY <1>1, <1>4, AtRest, LeadsNone
  <2>2. Stocked(j)
    BY <1>2, <1>4 DEF Stocked
  <2> HIDE DEF pre, Q
  <2> QED
    BY <1>3, <2>1, <2>2, ReconcilesStock
<1>5. CASE Uniform(j) /\ finishSettled(j)
  <2>1. relay[j] = "done"
    BY <1>1, AtRest DEF JobOK, ChainOK
  <2>2. Plan(j, markSettled(db[j])) /\ mem'[j] = NoRecord /\ stock' = stock \ {Route[j]}
    BY <1>1, <1>5 DEF finishSettled, Forget, Release
  <2>3. chain'[j].at # "fail"
    BY <1>1, <1>5 DEF finishSettled, EndChain, Idle, IInv, Typed
  <2>4. Stocked(j)
    BY <1>1, <1>2, <2>1, <2>2, <2>3, Forgotten DEF Stocked
  <2>5. Handles(j) /\ Settles(j)
    BY <1>3, <1>5, <2>2 DEF Rests, Handles, Settles, Uniform, IInv, Typed
  <2> QED
    BY <2>4, <2>5, StockHandler
<1> QED
  BY <1>4, <1>5 DEF EvidenceDone

\* The ledger is read for a job that the relay gave up.
LEMMA EvidenceFailStock == ASSUME IInv, IInv', StockInv, NEW j \in Jobs, EvidenceFail(j) PROVE StockInv'
<1>1. /\ Quiet /\ chain[j].at = "fail" /\ stock' = stock /\ UNCHANGED <<db, relay, visible, todo>>
      /\ quarantineEvidence(j, chain[j].rec, <<>>) \/ RevertOrKeep(j, chain[j].rec)
  BY DEF EvidenceFail, Finish, world, sweeper
<1>2. db[j].row["settlement"] # None /\ todo[j].place # "boot"
  BY <1>1, InChain
<1>3. Rests(j) /\ Stocked(j)
  BY <1>1, <1>2 DEF Rests, Stocked, IInv, Typed
<1>4. relay[j] # "done"
  BY <1>1, AtRest DEF JobOK, ChainOK, Truth, Dead
<1>5. \E vs : Plan(j, vs)
  BY <1>1, PlansSome DEF quarantineEvidence, RevertOrKeep
<1> QED
  BY <1>3, <1>4, <1>5, UnsentStock

\* revertWallet ends.
LEMMA RevertReturnsStock == ASSUME IInv, IInv', StockInv, NEW j \in Jobs, RevertReturns(j) PROVE StockInv'
<1>1. /\ Quiet /\ chain[j].at = "revert" /\ UNCHANGED <<db, relay, visible, todo>> /\ chain' = [chain EXCEPT ![j] = Idle]
      /\ \E vs : Plan(j, vs)
      /\ stock' = stock \/ (mem' = [mem EXCEPT ![j] = NoRecord] /\ stock' = stock \ {Route[j]})
  BY DEF RevertReturns, Finish, EndChain, Forget, Release
<1>2. /\ db[j].row["settlement"] # None /\ todo[j].place # "boot" /\ Live(db[j], "settlement") /\ relay[j] # "done"
      /\ chain'[j].at # "fail"
  BY <1>1, InChain, AtRest DEF JobOK, ChainOK, Dead, Idle, IInv, Typed
<1>3. Rests(j)
  BY <1>1, <1>2 DEF Rests, IInv, Typed
<1>4. ASSUME stock' # stock PROVE ~Live(Ahead(db, plan, j), "settlement")'
  <2>1. mem'[j] = NoRecord
    BY <1>1, <1>4 DEF IInv, Typed
  <2> QED
    BY <1>1, <1>2, <2>1, Forgotten
<1>5. Stocked(j)
  BY <1>1, <1>2, <1>4 DEF Stocked
<1> QED
  BY <1>1, <1>2, <1>3, <1>5, UnsentStock

\* A frame of the relay.
LEMMA FramesStock ==
    ASSUME IInv, IInv', StockInv, NEW j \in Jobs, onTxSubmitted(j) \/ onSubmitFailed(j) PROVE StockInv'
<1> DEFINE pre == <<>>
           Q == {db[j]}
<1>1. /\ Quiet /\ UNCHANGED <<db, build, sweeper, relay, visible, stock, todo>> /\ Answerable(j)
      /\ reconcileRelayDone(j, mem[j], pre) \/ reconcileRelayFailure(j, mem[j], pre)
  BY DEF onTxSubmitted, onSubmitFailed, Answerable, world, sweeper
<1>2. db[j].row["settlement"] # None
  BY <1>1, Answering
<1>3. Leads(db[j], pre, Q, db[j])
  BY <1>1, AtRest, LeadsNone
<1>4. Rests(j) /\ Stocked(j)
  BY <1>1, <1>2 DEF Rests, Stocked, IInv, Typed
<1> HIDE DEF pre, Q
<1> QED
  BY <1>1, <1>3, <1>4, ReconcilesStock

\* Nothing is written, so nothing is settled.
LEMMA StillSettles ==
    ASSUME Quiet, UNCHANGED <<db, plan>>, NEW j PROVE Settles(j) /\ \E vs : Plan(j, vs)
<1>1. Via(db, plan, j)' = {db[j]}
  BY Still DEF Quiet
<1> QED
  BY <1>1, PlansSome DEF Settles

\* The sweep passes over a record that it can do nothing for.
LEMMA SweepSkipsStock == ASSUME IInv, IInv', StockInv, NEW j \in Jobs, SweepSkips(j) PROVE StockInv'
<1>1. Take(j) /\ phase # "boot" /\ UNCHANGED <<db, plan, stock, relay, visible>>
  BY DEF SweepSkips, Take
<1>2. Quiet /\ db[j].row["settlement"] # None /\ todo' = [todo EXCEPT ![j] = todo'[j]]
  BY <1>1, Taking
<1>3. todo[j].place # "boot"
  BY <1>1 DEF IInv, JobOK, LocalOK
<1>4. Handles(j) /\ Settles(j) /\ Stocked(j)
  BY <1>1, <1>2, <1>3, StillSettles DEF Handles, Stocked, IInv, Typed
<1> QED
  BY <1>4, StockHandler

\* It reconciles a record with relay and ledger.
LEMMA SweepReconcilesStock == ASSUME IInv, IInv', StockInv, NEW j \in Jobs, SweepReconciles(j) PROVE StockInv'
<1> DEFINE pre == <<>>
           Q == {db[j]}
           r == todo[j]
<1>1. /\ Take(j) /\ phase # "boot" /\ UNCHANGED <<db, stock, relay, visible>>
      /\ reconcileDurableEvidence(j, r, pre) \/ reconcileFromHttp(j, r, pre)
  BY DEF SweepReconciles, Take
<1>2. Quiet /\ db[j].row["settlement"] # None /\ todo' = [todo EXCEPT ![j] = todo'[j]]
  BY <1>1, Taking
<1>3. todo[j].place # "boot"
  BY <1>1 DEF IInv, JobOK, LocalOK
<1>4. Rests(j) /\ Stocked(j)
  BY <1>1, <1>2, <1>3 DEF Rests, Stocked
<1>5. Leads(db[j], pre, Q, db[j])
  BY <1>2, AtRest, LeadsNone
<1> HIDE DEF pre, Q, r
<1> QED
  BY <1>1, <1>4, <1>5, ReconcilesStock

\* The start-up comes to a job whose claim it takes, or which is over.
LEMMA BootRests ==
    ASSUME IInv, IInv', NEW j \in Jobs, Boot(j), todo' = [todo EXCEPT ![j] = todo'[j]], stock \subseteq stock',
           \/ Route[j] \in stock'
           \/ todo' = [todo EXCEPT ![j] = NoRecord] /\ busy' = Nobody /\ mem' = mem
    PROVE  Rests(j) /\ Stocked(j)
<1>1. /\ Quiet /\ db[j].row["settlement"] # None /\ UNCHANGED <<db, relay, visible>> /\ mem[j] = NoRecord /\ Nobody # j
  BY Starting DEF Boot
<1>2. Rests(j)
  BY <1>1 DEF Rests
<1>3. CASE todo' = [todo EXCEPT ![j] = NoRecord] /\ busy' = Nobody /\ mem' = mem
  <2>1. todo'[j].place # "boot" /\ mem'[j] = NoRecord
    BY <1>1, <1>3 DEF IInv, Typed, NoRecord
  <2> QED
    BY <1>1, <1>2, <1>3, <2>1, Forgotten DEF Stocked
<1> QED
  BY <1>2, <1>3 DEF Stocked

\* What is done with a job is done when it is over.
LEMMA BootCompletesStock == ASSUME IInv, IInv', StockInv, NEW j \in Jobs, BootCompletes(j) PROVE StockInv'
<1> DEFINE d == db[j]
<1>1. /\ Boot(j) /\ BootNext(j) /\ UNCHANGED <<mem, stock>> /\ \E vs : Plan(j, vs)
      /\ \/ d.row["settlement"] \in terminal
         \/ d.row["revert"] = "REVERTED"
         \/ Failable(d)
  BY DEF BootCompletes, Settlement, ProvedRevert
<1>2. Rests(j) /\ Stocked(j)
  BY <1>1, BootRests DEF BootNext, IInv, Typed
<1>3. Truth(d, relay[j])
  BY <1>1, Starting
<1>4. ASSUME relay[j] = "done" PROVE d.row["settlement"] = "SETTLED"
  <2>1. Owned(d) /\ d.row["revert"] # "REVERTED"
    BY <1>3, <1>4 DEF Truth, Sent, Dead, None
  <2> QED
    BY <1>1, <2>1, OpsAre DEF Owned, relayAmbiguous, Failable, Live, terminal, None
<1>5. Handles(j) /\ Settles(j)
  BY <1>1, <1>2, <1>4 DEF Rests, Handles, Settles, IInv, Typed
<1> QED
  BY <1>2, <1>5, StockHandler

\* Nothing can be proved of a job, and it is kept with its claim.
LEMMA BootKeepsStock == ASSUME IInv, IInv', StockInv, NEW j \in Jobs, BootKeeps(j) PROVE StockInv'
<1> DEFINE y == "local"
           ws == quarantineGroup(db[j], y)
<1>1. Boot(j) /\ BootNext(j) /\ Claimed(j) /\ Plan(j, ws) /\ db' = db
  BY DEF BootKeeps, Boot
<1>2. Rests(j) /\ Stocked(j)
  BY <1>1, BootRests DEF BootNext, Claimed, IInv, Typed
<1>3. db[j] \in Rows
  BY <1>1, Starting
<1>4. PICK P, e : Takes(db[j], ws, P, e) /\ \A z \in P : Holding(db[j], y, z)
  BY <1>3, TakesHold
<1>5. \A z \in P : z.row["settlement"] \in {db[j].row["settlement"], "QUARANTINED"}
  BY <1>4, OpsAre DEF Holding
<1> HIDE DEF y, ws
<1>6. Settles(j)
  BY <1>1, <1>4, <1>5, SettlesNone
<1>7. Handles(j)
  BY <1>1, <1>2 DEF Rests, Handles, IInv, Typed
<1> QED
  BY <1>2, <1>6, <1>7, StockHandler

\* Its artifacts are restored, and it is to be reverted.
LEMMA BootRevertsStock == ASSUME IInv, IInv', StockInv, NEW j \in Jobs, BootReverts(j) PROVE StockInv'
<1>1. Boot(j) /\ Claimed(j) /\ UNCHANGED <<db, plan>> /\ todo' = [todo EXCEPT ![j] = todo'[j]]
  BY DEF BootReverts, Boot, IInv, Typed
<1>2. Rests(j) /\ Stocked(j)
  BY <1>1, BootRests DEF Claimed
<1>3. Handles(j) /\ Settles(j)
  BY <1>1, <1>2, StillSettles DEF Rests, Handles, IInv, Typed
<1> QED
  BY <1>2, <1>3, StockHandler

\* A job that the relay may have: relay and ledger decide.
LEMMA BootReconcilesStock == ASSUME IInv, IInv', StockInv, NEW j \in Jobs, BootReconciles(j) PROVE StockInv'
<1> DEFINE d == db[j]
           y == "relay"
           pre == quarantineGroup(d, y)
           r == [In("quarantined") EXCEPT !.evid = TRUE, !.tx = FinalRows(db[j]) # {}]
<1>1. Boot(j) /\ Claimed(j) /\ reconcileDurableEvidence(j, r, pre) /\ todo' = [todo EXCEPT ![j] = todo'[j]]
  BY DEF BootReconciles, IInv, Typed
<1>2. Rests(j) /\ Stocked(j)
  BY <1>1, BootRests DEF Claimed
<1>3. d \in Rows
  BY <1>1, Starting
<1>4. PICK Q, x : /\ Takes(d, pre, Q, x) /\ AllHeld(d, y, x) /\ \A z \in Q : Holding(d, y, z)
  BY <1>3, TakesHold
<1>5. Leads(d, pre, Q, x)
  BY <1>4 DEF Leads
<1> HIDE DEF d, pre, r
<1> QED
  BY <1>1, <1>2, <1>5, ReconcilesStock DEF d

\* A local recovery of a job, which no relay submits.
LEMMA RecoveryStock ==
    ASSUME IInv, IInv', StockInv, NEW j \in Jobs, Quiet, UNCHANGED <<db, relay, visible>>,
           todo' = [todo EXCEPT ![j] = todo'[j]], todo[j].place # "boot", todo'[j].place # "boot",
           mem[j].local, Live(db[j], "settlement"),
           retainRecoveryAmbiguity(j) \/ \E pre : ContinueRecovery(j, pre)
    PROVE  StockInv'
<1>1. relay[j] # "done" /\ db[j].row["settlement"] # None
  BY DEF IInv, JobOK, LocalOK, Gone, Dead, Live
<1>2. Rests(j)
  BY <1>1 DEF Rests
<1>3. CASE retainRecoveryAmbiguity(j)
  <2>1. Stocked(j) /\ \E vs : Plan(j, vs)
    BY <1>3 DEF retainRecoveryAmbiguity, Stocked
  <2> QED
    BY <1>1, <1>2, <2>1, UnsentStock
<1>4. ASSUME NEW pre, ContinueRecovery(j, pre) PROVE StockInv'
  <2>1. /\ \E vs : Plan(j, vs)
        /\ \/ stock' = stock
           \/ stock' = stock \ {Route[j]} /\ mem' = [mem EXCEPT ![j] = NoRecord] /\ busy' = Nobody
    BY <1>4 DEF ContinueRecovery, Forget, Release
  <2>2. ASSUME stock' # stock PROVE ~Live(Ahead(db, plan, j), "settlement")'
    <3>1. mem'[j] = NoRecord /\ busy' # j
      BY <2>1, <2>2, NameAssumption DEF IInv, Typed
    <3> QED
      BY <3>1, Forgotten
  <2>3. Stocked(j)
    BY <2>1, <2>2 DEF Stocked
  <2> QED
    BY <1>1, <1>2, <2>1, <2>3, UnsentStock
<1> QED
  BY <1>3, <1>4

\* The sweep, or the start-up, retries a job that is to be reverted locally.
LEMMA SweepRetriesStock == ASSUME IInv, IInv', StockInv, NEW j \in Jobs, SweepRetries(j) PROVE StockInv'
<1>1. /\ Take(j) /\ mem[j].local /\ Live(db[j], "settlement") /\ UNCHANGED <<db, relay, visible>>
      /\ retainRecoveryAmbiguity(j) \/ \E pre : ContinueRecovery(j, pre)
  BY DEF SweepRetries, Retryable, owns, Take, retryQuarantine
<1>2. Quiet /\ todo' = [todo EXCEPT ![j] = todo'[j]] /\ todo'[j].place = "none"
  BY <1>1, Taking
<1>3. todo[j].place # "boot"
  BY <1>1 DEF IInv, JobOK, LocalOK, NoRecord
<1> QED
  BY <1>1, <1>2, <1>3, RecoveryStock

\* The wallet call of a recovery ends.
LEMMA RecoveryReturnsStock == ASSUME IInv, IInv', StockInv, RecoveryReturns PROVE StockInv'
<1> DEFINE j == busy
<1>1. /\ Quiet /\ target # None /\ UNCHANGED <<db, relay, visible, todo>>
      /\ retainRecoveryAmbiguity(j) \/ \E pre : ContinueRecovery(j, pre)
  BY DEF RecoveryReturns
<1>2. j \in Jobs /\ todo' = [todo EXCEPT ![j] = todo'[j]]
  BY <1>1 DEF IInv, Typed
<1>3. JobOK(j) /\ Ahead(db, plan, j) = db[j]
  BY <1>1, <1>2, AtRest
<1>4. mem[j].local /\ Live(db[j], "settlement") /\ todo[j].place # "boot"
  BY <1>1, <1>3 DEF JobOK, RetryOK, Retrying, LocalOK
<1> HIDE DEF j
<1> QED
  BY <1>1, <1>2, <1>4, RecoveryStock

\* At the start no job is live.
LEMMA StockBegins == Init => StockInv
<1> SUFFICES ASSUME Init PROVE StockInv
  OBVIOUS
<1>1. plan = <<>> /\ \A j \in Jobs : db[j].row["settlement"] = None /\ relay[j] = "none"
  BY OpsAre DEF Init, NoRows
<1>2. \A j \in Jobs : Ahead(db, plan, j) = db[j] /\ Via(db, plan, j) = {db[j]}
  BY <1>1, Still
<1> QED
  BY <1>1, <1>2 DEF StockInv, DoneApart, StockOK, SettledOK, Live, None

\* A job is admitted only for offers that no job holds and that are not consumed.
LEMMA OnSwapStock == ASSUME IInv, IInv', StockInv, NEW j \in Jobs, OnSwap(j) PROVE StockInv'
<1>1. /\ Quiet /\ relay[j] = "none" /\ UNCHANGED <<db, todo, visible>> /\ relay \in [Jobs -> Answers]
      /\ \A k \in Jobs : Ahead(db, plan, k) = db[k] /\ Via(db, plan, k) = {db[k]}
  BY AtRest DEF OnSwap, sweeper, IInv, Typed
<1>2. CASE ~(phase # "boot" /\ Admissible(j))
  <2>1. relay' = [relay EXCEPT ![j] = "error"] /\ plan' = plan /\ stock' = stock
    BY <1>2 DEF OnSwap
  <2>2. \A k \in Jobs : relay'[k] = "done" => relay[k] = "done"
    BY <1>1, <2>1
  <2> QED
    BY <1>1, <2>1, <2>2, StockSame
<1>3. CASE Admissible(j) /\ phase # "boot"
  <2> DEFINE ws == <<Set("settlement", "PREPARED")>>
  <2>1. relay' = [relay EXCEPT ![j] = "open"] /\ stock' = stock \cup {Route[j]} /\ Plan(j, ws)
    BY <1>3 DEF OnSwap
  <2>2. relay'[j] = "open" /\ \A k \in Jobs \ {j} : relay'[k] = relay[k]
    BY <1>1, <2>1
  <2> HIDE DEF ws
  <2>3. ASSUME NEW k \in Jobs \ {j} PROVE Ahead(db, plan, k)' = db[k] /\ Via(db, plan, k)' = {db[k]}
    <3>1. WritesOf(plan', k) = <<>> /\ WritesOf(plan, k) = <<>>
      BY <1>1, <2>1, OthersWrite, Still DEF Quiet
    <3>2. Ahead(db, plan', k) = Ahead(db, plan, k) /\ Via(db, plan', k) = Via(db, plan, k)
      BY <3>1 DEF Ahead, Via
    <3> QED
      BY <1>1, <3>2
  <2>4. \A k \in Jobs \ {j} : Alive(k)' <=> Alive(k)
    BY <1>1, <2>3 DEF Alive
  <2>5. ASSUME NEW i \in Jobs \ {j}, relay[i] = "done", Alive(j)' PROVE Route[i] \cap Route[j] = {}
    <3>1. Truth(db[i], "done") /\ SettledOK(i)
      BY <1>1, <2>5, AtRest DEF StockInv
    <3>2. Live(db[i], "settlement") \/ db[i].row["settlement"] = "SETTLED"
      BY <3>1 DEF Truth, Sent, Owned, relayAmbiguous, Live, terminal, None
    <3>3. CASE Live(db[i], "settlement")
      <4>1. Alive(i)'
        BY <2>3, <3>3 DEF Alive
      <4> QED
        BY <2>5, <4>1 DEF IInv, AliveApart
    <3>4. CASE db[i].row["settlement"] = "SETTLED"
      <4>1. Route[i] \subseteq visible
        BY <1>1, <3>1, <3>4 DEF SettledOK
      <4>2. Route[j] \cap visible = {}
        BY <1>3 DEF Admissible
      <4> QED
        BY <4>1, <4>2
    <3> QED
      BY <3>2, <3>3, <3>4
  <2>6. DoneApart'
    <3> SUFFICES ASSUME NEW i \in Jobs, NEW k \in Jobs, i # k, relay'[i] = "done", Alive(k)'
                 PROVE  Route[i] \cap Route[k] = {}
      BY DEF DoneApart
    <3>1. i # j /\ relay[i] = "done"
      BY <2>2
    <3> QED
      BY <2>4, <2>5, <3>1 DEF StockInv, DoneApart
  <2>7. SettledOK(j)' /\ StockOK(j)'
    <3>1. \A e \in Via(db, plan, j)' : e.row["settlement"] # "SETTLED"
      BY <2>2, OpsAre DEF IInv, JobOK, TruthOK, Truth, Unsent
    <3> QED
      BY <2>1, <3>1 DEF SettledOK, StockOK
  <2>8. \A k \in Jobs \ {j} : SettledOK(k)' /\ StockOK(k)'
    BY <1>1, <2>1, <2>3 DEF StockInv, SettledOK, StockOK
  <2> QED
    BY <2>6, <2>7, <2>8 DEF StockInv
<1> QED
  BY <1>2, <1>3

\* The relay submits a half: its job is not over, so no other that is not over has its offers.
LEMMA RelaySubmitsStock == ASSUME IInv, StockInv, NEW j \in Jobs, RelaySubmits(j) PROVE StockInv'
<1>1. /\ UNCHANGED <<db, plan, todo, stock, visible>> /\ relay[j] = "half" /\ relay \in [Jobs -> Answers]
      /\ relay' = [relay EXCEPT ![j] = "done"]
  BY DEF RelaySubmits, memory, IInv, Typed
<1>2. Alive(j)
  <2>1. db[j] \in Via(db, plan, j) /\ Truth(db[j], "half")
    BY <1>1, HereIsPassed, NowTrue DEF IInv
  <2>2. Live(db[j], "settlement")
    BY <2>1, OpsAre DEF Truth, Sent, Owned, Unsent, relayAmbiguous, Live, terminal, None
  <2> QED
    BY <2>1, <2>2 DEF Alive
<1>3. DoneApart'
  <2> SUFFICES ASSUME NEW i \in Jobs, NEW k \in Jobs, i # k, relay'[i] = "done", Alive(k)
               PROVE  Route[i] \cap Route[k] = {}
    BY <1>1 DEF DoneApart, Alive
  <2> QED
    BY <1>1, <1>2 DEF StockInv, DoneApart, IInv, AliveApart
<1> QED
  BY <1>1, <1>3 DEF StockInv, StockOK, SettledOK

\* A restart: the start-up has yet to come to every job that is not over.
LEMMA CrashStock == ASSUME IInv, StockInv, Crash PROVE StockInv'
<1>1. /\ plan' = <<>> /\ UNCHANGED <<db, relay, visible>>
      /\ todo' = [j \in Jobs |-> IF Settlement(j) = None THEN NoRecord ELSE In("boot")]
  BY DEF Crash
<1>2. \A j \in Jobs : Ahead(db, plan, j)' = db[j] /\ Via(db, plan, j)' = {db[j]}
  BY <1>1, Still
<1>3. \A j \in Jobs : db[j] \in Via(db, plan, j)
  BY HereIsPassed DEF IInv
<1>4. \A j \in Jobs : StockOK(j)'
  BY <1>1, <1>2 DEF StockOK, Settlement, Live, In, NoRecord
<1>5. \A j \in Jobs : SettledOK(j)' /\ (Alive(j)' => Alive(j))
  BY <1>1, <1>2, <1>3 DEF StockInv, SettledOK, Alive
<1>6. DoneApart'
  BY <1>1, <1>5 DEF StockInv, DoneApart
<1> QED
  BY <1>4, <1>5, <1>6 DEF StockInv

\* The other steps leave the claims alone.
LEMMA OthersStock ==
    ASSUME IInv, StockInv,
           \/ Write \/ sweep \/ BootEnds \/ UNCHANGED vars
           \/ \E j \in Jobs : RelayGivesUp(j)
           \/ \E o \in Offers : RivalTakes(o) \/ IndexConsumption(o)
    PROVE  StockInv'
<1>1. stock' = stock /\ visible \subseteq visible' /\ \A k \in Jobs : relay'[k] = "done" => relay[k] = "done"
  BY DEF Write, sweep, BootEnds, RelayGivesUp, RivalTakes, IndexConsumption, vars, memory, world, IInv, Typed
<1>2. \A k \in Jobs : Ahead(db, plan, k)' = Ahead(db, plan, k) /\ Via(db, plan, k)' \subseteq Via(db, plan, k)
  <2>1. Write \/ UNCHANGED <<db, plan>>
    BY DEF sweep, BootEnds, RelayGivesUp, RivalTakes, IndexConsumption, vars
  <2> QED
    BY <2>1, WriteAdvances
<1>3. \A k \in Jobs : todo'[k].place # "boot" => todo[k].place # "boot"
  <2>1. CASE sweep
    BY <2>1 DEF sweep, Waiting
  <2>2. CASE ~sweep
    BY <2>2 DEF Write, BootEnds, RelayGivesUp, RivalTakes, IndexConsumption, vars, memory
  <2> QED
    BY <2>1, <2>2
<1> QED
  BY <1>1, <1>2, <1>3, StockSame

\* No step drops the claim of a job that is not over.
LEMMA StockSteps == ASSUME IInv, StockInv, [Next]_vars PROVE StockInv'
<1>0. IInv'
  BY StepsKeep
<1>1. CASE Next
  <2>1. CASE Write \/ Crash
    BY <2>1, OthersStock, CrashStock
  <2>2. CASE Sweeping
    BY <1>0, <2>2, OthersStock, RecoveryReturnsStock, SweepSkipsStock, SweepRetriesStock, SweepReconcilesStock DEF Sweeping
  <2>3. CASE Booting
    BY <1>0, <2>3, OthersStock, BootCompletesStock, BootKeepsStock, BootReconcilesStock, BootRevertsStock DEF Booting
  <2>4. ASSUME NEW j \in Jobs, OnSwap(j) \/ Building(j) \/ Timeout(j) PROVE StockInv'
    BY <1>0, <2>4, OnSwapStock, BuildingStock
  <2>5. ASSUME NEW j \in Jobs, Reconciling(j) PROVE StockInv'
    BY <1>0, <2>5, EvidenceDoneStock, EvidenceFailStock, RevertReturnsStock DEF Reconciling
  <2>6. ASSUME NEW j \in Jobs, onTxSubmitted(j) \/ onSubmitFailed(j) \/ RelayGivesUp(j) \/ RelaySubmits(j) PROVE StockInv'
    BY <1>0, <2>6, FramesStock, OthersStock, RelaySubmitsStock
  <2>7. ASSUME NEW o \in Offers, RivalTakes(o) \/ IndexConsumption(o) PROVE StockInv'
    BY <2>7, OthersStock
  <2> QED
    BY <1>1, <2>1, <2>2, <2>3, <2>4, <2>5, <2>6, <2>7 DEF Next
<1>2. CASE UNCHANGED vars
  BY <1>2, OthersStock
<1> QED
  BY <1>1, <1>2

\* What the wallet has given to a job that did not land stays claimed: until the wallet has
\* it back no other job is served from its offers, whatever failed, timed out or was cut by
\* a restart, once the start-up has come to it.
THEOREM ClaimsAreHeld == Spec => []NothingLeaks
<1>1. IInv /\ WalletInv /\ StockInv => NothingLeaks
  <2> SUFFICES ASSUME IInv, WalletInv, StockInv, NEW j \in Jobs, wallet[j] # {}, phase # "boot"
               PROVE  Route[j] \in stock
    BY DEF NothingLeaks
  <2> DEFINE d == Ahead(db, plan, j)
             ws == WritesOf(plan, j)
  <2>1. /\ ws \in Seq(Writes) /\ wallet[j] \in SUBSET Contributions /\ JobOK(j) /\ StockOK(j)
        /\ \A e \in Via(db, plan, j) : Backed(e, wallet[j])
    BY WritesTyped DEF IInv, Typed, PlanTyped, WalletInv, WalletOK, Due, StockInv
  <2>2. d \in Via(db, plan, j)
    <3>1. At(db[j], ws, Len(ws)) = After(db[j], ws) /\ Len(ws) \in 0..Len(ws)
      BY <2>1, AtNext
    <3> QED
      BY <3>1 DEF Ahead, Via, Passed
  <2>3. \E op \in WalletOps : Live(d, op)
    BY <2>1, <2>2, NothingOwed
  <2>4. Live(d, "settlement")
    BY <2>1, <2>2, <2>3, OpsAre DEF JobOK, TruthOK, Truth, Live, None
  <2>5. todo[j].place # "boot"
    BY <2>1 DEF JobOK, LocalOK
  <2> QED
    BY <2>1, <2>4, <2>5 DEF StockOK
<1>2. Init => StockInv
  BY StockBegins
<1>3. IInv /\ StockInv /\ [Next]_vars => StockInv'
  BY StepsKeep, StockSteps
<1> QED
  BY <1>1, <1>2, <1>3, WalletIsAccounted, PTL DEF Spec

-----------------------------------------------------------------------------
(* The revert calls made.                                                  *)

\* What the journal keeps of a revert call once it was made: the artifact's own row, or that
\* of a recovery which covers it, has left the states in which such a call is begun.
Beyond(e, a) ==
    \/ e.row[a] \notin {None, "PREPARED", "APPLIED"}
    \/ \E k \in Recoveries : a \in recoveryRevertKey[k] /\ e.row[k] \notin {None, "PREPARED"}
TriedOK(j) ==
    /\ \A a \in Artifacts : tries[j][a] # 0 => Beyond(db[j], a)
    /\ \A a \in WalletOps : tries[j][a] # 2
    /\ tries[j]["revert"] = 2 => db[j].receipt = "error"
\* A call under way is the first for its artifacts; one of revertWallet may be the second,
\* of a job that the relay has refused.
FlightOK(j) ==
    LET d == Ahead(db, plan, j)
        a == First(build[j].own)
    IN  /\ build[j].call => tries[j][a] = 0 /\ Beyond(d, a)
        /\ Retrying(j) => /\ recoveryRevertKey[target] \in Targets(d)
                          /\ \A t \in Remaining(d) : \A c \in t : tries[j][c] = 0
        /\ chain[j].at = "revert" => tries[j]["revert"] = 0 \/ db[j].receipt = "error"
Counts == tries \in [Jobs -> [Artifacts -> 0..2]]
TriesInv == Counts /\ \A j \in Jobs : TriedOK(j) /\ FlightOK(j)

\* A row that has left those states does not come back to them.
LEMMA RowOnward ==
    ASSUME NEW d \in Rows, NEW w \in Writes, Accepted(d, w), NEW op \in Ops
    PROVE  /\ d.row[op] \notin {None, "PREPARED"} => Put(d, w).row[op] \notin {None, "PREPARED"}
           /\ d.row[op] \notin {None, "PREPARED", "APPLIED"} => Put(d, w).row[op] \notin {None, "PREPARED", "APPLIED"}
<1> DEFINE y == Put(d, w).row[op]
           x == d.row[op]
<1>1. CASE y = x
  BY <1>1
<1>2. CASE y # x
  <2>1. w.op = op /\ y = w.to
    BY <1>2, OneRow
  <2>2. x # None => y \in Journal!allowedTransitions[x]
    BY <1>2, <2>1 DEF Accepted
  <2>3. x \in States \cup {None}
    BY DEF Rows
  <2> HIDE DEF x, y
  <2>4. ASSUME x # None PROVE y \notin {None, "PREPARED"} /\ (x # "PREPARED" => y # "APPLIED")
    BY <2>2, <2>3, <2>4, StatesAre DEF Journal!allowedTransitions, Journal!States, None
  <2> QED
    BY <2>4 DEF x, y
<1> QED
  BY <1>1, <1>2

LEMMA BeyondOnward ==
    ASSUME NEW d \in Rows, NEW w \in Writes, Accepted(d, w), NEW a \in Artifacts, Beyond(d, a)
    PROVE  Beyond(Put(d, w), a)
<1>1. a \in Ops /\ Recoveries \subseteq Ops
  BY OpsAre DEF Artifacts
<1> QED
  BY <1>1, RowOnward DEF Beyond

\* Nor do the rows that the pending writes lead to.
LEMMA BeyondAhead ==
    ASSUME NEW d \in Rows, NEW ws \in Seq(Writes), AllAccepted(d, ws), NEW a \in Artifacts, Beyond(d, a)
    PROVE  Beyond(After(d, ws), a)
<1> DEFINE S == {n \in Nat : n <= Len(ws) => At(d, ws, n) \in Rows /\ Beyond(At(d, ws, n), a)}
<1>0. Len(ws) \in Nat
  OBVIOUS
<1>1. /\ At(d, ws, 0) = d /\ At(d, ws, Len(ws)) = After(d, ws)
      /\ \A n \in 1..Len(ws) : At(d, ws, n) = Put(At(d, ws, n - 1), ws[n])
  BY AtNext
<1>2. 0 \in S
  BY <1>1
<1>3. ASSUME NEW n \in Nat, n \in S PROVE n + 1 \in S
  <2> SUFFICES ASSUME n + 1 <= Len(ws) PROVE At(d, ws, n + 1) \in Rows /\ Beyond(At(d, ws, n + 1), a)
    OBVIOUS
  <2> DEFINE x == At(d, ws, n)
             w == ws[n + 1]
             y == At(d, ws, n + 1)
  <2>1. x \in Rows /\ Beyond(x, a)
    BY <1>0, <1>3
  <2>2. n + 1 \in 1..Len(ws) /\ n + 1 - 1 = n
    BY <1>0
  <2>3. y = Put(x, w) /\ w \in Writes /\ Accepted(x, w)
    BY <1>1, <2>2 DEF AllAccepted
  <2> HIDE DEF x, w, y
  <2> QED
    BY <2>1, <2>3, PutTyped, BeyondOnward DEF y
<1> HIDE DEF S
<1>4. \A n \in Nat : n \in S
  BY <1>2, <1>3, NatSetInduction
<1> QED
  BY <1>0, <1>1, <1>4 DEF S

\* A handler that calls for no revert which was not called for already.
LEMMA FlightSame ==
    ASSUME IInv, IInv', TriesInv, Quiet, db' = db, NEW j \in Jobs, tries'[j] = tries[j],
           build'[j].call => build[j].call /\ build'[j].own = build[j].own,
           chain'[j].at = "revert" => chain[j].at = "revert" \/ tries[j]["revert"] = 0 \/ db[j].receipt = "error",
           Retrying(j)' => Retrying(j) /\ target' = target /\ Ahead(db, plan, j)' = Ahead(db, plan, j)
    PROVE  FlightOK(j)'
<1> DEFINE a == First(build[j].own)
           ws == WritesOf(plan', j)
<1>1. /\ db[j] \in Rows /\ Ahead(db, plan, j) = db[j] /\ build[j] \in Build
      /\ build[j].call => build[j].own # {}
  BY AtRest DEF JobOK, BuildOK
<1>2. build[j].call => a \in Artifacts
  <2>1. build[j].own \in SUBSET WalletOps
    BY <1>1 DEF Build
  <2> QED
    BY <1>1, <2>1, FirstIn DEF Artifacts
<1>3. FlightOK(j)
  BY DEF TriesInv
<1>4. ws \in Seq(Writes) /\ AllAccepted(db[j], ws) /\ Ahead(db, plan, j)' = After(db[j], ws)
  BY WritesTyped DEF IInv, Typed, PlanTyped, Accepting, Ahead
<1>5. build'[j].call => tries'[j][First(build'[j].own)] = 0 /\ Beyond(Ahead(db, plan, j)', First(build'[j].own))
  <2> SUFFICES ASSUME build'[j].call PROVE tries[j][a] = 0 /\ Beyond(After(db[j], ws), a)
    BY <1>4
  <2>1. tries[j][a] = 0 /\ Beyond(db[j], a)
    BY <1>1, <1>3 DEF FlightOK
  <2> HIDE DEF a, ws
  <2> QED
    BY <1>1, <1>2, <1>4, <2>1, BeyondAhead
<1>6. chain'[j].at = "revert" => tries'[j]["revert"] = 0 \/ db'[j].receipt = "error"
  BY <1>3 DEF FlightOK
<1>7. Retrying(j)' => /\ recoveryRevertKey[target'] \in Targets(Ahead(db, plan, j)')
                      /\ \A t \in Remaining(Ahead(db, plan, j)') : \A c \in t : tries'[j][c] = 0
  BY <1>3 DEF FlightOK
<1> QED
  BY <1>5, <1>6, <1>7 DEF FlightOK

\* A handler of one job leaves the others what they had.
LEMMA TriesFrame ==
    ASSUME IInv, IInv', TriesInv, Quiet, db' = db, NEW j \in Jobs, \E ws : Plan(j, ws), Counts',
           \A k \in Jobs \ {j} : /\ tries'[k] = tries[k] /\ build'[k] = build[k] /\ chain'[k] = chain[k]
                                 /\ busy' = k => busy = k /\ target' = target,
           TriedOK(j)', FlightOK(j)'
    PROVE  TriesInv'
<1> SUFFICES ASSUME NEW k \in Jobs \ {j} PROVE TriedOK(k)' /\ FlightOK(k)'
  BY DEF TriesInv
<1>1. WritesOf(plan', k) = <<>> /\ Ahead(db, plan, k) = db[k]
  BY OthersWrite, AtRest
<1>2. Ahead(db, plan, k)' = Ahead(db, plan, k)
  BY <1>1, AfterNone DEF Ahead
<1>3. FlightOK(k)'
  BY <1>2, FlightSame DEF Retrying
<1>4. TriedOK(k)'
  BY DEF TriesInv, TriedOK
<1> QED
  BY <1>3, <1>4

\* A step that writes nothing and calls for nothing.
LEMMA TriesStill ==
    ASSUME TriesInv, UNCHANGED <<db, plan, tries, target>>,
           \A k \in Jobs : /\ build'[k].call => build'[k] = build[k]
                           /\ chain'[k].at = "revert" => chain[k].at = "revert"
                           /\ busy' = k /\ target # None => busy = k
    PROVE  TriesInv'
<1> SUFFICES ASSUME NEW k \in Jobs PROVE TriedOK(k)' /\ FlightOK(k)'
  BY DEF TriesInv, Counts
<1>1. TriedOK(k) /\ FlightOK(k)
  BY DEF TriesInv
<1>2. TriedOK(k)'
  BY <1>1 DEF TriedOK
<1>3. FlightOK(k)'
  BY <1>1 DEF FlightOK, Retrying
<1> QED
  BY <1>2, <1>3

\* A handler that makes no call that was not made already.
LEMMA TriesHandler ==
    ASSUME IInv, IInv', TriesInv, Quiet, db' = db, tries' = tries, NEW j \in Jobs, \E ws : Plan(j, ws),
           \A k \in Jobs \ {j} : /\ build'[k] = build[k] /\ chain'[k] = chain[k]
                                 /\ busy' = k => busy = k /\ target' = target,
           build'[j].call => build[j].call /\ build'[j].own = build[j].own,
           chain'[j].at = "revert" => chain[j].at = "revert" \/ tries[j]["revert"] = 0 \/ db[j].receipt = "error",
           ~Retrying(j)'
    PROVE  TriesInv'
<1>1. FlightOK(j)'
  BY FlightSame
<1>2. TriedOK(j)' /\ Counts'
  BY DEF TriesInv, TriedOK, Counts
<1> QED
  BY <1>1, <1>2, TriesFrame

-----------------------------------------------------------------------------
(* The steps that call for no revert.                                      *)

\* A receipt is never taken back by the write of another column.
LEMMA ReceiptStays == ASSUME NEW d \in Rows, NEW w \in Writes PROVE Put(d, w).receipt \in {d.receipt, "done", "error"}
<1>1. CASE w \in [op : Ops, to : States, why : Whys]
  <2> DEFINE o == w.op
             v == w.to
             y == w.why
  <2>1. o \in Ops /\ v \in States /\ y \in Whys /\ w = Because(o, v, y)
    BY <1>1 DEF Because
  <2> HIDE DEF o, v, y
  <2> DEFINE x == Put(d, Because(o, v, y))
  <2>2. /\ Because(o, v, y) \in Writes /\ x \in Rows /\ x.row = [d.row EXCEPT ![o] = v]
        /\ x.receipt = d.receipt /\ x.fee = d.fee /\ d.art \subseteq x.art
    BY <2>1, PutRow
  <2> QED
    BY <2>1, <2>2
<1>2. CASE w \in [op : {"receipt"}, to : {"done", "error"}, why : {None}]
  <2>1. w = Receipt(w.to) /\ w.to \in {"done", "error"}
    BY <1>2 DEF Receipt, Set
  <2>2. Put(d, w) = [d EXCEPT !.receipt = w.to]
    BY <2>1, PutReceipt
  <2> QED
    BY <2>1, <2>2 DEF Rows
<1>3. CASE w \in [op : {"fee"}, to : Fees, why : {None}]
  <2>1. w.op = "fee"
    BY <1>3
  <2>2. Put(d, w).receipt = d.receipt
    BY <2>1 DEF Put, Rows
  <2> QED
    BY <2>2
<1> QED
  BY <1>1, <1>2, <1>3 DEF Writes

\* The rows of a job are the first that its pending writes pass through.
LEMMA HereIsVia == ASSUME NEW x, NEW p \in Seq([job : Jobs, w : Writes]), NEW k PROVE x[k] \in Via(x, p, k)
<1> DEFINE ws == WritesOf(p, k)
<1>1. ws \in Seq(Writes)
  BY WritesTyped
<1> HIDE DEF ws
<1>2. At(x[k], ws, 0) = x[k] /\ 0 \in 0..Len(ws)
  BY <1>1, AtNext
<1> QED
  BY <1>2 DEF Via, Passed, ws

\* A write of the journal.
LEMMA WriteTries == ASSUME IInv, TriesInv, Write PROVE TriesInv'
<1>1. IInv' /\ UNCHANGED <<build, chain, busy, target, tries, relay>>
  BY WriteKeeps DEF Write, memory, world
<1>2. PICK m \in Jobs, w \in Writes : db' = [db EXCEPT ![m] = Put(@, w)] /\ Accepted(db[m], w)
  BY WritesFirst
<1>3. SUFFICES ASSUME NEW k \in Jobs PROVE TriedOK(k)' /\ FlightOK(k)'
  BY <1>1 DEF TriesInv, Counts
<1>4. TriedOK(k) /\ FlightOK(k) /\ Ahead(db, plan, k)' = Ahead(db, plan, k) /\ db[k] \in Rows /\ db \in [Jobs -> Rows]
  BY WriteAdvances DEF TriesInv, IInv, Typed
<1>5. ASSUME NEW a \in Artifacts, Beyond(db[k], a) PROVE Beyond(db'[k], a)
  <2>1. db'[k] = db[k] \/ (k = m /\ db'[k] = Put(db[k], w))
    BY <1>2, <1>4
  <2> QED
    BY <1>2, <1>4, <1>5, <2>1, BeyondOnward
<1>6. db[k].receipt = "error" => db'[k].receipt = "error"
  <2> SUFFICES ASSUME db[k].receipt = "error", db'[k].receipt # "error" PROVE FALSE
    OBVIOUS
  <2>1. Truth(db[k], relay[k]) /\ Truth(db'[k], relay[k])
    <3>1. Truth(db[k], relay[k])
      BY NowTrue
    <3>2. Truth(db[k], relay[k])'
      <4>1. db'[k] \in Via(db', plan', k)
        BY <1>1, HereIsVia DEF IInv, Typed, PlanTyped
      <4> QED
        BY <1>1, <4>1 DEF IInv, JobOK, TruthOK
    <3> QED
      BY <1>1, <3>1, <3>2
  <2>2. Dead(relay[k])
    BY <2>1 DEF Truth
  <2>3. db'[k].receipt # "done"
    BY <2>1, <2>2 DEF Truth, Unsent, Dead
  <2>4. k = m /\ db'[k] = Put(db[k], w)
    BY <1>2, <1>4
  <2>5. db'[k].receipt \in {db[k].receipt, "done", "error"}
    BY <1>2, <1>4, <2>4, ReceiptStays
  <2> QED
    BY <2>3, <2>5
<1>7. TriedOK(k)'
  BY <1>1, <1>4, <1>5, <1>6 DEF TriedOK
<1>8. FlightOK(k)'
  BY <1>1, <1>4, <1>6 DEF FlightOK, Retrying
<1> QED
  BY <1>7, <1>8

\* The loops, the relay and the ledger make no call.
LEMMA OthersTry ==
    ASSUME IInv, TriesInv,
           \/ sweep \/ BootEnds \/ UNCHANGED vars
           \/ \E j \in Jobs : SweepSkips(j) \/ BootReverts(j) \/ RelayGivesUp(j) \/ RelaySubmits(j)
           \/ \E o \in Offers : RivalTakes(o) \/ IndexConsumption(o)
    PROVE  TriesInv'
<1>1. UNCHANGED <<db, plan, tries, target, build, chain, busy>>
  BY DEF sweep, BootEnds, SweepSkips, Take, BootReverts, Boot, RelayGivesUp, RelaySubmits, RivalTakes, IndexConsumption,
         vars, memory, world
<1> QED
  BY <1>1, TriesStill

\* Nor does a job that is accepted or refused.
LEMMA OnSwapTries == ASSUME IInv, IInv', TriesInv, NEW j \in Jobs, OnSwap(j) PROVE TriesInv'
<1>1. Quiet /\ UNCHANGED <<db, tries, chain, busy, target>> /\ relay[j] = "none" /\ build \in [Jobs -> Build]
  BY DEF OnSwap, sweeper, IInv, Typed
<1>2. build[j] = NoBuild /\ busy # j
  BY <1>1, AtRest DEF JobOK, FreshOK, TruthOK, Truth
<1>3. build'[j].call = FALSE /\ \A k \in Jobs \ {j} : build'[k] = build[k]
  BY <1>1, <1>2 DEF OnSwap, NoBuild, Build
<1>4. \E ws : Plan(j, ws)
  BY <1>1, PlansSome DEF OnSwap
<1> QED
  BY <1>1, <1>2, <1>3, <1>4, TriesHandler DEF Retrying

\* A build calls for no revert but in its cleanup; a half that is late is the first of its job.
LEMMA BuildingTries ==
    ASSUME IInv, IInv', TriesInv, NEW j \in Jobs,
           \/ ReadFiles(j) \/ GetAddress(j) \/ WalletReturns(j) \/ WalletThrows(j)
           \/ CleanupDone(j) \/ Answer(j) \/ Timeout(j)
    PROVE  TriesInv'
<1>1. Quiet /\ UNCHANGED <<db, tries, busy, target>> /\ build \in [Jobs -> Build] /\ chain \in [Jobs -> Chain]
  BY DEF ReadFiles, GetAddress, WalletReturns, WalletThrows, CleanupDone, Answer, Timeout, sweeper, IInv, Typed
<1>2. JobOK(j) /\ Ahead(db, plan, j) = db[j]
  BY <1>1, AtRest
<1>3. build[j].call => build[j].pc = "cleanup" /\ build[j].own # {}
  BY <1>2 DEF JobOK, BuildOK
<1>4. \A k \in Jobs \ {j} : build'[k] = build[k] /\ chain'[k] = chain[k]
  BY <1>1 DEF ReadFiles, GetAddress, WalletReturns, WalletThrows, CleanupDone, Answer, Timeout, FailBuild, Complete, ToCleanup
<1>5. build'[j].call => build[j].call /\ build'[j].own = build[j].own
  <2>1. CASE ReadFiles(j) \/ GetAddress(j)
    BY <1>1, <1>3, <2>1 DEF ReadFiles, GetAddress, FailBuild, NoBuild, Build
  <2>2. CASE WalletReturns(j)
    BY <1>1, <1>3, <2>2, OpsAre DEF WalletReturns, Complete, ToCleanup, NoBuild, Build
  <2>3. CASE WalletThrows(j)
    BY <1>1, <1>3, <2>3, OpsAre DEF WalletThrows, ToCleanup, Build
  <2>4. CASE CleanupDone(j) \/ Answer(j) \/ Timeout(j)
    BY <1>1, <2>4 DEF CleanupDone, Answer, Timeout, NoBuild
  <2> QED
    BY <2>1, <2>2, <2>3, <2>4
<1>6. CASE Answer(j)
  <2>1. plan' = plan /\ chain' = chain
    BY <1>6 DEF Answer
  <2>2. build'[j].call = FALSE
    BY <1>1, <1>6 DEF Answer, NoBuild
  <2> QED
    BY <1>1, <1>4, <2>1, <2>2, TriesStill
<1>7. CASE ~Answer(j)
  <2>1. Making(j)
    BY <1>7, OpsAre DEF ReadFiles, GetAddress, WalletReturns, WalletThrows, CleanupDone, Timeout, Making
  <2>2. chain[j].at = "idle" /\ busy # j /\ MadeRows(db[j], mem[j].timedOut, build[j])
    BY <1>1, <2>1, WhileMaking DEF Idle
  <2>3. tries[j]["revert"] = 0
    <3>1. \A op \in Reverts : db[j].row[op] = None
      BY <2>2 DEF MadeRows
    <3>2. ~Beyond(db[j], "revert")
      BY <3>1, OpsAre DEF Beyond
    <3>3. "revert" \in Artifacts
      BY DEF Artifacts
    <3> QED
      BY <3>2, <3>3 DEF TriesInv, TriedOK
  <2>4. \E ws : Plan(j, ws)
    <3>1. CASE ReadFiles(j) \/ GetAddress(j)
      BY <1>1, <3>1, PlansSome DEF ReadFiles, GetAddress, FailBuild
    <3>2. CASE WalletReturns(j) \/ WalletThrows(j)
      BY <1>1, <3>2, PlansSome DEF WalletReturns, WalletThrows, Complete
    <3>3. CASE CleanupDone(j) \/ Timeout(j)
      BY <1>1, <3>3 DEF CleanupDone, Timeout
    <3> QED
      BY <1>7, <3>1, <3>2, <3>3
  <2> QED
    BY <1>1, <1>4, <1>5, <2>2, <2>3, <2>4, TriesHandler DEF Retrying
<1> QED
  BY <1>6, <1>7

\* An operation of terminalChains reverts only what the relay has refused.
LEMMA ReconcilingTries ==
    ASSUME IInv, IInv', TriesInv, NEW j \in Jobs, EvidenceDone(j) \/ EvidenceFail(j) \/ onTxSubmitted(j) \/ onSubmitFailed(j)
    PROVE  TriesInv'
<1>1. /\ Quiet /\ UNCHANGED <<db, tries, build, target>> /\ chain \in [Jobs -> Chain] /\ busy' \in {busy, Nobody}
      /\ mem \in [Jobs -> Record]
  BY DEF EvidenceDone, EvidenceFail, onTxSubmitted, onSubmitFailed, Answerable, Finish, sweeper, world, IInv, Typed
<1>2. JobOK(j) /\ Ahead(db, plan, j) = db[j]
  BY <1>1, AtRest
<1>3. \A k \in Jobs \ {j} : chain'[k] = chain[k]
  BY <1>1 DEF EvidenceDone, EvidenceFail, onTxSubmitted, onSubmitFailed, finishSettled, quarantineEvidence, RevertOrKeep,
              reconcileRelayDone, reconcileRelayFailure, EndChain, RunChain
<1>4. ~Retrying(j)
  <2>1. chain[j].at # "idle" \/ ~mem[j].local
    BY DEF EvidenceDone, EvidenceFail, onTxSubmitted, onSubmitFailed, Answerable
  <2> QED
    BY <1>2, <2>1 DEF JobOK, RetryOK
<1>5. ~Retrying(j)'
  BY <1>1, <1>4, NameAssumption DEF Retrying
<1>6. chain'[j].at = "revert" => db[j].receipt = "error"
  <2>1. CASE EvidenceFail(j)
    BY <1>2, <2>1 DEF EvidenceFail, JobOK, ChainOK
  <2>2. CASE EvidenceDone(j) \/ onTxSubmitted(j) \/ onSubmitFailed(j)
    BY <1>1, <2>2 DEF EvidenceDone, onTxSubmitted, onSubmitFailed, finishSettled, quarantineEvidence,
              reconcileRelayDone, reconcileRelayFailure, EndChain, RunChain, Idle
  <2> QED
    BY <2>1, <2>2
<1>7. \E ws : Plan(j, ws)
  BY <1>1, PlansSome DEF EvidenceDone, EvidenceFail, onTxSubmitted, onSubmitFailed, finishSettled, quarantineEvidence, RevertOrKeep,
              reconcileRelayDone, reconcileRelayFailure
<1> QED
  BY <1>1, <1>3, <1>5, <1>6, <1>7, NameAssumption, TriesHandler

\* A reconciliation that the sweep or the start-up begins, and a job that the start-up completes or keeps.
LEMMA LoopTries ==
    ASSUME IInv, IInv', TriesInv, NEW j \in Jobs,
           SweepReconciles(j) \/ BootReconciles(j) \/ BootCompletes(j) \/ BootKeeps(j)
    PROVE  TriesInv'
<1>1. /\ Quiet /\ busy = Nobody /\ target = None /\ chain \in [Jobs -> Chain] /\ UNCHANGED <<db, tries, build, target>>
      /\ busy' \in {j, Nobody} /\ chain[j].at = "idle"
  <2>1. CASE SweepReconciles(j)
    BY <2>1, Taking DEF SweepReconciles, IInv, Typed
  <2>2. CASE BootReconciles(j)
    BY <2>2, Starting DEF BootReconciles, Boot, IInv, Typed
  <2>3. CASE BootCompletes(j) \/ BootKeeps(j)
    BY <2>3, Starting DEF BootCompletes, BootKeeps, Boot, BootNext, IInv, Typed
  <2> QED
    BY <2>1, <2>2, <2>3
<1>2. (\A k \in Jobs \ {j} : chain'[k] = chain[k]) /\ chain'[j].at # "revert" /\ \E ws : Plan(j, ws)
  <2>1. CASE SweepReconciles(j) \/ BootReconciles(j)
    <3>1. PICK r, pre : \/ reconcileRelayDone(j, r, pre) \/ reconcileRelayFailure(j, r, pre)
                        \/ quarantineEvidence(j, r, pre)
      BY <2>1 DEF SweepReconciles, BootReconciles, reconcileDurableEvidence, reconcileFromHttp
    <3> QED
      BY <1>1, <3>1 DEF reconcileRelayDone, reconcileRelayFailure, quarantineEvidence, RunChain, EndChain, Idle
  <2>2. CASE BootCompletes(j) \/ BootKeeps(j)
    BY <1>1, <2>2 DEF BootCompletes, BootKeeps
  <2> QED
    BY <2>1, <2>2
<1>3. ~Retrying(j)'
  BY <1>1 DEF Retrying
<1>4. \A k \in Jobs \ {j} : busy' # k
  BY <1>1, NameAssumption
<1> QED
  BY <1>1, <1>2, <1>3, <1>4, TriesHandler

-----------------------------------------------------------------------------
(* The calls of a cleanup and of revertWallet.                             *)

\* A cleanup reverts a row that is APPLIED, of a job without a revert: the first call of its artifact.
LEMMA CleanupCallTries == ASSUME IInv, IInv', TriesInv, NEW j \in Jobs, CleanupCall(j) PROVE TriesInv'
<1> DEFINE op == First(build[j].own)
           d == db[j]
<1>1. /\ Quiet /\ build[j].pc = "cleanup" /\ build[j].own # {} /\ ~build[j].call
      /\ UNCHANGED <<db, chain, busy, target, tries>> /\ build \in [Jobs -> Build]
  BY DEF CleanupCall, sweeper, world, IInv, Typed
<1>2. Making(j) /\ d \in Rows /\ build[j] \in Build
  BY <1>1, AtRest, OpsAre DEF Making
<1>3. MadeRows(d, mem[j].timedOut, build[j]) /\ busy # j /\ chain[j].at = "idle"
  BY <1>1, <1>2, WhileMaking DEF Idle
<1>4. op \in build[j].own /\ op \in WalletOps
  <2>1. build[j].own \in SUBSET WalletOps
    BY <1>2 DEF Build
  <2> QED
    BY <1>1, <2>1, FirstIn
<1>5. \A k \in Jobs \ {j} : build'[k] = build[k]
  BY <1>1 DEF CleanupCall, CleanupFails
<1>6. ~Retrying(j)' /\ chain'[j].at # "revert"
  BY <1>1, <1>3 DEF Retrying
<1>7. \E ws : Plan(j, ws)
  BY <1>1, PlansSome DEF CleanupCall
<1> HIDE DEF op
<1>8. CASE d.row[op] # "APPLIED"
  <2>1. CleanupFails(j, op)
    BY <1>8 DEF CleanupCall, op
  <2>2. build'[j].call = FALSE
    BY <1>1, <1>2, <2>1 DEF CleanupFails, Build
  <2> QED
    BY <1>1, <1>5, <1>6, <1>7, <2>2, TriesHandler
<1>9. CASE d.row[op] = "APPLIED"
  <2> DEFINE ws == <<Set(op, "REVERTING")>>
             e == Put(d, Set(op, "REVERTING"))
  <2>1. build' = [build EXCEPT ![j].call = TRUE] /\ Plan(j, ws)
    BY <1>9 DEF CleanupCall, op
  <2>2. build'[j].own = build[j].own
    BY <1>1, <2>1 DEF Build
  <2>3. "REVERTING" \in States /\ Moves(d.row[op], "REVERTING") /\ op \in Ops \ {"settlement"}
    BY <1>4, <1>9, StatesAre, OpsAre DEF Moves, Journal!allowedTransitions, Journal!States, None
  <2> HIDE DEF e
  <2>4. Takes(d, <<Set(op, "REVERTING")>>, {d, e}, e) /\ Near(d, op, None, e) /\ e \in Rows /\ e.row[op] = "REVERTING"
    <3>1. d \in Rows /\ op \in Ops \ {"settlement"} /\ "REVERTING" \in States /\ Moves(d.row[op], "REVERTING")
      BY <1>2, <2>3
    <3> HIDE DEF d
    <3> QED
      BY <3>1, RowSet DEF e
  <2>5. Ahead(db, plan', j) = e
    BY <2>1, <2>4, Planned
  <2>6. Beyond(e, op)
    BY <2>4 DEF Beyond, None
  <2>7. tries[j][op] = 0
    <3>1. \A k \in Recoveries : d.row[k] = None
      BY <1>3, OpsAre DEF MadeRows
    <3>2. ~Beyond(d, op)
      BY <1>9, <3>1 DEF Beyond
    <3>3. op \in Artifacts
      BY <1>4 DEF Artifacts
    <3> QED
      BY <3>2, <3>3 DEF TriesInv, TriedOK
  <2>8. First(build'[j].own) = op
    BY <2>2 DEF op
  <2>9. FlightOK(j)'
    BY <1>1, <1>6, <2>5, <2>6, <2>7, <2>8 DEF FlightOK
  <2>10. TriedOK(j)' /\ Counts'
    BY <1>1 DEF TriesInv, TriedOK, Counts
  <2> QED
    BY <1>1, <1>5, <1>7, <2>9, <2>10, TriesFrame
<1> QED
  BY <1>8, <1>9

\* A call that is counted: the first for its artifacts, or of a job that the relay has refused.
LEMMA TriedOnce ==
    ASSUME TriesInv, NEW j \in Jobs, db' = db, NEW op, tries'[j] = Tried(j, op),
           \A a \in Reverted(op) : /\ a \in Artifacts /\ Beyond(db[j], a)
                                   /\ tries[j][a] = 0 \/ (a = "revert" /\ db[j].receipt = "error")
    PROVE  TriedOK(j)'
<1>1. TriedOK(j) /\ tries[j] \in [Artifacts -> 0..2]
  BY DEF TriesInv, Counts
<1>2. ASSUME NEW a \in Artifacts
      PROVE  /\ tries'[j][a] # 0 => Beyond(db[j], a)
             /\ tries'[j][a] = 2 => tries[j][a] = 2 \/ (a = "revert" /\ db[j].receipt = "error")
  <2>1. CASE a \notin Reverted(op)
    <3>1. tries'[j][a] = tries[j][a]
      BY <1>1, <2>1 DEF Tried
    <3> QED
      BY <1>1, <3>1 DEF TriedOK
  <2>2. CASE a \in Reverted(op)
    <3>1. tries[j][a] = 0 => tries'[j][a] = 1
      BY <1>1, <2>2 DEF Tried
    <3> QED
      BY <2>2, <3>1
  <2> QED
    BY <2>1, <2>2
<1>3. WalletOps \subseteq Artifacts /\ "revert" \in Artifacts /\ "revert" \notin WalletOps
  BY OpsAre DEF Artifacts
<1> QED
  BY <1>1, <1>2, <1>3 DEF TriedOK

\* A call that returns is counted, and nothing of the job is under way then.
LEMMA CallReturns ==
    ASSUME IInv, IInv', TriesInv, Quiet, db' = db, NEW j \in Jobs, \E ws : Plan(j, ws),
           \A k \in Jobs \ {j} : /\ build'[k] = build[k] /\ chain'[k] = chain[k]
                                 /\ busy' = k => busy = k /\ target' = target,
           NEW op, Try(j, op), FlightOK(j)',
           \A a \in Reverted(op) : /\ a \in Artifacts /\ Beyond(db[j], a)
                                   /\ tries[j][a] = 0 \/ (a = "revert" /\ db[j].receipt = "error")
    PROVE  TriesInv'
<1>1. tries' = [tries EXCEPT ![j] = Tried(j, op)] /\ tries \in [Jobs -> [Artifacts -> 0..2]]
  BY DEF Try, TriesInv, Counts
<1>2. Tried(j, op) \in [Artifacts -> 0..2]
  BY <1>1 DEF Tried
<1>3. Counts' /\ tries'[j] = Tried(j, op) /\ \A k \in Jobs \ {j} : tries'[k] = tries[k]
  BY <1>1, <1>2 DEF Counts
<1>4. TriedOK(j)'
  BY <1>1, <1>3, TriedOnce
<1> QED
  BY <1>3, <1>4, TriesFrame

\* The wallet answers the cleanup.
LEMMA CleanupReturnsTries == ASSUME IInv, IInv', TriesInv, NEW j \in Jobs, CleanupReturns(j) PROVE TriesInv'
<1> DEFINE op == First(build[j].own)
<1>1. /\ Quiet /\ build[j].call /\ UNCHANGED <<db, chain, busy, target>> /\ build \in [Jobs -> Build]
      /\ Try(j, op) /\ build[j] \in Build
  BY AtRest DEF CleanupReturns, sweeper, IInv, Typed
<1>2. JobOK(j) /\ Ahead(db, plan, j) = db[j] /\ FlightOK(j)
  BY <1>1, AtRest DEF TriesInv
<1>3. build[j].pc = "cleanup" /\ build[j].own # {}
  BY <1>1, <1>2 DEF JobOK, BuildOK
<1>4. Making(j) /\ busy # j /\ chain[j].at = "idle"
  BY <1>1, <1>3, WhileMaking DEF Making, Idle
<1>5. op \in WalletOps
  <2>1. build[j].own \in SUBSET WalletOps
    BY <1>1 DEF Build
  <2> QED
    BY <1>3, <2>1, FirstIn
<1>6. \A k \in Jobs \ {j} : build'[k] = build[k]
  BY <1>1 DEF CleanupReturns, CleanupFails
<1>7. build'[j].call = FALSE
  BY <1>1 DEF CleanupReturns, CleanupFails, Build
<1>8. \E ws : Plan(j, ws)
  BY <1>1, PlansSome DEF CleanupReturns
<1>9. FlightOK(j)'
  BY <1>1, <1>4, <1>7 DEF FlightOK, Retrying
<1>10. tries[j][op] = 0 /\ Beyond(db[j], op)
  BY <1>1, <1>2 DEF FlightOK
<1> HIDE DEF op
<1>11. Reverted(op) = {op} /\ op \in Artifacts
  BY <1>5, OpsAre DEF Reverted, Artifacts
<1> QED
  BY <1>1, <1>6, <1>8, <1>9, <1>10, <1>11, CallReturns

\* It answers revertWallet.
LEMMA RevertReturnsTries == ASSUME IInv, IInv', TriesInv, NEW j \in Jobs, RevertReturns(j) PROVE TriesInv'
<1> DEFINE a == "revert"
<1>1. /\ Quiet /\ chain[j].at = "revert" /\ UNCHANGED <<db, build, target>> /\ Try(j, a) /\ busy' \in {busy, Nobody}
      /\ chain' = [chain EXCEPT ![j] = Idle] /\ chain \in [Jobs -> Chain] /\ \E ws : Plan(j, ws)
  BY DEF RevertReturns, Finish, EndChain, IInv, Typed
<1>2. JobOK(j) /\ Ahead(db, plan, j) = db[j] /\ FlightOK(j)
  BY <1>1, AtRest DEF TriesInv
<1>3. ~Making(j) /\ ~build[j].call
  BY <1>1, <1>2, OpsAre DEF JobOK, BuildOK, Making, Idle
<1>4. ~Retrying(j)
  BY <1>1, <1>2 DEF JobOK, RetryOK
<1>5. FlightOK(j)'
  <2>1. ~Retrying(j)'
    BY <1>1, <1>4, NameAssumption DEF Retrying
  <2>2. chain'[j].at = "idle"
    BY <1>1 DEF Idle
  <2> QED
    BY <1>1, <1>3, <2>1, <2>2 DEF FlightOK
<1>6. Beyond(db[j], a) /\ (tries[j][a] = 0 \/ db[j].receipt = "error")
  BY <1>1, <1>2 DEF JobOK, ChainOK, Beyond, FlightOK, None
<1>7. Reverted(a) = {a} /\ a \in Artifacts
  BY OpsAre DEF Reverted, Artifacts
<1>8. \A k \in Jobs \ {j} : chain'[k] = chain[k] /\ (busy' = k => busy = k)
  BY <1>1, NameAssumption
<1>9. \A c \in Reverted(a) : c \in Artifacts /\ Beyond(db[j], c) /\ (tries[j][c] = 0 \/ (c = "revert" /\ db[j].receipt = "error"))
  BY <1>6, <1>7
<1> HIDE DEF a
<1> QED
  BY <1>1, <1>5, <1>8, <1>9, CallReturns

-----------------------------------------------------------------------------
(* The calls of a local recovery.                                          *)

\* The targets depend on the rows of the wallet and on the primary revert.
LEMMA TargetsAlike ==
    ASSUME NEW d, NEW e, \A op \in WalletOps \cup {"revert"} : e.row[op] = d.row[op],
           \A op \in WalletOps : op \in e.art <=> op \in d.art
    PROVE  Targets(e) = Targets(d)
<1>1. primary(e) <=> primary(d)
  BY DEF primary
<1>2. FinalRows(e) = FinalRows(d)
  <2>1. \A op \in Finals : op \in WalletOps
    BY DEF WalletOps
  <2> QED
    BY <1>1, <2>1 DEF FinalRows, Live
<1>3. RawRows(e) = RawRows(d)
  <2>1. \A op \in Contributions : op \in WalletOps
    BY DEF WalletOps
  <2> QED
    BY <1>1, <1>2, <2>1 DEF RawRows, Live
<1> QED
  BY <1>2, <1>3 DEF Targets

\* No artifact is in two of them.
LEMMA TargetsApart ==
    ASSUME NEW d, NEW t \in Targets(d), NEW u \in Targets(d), NEW c \in t, c \in u
    PROVE  t = u /\ c \in Artifacts
<1> DEFINE F == FinalRows(d)
           R == RawRows(d)
<1>1. \A v \in Targets(d) : v = F \/ \E op \in R : v = {op}
  BY DEF Targets
<1>2. ~\E op : op \in F /\ op \in R
  <2>1. CASE primary(d)
    BY <2>1 DEF RawRows
  <2>2. CASE ~primary(d)
    BY <2>2 DEF RawRows, FinalRows, Contributions, Finals
  <2> QED
    BY <2>1, <2>2
<1>3. t = F \/ \E op \in R : t = {op}
  BY <1>1
<1>4. u = F \/ \E op \in R : u = {op}
  BY <1>1
<1>5. F \subseteq Artifacts /\ R \subseteq Artifacts
  BY DEF FinalRows, RawRows, Artifacts, WalletOps
<1> HIDE DEF F, R
<1>6. CASE c \in F
  <2>1. t = F
    BY <1>2, <1>3, <1>6
  <2>2. u = F
    BY <1>2, <1>4, <1>6
  <2> QED
    BY <1>5, <1>6, <2>1, <2>2
<1>7. CASE c \notin F
  <2>1. t = {c} /\ c \in R
    BY <1>3, <1>7
  <2>2. u = {c}
    BY <1>4, <1>7
  <2> QED
    BY <1>5, <2>1, <2>2
<1> QED
  BY <1>6, <1>7

\* A recovery knows its target by its key.
LEMMA KeyTarget ==
    ASSUME NEW k \in Recoveries PROVE RecoveryOf(recoveryRevertKey[k]) = k
<1> DEFINE K == recoveryRevertKey
<1>1. /\ Recoveries = {"recResidual", "recDust", "recResidualFinal", "recDustFinal", "recFinals", "recRevert"}
      /\ K["recResidual"] = {"residual"} /\ K["recDust"] = {"dust"} /\ K["recResidualFinal"] = {"residualFinal"}
      /\ K["recDustFinal"] = {"dustFinal"} /\ K["recFinals"] = {"residualFinal", "dustFinal"} /\ K["recRevert"] = {"revert"}
  BY DEF Recoveries, recoveryRevertKey, Finals
<1> HIDE DEF K
<1>2. \A i, l \in Recoveries : K[i] = K[l] => i = l
  BY <1>1
<1>3. (CHOOSE i \in Recoveries : K[i] = K[k]) = k
  BY <1>2
<1> QED
  BY <1>3 DEF RecoveryOf, KeyOf, K

\* A recovery that begins is the first to revert any of its artifacts.
LEMMA StartsFresh ==
    ASSUME NEW d, ~Ambiguity(d), NEW t \in Remaining(d), NEW c \in t
    PROVE  c \in Artifacts /\ ~Beyond(d, c)
<1>1. t \in Targets(d) /\ d.row[RecoveryOf(t)] # "REVERTED"
  BY DEF Remaining
<1>2. d.row[c] \in {"PREPARED", "APPLIED"}
  BY <1>1 DEF Ambiguity, Expected
<1>3. ASSUME NEW k \in Recoveries, c \in recoveryRevertKey[k], d.row[k] \notin {None, "PREPARED"} PROVE FALSE
  <2>1. k \in TargetKeys(d) /\ d.row[k] = "REVERTED"
    BY <1>3 DEF Ambiguity
  <2>2. PICK u \in Targets(d) : k = RecoveryOf(u)
    BY <2>1 DEF TargetKeys
  <2>3. recoveryRevertKey[k] = u
    BY <2>2, TargetKey
  <2>4. u = t
    BY <1>1, <1>3, <2>2, <2>3, TargetsApart
  <2> QED
    BY <1>1, <2>1, <2>2, <2>4
<1> QED
  BY <1>1, <1>2, <1>3, TargetsApart DEF Beyond

\* The rows of its recoveries are not among those that the targets depend on.
LEMMA RecoveryRow ==
    ASSUME NEW d \in Rows, NEW k \in Recoveries, NEW s \in States, Moves(d.row[k], s), NEW x, x = Put(d, Set(k, s))
    PROVE  /\ Takes(d, <<Set(k, s)>>, {d, x}, x) /\ x \in Rows /\ x.row[k] = s
           /\ (\A o \in Ops : o # k => x.row[o] = d.row[o]) /\ Targets(x) = Targets(d)
<1>1. k \in Ops \ {"settlement"} /\ k \in Ops /\ k \notin WalletOps \cup {"revert"} /\ WalletOps \cup {"revert"} \subseteq Ops
  BY OpsAre DEF Recoveries, recoveryRevertKey
<1>2. Takes(d, <<Set(k, s)>>, {d, x}, x) /\ Near(d, k, None, x) /\ x \in Rows /\ x.row[k] = s
  BY <1>1, RowSet
<1> DEFINE y == None
<1>3. Set(k, s) = Because(k, s, y) /\ y \in Whys
  BY DEF Set, Because, Whys
<1> HIDE DEF y
<1>4. /\ Put(d, Because(k, s, y)).row = [d.row EXCEPT ![k] = s]
      /\ Put(d, Because(k, s, y)).art = d.art \cup (IF s = "APPLIED" \/ k \in Reverts THEN {k} ELSE {})
  BY <1>1, <1>3, PutRow
<1>5. \A o \in Ops : o # k => x.row[o] = d.row[o]
  BY <1>3, <1>4 DEF Rows
<1>6. \A op \in WalletOps : op \in x.art <=> op \in d.art
  BY <1>1, <1>3, <1>4
<1>7. Targets(x) = Targets(d)
  BY <1>1, <1>5, <1>6, TargetsAlike
<1> QED
  BY <1>2, <1>5, <1>7

\* The recovery that goes on is, for each artifact of the targets that remain, the first call.
LEMMA RecoveryFlight ==
    ASSUME IInv, Quiet, NEW j \in Jobs, NEW pre, NEW P, NEW x, Takes(db[j], pre, P, x), x \in Rows,
           db' = db, ~build'[j].call, chain'[j].at # "revert", ContinueRecovery(j, pre),
           \A k \in Recoveries : x.row[k] \in {None, "PREPARED", "REVERTED"},
           \A t \in Remaining(x) : \A c \in t : tries'[j][c] = 0
    PROVE  FlightOK(j)'
<1>1. x = After(db[j], pre)
  BY DEF Takes, Runs
<1>2. CASE target' = None
  BY <1>2 DEF FlightOK, Retrying
<1>3. CASE target' # None
  <2> DEFINE n == NextTarget(x)
             k == RecoveryOf(n)
             first == IF x.row[k] = None THEN <<Set(k, "PREPARED")>> ELSE <<>>
             last == <<Set(k, "REVERTING")>>
  <2>1. Remaining(x) # {} /\ target' = k /\ Plan(j, (pre \o first) \o last)
    BY <1>1, <1>3 DEF ContinueRecovery
  <2>2. n \in Remaining(x) /\ k \in Recoveries /\ x.row[k] # "REVERTED"
    BY <2>1, NextRecovery
  <2>3. n \in Targets(x)
    BY <2>2 DEF Remaining
  <2> HIDE DEF n
  <2>4. recoveryRevertKey[k] = n
    BY <2>3, TargetKey
  <2> HIDE DEF k
  <2>5. x.row[k] \in {None, "PREPARED"}
    BY <2>2
  <2>6. {"PREPARED", "REVERTING"} \subseteq States /\ Moves(None, "PREPARED") /\ Moves("PREPARED", "REVERTING")
    BY StatesAre DEF terminal
  <2>7. \E Q, y : /\ Takes(x, first, Q, y) /\ y \in Rows /\ y.row[k] = "PREPARED" /\ Targets(y) = Targets(x)
                  /\ \A o \in Ops : o # k => y.row[o] = x.row[o]
    <3>1. CASE x.row[k] = None
      <4> DEFINE y == Put(x, Set(k, "PREPARED"))
      <4>1. Moves(x.row[k], "PREPARED") /\ first = <<Set(k, "PREPARED")>>
        BY <2>6, <3>1
      <4> HIDE DEF y, first
      <4>2. /\ Takes(x, <<Set(k, "PREPARED")>>, {x, y}, y) /\ y \in Rows /\ y.row[k] = "PREPARED"
            /\ (\A o \in Ops : o # k => y.row[o] = x.row[o]) /\ Targets(y) = Targets(x)
        BY <2>2, <2>6, <4>1, RecoveryRow DEF y
      <4> QED
        BY <4>1, <4>2
    <3>2. CASE x.row[k] # None
      <4>1. first = <<>> /\ Takes(x, first, {x}, x) /\ x.row[k] = "PREPARED"
        BY <2>5, <3>2, TakesNone
      <4> QED
        BY <4>1
    <3> QED
      BY <3>1, <3>2
  <2> HIDE DEF first
  <2>8. PICK Q, y : /\ Takes(x, first, Q, y) /\ y \in Rows /\ y.row[k] = "PREPARED" /\ Targets(y) = Targets(x)
                    /\ \A o \in Ops : o # k => y.row[o] = x.row[o]
    BY <2>7
  <2> DEFINE e == Put(y, Set(k, "REVERTING"))
  <2>9. Moves(y.row[k], "REVERTING")
    BY <2>6, <2>8
  <2> HIDE DEF e
  <2>10. /\ Takes(y, <<Set(k, "REVERTING")>>, {y, e}, e) /\ e \in Rows /\ e.row[k] = "REVERTING"
         /\ (\A o \in Ops : o # k => e.row[o] = y.row[o]) /\ Targets(e) = Targets(y)
    BY <2>2, <2>6, <2>8, <2>9, RecoveryRow DEF e
  <2>11. Takes(db[j], pre \o first, P \cup Q, y)
    BY <2>8, TakesBoth
  <2>12. Takes(db[j], (pre \o first) \o last, (P \cup Q) \cup {y, e}, e)
    BY <2>10, <2>11, TakesBoth
  <2> DEFINE ws == (pre \o first) \o last
             T == (P \cup Q) \cup {y, e}
  <2>13. Plan(j, ws) /\ Takes(db[j], ws, T, e)
    BY <2>1, <2>12
  <2> HIDE DEF ws, T
  <2>14. Ahead(db, plan, j)' = e
    BY <2>13, Planned
  <2>15. Remaining(e) \subseteq Remaining(x)
    <3> SUFFICES ASSUME NEW t \in Remaining(e) PROVE t \in Remaining(x)
      OBVIOUS
    <3>1. t \in Targets(x) /\ e.row[RecoveryOf(t)] # "REVERTED"
      BY <2>8, <2>10 DEF Remaining
    <3>2. RecoveryOf(t) \in Recoveries /\ recoveryRevertKey[RecoveryOf(t)] = t
      BY <3>1, TargetKey
    <3>3. RecoveryOf(t) \in Ops
      BY <3>2, OpsAre DEF Recoveries, recoveryRevertKey
    <3>4. x.row[RecoveryOf(t)] # "REVERTED"
      BY <2>2, <2>8, <2>10, <3>1, <3>3
    <3> QED
      BY <3>1, <3>4 DEF Remaining
  <2>16. recoveryRevertKey[target'] \in Targets(Ahead(db, plan, j)')
    BY <2>1, <2>3, <2>4, <2>8, <2>10, <2>14
  <2>17. \A t \in Remaining(Ahead(db, plan, j)') : \A c \in t : tries'[j][c] = 0
    BY <2>14, <2>15
  <2> QED
    BY <2>16, <2>17 DEF FlightOK
<1> QED
  BY <1>2, <1>3

\* The sweep, or the start-up, begins to revert a job locally: nothing of it was called for before.
LEMMA SweepRetriesTries == ASSUME IInv, IInv', TriesInv, NEW j \in Jobs, SweepRetries(j) PROVE TriesInv'
<1> DEFINE d == db[j]
<1>1. /\ Take(j) /\ todo[j].local /\ mem[j].local /\ ~mem[j].reverting /\ Live(d, "settlement")
      /\ retryQuarantine(j) /\ UNCHANGED <<chain, tries>>
  BY DEF SweepRetries, Retryable, owns
<1>2. /\ Quiet /\ busy = Nobody /\ target = None /\ ~Making(j) /\ UNCHANGED <<db, build, phase, relay>>
  BY <1>1, Taking
<1>3. JobOK(j) /\ Ahead(db, plan, j) = d /\ d \in Rows /\ chain[j] \in Chain
  BY <1>2, AtRest
<1>4. d.row["revert"] # "REVERTED"
  <2>1. todo[j].place # "boot"
    <3>1. \A k \in Jobs : todo'[k] = todo[k] \/ k = j
      BY <1>1 DEF Take, IInv, Typed
    <3> QED
      BY <1>1, <1>2, <1>3 DEF JobOK, LocalOK, NoRecord
  <2> QED
    BY <1>1, <1>3, <2>1 DEF JobOK, RevertOK
<1>5. chain[j].at # "revert" /\ ~build[j].call
  <2>1. Gone(j) /\ busy # j
    BY <1>1, <1>2, <1>3, NameAssumption DEF JobOK, LocalOK
  <2>2. chain[j].at # "revert"
    BY <1>1, <1>3, <2>1 DEF JobOK, ChainOK
  <2> QED
    BY <1>2, <1>3, <2>2, OpsAre DEF JobOK, BuildOK, Making
<1>6. \A k \in Jobs \ {j} : build'[k] = build[k] /\ chain'[k] = chain[k] /\ busy' # k
  BY <1>1, <1>2, NameAssumption DEF retryQuarantine, retainRecoveryAmbiguity, ContinueRecovery
<1>7. \E ws : Plan(j, ws)
  BY <1>1 DEF retryQuarantine, retainRecoveryAmbiguity, ContinueRecovery
<1>8. TriedOK(j)' /\ Counts'
  BY <1>1, <1>2 DEF TriesInv, TriedOK, Counts
<1>9. FlightOK(j)'
  <2>1. CASE retainRecoveryAmbiguity(j)
    BY <1>1, <1>2, <1>5, <2>1 DEF retainRecoveryAmbiguity, FlightOK, Retrying
  <2>2. CASE ~Ambiguity(d) /\ ContinueRecovery(j, <<>>)
    <3> DEFINE pre == <<>>
               P == {d}
    <3>1. Takes(d, pre, P, d) /\ ContinueRecovery(j, pre)
      BY <2>2, TakesNone
    <3>2. \A k \in Recoveries : d.row[k] \in {None, "PREPARED", "REVERTED"}
      BY <2>2 DEF Ambiguity
    <3>3. ASSUME NEW t \in Remaining(d), NEW c \in t PROVE tries'[j][c] = 0
      <4>1. c \in Artifacts /\ ~Beyond(d, c)
        BY <2>2, <3>3, StartsFresh
      <4>2. tries[j][c] = 0
        BY <4>1 DEF TriesInv, TriedOK
      <4> QED
        BY <1>1, <4>2
    <3> HIDE DEF pre, P
    <3> QED
      BY <1>1, <1>2, <1>3, <1>5, <3>1, <3>2, <3>3, RecoveryFlight DEF d
  <2> QED
    BY <1>1, <1>4, <2>1, <2>2 DEF retryQuarantine
<1> QED
  BY <1>1, <1>2, <1>6, <1>7, <1>8, <1>9, TriesFrame

\* The wallet answers a recovery: it was the first call, and it leaves the other targets untried.
LEMMA RecoveryReturnsTries == ASSUME IInv, IInv', TriesInv, RecoveryReturns PROVE TriesInv'
<1> SUFFICES ASSUME NEW j, j = busy, NEW d, d = db[j], NEW k, k = target PROVE TriesInv'
  OBVIOUS
<1>1. /\ Quiet /\ k # None /\ UNCHANGED <<db, build, chain>> /\ Try(j, k)
      /\ ContinueRecovery(j, <<Set(k, "REVERTED")>>) \/ retainRecoveryAmbiguity(j)
  BY DEF RecoveryReturns
<1>2. j \in Jobs /\ k \in Recoveries /\ chain[j] \in Chain
  BY <1>1 DEF IInv, Typed
<1>3. JobOK(j) /\ Ahead(db, plan, j) = d /\ d \in Rows /\ FlightOK(j)
  BY <1>1, <1>2, AtRest DEF TriesInv
<1>4. /\ chain[j].at = "idle" /\ mem[j].local /\ d.row[k] = "REVERTING"
      /\ \A o \in Recoveries \ {k} : d.row[o] \in {None, "PREPARED", "REVERTED"}
      /\ recoveryRevertKey[k] \in Targets(d)
      /\ \A t \in Remaining(d) : \A c \in t : tries[j][c] = 0
  BY <1>1, <1>2, <1>3 DEF JobOK, RetryOK, Retrying, FlightOK
<1>5. ~build[j].call
  BY <1>2, <1>3, <1>4 DEF JobOK, BuildOK, Making, LocalOK
<1>6. \A l \in Jobs \ {j} : build'[l] = build[l] /\ chain'[l] = chain[l] /\ busy' # l
  BY <1>1, NameAssumption DEF retainRecoveryAmbiguity, ContinueRecovery
<1>7. \E ws : Plan(j, ws)
  BY <1>1 DEF retainRecoveryAmbiguity, ContinueRecovery
<1>8. ASSUME NEW c \in recoveryRevertKey[k] PROVE c \in Artifacts /\ Beyond(d, c) /\ tries[j][c] = 0
  <2>1. RecoveryOf(recoveryRevertKey[k]) = k
    BY <1>2, KeyTarget
  <2>2. recoveryRevertKey[k] \in Remaining(d)
    BY <1>4, <2>1 DEF Remaining
  <2>3. c \in Artifacts
    BY <1>4, TargetsApart
  <2> QED
    BY <1>2, <1>4, <2>2, <2>3 DEF Beyond, None
<1>9. Reverted(k) = recoveryRevertKey[k]
  BY <1>2 DEF Reverted
<1>10. tries'[j] = Tried(j, k)
  BY <1>1, <1>2 DEF Try, TriesInv, Counts
<1>11. FlightOK(j)'
  <2>1. CASE retainRecoveryAmbiguity(j)
    BY <1>1, <1>4, <1>5, <2>1 DEF retainRecoveryAmbiguity, FlightOK, Retrying
  <2>2. CASE ContinueRecovery(j, <<Set(k, "REVERTED")>>)
    <3> DEFINE x == Put(d, Set(k, "REVERTED"))
               pre == <<Set(k, "REVERTED")>>
               P == {d, x}
    <3>1. "REVERTED" \in States /\ Moves(d.row[k], "REVERTED")
      BY <1>4, StatesAre
    <3> HIDE DEF x, pre, P
    <3>2. /\ Takes(d, pre, P, x) /\ x \in Rows /\ x.row[k] = "REVERTED"
          /\ (\A o \in Ops : o # k => x.row[o] = d.row[o]) /\ Targets(x) = Targets(d)
      <4>1. x = Put(d, Set(k, "REVERTED")) /\ pre = <<Set(k, "REVERTED")>> /\ P = {d, x}
        BY DEF x, pre, P
      <4>2. d \in Rows
        BY <1>2, <1>3
      <4>3. /\ Takes(d, <<Set(k, "REVERTED")>>, {d, x}, x) /\ x \in Rows /\ x.row[k] = "REVERTED"
            /\ (\A o \in Ops : o # k => x.row[o] = d.row[o]) /\ Targets(x) = Targets(d)
        BY <1>2, <3>1, <4>1, <4>2, RecoveryRow
      <4> QED
        BY <4>1, <4>3
    <3>3. ContinueRecovery(j, pre) /\ Recoveries \subseteq Ops
      BY <2>2, OpsAre DEF pre, Recoveries, recoveryRevertKey
    <3>4. \A o \in Recoveries : x.row[o] \in {None, "PREPARED", "REVERTED"}
      BY <1>2, <1>4, <3>2, <3>3
    <3>5. ASSUME NEW t \in Remaining(x), NEW c \in t PROVE tries'[j][c] = 0
      <4>1. t \in Targets(d) /\ x.row[RecoveryOf(t)] # "REVERTED"
        BY <3>2 DEF Remaining
      <4>2. RecoveryOf(t) \in Recoveries /\ recoveryRevertKey[RecoveryOf(t)] = t
        BY <4>1, TargetKey
      <4>3. RecoveryOf(t) # k /\ t # recoveryRevertKey[k]
        BY <1>2, <3>2, <4>1, <4>2, KeyTarget
      <4>4. t \in Remaining(d)
        BY <3>2, <3>3, <4>1, <4>2, <4>3 DEF Remaining
      <4>5. c \in Artifacts /\ c \notin recoveryRevertKey[k]
        BY <1>4, <3>5, <4>1, <4>3, TargetsApart
      <4>6. tries[j][c] = 0
        BY <1>4, <3>5, <4>4
      <4> QED
        BY <1>9, <1>10, <4>5, <4>6 DEF Tried
    <3> QED
      BY <1>1, <1>2, <1>4, <1>5, <3>2, <3>3, <3>4, <3>5, RecoveryFlight
  <2> QED
    BY <1>1, <2>1, <2>2
<1>12. \A c \in Reverted(k) : c \in Artifacts /\ Beyond(db[j], c) /\ (tries[j][c] = 0 \/ (c = "revert" /\ db[j].receipt = "error"))
  BY <1>8, <1>9
<1> QED
  BY <1>1, <1>2, <1>6, <1>7, <1>11, <1>12, CallReturns

-----------------------------------------------------------------------------
(* A restart.                                                              *)

\* The call it leaves behind is one that was under way, with nothing more to write.
LEMMA CallCut ==
    ASSUME IInv, TriesInv, NEW j \in Jobs, RevertCall(j) # None, NEW a \in Reverted(RevertCall(j))
    PROVE  a \in Artifacts /\ Beyond(db[j], a) /\ (tries[j][a] = 0 \/ (a = "revert" /\ db[j].receipt = "error"))
<1>1. plan \in Seq([job : Jobs, w : Writes]) /\ JobOK(j) /\ FlightOK(j) /\ build[j] \in Build /\ target \in Recoveries \cup {None}
  BY DEF IInv, Typed, PlanTyped, TriesInv
<1>2. CallMade(j)
  <2> SUFFICES ASSUME ~CallMade(j) PROVE RevertCall(j) = None
    OBVIOUS
  <2> HIDE DEF CallMade
  <2> QED
    BY DEF RevertCall
<1>3. WritesOf(plan, j) = <<>>
  BY <1>1, <1>2 DEF CallMade, WritesOf
<1>4. Ahead(db, plan, j) = db[j]
  BY <1>3, AfterNone DEF Ahead
<1>5. CASE build[j].call
  <2> DEFINE op == First(build[j].own)
  <2>1. RevertCall(j) = op
    BY <1>2, <1>5 DEF RevertCall
  <2>2. tries[j][op] = 0 /\ Beyond(db[j], op)
    BY <1>1, <1>4, <1>5 DEF FlightOK
  <2>3. op \in WalletOps
    <3>1. build[j].own \in SUBSET WalletOps /\ build[j].own # {}
      BY <1>1, <1>5 DEF Build, JobOK, BuildOK
    <3> QED
      BY <3>1, FirstIn
  <2> HIDE DEF op
  <2>4. Reverted(op) = {op} /\ op \in Artifacts
    BY <2>3, OpsAre DEF Reverted, Artifacts
  <2> QED
    BY <2>1, <2>2, <2>4
<1>6. CASE ~build[j].call /\ chain[j].at = "revert"
  <2>1. RevertCall(j) = "revert"
    BY <1>2, <1>6 DEF RevertCall
  <2>2. Beyond(db[j], "revert") /\ (tries[j]["revert"] = 0 \/ db[j].receipt = "error")
    BY <1>1, <1>4, <1>6 DEF JobOK, ChainOK, Beyond, FlightOK, None
  <2>3. Reverted("revert") = {"revert"} /\ "revert" \in Artifacts
    BY OpsAre DEF Reverted, Artifacts
  <2> QED
    BY <2>1, <2>2, <2>3
<1>7. CASE ~build[j].call /\ chain[j].at # "revert"
  <2> DEFINE k == target
             d == db[j]
  <2>1. Retrying(j) /\ RevertCall(j) = k /\ k \in Recoveries
    BY <1>1, <1>2, <1>7 DEF RevertCall, Retrying
  <2>2. /\ d.row[k] = "REVERTING" /\ recoveryRevertKey[k] \in Targets(d)
        /\ \A t \in Remaining(d) : \A c \in t : tries[j][c] = 0
    BY <1>1, <1>4, <2>1 DEF JobOK, RetryOK, FlightOK
  <2>3. a \in recoveryRevertKey[k]
    BY <2>1 DEF Reverted
  <2>4. recoveryRevertKey[k] \in Remaining(d)
    BY <2>1, <2>2, KeyTarget DEF Remaining
  <2>5. a \in Artifacts
    BY <2>2, <2>3, TargetsApart
  <2>6. Beyond(d, a)
    BY <2>1, <2>2, <2>3 DEF Beyond, None
  <2> QED
    BY <2>2, <2>3, <2>4, <2>5, <2>6
<1> QED
  BY <1>5, <1>6, <1>7

\* A restart counts the call it cuts, and forgets it.
LEMMA CrashTries == ASSUME IInv, TriesInv, Crash PROVE TriesInv'
<1>1. /\ plan' = <<>> /\ build' = [j \in Jobs |-> NoBuild] /\ chain' = [j \in Jobs |-> Idle] /\ busy' = Nobody
      /\ target' = None /\ db' = db /\ tries' = [j \in Jobs |-> Tried(j, RevertCall(j))]
  BY DEF Crash
<1>2. ASSUME NEW j \in Jobs PROVE TriedOK(j)' /\ FlightOK(j)' /\ tries'[j] \in [Artifacts -> 0..2]
  <2>1. tries'[j] = Tried(j, RevertCall(j)) /\ tries[j] \in [Artifacts -> 0..2]
    BY <1>1 DEF TriesInv, Counts
  <2>2. tries'[j] \in [Artifacts -> 0..2]
    BY <2>1 DEF Tried
  <2>3. FlightOK(j)'
    BY <1>1 DEF FlightOK, Retrying, NoBuild, Idle
  <2>4. Reverted(None) = {}
    BY OpsAre DEF Reverted, Artifacts, Recoveries, recoveryRevertKey, None
  <2>5. \A a \in Reverted(RevertCall(j)) :
           a \in Artifacts /\ Beyond(db[j], a) /\ (tries[j][a] = 0 \/ (a = "revert" /\ db[j].receipt = "error"))
    BY <2>4, CallCut
  <2>6. TriedOK(j)'
    BY <1>1, <2>1, <2>5, TriedOnce
  <2> QED
    BY <2>2, <2>3, <2>6
<1>3. Counts'
  BY <1>1, <1>2 DEF Counts
<1> QED
  BY <1>2, <1>3 DEF TriesInv

\* At the start nothing was called.
LEMMA TriesBegins == Init => TriesInv
<1> SUFFICES ASSUME Init, NEW j \in Jobs PROVE Counts /\ TriedOK(j) /\ FlightOK(j)
  BY DEF TriesInv, Init, Counts
<1>1. /\ tries = [i \in Jobs |-> [a \in Artifacts |-> 0]] /\ build[j] = NoBuild /\ chain[j] = Idle /\ target = None
  BY DEF Init
<1>2. Counts
  BY <1>1 DEF Counts
<1>3. WalletOps \subseteq Artifacts /\ "revert" \in Artifacts
  BY DEF Artifacts
<1>4. TriedOK(j)
  BY <1>1, <1>3 DEF TriedOK
<1>5. FlightOK(j)
  BY <1>1 DEF FlightOK, Retrying, NoBuild, Idle
<1> QED
  BY <1>2, <1>4, <1>5

\* No step calls for a revert a second time, but revertWallet for a job that the relay has refused.
LEMMA TriesSteps == ASSUME IInv, TriesInv, [Next]_vars PROVE TriesInv'
<1>0. IInv'
  BY StepsKeep
<1>1. CASE Next
  <2>1. CASE Write \/ Crash
    BY <2>1, WriteTries, CrashTries
  <2>2. CASE Sweeping
    BY <1>0, <2>2, OthersTry, RecoveryReturnsTries, SweepRetriesTries, LoopTries DEF Sweeping
  <2>3. CASE Booting
    BY <1>0, <2>3, OthersTry, LoopTries DEF Booting
  <2>4. ASSUME NEW j \in Jobs, OnSwap(j) \/ Building(j) \/ Timeout(j) PROVE TriesInv'
    BY <1>0, <2>4, OnSwapTries, BuildingTries, CleanupCallTries, CleanupReturnsTries DEF Building
  <2>5. ASSUME NEW j \in Jobs, Reconciling(j) PROVE TriesInv'
    BY <1>0, <2>5, ReconcilingTries, RevertReturnsTries DEF Reconciling
  <2>6. ASSUME NEW j \in Jobs, onTxSubmitted(j) \/ onSubmitFailed(j) \/ RelayGivesUp(j) \/ RelaySubmits(j) PROVE TriesInv'
    BY <1>0, <2>6, ReconcilingTries, OthersTry
  <2>7. ASSUME NEW o \in Offers, RivalTakes(o) \/ IndexConsumption(o) PROVE TriesInv'
    BY <2>7, OthersTry
  <2> QED
    BY <1>1, <2>1, <2>2, <2>3, <2>4, <2>5, <2>6, <2>7 DEF Next
<1>2. CASE UNCHANGED vars
  BY <1>2, OthersTry
<1> QED
  BY <1>1, <1>2

\* A revert that the wallet may have made is never called for again, by a cleanup, by local
\* recovery or across a restart; the one exception is revertWallet, of a job that the relay
\* has explicitly refused.
THEOREM RevertsAreNotRepeated == Spec => []RevertedOnce
<1>1. TriesInv => RevertedOnce
  <2> SUFFICES ASSUME TriesInv, NEW j \in Jobs, NEW a \in Artifacts, tries[j][a] > 1
               PROVE  a = "revert" /\ db[j].receipt = "error"
    BY DEF RevertedOnce
  <2>1. tries[j][a] = 2 /\ TriedOK(j)
    BY DEF TriesInv, Counts
  <2> QED
    BY <2>1 DEF TriedOK, Artifacts
<1>2. Init => TriesInv
  BY TriesBegins
<1>3. IInv /\ TriesInv /\ [Next]_vars => TriesInv'
  BY TriesSteps
<1> QED
  BY <1>1, <1>2, <1>3, SwapInvariant, PTL DEF Spec
=============================================================================

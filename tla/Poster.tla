------------------------------- MODULE Poster --------------------------------
(***************************************************************************)
(* The offer poster: the tick and the reconciliation of                    *)
(* deploy/scripts/lib/poster-tick.ts over the journal of poster-journal.ts *)
(* with the wallet of pinned-wallet.ts, in the process of offer-poster.ts. *)
(*                                                                         *)
(* Every tick asks the kernel for the fate of the offers it is not sure    *)
(* of, then offers again a coin whose last offer is over, or adopts one.   *)
(* An offer must spend exactly the coin it was built for, and a coin       *)
(* should carry one offer at a time.  What the poster knows is the         *)
(* journal, written before each mutation returns; the wallet's             *)
(* reservations are in memory.  A second reconciliation runs on a timer    *)
(* beside the tick.                                                        *)
(*                                                                         *)
(* Data.  A coin is a name, an offer the number of its build: its id is a  *)
(* hash of bytes no other build repeats.  The offers of a coin lie in its  *)
(* journal record in the order of their builds, so the record is a status  *)
(* of each offer and the coin it is on.  A pass asks in any order.         *)
(* Prices, sizes, colours, texts and counters are left out, and so is the  *)
(* read-back after an offer is live, which changes nothing.  One pass of   *)
(* the timer at a time.                                                    *)
(***************************************************************************)
EXTENDS Naturals, FiniteSets

CONSTANTS
    Coins,         \* coins of the wallet
    NoCoin,
    Matching,      \* those of the token and the size to give
    PostRetries,   \* POSTER_POST_RETRIES
    MaxReoffers,   \* POSTER_MAX_REOFFERS_PER_TICK
    MaxOffers,     \* BOUND: offers built
    MaxCrashes     \* BOUND: ends of the process

ASSUME PosterAssumption ==
    /\ NoCoin \notin Coins /\ Matching \subseteq Coins /\ PostRetries \in Nat \ {0}
    /\ MaxReoffers \in Nat \ {0} /\ MaxOffers \in Nat /\ MaxCrashes \in Nat

VARIABLES
    kernel,   \* what the kernel holds of each offer
    lapsed,   \* offers past their ttl
    spent,    \* what spent each coin on chain: an offer, Elsewhere, or 0
    built,    \* number of offers built
    inputs,   \* the coins each offer spends
    reserved, \* the build that holds each coin in the wallet, or 0
    acquired, \* journal: the place of each coin in the order of adoption, or 0
    state,    \* journal: the state of each coin
    holder,   \* journal: the coin each offer is recorded on
    status,   \* journal: the status of each offer
    left,     \* offers a reconciliation has still to ask about, as it read them
    told,     \* an answer it has not applied
    tick,     \* where the tick is, and its locals
    crashes   \* BOUND

chainVars == <<kernel, lapsed, spent>>
walletVars == <<built, inputs, reserved>>
coinVars == <<acquired, state>>
journalVars == <<coinVars, holder, status>>
passVars == <<left, told>>
vars == <<chainVars, walletVars, journalVars, passVars, tick, crashes>>

Ids == 1..MaxOffers
Elsewhere == MaxOffers + 1
\* Statuses of an offer at the kernel after which it is over.
Terminal == {"consumed", "cancelled", "expired"}
\* As if unknown released the coin, and as if only a live offer were asked about.
ReleasableUnknown == {"expired", "cancelled", "rejected", "unknown"}
NonTerminalLive == {"live"}
\* RELEASABLE_STATUSES, NON_TERMINAL_STATUSES.
Releasable == {"expired", "cancelled", "rejected"}
NonTerminal == {"live", "unknown"}

-----------------------------------------------------------------------------
(* The kernel, the chain and the wallet, as the poster meets them.         *)

Unspent(o) == \A c \in inputs[o] : spent[c] = 0
\* The node indexes a published blob, or drops it for good.
Index(o) ==
    /\ kernel[o] = "published"
    /\ \/ Unspent(o) /\ o \notin lapsed /\ kernel' = [kernel EXCEPT ![o] = "live"]
       \/ kernel' = [kernel EXCEPT ![o] = "dropped"]
    /\ UNCHANGED <<lapsed, spent, walletVars, journalVars, passVars, tick, crashes>>
\* A taker settles a listed offer.
Settle(o) ==
    /\ kernel[o] = "live" /\ o \notin lapsed /\ Unspent(o)
    /\ spent' = [c \in Coins |-> IF c \in inputs[o] THEN o ELSE spent[c]]
    /\ UNCHANGED <<kernel, lapsed, walletVars, journalVars, passVars, tick, crashes>>
\* The coin goes in a trade that is none of the offers: a split, a merge, another wallet.
SpendElsewhere(c) ==
    /\ spent[c] = 0 /\ spent' = [spent EXCEPT ![c] = Elsewhere]
    /\ UNCHANGED <<kernel, lapsed, walletVars, journalVars, passVars, tick, crashes>>
\* The kernel adjudicates an offer whose coin is spent, and expires a lapsed one.
Adjudicate(o) ==
    /\ kernel[o] = "live"
    /\ \/ ~Unspent(o) /\ kernel' = [kernel EXCEPT ![o] =
              IF \A c \in inputs[o] : spent[c] = o THEN "consumed" ELSE "cancelled"]
       \/ Unspent(o) /\ o \in lapsed /\ kernel' = [kernel EXCEPT ![o] = "expired"]
    /\ UNCHANGED <<lapsed, spent, walletVars, journalVars, passVars, tick, crashes>>
\* The ttl of a build passes: the wallet releases what it still holds.
Lapse(o) ==
    /\ o <= built /\ o \notin lapsed /\ lapsed' = lapsed \union {o}
    /\ reserved' = [c \in Coins |-> IF reserved[c] = o THEN 0 ELSE reserved[c]]
    /\ UNCHANGED <<kernel, spent, built, inputs, journalVars, passVars, tick, crashes>>
Outside ==
    \/ \E o \in Ids : Index(o) \/ Settle(o) \/ Adjudicate(o) \/ Lapse(o)
    \/ \E c \in Matching : SpendElsewhere(c)
\* availableCoins: on chain, and no build holds it.
Free == {c \in Coins : spent[c] = 0 /\ reserved[c] = 0}

-----------------------------------------------------------------------------
(* The journal.                                                            *)

\* recordOffer: a rejected post does not claim the coin.
Record(c, o, st) ==
    /\ holder' = [holder EXCEPT ![o] = c] /\ status' = [status EXCEPT ![o] = st]
    /\ state' = IF st = "rejected" THEN state ELSE [state EXCEPT ![c] = "offered"]
On(c) == {o \in Ids : holder[o] = c}
\* nonTerminalOffers.
OpenIn(st) == {e \in [id : Ids, st : NonTerminal] :
                   /\ st[e.id] = e.st /\ holder[e.id] # NoCoin
                   /\ state[holder[e.id]] # "spent"}
\* candidates: the coin is open, its latest offer is over, the wallet lists it.
Over(c) == \A o \in On(c) : (\A i \in On(c) : i <= o) => status[o] \in Releasable
Candidates(available) ==
    {c \in available : state[c] \in {"available", "offered"} /\ Over(c)}
\* The oldest of them, as many as a tick offers again.
Older(cs, c) == {d \in cs : acquired[d] < acquired[c]}
Oldest(cs) == {c \in cs : Cardinality(Older(cs, c)) < MaxReoffers}

-----------------------------------------------------------------------------
(* reconcile, by the tick and by reconcileTimer.                           *)

Passes == {"tick", "timer"}
NoAnswer == [id |-> 0, was |-> "none", is |-> "none"]
Idling(p) == left[p] = {} /\ told[p] = NoAnswer
Begins(p) == left' = [left EXCEPT ![p] = OpenIn(status)]
\* mapKernelStatus: what is not in the book is unknown.
Mapped(st) == IF st \in Terminal \union {"live"} THEN st ELSE "unknown"
Ask(p, o) ==
    /\ told[p] = NoAnswer
    /\ \E e \in left[p] :
          /\ e.id = o /\ left' = [left EXCEPT ![p] = @ \ {e}]
          /\ told' = [told EXCEPT ![p] = [id |-> o, was |-> e.st, is |-> Mapped(kernel[o])]]
    /\ UNCHANGED <<chainVars, walletVars, journalVars, tick, crashes>>
\* The kernel is not reached: this offer stays as it is.
AskFails(p) ==
    /\ told[p] = NoAnswer /\ \E e \in left[p] : left' = [left EXCEPT ![p] = @ \ {e}]
    /\ UNCHANGED <<chainVars, walletVars, journalVars, told, tick, crashes>>
\* The answer, against the status of the offer as the pass read it when it began.
Apply(p) ==
    /\ told[p] # NoAnswer /\ told' = [told EXCEPT ![p] = NoAnswer]
    /\ LET o == told[p].id
           is == told[p].is
       IN  IF is = told[p].was THEN UNCHANGED <<state, status>>
           ELSE /\ status' = [status EXCEPT ![o] = is]
                /\ state' = IF is = "consumed" THEN [state EXCEPT ![holder[o]] = "spent"]
                            ELSE state
    /\ UNCHANGED <<chainVars, walletVars, acquired, holder, left, tick, crashes>>
Reconcile(p) == (\E o \in Ids : Ask(p, o)) \/ AskFails(p) \/ Apply(p)
TimerStarts ==
    /\ tick.at # "boot" /\ Idling("timer") /\ OpenIn(status) # {} /\ Begins("timer")
    /\ UNCHANGED <<chainVars, walletVars, journalVars, told, tick, crashes>>

-----------------------------------------------------------------------------
(* runTick and offerCoin.                                                  *)

Idle == [at |-> "idle", coin |-> NoCoin, tries |-> 0, posted |-> 0, cands |-> {}]
Ends == tick' = Idle
TickStarts ==
    /\ tick.at = "idle" /\ tick' = [Idle EXCEPT !.at = "reconcile"] /\ Begins("tick")
    /\ UNCHANGED <<chainVars, walletVars, journalVars, told, crashes>>
\* The reconciliation is over; the wallet is read, or is not readable.
Reconciled ==
    /\ Idling("tick")
    /\ \/ tick.at = "boot" /\ Ends
       \/ /\ tick.at = "reconcile"
          /\ \E available \in {Free, {}} :
                tick' = [tick EXCEPT !.at = "select", !.cands = Oldest(Candidates(available))]
    /\ UNCHANGED <<chainVars, walletVars, journalVars, passVars, crashes>>
\* The oldest candidate, if findCoin still finds it.
SelectCandidate ==
    /\ tick.at = "select"
    /\ \E c \in tick.cands :
          /\ Older(tick.cands, c) = {}
          /\ \/ /\ c \in Free
                /\ tick' = [tick EXCEPT !.at = "build", !.coin = c, !.cands = @ \ {c}]
             \/ tick' = [tick EXCEPT !.cands = @ \ {c}]
    /\ UNCHANGED <<chainVars, walletVars, journalVars, passVars, crashes>>
\* No candidate was offered: adopt a coin, journaled before anything is built from it.
SelectInventory ==
    /\ tick.at = "select" /\ tick.cands = {}
    /\ \/ /\ tick.posted = 0
          /\ \E c \in Free \intersect Matching :
                /\ state[c] = "none" /\ state' = [state EXCEPT ![c] = "available"]
                /\ acquired' = [acquired EXCEPT ![c] =
                                    Cardinality({d \in Coins : state[d] # "none"}) + 1]
                /\ tick' = [tick EXCEPT !.at = "build", !.coin = c]
       \/ Ends /\ UNCHANGED coinVars
    /\ UNCHANGED <<chainVars, walletVars, holder, status, passVars, crashes>>
\* As if the coin had to be among the inputs.
HasCoin(ins, c) == c \in ins
\* THE ASSERTION: the offer spends the coin it was built for and no other.
ExactCoin(ins, c) == ins = {c}
\* sizeWant and build.  The pinned selector takes the coin or none; what the wallet
\* makes of it is read back.  A build that fails late leaves the coin reserved.
Build ==
    /\ tick.at = "build"
    /\ \/ Ends /\ UNCHANGED walletVars
       \/ /\ built < MaxOffers /\ tick.coin \in Free /\ built' = built + 1
          /\ \E ins \in (SUBSET Free) \ {{}} :
                /\ inputs' = [inputs EXCEPT ![built + 1] = ins]
                /\ reserved' = [c \in Coins |-> IF c \in ins THEN built + 1 ELSE reserved[c]]
                /\ \/ Ends
                   \/ tick' = [tick EXCEPT !.tries = 0,
                          !.at = IF ExactCoin(ins, tick.coin) THEN "post" ELSE "revert"]
    /\ UNCHANGED <<chainVars, journalVars, passVars, crashes>>
\* revertQuietly: the wallet releases the coins of the build, or fails to.
Revert ==
    /\ tick.at = "revert" /\ Ends
    /\ \/ reserved' = [c \in Coins |-> IF reserved[c] = built THEN 0 ELSE reserved[c]]
       \/ UNCHANGED reserved
    /\ UNCHANGED <<chainVars, built, inputs, journalVars, passVars, crashes>>

\* POST /v1/offers: a blob that is not indexed yet may be taken, again if need be.
Takes(o) == /\ kernel[o] \in {"none", "published"} /\ Unspent(o)
            /\ kernel' = [kernel EXCEPT ![o] = "published"]
TriesAgain == tick' = [tick EXCEPT !.tries = @ + 1,
                           !.at = IF tick.tries + 1 = PostRetries THEN "revert" ELSE "post"]
Accepted ==
    /\ tick.at = "post" /\ Takes(built) /\ Record(tick.coin, built, "live")
    /\ tick' = [tick EXCEPT !.at = "poll"]
    /\ UNCHANGED <<lapsed, spent, walletVars, acquired, passVars, crashes>>
\* No answer, whatever the kernel made of the post; or a refusal that mends itself.
NotAccepted ==
    /\ tick.at = "post" /\ (Takes(built) \/ UNCHANGED kernel) /\ TriesAgain
    /\ UNCHANGED <<lapsed, spent, walletVars, journalVars, passVars, crashes>>
\* Any other answer: 400, 422, 409 for a blob the kernel has indexed, or 500 when
\* the batcher fails, before the blob is published or after.
Refused ==
    /\ tick.at = "post" /\ (Takes(built) \/ UNCHANGED kernel)
    /\ Record(tick.coin, built, "rejected")
    /\ tick' = [tick EXCEPT !.at = "revert"]
    /\ UNCHANGED <<lapsed, spent, walletVars, acquired, passVars, crashes>>
\* The poll until the book shows the offer.
Poll ==
    /\ tick.at = "poll"
    /\ \/ /\ kernel[built] = "live" /\ UNCHANGED status
          /\ tick' = [tick EXCEPT !.at = "select", !.posted = @ + 1]
       \/ /\ kernel[built] \in Terminal /\ status' = [status EXCEPT ![built] = kernel[built]] /\ Ends
       \/ status' = [status EXCEPT ![built] = "unknown"] /\ Ends
    /\ UNCHANGED <<chainVars, walletVars, coinVars, holder, passVars, crashes>>
TickStep ==
    \/ TickStarts \/ Reconciled \/ SelectCandidate \/ SelectInventory \/ Build \/ Revert
    \/ Accepted \/ NotAccepted \/ Refused \/ Poll

\* The process ends anywhere, between the two writes of a settled offer too, and
\* starts again: the journal is read, the wallet synchronises, nothing is reserved.
Restarts(st) ==
    /\ crashes < MaxCrashes /\ crashes' = crashes + 1
    /\ reserved' = [c \in Coins |-> 0] /\ status' = st
    /\ tick' = [Idle EXCEPT !.at = "boot"]
    /\ left' = [p \in Passes |-> IF p = "tick" THEN OpenIn(st) ELSE {}]
    /\ told' = [p \in Passes |-> NoAnswer]
    /\ UNCHANGED <<chainVars, built, inputs, coinVars, holder>>
Crash == Restarts(status)
CrashBetweenWrites ==
    \E p \in Passes : /\ told[p].is = "consumed"
                      /\ Restarts([status EXCEPT ![told[p].id] = "consumed"])

Init ==
    /\ kernel = [o \in Ids |-> "none"] /\ lapsed = {} /\ spent = [c \in Coins |-> 0]
    /\ built = 0 /\ inputs = [o \in Ids |-> {}] /\ reserved = [c \in Coins |-> 0]
    /\ acquired = [c \in Coins |-> 0] /\ state = [c \in Coins |-> "none"]
    /\ holder = [o \in Ids |-> NoCoin] /\ status = [o \in Ids |-> "none"]
    /\ left = [p \in Passes |-> {}] /\ told = [p \in Passes |-> NoAnswer]
    /\ tick = [Idle EXCEPT !.at = "boot"] /\ crashes = 0
Next ==
    \/ Outside \/ TimerStarts \/ Reconcile("tick") \/ Reconcile("timer")
    \/ TickStep \/ Crash \/ CrashBetweenWrites
Spec == Init /\ [][Next]_vars
\* The timer fires, a pass goes on, and a kernel asked again and again about an
\* offer answers at some time.
Fairness ==
    /\ WF_vars(TimerStarts) /\ WF_vars(Reconcile("timer"))
    /\ WF_vars(Reconcile("tick")) /\ WF_vars(Reconciled)
    /\ \A o \in Ids : SF_vars(Ask("timer", o))
FairSpec == Spec /\ Fairness

-----------------------------------------------------------------------------
(* Properties.                                                             *)

\* The kernel has been given no offer but of one coin, and of one the journal owns
\* from before the offer was built: whatever the wallet built, whenever the process
\* ended (offerCoin's assertion, recordInventory).
HeldOffersAreExact ==
    \A o \in Ids : kernel[o] # "none" =>
        \E c \in Coins : inputs[o] = {c} /\ state[c] # "none"

\* The kernel may still settle the offer; the journal has it, and not as refused.
Held(o) == kernel[o] \in {"published", "live"} /\ o \notin lapsed
Recorded(o) == status[o] \notin {"none", "rejected"}
\* A coin carries one offer at a time: two that may both settle are never both
\* recorded for it, though a restart frees the wallet's reservations and the
\* statuses come in late (candidates).
OneOfferPerCoin ==
    \A i, j \in Ids :
        /\ Recorded(i) /\ Recorded(j) /\ Held(i) /\ Held(j) /\ holder[i] = holder[j]
        => i = j

\* The poster comes to know the end of each offer it has recorded, or closes the coin:
\* no coin stays held by an offer that is over, through failed requests, a restart
\* and an answer applied late (nonTerminalOffers, reconcile).
Learned(o) == status[o] = kernel[o] \/ \E c \in Coins : holder[o] = c /\ state[c] = "spent"
OutcomesLearned ==
    \A o \in Ids : [](kernel[o] \in Terminal /\ Recorded(o) => <>[]Learned(o))

\* `rejected` "records a post the kernel refused with a 4xx, which never became an
\* offer" (poster-journal.ts:58).
RejectedNeverListed ==
    \A o \in Ids : status[o] = "rejected" => kernel[o] # "live"
=============================================================================

---------------------------- MODULE PosterProofs -----------------------------
(***************************************************************************)
(* What the poster keeps for any number of coins, offers and restarts: the *)
(* kernel holds no offer but of one journaled coin, and a coin carries one *)
(* offer at a time.                                                        *)
(*                                                                         *)
(* The second does not follow from statuses alone: an answer may be        *)
(* applied late, and a restart empties the wallet's reservations.  The     *)
(* strengthening says that a status that ends an offer is true of the      *)
(* kernel (Truthful), that every offer but the last one of a coin is over  *)
(* or refused (OnlyLastHeld), and that the coin the tick works on, and     *)
(* each it has still in hand, carries no offer (CoinInHand).               *)
(***************************************************************************)
EXTENDS Poster, TLAPS

Known == Terminal \union {"live", "unknown"}
Statuses == Known \union {"none", "rejected"}
Stages == {"boot", "idle", "reconcile", "select", "build", "post", "revert", "poll"}
Typing ==
    /\ kernel \in [Ids -> Terminal \union {"none", "published", "live", "dropped"}]
    /\ lapsed \subseteq Ids /\ built \in 0..MaxOffers
    /\ inputs \in [Ids -> SUBSET Coins]
    /\ state \in [Coins -> {"none", "available", "offered", "spent"}]
    /\ holder \in [Ids -> Coins \union {NoCoin}] /\ status \in [Ids -> Statuses]
    /\ left \in [Passes -> SUBSET [id : Ids, st : Statuses]]
    /\ told \in [Passes -> [id : 0..MaxOffers, was : Statuses, is : Statuses]]
TickTyped ==
    tick \in [at : Stages, coin : Coins \union {NoCoin}, tries : Nat,
             posted : Nat, cands : SUBSET Coins]

\* Nothing is known of an offer before its build.
Unbuilt == \A o \in Ids : o > built => kernel[o] = "none" /\ status[o] = "none"
\* The journal has an offer on a coin it owns, with a status, or not at all.
Kept == \A o \in Ids : /\ status[o] = "none" <=> holder[o] = NoCoin
                       /\ \A c \in Coins : holder[o] = c => state[c] # "none"
\* A status that ends an offer is the kernel's, in the journal or on its way.
Truthful ==
    /\ \A o \in Ids : status[o] \in Terminal => kernel[o] \in Terminal
    /\ \A p \in Passes : told[p].is \in Terminal => told[p].id \in Ids /\ kernel[told[p].id] \in Terminal
\* The passes ask about recorded offers.
AsksRecorded ==
    \A p \in Passes :
        /\ \A e \in left[p] : Recorded(e.id)
        /\ told[p] # NoAnswer =>
               told[p].id \in Ids /\ Recorded(told[p].id) /\ told[p].is \in Known
OnlyLastHeld ==
    \A i, j \in Ids : i < j /\ holder[j] # NoCoin /\ holder[i] = holder[j] /\ Recorded(i) => ~Held(i)
\* The coin carries no offer.
Clear(c) == \A o \in Ids : holder[o] = c /\ Recorded(o) => ~Held(o)
CoinInHand ==
    /\ \A c \in tick.cands : Clear(c) /\ state[c] # "none" /\ c # tick.coin
    /\ tick.at = "reconcile" => tick.coin = NoCoin
    /\ tick.at \in {"build", "post"} =>
           tick.coin \in Coins /\ Clear(tick.coin) /\ state[tick.coin] # "none"
\* The offer being posted is new and exact; the one being polled is recorded.
OfferInHand ==
    /\ tick.at = "post" =>
           built \in Ids /\ status[built] = "none" /\ inputs[built] = {tick.coin}
    /\ tick.at = "poll" => built \in Ids /\ Recorded(built)
PosterInv ==
    /\ Typing /\ TickTyped /\ Unbuilt /\ Kept /\ Truthful /\ AsksRecorded
    /\ OnlyLastHeld /\ CoinInHand /\ OfferInHand /\ HeldOffersAreExact

USE DEF Ids, Passes

\* The poster starts with an empty journal, or the invariant of the one it left.
THEOREM PosterInit == Init => PosterInv
<1> SUFFICES ASSUME Init PROVE PosterInv
  OBVIOUS
<1> USE PosterAssumption DEF Init
<1>1. Typing
  BY DEF Typing, Terminal, Statuses, Known, Idle, NoAnswer
<1>2. TickTyped
  BY DEF TickTyped, Stages, Idle, NoAnswer
<1>3. Unbuilt
  BY DEF Unbuilt, Typing, Idle, NoAnswer
<1>4. Kept
  BY DEF Kept, Typing, Idle, NoAnswer
<1>5. Truthful
  BY DEF Truthful, Typing, Terminal, Idle, NoAnswer
<1>6. AsksRecorded
  BY DEF AsksRecorded, Typing, Recorded, Known, Terminal, NoAnswer, Idle, NoAnswer
<1>7. OnlyLastHeld
  BY DEF OnlyLastHeld, Held, Recorded, Typing, Idle, NoAnswer
<1>8. CoinInHand
  BY DEF CoinInHand, Clear, Held, Recorded, Typing, TickTyped, Idle, NoAnswer
<1>9. OfferInHand
  BY DEF OfferInHand, Recorded, Typing, TickTyped, Idle, NoAnswer
<1>10. HeldOffersAreExact
  BY DEF HeldOffersAreExact, Typing, Idle, NoAnswer
<1> QED
  BY <1>1, <1>2, <1>3, <1>4, <1>5, <1>6, <1>7, <1>8, <1>9, <1>10 DEF PosterInv

\* Between two ticks.
LEMMA IdleTyped ==
    /\ Idle \in [at : Stages, coin : Coins \union {NoCoin}, tries : Nat,
                posted : Nat, cands : SUBSET Coins]
    /\ Idle.at = "idle" /\ Idle.coin = NoCoin /\ Idle.cands = {}
  BY DEF Idle, Stages

\* candidates: what the code reads of a coin, its latest offer, tells of them all.
LEMMA OverIsClear ==
    ASSUME PosterInv, NEW c \in Coins, Over(c)
    PROVE  Clear(c)
<1> SUFFICES ASSUME NEW o \in Ids, holder[o] = c, Recorded(o) PROVE ~Held(o)
  BY DEF Clear
<1>1. CASE \A i \in On(c) : i <= o
  <2>1. status[o] \in Terminal
    BY <1>1 DEF Over, On, Releasable, Recorded, Terminal
  <2> QED
    BY <2>1 DEF PosterInv, Truthful, Held, Terminal
<1>2. CASE \E i \in On(c) : ~(i <= o)
  BY <1>2, PosterAssumption DEF On, PosterInv, OnlyLastHeld
<1> QED
  BY <1>1, <1>2

\* Steps of the chain and the wallet that touch nothing the invariant reads.
LEMMA Untouched ==
    ASSUME PosterInv,
           UNCHANGED <<kernel, lapsed, built, inputs, state, holder, status, left, told, tick>>
    PROVE  PosterInv'
  BY DEF PosterInv, Typing, TickTyped, Unbuilt, Kept, Truthful, AsksRecorded, OnlyLastHeld,
     CoinInHand, OfferInHand, HeldOffersAreExact, Recorded, Held, Clear

\* The node indexes a blob or drops it: what the poster recorded stays true of it.
LEMMA IndexKeeps ==
    ASSUME PosterInv, NEW o \in Ids, Index(o)
    PROVE  PosterInv'
<1> USE PosterAssumption DEF PosterInv, Index, walletVars, journalVars, coinVars, passVars, chainVars
<1>1. Typing' /\ TickTyped' /\ Unbuilt' /\ Kept'
  BY DEF Typing, Terminal, Statuses, Known, TickTyped, Stages, Unbuilt, Kept
<1>2. Truthful' /\ AsksRecorded' /\ OnlyLastHeld' /\ CoinInHand'
  BY DEF Truthful, Typing, Terminal, AsksRecorded, Recorded, Known, NoAnswer,
     OnlyLastHeld, Held, CoinInHand, Clear, TickTyped
<1>3. OfferInHand' /\ HeldOffersAreExact'
  BY DEF OfferInHand, Recorded, Typing, TickTyped, Terminal, HeldOffersAreExact
<1> QED
  BY <1>1, <1>2, <1>3

\* An offer that ends is not held any more.
LEMMA AdjudicateKeeps ==
    ASSUME PosterInv, NEW o \in Ids, Adjudicate(o)
    PROVE  PosterInv'
<1> USE PosterAssumption DEF PosterInv, Adjudicate, walletVars, journalVars, coinVars, passVars, chainVars
<1>1. Typing' /\ TickTyped' /\ Unbuilt' /\ Kept' /\ Truthful'
  BY DEF Typing, Terminal, Statuses, Known, TickTyped, Stages, Unbuilt, Kept, Truthful
<1>2. AsksRecorded' /\ OnlyLastHeld' /\ CoinInHand' /\ OfferInHand' /\ HeldOffersAreExact'
  BY DEF AsksRecorded, Typing, Recorded, Known, Terminal, NoAnswer, OnlyLastHeld, Held,
     CoinInHand, Clear, TickTyped, OfferInHand, HeldOffersAreExact
<1> QED
  BY <1>1, <1>2

\* An offer past its ttl is not held any more.
LEMMA LapseKeeps ==
    ASSUME PosterInv, NEW o \in Ids, Lapse(o)
    PROVE  PosterInv'
<1> USE PosterAssumption DEF PosterInv, Lapse, walletVars, journalVars, coinVars, passVars, chainVars
<1>1. Typing' /\ TickTyped' /\ Unbuilt' /\ Kept' /\ Truthful' /\ AsksRecorded' /\
     OnlyLastHeld' /\ CoinInHand' /\ OfferInHand' /\ HeldOffersAreExact'
  BY DEF Typing, Terminal, Statuses, Known, TickTyped, Stages, Unbuilt, Kept, Truthful,
     AsksRecorded, Recorded, NoAnswer, OnlyLastHeld, Held, CoinInHand, Clear, OfferInHand,
     HeldOffersAreExact
<1> QED
  BY <1>1

\* An answer that ends an offer is true, and stays true while it waits.
LEMMA AskKeeps ==
    ASSUME PosterInv, NEW p \in Passes, NEW o \in Ids, Ask(p, o)
    PROVE  PosterInv'
<1> USE PosterAssumption DEF PosterInv, Ask, walletVars, journalVars, coinVars, passVars, chainVars
<1>1. Typing' /\ TickTyped' /\ Unbuilt' /\ Kept' /\ Truthful' /\ AsksRecorded' /\
     OnlyLastHeld' /\ CoinInHand' /\ OfferInHand' /\ HeldOffersAreExact'
  BY DEF Typing, Terminal, Statuses, Known, Mapped, TickTyped, Stages, Unbuilt, Kept,
     Truthful, AsksRecorded, Recorded, NoAnswer, OnlyLastHeld, Held, CoinInHand, Clear,
     OfferInHand, HeldOffersAreExact
<1> QED
  BY <1>1

\* A failed request changes nothing but the pass.
LEMMA AskFailsKeeps ==
    ASSUME PosterInv, NEW p \in Passes, AskFails(p)
    PROVE  PosterInv'
<1> USE PosterAssumption DEF PosterInv, AskFails, walletVars, journalVars, coinVars, passVars, chainVars
<1>1. Typing' /\ TickTyped' /\ Unbuilt' /\ Kept' /\ Truthful' /\ AsksRecorded' /\
     OnlyLastHeld' /\ CoinInHand' /\ OfferInHand' /\ HeldOffersAreExact'
  BY DEF Typing, Terminal, Statuses, Known, TickTyped, Stages, Unbuilt, Kept, Truthful,
     AsksRecorded, Recorded, NoAnswer, OnlyLastHeld, Held, CoinInHand, Clear, OfferInHand,
     HeldOffersAreExact
<1> QED
  BY <1>1

\* An answer is applied to a recorded offer, whatever was written meanwhile.
LEMMA ApplyKeeps ==
    ASSUME PosterInv, NEW p \in Passes, Apply(p)
    PROVE  PosterInv'
<1> USE PosterAssumption DEF PosterInv, Apply, walletVars, journalVars, coinVars, passVars, chainVars
<1>a. told[p].id \in Ids /\ Recorded(told[p].id) /\ told[p].is \in Known
  BY DEF AsksRecorded
<1>1. TickTyped' /\ Unbuilt' /\ Kept'
  BY DEF TickTyped, Stages, Known, Statuses, Terminal, NoAnswer, AsksRecorded, Recorded,
     Truthful, Unbuilt, Typing, Kept
<1>2. Truthful' /\ AsksRecorded' /\ OnlyLastHeld'
  BY SMTT(30) DEF Truthful, Typing, Terminal, Known, Statuses, NoAnswer, AsksRecorded, Recorded,
     OnlyLastHeld, Held
<1>3. OfferInHand' /\ HeldOffersAreExact'
  BY DEF OfferInHand, Recorded, Typing, TickTyped, Known, Statuses, Terminal, NoAnswer,
     AsksRecorded, Truthful, HeldOffersAreExact
<1>4. Typing'
  <2>2. holder[told[p].id] \in Coins
    BY <1>a DEF Kept, Typing, Recorded
  <2>3. status' \in [Ids -> Statuses]
    BY <1>a DEF Typing, Statuses
  <2>4. state' \in [Coins -> {"none", "available", "offered", "spent"}]
    BY <2>2 DEF Typing
  <2>5. told' \in [Passes -> [id : 0..MaxOffers, was : Statuses, is : Statuses]]
    BY DEF Typing, NoAnswer, Statuses
  <2> QED
    BY <2>3, <2>4, <2>5 DEF Typing
<1>5. CoinInHand'
  <2>2. \A o \in Ids : Recorded(o)' => Recorded(o)
    BY <1>a DEF Recorded, Typing, Known, Terminal
  <2>3. \A c \in Coins : Clear(c) => Clear(c)'
    BY <2>2 DEF Clear, Held
  <2>4. \A c \in Coins : state[c] # "none" => state'[c] # "none"
    BY DEF Typing
  <2> QED
    BY <2>3, <2>4 DEF CoinInHand, TickTyped
<1> QED
  BY <1>1, <1>2, <1>3, <1>4, <1>5

\* The background pass reads offers that are recorded.
LEMMA TimerStartsKeeps ==
    ASSUME PosterInv, TimerStarts
    PROVE  PosterInv'
<1> USE PosterAssumption DEF PosterInv, TimerStarts, walletVars, journalVars, coinVars, passVars, chainVars
<1>1. Typing' /\ TickTyped' /\ Unbuilt' /\ Kept' /\ Truthful' /\ AsksRecorded' /\
     OnlyLastHeld' /\ CoinInHand' /\ OfferInHand' /\ HeldOffersAreExact'
  BY DEF Typing, Terminal, Statuses, Known, Begins, OpenIn, NonTerminal, TickTyped,
     Stages, Unbuilt, Kept, Truthful, AsksRecorded, Recorded, NoAnswer, OnlyLastHeld,
     Held, CoinInHand, Clear, OfferInHand, HeldOffersAreExact
<1> QED
  BY <1>1

\* The pass of the tick reads offers that are recorded.
LEMMA TickStartsKeeps ==
    ASSUME PosterInv, TickStarts
    PROVE  PosterInv'
<1> USE PosterAssumption DEF PosterInv, TickStarts, walletVars, journalVars, coinVars, passVars, chainVars
<1>1. Typing' /\ TickTyped' /\ Unbuilt' /\ Kept' /\ Truthful' /\ AsksRecorded' /\
     OnlyLastHeld' /\ CoinInHand' /\ OfferInHand' /\ HeldOffersAreExact'
  BY DEF Typing, Terminal, Statuses, Known, Begins, OpenIn, NonTerminal, Idle, TickTyped,
     Stages, Unbuilt, Kept, Truthful, AsksRecorded, Recorded, NoAnswer, OnlyLastHeld,
     Held, CoinInHand, Clear, OfferInHand, HeldOffersAreExact
<1> QED
  BY <1>1

\* The candidates carry no offer (OverIsClear).
LEMMA ReconciledKeeps ==
    ASSUME PosterInv, Reconciled
    PROVE  PosterInv'
<1> USE PosterAssumption DEF PosterInv, Reconciled, walletVars, journalVars, coinVars, passVars, chainVars
<1>1. Typing' /\ Unbuilt' /\ Kept' /\ Truthful' /\ AsksRecorded' /\ OnlyLastHeld' /\
     HeldOffersAreExact'
  BY DEF Typing, Terminal, Statuses, Known, Idle, Ends, Unbuilt, Kept, Truthful,
     AsksRecorded, Recorded, NoAnswer, OnlyLastHeld, Held, HeldOffersAreExact
<1>2. TickTyped'
  <2>1. CASE Ends
    BY <2>1, IdleTyped DEF Ends, TickTyped
  <2>2. ASSUME NEW available \in {Free, {}},
               tick' = [tick EXCEPT !.at = "select", !.cands = Oldest(Candidates(available))]
        PROVE  TickTyped'
    <3>1. Oldest(Candidates(available)) \subseteq Coins
      BY DEF Oldest, Candidates, Free
    <3> QED
      BY <2>2, <3>1 DEF TickTyped, Stages
  <2> QED
    BY <2>1, <2>2
<1>3. CoinInHand'
  <2>1. CASE Ends
    BY <2>1, IdleTyped DEF Ends, CoinInHand, TickTyped
  <2>2. ASSUME NEW available \in {Free, {}}, tick.at = "reconcile",
               tick' = [tick EXCEPT !.at = "select", !.cands = Oldest(Candidates(available))]
        PROVE  CoinInHand'
    <3>1. tick' \in [at : {"select"}, coin : {NoCoin}, tries : Nat, posted : Nat,
                     cands : {Oldest(Candidates(available))}]
      BY <2>2 DEF TickTyped, CoinInHand
    <3>2. \A c \in Oldest(Candidates(available)) :
              c \in Coins /\ Over(c) /\ state[c] \in {"available", "offered"}
      BY DEF Oldest, Candidates, Free
    <3>3. \A c \in Oldest(Candidates(available)) : Clear(c)
      BY <3>2, OverIsClear
    <3>4. \A c \in Coins : Clear(c) => Clear(c)'
      BY DEF Clear, Held, Recorded
    <3> QED
      BY <3>1, <3>2, <3>3, <3>4 DEF CoinInHand
  <2> QED
    BY <2>1, <2>2
<1>4. OfferInHand'
  <2>1. tick'.at \in {"idle", "select"}
    BY IdleTyped DEF Ends, TickTyped
  <2> QED
    BY <2>1 DEF OfferInHand
<1> QED
  BY <1>1, <1>2, <1>3, <1>4

\* One candidate is taken from the others.
LEMMA SelectCandidateKeeps ==
    ASSUME PosterInv, SelectCandidate
    PROVE  PosterInv'
<1> USE PosterAssumption DEF PosterInv, SelectCandidate, walletVars, journalVars, coinVars, passVars, chainVars
<1>1. Typing'
  BY DEF Typing, Terminal, Statuses, Known
<1>2. TickTyped'
  BY DEF TickTyped, Stages
<1>3. Unbuilt'
  BY DEF Unbuilt, Typing
<1>4. Kept'
  BY DEF Kept, Typing
<1>5. Truthful'
  BY DEF Truthful, Typing, Terminal
<1>6. AsksRecorded'
  BY DEF AsksRecorded, Typing, Recorded, Known, Terminal, NoAnswer
<1>7. OnlyLastHeld'
  BY DEF OnlyLastHeld, Held, Recorded, Typing
<1>8. OfferInHand'
  BY DEF OfferInHand, Recorded, Typing, TickTyped
<1>9. HeldOffersAreExact'
  BY DEF HeldOffersAreExact, Typing
<1>10. CoinInHand'
  <2>1. PICK c \in tick.cands : 
            \/ tick' = [tick EXCEPT !.at = "build", !.coin = c, !.cands = @ \ {c}]
            \/ tick' = [tick EXCEPT !.cands = @ \ {c}]
    OBVIOUS
  <2>2. \A d \in Coins : Clear(d) => Clear(d)'
    BY DEF Clear, Held, Recorded
  <2>3. CASE tick' = [tick EXCEPT !.at = "build", !.coin = c, !.cands = @ \ {c}]
    <3>1. tick'.at = "build" /\ tick'.coin = c /\ tick'.cands = tick.cands \ {c}
      BY <2>3 DEF TickTyped
    <3> QED
      BY <3>1, <2>2 DEF CoinInHand, TickTyped
  <2>4. CASE tick' = [tick EXCEPT !.cands = @ \ {c}]
    <3>1. tick'.at = "select" /\ tick'.coin = tick.coin /\ tick'.cands = tick.cands \ {c}
      BY <2>4 DEF TickTyped
    <3> QED
      BY <3>1, <2>2 DEF CoinInHand, TickTyped
  <2> QED
    BY <2>1, <2>3, <2>4
<1> QED
  BY <1>1, <1>2, <1>3, <1>4, <1>5, <1>6, <1>7, <1>8, <1>9, <1>10

\* A coin the journal had not carries no offer.
LEMMA SelectInventoryKeeps ==
    ASSUME PosterInv, SelectInventory
    PROVE  PosterInv'
<1> USE PosterAssumption DEF PosterInv, SelectInventory, walletVars, journalVars, coinVars, passVars, chainVars
<1>1. Unbuilt' /\ Kept'
  BY ZenonT(60) DEF Unbuilt, Typing, Idle, Ends, Free, Kept
<1>2. Truthful' /\ AsksRecorded'
  BY DEF Truthful, Typing, Terminal, Idle, Ends, Free, AsksRecorded, Recorded, Known,
     NoAnswer
<1>3. OnlyLastHeld'
  BY DEF OnlyLastHeld, Held, Recorded, Typing, Idle, Ends, Free
<1>4. Typing'
  <2>1. CASE Ends /\ UNCHANGED coinVars
    BY <2>1, IdleTyped DEF Ends, Typing
  <2>2. ASSUME NEW c \in Free \intersect Matching, state[c] = "none",
               state' = [state EXCEPT ![c] = "available"],
               tick' = [tick EXCEPT !.at = "build", !.coin = c]
        PROVE  Typing'
    <3>1. c \in Coins
      BY DEF Free
    <3> QED
      BY <2>2, <3>1 DEF Typing
  <2> QED
    BY <2>1, <2>2
<1>5. TickTyped'
  <2>1. CASE Ends /\ UNCHANGED coinVars
    BY <2>1, IdleTyped DEF Ends, TickTyped
  <2>2. ASSUME NEW c \in Free \intersect Matching, state[c] = "none",
               state' = [state EXCEPT ![c] = "available"],
               tick' = [tick EXCEPT !.at = "build", !.coin = c]
        PROVE  TickTyped'
    <3>1. c \in Coins
      BY DEF Free
    <3> QED
      BY <2>2, <3>1 DEF TickTyped, Stages
  <2> QED
    BY <2>1, <2>2
<1>6. CoinInHand'
  <2>1. CASE Ends /\ UNCHANGED coinVars
    BY <2>1, IdleTyped DEF Ends, CoinInHand
  <2>2. ASSUME NEW c \in Free \intersect Matching, state[c] = "none",
               state' = [state EXCEPT ![c] = "available"],
               tick' = [tick EXCEPT !.at = "build", !.coin = c]
        PROVE  CoinInHand'
    <3>1. c \in Coins
      BY DEF Free
    <3>2. tick'.at = "build" /\ tick'.coin = c /\ tick'.cands = {}
      BY <2>2 DEF TickTyped
    <3>3. Clear(c)'
      BY <2>2, <3>1 DEF Clear, Kept
    <3>4. state'[c] # "none"
      BY <2>2, <3>1 DEF Typing
    <3> QED
      BY <3>1, <3>2, <3>3, <3>4 DEF CoinInHand
  <2> QED
    BY <2>1, <2>2
<1>7. OfferInHand'
  <2>1. tick'.at \in {"idle", "build"}
    BY IdleTyped DEF Ends, TickTyped
  <2> QED
    BY <2>1 DEF OfferInHand
<1>8. HeldOffersAreExact'
  <2>1. \A c \in Coins : state[c] # "none" => state'[c] # "none"
    BY DEF Typing, coinVars
  <2> QED
    BY <2>1 DEF HeldOffersAreExact
<1> QED
  BY <1>1, <1>2, <1>3, <1>4, <1>5, <1>6, <1>7, <1>8

\* A build is new to the kernel and the journal, and exact where it goes on to be posted.
LEMMA BuildKeeps ==
    ASSUME PosterInv, Build
    PROVE  PosterInv'
<1> USE PosterAssumption DEF PosterInv, walletVars, journalVars, coinVars, passVars, chainVars
<1>a. UNCHANGED <<chainVars, journalVars, passVars>>
  BY DEF Build
<1>1. Truthful' /\ AsksRecorded' /\ OnlyLastHeld'
  BY DEF Truthful, Typing, Terminal, Build, Idle, Ends, ExactCoin, Free, TickTyped,
     CoinInHand, OfferInHand, Unbuilt, AsksRecorded, Recorded, Known, NoAnswer,
     OnlyLastHeld, Held
<1>2. Typing'
  <2>1. CASE Ends /\ UNCHANGED walletVars
    BY <1>a, <2>1, IdleTyped DEF Ends, Typing
  <2>2. ASSUME NEW ins \in (SUBSET Free) \ {{}}, built < MaxOffers, tick.coin \in Free,
               built' = built + 1, inputs' = [inputs EXCEPT ![built + 1] = ins],
               \/ Ends
               \/ tick' = [tick EXCEPT !.tries = 0,
                      !.at = IF ExactCoin(ins, tick.coin) THEN "post" ELSE "revert"]
        PROVE  Typing'
    <3>1. ins \subseteq Coins /\ built + 1 \in Ids
      BY <2>2 DEF Typing, Free
    <3>2. inputs' \in [Ids -> SUBSET Coins] /\ built' \in 0..MaxOffers
      BY <2>2, <3>1 DEF Typing
    <3> QED
      BY <1>a, <2>2, <3>2 DEF Typing
  <2> QED
    BY <2>1, <2>2 DEF Build
<1>3. TickTyped'
  <2>1. CASE Ends /\ UNCHANGED walletVars
    BY <1>a, <2>1, IdleTyped DEF Ends, TickTyped
  <2>2. ASSUME NEW ins \in (SUBSET Free) \ {{}}, built < MaxOffers, tick.coin \in Free,
               built' = built + 1, inputs' = [inputs EXCEPT ![built + 1] = ins],
               \/ Ends
               \/ tick' = [tick EXCEPT !.tries = 0,
                      !.at = IF ExactCoin(ins, tick.coin) THEN "post" ELSE "revert"]
        PROVE  TickTyped'
    <3>1. CASE Ends
      BY <1>a, <3>1, <2>2, IdleTyped DEF Ends, TickTyped
    <3>2. CASE tick' = [tick EXCEPT !.tries = 0,
                   !.at = IF ExactCoin(ins, tick.coin) THEN "post" ELSE "revert"]
      BY <3>2 DEF TickTyped, Stages
    <3> QED
      BY <2>2, <3>1, <3>2
  <2> QED
    BY <2>1, <2>2 DEF Build
<1>4. Unbuilt'
  <2>1. built' = built \/ built' = built + 1
    BY DEF Build
  <2>2. UNCHANGED <<kernel, status>> /\ built \in 0..MaxOffers
    BY DEF Build, Typing
  <2>3. \A o \in Ids : o > built' => o > built
    BY <2>1, <2>2
  <2> QED
    BY <2>2, <2>3 DEF Unbuilt
<1>5. Kept'
  BY DEF Build, Kept
<1>6. CoinInHand'
  <2>1. tick' = Idle \/ (/\ tick'.at \in {"post", "revert"} /\ tick'.coin = tick.coin
                         /\ tick'.cands = tick.cands)
    BY DEF Build, Ends, TickTyped
  <2>2. \A c \in Coins : Clear(c) => Clear(c)'
    BY DEF Build, Clear, Held, Recorded
  <2>3. CASE tick' = Idle
    BY <2>3, IdleTyped DEF CoinInHand
  <2>4. CASE /\ tick'.at \in {"post", "revert"} /\ tick'.coin = tick.coin
             /\ tick'.cands = tick.cands
    BY <2>2, <2>4 DEF Build, CoinInHand, TickTyped
  <2> QED
    BY <2>1, <2>3, <2>4
<1>7. OfferInHand'
  <2>1. CASE Ends /\ UNCHANGED walletVars
    BY <1>a, <2>1, IdleTyped DEF Ends, OfferInHand
  <2>2. ASSUME NEW ins \in (SUBSET Free) \ {{}}, built < MaxOffers, tick.coin \in Free,
               built' = built + 1, inputs' = [inputs EXCEPT ![built + 1] = ins],
               \/ Ends
               \/ tick' = [tick EXCEPT !.tries = 0,
                      !.at = IF ExactCoin(ins, tick.coin) THEN "post" ELSE "revert"]
        PROVE  OfferInHand'
    <3>1. CASE Ends
      BY <1>a, <3>1, <2>2, IdleTyped DEF Ends, OfferInHand
    <3>2. CASE tick' = [tick EXCEPT !.tries = 0,
                   !.at = IF ExactCoin(ins, tick.coin) THEN "post" ELSE "revert"]
      <4>1. tick'.at \in {"post", "revert"} /\ tick'.coin = tick.coin
        BY <3>2 DEF TickTyped
      <4>2. tick'.at = "post" => ins = {tick.coin}
        BY <3>2 DEF TickTyped, ExactCoin
      <4>3. built' \in Ids /\ inputs'[built'] = ins /\ status'[built'] = "none"
        BY <1>a, <2>2 DEF Typing, Unbuilt
      <4> QED
        BY <4>1, <4>2, <4>3 DEF OfferInHand
    <3> QED
      BY <2>2, <3>1, <3>2
  <2> QED
    BY <2>1, <2>2 DEF Build
<1>8. HeldOffersAreExact'
  <2>1. inputs' = inputs \/ \E ins : inputs' = [inputs EXCEPT ![built + 1] = ins]
    BY DEF Build
  <2>2. \A o \in Ids : kernel[o] # "none" => inputs'[o] = inputs[o]
    BY <2>1 DEF Unbuilt, Typing
  <2> QED
    BY <1>a, <2>2 DEF HeldOffersAreExact
<1> QED
  BY <1>1, <1>2, <1>3, <1>4, <1>5, <1>6, <1>7, <1>8

\* A revert touches the reservations alone.
LEMMA RevertKeeps ==
    ASSUME PosterInv, Revert
    PROVE  PosterInv'
<1> USE PosterAssumption DEF PosterInv, Revert, walletVars, journalVars, coinVars, passVars, chainVars
<1>1. Typing' /\ TickTyped' /\ Unbuilt' /\ Kept' /\ Truthful' /\ AsksRecorded' /\
     OnlyLastHeld' /\ CoinInHand' /\ OfferInHand' /\ HeldOffersAreExact'
  BY DEF Typing, Terminal, Statuses, Known, Idle, Ends, TickTyped, Stages, Unbuilt, Kept,
     Truthful, AsksRecorded, Recorded, NoAnswer, OnlyLastHeld, Held, CoinInHand, Clear,
     OfferInHand, HeldOffersAreExact
<1> QED
  BY <1>1

\* The offer recorded on the coin in hand is the only one that may settle.
LEMMA AcceptedKeeps ==
    ASSUME PosterInv, Accepted
    PROVE  PosterInv'
<1> USE PosterAssumption DEF PosterInv, Accepted, walletVars, journalVars, coinVars, passVars, chainVars
<1>1. Typing' /\ TickTyped'
  BY DEF Typing, Terminal, Statuses, Known, Takes, Record, CoinInHand, OfferInHand,
     TickTyped, Unbuilt, Kept, Clear, Stages
<1>2. Unbuilt' /\ Kept'
  BY DEF Unbuilt, Typing, Takes, Record, CoinInHand, OfferInHand, TickTyped, Kept, Clear
<1>3. Truthful' /\ AsksRecorded'
  BY DEF Truthful, Typing, Terminal, Takes, Record, CoinInHand, OfferInHand, TickTyped,
     Unbuilt, Kept, Clear, AsksRecorded, Recorded, Known, NoAnswer
<1>4. OnlyLastHeld' /\ CoinInHand'
  BY DEF OnlyLastHeld, Held, Recorded, Typing, Takes, Record, CoinInHand, OfferInHand,
     TickTyped, Unbuilt, Kept, Clear
<1>5. OfferInHand'
  BY DEF OfferInHand, Recorded, Typing, TickTyped, Takes, Record, CoinInHand, Unbuilt,
     Kept, Clear
<1>6. HeldOffersAreExact'
  <2>1. built \in Ids /\ inputs[built] = {tick.coin}
    BY DEF OfferInHand
  <2>2. tick.coin \in Coins /\ state[tick.coin] # "none"
    BY DEF CoinInHand
  <2>3. \A o \in Ids : kernel'[o] # "none" => o = built \/ kernel[o] # "none"
    BY DEF Takes, Typing
  <2>4. \A c \in Coins : state[c] # "none" => state'[c] # "none"
    BY <2>2 DEF Record, Typing
  <2> QED
    BY <2>1, <2>2, <2>3, <2>4 DEF HeldOffersAreExact
<1> QED
  BY <1>1, <1>2, <1>3, <1>4, <1>5, <1>6

\* An offer held unheard is exact all the same.
LEMMA NotAcceptedKeeps ==
    ASSUME PosterInv, NotAccepted
    PROVE  PosterInv'
<1> USE PosterAssumption DEF PosterInv, NotAccepted, walletVars, journalVars, coinVars, passVars, chainVars
<1>1. Unbuilt' /\ Kept' /\ AsksRecorded' /\ OnlyLastHeld' /\ CoinInHand' /\ OfferInHand'
  BY SMTT(30) DEF Unbuilt, Typing, Takes, TriesAgain, OfferInHand, Truthful, TickTyped, CoinInHand,
     Terminal, Kept, AsksRecorded, Recorded, Known, NoAnswer, OnlyLastHeld, Held, Clear
<1>2. Typing'
  <2>1. built \in Ids
    BY DEF OfferInHand
  <2> QED
    BY <2>1 DEF Takes, Typing
<1>3. TickTyped'
  <2>1. tick.tries + 1 \in Nat
    BY DEF TickTyped
  <2> QED
    BY <2>1 DEF TriesAgain, TickTyped, Stages
<1>4. Truthful'
  <2>1. \A o \in Ids : kernel[o] \in Terminal => kernel'[o] \in Terminal
    BY DEF Takes, Typing, Terminal
  <2> QED
    BY <2>1 DEF Truthful
<1>5. HeldOffersAreExact'
  <2>1. built \in Ids /\ inputs[built] = {tick.coin}
    BY DEF OfferInHand
  <2>2. tick.coin \in Coins /\ state[tick.coin] # "none"
    BY DEF CoinInHand
  <2>3. \A o \in Ids : kernel'[o] # "none" => o = built \/ kernel[o] # "none"
    BY DEF Takes, Typing
  <2>4. \A c \in Coins : state[c] # "none" => state'[c] # "none"
    BY <2>2 DEF journalVars, coinVars
  <2> QED
    BY <2>1, <2>2, <2>3, <2>4 DEF HeldOffersAreExact
<1> QED
  BY <1>1, <1>2, <1>3, <1>4, <1>5

\* A refused post does not claim its coin, whether the kernel holds it or not.
LEMMA RefusedKeeps ==
    ASSUME PosterInv, Refused
    PROVE  PosterInv'
<1> USE PosterAssumption DEF PosterInv, Refused, walletVars, journalVars, coinVars, passVars, chainVars
<1>1. Typing' /\ TickTyped'
  BY DEF Typing, Terminal, Statuses, Known, Takes, Record, OfferInHand, CoinInHand, TickTyped,
     Kept, Unbuilt, Clear, Stages
<1>2. Unbuilt' /\ Kept'
  BY DEF Unbuilt, Typing, Takes, Record, OfferInHand, CoinInHand, TickTyped, Kept, Clear
<1>3. Truthful' /\ AsksRecorded'
  BY DEF Truthful, Typing, Terminal, Takes, Record, OfferInHand, CoinInHand, TickTyped, Kept,
     Unbuilt, Clear, AsksRecorded, Recorded, Known, NoAnswer
<1>4. OnlyLastHeld' /\ CoinInHand'
  BY DEF OnlyLastHeld, Held, Recorded, Typing, Takes, Record, OfferInHand, CoinInHand, TickTyped,
     Kept, Unbuilt, Clear
<1>5. OfferInHand'
  BY DEF OfferInHand, Recorded, Typing, TickTyped, Takes, Record, CoinInHand, Kept, Unbuilt, Clear
<1>6. HeldOffersAreExact'
  <2>1. built \in Ids /\ inputs[built] = {tick.coin}
    BY DEF OfferInHand
  <2>2. tick.coin \in Coins /\ state[tick.coin] # "none"
    BY DEF CoinInHand
  <2>3. \A o \in Ids : kernel'[o] # "none" => o = built \/ kernel[o] # "none"
    BY DEF Takes, Typing
  <2>4. state' = state
    BY DEF Record
  <2> QED
    BY <2>1, <2>2, <2>3, <2>4 DEF HeldOffersAreExact
<1> QED
  BY <1>1, <1>2, <1>3, <1>4, <1>5, <1>6

\* The poll writes what the kernel says, or that it does not know.
LEMMA PollKeeps ==
    ASSUME PosterInv, Poll
    PROVE  PosterInv'
<1> USE PosterAssumption DEF PosterInv, Poll, walletVars, journalVars, coinVars, passVars, chainVars
<1>1. Typing'
  BY DEF Typing, Terminal, Statuses, Known, Idle, Ends, OfferInHand, TickTyped, Recorded
<1>2. Unbuilt'
  BY DEF Unbuilt, Typing, Idle, Ends, OfferInHand, TickTyped, Terminal, Recorded
<1>3. Kept'
  BY DEF Kept, Typing, Idle, Ends, OfferInHand, TickTyped, Terminal, Recorded
<1>4. Truthful'
  BY DEF Truthful, Typing, Terminal, Idle, Ends, OfferInHand, TickTyped, Recorded
<1>5. AsksRecorded'
  BY SMTT(30) DEF AsksRecorded, Typing, Recorded, Known, Terminal, NoAnswer, Idle, Ends,
     OfferInHand, TickTyped
<1>6. OnlyLastHeld'
  BY DEF OnlyLastHeld, Held, Recorded, Typing, Idle, Ends, OfferInHand, TickTyped,
     Terminal
<1>7. HeldOffersAreExact'
  BY DEF HeldOffersAreExact, Typing, Idle, Ends, OfferInHand, TickTyped, Terminal,
     Recorded
<1>8. TickTyped'
  <2>1. CASE Ends
    BY <2>1, IdleTyped DEF Ends, TickTyped
  <2>2. CASE tick' = [tick EXCEPT !.at = "select", !.posted = @ + 1]
    <3>1. tick.posted + 1 \in Nat
      BY DEF TickTyped
    <3> QED
      BY <2>2, <3>1 DEF TickTyped, Stages
  <2> QED
    BY <2>1, <2>2
<1>9. CoinInHand'
  <2>1. built \in Ids /\ Recorded(built)
    BY DEF OfferInHand
  <2>2. \A o \in Ids : Recorded(o)' => Recorded(o)
    BY <2>1 DEF Recorded, Typing
  <2>3. \A c \in Coins : Clear(c) => Clear(c)'
    BY <2>2 DEF Clear, Held
  <2>4. tick' = Idle \/ (tick'.at = "select" /\ tick'.coin = tick.coin /\ tick'.cands = tick.cands)
    BY DEF Ends, TickTyped
  <2> QED
    BY <2>3, <2>4, IdleTyped DEF CoinInHand, TickTyped
<1>10. OfferInHand'
  <2>1. tick'.at \in {"select", "idle"}
    BY IdleTyped DEF Ends, TickTyped
  <2> QED
    BY <2>1 DEF OfferInHand
<1> QED
  BY <1>1, <1>2, <1>3, <1>4, <1>5, <1>6, <1>7, <1>8, <1>9, <1>10

\* What a restart keeps is the journal.
LEMMA CrashKeeps ==
    ASSUME PosterInv, Crash
    PROVE  PosterInv'
<1> USE PosterAssumption DEF PosterInv, Crash, walletVars, journalVars, coinVars, passVars, chainVars
<1>1. TickTyped' /\ Unbuilt' /\ Kept' /\ AsksRecorded'
  BY SMTT(30) DEF TickTyped, Stages, Restarts, OpenIn, NonTerminal, Idle, AsksRecorded, Truthful,
     Unbuilt, Typing, Kept, Recorded, Known, Terminal, NoAnswer
<1>2. OnlyLastHeld' /\ CoinInHand' /\ OfferInHand' /\ HeldOffersAreExact'
  BY DEF OnlyLastHeld, Held, Recorded, Typing, Restarts, OpenIn, NonTerminal, Idle,
     AsksRecorded, Truthful, CoinInHand, Clear, TickTyped, OfferInHand, HeldOffersAreExact
<1>3. Typing'
  <2>1. OpenIn(status) \subseteq [id : Ids, st : Statuses]
    BY DEF OpenIn, NonTerminal, Statuses, Known
  <2>2. left' \in [Passes -> SUBSET [id : Ids, st : Statuses]]
    BY <2>1 DEF Restarts
  <2>3. told' \in [Passes -> [id : 0..MaxOffers, was : Statuses, is : Statuses]]
    BY DEF Restarts, NoAnswer, Statuses
  <2> QED
    BY <2>2, <2>3 DEF Restarts, Typing
<1>4. Truthful'
  <2>1. \A p \in Passes : told'[p].is = "none"
    BY DEF Restarts, NoAnswer
  <2> QED
    BY <2>1 DEF Restarts, Truthful, Terminal
<1> QED
  BY <1>1, <1>2, <1>3, <1>4

\* Half of the record of a settled offer is as true as all of it.
LEMMA CrashBetweenWritesKeeps ==
    ASSUME PosterInv, CrashBetweenWrites
    PROVE  PosterInv'
<1> USE PosterAssumption DEF PosterInv, walletVars, journalVars, coinVars, passVars, chainVars
<1>a. PICK p \in Passes :
          /\ told[p].is = "consumed"
          /\ Restarts([status EXCEPT ![told[p].id] = "consumed"])
  BY DEF CrashBetweenWrites
<1>b. told[p].id \in Ids /\ Recorded(told[p].id)
  BY <1>a DEF AsksRecorded, NoAnswer
<1>c. status' = [status EXCEPT ![told[p].id] = "consumed"]
  BY <1>a DEF Restarts
<1>d. \A o \in Ids : Recorded(o)' <=> Recorded(o)
  BY <1>b, <1>c DEF Recorded, Typing
<1>e. UNCHANGED <<kernel, lapsed, built, inputs, state, holder>>
  BY <1>a DEF Restarts
<1>1. Typing'
  <2>6. status' \in [Ids -> Statuses]
    BY <1>b, <1>c DEF Typing, Statuses, Known, Terminal
  <2>7. left' \in [Passes -> SUBSET [id : Ids, st : Statuses]]
    BY <1>a DEF Restarts, OpenIn, NonTerminal, Statuses, Known
  <2>8. told' \in [Passes -> [id : 0..MaxOffers, was : Statuses, is : Statuses]]
    BY <1>a DEF Restarts, NoAnswer, Statuses
  <2> QED
    BY <1>e, <2>6, <2>7, <2>8 DEF Typing
<1>2. TickTyped'
  BY <1>a DEF Restarts, TickTyped, Idle, Stages
<1>3. Unbuilt'
  BY <1>b, <1>c, <1>e DEF Unbuilt, Typing, Recorded
<1>4. Kept'
  BY <1>b, <1>c, <1>e DEF Kept, Typing, Recorded
<1>5. Truthful'
  <2>6. kernel[told[p].id] \in Terminal
    BY <1>a DEF Truthful, Terminal
  <2>7. \A q \in Passes : told'[q].is = "none"
    BY <1>a DEF Restarts, NoAnswer
  <2> QED
    BY <1>b, <1>c, <1>e, <2>6, <2>7 DEF Truthful, Typing, Terminal
<1>6. AsksRecorded'
  <2>6. \A q \in Passes : told'[q] = NoAnswer
    BY <1>a DEF Restarts
  <2>7. \A q \in Passes : \A e \in left'[q] : e.id \in Ids /\ status'[e.id] \in NonTerminal
    BY <1>a, <1>c DEF Restarts, OpenIn
  <2> QED
    BY <2>6, <2>7 DEF AsksRecorded, Recorded, NonTerminal
<1>7. OnlyLastHeld'
  BY <1>d, <1>e DEF OnlyLastHeld, Held
<1>8. CoinInHand'
  <2>2. tick'.at = "boot" /\ tick'.cands = {}
    BY <1>a DEF Restarts, Idle
  <2> QED
    BY <2>2 DEF CoinInHand
<1>9. OfferInHand'
  <2>2. tick'.at = "boot" /\ tick'.cands = {}
    BY <1>a DEF Restarts, Idle
  <2> QED
    BY <2>2 DEF OfferInHand
<1>10. HeldOffersAreExact'
  BY <1>e DEF HeldOffersAreExact
<1> QED
  BY <1>1, <1>2, <1>3, <1>4, <1>5, <1>6, <1>7, <1>8, <1>9, <1>10

\* A status that ends an offer is the kernel's word, a coin holds one offer that may
\* settle, the tick has in hand coins that hold none: every step keeps it.
THEOREM PosterInvariance == Spec => []PosterInv
<1>1. PosterInv /\ [Next]_vars => PosterInv'
  <2> SUFFICES ASSUME PosterInv, [Next]_vars PROVE PosterInv'
    OBVIOUS
  <2>1. CASE Outside
    BY <2>1, IndexKeeps, AdjudicateKeeps, LapseKeeps, Untouched, PosterAssumption
       DEF Outside, Settle, SpendElsewhere, walletVars, journalVars, coinVars, passVars
  <2>2. CASE \E p \in Passes : Reconcile(p)
    BY <2>2, AskKeeps, AskFailsKeeps, ApplyKeeps DEF Reconcile
  <2>3. CASE TickStep
    BY <2>3, TickStartsKeeps, ReconciledKeeps, SelectCandidateKeeps, SelectInventoryKeeps,
       BuildKeeps, RevertKeeps, AcceptedKeeps, NotAcceptedKeeps, RefusedKeeps, PollKeeps
       DEF TickStep
  <2>4. CASE UNCHANGED vars
    BY <2>4, Untouched DEF vars, chainVars, walletVars, journalVars, coinVars, passVars
  <2> QED
    BY <2>1, <2>2, <2>3, <2>4, TimerStartsKeeps, CrashKeeps, CrashBetweenWritesKeeps
       DEF Next, Passes
<1> QED
  BY PosterInit, <1>1, PTL DEF Spec

\* The kernel holds no offer but of one journaled coin (offerCoin's assertion,
\* recordInventory before the build).
THEOREM HeldOffersExact == Spec => []HeldOffersAreExact
<1>1. PosterInv => HeldOffersAreExact
  BY DEF PosterInv
<1> QED
  BY <1>1, PosterInvariance, PTL

\* Of the offers recorded for a coin one at most may still settle (candidates).
THEOREM OneOfferEach == Spec => []OneOfferPerCoin
<1>1. PosterInv => OneOfferPerCoin
  BY PosterAssumption DEF PosterInv, OneOfferPerCoin, OnlyLastHeld, Kept, Recorded
<1> QED
  BY <1>1, PosterInvariance, PTL
=============================================================================

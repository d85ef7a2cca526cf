------------------------------- MODULE Ladder -------------------------------
(***************************************************************************)
(* The prices of the solver: deriveLadder turns a book of indivisible      *)
(* maker offers into one staircase per directed pair of tokens, the relay  *)
(* interpolates quotes from the staircases, and the executor resolves the  *)
(* maker offers of a job from the same derivation (resolveSwapJobRoute).   *)
(*                                                                         *)
(* Tokens and offer hashes are numbers, so that their order is the order   *)
(* of numbers. A derivation goes through the book (Scan), then through the *)
(* candidate pairs in order (Examine). Its search of a pair is one step:   *)
(* what bounds it is a choice, since a cap on subsets or work and the      *)
(* callback that cancels can end it at any point (Stops, PairCaps).        *)
(*                                                                         *)
(* Left out: malformed, expiring and claimed offers, which are not in a    *)
(* book here; the executor's checks that the book it reads is the one it   *)
(* derived from (jobs and book are SwapJobs and BookSync); diagnostics.    *)
(***************************************************************************)
EXTENDS Integers, FiniteSets, FiniteSetsExt, SequencesExt

CONSTANTS
    Tokens,         \* numbers
    Books,          \* books: functions from hashes to terms and coins
    MaxAmount,      \* MAX_SETTLEMENT_AMOUNT
    MaxMakers,      \* maxMakersPerCombination
    MaxWirePoints,  \* maxWirePointsPerPair
    MaxPairs,       \* pairs of a push
    Supported,      \* supportedPairs
    MinOutput,      \* minJobOutput: a function from tokens
    Stops,          \* reasons that end a derivation
    PairCaps,       \* reasons that end the search of one pair
    Interrupted     \* BOUND: the books whose derivation is cut short

ASSUME LadderAssumption ==
    /\ Tokens \subseteq Nat
    /\ MaxAmount \in Nat \ {0}
    /\ MaxMakers \in Nat \ {0}
    /\ {MaxWirePoints, MaxPairs} \subseteq Nat
    /\ DOMAIN MinOutput \subseteq Tokens

VARIABLES
    book,       \* what the derivation is given
    retained,   \* the offers that take part
    universe,   \* for a wanted token, the offers that can serve it
    todo,       \* the candidate pairs still to be examined
    ladder,     \* levels and provenance of the published pairs
    withheld,   \* why a pair was not published
    stop,       \* why the derivation ended
    phase       \* scan, pairs or done

vars == <<book, retained, universe, todo, ladder, withheld, stop, phase>>

Hashes == DOMAIN book
\* Bags of legs, by token.
Gives(S, t) == MapThenSumSet(LAMBDA o : book[o].amountOut,
                             {o \in S : book[o].tokenOut = t})
Wants(S, t) == MapThenSumSet(LAMBDA o : book[o].amountIn,
                             {o \in S : book[o].tokenIn = t})
Net(S, t) == Gives(S, t) - Wants(S, t)
WithinDelta(S) == \A t \in Tokens : Net(S, t) \in -MaxAmount..MaxAmount

-----------------------------------------------------------------------------
(* Which offers take part.                                                 *)

toCrossable(o) ==
    /\ {book[o].amountIn, book[o].amountOut} \subseteq 1..MaxAmount
    /\ book[o].tokenIn # book[o].tokenOut

KeepAll(S) == S
\* The lowest hash owns each coin; an offer left out claims none.
KeepOwners(S) ==
    LET keep(kept, o) == IF \E k \in kept : book[k].coins \cap book[o].coins # {}
                         THEN kept ELSE kept \cup {o}
    IN  FoldLeft(keep, {}, SetToSortSeq(S, <))

-----------------------------------------------------------------------------
(* The discovery graph: tokens, with an edge per offer.                    *)

Edges(S) == {<<book[o].tokenIn, book[o].tokenOut>> : o \in S}
TokensOf(E) == UNION {{e[1], e[2]} : e \in E}

\* DisjointTokenSets: the weak component of a token.
Component(E, t) ==
    LET near[n \in Nat] ==
            IF n = 0 THEN {t}
            ELSE LET N == near[n - 1]
                 IN  N \cup UNION {{e[1], e[2]} : e \in {d \in E : d[1] \in N \/ d[2] \in N}}
    IN  near[Cardinality(Tokens)]

\* Kahn's removal: what is left once no token is without an incoming edge.
Cyclic(E) ==
    LET left[n \in Nat] ==
            IF n = 0 THEN TokensOf(E)
            ELSE LET N == left[n - 1]
                 IN  {e[2] : e \in {d \in E : d[1] \in N /\ d[2] \in N}}
    IN  left[Cardinality(Tokens)]

UniverseOfComponent(S, t) ==
    LET own == Component(Edges(S), t)
    IN  {o \in S : book[o].tokenIn \in own}
\* universeFor: the offers of its own component and of every cyclic one.
Universe(S, t) ==
    LET E == Edges(S)
        included == Component(E, t) \cup UNION {Component(E, u) : u \in Cyclic(E)}
    IN  {o \in S : book[o].tokenIn \in included}

-----------------------------------------------------------------------------
(* Merging: the transaction of several makers is built one by one, and the *)
(* deltas of every prefix must fit the ledger.                             *)

SortedIsSafe(S) == \A o \in S : WithinDelta({p \in S : p <= o})

\* findSafeWholeOfferMergeOrder: the sorted order, else the first that a
\* search over sets of merged makers completes; no order or one.
SafeMergeOrder(S) ==
    LET rest[P \in SUBSET S] ==
            IF P = S THEN {<<>>}
            ELSE LET next == {o \in S \ P : /\ WithinDelta(P \cup {o})
                                            /\ rest[P \cup {o}] # {}}
                 IN  IF next = {} THEN {}
                     ELSE {<<Min(next)>> \o tail : tail \in rest[P \cup {Min(next)}]}
    IN  IF SortedIsSafe(S) THEN {SetToSortSeq(S, <)} ELSE rest[{}]

-----------------------------------------------------------------------------
(* The search of a pair.                                                   *)

Input(S, p) == -Net(S, p[1])
Output(S, p) == Net(S, p[2])

\* evaluateWholeOfferPair: takes the one token, pays the other, owes nothing.
Economic(S, p) ==
    /\ Input(S, p) > 0 /\ Output(S, p) > 0
    /\ \A t \in Tokens \ {p[1]} : Net(S, t) >= 0

Direct(U, p) == \A o \in U : <<book[o].tokenIn, book[o].tokenOut>> = p

\* enumeratePair: every set of makers that some order can merge. Offers of
\* one direct pair merge in any order.
Combinations(U, p) ==
    {S \in SUBSET U : /\ S # {} /\ Cardinality(S) <= MaxMakers
                      /\ Economic(S, p) /\ WithinDelta(S)
                      /\ Direct(U, p) \/ SafeMergeOrder(S) # {}}

\* betterSelectedWitness: more output, then fewer makers, then lower hashes.
BetterWitness(S, T, p) ==
    \/ Output(S, p) > Output(T, p)
    \/ /\ Output(S, p) = Output(T, p)
       /\ \/ Cardinality(S) < Cardinality(T)
          \/ /\ Cardinality(S) = Cardinality(T)
             /\ Min(S \ T) < Min(T \ S)

\* The best witness of each exact input, then bestOutputFrontier: those that
\* improve on every lower input, and pay what a job must at least.
Frontier(U, p) ==
    LET found == Combinations(U, p)
        exact == {S \in found : \A T \in found \ {S} :
                     Input(T, p) = Input(S, p) => BetterWitness(S, T, p)}
        best == {S \in exact : \A T \in exact :
                     Input(T, p) < Input(S, p) => Output(T, p) < Output(S, p)}
        entry(S) == [input |-> Input(S, p), output |-> Output(S, p), offers |-> S]
    IN  SetToSortSeq({entry(S) : S \in {T \in best : Output(T, p) >= MinOutput[p[2]]}},
                     LAMBDA a, b : a.input < b.input)

-----------------------------------------------------------------------------
(* The staircase.                                                          *)

\* Where the last plateau of the first k thresholds ends.
Terminal(f, k) ==
    Min({10 * f[k].input, MaxAmount}
          \cup (IF k < Len(f) THEN {f[k + 1].input - 1} ELSE {}))

\* encodePrefix: a point per threshold and one where its plateau ends.
encodePrefix(f, k) ==
    LET point(x, n) == [input |-> x, output |-> f[n].output]
        end(n) == IF n = k THEN Terminal(f, k) ELSE f[n + 1].input - 1
        stair(n) == IF n = k \/ end(n) > f[n].input
                    THEN <<point(f[n].input, n), point(end(n), n)>>
                    ELSE <<point(f[n].input, n)>>
    IN  FlattenSeq([n \in 1..k |-> stair(n)])

Encodable(f, k) ==
    /\ Len(encodePrefix(f, k)) <= MaxWirePoints
    /\ Terminal(f, k) > f[k].input

\* longestEncodableFrontier: none or one length.
LongestEncodable(f) ==
    LET fit == {k \in 1..Len(f) : k < MaxWirePoints /\ Encodable(f, k)}
    IN  IF fit = {} THEN {} ELSE {Max(fit)}

\* rejectLevels, by which rejectPair refuses a staircase.
Admissible(levels) ==
    /\ levels # <<>>
    /\ \A n \in 1..Len(levels) - 1 : /\ levels[n].input < levels[n + 1].input
                                     /\ levels[n].output <= levels[n + 1].output

\* interpolateQuote, by which the relay quotes; none or one amount.
interpolateQuote(levels, x) ==
    LET hi == {n \in 1..Len(levels) - 1 : x <= levels[n + 1].input}
        on(a, b) == a.output + ((b.output - a.output) * (x - a.input)) \div (b.input - a.input)
    IN  IF x \notin levels[1].input..Last(levels).input THEN {}
        ELSE IF hi = {} THEN {Last(levels).output}
        ELSE {on(levels[Min(hi)], levels[Min(hi) + 1])}

-----------------------------------------------------------------------------
(* deriveLadder.                                                           *)

Init ==
    /\ book \in Books
    /\ retained = {} /\ universe = <<>> /\ todo = {}
    /\ ladder = <<>> /\ withheld = <<>>
    /\ stop = "none" /\ phase = "scan"

StopAt(reason) == stop' = reason /\ todo' = {}

\* The first loops and the graph.
Scan ==
    /\ phase = "scan"
    /\ LET kept == KeepOwners({o \in Hashes : toCrossable(o)})
           wanted == {book[o].tokenIn : o \in kept}
           offers == [t \in wanted |-> Universe(kept, t)]
           paid(t) == {book[o].tokenOut : o \in offers[t]} \ {t}
       IN  /\ retained' = kept
           /\ universe' = offers
           /\ todo' = UNION {{t} \X paid(t) : t \in wanted}
    /\ phase' = "pairs"
    /\ UNCHANGED <<book, ladder, withheld, stop>>

ScanStops ==
    /\ phase = "scan" /\ book \in Interrupted
    /\ \E reason \in Stops : StopAt(reason)
    /\ phase' = "done"
    /\ UNCHANGED <<book, retained, universe, ladder, withheld>>

\* The pairs come sorted by the token taken and then by the token paid.
NextPair(p) == p \in todo /\ \A q \in todo : p[1] < q[1] \/ (p[1] = q[1] /\ p[2] <= q[2])

Withhold(p, reason) == withheld' = [q \in DOMAIN withheld \cup {p} |->
                                       IF q = p THEN reason ELSE withheld[q]]
Publish(p, entry) == ladder' = [q \in DOMAIN ladder \cup {p} |->
                                   IF q = p THEN entry ELSE ladder[q]]

\* What is refused before the search.
RefusedBy(p) ==
    IF Cardinality(DOMAIN ladder) >= MaxPairs THEN {"pair-cap"}
    ELSE IF p \notin Supported THEN {"unsupported-pair"}
    ELSE IF p[2] \notin DOMAIN MinOutput THEN {"minimum-output"}
    ELSE {}

Refuse(p) ==
    /\ \E reason \in RefusedBy(p) : Withhold(p, reason)
    /\ UNCHANGED ladder

\* Why a completed search publishes nothing: no reason or one.
Unpublishable(f) ==
    IF f = <<>> THEN {"nothing"}
    ELSE IF LongestEncodable(f) = {} THEN {"not-encodable"}
    ELSE IF \E k \in LongestEncodable(f) : ~Admissible(encodePrefix(f, k)) THEN {"invalid-pair"}
    ELSE {}

Complete(p) ==
    /\ RefusedBy(p) = {}
    /\ LET f == Frontier(universe[p[1]], p)
       IN  \/ /\ \E reason \in Unpublishable(f) : Withhold(p, reason)
              /\ UNCHANGED ladder
           \/ /\ Unpublishable(f) = {}
              /\ \E k \in LongestEncodable(f) :
                    Publish(p, [levels |-> encodePrefix(f, k), combinations |-> SubSeq(f, 1, k)])
              /\ UNCHANGED withheld

\* The search of a pair is given up: the pair publishes nothing.
SearchCapped(p) ==
    /\ RefusedBy(p) = {} /\ book \in Interrupted
    /\ \E reason \in PairCaps : Withhold(p, reason)
    /\ UNCHANGED ladder

Examine ==
    /\ phase = "pairs"
    /\ \E p \in todo : /\ NextPair(p)
                       /\ Refuse(p) \/ Complete(p) \/ SearchCapped(p)
                       /\ \/ todo' = todo \ {p} /\ UNCHANGED stop
                          \/ /\ book \in Interrupted
                             /\ \E reason \in Stops : StopAt(reason)
    /\ UNCHANGED <<book, retained, universe, phase>>

\* A global cap, or the callback, before the pair or within its search.
ExamineStops ==
    /\ phase = "pairs" /\ book \in Interrupted
    /\ \E p \in todo, reason \in Stops : NextPair(p) /\ Withhold(p, reason) /\ StopAt(reason)
    /\ UNCHANGED <<book, retained, universe, ladder, phase>>

\* A derivation that was cancelled publishes nothing at all.
Finish ==
    /\ phase = "pairs" /\ todo = {}
    /\ phase' = "done"
    /\ ladder' = IF stop = "aborted" THEN <<>> ELSE ladder
    /\ UNCHANGED <<book, retained, universe, todo, withheld, stop>>

Next == Scan \/ ScanStops \/ Examine \/ ExamineStops \/ Finish
Spec == Init /\ [][Next]_vars

-----------------------------------------------------------------------------
(* The executor.                                                           *)

\* The complete-offer witness of a size: none or one.
Witness(p, x) ==
    LET below == {n \in DOMAIN ladder[p].combinations : ladder[p].combinations[n].input <= x}
    IN  IF below = {} THEN {} ELSE {ladder[p].combinations[Max(below)]}

\* buildWholeOfferReceipts: what is left of each token.
Receipt(S, p, x, y, t) ==
    Net(S, t) + (IF t = p[1] THEN x ELSE 0) - (IF t = p[2] THEN y ELSE 0)

\* resolveSwapJobRoute, for a derivation that is not cancelled: the witness
\* that backs exactly what is quoted, and the amounts it is resolved for.
Route(p, x) ==
    {w \in Witness(p, x) :
        /\ p \in Supported /\ p[2] \in DOMAIN MinOutput
        /\ Cardinality(w.offers) <= MaxMakers
        /\ Economic(w.offers, p) /\ WithinDelta(w.offers)
        /\ w.input = Input(w.offers, p) /\ w.input <= x
        /\ w.output = Output(w.offers, p)
        /\ interpolateQuote(ladder[p].levels, x) = {w.output}
        /\ SafeMergeOrder(w.offers) # {}}
Demands(w, p, x) ==
    {y \in MinOutput[p[2]]..w.output :
        \A t \in Tokens : Receipt(w.offers, p, x, y, t) <= MaxAmount}

-----------------------------------------------------------------------------
(* Properties.                                                             *)

Done == phase = "done"

\* What a transaction of S can be, said without the search: some order of
\* its makers keeps every prefix within the ledger's deltas.
Mergeable(S) ==
    \E order \in SetToSeqs(S) :
        \A n \in DOMAIN order : WithinDelta({order[m] : m \in 1..n})

(* Whatever size the relay quotes from a pushed staircase, and whatever    *)
(* amount up to the quote a taker demands, the executor resolves the job,  *)
(* and what it resolves can be carried out: no coin is spent twice, the    *)
(* makers merge, and no token is left owing. A cancelled derivation quotes *)
(* nothing, since the executor's own would be cancelled with it.           *)
EveryQuoteHonoured ==
    Done => \A p \in DOMAIN ladder : \A x \in 1..MaxAmount :
        \A quoted \in interpolateQuote(ladder[p].levels, x) :
            /\ stop # "aborted"
            /\ \E w \in Route(p, x) :
                  /\ Demands(w, p, x) = MinOutput[p[2]]..quoted
                  /\ Mergeable(w.offers)
                  /\ \A o, q \in w.offers : o # q => book[o].coins \cap book[q].coins = {}
                  /\ \A t \in Tokens : Receipt(w.offers, p, x, quoted, t) >= 0

(* A quote is the best the book allows: no set of offers that take part,   *)
(* chosen from the whole book and merged in any order, pays more for as    *)
(* much or less; and a pair that is not quoted though it was searched, or  *)
(* never became a candidate, has no such set. Caps on one pair or on what  *)
(* follows do not change it.                                               *)
QuotesAreBest ==
    Done => \A p \in {q \in Supported : q[2] \in DOMAIN MinOutput} :
        LET possible == {S \in SUBSET retained :
                            /\ S # {} /\ Cardinality(S) <= MaxMakers
                            /\ Economic(S, p) /\ WithinDelta(S) /\ Mergeable(S)
                            /\ Output(S, p) >= MinOutput[p[2]]}
            paid(x) == {Output(S, p) : S \in {T \in possible : Input(T, p) <= x}}
            searched == IF p \in DOMAIN withheld THEN withheld[p] = "nothing"
                        ELSE stop = "none"
        IN  IF p \in DOMAIN ladder
            THEN \A x \in 1..Last(ladder[p].levels).input :
                    interpolateQuote(ladder[p].levels, x)
                      = IF paid(x) = {} THEN {} ELSE {Max(paid(x))}
            ELSE searched => possible = {}
=============================================================================

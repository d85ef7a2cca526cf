CONSTANTS
    a = a
    b = b
    c = c
    d = d
    e = e
    n1 = n1
    n2 = n2
    c1 = c1
    c2 = c2
    c3 = c3
    u1 = u1
    u2 = u2
    u3 = u3
    Offers <- Shielded
    Valid <- Shielded
    OfferNulls <- ShieldedNulls
    OfferComms <- ShieldedComms
    OfferSpends <- ShieldedNone
    OfferOuts <- ShieldedNone
    OfferRoots <- ShieldedRoots
    IntentTtls <- ShieldedNone
    Nullifiers = {n1, n2}
    Commitments = {c1, c2, c3}
    Utxos = {}
    GenesisUtxos = {}
    MaxRoot = 3
    RootWindow = 2
    OfferTtl = 3
    GlobalTtl = 3
    MaxTime = 5
    LastPost = 5
    MaxPosts = 3
    MaxTxs = 2
    HashlessEvents = FALSE
SPECIFICATION Spec
INVARIANTS
    NoResurrection
    BookNotStale
    FloorWithinOneBlock
    FillExact
    OneTradePerCoin
    VerdictMatchesEvidence
CHECK_DEADLOCK FALSE

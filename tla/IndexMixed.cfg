CONSTANTS
    a = a
    b = b
    c = c
    d = d
    e = e
    n1 = n1
    n2 = n2
    c1 = c1
    c2 = c2
    c3 = c3
    u1 = u1
    u2 = u2
    u3 = u3
    Offers <- Mixed
    Valid <- Mixed
    OfferNulls <- MixedNulls
    OfferComms <- MixedComms
    OfferSpends <- MixedSpends
    OfferOuts <- MixedOuts
    OfferRoots <- MixedRoots
    IntentTtls <- MixedTtls
    Nullifiers = {n1}
    Commitments = {c1}
    Utxos = {u1, u2, u3}
    GenesisUtxos = {u1}
    MaxRoot = 1
    RootWindow = 2
    OfferTtl = 3
    GlobalTtl = 3
    MaxTime = 5
    LastPost = 3
    MaxPosts = 3
    MaxTxs = 2
    HashlessEvents = FALSE
SPECIFICATION FairSpec
INVARIANTS
    LiveInputsUnspent
    FillExact
PROPERTIES
    EveryOfferLeaves
    EveryFillAdjudicated
CHECK_DEADLOCK FALSE

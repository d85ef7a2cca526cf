CONSTANTS
    Tokens <- MCTokens
    Books <- MCBooks
    MaxAmount = 11
    MaxMakers = 3
    MaxWirePoints = 4
    MaxPairs = 3
    Supported <- MCSupported
    MinOutput <- MCMinOutput
    Stops = {"discovery-work-cap", "aborted"}
    PairCaps = {"pair-search-cap"}
    Interrupted <- MCInterrupted
SPECIFICATION Spec
INVARIANTS
    EveryQuoteHonoured
    QuotesAreBest
CHECK_DEADLOCK FALSE

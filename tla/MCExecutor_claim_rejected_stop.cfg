CONSTANTS
    Trades = {t1}
    Symbols = {s1}
    SymbolOf <- SameSymbol
    NoTrade = NoTrade
    Live = TRUE
    FillAttempts = 2
    SubPasses = 2
    MaxFaults = 0
    Rejects = TRUE
    ExternalCloses = FALSE
    SquareoffToday = FALSE
SPECIFICATION FairSpec
PROPERTY RejectedStopIsReplaced

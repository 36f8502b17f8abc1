CONSTANTS
    Trades = {t1}
    Symbols = {s1}
    SymbolOf <- SameSymbol
    NoTrade = NoTrade
    Live = TRUE
    FillAttempts = 2
    SubPasses = 2
    MaxFaults = 2
    Rejects = TRUE
    ExternalCloses = TRUE
    SquareoffToday = TRUE
SPECIFICATION FairSpec
INVARIANTS
    TypeOK
    IInv
    UnboughtSoldAtSquareoffOnly
    StopsPaidFor
    ShortIsAccountedFor
    AccountInv
PROPERTY FilledEntryIsPickedUp

CONSTANTS
    Trades = {t1, t2}
    Symbols = {s1}
    SymbolOf <- SameSymbol
    NoTrade = NoTrade
    Live = FALSE
    FillAttempts = 2
    SubPasses = 2
    MaxFaults = 2
    Rejects = FALSE
    ExternalCloses = FALSE
    SquareoffToday = TRUE
SPECIFICATION FairSpec
INVARIANTS
    OneEntryPerIntent
    OneExitPerTrade
    OpenIsBacked
    CooldownIsBooked
    JournaledAtMostOnce
    BookingsPaidFor
    JournalGapsPaidFor
    NeverShort
    OnePosition
    NothingLeftResting
    PaperInv
PROPERTIES
    ImplementsLifecycle
    FilledStopSettles

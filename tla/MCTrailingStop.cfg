CONSTANTS
    Fills <- MCFills
    Risks <- MCRisks
    Ltps <- MCLtps
    Modes = {TRUE, FALSE}
    MaxFaults = 2
SPECIFICATION Spec
INVARIANTS
    TypeOK
    StopBacksRecord
    PeakLockedIn
    TightenedBelowQuote
PROPERTIES
    StageRatchets
    LoosenedOnlyAfterFault

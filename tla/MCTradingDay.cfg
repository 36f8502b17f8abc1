CONSTANTS
    index = index
    share = share
    pick = pick
    Order <- ThreeInOrder
    Dynamic <- OnePick
    Quotes <- TwoQuotes
    TopQuote = 16
    CapitalRs = 34
    HalfSpread = 1
    Risk = 2
    Charges <- BrokerageAndTaxes
    TopCharge = 2
    DailyLoss = 7
    MaxTrades = 5
    MaxFaults = 1
SPECIFICATION Spec
INVARIANTS
    TypeOK
    CapitalRespected
    BreakerFollowsLoss
    DayLossBounded
    OneMessage
    SquareoffReachesListed

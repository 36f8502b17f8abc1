CONSTANTS
    a = a
    b = b
    Ticks <- TwoTicks
    Cash <- TwoBalances
    CapitalRs = 4
    Threshold = 2
    LotCost = 1
    MaxNet = 2
SPECIFICATION Spec
SYMMETRY Symmetric
INVARIANT LiveNeverShort

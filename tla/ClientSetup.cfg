CONSTANTS
    One = 64
    FeeBps = 1
    BpsDenominator = 4
    Quantities = {0, 1, 3, 4, 5, 8}
    QuoteAmounts = {0, 1}
SPECIFICATION Spec
INVARIANTS
    TypeOK
    SetupRefusedForAReason
    ReturnedIsComplete
PROPERTY SetupReturns
CHECK_DEADLOCK FALSE

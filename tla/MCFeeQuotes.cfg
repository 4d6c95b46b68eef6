\* Rounding shows on both sides: quantities below One / ClientDivisor = 204 get
\* the exact fee, some of those above pay one token more.
CONSTANTS
    One = 4096
    FeeBps = 3
    BpsDenominator = 60
    MaxQuantity = 4095
SPECIFICATION Spec
INVARIANTS
    FeeWithinOneToken
    FeeExactForCommonSizes
    ClientPassesFeeAccountWhenRequired
    ProductFitsU128
CHECK_DEADLOCK FALSE

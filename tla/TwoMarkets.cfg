CONSTANTS
    alice = alice
    bob = bob
    m1 = m1
    m2 = m2
    m3 = m3
    m4 = m4
    usd = usd
    btc = btc
    sol = sol
    feeOwner = feeOwner
    Users = {alice, bob}
    Markets = {m1, m2, m3, m4}
    Assets = {btc, usd}
    Sol = sol
    FeeOwner = feeOwner
    NftMintLamports = 1
    Terms <- TwoMarketTerms
    Endowment <- TwoMarketEndowment
    Sizes = {1}
    MaxU64 = 7
    MaxTime = 2
    One = 16
    FeeBps = 1
    BpsDenominator = 2
SPECIFICATION Spec
INVARIANTS
    OptionsCovered
    WritersCovered
PROPERTIES
    PayoutsMatchBurns
    ImplementsCoveredOptions
CHECK_DEADLOCK FALSE

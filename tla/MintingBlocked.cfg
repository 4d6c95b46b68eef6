CONSTANTS
    alice = alice
    bob = bob
    m1 = m1
    m2 = m2
    m3 = m3
    m4 = m4
    usd = usd
    btc = btc
    sol = sol
    feeOwner = feeOwner
    Users = {alice, bob}
    Markets = {m1}
    Assets = {btc, usd}
    Sol = sol
    FeeOwner = feeOwner
    NftMintLamports = 1
    Terms <- OneMarketTerms
    Endowment <- OneMarketEndowment
    Sizes = {0, 1, 2, 4}
    MaxU64 = 7
    MaxTime = 2
    One = 16
    FeeBps = 1
    BpsDenominator = 2
SPECIFICATION Spec
INVARIANT MintingAvailable
CHECK_DEADLOCK FALSE

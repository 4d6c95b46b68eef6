CONSTANTS
    w1 = w1
    w2 = w2
    NoTx = NoTx
    Wallets = {w1, w2}
    Written <- BothWrite
    Held <- SecondHolds
    Contracts = 3
SPECIFICATION FairSpec
INVARIANT BuiltCallsAreAccepted
PROPERTY WritersLeave
CHECK_DEADLOCK FALSE

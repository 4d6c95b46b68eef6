CONSTANTS
    btc = btc
    usd = usd
    eur = eur
    Garbage = Garbage
    MaxSafe = 8
    Terms <- FiveTerms
    Supported <- BtcAndUsd
SPECIFICATION Spec
INVARIANTS
    ListedMarketsAreTrue
    FetchedIsTrue
CHECK_DEADLOCK FALSE

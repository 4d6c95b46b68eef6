CONSTANTS
    o1 = o1
    o2 = o2
    usd = usd
    l1 = l1
    l2 = l2
    alice = alice
    bob = bob
    None = None
    Nobody = Nobody
    OptionMarkets = {o1, o2}
    PcMints = {usd}
    Listers = {l1, l2}
    Pair <- Pairs
    QueueKinds = {"eventQueue"}
    VaultNonces <- FirstHasOwner
    MaxNonce = 2
    Users = {alice, bob}
    Vault = 1
    Slots = 1
    DefaultLimit = 3
    Expiration <- ExpirationInTurn
    MaxTime = 1
    AuthorityBump <- Bumps
    Loaders <- FirstOptionMarket
SPECIFICATION FairSpec
INVARIANTS
    TypeOK
    OrdersInListedMarkets
    RefusedForAReason
PROPERTIES
    MarketsKeepTheirQueues
    ActiveMarketsNotPruned
    PairsGetListed
    TradersGetOut
CHECK_DEADLOCK FALSE

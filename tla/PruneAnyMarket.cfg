CONSTANTS
    o1 = o1
    o2 = o2
    usd = usd
    l1 = l1
    l2 = l2
    alice = alice
    bob = bob
    None = None
    Nobody = Nobody
    OptionMarkets = {o1, o2}
    PcMints = {usd}
    Listers = {l1, l2}
    Pair <- Pairs
    QueueKinds = {"eventQueue", "bids", "asks"}
    VaultNonces <- BothHaveOwners
    MaxNonce = 2
    Users = {alice, bob}
    Vault = 2
    Slots = 2
    DefaultLimit = 3
    Expiration <- ExpirationInTurn
    MaxTime = 2
    AuthorityBump <- Bumps
    Loaders <- AnyOptionMarket
SPECIFICATION Spec
PROPERTY ActiveMarketsNotPruned
CHECK_DEADLOCK FALSE

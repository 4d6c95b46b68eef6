----------------------------- MODULE SerumProxy -----------------------------
(***************************************************************************)
(* Trading the options of a market on the Serum DEX through the program's  *)
(* proxy (serum_proxy.rs, entry, and the MarketProxy of utils/serum.ts),   *)
(* and emptying the books of a market that has expired.                    *)
(*                                                                         *)
(* Client and program each wrap the DEX by a chain of middlewares.  The    *)
(* client's chain frames a request of the DEX layer by layer and the       *)
(* program's strips it again; the DEX only obeys what comes out, signed by *)
(* the authority whose seeds the program adds.                             *)
(*                                                                         *)
(* The DEX is external: bids of one lot at one price, which nobody fills.  *)
(* An order that is cancelled frees its lot at once, and its slot in the   *)
(* trader's open orders when somebody has the DEX consume the event.       *)
(***************************************************************************)
EXTENDS SerumListing, SequencesExt

CONSTANTS
    Users,          \* wallets that trade
    Vault,          \* lots a quote mint is created with
    Slots,          \* orders an open orders account has room for, 128
    DefaultLimit,   \* orders a prune cancels at most, 65535
    Expiration,     \* expiration_unix_timestamp of each option market
    MaxTime,        \* the clock stops here
    AuthorityBump,  \* of each DEX market, the bump of its market authority
    Loaders,        \* market proxies that clients build
    Nobody          \* the signature of a transaction only its payer signs

ASSUME ProxyAssumption ==
    /\ {Vault, Slots, MaxTime} \subseteq Nat
    /\ DefaultLimit \in Nat \ {0}
    /\ Expiration \in [OptionMarkets -> Nat]
    /\ AuthorityBump \in [SerumMarkets -> 0..255]
    /\ Loaders \subseteq [optionMarketKey : OptionMarkets, marketAuthorityBump : 0..255,
                          marketKey : SerumMarkets]
    /\ Nobody \notin Users

VARIABLES
    now,       \* the clock sysvar
    wallet,    \* lots of each quote mint a user holds
    orders,    \* each user's open orders account in each DEX market
    referral,  \* quote mints of which the referral authority has an account
    signer     \* who signed the last transaction as a trader

proxyVars == <<now, wallet, orders, referral, signer>>
vars == <<listingVars, proxyVars>>

NoOpenOrders == [open |-> FALSE, book |-> 0, out |-> 0, free |-> 0]

TypeOK ==
    /\ ListingTypeOK
    /\ now \in 0..MaxTime
    /\ wallet \in [Users -> [PcMints -> 0..Vault]]
    /\ orders \in [Users \X SerumMarkets ->
                     [open : BOOLEAN, book : 0..Slots, out : 0..Slots, free : 0..Vault]]
    /\ referral \subseteq mints
    /\ signer \in Users \cup {Nobody}

Init ==
    /\ ListingInit
    /\ now = 0
    /\ wallet = [u \in Users |-> [mint \in PcMints |-> 0]]
    /\ orders = [account \in Users \X SerumMarkets |-> NoOpenOrders]
    /\ referral = {}
    /\ signer = Nobody

-----------------------------------------------------------------------------
\* The client's frame around a DEX request: OpenOrdersPda's, then Validation's.
DexTag == [ newOrderV3 |-> 10, cancelOrderV2 |-> 11, cancelOrderByClientIdV2 |-> 12,
            settleFunds |-> 5, closeOpenOrders |-> 14, initOpenOrders |-> 15, prune |-> 16 ]
ValidationTag == [ initOpenOrders |-> 0, newOrderV3 |-> 1, cancelOrderV2 |-> 2,
                   cancelOrderByClientIdV2 |-> 3, settleFunds |-> 4, closeOpenOrders |-> 5,
                   prune |-> 6 ]

OpenOrdersPda(op, data) ==
    IF op = "initOpenOrders" THEN <<0, "bump", "bumpInit">> \o data ELSE <<1>> \o data
ValidationWithoutBump(op, bump, data) == <<ValidationTag[op]>> \o data
Validation(op, bump, data) ==
    <<ValidationTag[op]>> \o (IF op = "prune" THEN <<bump>> ELSE <<>>) \o data

Frame(loader, op) ==
    Validation(op, loader.marketAuthorityBump, OpenOrdersPda(op, <<DexTag[op]>>))

\* What the program takes off: Validation's discriminator, with the bump of a
\* prune, then OpenOrdersPda's.
PruneTag == 6
ValidationInstruction(data) ==
    IF data[1] = PruneTag
    THEN [bump |-> data[2], data |-> SubSeq(data, 3, Len(data))]
    ELSE [bump |-> 0, data |-> Tail(data)]
OpenOrdersPdaInstruction(data) ==
    IF data[1] = 0 THEN SubSeq(data, 4, Len(data)) ELSE Tail(data)

\* The DEX is handed the request that the client framed.
Entry(loader, op) ==
    OpenOrdersPdaInstruction(ValidationInstruction(Frame(loader, op)).data) = <<DexTag[op]>>

\* A proxy can only be loaded for a market that is there.
LoadUnchecked(loader) == TRUE
Load(loader) == Listed(loader.marketKey)

Calls(loader, op, account) ==
    /\ Load(loader)
    /\ account[2] = loader.marketKey
    /\ Entry(loader, op)

-----------------------------------------------------------------------------
\* A quote mint, created with a vault of it for its owner.
CreateMintAndVault(owner, mint) ==
    /\ CreateMint(mint)
    /\ wallet' = [wallet EXCEPT ![owner][mint] = Vault]
    /\ signer' = Nobody
    /\ UNCHANGED <<now, orders, referral>>

\* A lot, sent to another wallet.
Transfer(from, to, mint) ==
    /\ from # to
    /\ wallet[from][mint] > 0
    /\ wallet' = [wallet EXCEPT ![from][mint] = @ - 1, ![to][mint] = @ + 1]
    /\ signer' = Nobody
    /\ UNCHANGED <<listingVars, now, orders, referral>>

NobodyTrades == signer' = Nobody /\ UNCHANGED <<now, wallet, orders, referral>>

ListingStep ==
    /\ (\E l \in Listers : ListMarket(l)) \/ OthersList \/ Upgrade
    /\ NobodyTrades

Tick ==
    /\ now < MaxTime
    /\ now' = now + 1
    /\ signer' = Nobody
    /\ UNCHANGED <<listingVars, wallet, orders, referral>>

CreateReferralAccount(mint) ==
    /\ mint \in mints \ referral
    /\ referral' = referral \cup {mint}
    /\ signer' = Nobody
    /\ UNCHANGED <<listingVars, now, wallet, orders>>

\* The trader's own requests.  None of them looks at the clock.
Trade(user) == signer' = user /\ UNCHANGED <<listingVars, now, referral>>

InitOpenOrders(loader, user) ==
    LET account == <<user, loader.marketKey>>
    IN  /\ Calls(loader, "initOpenOrders", account)
        /\ ~orders[account].open
        /\ orders' = [orders EXCEPT ![account].open = TRUE]
        /\ UNCHANGED wallet
        /\ Trade(user)

RoomOnBook(account) == orders[account].book < Slots
RoomFor(account) == orders[account].book + orders[account].out < Slots

NewOrder(loader, user) ==
    LET account == <<user, loader.marketKey>>
        mint == PcMintOf(loader.marketKey)
    IN  /\ Calls(loader, "newOrderV3", account)
        /\ orders[account].open
        /\ RoomFor(account)
        /\ wallet[user][mint] > 0
        /\ wallet' = [wallet EXCEPT ![user][mint] = @ - 1]
        /\ orders' = [orders EXCEPT ![account].book = @ + 1]
        /\ Trade(user)

Cancelled(account, n) ==
    [ open |-> account.open, book |-> account.book - n, out |-> account.out + n,
      free |-> account.free + n ]

CancelOrder(loader, user) ==
    LET account == <<user, loader.marketKey>>
    IN  /\ \/ Calls(loader, "cancelOrderV2", account)
           \/ Calls(loader, "cancelOrderByClientIdV2", account)
        /\ orders[account].book > 0
        /\ orders' = [orders EXCEPT ![account] = Cancelled(@, 1)]
        /\ UNCHANGED wallet
        /\ Trade(user)

\* The referral fees go to an account of the referral authority.
SettleFunds(loader, user) ==
    LET account == <<user, loader.marketKey>>
        mint == PcMintOf(loader.marketKey)
    IN  /\ Calls(loader, "settleFunds", account)
        /\ mint \in referral
        /\ orders[account].free > 0
        /\ wallet' = [wallet EXCEPT ![user][mint] = @ + orders[account].free]
        /\ orders' = [orders EXCEPT ![account].free = 0]
        /\ Trade(user)

CloseOpenOrders(loader, user) ==
    LET account == <<user, loader.marketKey>>
    IN  /\ Calls(loader, "closeOpenOrders", account)
        /\ orders[account] = [NoOpenOrders EXCEPT !.open = TRUE]
        /\ orders' = [orders EXCEPT ![account] = NoOpenOrders]
        /\ UNCHANGED wallet
        /\ Trade(user)

\* Anybody's request to the DEX itself.
ConsumeEvents(account) ==
    /\ orders[account].out > 0
    /\ orders' = [orders EXCEPT ![account].out = 0]
    /\ signer' = Nobody
    /\ UNCHANGED <<listingVars, now, wallet, referral>>

-----------------------------------------------------------------------------
\* The client names the loader's option market in front of the accounts, and
\* the program takes that one off and requires that it has expired.
PruneKeys(loader) == <<loader.optionMarketKey, loader.marketKey>>

ExpiredAlways(optionMarket) == TRUE
ExpiredForPrune(optionMarket) == Expiration[optionMarket] < now

AtMostLimit(n) == IF n < DefaultLimit THEN n ELSE DefaultLimit

\* Anybody's request to cancel what an open orders account has on the book.
Prune(loader, account) ==
    LET accounts == PruneKeys(loader)
        optionMarket == accounts[1]
        market == accounts[2]
    IN  /\ Calls(loader, "prune", account)
        /\ ExpiredForPrune(optionMarket)
        /\ ValidationInstruction(Frame(loader, "prune")).bump = AuthorityBump[market]
        /\ orders[account].book > 0
        /\ orders' = [orders EXCEPT ![account] = Cancelled(@, AtMostLimit(@.book))]
        /\ signer' = Nobody
        /\ UNCHANGED <<listingVars, now, wallet, referral>>

Accounts == Users \X SerumMarkets

TraderStep(loader, user) ==
    \/ InitOpenOrders(loader, user)
    \/ NewOrder(loader, user)
    \/ CancelOrder(loader, user)
    \/ SettleFunds(loader, user)
    \/ CloseOpenOrders(loader, user)

Next ==
    \/ \E owner \in Users, mint \in PcMints : CreateMintAndVault(owner, mint)
    \/ \E from, to \in Users, mint \in PcMints : Transfer(from, to, mint)
    \/ ListingStep
    \/ Tick
    \/ \E mint \in PcMints : CreateReferralAccount(mint)
    \/ \E loader \in Loaders, user \in Users : TraderStep(loader, user)
    \/ \E account \in Accounts : ConsumeEvents(account)
    \/ \E loader \in Loaders, account \in Accounts : Prune(loader, account)

Spec == Init /\ [][Next]_vars

\* A trader collects what its orders in a market have freed.
Settle(account) ==
    \E loader \in Loaders :
        loader.marketKey = account[2] /\ SettleFunds(loader, account[1])

\* Time passes, helpers that list a market run on, somebody prunes what has
\* expired and consumes events, and a trader collects what is free; nobody has
\* to stop trading.
FairSpec ==
    /\ Spec
    /\ WF_vars(Tick)
    /\ \A l \in Listers : WF_vars(ListMarket(l) /\ NobodyTrades)
    /\ \A mint \in PcMints : WF_vars(CreateReferralAccount(mint))
    /\ \A account \in Accounts :
          /\ WF_vars(\E loader \in Loaders : Prune(loader, account))
          /\ WF_vars(Settle(account))
          /\ WF_vars(ConsumeEvents(account))

-----------------------------------------------------------------------------
(* Properties *)

\* Clients that load the option market a DEX market was listed for.
LoadersMatch == \A loader \in Loaders : loader.optionMarketKey = OptionMarketOf(loader.marketKey)

\* Only an option market that has expired has its books pruned: an order leaves
\* the book of any other because its owner asked for it.
ActiveMarketsNotPruned ==
    [][\A account \in Accounts :
          orders'[account].book < orders[account].book =>
              \/ Expiration[OptionMarketOf(account[2])] < now
              \/ signer' = account[1]]_vars

\* A trader's orders and lots are only ever in DEX markets that are listed, and
\* in open orders accounts that are open: none is closed while it holds any.
OrdersInListedMarkets ==
    \A account \in Accounts :
        orders[account] # NoOpenOrders => Listed(account[2]) /\ orders[account].open

\* Once a market has expired an order does not stay on its book, though traders
\* go on placing them and owners never cancel; what was freed gets back to the
\* owner's wallet, and the slots of cancelled orders become free again.
TradersGetOut ==
    \A account \in Accounts :
        /\ []<>(orders[account].book = 0)
        /\ []<>(orders[account].free = 0)
        /\ []<>(orders[account].out = 0)
=============================================================================

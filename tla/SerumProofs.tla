---------------------------- MODULE SerumProofs ----------------------------
(***************************************************************************)
(* What holds of every listing and every trade, for any number of option   *)
(* markets, clients, traders, orders and limits.                           *)
(*                                                                         *)
(* That no order is lost or closed over takes natural numbers as amounts   *)
(* only.  That nobody holds more than the vault of a mint (TypeOK) takes   *)
(* the lots of all wallets and open orders accounts together: they stay    *)
(* the vault's, however many there are.                                    *)
(***************************************************************************)
EXTENDS SerumProxy, ArithmeticLemmas, WellFoundedInduction, TLAPS

\* Every client lists a pair, and no queues are taken for the absence of a market.
LEMMA PairType ==
    \A l \in Listers : Pair[l] \in SerumMarkets /\ QueuesOf(l) \in SUBSET Queues
                            /\ QueuesOf(l) # None
  <1> SUFFICES ASSUME NEW l \in Listers
               PROVE  Pair[l] \in SerumMarkets /\ QueuesOf(l) \in SUBSET Queues
                          /\ QueuesOf(l) # None
    OBVIOUS
  <1>1. QueuesOf(l) \in SUBSET Queues
    BY DEF QueuesOf, Queues, Account
  <1> QED
    BY <1>1, ListingAssumption

-----------------------------------------------------------------------------
(* Listing *)

\* The variables of a listing keep their types.
LEMMA ListingInitType == ListingInit => ListingTypeOK
  BY DEF ListingInit, ListingTypeOK

\* A request of a listing keeps the types.
LEMMA ListMarketType ==
    ASSUME ListingTypeOK, NEW l \in Listers, ListMarket(l)
    PROVE  ListingTypeOK'
  <1>1. CASE CreateFirstSetOfAccounts(l)
    <2>1. /\ UNCHANGED <<mints, serum, elsewhere, blocked>>
          /\ queues' = queues \/ queues' = queues \cup {l}
          /\ \/ stage' = [stage EXCEPT ![l] = "initSerum"]
             \/ stage' = [stage EXCEPT ![l] = "threw"]
          /\ fault' = fault \/ fault' = [fault EXCEPT ![l] = TRUE]
      BY <1>1 DEF CreateFirstSetOfAccounts, Confirmed, Unconfirmed
    <2> QED
      BY <2>1 DEF ListingTypeOK
  <1>2. CASE InitSerum(l)
    <2>1. /\ UNCHANGED <<mints, queues, elsewhere, blocked>>
          /\ serum' = serum \/ serum' = [serum EXCEPT ![Pair[l]] = QueuesOf(l)]
          /\ \/ stage' = [stage EXCEPT ![l] = "listed"]
             \/ stage' = [stage EXCEPT ![l] = "threw"]
          /\ fault' = fault \/ fault' = [fault EXCEPT ![l] = TRUE]
      BY <1>2 DEF InitSerum, Confirmed, Unconfirmed
    <2>2. serum' \in [SerumMarkets -> {None} \cup SUBSET Queues]
      BY <2>1, PairType DEF ListingTypeOK
    <2>3. stage' \in [Listers -> {"queues", "initSerum", "listed", "threw"}]
      BY <2>1 DEF ListingTypeOK
    <2>4. fault' \in [Listers -> BOOLEAN]
      BY <2>1 DEF ListingTypeOK
    <2> QED
      BY <2>1, <2>2, <2>3, <2>4 DEF ListingTypeOK
  <1> QED
    BY <1>1, <1>2 DEF ListMarket

\* What somebody else takes are queues, too.
LEMMA OthersListType ==
    ASSUME ListingTypeOK, OthersList
    PROVE  ListingTypeOK'
  <1>1. ASSUME NEW market \in SerumMarkets, OthersInitSerumMarket(market)
        PROVE  ListingTypeOK'
    <2>1. PICK passed \in SUBSET Queues : serum' = [serum EXCEPT ![market] = passed]
      BY <1>1 DEF OthersInitSerumMarket
    <2>2. UNCHANGED <<mints, queues, elsewhere, stage, fault, blocked>>
      BY <1>1 DEF OthersInitSerumMarket
    <2>3. serum' \in [SerumMarkets -> {None} \cup SUBSET Queues]
      BY <2>1 DEF ListingTypeOK
    <2> QED
      BY <2>2, <2>3 DEF ListingTypeOK
  <1>2. ASSUME NEW queue \in Queues, OthersUseQueue(queue)
        PROVE  ListingTypeOK'
    BY <1>2 DEF OthersUseQueue, ListingTypeOK
  <1> QED
    BY <1>1, <1>2 DEF OthersList

\* So does every step of the listings.
LEMMA ListingNextType ==
    ASSUME ListingTypeOK, [ListingNext]_listingVars
    PROVE  ListingTypeOK'
  <1>1. ASSUME NEW mint \in PcMints, CreateMint(mint)
        PROVE  ListingTypeOK'
    BY <1>1 DEF CreateMint, ListingTypeOK
  <1>2. CASE \E l \in Listers : ListMarket(l)
    BY <1>2, ListMarketType
  <1>3. CASE OthersList
    BY <1>3, OthersListType
  <1>4. CASE Upgrade
    BY <1>4 DEF Upgrade, ListingTypeOK
  <1>5. CASE UNCHANGED listingVars
    BY <1>5 DEF listingVars, ListingTypeOK
  <1> QED
    BY <1>1, <1>2, <1>3, <1>4, <1>5 DEF ListingNext

\* A market that is there is not touched by anybody's listing.
LEMMA ListingStepKeeps ==
    ASSUME ListingTypeOK, [ListingNext]_listingVars, NEW market \in SerumMarkets, Listed(market)
    PROVE  serum'[market] = serum[market]
  <1>1. CASE \E l \in Listers : ListMarket(l)
    <2> PICK l \in Listers : ListMarket(l)
      BY <1>1
    <2>1. CASE CreateFirstSetOfAccounts(l)
      BY <2>1 DEF CreateFirstSetOfAccounts
    <2>2. CASE InitSerum(l)
      <3>1. \/ serum' = serum
            \/ AddressesFree(Pair[l]) /\ serum' = [serum EXCEPT ![Pair[l]] = QueuesOf(l)]
        BY <2>2 DEF InitSerum, InitSerumMarket
      <3> QED
        BY <3>1, PairType DEF AddressesFree, Listed, ListingTypeOK
    <2> QED
      BY <2>1, <2>2 DEF ListMarket
  <1>2. ASSUME NEW other \in SerumMarkets, OthersInitSerumMarket(other)
        PROVE  serum'[market] = serum[market]
    <2>1. PICK passed : AddressesFree(other) /\ serum' = [serum EXCEPT ![other] = passed]
      BY <1>2 DEF OthersInitSerumMarket, InitSerumMarket
    <2> QED
      BY <2>1 DEF AddressesFree, Listed, ListingTypeOK
  <1>3. CASE UNCHANGED serum
    BY <1>3
  <1> QED
    BY <1>1, <1>2, <1>3
    DEF ListingNext, OthersList, OthersUseQueue, CreateMint, Upgrade, listingVars

\* A DEX market keeps the queues it was created with, whoever lists the pair
\* again: init_serum_market creates accounts at addresses that are taken then.
THEOREM QueuesKept == ListingSpec => MarketsKeepTheirQueues
  <1>1. ListingInit => ListingTypeOK
    BY ListingInitType
  <1>2. ListingTypeOK /\ [ListingNext]_listingVars => ListingTypeOK'
    BY ListingNextType
  <1>3. ListingTypeOK /\ [ListingNext]_listingVars =>
            [\A market \in SerumMarkets : Listed(market) => serum'[market] = serum[market]]_listingVars
    BY ListingStepKeeps
  <1> QED
    BY <1>1, <1>2, <1>3, PTL DEF ListingSpec, MarketsKeepTheirQueues

\* The search from 0 upwards finds the least nonce there is.
LEMMA LeastNonce ==
    ASSUME ListingTypeOK, NEW market \in SerumMarkets, VaultOwnerNonces(market) # {}
    PROVE  GetVaultOwnerAndNonce(market) \in VaultNonces[market]
  <1> DEFINE T == VaultOwnerNonces(market)
  <1>1. T \in SUBSET Nat /\ T \subseteq VaultNonces[market]
    BY ListingAssumption DEF VaultOwnerNonces
  <1>2. PICK x \in T : \A y \in T : <<y, x>> \notin OpToRel(<, Nat)
    BY <1>1, NatLessThanWellFounded, WFMin
  <1>3. \A y \in T : x <= y
    <2> SUFFICES ASSUME NEW y \in T, y < x PROVE FALSE
      BY <1>1
    <2> QED
      BY <1>1, <1>2 DEF OpToRel
  <1>4. GetVaultOwnerAndNonce(market) \in T
    BY <1>3 DEF GetVaultOwnerAndNonce
  <1> QED
    BY <1>1, <1>4

\* The account list of the IDL suffices for what the instruction does.
LEMMA InitSerumAccepted ==
    ASSUME NEW l \in Listers, NEW market \in SerumMarkets
    PROVE  MessageAccepted(l, market)
  <1> DEFINE list == InitSerumMarketIdl(l, market)
             message == Message(Account("wallet", l), list, <<>>)
  <1>1. /\ message.signer = {Account("wallet", l)} \cup list.signer
        /\ message.mut = {Account("wallet", l)} \cup list.mut
        /\ message.key = {Account("wallet", l)} \cup list.signer \cup list.mut \cup list.readonly
    BY DEF Message
  <1>2. list.signer = {Account("wallet", l)}
    BY DEF InitSerumMarketIdl
  <1>3. QueuesOf(l) \cup CreatedFor(market) \cup {Account("optionMarket", OptionMarketOf(market))}
            \subseteq list.mut
    BY DEF InitSerumMarketIdl
  <1>4. Programs \cup {Account("marketAuthority", market), Account("vaultSigner", market)}
            \subseteq list.readonly
    BY DEF InitSerumMarketIdl
  <1> HIDE DEF list, message
  <1> QED
    BY <1>1, <1>2, <1>3, <1>4 DEF MessageAccepted, Accepted, InitSerumMarketNeeds, Needs, list, message

\* A run that has come to its second transaction has its quote mint and queues.
Ready ==
    \A l \in Listers :
        stage[l] = "initSerum" => PcMintOf(Pair[l]) \in mints /\ l \in queues

ListingInv == ListingTypeOK /\ Ready /\ RefusedForAReason

\* Why a run may be refused.
Reason(l) == Listed(Pair[l]) \/ QueuesTaken(l) \/ NoVaultOwner(Pair[l]) \/ blocked

\* A reason is there for good: markets stay listed, and keep what they use.
LEMMA ReasonsLast ==
    ASSUME ListingTypeOK, [ListingNext]_listingVars, NEW l \in Listers, Reason(l)
    PROVE  Reason(l)'
  <1>1. \A market \in SerumMarkets : Listed(market) => Listed(market)' /\ serum'[market] = serum[market]
    BY ListingStepKeeps DEF Listed
  <1>2. elsewhere \subseteq elsewhere' /\ (blocked => blocked')
    <2>1. CASE \E k \in Listers : ListMarket(k)
      <3>1. ASSUME NEW k \in Listers, CreateFirstSetOfAccounts(k)
            PROVE  UNCHANGED <<elsewhere, blocked>>
        BY <3>1 DEF CreateFirstSetOfAccounts
      <3>2. ASSUME NEW k \in Listers, InitSerum(k)
            PROVE  UNCHANGED <<elsewhere, blocked>>
        BY <3>2 DEF InitSerum
      <3> QED
        BY <2>1, <3>1, <3>2 DEF ListMarket
    <2>2. CASE OthersList
      <3>1. ASSUME NEW market \in SerumMarkets, OthersInitSerumMarket(market)
            PROVE  UNCHANGED <<elsewhere, blocked>>
        BY <3>1 DEF OthersInitSerumMarket
      <3>2. ASSUME NEW queue \in Queues, OthersUseQueue(queue)
            PROVE  elsewhere \subseteq elsewhere' /\ UNCHANGED blocked
        BY <3>2 DEF OthersUseQueue
      <3> QED
        BY <2>2, <3>1, <3>2 DEF OthersList
    <2> QED
      BY <2>1, <2>2 DEF ListingNext, CreateMint, Upgrade, listingVars
  <1>3. InUse \subseteq InUse'
    BY <1>1, <1>2 DEF InUse
  <1> QED
    BY <1>1, <1>2, <1>3, PairType DEF Reason, QueuesTaken, NoVaultOwner

\* What the second transaction of a run is refused for.
LEMMA RefusalHasReason ==
    ASSUME ListingInv, NEW l \in Listers, stage[l] = "initSerum",
           \/ VaultOwnerNonces(Pair[l]) = {}
           \/ ~InitSerumMarket(QueuesOf(l), Pair[l], GetVaultOwnerAndNonce(Pair[l]))
    PROVE  Reason(l)
  <1>1. Pair[l] \in SerumMarkets
    BY PairType
  <1>2. PcMintOf(Pair[l]) \in mints /\ l \in queues
    BY DEF ListingInv, Ready
  <1>3. CASE VaultOwnerNonces(Pair[l]) = {}
    <2>1. NoVaultOwner(Pair[l])
      BY <1>1, <1>3, ListingAssumption DEF VaultOwnerNonces, NoVaultOwner
    <2> QED
      BY <2>1 DEF Reason
  <1>4. CASE /\ VaultOwnerNonces(Pair[l]) # {}
             /\ ~InitSerumMarket(QueuesOf(l), Pair[l], GetVaultOwnerAndNonce(Pair[l]))
    <2>1. GetVaultOwnerAndNonce(Pair[l]) \in VaultNonces[Pair[l]]
      BY <1>1, <1>4, LeastNonce DEF ListingInv
    <2>2. blocked \/ Listed(Pair[l]) \/ ~QueuesFree(QueuesOf(l))
      BY <1>2, <1>4, <2>1 DEF InitSerumMarket, AddressesFree
    <2>3. QueuesOf(l) \subseteq Allocated
      BY <1>2 DEF Allocated
    <2>4. ~QueuesFree(QueuesOf(l)) => QueuesTaken(l)
      BY <2>3 DEF QueuesFree, QueuesTaken
    <2> QED
      BY <2>2, <2>4 DEF Reason
  <1> QED
    BY <1>3, <1>4

\* A request of a listing is refused for a reason.
LEMMA ListMarketInv ==
    ASSUME ListingInv, NEW l \in Listers, ListMarket(l)
    PROVE  Ready' /\ RefusedForAReason'
  <1>1. \A k \in Listers : Reason(k) => Reason(k)'
    BY ReasonsLast DEF ListingNext, ListingInv
  <1>2. CASE CreateFirstSetOfAccounts(l)
    <2>1. /\ mints' = mints
          /\ stage[l] = "queues" /\ PcMintOf(Pair[l]) \in mints
          /\ queues \subseteq queues'
          /\ \/ /\ stage' = [stage EXCEPT ![l] = "initSerum"]
                /\ l \in queues' /\ fault' = fault
             \/ /\ stage' = [stage EXCEPT ![l] = "threw"]
                /\ fault' = [fault EXCEPT ![l] = TRUE]
      BY <1>2 DEF CreateFirstSetOfAccounts, Confirmed, Unconfirmed
    <2>2. Ready'
      BY <2>1 DEF ListingInv, ListingTypeOK, Ready
    <2>3. \A k \in Listers : stage'[k] = "threw" /\ ~fault'[k] => stage[k] = "threw" /\ ~fault[k]
      BY <2>1 DEF ListingInv, ListingTypeOK
    <2> QED
      BY <1>1, <2>2, <2>3 DEF ListingInv, RefusedForAReason, Reason
  <1>3. CASE InitSerum(l)
    <2>1. /\ stage[l] = "initSerum"
          /\ UNCHANGED <<mints, queues>>
          /\ \/ stage' = [stage EXCEPT ![l] = "listed"] /\ fault' = fault
             \/ /\ stage' = [stage EXCEPT ![l] = "threw"]
                /\ fault' = [fault EXCEPT ![l] = TRUE]
             \/ /\ stage' = [stage EXCEPT ![l] = "threw"]
                /\ fault' = fault
                /\ \/ VaultOwnerNonces(Pair[l]) = {}
                   \/ ~InitSerumMarket(QueuesOf(l), Pair[l], GetVaultOwnerAndNonce(Pair[l]))
      BY <1>3, PairType, InitSerumAccepted DEF InitSerum, Confirmed, Unconfirmed
    <2>2. Ready'
      BY <2>1 DEF ListingInv, ListingTypeOK, Ready
    <2>3. ASSUME NEW k \in Listers, stage'[k] = "threw", ~fault'[k]
          PROVE  Reason(k)
      <3>1. CASE stage[k] = "threw" /\ ~fault[k]
        BY <3>1 DEF ListingInv, RefusedForAReason, Reason
      <3>2. CASE ~(stage[k] = "threw" /\ ~fault[k])
        <4>1. /\ k = l
              /\ \/ VaultOwnerNonces(Pair[l]) = {}
                 \/ ~InitSerumMarket(QueuesOf(l), Pair[l], GetVaultOwnerAndNonce(Pair[l]))
          BY <2>1, <2>3, <3>2 DEF ListingInv, ListingTypeOK
        <4> QED
          BY <2>1, <4>1, RefusalHasReason
      <3> QED
        BY <3>1, <3>2
    <2> QED
      BY <1>1, <2>2, <2>3 DEF RefusedForAReason, Reason
  <1> QED
    BY <1>2, <1>3 DEF ListMarket

\* Every step of the listings keeps the invariant.
LEMMA ListingNextInv ==
    ASSUME ListingInv, [ListingNext]_listingVars
    PROVE  ListingInv'
  <1>1. ListingTypeOK'
    BY ListingNextType DEF ListingInv
  <1>2. ASSUME \A l \in Listers : ~ListMarket(l)
        PROVE  Ready' /\ RefusedForAReason'
    <2>1. UNCHANGED <<queues, stage, fault>> /\ mints \subseteq mints'
      BY <1>2 DEF ListingNext, CreateMint, OthersList, OthersInitSerumMarket, OthersUseQueue,
                  Upgrade, listingVars
    <2>2. Ready'
      BY <2>1 DEF ListingInv, Ready
    <2>3. \A l \in Listers : Reason(l) => Reason(l)'
      BY ReasonsLast DEF ListingInv
    <2> QED
      BY <2>1, <2>2, <2>3 DEF ListingInv, RefusedForAReason, Reason
  <1> QED
    BY <1>1, <1>2, ListMarketInv DEF ListingInv

\* It holds before anything is listed.
LEMMA ListingInitInv == ListingInit => ListingInv
  <1> SUFFICES ASSUME ListingInit PROVE ListingInv
    OBVIOUS
  <1> QED
    BY ListingInitType DEF ListingInit, ListingInv, Ready, RefusedForAReason

\* A client whose listing is refused, of any number that compete for any pairs,
\* can read the reason off the chain: the pair is listed, a DEX market uses what
\* the client allocated, no nonce it tries gives the vaults an owner, or the
\* instruction is blocked.
THEOREM RefusalsHaveReasons == ListingSpec => []RefusedForAReason
  <1>1. ListingInv /\ [ListingNext]_listingVars => ListingInv'
    BY ListingNextInv
  <1> QED
    BY <1>1, ListingInitInv, PTL DEF ListingSpec, ListingInv

\* The same of the listings in a trading system.
LEMMA ListingPart == [Next]_vars => [ListingNext]_listingVars
  <1> SUFFICES ASSUME [Next]_vars PROVE [ListingNext]_listingVars
    OBVIOUS
  <1>1. ASSUME NEW owner \in Users, NEW mint \in PcMints, CreateMintAndVault(owner, mint)
        PROVE  ListingNext
    BY <1>1 DEF CreateMintAndVault, ListingNext
  <1>2. CASE ListingStep
    BY <1>2 DEF ListingStep, NobodyTrades, ListingNext
  <1>3. ASSUME NEW loader \in Loaders, NEW user \in Users, TraderStep(loader, user)
        PROVE  UNCHANGED listingVars
    BY <1>3 DEF TraderStep, InitOpenOrders, NewOrder, CancelOrder, SettleFunds,
                CloseOpenOrders, Trade
  <1> QED
    BY <1>1, <1>2, <1>3 DEF Next, vars, Transfer, Tick, CreateReferralAccount,
                            ConsumeEvents, Prune

\* The types of the listing hold while the listed markets are traded.
THEOREM ListingCorrect == Spec => []ListingTypeOK
  <1>1. Init => ListingTypeOK
    BY ListingInitType DEF Init
  <1>2. ListingTypeOK /\ [Next]_vars => ListingTypeOK'
    BY ListingPart, ListingNextType
  <1> QED
    BY <1>1, <1>2, PTL DEF Spec

-----------------------------------------------------------------------------
(* Trading *)

OrderRecord == [open : BOOLEAN, book : Nat, out : Nat, free : Nat]
OrdersType == orders \in [Accounts -> OrderRecord]

IInv == ListingTypeOK /\ OrdersType /\ OrdersInListedMarkets

\* What a step may make of one open orders account: `record` is in its place,
\* which is empty or in a market that is listed, and nothing leaves the book but
\* for its owner or an expired option market.
AccountStep(account, record) ==
    /\ account \in Accounts
    /\ record \in OrderRecord
    /\ orders' = [orders EXCEPT ![account] = record]
    /\ UNCHANGED serum
    /\ record # NoOpenOrders => Listed(account[2]) /\ record.open
    /\ record.book < orders[account].book =>
          \/ signer' = account[1]
          \/ Expiration[OptionMarketOf(account[2])] < now

\* A loaded proxy trades in open orders accounts of its market.
LEMMA LoaderType ==
    \A loader \in Loaders, user \in Users :
        /\ loader.marketKey \in SerumMarkets
        /\ <<user, loader.marketKey>> \in Accounts
  BY ProxyAssumption DEF Accounts

\* An account that holds anything is open, in a listed market.
LEMMA HoldsOnlyListed ==
    ASSUME IInv, NEW account \in Accounts,
           \/ orders[account].open
           \/ orders[account].book > 0 \/ orders[account].out > 0 \/ orders[account].free > 0
    PROVE  orders[account].open /\ Listed(account[2])
  BY DEF IInv, OrdersInListedMarkets, NoOpenOrders

\* The fields of an open orders account.
LEMMA OrderFields ==
    ASSUME IInv, NEW account \in Accounts
    PROVE  /\ orders[account] \in OrderRecord
           /\ orders[account].open \in BOOLEAN
           /\ orders[account].book \in Nat
           /\ orders[account].out \in Nat
           /\ orders[account].free \in Nat
  BY DEF IInv, OrdersType, OrderRecord

\* What cancelling some of the orders on the book leaves.
LEMMA CancelledRecord ==
    ASSUME NEW old \in OrderRecord, NEW n \in Nat, n <= old.book, old.open
    PROVE  Cancelled(old, n) \in OrderRecord /\ Cancelled(old, n).open
  <1>1. /\ old.open \in BOOLEAN
        /\ old.book - n \in Nat
        /\ old.out + n \in Nat
        /\ old.free + n \in Nat
    BY DEF OrderRecord
  <1> QED
    BY <1>1 DEF Cancelled, OrderRecord

\* A trader's request changes its own account, in one of the allowed ways.
LEMMA TraderAccountStep ==
    ASSUME IInv, NEW loader \in Loaders, NEW user \in Users, TraderStep(loader, user)
    PROVE  \E record : AccountStep(<<user, loader.marketKey>>, record)
  <1> DEFINE account == <<user, loader.marketKey>>
             old == orders[account]
  <1>1. /\ account \in Accounts
        /\ account[1] = user
        /\ account[2] = loader.marketKey
    BY LoaderType
  <1>2. /\ UNCHANGED serum
        /\ signer' = user
        /\ Listed(account[2])
    BY DEF TraderStep, InitOpenOrders, NewOrder, CancelOrder, SettleFunds, CloseOpenOrders,
           Trade, listingVars, Calls, Load
  <1>3. /\ old \in OrderRecord
        /\ old.open \in BOOLEAN /\ old.book \in Nat /\ old.out \in Nat /\ old.free \in Nat
    BY <1>1, OrderFields
  <1>4. CASE InitOpenOrders(loader, user)
    <2> DEFINE record == [old EXCEPT !.open = TRUE]
    <2>1. orders' = [orders EXCEPT ![account] = record]
      BY <1>4 DEF InitOpenOrders
    <2>2. record \in OrderRecord /\ record.open
      BY <1>3 DEF OrderRecord
    <2> QED
      BY <1>1, <1>2, <2>1, <2>2 DEF AccountStep
  <1>5. CASE NewOrder(loader, user)
    <2> DEFINE record == [old EXCEPT !.book = old.book + 1]
    <2>1. orders' = [orders EXCEPT ![account] = record] /\ old.open
      BY <1>5 DEF NewOrder
    <2>2. record \in OrderRecord /\ record.open
      BY <1>3, <2>1 DEF OrderRecord
    <2> QED
      BY <1>1, <1>2, <2>1, <2>2 DEF AccountStep
  <1>6. CASE CancelOrder(loader, user)
    <2> DEFINE record == Cancelled(old, 1)
    <2>1. orders' = [orders EXCEPT ![account] = record] /\ old.book > 0
      BY <1>6 DEF CancelOrder
    <2>2. old.open
      BY <1>1, <2>1, HoldsOnlyListed
    <2>3. record \in OrderRecord /\ record.open
      BY <1>3, <2>1, <2>2, CancelledRecord
    <2> QED
      BY <1>1, <1>2, <2>1, <2>3 DEF AccountStep
  <1>7. CASE SettleFunds(loader, user)
    <2> DEFINE record == [old EXCEPT !.free = 0]
    <2>1. orders' = [orders EXCEPT ![account] = record] /\ old.free > 0
      BY <1>7 DEF SettleFunds
    <2>2. old.open
      BY <1>1, <2>1, HoldsOnlyListed
    <2>3. record \in OrderRecord /\ record.open
      BY <1>3, <2>2 DEF OrderRecord
    <2> QED
      BY <1>1, <1>2, <2>1, <2>3 DEF AccountStep
  <1>8. CASE CloseOpenOrders(loader, user)
    <2>1. orders' = [orders EXCEPT ![account] = NoOpenOrders]
      BY <1>8 DEF CloseOpenOrders
    <2>2. NoOpenOrders \in OrderRecord
      BY DEF OrderRecord, NoOpenOrders
    <2> QED
      BY <1>1, <1>2, <2>1, <2>2 DEF AccountStep
  <1> QED
    BY <1>4, <1>5, <1>6, <1>7, <1>8 DEF TraderStep

\* Consuming events changes one account, in an allowed way.
LEMMA ConsumeAccountStep ==
    ASSUME IInv, NEW account \in Accounts, ConsumeEvents(account)
    PROVE  \E record : AccountStep(account, record)
  <1> DEFINE old == orders[account]
             record == [old EXCEPT !.out = 0]
  <1>1. /\ old \in OrderRecord
        /\ old.open \in BOOLEAN /\ old.book \in Nat /\ old.out \in Nat /\ old.free \in Nat
    BY OrderFields
  <1>2. orders' = [orders EXCEPT ![account] = record] /\ old.out > 0 /\ UNCHANGED serum
    BY DEF ConsumeEvents, listingVars
  <1>3. old.open /\ Listed(account[2])
    BY <1>2, HoldsOnlyListed
  <1>4. record \in OrderRecord /\ record.open /\ record.book = old.book
    BY <1>1, <1>3 DEF OrderRecord
  <1>5. ~(record.book < old.book)
    BY <1>1, <1>4
  <1>6. AccountStep(account, record)
    BY <1>2, <1>3, <1>4, <1>5 DEF AccountStep
  <1> QED
    BY <1>6

\* Here the loaders matter: the market that must have expired is the loader's.
LEMMA PruneAccountStep ==
    ASSUME IInv, LoadersMatch, NEW loader \in Loaders, NEW account \in Accounts,
           Prune(loader, account)
    PROVE  \E record : AccountStep(account, record)
  <1> DEFINE old == orders[account]
             n == AtMostLimit(old.book)
             record == Cancelled(old, n)
  <1>1. /\ old \in OrderRecord
        /\ old.open \in BOOLEAN /\ old.book \in Nat /\ old.out \in Nat /\ old.free \in Nat
    BY OrderFields
  <1>2. /\ orders' = [orders EXCEPT ![account] = record]
        /\ old.book > 0
        /\ UNCHANGED serum
        /\ ExpiredForPrune(loader.optionMarketKey)
        /\ account[2] = loader.marketKey
    BY DEF Prune, PruneKeys, listingVars, Calls
  <1>3. old.open /\ Listed(account[2])
    BY <1>2, HoldsOnlyListed
  <1>4. n \in Nat /\ n <= old.book
    BY <1>1, ProxyAssumption DEF AtMostLimit
  <1>5. record \in OrderRecord /\ record.open
    BY <1>1, <1>3, <1>4, CancelledRecord
  <1>6. Expiration[OptionMarketOf(account[2])] < now
    BY <1>2 DEF LoadersMatch, ExpiredForPrune
  <1> QED
    BY <1>2, <1>3, <1>5, <1>6 DEF AccountStep

\* Every step of the system leaves the orders alone or changes one account.
LEMMA StepEffect ==
    ASSUME IInv, LoadersMatch, [Next]_vars
    PROVE  UNCHANGED orders \/ \E account \in Accounts : \E record : AccountStep(account, record)
  <1>1. ASSUME NEW loader \in Loaders, NEW user \in Users, TraderStep(loader, user)
        PROVE  \E account \in Accounts : \E record : AccountStep(account, record)
    BY <1>1, TraderAccountStep, LoaderType
  <1>2. ASSUME NEW account \in Accounts, ConsumeEvents(account)
        PROVE  \E record : AccountStep(account, record)
    BY <1>2, ConsumeAccountStep
  <1>3. ASSUME NEW loader \in Loaders, NEW account \in Accounts, Prune(loader, account)
        PROVE  \E record : AccountStep(account, record)
    BY <1>3, PruneAccountStep
  <1> QED
    BY <1>1, <1>2, <1>3 DEF Next, CreateMintAndVault, Transfer, ListingStep, NobodyTrades, Tick,
                            CreateReferralAccount, vars, proxyVars

\* Listed markets stay listed, so what an account holds stays in one.
LEMMA StillListed ==
    ASSUME ListingTypeOK, [Next]_vars, NEW market \in SerumMarkets, Listed(market)
    PROVE  Listed(market)'
  BY ListingPart, ListingStepKeeps DEF Listed

\* Every step of the proxy keeps the invariant.
LEMMA InvariantStep ==
    ASSUME IInv, LoadersMatch, [Next]_vars
    PROVE  IInv'
  <1>1. ListingTypeOK'
    BY ListingPart, ListingNextType DEF IInv
  <1>2. OrdersType'
    BY StepEffect DEF IInv, OrdersType, AccountStep
  <1>3. OrdersInListedMarkets'
    <2> SUFFICES ASSUME NEW account \in Accounts, orders'[account] # NoOpenOrders
                 PROVE  Listed(account[2])' /\ orders'[account].open
      BY DEF OrdersInListedMarkets
    <2>1. account[2] \in SerumMarkets
      BY DEF Accounts
    <2>2. Listed(account[2]) /\ orders'[account].open
      BY StepEffect DEF IInv, OrdersType, OrdersInListedMarkets, AccountStep
    <2> QED
      BY <2>1, <2>2, StillListed DEF IInv
  <1> QED
    BY <1>1, <1>2, <1>3 DEF IInv

\* It holds at first.
LEMMA InvariantInit == Init => IInv
  <1> SUFFICES ASSUME Init PROVE IInv
    OBVIOUS
  <1>1. NoOpenOrders \in OrderRecord
    BY DEF NoOpenOrders, OrderRecord
  <1> QED
    BY <1>1, ListingInitType DEF Init, IInv, OrdersType, OrdersInListedMarkets, Accounts

\* Nobody's orders are in a market that is not there or in an account that is
\* closed, though anybody loads proxies, cancels, prunes and consumes events.
THEOREM OrdersListed == ASSUME LoadersMatch PROVE Spec => []OrdersInListedMarkets
  <1>1. IInv /\ [Next]_vars => IInv'
    BY InvariantStep
  <1> QED
    BY <1>1, InvariantInit, PTL DEF Spec, IInv

\* Before its option market has expired an order leaves the book at its owner's
\* request only, provided that clients load the option market that a DEX market was
\* listed for: the program takes their word for it.
THEOREM ActiveNotPruned == ASSUME LoadersMatch PROVE Spec => ActiveMarketsNotPruned
  <1>1. IInv /\ [Next]_vars => IInv'
    BY InvariantStep
  <1>2. IInv /\ [Next]_vars =>
          [\A account \in Accounts :
              orders'[account].book < orders[account].book =>
                  \/ Expiration[OptionMarketOf(account[2])] < now
                  \/ signer' = account[1]]_vars
    <2> SUFFICES ASSUME IInv, [Next]_vars, NEW account \in Accounts,
                        orders'[account].book < orders[account].book
                 PROVE  \/ Expiration[OptionMarketOf(account[2])] < now
                        \/ signer' = account[1]
      OBVIOUS
    <2>1. orders[account].book \in Nat
      BY OrderFields
    <2> QED
      BY <2>1, StepEffect DEF IInv, OrdersType, AccountStep
  <1> QED
    BY <1>1, <1>2, InvariantInit, PTL DEF Spec, ActiveMarketsNotPruned

\* DEX markets keep their queues while their options are traded, too.
THEOREM QueuesKeptTrading == Spec => MarketsKeepTheirQueues
  <1>1. ListingTypeOK /\ [Next]_vars =>
            [\A market \in SerumMarkets : Listed(market) => serum'[market] = serum[market]]_listingVars
    BY ListingPart, ListingStepKeeps
  <1> QED
    BY <1>1, ListingCorrect, PTL DEF Spec, MarketsKeepTheirQueues

\* And a listing refused while others trade has a reason that is still there.
THEOREM RefusalsHaveReasonsTrading == Spec => []RefusedForAReason
  <1>1. Init => ListingInv
    BY ListingInitInv DEF Init
  <1>2. ListingInv /\ [Next]_vars => ListingInv'
    BY ListingPart, ListingNextInv
  <1> QED
    BY <1>1, <1>2, PTL DEF Spec, ListingInv

-----------------------------------------------------------------------------
(* Lots *)

\* Where lots of a mint are: in the wallets, and in each open orders account of
\* a market that quotes in it on the book or free.
OrdersIn(mint) == {a \in Accounts : PcMintOf(a[2]) = mint}
Purses(mint) == ({"wallet"} \X Users) \cup ({"book", "free"} \X OrdersIn(mint))

\* How many each of them has, wallets being w and open orders accounts o.
Held(w, o, mint) ==
    [p \in Purses(mint) |->
        IF p[1] = "wallet" THEN w[p[2]][mint]
        ELSE IF p[1] = "book" THEN o[p[2]].book ELSE o[p[2]].free]

AmountsType(w, o) ==
    /\ w \in [Users -> [PcMints -> Nat]]
    /\ o \in [Accounts -> OrderRecord]

\* There are a vault's worth of lots of every mint that has been created.
Conserved(w, o, created) ==
    \A mint \in PcMints :
        LET lots == Units(Held(w, o, mint), Purses(mint))
        IN  IsFiniteSet(lots) /\ Cardinality(lots) = IF mint \in created THEN Vault ELSE 0

SlotsKept(o) == \A a \in Accounts : o[a].book + o[a].out <= Slots

TradingInv ==
    /\ ListingTypeOK
    /\ now \in 0..MaxTime
    /\ AmountsType(wallet, orders)
    /\ SlotsKept(orders)
    /\ Conserved(wallet, orders, mints)
    /\ referral \subseteq mints
    /\ signer \in Users \cup {Nobody}

\* The purses of a mint.
LEMMA PurseIs ==
    ASSUME NEW mint, NEW p \in Purses(mint)
    PROVE  \/ \E u \in Users : p = <<"wallet", u>>
           \/ \E a \in OrdersIn(mint) : p = <<"book", a>> \/ p = <<"free", a>>
  BY DEF Purses

\* And they are all purses.
LEMMA ArePurses ==
    ASSUME NEW mint
    PROVE  /\ \A u \in Users : <<"wallet", u>> \in Purses(mint)
           /\ \A a \in OrdersIn(mint) : <<"book", a>> \in Purses(mint) /\ <<"free", a>> \in Purses(mint)
  BY DEF Purses

\* It is a number.
LEMMA PurseNumber ==
    ASSUME NEW w, NEW o, AmountsType(w, o), NEW mint \in PcMints, NEW p \in Purses(mint)
    PROVE  Held(w, o, mint)[p] \in Nat
  <1>1. ASSUME NEW u \in Users, p = <<"wallet", u>>
        PROVE  Held(w, o, mint)[p] \in Nat
    <2>1. Held(w, o, mint)[p] = w[u][mint]
      BY <1>1, ArePurses DEF Held
    <2> QED
      BY <2>1 DEF AmountsType
  <1>2. ASSUME NEW a \in OrdersIn(mint), p = <<"book", a>> \/ p = <<"free", a>>
        PROVE  Held(w, o, mint)[p] \in Nat
    <2>1. o[a] \in OrderRecord
      BY DEF AmountsType, OrdersIn
    <2>2. o[a].book \in Nat /\ o[a].free \in Nat
      BY <2>1 DEF OrderRecord
    <2>3. /\ Held(w, o, mint)[<<"book", a>>] = o[a].book
          /\ Held(w, o, mint)[<<"free", a>>] = o[a].free
      BY ArePurses DEF Held
    <2> QED
      BY <1>2, <2>2, <2>3
  <1> QED
    BY <1>1, <1>2, PurseIs

\* A purse is as full as the wallet or the account it stands for.
LEMMA SamePurse ==
    ASSUME NEW w, NEW o, NEW w2, NEW o2, NEW mint \in PcMints, NEW p \in Purses(mint),
           \A u \in Users : p = <<"wallet", u>> => w2[u][mint] = w[u][mint],
           \A a \in OrdersIn(mint) : p = <<"book", a>> => o2[a].book = o[a].book,
           \A a \in OrdersIn(mint) : p = <<"free", a>> => o2[a].free = o[a].free
    PROVE  Held(w2, o2, mint)[p] = Held(w, o, mint)[p]
  <1>1. ASSUME NEW u \in Users, p = <<"wallet", u>>
        PROVE  Held(w2, o2, mint)[p] = Held(w, o, mint)[p]
    BY <1>1, ArePurses DEF Held
  <1>2. ASSUME NEW a \in OrdersIn(mint), p = <<"book", a>>
        PROVE  Held(w2, o2, mint)[p] = Held(w, o, mint)[p]
    BY <1>2, ArePurses DEF Held
  <1>3. ASSUME NEW a \in OrdersIn(mint), p = <<"free", a>>
        PROVE  Held(w2, o2, mint)[p] = Held(w, o, mint)[p]
    BY <1>3, ArePurses DEF Held
  <1> QED
    BY <1>1, <1>2, <1>3, PurseIs

\* n lots of one mint go from purse x to purse y.
Moved(w, o, w2, o2, mint, x, y, n) ==
    /\ x \in Purses(mint) /\ y \in Purses(mint) /\ x # y
    /\ Held(w, o, mint)[x] = Held(w2, o2, mint)[x] + n
    /\ Held(w2, o2, mint)[y] = Held(w, o, mint)[y] + n
    /\ \A k \in PcMints : \A p \in Purses(k) :
          k # mint \/ (p # x /\ p # y) => Held(w2, o2, k)[p] = Held(w, o, k)[p]

\* That neither creates nor destroys any.
LEMMA LotsMoved ==
    ASSUME NEW w, NEW o, NEW w2, NEW o2, NEW created,
           AmountsType(w, o), AmountsType(w2, o2), Conserved(w, o, created),
           NEW mint \in PcMints, NEW x, NEW y, NEW n \in Nat,
           Moved(w, o, w2, o2, mint, x, y, n)
    PROVE  Conserved(w2, o2, created)
  <1> SUFFICES ASSUME NEW k \in PcMints
               PROVE  /\ IsFiniteSet(Units(Held(w2, o2, k), Purses(k)))
                      /\ Cardinality(Units(Held(w2, o2, k), Purses(k)))
                            = IF k \in created THEN Vault ELSE 0
    BY DEF Conserved
  <1> DEFINE b == Held(w, o, k)
             b2 == Held(w2, o2, k)
             S == Purses(k)
  <1>1. /\ IsFiniteSet(Units(b, S))
        /\ Cardinality(Units(b, S)) = IF k \in created THEN Vault ELSE 0
    BY DEF Conserved
  <1>2. CASE k # mint
    <2>1. \A p \in S : b2[p] = b[p]
      BY <1>2 DEF Moved
    <2> HIDE DEF b, b2, S
    <2>2. Units(b2, S) = Units(b, S)
      BY <2>1, SameUnits
    <2> QED
      BY <1>1, <2>2 DEF b, b2, S
  <1>3. CASE k = mint
    <2>1. \A p \in S : b[p] \in Nat /\ b2[p] \in Nat
      BY PurseNumber
    <2>2. /\ x \in S /\ y \in S
          /\ \A p \in S : p # x /\ p # y => b2[p] = b[p]
          /\ x # y
          /\ b[x] = b2[x] + n /\ b2[y] = b[y] + n
      BY <1>3 DEF Moved
    <2> HIDE DEF b, b2, S
    <2>3. IsFiniteSet(Units(b2, S)) /\ Cardinality(Units(b2, S)) = Cardinality(Units(b, S))
      BY <1>1, <2>1, <2>2, UnitsMoved
    <2> QED
      BY <1>1, <2>3 DEF b, b2, S
  <1> QED
    BY <1>2, <1>3

\* n lots on the book of one open orders account are freed.
Freed(o, o2, account, n) ==
    /\ \A a \in Accounts : a # account => o2[a] = o[a]
    /\ o[account].book = o2[account].book + n
    /\ o2[account].free = o[account].free + n

\* They are still there.
LEMMA LotsFreed ==
    ASSUME NEW w, NEW o, NEW o2, NEW created, AmountsType(w, o), Conserved(w, o, created),
           NEW mint \in PcMints, NEW account \in OrdersIn(mint), NEW n \in Nat,
           AmountsType(w, o2), Freed(o, o2, account, n)
    PROVE  Conserved(w, o2, created)
  <1> USE DEF Freed
  <1> DEFINE x == <<"book", account>>
             y == <<"free", account>>
  <1>1. x \in Purses(mint) /\ y \in Purses(mint) /\ x # y
    BY ArePurses
  <1>2. /\ Held(w, o, mint)[x] = o[account].book /\ Held(w, o2, mint)[x] = o2[account].book
        /\ Held(w, o, mint)[y] = o[account].free /\ Held(w, o2, mint)[y] = o2[account].free
    BY ArePurses DEF Held
  <1>3. ASSUME NEW k \in PcMints, NEW p \in Purses(k), p # x, p # y
        PROVE  Held(w, o2, k)[p] = Held(w, o, k)[p]
    BY <1>3, SamePurse DEF OrdersIn
  <1>4. ASSUME NEW k \in PcMints, NEW p \in Purses(k), k # mint
        PROVE  p # x /\ p # y
    BY <1>4 DEF Purses, OrdersIn
  <1>5. Moved(w, o, w, o2, mint, x, y, n)
    BY <1>1, <1>2, <1>3, <1>4 DEF Moved
  <1> HIDE DEF x, y
  <1> QED
    BY <1>5, LotsMoved

\* n lots go from a wallet to the book.
Ordered(w, o, w2, o2, user, mint, account, n) ==
    /\ \A u \in Users, k \in PcMints : u # user \/ k # mint => w2[u][k] = w[u][k]
    /\ \A a \in Accounts : a # account => o2[a] = o[a]
    /\ w[user][mint] = w2[user][mint] + n
    /\ o2[account].book = o[account].book + n
    /\ o2[account].free = o[account].free

\* They are still there.
LEMMA LotsOrdered ==
    ASSUME NEW w, NEW o, NEW w2, NEW o2, NEW created,
           AmountsType(w, o), Conserved(w, o, created), AmountsType(w2, o2),
           NEW user \in Users, NEW mint \in PcMints, NEW account \in OrdersIn(mint),
           NEW n \in Nat, Ordered(w, o, w2, o2, user, mint, account, n)
    PROVE  Conserved(w2, o2, created)
  <1> USE DEF Ordered
  <1> DEFINE x == <<"wallet", user>>
             y == <<"book", account>>
  <1>1. x \in Purses(mint) /\ y \in Purses(mint) /\ x # y
    BY ArePurses
  <1>2. /\ Held(w, o, mint)[x] = w[user][mint] /\ Held(w2, o2, mint)[x] = w2[user][mint]
        /\ Held(w, o, mint)[y] = o[account].book /\ Held(w2, o2, mint)[y] = o2[account].book
    BY ArePurses DEF Held
  <1>3. ASSUME NEW k \in PcMints, NEW p \in Purses(k), k # mint \/ p # x, p # y
        PROVE  Held(w2, o2, k)[p] = Held(w, o, k)[p]
    BY <1>3, SamePurse DEF OrdersIn
  <1>4. ASSUME NEW k \in PcMints, NEW p \in Purses(k), k # mint
        PROVE  p # y
    BY <1>4 DEF Purses, OrdersIn
  <1>5. Moved(w, o, w2, o2, mint, x, y, n)
    BY <1>1, <1>2, <1>3, <1>4 DEF Moved
  <1> HIDE DEF x, y
  <1> QED
    BY <1>5, LotsMoved

\* n lots that are free go back to the wallet.
Settled(w, o, w2, o2, user, mint, account, n) ==
    /\ \A u \in Users, k \in PcMints : u # user \/ k # mint => w2[u][k] = w[u][k]
    /\ \A a \in Accounts : a # account => o2[a] = o[a]
    /\ w2[user][mint] = w[user][mint] + n
    /\ o[account].free = o2[account].free + n
    /\ o2[account].book = o[account].book

\* They are still there.
LEMMA LotsSettled ==
    ASSUME NEW w, NEW o, NEW w2, NEW o2, NEW created,
           AmountsType(w, o), Conserved(w, o, created), AmountsType(w2, o2),
           NEW user \in Users, NEW mint \in PcMints, NEW account \in OrdersIn(mint),
           NEW n \in Nat, Settled(w, o, w2, o2, user, mint, account, n)
    PROVE  Conserved(w2, o2, created)
  <1> USE DEF Settled
  <1> DEFINE x == <<"free", account>>
             y == <<"wallet", user>>
  <1>1. x \in Purses(mint) /\ y \in Purses(mint) /\ x # y
    BY ArePurses
  <1>2. /\ Held(w, o, mint)[x] = o[account].free /\ Held(w2, o2, mint)[x] = o2[account].free
        /\ Held(w, o, mint)[y] = w[user][mint] /\ Held(w2, o2, mint)[y] = w2[user][mint]
    BY ArePurses DEF Held
  <1>3. ASSUME NEW k \in PcMints, NEW p \in Purses(k), k # mint \/ p # y, p # x
        PROVE  Held(w2, o2, k)[p] = Held(w, o, k)[p]
    BY <1>3, SamePurse DEF OrdersIn
  <1>4. ASSUME NEW k \in PcMints, NEW p \in Purses(k), k # mint
        PROVE  p # x
    BY <1>4 DEF Purses, OrdersIn
  <1>5. Moved(w, o, w2, o2, mint, x, y, n)
    BY <1>1, <1>2, <1>3, <1>4 DEF Moved
  <1> HIDE DEF x, y
  <1> QED
    BY <1>5, LotsMoved

\* n lots go from one wallet to another.
Sent(w, w2, from, to, mint, n) ==
    /\ \A u \in Users, k \in PcMints :
          (u # from /\ u # to) \/ k # mint => w2[u][k] = w[u][k]
    /\ w[from][mint] = w2[from][mint] + n
    /\ w2[to][mint] = w[to][mint] + n

\* They are still there.
LEMMA LotsSent ==
    ASSUME NEW w, NEW o, NEW w2, NEW created,
           AmountsType(w, o), Conserved(w, o, created), AmountsType(w2, o),
           NEW from \in Users, NEW to \in Users, from # to, NEW mint \in PcMints,
           NEW n \in Nat, Sent(w, w2, from, to, mint, n)
    PROVE  Conserved(w2, o, created)
  <1> USE DEF Sent
  <1> DEFINE x == <<"wallet", from>>
             y == <<"wallet", to>>
  <1>1. x \in Purses(mint) /\ y \in Purses(mint) /\ x # y
    BY ArePurses
  <1>2. /\ Held(w, o, mint)[x] = w[from][mint] /\ Held(w2, o, mint)[x] = w2[from][mint]
        /\ Held(w, o, mint)[y] = w[to][mint] /\ Held(w2, o, mint)[y] = w2[to][mint]
    BY ArePurses DEF Held
  <1>3. ASSUME NEW k \in PcMints, NEW p \in Purses(k), k # mint \/ (p # x /\ p # y)
        PROVE  Held(w2, o, k)[p] = Held(w, o, k)[p]
    BY <1>3, SamePurse
  <1>4. Moved(w, o, w2, o, mint, x, y, n)
    BY <1>1, <1>2, <1>3 DEF Moved
  <1> HIDE DEF x, y
  <1> QED
    BY <1>4, LotsMoved

\* A vault of lots is put into one wallet.
VaultPut(w, w2, owner, mint) ==
    /\ \A u \in Users, k \in PcMints : u # owner \/ k # mint => w2[u][k] = w[u][k]
    /\ w2[owner][mint] = Vault

\* For a mint that is created with it, these are all.
LEMMA VaultCreated ==
    ASSUME NEW w, NEW o, NEW w2, NEW created,
           AmountsType(w, o), Conserved(w, o, created), AmountsType(w2, o),
           NEW owner \in Users, NEW mint \in PcMints, mint \notin created,
           VaultPut(w, w2, owner, mint)
    PROVE  Conserved(w2, o, created \cup {mint})
  <1> SUFFICES ASSUME NEW k \in PcMints
               PROVE  /\ IsFiniteSet(Units(Held(w2, o, k), Purses(k)))
                      /\ Cardinality(Units(Held(w2, o, k), Purses(k)))
                            = IF k \in created \cup {mint} THEN Vault ELSE 0
    BY DEF Conserved
  <1> USE DEF VaultPut
  <1> DEFINE b == Held(w, o, k)
             b2 == Held(w2, o, k)
             S == Purses(k)
             x == <<"wallet", owner>>
  <1>1. /\ IsFiniteSet(Units(b, S))
        /\ Cardinality(Units(b, S)) = IF k \in created THEN Vault ELSE 0
    BY DEF Conserved
  <1>2. x \in S
    BY ArePurses
  <1>3. ASSUME NEW p \in S, k # mint \/ p # x
        PROVE  b2[p] = b[p]
    BY <1>3, SamePurse
  <1>4. CASE k # mint
    <2>1. \A p \in S : b2[p] = b[p]
      BY <1>3, <1>4
    <2> HIDE DEF b, b2, S
    <2>2. Units(b2, S) = Units(b, S)
      BY <2>1, SameUnits
    <2> QED
      BY <1>1, <1>4, <2>2 DEF b, b2, S
  <1>5. CASE k = mint
    <2>1. \A p \in S : b[p] \in Nat
      BY PurseNumber
    <2>2. \A p \in S : p # x => b2[p] = b[p]
      BY <1>3
    <2>3. b2[x] = Vault /\ b[x] = w[owner][mint]
      BY <1>5, ArePurses DEF Held
    <2>4. Vault \in Nat
      BY ProxyAssumption
    <2> HIDE DEF b, b2, S, x
    <2>5. b[x] <= Cardinality(Units(b, S))
      BY <1>1, <1>2, <2>1, UnitsOfOne
    <2>6. Cardinality(Units(b, S)) = 0
      BY <1>1, <1>5
    <2>7. b2[x] = b[x] + Vault
      BY <1>2, <2>1, <2>3, <2>4, <2>5, <2>6
    <2>8. /\ IsFiniteSet(Units(b2, S))
          /\ Cardinality(Units(b2, S)) = Cardinality(Units(b, S)) + Vault
      BY <1>1, <1>2, <2>1, <2>2, <2>4, <2>7, UnitsAdded
    <2> QED
      BY <1>5, <2>4, <2>6, <2>8 DEF b, b2, S
  <1> QED
    BY <1>4, <1>5

\* No purse holds more than the vault.
LEMMA PurseBound ==
    ASSUME TradingInv, NEW mint \in PcMints, NEW p \in Purses(mint)
    PROVE  /\ Held(wallet, orders, mint)[p] \in 0..Vault
           /\ mint \notin mints => Held(wallet, orders, mint)[p] = 0
  <1> DEFINE b == Held(wallet, orders, mint)
             S == Purses(mint)
  <1>1. /\ IsFiniteSet(Units(b, S))
        /\ Cardinality(Units(b, S)) = IF mint \in mints THEN Vault ELSE 0
    BY DEF TradingInv, Conserved
  <1>2. b[p] \in Nat
    BY PurseNumber DEF TradingInv
  <1>3. Vault \in Nat
    BY ProxyAssumption
  <1> HIDE DEF b, S
  <1>4. p \in S
    BY DEF S
  <1>5. b[p] <= Cardinality(Units(b, S))
    BY <1>1, <1>2, <1>4, UnitsOfOne
  <1>6. b[p] \in 0..Vault /\ (mint \notin mints => b[p] = 0)
    BY <1>1, <1>2, <1>3, <1>5
  <1> QED
    BY <1>6 DEF b

\* So the amounts are in the bounds of their types.
LEMMA AmountsBounded ==
    ASSUME TradingInv
    PROVE  TypeOK
  <1>1. ASSUME NEW u \in Users, NEW mint \in PcMints
        PROVE  wallet[u][mint] \in 0..Vault
    <2>1. <<"wallet", u>> \in Purses(mint)
      BY ArePurses
    <2>2. Held(wallet, orders, mint)[<<"wallet", u>>] = wallet[u][mint]
      BY <2>1 DEF Held
    <2> QED
      BY <2>1, <2>2, PurseBound
  <1>2. wallet \in [Users -> [PcMints -> 0..Vault]]
    BY <1>1 DEF TradingInv, AmountsType
  <1>3. ASSUME NEW a \in Accounts
        PROVE  orders[a] \in [open : BOOLEAN, book : 0..Slots, out : 0..Slots, free : 0..Vault]
    <2>1. orders[a] \in OrderRecord
      BY DEF TradingInv, AmountsType
    <2>2. orders[a].book \in Nat /\ orders[a].out \in Nat
      BY <2>1 DEF OrderRecord
    <2>3. orders[a].book + orders[a].out <= Slots /\ Slots \in Nat
      BY ProxyAssumption DEF TradingInv, SlotsKept
    <2>4. orders[a].book \in 0..Slots /\ orders[a].out \in 0..Slots
      BY <2>2, <2>3
    <2>5. orders[a].free \in 0..Vault
      <3> DEFINE mint == PcMintOf(a[2])
      <3>1. mint \in PcMints /\ a \in OrdersIn(mint)
        BY DEF Accounts, SerumMarkets, PcMintOf, OrdersIn
      <3> HIDE DEF mint
      <3>2. <<"free", a>> \in Purses(mint)
        BY <3>1, ArePurses
      <3>3. Held(wallet, orders, mint)[<<"free", a>>] = orders[a].free
        BY <3>2 DEF Held
      <3> QED
        BY <3>1, <3>2, <3>3, PurseBound
    <2> QED
      BY <2>1, <2>4, <2>5 DEF OrderRecord
  <1>4. orders \in [Users \X SerumMarkets ->
                       [open : BOOLEAN, book : 0..Slots, out : 0..Slots, free : 0..Vault]]
    BY <1>3 DEF TradingInv, AmountsType, Accounts
  <1> QED
    BY <1>2, <1>4 DEF TradingInv, TypeOK

\* What a step leaves is counted as before.
AmountsKept ==
    /\ AmountsType(wallet', orders')
    /\ SlotsKept(orders')
    /\ Conserved(wallet', orders', mints')

\* An order that is cancelled or consumed, and an account that is closed, leave
\* wallets alone and free what leaves the book.
LEMMA RecordKept ==
    ASSUME TradingInv, NEW account \in Accounts, NEW record \in OrderRecord, NEW n \in Nat,
           orders' = [orders EXCEPT ![account] = record],
           UNCHANGED <<wallet, mints>>,
           orders[account].book = record.book + n,
           record.free = orders[account].free + n,
           record.book + record.out <= orders[account].book + orders[account].out
    PROVE  AmountsKept
  <1>1. /\ orders'[account] = record
        /\ \A a \in Accounts : a # account => orders'[a] = orders[a]
        /\ AmountsType(wallet', orders')
    BY DEF TradingInv, AmountsType
  <1>2. orders[account] \in OrderRecord
    BY DEF TradingInv, AmountsType
  <1>3. SlotsKept(orders')
    <2> SUFFICES ASSUME NEW a \in Accounts PROVE orders'[a].book + orders'[a].out <= Slots
      BY DEF SlotsKept
    <2>1. orders[a].book + orders[a].out <= Slots
      BY DEF TradingInv, SlotsKept
    <2>2. CASE a # account
      BY <1>1, <2>1, <2>2
    <2>3. CASE a = account
      <3>1. /\ record.book \in Nat /\ record.out \in Nat /\ Slots \in Nat
            /\ orders[account].book \in Nat /\ orders[account].out \in Nat
        BY <1>2, ProxyAssumption DEF OrderRecord
      <3> QED
        BY <1>1, <2>1, <2>3, <3>1
    <2> QED
      BY <2>2, <2>3
  <1>4. Conserved(wallet', orders', mints')
    <2> DEFINE mint == PcMintOf(account[2])
    <2>1. mint \in PcMints /\ account \in OrdersIn(mint)
      BY DEF Accounts, SerumMarkets, PcMintOf, OrdersIn
    <2> HIDE DEF mint
    <2>2. AmountsType(wallet, orders) /\ Conserved(wallet, orders, mints)
      BY DEF TradingInv
    <2>3. AmountsType(wallet, orders')
      BY <1>1
    <2>4. Freed(orders, orders', account, n)
      BY <1>1 DEF Freed
    <2>5. Conserved(wallet, orders', mints)
      BY <2>1, <2>2, <2>3, <2>4, LotsFreed
    <2> QED
      BY <2>5
  <1> QED
    BY <1>1, <1>3, <1>4 DEF AmountsKept

\* Of n orders that are cancelled.
LEMMA CancelKept ==
    ASSUME TradingInv, NEW account \in Accounts, NEW n \in Nat, n <= orders[account].book,
           orders' = [orders EXCEPT ![account] = Cancelled(orders[account], n)],
           UNCHANGED <<wallet, mints>>
    PROVE  AmountsKept
  <1> DEFINE old == orders[account]
             record == Cancelled(old, n)
  <1>1. old \in OrderRecord
    BY DEF TradingInv, AmountsType
  <1>2. old.open \in BOOLEAN /\ old.book \in Nat /\ old.out \in Nat /\ old.free \in Nat
    BY <1>1 DEF OrderRecord
  <1>3. /\ record \in OrderRecord
        /\ record.book = old.book - n
        /\ record.out = old.out + n
        /\ record.free = old.free + n
    BY <1>2 DEF Cancelled, OrderRecord
  <1> HIDE DEF record
  <1>4. /\ old.book = record.book + n
        /\ record.book + record.out <= old.book + old.out
    BY <1>2, <1>3
  <1> QED
    BY <1>3, <1>4, RecordKept DEF record

\* Each request of a trader.
LEMMA TraderKept ==
    ASSUME TradingInv, NEW loader \in Loaders, NEW user \in Users, TraderStep(loader, user)
    PROVE  AmountsKept
  <1> DEFINE account == <<user, loader.marketKey>>
             old == orders[account]
             mint == PcMintOf(loader.marketKey)
  <1>1. /\ account \in Accounts
        /\ account[2] = loader.marketKey
        /\ mint \in PcMints
        /\ account \in OrdersIn(mint)
    BY LoaderType DEF OrdersIn, PcMintOf, SerumMarkets
  <1>2. old \in OrderRecord
    BY <1>1 DEF TradingInv, AmountsType
  <1>3. /\ old.open \in BOOLEAN /\ old.book \in Nat /\ old.out \in Nat /\ old.free \in Nat
    BY <1>2 DEF OrderRecord
  <1>4. UNCHANGED mints
    BY DEF TraderStep, InitOpenOrders, NewOrder, CancelOrder, SettleFunds, CloseOpenOrders,
           Trade, listingVars
  <1>5. CASE InitOpenOrders(loader, user)
    <2> DEFINE record == [old EXCEPT !.open = TRUE]
    <2>1. orders' = [orders EXCEPT ![account] = record] /\ UNCHANGED wallet
      BY <1>5 DEF InitOpenOrders
    <2>2. /\ record \in OrderRecord
          /\ record.book = old.book /\ record.out = old.out /\ record.free = old.free
      BY <1>2, <1>3 DEF OrderRecord
    <2> HIDE DEF record
    <2>3. /\ old.book = record.book + 0 /\ record.free = old.free + 0
          /\ record.book + record.out <= old.book + old.out
      BY <1>3, <2>2
    <2> QED
      BY <1>1, <1>4, <2>1, <2>2, <2>3, RecordKept DEF record
  <1>6. CASE CancelOrder(loader, user)
    <2>1. /\ orders' = [orders EXCEPT ![account] = Cancelled(old, 1)]
          /\ UNCHANGED wallet
          /\ old.book > 0
      BY <1>6 DEF CancelOrder
    <2>2. 1 <= old.book
      BY <1>3, <2>1
    <2> QED
      BY <1>1, <1>4, <2>1, <2>2, CancelKept
  <1>7. CASE CloseOpenOrders(loader, user)
    <2>1. /\ orders' = [orders EXCEPT ![account] = NoOpenOrders] /\ UNCHANGED wallet
          /\ old.book = 0 /\ old.out = 0 /\ old.free = 0
      BY <1>7 DEF CloseOpenOrders, NoOpenOrders
    <2>2. /\ NoOpenOrders \in OrderRecord
          /\ NoOpenOrders.book = 0 /\ NoOpenOrders.out = 0 /\ NoOpenOrders.free = 0
      BY DEF NoOpenOrders, OrderRecord
    <2>3. /\ old.book = NoOpenOrders.book + 0 /\ NoOpenOrders.free = old.free + 0
          /\ NoOpenOrders.book + NoOpenOrders.out <= old.book + old.out
      BY <2>1, <2>2
    <2> QED
      BY <1>1, <1>4, <2>1, <2>2, <2>3, RecordKept
  <1>8. CASE NewOrder(loader, user)
    <2>1. /\ RoomFor(account)
          /\ wallet[user][mint] > 0
          /\ wallet' = [wallet EXCEPT ![user][mint] = @ - 1]
          /\ orders' = [orders EXCEPT ![account] = [old EXCEPT !.book = old.book + 1]]
      BY <1>8 DEF NewOrder
    <2>2. /\ orders'[account] = [old EXCEPT !.book = old.book + 1]
          /\ \A a \in Accounts : a # account => orders'[a] = orders[a]
      BY <1>1, <2>1 DEF TradingInv, AmountsType
    <2>3. /\ orders'[account] \in OrderRecord
          /\ orders'[account].book = old.book + 1
          /\ orders'[account].free = old.free
          /\ orders'[account].out = old.out
      BY <1>2, <1>3, <2>2 DEF OrderRecord
    <2>4. /\ wallet[user][mint] = wallet'[user][mint] + 1
          /\ \A u \in Users, k \in PcMints : u # user \/ k # mint => wallet'[u][k] = wallet[u][k]
      BY <1>1, <2>1 DEF TradingInv, AmountsType
    <2>5. orders' \in [Accounts -> OrderRecord]
      BY <1>1, <2>1, <2>2, <2>3 DEF TradingInv, AmountsType
    <2>6. wallet' \in [Users -> [PcMints -> Nat]]
      BY <1>1, <2>1 DEF TradingInv, AmountsType
    <2>7. AmountsType(wallet', orders')
      BY <2>5, <2>6 DEF AmountsType
    <2>8. AmountsType(wallet, orders) /\ Conserved(wallet, orders, mints)
      BY DEF TradingInv
    <2>9. Ordered(wallet, orders, wallet', orders', user, mint, account, 1)
      BY <2>2, <2>3, <2>4 DEF Ordered
    <2> HIDE DEF account, mint
    <2>10. Conserved(wallet', orders', mints)
      BY <1>1, <2>7, <2>8, <2>9, LotsOrdered
    <2>11. SlotsKept(orders')
      <3> SUFFICES ASSUME NEW a \in Accounts PROVE orders'[a].book + orders'[a].out <= Slots
        BY DEF SlotsKept
      <3>1. CASE a # account
        BY <2>2, <3>1 DEF TradingInv, SlotsKept
      <3>2. CASE a = account
        BY <1>3, <2>1, <2>3, <3>2, ProxyAssumption DEF RoomFor, old
      <3> QED
        BY <3>1, <3>2
    <2> QED
      BY <1>4, <2>7, <2>10, <2>11 DEF AmountsKept
  <1>9. CASE SettleFunds(loader, user)
    <2>1. /\ wallet' = [wallet EXCEPT ![user][mint] = @ + old.free]
          /\ orders' = [orders EXCEPT ![account] = [old EXCEPT !.free = 0]]
      BY <1>9 DEF SettleFunds
    <2>2. /\ orders'[account] = [old EXCEPT !.free = 0]
          /\ \A a \in Accounts : a # account => orders'[a] = orders[a]
      BY <1>1, <2>1 DEF TradingInv, AmountsType
    <2>3. /\ orders'[account] \in OrderRecord
          /\ orders'[account].book = old.book
          /\ orders'[account].out = old.out
          /\ old.free = orders'[account].free + old.free
      BY <1>2, <1>3, <2>2 DEF OrderRecord
    <2>4. /\ wallet'[user][mint] = wallet[user][mint] + old.free
          /\ \A u \in Users, k \in PcMints : u # user \/ k # mint => wallet'[u][k] = wallet[u][k]
      BY <1>1, <2>1 DEF TradingInv, AmountsType
    <2>5. orders' \in [Accounts -> OrderRecord]
      BY <1>1, <2>1, <2>2, <2>3 DEF TradingInv, AmountsType
    <2>6. wallet' \in [Users -> [PcMints -> Nat]]
      BY <1>1, <1>3, <2>1 DEF TradingInv, AmountsType
    <2>7. AmountsType(wallet', orders')
      BY <2>5, <2>6 DEF AmountsType
    <2>8. AmountsType(wallet, orders) /\ Conserved(wallet, orders, mints)
      BY DEF TradingInv
    <2>9. Settled(wallet, orders, wallet', orders', user, mint, account, old.free)
      BY <2>2, <2>3, <2>4 DEF Settled
    <2> HIDE DEF account, mint, old
    <2>10. Conserved(wallet', orders', mints)
      BY <1>1, <1>3, <2>7, <2>8, <2>9, LotsSettled
    <2>11. SlotsKept(orders')
      <3> SUFFICES ASSUME NEW a \in Accounts PROVE orders'[a].book + orders'[a].out <= Slots
        BY DEF SlotsKept
      <3>1. orders'[a].book = orders[a].book /\ orders'[a].out = orders[a].out
        BY <2>2, <2>3 DEF old
      <3> QED
        BY <3>1 DEF TradingInv, SlotsKept
    <2> QED
      BY <1>4, <2>7, <2>10, <2>11 DEF AmountsKept
  <1> QED
    BY <1>5, <1>6, <1>7, <1>8, <1>9 DEF TraderStep

\* Every step.
LEMMA StepKept ==
    ASSUME TradingInv, [Next]_vars
    PROVE  AmountsKept
  <1> USE DEF AmountsKept
  <1>1. AmountsType(wallet, orders) /\ SlotsKept(orders) /\ Conserved(wallet, orders, mints)
    BY DEF TradingInv
  <1>2. ASSUME NEW owner \in Users, NEW mint \in PcMints, CreateMintAndVault(owner, mint)
        PROVE  AmountsKept
    <2>1. /\ mint \notin mints /\ mints' = mints \cup {mint}
          /\ wallet' = [wallet EXCEPT ![owner][mint] = Vault]
          /\ UNCHANGED orders
      BY <1>2 DEF CreateMintAndVault, CreateMint
    <2>2. wallet' \in [Users -> [PcMints -> Nat]]
      BY <1>1, <2>1, ProxyAssumption DEF AmountsType
    <2>3. VaultPut(wallet, wallet', owner, mint)
      BY <1>1, <2>1 DEF AmountsType, VaultPut
    <2>4. AmountsType(wallet', orders)
      BY <1>1, <2>2 DEF AmountsType
    <2>5. Conserved(wallet', orders, mints \cup {mint})
      BY <1>1, <2>1, <2>3, <2>4, VaultCreated
    <2> QED
      BY <1>1, <2>1, <2>4, <2>5
  <1>3. ASSUME NEW from \in Users, NEW to \in Users, NEW mint \in PcMints, Transfer(from, to, mint)
        PROVE  AmountsKept
    <2>1. /\ from # to /\ wallet[from][mint] > 0
          /\ wallet' = [wallet EXCEPT ![from][mint] = @ - 1, ![to][mint] = @ + 1]
          /\ UNCHANGED <<mints, orders>>
      BY <1>3 DEF Transfer, listingVars
    <2>2. wallet' \in [Users -> [PcMints -> Nat]]
      <3> DEFINE w1 == [wallet EXCEPT ![from][mint] = @ - 1]
      <3>1. w1 \in [Users -> [PcMints -> Nat]]
        BY <1>1, <2>1 DEF AmountsType
      <3>2. wallet' = [w1 EXCEPT ![to][mint] = @ + 1]
        BY <2>1
      <3> HIDE DEF w1
      <3> QED
        BY <3>1, <3>2
    <2>3. Sent(wallet, wallet', from, to, mint, 1)
      BY <1>1, <2>1 DEF AmountsType, Sent
    <2>4. AmountsType(wallet', orders)
      BY <1>1, <2>2 DEF AmountsType
    <2>5. Conserved(wallet', orders, mints)
      BY <1>1, <2>1, <2>3, <2>4, LotsSent
    <2> QED
      BY <1>1, <2>1, <2>4, <2>5
  <1>4. ASSUME NEW loader \in Loaders, NEW user \in Users, TraderStep(loader, user)
        PROVE  AmountsKept
    BY <1>4, TraderKept
  <1>5. ASSUME NEW account \in Accounts, ConsumeEvents(account)
        PROVE  AmountsKept
    <2> DEFINE old == orders[account]
               record == [old EXCEPT !.out = 0]
    <2>1. old \in OrderRecord
      BY <1>1 DEF AmountsType
    <2>2. old.open \in BOOLEAN /\ old.book \in Nat /\ old.out \in Nat /\ old.free \in Nat
      BY <2>1 DEF OrderRecord
    <2>3. orders' = [orders EXCEPT ![account] = record] /\ UNCHANGED <<wallet, mints>>
      BY <1>5 DEF ConsumeEvents, listingVars
    <2>4. /\ record \in OrderRecord
          /\ record.book = old.book /\ record.out = 0 /\ record.free = old.free
      BY <2>1, <2>2 DEF OrderRecord
    <2> HIDE DEF record
    <2>5. /\ old.book = record.book + 0 /\ record.free = old.free + 0
          /\ record.book + record.out <= old.book + old.out
      BY <2>2, <2>4
    <2> QED
      BY <2>3, <2>4, <2>5, RecordKept DEF record
  <1>6. ASSUME NEW loader \in Loaders, NEW account \in Accounts, Prune(loader, account)
        PROVE  AmountsKept
    <2> DEFINE n == AtMostLimit(orders[account].book)
    <2>1. orders[account] \in OrderRecord
      BY <1>1 DEF AmountsType
    <2>2. n \in Nat /\ n <= orders[account].book
      BY <2>1, ProxyAssumption DEF AtMostLimit, OrderRecord
    <2>3. /\ orders' = [orders EXCEPT ![account] = Cancelled(orders[account], n)]
          /\ UNCHANGED <<wallet, mints>>
      BY <1>6 DEF Prune, listingVars
    <2> QED
      BY <2>2, <2>3, CancelKept
  <1>7. CASE UNCHANGED <<wallet, orders, mints>>
    BY <1>1, <1>7
  <1>8. ASSUME ListingStep PROVE UNCHANGED <<wallet, orders, mints>>
    <2>1. (\E l \in Listers : ListMarket(l)) => UNCHANGED mints
      BY DEF ListMarket, CreateFirstSetOfAccounts, InitSerum
    <2>2. OthersList => UNCHANGED mints
      BY DEF OthersList, OthersInitSerumMarket, OthersUseQueue
    <2> QED
      BY <1>8, <2>1, <2>2 DEF ListingStep, NobodyTrades, Upgrade
  <1> QED
    BY <1>2, <1>3, <1>4, <1>5, <1>6, <1>7, <1>8 DEF Next, Tick, CreateReferralAccount, vars, proxyVars, listingVars

\* The amounts are right at first: there are none.
LEMMA TradingInit == Init => TradingInv
  <1> SUFFICES ASSUME Init PROVE TradingInv
    OBVIOUS
  <1>1. NoOpenOrders \in OrderRecord /\ NoOpenOrders.book = 0 /\ NoOpenOrders.out = 0 /\ NoOpenOrders.free = 0
    BY DEF NoOpenOrders, OrderRecord
  <1>2. AmountsType(wallet, orders)
    BY <1>1 DEF Init, AmountsType, Accounts
  <1>3. SlotsKept(orders)
    BY <1>1, ProxyAssumption DEF Init, SlotsKept, Accounts
  <1>4. Conserved(wallet, orders, mints)
    <2> SUFFICES ASSUME NEW mint \in PcMints
                 PROVE  /\ IsFiniteSet(Units(Held(wallet, orders, mint), Purses(mint)))
                        /\ Cardinality(Units(Held(wallet, orders, mint), Purses(mint))) = 0
      BY DEF Init, ListingInit, Conserved
    <2>1. ASSUME NEW p \in Purses(mint) PROVE Held(wallet, orders, mint)[p] = 0
      <3>1. \A u \in Users : wallet[u][mint] = 0
        BY DEF Init
      <3>2. \A a \in OrdersIn(mint) : orders[a].book = 0 /\ orders[a].free = 0
        BY <1>1 DEF Init, OrdersIn, Accounts
      <3> QED
        BY <3>1, <3>2, PurseIs, ArePurses DEF Held
    <2> QED
      BY <2>1, NoUnits
  <1> QED
    BY <1>2, <1>3, <1>4, ListingInitType, ProxyAssumption DEF Init, TradingInv

\* Every step keeps the count.
LEMMA TradingStep == TradingInv /\ [Next]_vars => TradingInv'
  <1> SUFFICES ASSUME TradingInv, [Next]_vars PROVE TradingInv'
    OBVIOUS
  <1>1. ListingTypeOK'
    BY ListingPart, ListingNextType DEF TradingInv
  <1>2. AmountsType(wallet', orders') /\ SlotsKept(orders') /\ Conserved(wallet', orders', mints')
    BY StepKept DEF AmountsKept
  <1>3. now' \in 0..MaxTime
    <2>1. CASE Tick
      BY <2>1, ProxyAssumption DEF TradingInv, Tick
    <2>2. ASSUME ~Tick PROVE UNCHANGED now
      BY <2>2 DEF Next, vars, proxyVars, CreateMintAndVault, Transfer, ListingStep, NobodyTrades,
         CreateReferralAccount, TraderStep, InitOpenOrders, NewOrder, CancelOrder, SettleFunds,
         CloseOpenOrders, Trade, ConsumeEvents, Prune
    <2> QED
      BY <2>1, <2>2 DEF TradingInv
  <1>4. referral' \subseteq mints'
    <2>1. mints \subseteq mints'
      <3>1. (\E l \in Listers : ListMarket(l)) => UNCHANGED mints
        BY DEF ListMarket, CreateFirstSetOfAccounts, InitSerum
      <3>2. OthersList => UNCHANGED mints
        BY DEF OthersList, OthersInitSerumMarket, OthersUseQueue
      <3> QED
        BY <3>1, <3>2, ListingPart DEF ListingNext, CreateMint, Upgrade, listingVars
    <2>2. referral' = referral \/ \E mint \in mints : referral' = referral \cup {mint}
      BY DEF Next, vars, proxyVars, CreateMintAndVault, Transfer, ListingStep, NobodyTrades, Tick,
         CreateReferralAccount, TraderStep, InitOpenOrders, NewOrder, CancelOrder, SettleFunds,
         CloseOpenOrders, Trade, ConsumeEvents, Prune
    <2> QED
      BY <2>1, <2>2 DEF TradingInv
  <1>5. signer' \in Users \cup {Nobody}
    BY DEF TradingInv, Next, vars, proxyVars, CreateMintAndVault, Transfer, ListingStep,
       NobodyTrades, Tick, CreateReferralAccount, TraderStep, InitOpenOrders, NewOrder,
       CancelOrder, SettleFunds, CloseOpenOrders, Trade, ConsumeEvents, Prune
  <1> QED
    BY <1>1, <1>2, <1>3, <1>4, <1>5 DEF TradingInv

\* Whoever trades, cancels, prunes, consumes events and settles in whatever order,
\* a mint's lots stay a vault's worth: nobody ever holds more than that, and no
\* open orders account takes more orders than it has slots for.
THEOREM TradingCorrect == Spec => []TypeOK
  <1> QED
    BY TradingInit, TradingStep, AmountsBounded, PTL DEF Spec
=============================================================================

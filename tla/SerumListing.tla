---------------------------- MODULE SerumListing ----------------------------
(***************************************************************************)
(* Listing the option tokens of a market on the Serum DEX (utils/serum.ts  *)
(* and init_serum_market).  A client allocates the event queue and the two *)
(* books under new keys in one transaction, then has the program create    *)
(* the DEX market in another; the addresses of the market, its request     *)
(* queue and its vaults follow from the option market and the quote mint,  *)
(* so clients that list the same pair compete for them.  The queue and the *)
(* books ask for no signature: once they are allocated anybody may have a  *)
(* DEX market of his own take them.                                        *)
(*                                                                         *)
(* Requests may get lost on the way there or back, and nothing is retried. *)
(***************************************************************************)
EXTENDS Integers, FiniteSets, Messages

CONSTANTS
    OptionMarkets,  \* option markets that exist
    PcMints,        \* mints of quote assets, to be created
    Listers,        \* runs of the listing helper
    Pair,           \* what each of them lists: <<option market, quote mint>>
    QueueKinds,     \* accounts a run allocates: event queue, bids and asks
    VaultNonces,    \* for each pair the nonces that give an address no key has
    MaxNonce,       \* the search for one stops here, 255 in the code
    None            \* no DEX market yet at an address

SerumMarkets == OptionMarkets \X PcMints
OptionMarketOf(market) == market[1]
PcMintOf(market) == market[2]

Account(kind, owner) == <<kind, owner>>
QueuesOf(l) == {Account(kind, l) : kind \in QueueKinds}
Queues == QueueKinds \X Listers

ASSUME ListingAssumption ==
    /\ Pair \in [Listers -> SerumMarkets]
    /\ MaxNonce \in Nat
    /\ \A passed \in SUBSET Queues : None # passed
    /\ VaultNonces \in [SerumMarkets -> SUBSET (0..255)]

VARIABLES
    mints,     \* quote mints that exist
    queues,    \* runs whose event queue and books are allocated
    serum,     \* the DEX markets: which runs' queues each of them uses
    elsewhere, \* those that DEX markets without an option market use
    stage,     \* of each run
    fault,     \* of each run: a request or its answer got lost
    blocked    \* TRUE from the deployment of the build that panics

listingVars == <<mints, queues, serum, elsewhere, stage, fault, blocked>>

Listed(market) == serum[market] # None

ListingTypeOK ==
    /\ mints \subseteq PcMints
    /\ queues \subseteq Listers
    /\ serum \in [SerumMarkets -> {None} \cup SUBSET Queues]
    /\ elsewhere \subseteq Queues
    /\ stage \in [Listers -> {"queues", "initSerum", "listed", "threw"}]
    /\ fault \in [Listers -> BOOLEAN]
    /\ blocked \in BOOLEAN

ListingInit ==
    /\ mints = {}
    /\ queues = {}
    /\ serum = [market \in SerumMarkets |-> None]
    /\ elsewhere = {}
    /\ stage = [l \in Listers |-> "queues"]
    /\ fault = [l \in Listers |-> FALSE]
    /\ blocked = FALSE

-----------------------------------------------------------------------------
\* A mint and a vault of it, created and filled in one transaction.
CreateMint(mint) ==
    /\ mint \notin mints
    /\ mints' = mints \cup {mint}
    /\ UNCHANGED <<queues, serum, elsewhere, stage, fault, blocked>>

\* What the sender makes of a transaction that took effect or did not.
Confirmed(l, next) == stage' = [stage EXCEPT ![l] = next] /\ UNCHANGED fault
Unconfirmed(l) ==
    /\ stage' = [stage EXCEPT ![l] = "threw"]
    /\ fault' = [fault EXCEPT ![l] = TRUE]

\* The caller passes a mint that exists.
CreateFirstSetOfAccounts(l) ==
    /\ stage[l] = "queues"
    /\ PcMintOf(Pair[l]) \in mints
    /\ \/ /\ queues' = queues \cup {l}
          /\ Confirmed(l, "initSerum") \/ Unconfirmed(l)
       \/ /\ Unconfirmed(l)
          /\ UNCHANGED queues
    /\ UNCHANGED <<mints, serum, elsewhere, blocked>>

\* The smallest nonce that gives the vaults an owner, tried from 0 up.
VaultOwnerNoncesFromOne(market) == {n \in VaultNonces[market] : 0 < n /\ n < MaxNonce}
VaultOwnerNonces(market) == {n \in VaultNonces[market] : n < MaxNonce}
GetVaultOwnerAndNonceAfter(market) ==
    1 + CHOOSE n \in VaultOwnerNonces(market) : \A k \in VaultOwnerNonces(market) : n <= k
GetVaultOwnerAndNonce(market) ==
    CHOOSE n \in VaultOwnerNonces(market) : \A k \in VaultOwnerNonces(market) : n <= k

\* init_serum_market creates the accounts of the pair, then the DEX takes the
\* queues it is passed, which no market may use yet, and checks the owner of the
\* vaults.  Whose queues they are nobody asks.
AddressesFree(market) == ~Listed(market)
InUse == elsewhere \cup UNION {serum[market] : market \in {m \in SerumMarkets : Listed(m)}}
Allocated == UNION {QueuesOf(l) : l \in queues}
QueuesFree(passed) == passed \subseteq Allocated /\ passed \cap InUse = {}
InitSerumMarketAnyAddress(passed, market, nonce) ==
    /\ ~blocked
    /\ PcMintOf(market) \in mints
    /\ QueuesFree(passed)
    /\ nonce \in VaultNonces[market]
InitSerumMarket(passed, market, nonce) ==
    /\ ~blocked
    /\ PcMintOf(market) \in mints
    /\ AddressesFree(market)
    /\ QueuesFree(passed)
    /\ nonce \in VaultNonces[market]

\* The message: the program pays for and creates the accounts of the pair from
\* the client's wallet, and the DEX writes them and the queues.
CreatedFor(market) ==
    {Account(kind, market) : kind \in {"serumMarket", "requestQueue", "coinVault", "pcVault"}}
Programs == {Account("program", name) : name \in {"system", "spl-token", "dex"}}

InitSerumMarketIdl(l, market) ==
    [ signer |-> {Account("wallet", l)},
      mut |-> {Account("wallet", l), Account("optionMarket", OptionMarketOf(market))}
                \cup CreatedFor(market) \cup QueuesOf(l),
      readonly |-> Programs
                \cup {Account("sysvar", "rent"), Account("mint", PcMintOf(market)),
                      Account("optionMint", OptionMarketOf(market)),
                      Account("vaultSigner", market), Account("marketAuthority", market)} ]
InitSerumMarketNeeds(l, market) ==
    Needs({Account("wallet", l)},
          {Account("wallet", l), Account("optionMarket", OptionMarketOf(market))}
              \cup CreatedFor(market) \cup QueuesOf(l),
          Programs \cup {Account("marketAuthority", market), Account("vaultSigner", market)})

MessageAccepted(l, market) ==
    Accepted(Message(Account("wallet", l), InitSerumMarketIdl(l, market), <<>>),
             {Account("wallet", l)}, InitSerumMarketNeeds(l, market))

InitSerum(l) ==
    /\ stage[l] = "initSerum"
    /\ IF VaultOwnerNonces(Pair[l]) = {}
       THEN /\ stage' = [stage EXCEPT ![l] = "threw"]   \* "Unable to find nonce"
            /\ UNCHANGED <<serum, fault>>
       ELSE LET accepted ==
                    /\ MessageAccepted(l, Pair[l])
                    /\ InitSerumMarket(QueuesOf(l), Pair[l], GetVaultOwnerAndNonce(Pair[l]))
            IN  \/ /\ accepted
                   /\ serum' = [serum EXCEPT ![Pair[l]] = QueuesOf(l)]
                   /\ Confirmed(l, "listed") \/ Unconfirmed(l)
                \/ /\ ~accepted
                   /\ stage' = [stage EXCEPT ![l] = "threw"]
                   /\ UNCHANGED <<serum, fault>>
                \/ /\ Unconfirmed(l)
                   /\ UNCHANGED serum
    /\ UNCHANGED <<mints, queues, elsewhere, blocked>>

\* Anybody else lists a pair, with any queues that are free and for the rest his
\* own.
OthersInitSerumMarket(market) ==
    /\ \E passed \in SUBSET Queues, nonce \in VaultNonces[market] :
          /\ Cardinality(passed) <= Cardinality(QueueKinds)
          /\ InitSerumMarket(passed, market, nonce)
          /\ serum' = [serum EXCEPT ![market] = passed]
    /\ UNCHANGED <<mints, queues, elsewhere, stage, fault, blocked>>

\* Anybody has the DEX itself take an account for a market outside the program.
OthersUseQueue(queue) ==
    /\ QueuesFree({queue})
    /\ elsewhere' = elsewhere \cup {queue}
    /\ UNCHANGED <<mints, queues, serum, stage, fault, blocked>>

\* This commit's build, which panics, replaces an earlier one.
Upgrade ==
    /\ ~blocked
    /\ blocked' = TRUE
    /\ UNCHANGED <<mints, queues, serum, elsewhere, stage, fault>>

ListMarket(l) == CreateFirstSetOfAccounts(l) \/ InitSerum(l)

OthersList ==
    \/ \E market \in SerumMarkets : OthersInitSerumMarket(market)
    \/ \E queue \in Queues : OthersUseQueue(queue)

ListingNext ==
    \/ \E mint \in PcMints : CreateMint(mint)
    \/ \E l \in Listers : ListMarket(l)
    \/ OthersList
    \/ Upgrade

ListingSpec == ListingInit /\ [][ListingNext]_listingVars

-----------------------------------------------------------------------------
(* Properties *)

\* A DEX market, once there, keeps its queues for good: no other client that
\* lists the pair, lost answer or not, gets its own accounts in their place.
\* Traders' orders are in those books.
MarketsKeepTheirQueues ==
    [][\A market \in SerumMarkets : Listed(market) => serum'[market] = serum[market]]_listingVars

\* No key-less address for the vaults among those the client tries.
NoVaultOwner(market) == \A n \in VaultNonces[market] : n >= MaxNonce

\* Somebody's DEX market uses a queue or book that the run allocated.
QueuesTaken(l) == QueuesOf(l) \cap InUse # {}

\* A listing that was refused, and not lost, has a reason that is still there:
\* the pair is listed, others have used up what the run allocated between its two
\* transactions, the vaults can have no owner, or the build blocks the instruction.
RefusedForAReason ==
    \A l \in Listers :
        stage[l] = "threw" /\ ~fault[l] =>
            \/ Listed(Pair[l])
            \/ QueuesTaken(l)
            \/ NoVaultOwner(Pair[l])
            \/ blocked

\* Clients that compete for a pair do not all lose: once its quote mint exists
\* the pair gets listed, unless a request was lost, others used up the queues, or
\* the build blocks it.  (A mint and a listing stay, so again and again means from
\* some time on.)
PairsGetListed ==
    \A l \in Listers :
        []<>(PcMintOf(Pair[l]) \in mints =>
                Listed(Pair[l]) \/ QueuesTaken(l) \/ fault[l] \/ blocked \/ NoVaultOwner(Pair[l]))
=============================================================================

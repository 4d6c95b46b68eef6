----------------------------- MODULE PsyAmerican -----------------------------
(***************************************************************************)
(* The psy_american program: American covered options.  Writing a contract *)
(* locks its underlying in a pool of the market and issues one option      *)
(* token and one writer token; an option is exercised, until expiration,   *)
(* by paying the strike into the quote pool for the underlying; a writer   *)
(* token is redeemed for quote from exercised contracts or, once the       *)
(* market has expired, for underlying.                                     *)
(*                                                                         *)
(* One action is one instruction, executed as a transaction: whatever      *)
(* error, panic or failed call it meets undoes all of it, so only          *)
(* transactions that succeed are steps.                                    *)
(*                                                                         *)
(* Operators named after a check they leave out (UnexpiredMarketAlways,    *)
(* MintAccountsAnyPool, ...) are in no action: the mutation runs put them  *)
(* in the place of the operator that follows them.                         *)
(***************************************************************************)
EXTENDS Fees, SplToken

CONSTANTS
    Users,            \* wallets that sign transactions
    Markets,          \* addresses of option markets, initialised or not
    Assets,           \* mints of underlying and quote assets
    Sol,              \* lamports, kept on the ledger like a mint
    FeeOwner,         \* fee_owner_key
    NftMintLamports,  \* the fee of a contract whose token fee rounds to 0
    Terms,            \* what each market address is derived from
    Endowment,        \* the tokens and lamports of the users at the start
    Sizes,            \* the sizes callers pass
    MaxTime           \* bound: the clock stops there

OptionMint(m) == <<"optionToken", m>>
WriterTokenMint(m) == <<"writerToken", m>>
OptionTokens == {OptionMint(m) : m \in Markets}
WriterTokens == {WriterTokenMint(m) : m \in Markets}
ProgramMints == OptionTokens \cup WriterTokens

\* The pools are accounts of the market itself, which signs for them.
UnderlyingAssetPool(m) == <<m, Terms[m].underlying_asset_mint>>
QuoteAssetPool(m) == <<m, Terms[m].quote_asset_mint>>

Accounts == (Users \X (Assets \cup {Sol} \cup ProgramMints))
            \cup (Markets \X Assets)
            \cup ({FeeOwner} \X (Assets \cup {Sol}))

MarketTerms ==
    [ underlying_asset_mint : Assets,
      quote_asset_mint : Assets,
      underlying_amount_per_contract : U64,
      quote_amount_per_contract : U64,
      expiration_unix_timestamp : Int ]

ASSUME PartiesAssumption ==
    /\ Users \cap Markets = {}
    /\ FeeOwner \notin Users \cup Markets
    /\ Sol \notin Assets
    /\ (Assets \cup {Sol}) \cap ProgramMints = {}

\* A market's address is derived from its terms, so no two share them.
ASSUME TermsAssumption ==
    /\ Terms \in [Markets -> MarketTerms]
    /\ \A m1, m2 \in Markets : Terms[m1] = Terms[m2] => m1 = m2

ASSUME AmountsAssumption ==
    /\ NftMintLamports \in Nat
    /\ Sizes \subseteq U64
    /\ MaxTime \in Nat

\* Program tokens and what the pools hold come from transactions only.  What
\* there is of an asset is the supply of its mint.
ASSUME EndowmentAssumption ==
    /\ Endowment \in [Accounts -> U64]
    /\ \A a \in Accounts : MintOf(a) \in ProgramMints \/ OwnerOf(a) \in Markets => Endowment[a] = 0
    /\ \A asset \in Assets :
          /\ IsFiniteSet(TokensOf(Endowment, asset))
          /\ Cardinality(TokensOf(Endowment, asset)) \in U64

VARIABLES
    markets,   \* the OptionMarket accounts that exist
    ledger,    \* balances and supplies of the token program
    now,       \* the clock sysvar
    blocked    \* TRUE from the deployment of the build that panics on issuance

vars == <<markets, ledger, now, blocked>>

TypeOK ==
    /\ markets \subseteq Markets
    /\ ledger \in [balance : [Accounts -> U64], supply : [ProgramMints -> U64]]
    /\ now \in 0..MaxTime
    /\ blocked \in BOOLEAN

Init ==
    /\ markets = {}
    /\ ledger = [balance |-> Endowment, supply |-> [t \in ProgramMints |-> 0]]
    /\ now = 0
    /\ blocked = FALSE

-----------------------------------------------------------------------------
\* The clock checks of the instructions; a market is alive in the second it
\* expires in.
UnexpiredMarketAlways(m) == TRUE
UnexpiredMarket(m) == ~(Terms[m].expiration_unix_timestamp < now)
ExpiredMarketAlways(m) == TRUE
ExpiredMarket(m) == ~(Terms[m].expiration_unix_timestamp >= now)

\* The accounts of a mint that exist: a market's come with the market.
AccountsOf(mint) ==
    { a \in Accounts : MintOf(a) = mint /\ (OwnerOf(a) \in Markets => OwnerOf(a) \in markets) }

\* The fee account a market records for an asset: the fee owner's.
FeeAccount(asset) == <<FeeOwner, asset>>

\* Moving the tokens of `size` contracts: a checked_mul, then a transfer.
TransferTotal(ledgers, authority, from, to, perContract, size) ==
    UNION { Transfer(ledgers, authority, from, to, total) :
              total \in CheckedMul(perContract, size) }

\* The fee of `size` contracts of `quantity` tokens each, in those tokens or,
\* where it rounds to none, in lamports.
PayFee(ledgers, user, asset, quantity, size) ==
    IF FeeInTokens(quantity)
    THEN TransferTotal(ledgers, user, <<user, asset>>, FeeAccount(asset), FeeAmount(quantity), size)
    ELSE TransferTotal(ledgers, user, <<user, Sol>>, FeeAccount(Sol), NftMintLamports, size)

-----------------------------------------------------------------------------
AssetsDiffer(m) == Terms[m].underlying_asset_mint # Terms[m].quote_asset_mint

\* Terms a market may be initialised with.
ValidTerms(m) ==
    /\ ~(Terms[m].expiration_unix_timestamp < now)
    /\ ~(Terms[m].underlying_amount_per_contract <= 0)
    /\ ~(Terms[m].quote_amount_per_contract <= 0)

\* `init` refuses an address that is taken; the pools and the mints are created
\* with the market, empty.
MayInitialize(m) ==
    /\ ~blocked
    /\ m \notin markets
    /\ AssetsDiffer(m)
    /\ ValidTerms(m)

InitializeMarket(m) ==
    /\ MayInitialize(m)
    /\ markets' = markets \cup {m}
    /\ UNCHANGED <<ledger, now, blocked>>

-----------------------------------------------------------------------------
\* Minting.  Each ...Accounts operator is the set of account lists that pass an
\* instruction's own validator; what it leaves open the token program decides.
\* Each ...Results operator is the set of ledgers its calls may end in, over those
\* lists: empty if they all fail.
MintAccountsAnyPool(m) ==
    [ underlying_asset_pool : AccountsOf(Terms[m].underlying_asset_mint),
      option_mint : {OptionMint(m)},
      writer_token_mint : {WriterTokenMint(m)} ]
MintAccounts(m) ==
    [ underlying_asset_pool : {UnderlyingAssetPool(m)},
      option_mint : {OptionMint(m)},
      writer_token_mint : {WriterTokenMint(m)} ]

IssueContracts(ledgers, m, user, size, a, optionDest, writerDest) ==
    LET locked == TransferTotal(ledgers, user,
                      <<user, MintOf(a.underlying_asset_pool)>>, a.underlying_asset_pool,
                      Terms[m].underlying_amount_per_contract, size)
        optionsMinted == MintTo(locked, m, a.option_mint, optionDest, size)
    IN  MintTo(optionsMinted, m, a.writer_token_mint, writerDest, size)

MayMint(m, size) ==
    /\ ~blocked
    /\ m \in markets
    /\ UnexpiredMarket(m)
    /\ size > 0

MintOptionResults(m, user, size) ==
    LET charged == PayFee({ledger}, user, Terms[m].underlying_asset_mint,
                          Terms[m].underlying_amount_per_contract, size)
    IN  UNION { UNION { IssueContracts(charged, m, user, size, a, optionDest, writerDest) :
                          optionDest \in AccountsOf(a.option_mint),
                          writerDest \in AccountsOf(a.writer_token_mint) } :
                a \in MintAccounts(m) }

MintOption(m, user, size) ==
    /\ MayMint(m, size)
    /\ ledger' \in MintOptionResults(m, user, size)
    /\ UNCHANGED <<markets, now, blocked>>

\* The second version compares the same keys and charges no fee.
MintV2Accounts(m) == MintAccounts(m)

MintOptionV2Results(m, user, size) ==
    UNION { UNION { IssueContracts({ledger}, m, user, size, a, optionDest, writerDest) :
                      optionDest \in AccountsOf(a.option_mint),
                      writerDest \in AccountsOf(a.writer_token_mint) } :
            a \in MintV2Accounts(m) }

MintOptionV2(m, user, size) ==
    /\ MayMint(m, size)
    /\ ledger' \in MintOptionV2Results(m, user, size)
    /\ UNCHANGED <<markets, now, blocked>>

-----------------------------------------------------------------------------
\* Exercise: the holder of the options and the payer of the strike both sign,
\* and may be different.
ExerciseAccountsAnyMint(m) ==
    [ option_mint : OptionTokens,
      quote_asset_pool : {QuoteAssetPool(m)},
      underlying_asset_pool : {UnderlyingAssetPool(m)},
      underlying_asset_dest : AccountsOf(Terms[m].underlying_asset_mint) ]
ExerciseAccountsAnyQuotePool(m) ==
    [ option_mint : {OptionMint(m)},
      quote_asset_pool : AccountsOf(Terms[m].quote_asset_mint),
      underlying_asset_pool : {UnderlyingAssetPool(m)},
      underlying_asset_dest : AccountsOf(Terms[m].underlying_asset_mint) ]
ExerciseAccounts(m) ==
    [ option_mint : {OptionMint(m)},
      quote_asset_pool : {QuoteAssetPool(m)},
      underlying_asset_pool : {UnderlyingAssetPool(m)},
      underlying_asset_dest : AccountsOf(Terms[m].underlying_asset_mint) ]

ExerciseContracts(m, user, holder, size, a) ==
    LET burnt == Burn({ledger}, holder, a.option_mint, size)
        strikePaid == TransferTotal(burnt, user,
                          <<user, MintOf(a.quote_asset_pool)>>, a.quote_asset_pool,
                          Terms[m].quote_amount_per_contract, size)
    IN  TransferTotal(strikePaid, m, a.underlying_asset_pool, a.underlying_asset_dest,
                      Terms[m].underlying_amount_per_contract, size)

ExerciseOptionResults(m, user, holder, size) ==
    UNION { PayFee(ExerciseContracts(m, user, holder, size, a), user,
                   Terms[m].quote_asset_mint, Terms[m].quote_amount_per_contract, size) :
            a \in ExerciseAccounts(m) }

ExerciseOption(m, user, holder, size) ==
    /\ m \in markets
    /\ UnexpiredMarket(m)
    /\ ledger' \in ExerciseOptionResults(m, user, holder, size)
    /\ UNCHANGED <<markets, now, blocked>>

ExerciseV2Accounts(m) == ExerciseAccounts(m)

ExerciseOptionV2Results(m, user, holder, size) ==
    UNION { ExerciseContracts(m, user, holder, size, a) : a \in ExerciseV2Accounts(m) }

ExerciseOptionV2(m, user, holder, size) ==
    /\ m \in markets
    /\ UnexpiredMarket(m)
    /\ ledger' \in ExerciseOptionV2Results(m, user, holder, size)
    /\ UNCHANGED <<markets, now, blocked>>

-----------------------------------------------------------------------------
\* Redeeming writer tokens: they are burnt, and the market pays out of a pool.
RedeemWriterTokens(ledgers, m, user, mint, pool, dest, perContract, size) ==
    TransferTotal(Burn(ledgers, user, mint, size), m, pool, dest, perContract, size)

ClosePostExpAccounts(m) ==
    [ writer_token_mint : {WriterTokenMint(m)},
      underlying_asset_pool : {UnderlyingAssetPool(m)},
      underlying_asset_dest : AccountsOf(Terms[m].underlying_asset_mint) ]

ClosePostExpirationResults(m, user, size) ==
    UNION { RedeemWriterTokens({ledger}, m, user, a.writer_token_mint,
                a.underlying_asset_pool, a.underlying_asset_dest,
                Terms[m].underlying_amount_per_contract, size) :
            a \in ClosePostExpAccounts(m) }

ClosePostExpiration(m, user, size) ==
    /\ m \in markets
    /\ ExpiredMarket(m)
    /\ ledger' \in ClosePostExpirationResults(m, user, size)
    /\ UNCHANGED <<markets, now, blocked>>

\* Closing a position burns both sides of a contract, at any time.  The
\* destination's mint is left to the token program.
CloseOptionPositionAccountsAnyMint(m) ==
    [ writer_token_mint : WriterTokens,
      option_token_mint : {OptionMint(m)},
      underlying_asset_pool : {UnderlyingAssetPool(m)} ]
CloseOptionPositionAccounts(m) ==
    [ writer_token_mint : {WriterTokenMint(m)},
      option_token_mint : {OptionMint(m)},
      underlying_asset_pool : {UnderlyingAssetPool(m)} ]

ReleaseContracts(m, user, size, a, dest) ==
    LET writersBurnt == Burn({ledger}, user, a.writer_token_mint, size)
        bothBurnt == Burn(writersBurnt, user, a.option_token_mint, size)
    IN  TransferTotal(bothBurnt, m, a.underlying_asset_pool, dest,
                      Terms[m].underlying_amount_per_contract, size)

CloseOptionPositionResults(m, user, size) ==
    UNION { UNION { ReleaseContracts(m, user, size, a, dest) :
                      dest \in AccountsOf(MintOf(a.underlying_asset_pool)) } :
            a \in CloseOptionPositionAccounts(m) }

CloseOptionPosition(m, user, size) ==
    /\ m \in markets
    /\ ledger' \in CloseOptionPositionResults(m, user, size)
    /\ UNCHANGED <<markets, now, blocked>>

BurnWriterForQuoteAccounts(m) ==
    [ writer_token_mint : {WriterTokenMint(m)},
      quote_asset_pool : {QuoteAssetPool(m)} ]

QuotesInPoolStrict(m, pool, size) ==
    \E due \in CheckedMul(size, Terms[m].quote_amount_per_contract) :
        ~(ledger.balance[pool] <= due)
QuotesInPool(m, pool, size) ==
    \E due \in CheckedMul(size, Terms[m].quote_amount_per_contract) :
        ~(ledger.balance[pool] < due)

BurnWriterForQuoteResults(m, user, size) ==
    UNION { UNION { RedeemWriterTokens({ledger}, m, user, a.writer_token_mint,
                        a.quote_asset_pool, dest, Terms[m].quote_amount_per_contract, size) :
                      dest \in AccountsOf(MintOf(a.quote_asset_pool)) } :
            a \in {b \in BurnWriterForQuoteAccounts(m) : QuotesInPool(m, b.quote_asset_pool, size)} }

BurnWriterForQuote(m, user, size) ==
    /\ m \in markets
    /\ ledger' \in BurnWriterForQuoteResults(m, user, size)
    /\ UNCHANGED <<markets, now, blocked>>

-----------------------------------------------------------------------------
\* What happens around the program.  A wallet may send any of its tokens to
\* any account, a market's pool included once the market exists, or burn
\* program tokens; sending and burning several is doing it several times.
TokenTransfer(user, to) ==
    /\ MintOf(to) # Sol
    /\ to \in AccountsOf(MintOf(to))
    /\ ledger' \in Transfer({ledger}, user, <<user, MintOf(to)>>, to, 1)
    /\ UNCHANGED <<markets, now, blocked>>

TokenBurn(user, mint) ==
    /\ ledger' \in Burn({ledger}, user, mint, 1)
    /\ UNCHANGED <<markets, now, blocked>>

\* The clock sysvar never goes back; MaxTime bounds it.
Tick ==
    /\ now < MaxTime
    /\ now' = now + 1
    /\ UNCHANGED <<markets, ledger, blocked>>

\* This commit's build, with its panics, replaces one that still issued: the
\* accounts it finds are those the earlier build left.
Upgrade ==
    /\ ~blocked
    /\ blocked' = TRUE
    /\ UNCHANGED <<markets, ledger, now>>

Instruction(m, user, size) ==
    \/ MintOption(m, user, size)
    \/ MintOptionV2(m, user, size)
    \/ \E holder \in Users : ExerciseOption(m, user, holder, size)
    \/ \E holder \in Users : ExerciseOptionV2(m, user, holder, size)
    \/ ClosePostExpiration(m, user, size)
    \/ CloseOptionPosition(m, user, size)
    \/ BurnWriterForQuote(m, user, size)

Next ==
    \/ \E m \in Markets : InitializeMarket(m)
    \/ \E m \in Markets, user \in Users, size \in Sizes : Instruction(m, user, size)
    \/ \E user \in Users, to \in Accounts : TokenTransfer(user, to)
    \/ \E user \in Users, mint \in ProgramMints : TokenBurn(user, mint)
    \/ Tick
    \/ Upgrade

Spec == Init /\ [][Next]_vars

-----------------------------------------------------------------------------
(* Properties *)

Alive(m) == now <= Terms[m].expiration_unix_timestamp

OptionSupply(m) == ledger.supply[OptionMint(m)]
WriterSupply(m) == ledger.supply[WriterTokenMint(m)]

\* Contracts the pools pay for: exercises out of the underlying pool,
\* redemptions for quote out of the other.
UnderlyingContracts(m) ==
    ledger.balance[UnderlyingAssetPool(m)] \div Terms[m].underlying_amount_per_contract
QuoteContracts(m) ==
    ledger.balance[QuoteAssetPool(m)] \div Terms[m].quote_amount_per_contract

\* Every market that exists trades two assets for positive amounts: the
\* divisions above, and the seeds the market signs with, make sense.
MarketsWellFormed ==
    \A m \in markets :
        /\ Terms[m].underlying_amount_per_contract > 0
        /\ Terms[m].quote_amount_per_contract > 0
        /\ AssetsDiffer(m)

\* Until expiration the underlying of every option in circulation is in the
\* pool, whatever was minted, exercised, closed, redeemed or traded: the call
\* is covered.
OptionsCovered ==
    \A m \in markets : Alive(m) => OptionSupply(m) <= UnderlyingContracts(m)

\* At any time every writer token in circulation has a contract's worth of
\* underlying or of quote behind it, a distinct one for each token.
WritersCovered ==
    \A m \in markets : WriterSupply(m) <= UnderlyingContracts(m) + QuoteContracts(m)

\* After expiration no holder of a writer token is stuck: at least one of
\* close_post_expiration and burn_writer_for_quote pays for it into the holder's
\* own account, whichever pool the other writers have drained.
ClosePostExpirationPays(m, user) ==
    \E a \in ClosePostExpAccounts(m) :
        /\ OwnerOf(a.underlying_asset_dest) = user
        /\ RedeemWriterTokens({ledger}, m, user, a.writer_token_mint,
               a.underlying_asset_pool, a.underlying_asset_dest,
               Terms[m].underlying_amount_per_contract, 1) # {}

BurnWriterForQuotePays(m, user) ==
    \E a \in BurnWriterForQuoteAccounts(m) :
        /\ QuotesInPool(m, a.quote_asset_pool, 1)
        /\ RedeemWriterTokens({ledger}, m, user, a.writer_token_mint,
               a.quote_asset_pool, <<user, MintOf(a.quote_asset_pool)>>,
               Terms[m].quote_amount_per_contract, 1) # {}

WriterCanExit ==
    \A m \in markets, user \in Users :
        /\ ~Alive(m)
        /\ ledger.balance[<<user, WriterTokenMint(m)>>] > 0
        => ClosePostExpirationPays(m, user) \/ BurnWriterForQuotePays(m, user)

UnderlyingOut(m) == ledger.balance[UnderlyingAssetPool(m)] - ledger'.balance[UnderlyingAssetPool(m)]
QuoteOut(m) == ledger.balance[QuoteAssetPool(m)] - ledger'.balance[QuoteAssetPool(m)]
OptionsBurnt(m) == OptionSupply(m) - OptionSupply(m)'
WritersBurnt(m) == WriterSupply(m) - WriterSupply(m)'

\* Nothing leaves a market's pools but for its own tokens burnt in the same
\* transaction: underlying against writer tokens, together with options before
\* expiration, or against options before expiration whose strike, which is not
\* zero, comes in; quote against writer tokens.  An instruction that names another market
\* cannot touch them.
PayoutMatchesBurn(m) ==
    /\ UnderlyingOut(m) > 0 =>
          \/ /\ UnderlyingOut(m) <= Terms[m].underlying_amount_per_contract * WritersBurnt(m)
             /\ Alive(m) => OptionsBurnt(m) = WritersBurnt(m)
          \/ /\ UnderlyingOut(m) <= Terms[m].underlying_amount_per_contract * OptionsBurnt(m)
             /\ Alive(m)
             /\ QuoteOut(m) < 0
             /\ -QuoteOut(m) >= Terms[m].quote_amount_per_contract * OptionsBurnt(m)
    /\ QuoteOut(m) > 0 =>
          QuoteOut(m) <= Terms[m].quote_amount_per_contract * WritersBurnt(m)

PayoutsMatchBurns == [][\A m \in markets : PayoutMatchesBurn(m)]_vars

\* Once a market has expired or the blocked build is deployed, what the pools
\* owe only shrinks: no path issues options or writer tokens any more.
LiabilitiesOnlyShrink ==
    [][\A m \in Markets :
          blocked \/ ~Alive(m) =>
             /\ OptionsBurnt(m) >= 0
             /\ WritersBurnt(m) >= 0]_vars

\* Every market winds down: sooner or later no writer token of it
\* is left in circulation, whichever pool each writer chose and whoever held the
\* tokens.  ClientCalls says which steps must happen for it.
MarketsWindDown ==
    \A m \in Markets : m \in markets ~> WriterSupply(m) = 0

-----------------------------------------------------------------------------
(* What the repository says of the program, and the program does not do *)

\* tests/mint_v2.ts:131, "should mint size OptionTokens": a wallet that has the
\* underlying of a contract can write it in a market that has not expired.
MintingAvailable ==
    \A m \in markets, user \in Users :
        /\ Alive(m)
        /\ ledger.balance[<<user, Terms[m].underlying_asset_mint>>]
              >= Terms[m].underlying_amount_per_contract
        => ENABLED MintOptionV2(m, user, 1)

\* errors.rs:5, "Expiration must be in the future": a market is initialised
\* strictly before it expires.
ExpirationInTheFuture ==
    [][\A m \in markets' \ markets : Terms[m].expiration_unix_timestamp > now]_vars
=============================================================================

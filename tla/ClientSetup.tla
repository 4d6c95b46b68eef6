---------------------------- MODULE ClientSetup ----------------------------
(***************************************************************************)
(* The client setting up a market and the accounts that trade in it        *)
(* (utils/helpers.ts, initializeMarket.ts): the mints, the fee accounts if *)
(* they are missing, the market, a minter's and an exerciser's accounts.   *)
(*                                                                         *)
(* Every request is a step of its own.  Between two of them time passes    *)
(* and other clients act: nobody else has this client's new keys, but the  *)
(* associated fee accounts have addresses anybody can derive, fund and     *)
(* create, and so, once the mints are there, has the market.               *)
(* A transaction takes effect as a whole or not at all; its sender learns  *)
(* of it, or loses the answer, or loses the transaction, and in the last   *)
(* two cases the helper throws, as it does for a refused one.  Nothing is  *)
(* retried.                                                                *)
(***************************************************************************)
EXTENDS Fees, Sequences, SequencesExt

CONSTANTS
    Quantities,     \* the amounts per contract a market may be created with
    QuoteAmounts    \* how much quote a minter is given, maybe none

ASSUME SetupAssumption ==
    /\ Quantities \subseteq Nat
    /\ QuoteAmounts \subseteq Nat

\* An account is <<owner, what it holds>>; mints belong to "mint".
MintKey(token) == <<"mint", token>>
FeeKey(token) == <<"feeOwner", token>>
MarketKey == <<"market", "optionMarket">>

NewMarketAccounts ==
    {MarketKey, MintKey("option"), MintKey("writer")}
        \cup {<<"market", asset>> : asset \in {"underlying", "quote"}}

AccountsOfMinter == {<<"minter", token>> : token \in {"underlying", "quote", "option", "writer"}}
AccountsOfExerciser == {<<"exerciser", token>> : token \in {"underlying", "quote", "option"}}

AssetKeys == {MintKey(asset) : asset \in {"underlying", "quote"}}

\* The fee accounts a caller may ask for: the fee owner's, of the asset itself,
\* unless he gives another owner or another token, whose mint exists.
FeeKeysOf(asset) == {"feeOwner", "other"} \X {asset, "other"}
FeeKeys == FeeKeysOf("underlying") \cup FeeKeysOf("quote")
SpareKeys == {MintKey("spare"), <<"spare", "spare">>}

\* The requests, each with the one after it.
Following ==
    [ underlyingMint |-> "quoteMint", quoteMint |-> "mintFee", mintFee |-> "exerciseFee",
      exerciseFee |-> "optionMarket", optionMarket |-> "minter",
      minter |-> "minterUnderlying", minterUnderlying |-> "minterQuote",
      minterQuote |-> "exerciser", exerciser |-> "exerciserQuote",
      exerciserQuote |-> "spareMint", spareMint |-> "spareAccount",
      spareAccount |-> "returned" ]

VARIABLES
    perContract,  \* amount per contract of each asset
    quoteAmount,  \* what the minter is given of the quote asset
    feeKey,       \* the fee account the caller asks for, of each asset
    chain,        \* accounts that exist
    lamports,     \* addresses that were sent lamports and hold nothing else
    funded,       \* token accounts that were minted tokens
    pc,           \* the next request, "returned" or "threw"
    stoppedAt,    \* the request that threw
    missing,      \* assets whose fee account the client found missing, and creates
    fault,        \* a request or its answer got lost
    expired,      \* the market's expiration is before the program's clock
    blocked       \* TRUE from the deployment of the build that panics

asked == <<perContract, quoteAmount, feeKey>>
ledger == <<chain, lamports, funded>>
client == <<pc, stoppedAt, missing, fault>>
vars == <<asked, ledger, client, expired, blocked>>

Requests == DOMAIN Following
Assets == {"underlying", "quote"}

TypeOK ==
    /\ perContract \in [Assets -> Quantities]
    /\ quoteAmount \in QuoteAmounts
    /\ feeKey \in [Assets -> FeeKeys] /\ \A asset \in Assets : feeKey[asset] \in FeeKeysOf(asset)
    /\ chain \subseteq AssetKeys \cup FeeKeys \cup NewMarketAccounts
                         \cup AccountsOfMinter \cup AccountsOfExerciser \cup SpareKeys
    /\ lamports \subseteq FeeKeys \ chain
    /\ funded \subseteq AccountsOfMinter \cup AccountsOfExerciser
    /\ pc \in Requests \cup {"returned", "threw"}
    /\ stoppedAt \in Requests \cup {"none"}
    /\ missing \subseteq Assets
    /\ fault \in BOOLEAN
    /\ expired \in BOOLEAN
    /\ blocked \in BOOLEAN

Init ==
    /\ perContract \in [Assets -> Quantities]
    /\ quoteAmount \in QuoteAmounts
    /\ feeKey \in [Assets -> FeeKeys] /\ \A asset \in Assets : feeKey[asset] \in FeeKeysOf(asset)
    /\ chain = {}
    /\ lamports = {}
    /\ funded = {}
    /\ pc = "underlyingMint"
    /\ stoppedAt = "none"
    /\ missing = {}
    /\ fault = FALSE
    /\ expired \in BOOLEAN
    /\ blocked = FALSE

-----------------------------------------------------------------------------
\* The helper goes on, or the request threw.
Goes(next) == pc' = next /\ UNCHANGED stoppedAt
Throws == pc' = "threw" /\ stoppedAt' = pc

\* A transaction that creates `accounts` and mints tokens to `credited`, if it
\* is `valid`: the helper goes on only when it has seen it confirmed.
SendIgnoringErrors(valid, accounts, credited) ==
    /\ Goes(Following[pc])
    /\ IF valid THEN chain' = chain \cup accounts ELSE chain' = chain
    /\ IF valid THEN funded' = funded \cup credited ELSE funded' = funded
    /\ lamports' = lamports \ chain'
    /\ UNCHANGED <<asked, missing, fault, expired, blocked>>
Send(valid, accounts, credited) ==
    /\ \/ /\ valid                              \* executed
          /\ chain' = chain \cup accounts
          /\ funded' = funded \cup credited
          /\ \/ Goes(Following[pc]) /\ UNCHANGED fault
             \/ Throws /\ fault' = TRUE         \* but no confirmation came
       \/ /\ ~valid                             \* refused
          /\ Throws
          /\ UNCHANGED <<chain, funded, fault>>
       \/ /\ Throws                             \* lost
          /\ fault' = TRUE
          /\ UNCHANGED <<chain, funded>>
    /\ lamports' = lamports \ chain'
    /\ UNCHANGED <<asked, missing, expired, blocked>>

\* createAccount and initialise, in one transaction: new keys, for accounts of
\* mints that exist.
NewKeys(accounts) == accounts \cap chain = {} /\ accounts \cap lamports = {}
MintsExist(accounts) == {MintKey(a[2]) : a \in accounts} \subseteq chain

CreateUnderlyingAndQuoteMints ==
    \E asset \in Assets :
        /\ pc = IF asset = "underlying" THEN "underlyingMint" ELSE "quoteMint"
        /\ Send(NewKeys({MintKey(asset)}), {MintKey(asset)}, {})

-----------------------------------------------------------------------------
\* The fee account is looked up if the client thinks the fee is not zero.  An
\* address that only received lamports is of the wrong owner: that is taken
\* for missing too.  Any other error of the lookup is thrown.
LookupAnswer(asset) ==
    CASE feeKey[asset] \in chain -> "account"
      [] feeKey[asset] \in lamports -> "Invalid account owner"
      [] OTHER -> "Failed to find account"

TakenForMissingNotFunded == {"Failed to find account"}
TakenForMissing == {"Failed to find account", "Invalid account owner"}

GetOrAddAssociatedTokenAccountTx(asset) ==
    LET answer == LookupAnswer(asset)
    IN  /\ \/ /\ answer = "account"
              /\ Goes(Following[pc])
              /\ UNCHANGED <<missing, fault>>
           \/ /\ answer \in TakenForMissing
              /\ Goes(Following[pc])
              /\ missing' = missing \cup {asset}
              /\ UNCHANGED fault
           \/ /\ Throws
              /\ fault' = (answer \in TakenForMissing \cup {"account"})  \* the request failed
              /\ UNCHANGED missing
        /\ UNCHANGED <<asked, ledger, expired, blocked>>

LookUpFee(asset) ==
    /\ pc = IF asset = "underlying" THEN "mintFee" ELSE "exerciseFee"
    /\ \/ /\ PassesFeeAccount(perContract[asset])
          /\ GetOrAddAssociatedTokenAccountTx(asset)
       \/ /\ ~PassesFeeAccount(perContract[asset])
          /\ Goes(Following[pc])
          /\ UNCHANGED <<asked, ledger, missing, fault, expired, blocked>>

-----------------------------------------------------------------------------
\* The accounts the client passes after the declared ones, and those the
\* program takes from them, one by one: it wants the fee owner's, of the asset.
RemainingAccounts ==
    LET passed(asset) == IF PassesFeeAccount(perContract[asset]) THEN <<feeKey[asset]>> ELSE <<>>
    IN  passed("underlying") \o passed("quote")

ValidateFeeAccounts(accounts) ==
    LET wanted(asset) == IF FeeInTokens(perContract[asset]) THEN <<FeeKey(asset)>> ELSE <<>>
        taken == wanted("underlying") \o wanted("quote")
    IN  /\ IsPrefix(taken, RemainingAccounts)
        /\ ToSet(taken) \subseteq accounts

\* The missing fee accounts are created first, in the transaction of the market.
\* The associated token program creates an account over lamports, and refuses
\* one that exists, be it by the instruction before.
InstructionsForgotten == {}
Instructions == {feeKey[asset] : asset \in missing}
Twice == missing = Assets /\ feeKey["underlying"] = feeKey["quote"]

\* The market with its mints and pools, of mints that exist: whoever asks for it.
InitializeMarket ==
    /\ ~blocked
    /\ AssetKeys \subseteq chain
    /\ NewMarketAccounts \cap chain = {}
    /\ ~expired
    /\ \A asset \in Assets : perContract[asset] > 0

InitOptionMarket ==
    /\ pc = "optionMarket"
    /\ Send(/\ Instructions \cap chain = {} /\ ~Twice
            /\ InitializeMarket
            /\ ValidateFeeAccounts(chain \cup Instructions),
            NewMarketAccounts \cup Instructions, {})

-----------------------------------------------------------------------------
\* The accounts of a minter and of an exerciser, each list in one transaction,
\* and the tokens they start with, each mint in another.
CreateMinter ==
    \/ /\ pc = "minter"
       /\ Send(NewKeys(AccountsOfMinter) /\ MintsExist(AccountsOfMinter), AccountsOfMinter, {})
    \/ /\ pc = "minterUnderlying"
       /\ Send(<<"minter", "underlying">> \in chain, {}, {<<"minter", "underlying">>})
    \/ /\ pc = "minterQuote"
       /\ quoteAmount > 0
       /\ Send(<<"minter", "quote">> \in chain, {}, {<<"minter", "quote">>})
    \/ /\ pc = "minterQuote"
       /\ quoteAmount = 0
       /\ Goes(Following[pc])
       /\ UNCHANGED <<asked, ledger, missing, fault, expired, blocked>>

CreateExerciser ==
    \/ /\ pc = "exerciser"
       /\ Send(NewKeys(AccountsOfExerciser) /\ MintsExist(AccountsOfExerciser),
               AccountsOfExerciser, {})
    \/ /\ pc = "exerciserQuote"
       /\ Send(<<"exerciser", "quote">> \in chain, {}, {<<"exerciser", "quote">>})

\* A mint, and an account of it, beside the market.
InitNewTokenMint ==
    /\ pc = "spareMint"
    /\ Send(NewKeys({MintKey("spare")}), {MintKey("spare")}, {})

InitNewTokenAccount ==
    /\ pc = "spareAccount"
    /\ Send(/\ NewKeys({<<"spare", "spare">>})
            /\ MintsExist({<<"spare", "spare">>}), {<<"spare", "spare">>}, {})

Script ==
    \/ CreateUnderlyingAndQuoteMints
    \/ \E asset \in Assets : LookUpFee(asset)
    \/ InitOptionMarket
    \/ CreateMinter
    \/ CreateExerciser
    \/ InitNewTokenMint
    \/ InitNewTokenAccount

\* Somebody else creates a fee account, or sends lamports to its address.
OthersCreateFeeAccount(asset) ==
    /\ feeKey[asset][2] = "other" \/ MintKey(asset) \in chain
    /\ feeKey[asset] \notin chain
    /\ chain' = chain \cup {feeKey[asset]}
    /\ lamports' = lamports \ {feeKey[asset]}
    /\ UNCHANGED <<asked, funded, client, expired, blocked>>

NotFunded(asset) == feeKey[asset] \notin lamports
NotCreatedNorFunded(asset) == feeKey[asset] \notin chain \cup lamports

OthersSendLamports(asset) ==
    /\ NotCreatedNorFunded(asset)
    /\ lamports' = lamports \cup {feeKey[asset]}
    /\ UNCHANGED <<asked, chain, funded, client, expired, blocked>>

\* Somebody else creates the very market, with the fee accounts it wants: its
\* address follows from the mints, the amounts and the expiration.
OthersInitOptionMarket ==
    /\ InitializeMarket
    /\ chain' = chain \cup NewMarketAccounts
                   \cup {FeeKey(asset) : asset \in {a \in Assets : FeeInTokens(perContract[a])}}
    /\ lamports' = lamports \ chain'
    /\ UNCHANGED <<asked, funded, client, expired, blocked>>

\* The clock passes the expiration, which the caller chose at will.
Expire ==
    /\ ~expired
    /\ expired' = TRUE
    /\ UNCHANGED <<asked, ledger, client, blocked>>

\* This commit's build, which panics, replaces an earlier one.
Upgrade ==
    /\ ~blocked
    /\ blocked' = TRUE
    /\ UNCHANGED <<asked, ledger, client, expired>>

Next ==
    \/ Script
    \/ \E asset \in Assets : OthersCreateFeeAccount(asset) \/ OthersSendLamports(asset)
    \/ OthersInitOptionMarket
    \/ Expire
    \/ Upgrade

\* The client's process runs: it is one program, and a lost answer ends it.
Spec == Init /\ [][Next]_vars /\ WF_vars(Script)

-----------------------------------------------------------------------------
(* Properties *)

\* Somebody created the client's market, or a fee account it had looked for.
Overtaken == MarketKey \in chain \/ \E asset \in missing : feeKey[asset] \in chain

EmptyContract == \E asset \in Assets : perContract[asset] = 0

\* The caller asked for the fees to go to somebody else or in another token.
WrongFeeAccount ==
    \E asset \in Assets : FeeInTokens(perContract[asset]) /\ feeKey[asset] # FeeKey(asset)

\* What the creation of a market may be refused for.
Reason == Overtaken \/ EmptyContract \/ WrongFeeAccount \/ expired \/ blocked

\* A setup is refused nowhere but at the creation of its market, and there for a
\* reason that lasts: the caller asked for an empty contract or a wrong fee
\* account, the expiration has passed while the requests went by, somebody came
\* between the lookup and the creation, or the build blocks it.  In particular
\* no lamports sent ahead, no quantity at which the client's fee and the
\* program's differ, and no order of the fee accounts refuses it; and with its
\* market there, nothing can keep a client from its accounts.
SetupRefusedForAReason ==
    pc = "threw" /\ ~fault => stoppedAt = "optionMarket" /\ Reason

\* What the helpers return is there: whatever was lost on the way, a client
\* that got to the end has a market whose fee accounts exist, and accounts with
\* the tokens it asked for.
ReturnedIsComplete ==
    pc = "returned" =>
        /\ NewMarketAccounts \cup AccountsOfMinter \cup AccountsOfExerciser \subseteq chain
        /\ \A asset \in Assets : FeeInTokens(perContract[asset]) => FeeKey(asset) \in chain
        /\ {<<"minter", "underlying">>, <<"exerciser", "quote">>} \subseteq funded
        /\ quoteAmount > 0 => <<"minter", "quote">> \in funded

\* Every setup comes to an end, and one whose requests are answered and that has
\* no reason to be refused ends with its market and its accounts.
SetupReturns == <>(pc = "returned" \/ (pc = "threw" /\ (fault \/ Reason)))
=============================================================================

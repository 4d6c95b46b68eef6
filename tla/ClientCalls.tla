---------------------------- MODULE ClientCalls ----------------------------
(***************************************************************************)
(* PsyAmerican as its TypeScript client reaches it: every instruction is   *)
(* sent as a message whose accounts get their flags from the IDL the       *)
(* client was generated with, signed by the provider's wallet and by the   *)
(* keys the helper adds.  A call is a step of the program that the message *)
(* has the signatures and the privileges for.                              *)
(*                                                                         *)
(* The handlers do not depend on the IDL, and the IDL does not say which   *)
(* handler needs what.  A flag that is missing from it refuses a call in   *)
(* the states that reach the transfer, burn or fee that needs the flag; if *)
(* the program declares the account with it, in every state.               *)
(***************************************************************************)
EXTENDS PsyAmerican, Messages

\* Keys: a wallet is its lamport account, a user's token accounts are its
\* accounts of the ledger, mints and markets are their own keys.
Wallet(user) == <<user, Sol>>
TokenAccount(user, mint) == <<user, mint>>
TokenProgram == <<"program", "spl-token">>
SystemProgram == <<"program", "system">>
ClockSysvar == <<"sysvar", "clock">>

\* The calls a handler makes to other programs, and what each asks of the
\* message.  A market signs for itself.
TransferNeeds(authority, from, to) == Needs({authority}, {from, to}, {TokenProgram})
PayoutNeeds(pool, to) == Needs({}, {pool, to}, {TokenProgram})
LamportNeeds(from, to) == Needs({from}, {from, to}, {SystemProgram})
MintToNeeds(mint, to) == Needs({}, {mint, to}, {TokenProgram})
BurnNeeds(authority, mint, from) == Needs({authority}, {mint, from}, {TokenProgram})

FeeNeeds(user, asset, quantity) ==
    IF FeeInTokens(quantity)
    THEN TransferNeeds(Wallet(user), TokenAccount(user, asset), FeeAccount(asset))
    ELSE LamportNeeds(Wallet(user), FeeAccount(Sol))

\* What the program's own declaration of an instruction's accounts asks for,
\* whichever branch the handler takes.  For most instructions that is what every
\* one of their executions needs anyway; the first versions of mint and exercise
\* declare the fee owner writable, and the writer or the owner of the options,
\* although a fee in tokens writes none of them.
MintOptionFields(m, user) ==
    Needs({Wallet(user)}, {Wallet(user), FeeAccount(Sol)},
          {m, TokenProgram, SystemProgram, ClockSysvar})
ExerciseOptionFields(m, user, holder) ==
    Needs({Wallet(user), Wallet(holder)}, {Wallet(holder), FeeAccount(Sol)},
          {m, TokenProgram, SystemProgram, ClockSysvar})

\* The fee account an instruction takes from the front of the remaining
\* accounts when the fee is in tokens.
FeeAccountPassed(remaining, asset, quantity) ==
    FeeInTokens(quantity) => remaining # <<>> /\ remaining[1].key = FeeAccount(asset)

\* A transaction that ends in ledger l changes no account that its message does
\* not mark writable.
ChangesOnly(mut, l) ==
    /\ \A a \in Accounts : l.balance[a] # ledger.balance[a] => a \in mut
    /\ \A t \in ProgramMints : l.supply[t] # ledger.supply[t] => t \in mut

\* A call's transaction is the instruction, with a message that goes through: the
\* ...GoesThrough operators say of each call when it does, the instruction ending
\* in ledger l.

-----------------------------------------------------------------------------
\* Creating a market.  The client passes the fee accounts it thinks the market
\* needs, the mint fee's first.
InitializeMarketIdl(authority, m) ==
    [ signer |-> {authority},
      mut |-> {authority, OptionMint(m), WriterTokenMint(m),
               QuoteAssetPool(m), UnderlyingAssetPool(m), m},
      readonly |-> {Terms[m].underlying_asset_mint, Terms[m].quote_asset_mint,
                    FeeAccount(Sol), TokenProgram, SystemProgram, ClockSysvar} ]

SetupRemainingExerciseFirst(m) ==
    (IF PassesFeeAccount(Terms[m].quote_amount_per_contract)
     THEN << Meta(FeeAccount(Terms[m].quote_asset_mint), FALSE, FALSE) >> ELSE <<>>)
    \o
    (IF PassesFeeAccount(Terms[m].underlying_amount_per_contract)
     THEN << Meta(FeeAccount(Terms[m].underlying_asset_mint), FALSE, TRUE) >> ELSE <<>>)
SetupRemaining(m) ==
    (IF PassesFeeAccount(Terms[m].underlying_amount_per_contract)
     THEN << Meta(FeeAccount(Terms[m].underlying_asset_mint), FALSE, TRUE) >> ELSE <<>>)
    \o
    (IF PassesFeeAccount(Terms[m].quote_amount_per_contract)
     THEN << Meta(FeeAccount(Terms[m].quote_asset_mint), FALSE, FALSE) >> ELSE <<>>)

\* The program takes them in the same order, each only if it asks for it.
ValidateFeeAccounts(m, remaining) ==
    LET mintFee == IF FeeInTokens(Terms[m].underlying_amount_per_contract)
                   THEN <<FeeAccount(Terms[m].underlying_asset_mint)>> ELSE <<>>
        exerciseFee == IF FeeInTokens(Terms[m].quote_amount_per_contract)
                       THEN <<FeeAccount(Terms[m].quote_asset_mint)>> ELSE <<>>
        taken == mintFee \o exerciseFee
    IN  /\ Len(taken) <= Len(remaining)
        /\ \A i \in DOMAIN taken : remaining[i].key = taken[i]

InitializeMarketNeeds(authority, m) ==
    Needs({authority},
          {authority, m, OptionMint(m), WriterTokenMint(m), QuoteAssetPool(m), UnderlyingAssetPool(m)},
          {TokenProgram, SystemProgram})

InitOptionMarketGoesThrough(payer, user, m) ==
    /\ ValidateFeeAccounts(m, SetupRemaining(m))
    /\ Accepted(Message(Wallet(payer), InitializeMarketIdl(Wallet(user), m), SetupRemaining(m)),
                {Wallet(payer), Wallet(user)}, InitializeMarketNeeds(Wallet(user), m))

InitOptionMarket(payer, user, m) ==
    /\ InitializeMarket(m)
    /\ InitOptionMarketGoesThrough(payer, user, m)

-----------------------------------------------------------------------------
\* Minting.
IssueNeeds(m, user) ==
    Together({ TransferNeeds(Wallet(user), TokenAccount(user, Terms[m].underlying_asset_mint),
                             UnderlyingAssetPool(m)),
               MintToNeeds(OptionMint(m), TokenAccount(user, OptionMint(m))),
               MintToNeeds(WriterTokenMint(m), TokenAccount(user, WriterTokenMint(m))) })

MintOptionIdl(m, user) ==
    [ signer |-> {Wallet(user)},
      mut |-> {Wallet(user), UnderlyingAssetPool(m),
               TokenAccount(user, Terms[m].underlying_asset_mint),
               OptionMint(m), TokenAccount(user, OptionMint(m)),
               WriterTokenMint(m), TokenAccount(user, WriterTokenMint(m)), FeeAccount(Sol)},
      readonly |-> {Terms[m].underlying_asset_mint, m, TokenProgram, ClockSysvar, SystemProgram} ]

MintFeeRemaining(m) ==
    IF PassesFeeAccount(Terms[m].underlying_amount_per_contract)
    THEN << Meta(FeeAccount(Terms[m].underlying_asset_mint), FALSE, TRUE) >>
    ELSE <<>>

MintOptionsGoesThrough(payer, m, user, l) ==
    LET message == Message(Wallet(payer), MintOptionIdl(m, user), MintFeeRemaining(m))
    IN  /\ FeeAccountPassed(MintFeeRemaining(m), Terms[m].underlying_asset_mint,
                            Terms[m].underlying_amount_per_contract)
        /\ Accepted(message, {Wallet(payer), Wallet(user)},
                    Together({MintOptionFields(m, user),
                              IssueNeeds(m, user),
                              FeeNeeds(user, Terms[m].underlying_asset_mint,
                                       Terms[m].underlying_amount_per_contract)}))
        /\ ChangesOnly(message.mut, l)

MintOptionsTx(payer, m, user, size) ==
    /\ MintOption(m, user, size)
    /\ MintOptionsGoesThrough(payer, m, user, ledger')

MintOptionV2Idl(m, user) ==
    [ signer |-> {Wallet(user)},
      mut |-> {UnderlyingAssetPool(m), TokenAccount(user, Terms[m].underlying_asset_mint),
               OptionMint(m), TokenAccount(user, OptionMint(m)),
               WriterTokenMint(m), TokenAccount(user, WriterTokenMint(m))},
      readonly |-> {Terms[m].underlying_asset_mint, m, TokenProgram} ]

MintOptionV2GoesThrough(payer, m, user, l) ==
    LET message == Message(Wallet(payer), MintOptionV2Idl(m, user), SetupRemaining(m))
    IN  /\ Accepted(message, {Wallet(payer), Wallet(user)}, IssueNeeds(m, user))
        /\ ChangesOnly(message.mut, l)

MintOptionV2Tx(payer, m, user, size) ==
    /\ MintOptionV2(m, user, size)
    /\ MintOptionV2GoesThrough(payer, m, user, ledger')

-----------------------------------------------------------------------------
\* Exercise.  The helper adds the exerciser's signature only: the owner of the
\* options has signed when it is the exerciser or the provider's wallet.
ExerciseNeeds(m, user, holder) ==
    Together({ BurnNeeds(Wallet(holder), OptionMint(m), TokenAccount(holder, OptionMint(m))),
               TransferNeeds(Wallet(user), TokenAccount(user, Terms[m].quote_asset_mint),
                             QuoteAssetPool(m)),
               PayoutNeeds(UnderlyingAssetPool(m),
                           TokenAccount(user, Terms[m].underlying_asset_mint)) })

ExerciseOptionIdlReadOnlyFeeOwner(m, user, holder) ==
    [ signer |-> {Wallet(user), Wallet(holder)},
      mut |-> {Wallet(holder), OptionMint(m), TokenAccount(holder, OptionMint(m)),
               UnderlyingAssetPool(m), TokenAccount(user, Terms[m].underlying_asset_mint),
               QuoteAssetPool(m), TokenAccount(user, Terms[m].quote_asset_mint)},
      readonly |-> {m, FeeAccount(Sol), TokenProgram, SystemProgram, ClockSysvar} ]
ExerciseOptionIdl(m, user, holder) ==
    [ signer |-> {Wallet(user), Wallet(holder)},
      mut |-> {Wallet(holder), OptionMint(m), TokenAccount(holder, OptionMint(m)),
               UnderlyingAssetPool(m), TokenAccount(user, Terms[m].underlying_asset_mint),
               QuoteAssetPool(m), TokenAccount(user, Terms[m].quote_asset_mint),
               FeeAccount(Sol)},
      readonly |-> {m, TokenProgram, SystemProgram, ClockSysvar} ]

\* What callers of the helper pass: the market's fee account, or nothing.
ExerciseFeeRemaining(m) == << Meta(FeeAccount(Terms[m].quote_asset_mint), FALSE, TRUE) >>

ExerciseOptionGoesThrough(payer, m, user, holder, l) ==
    \E remaining \in {<<>>, ExerciseFeeRemaining(m)} :
        LET message == Message(Wallet(payer), ExerciseOptionIdl(m, user, holder), remaining)
        IN  /\ FeeAccountPassed(remaining, Terms[m].quote_asset_mint,
                                Terms[m].quote_amount_per_contract)
            /\ Accepted(message, {Wallet(payer), Wallet(user)},
                        Together({ExerciseOptionFields(m, user, holder),
                                  ExerciseNeeds(m, user, holder),
                                  FeeNeeds(user, Terms[m].quote_asset_mint,
                                           Terms[m].quote_amount_per_contract)}))
            /\ ChangesOnly(message.mut, l)

ExerciseOptionTx(payer, m, user, holder, size) ==
    /\ ExerciseOption(m, user, holder, size)
    /\ ExerciseOptionGoesThrough(payer, m, user, holder, ledger')

ExerciseOptionV2Idl(m, user, holder) ==
    [ signer |-> {Wallet(user), Wallet(holder)},
      mut |-> {OptionMint(m), TokenAccount(holder, OptionMint(m)),
               UnderlyingAssetPool(m), TokenAccount(user, Terms[m].underlying_asset_mint),
               QuoteAssetPool(m), TokenAccount(user, Terms[m].quote_asset_mint)},
      readonly |-> {m, TokenProgram} ]

\* Sent by a provider whose wallet is the exerciser and owns the options.
ExerciseOptionV2GoesThrough(user, m, l) ==
    LET message == Message(Wallet(user), ExerciseOptionV2Idl(m, user, user), <<>>)
    IN  /\ Accepted(message, {Wallet(user)}, ExerciseNeeds(m, user, user))
        /\ ChangesOnly(message.mut, l)

ExerciseOptionV2Tx(user, m, size) ==
    /\ ExerciseOptionV2(m, user, user, size)
    /\ ExerciseOptionV2GoesThrough(user, m, ledger')

-----------------------------------------------------------------------------
\* Redeeming and closing.
RedeemNeeds(m, user, pool, asset) ==
    Together({ BurnNeeds(Wallet(user), WriterTokenMint(m), TokenAccount(user, WriterTokenMint(m))),
               PayoutNeeds(pool, TokenAccount(user, asset)) })

ClosePostExpirationIdl(m, user) ==
    [ signer |-> {Wallet(user)},
      mut |-> {WriterTokenMint(m), TokenAccount(user, WriterTokenMint(m)),
               UnderlyingAssetPool(m), TokenAccount(user, Terms[m].underlying_asset_mint)},
      readonly |-> {m, TokenProgram, ClockSysvar} ]

ClosePostExpirationGoesThrough(payer, m, user, l) ==
    LET message == Message(Wallet(payer), ClosePostExpirationIdl(m, user), <<>>)
    IN  /\ Accepted(message, {Wallet(payer), Wallet(user)},
                    RedeemNeeds(m, user, UnderlyingAssetPool(m), Terms[m].underlying_asset_mint))
        /\ ChangesOnly(message.mut, l)

ClosePostExpirationTx(payer, m, user, size) ==
    /\ ClosePostExpiration(m, user, size)
    /\ ClosePostExpirationGoesThrough(payer, m, user, ledger')

CloseOptionPositionIdl(m, user) ==
    [ signer |-> {Wallet(user)},
      mut |-> {WriterTokenMint(m), TokenAccount(user, WriterTokenMint(m)),
               OptionMint(m), TokenAccount(user, OptionMint(m)),
               UnderlyingAssetPool(m), TokenAccount(user, Terms[m].underlying_asset_mint)},
      readonly |-> {m, TokenProgram} ]

CloseOptionPositionGoesThrough(payer, m, user, l) ==
    LET message == Message(Wallet(payer), CloseOptionPositionIdl(m, user), <<>>)
        needs == Together({ RedeemNeeds(m, user, UnderlyingAssetPool(m),
                                        Terms[m].underlying_asset_mint),
                            BurnNeeds(Wallet(user), OptionMint(m), TokenAccount(user, OptionMint(m))) })
    IN  /\ Accepted(message, {Wallet(payer), Wallet(user)}, needs)
        /\ ChangesOnly(message.mut, l)

CloseOptionPositionTx(payer, m, user, size) ==
    /\ CloseOptionPosition(m, user, size)
    /\ CloseOptionPositionGoesThrough(payer, m, user, ledger')

BurnWriterForQuoteIdlReadOnlyDest(m, user) ==
    [ signer |-> {Wallet(user)},
      mut |-> {WriterTokenMint(m), TokenAccount(user, WriterTokenMint(m)), QuoteAssetPool(m)},
      readonly |-> {TokenAccount(user, Terms[m].quote_asset_mint), m, TokenProgram} ]
BurnWriterForQuoteIdl(m, user) ==
    [ signer |-> {Wallet(user)},
      mut |-> {WriterTokenMint(m), TokenAccount(user, WriterTokenMint(m)),
               QuoteAssetPool(m), TokenAccount(user, Terms[m].quote_asset_mint)},
      readonly |-> {m, TokenProgram} ]

BurnWriterForQuoteGoesThrough(payer, m, user, l) ==
    LET message == Message(Wallet(payer), BurnWriterForQuoteIdl(m, user), <<>>)
    IN  /\ Accepted(message, {Wallet(payer), Wallet(user)},
                    RedeemNeeds(m, user, QuoteAssetPool(m), Terms[m].quote_asset_mint))
        /\ ChangesOnly(message.mut, l)

BurnWriterForQuoteTx(payer, m, user, size) ==
    /\ BurnWriterForQuote(m, user, size)
    /\ BurnWriterForQuoteGoesThrough(payer, m, user, ledger')

-----------------------------------------------------------------------------
\* The client's calls, under any provider's wallet, and what happens around
\* the program.
ClientCall(payer, m, user, size) ==
    \/ MintOptionsTx(payer, m, user, size)
    \/ MintOptionV2Tx(payer, m, user, size)
    \/ \E holder \in Users : ExerciseOptionTx(payer, m, user, holder, size)
    \/ ExerciseOptionV2Tx(user, m, size)
    \/ ClosePostExpirationTx(payer, m, user, size)
    \/ CloseOptionPositionTx(payer, m, user, size)
    \/ BurnWriterForQuoteTx(payer, m, user, size)

ClientNext ==
    \/ \E payer, user \in Users, m \in Markets : InitOptionMarket(payer, user, m)
    \/ \E payer, user \in Users, m \in Markets, size \in Sizes : ClientCall(payer, m, user, size)
    \/ \E user \in Users, to \in Accounts : TokenTransfer(user, to)
    \/ \E user \in Users, mint \in ProgramMints : TokenBurn(user, mint)
    \/ Tick
    \/ Upgrade

ClientSpec == Init /\ [][ClientNext]_vars

\* Anybody can send the program any call.  The clock advances, and a wallet that
\* keeps finding itself with a writer token it could redeem through the helpers
\* gets a redemption of one token executed.  Nothing is assumed of the pool it is
\* paid from, of the provider that pays for it, nor that trading stops.
Redeem(m, user) ==
    \E payer \in Users :
        \/ ClosePostExpirationTx(payer, m, user, 1)
        \/ BurnWriterForQuoteTx(payer, m, user, 1)

FairSpec ==
    /\ Spec
    /\ WF_vars(Tick)
    /\ \A m \in Markets, user \in Users : SF_vars(Redeem(m, user))

-----------------------------------------------------------------------------
(* Properties *)

\* Whatever the program would create or issue for a wallet in this state, the
\* client's own call gets, whoever pays for the transaction: the fee accounts
\* it decides on by whole-number division are those the program's fixed-point
\* arithmetic asks for, in that order, and the IDL has the flags for every
\* transfer of the branch the market's fees take.
ClientIssues ==
    \A payer, user \in Users, m \in Markets :
        /\ MayInitialize(m) => InitOptionMarketGoesThrough(payer, user, m)
        /\ \A size \in Sizes : MayMint(m, size) =>
             /\ MintOptionResults(m, user, size) # {} =>
                   \E l \in MintOptionResults(m, user, size) :
                      MintOptionsGoesThrough(payer, m, user, l)
             /\ MintOptionV2Results(m, user, size) # {} =>
                   \E l \in MintOptionV2Results(m, user, size) :
                      MintOptionV2GoesThrough(payer, m, user, l)

\* The IDL does not make the exerciser's wallet writable: its lamport fee goes
\* through only if the wallet pays for the transaction or owns the options.
\* The helper gets no signature from an owner who is neither.
ExerciseHasPrivileges(payer, m, user, holder) ==
    /\ holder \in {payer, user}
    /\ FeeInTokens(Terms[m].quote_amount_per_contract) \/ user \in {payer, holder}

\* A holder whose options the program would exercise in this state exercises
\* them through the helper, and closes a position and redeems through it, whichever
\* provider sends the call.
ClientExercisesAndCloses ==
    \A payer, user \in Users, m \in markets, size \in Sizes :
        /\ UnexpiredMarket(m) =>
             /\ \A holder \in Users :
                   /\ ExerciseHasPrivileges(payer, m, user, holder)
                   /\ ExerciseOptionResults(m, user, holder, size) # {}
                   => \E l \in ExerciseOptionResults(m, user, holder, size) :
                         ExerciseOptionGoesThrough(payer, m, user, holder, l)
             /\ ExerciseOptionV2Results(m, user, user, size) # {} =>
                   \E l \in ExerciseOptionV2Results(m, user, user, size) :
                      ExerciseOptionV2GoesThrough(user, m, l)
        /\ ExpiredMarket(m) /\ ClosePostExpirationResults(m, user, size) # {} =>
              \E l \in ClosePostExpirationResults(m, user, size) :
                 ClosePostExpirationGoesThrough(payer, m, user, l)
        /\ CloseOptionPositionResults(m, user, size) # {} =>
              \E l \in CloseOptionPositionResults(m, user, size) :
                 CloseOptionPositionGoesThrough(payer, m, user, l)
        /\ BurnWriterForQuoteResults(m, user, size) # {} =>
              \E l \in BurnWriterForQuoteResults(m, user, size) :
                 BurnWriterForQuoteGoesThrough(payer, m, user, l)
=============================================================================

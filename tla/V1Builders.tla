----------------------------- MODULE V1Builders -----------------------------
(***************************************************************************)
(* Transactions for the first version of the program, as the client builds *)
(* them (exerciseCoveredCall.ts, closePosition.ts,                         *)
(* closePostExpirationCoveredCall.ts, exchangeWriterTokenForQuoteAsset.ts). *)
(*                                                                         *)
(* A builder returns a transaction with a recent blockhash and no          *)
(* signatures.  Its caller collects those the account list asks for and    *)
(* sends it; by the time it is executed the pools may have changed, the    *)
(* market may have expired, or the blockhash may be too old, and then it   *)
(* is built again.                                                         *)
(*                                                                         *)
(* That program is not in the repository.  Its four handlers are modelled  *)
(* from what the builders say of them, on one market, in contracts.        *)
(***************************************************************************)
EXTENDS Integers, Messages

CONSTANTS
    Wallets,
    Written,    \* writer tokens of each wallet at first
    Held,       \* option tokens of each wallet at first
    Contracts,  \* how many of either there are
    NoTx        \* nothing built and not yet executed

ASSUME BuildersAssumption ==
    /\ Contracts \in Nat
    /\ Written \in [Wallets -> 0..Contracts]
    /\ Held \in [Wallets -> 0..Contracts]

VARIABLES
    expired,     \* the market's second has passed
    writer,      \* writer tokens of each wallet
    option,      \* option tokens of each wallet
    underlying,  \* contracts of underlying in the pool
    quote,       \* contracts of quote in the pool
    tx           \* of each wallet, the transaction it had built

vars == <<expired, writer, option, underlying, quote, tx>>

Init ==
    /\ expired = FALSE
    /\ writer = Written
    /\ option = Held
    /\ underlying = Contracts
    /\ quote = 0
    /\ tx = [w \in Wallets |-> NoTx]

-----------------------------------------------------------------------------
\* Instructions: the tag the data starts with, and the flags of the accounts.
\* `holder` owns the option tokens, and a wallet's token accounts are pairs.
Instruction(tag, signer, mut, readonly) ==
    [tag |-> tag, list |-> [signer |-> signer, mut |-> mut, readonly |-> readonly]]

Key(name) == <<"key", name>>
UnderlyingPool == Key("underlyingAssetPool")
QuotePool == Key("quoteAssetPool")
OptionMint == Key("optionMint")
WriterTokenMint == Key("writerTokenMint")
FeeAccounts == {Key("feeRecipient"), Key("feeOwner")}
Market == {Key("optionMarket"), Key("marketAuthority"), Key("spl-token")}

ExerciseCoveredCallInstructionHolderUnsigned(w, holder, payer) ==
    Instruction(2, {w},
        {payer, <<w, "quote">>, <<w, "underlying">>, UnderlyingPool, QuotePool, OptionMint,
         <<holder, "option">>} \cup FeeAccounts,
        Market \cup {holder, Key("quoteAssetMint"), Key("system"), Key("clock")})
ExerciseCoveredCallInstruction(w, holder, payer) ==
    Instruction(2, {w, holder},
        {payer, <<w, "quote">>, <<w, "underlying">>, UnderlyingPool, QuotePool, OptionMint,
         <<holder, "option">>} \cup FeeAccounts,
        Market \cup {Key("quoteAssetMint"), Key("system"), Key("clock")})

ClosePostExpirationCoveredCallInstruction(w) ==
    Instruction(3, {w},
        {WriterTokenMint, <<w, "writer">>, <<w, "underlying">>, UnderlyingPool},
        Market \cup {Key("clock")})

ClosePositionInstruction(w, holder) ==
    Instruction(4, {w},
        {OptionMint, <<holder, "option">>, WriterTokenMint, <<w, "writer">>,
         <<w, "underlying">>, UnderlyingPool},
        Market \cup {holder})

ExchangeWriterTokenForQuoteInstructionTag4(w) ==
    Instruction(4, {w}, {WriterTokenMint, <<w, "writer">>, <<w, "quote">>, QuotePool}, Market)
ExchangeWriterTokenForQuoteInstruction(w) ==
    Instruction(5, {w}, {WriterTokenMint, <<w, "writer">>, <<w, "quote">>, QuotePool}, Market)

InstructionFor(t, w) ==
    CASE t.op = "ExerciseCoveredCall" -> ExerciseCoveredCallInstruction(w, t.holder, t.payer)
      [] t.op = "ClosePostExpiration" -> ClosePostExpirationCoveredCallInstruction(w)
      [] t.op = "ClosePosition" -> ClosePositionInstruction(w, t.holder)
      [] t.op = "ExchangeWriterTokenForQuote" -> ExchangeWriterTokenForQuoteInstruction(w)

\* The wrappers: a transaction of one instruction with the payer as fee payer
\* and a recent blockhash.  Two come in a second form that reads the keys of the
\* pools and mints from the market's account first; they never change.
Build(w, op, holder, payer) ==
    /\ tx[w] = NoTx
    /\ tx' = [tx EXCEPT ![w] = [op |-> op, holder |-> holder, payer |-> payer]]
    /\ UNCHANGED <<expired, writer, option, underlying, quote>>

ExerciseCoveredCall(w, holder, payer) == Build(w, "ExerciseCoveredCall", holder, payer)
ClosePostExpirationCoveredCall(w, payer) == Build(w, "ClosePostExpiration", w, payer)
ClosePosition(w, holder, payer) == Build(w, "ClosePosition", holder, payer)
ExchangeWriterTokenForQuote(w, payer) == Build(w, "ExchangeWriterTokenForQuote", w, payer)

Tag(w) == InstructionFor(tx[w], w).tag
Sent(w) == Message(tx[w].payer, InstructionFor(tx[w], w).list, <<>>)

-----------------------------------------------------------------------------
\* The program.  Which instruction a tag is:
Unpack == [tag \in 2..5 |->
    CASE tag = 2 -> "ExerciseCoveredCall"
      [] tag = 3 -> "ClosePostExpiration"
      [] tag = 4 -> "ClosePosition"
      [] tag = 5 -> "ExchangeWriterTokenForQuote"]

\* The calls its handlers make.
BurnNeeds(owner, token, mint) == Needs({owner}, {<<owner, token>>, mint}, {Key("spl-token")})
PayNeeds(pool, w, token) == Needs({}, {pool, <<w, token>>}, Market)
ExerciseNeeds(w, payer) ==
    Needs({w, payer}, {<<w, "quote">>, QuotePool, payer} \cup FeeAccounts, {Key("clock")})

OpNeeds(op, w, holder, payer) ==
    Together(
        (IF op = "ExerciseCoveredCall" THEN {ExerciseNeeds(w, payer)}
         ELSE {BurnNeeds(w, "writer", WriterTokenMint)})
        \cup
        (IF op \in {"ExerciseCoveredCall", "ClosePosition"}
         THEN {BurnNeeds(holder, "option", OptionMint)} ELSE {})
        \cup
        (IF op = "ExchangeWriterTokenForQuote" THEN {PayNeeds(QuotePool, w, "quote")}
         ELSE {PayNeeds(UnderlyingPool, w, "underlying")}))

\* What it would do for the wallet, were it asked right.
Pays(op, w, holder) ==
    CASE op = "ExerciseCoveredCall" -> ~expired /\ option[holder] > 0 /\ underlying > 0
      [] op = "ClosePostExpiration" -> expired /\ writer[w] > 0 /\ underlying > 0
      [] op = "ClosePosition" -> writer[w] > 0 /\ option[holder] > 0 /\ underlying > 0
      [] op = "ExchangeWriterTokenForQuote" -> writer[w] > 0 /\ quote > 0

Handle(op, w, holder) ==
    /\ Pays(op, w, holder)
    /\ option' = IF op \in {"ExerciseCoveredCall", "ClosePosition"}
                 THEN [option EXCEPT ![holder] = @ - 1] ELSE option
    /\ writer' = IF op # "ExerciseCoveredCall"
                 THEN [writer EXCEPT ![w] = @ - 1] ELSE writer
    /\ underlying' = IF op = "ExchangeWriterTokenForQuote" THEN underlying ELSE underlying - 1
    /\ quote' = CASE op = "ExerciseCoveredCall" -> quote + 1
                  [] op = "ExchangeWriterTokenForQuote" -> quote - 1
                  [] OTHER -> quote

\* Everybody the account list asks signs.
Executes(w) ==
    LET op == Unpack[Tag(w)]
    IN  /\ Accepted(Sent(w), Wallets, OpNeeds(op, w, tx[w].holder, tx[w].payer))
        /\ Pays(op, w, tx[w].holder)

Land(w) ==
    /\ tx[w] # NoTx
    /\ Executes(w)
    /\ Handle(Unpack[Tag(w)], w, tx[w].holder)
    /\ tx' = [tx EXCEPT ![w] = NoTx]
    /\ UNCHANGED expired

\* Refused, or not executed while its blockhash was recent.
Fail(w) ==
    /\ tx[w] # NoTx
    /\ tx' = [tx EXCEPT ![w] = NoTx]
    /\ UNCHANGED <<expired, writer, option, underlying, quote>>

Expire ==
    /\ ~expired
    /\ expired' = TRUE
    /\ UNCHANGED <<writer, option, underlying, quote, tx>>

Next ==
    \/ \E w, holder, payer \in Wallets :
          ExerciseCoveredCall(w, holder, payer) \/ ClosePosition(w, holder, payer)
    \/ \E w, payer \in Wallets :
          ClosePostExpirationCoveredCall(w, payer) \/ ExchangeWriterTokenForQuote(w, payer)
    \/ \E w \in Wallets : Land(w) \/ Fail(w)
    \/ Expire

Spec == Init /\ [][Next]_vars

\* Blockhashes grow too old, a writer keeps building redemptions of either kind,
\* and one that can be executed again and again is, once.
FairSpec ==
    /\ Spec
    /\ WF_vars(Expire)
    /\ \A w \in Wallets : WF_vars(Fail(w))
    /\ \A w \in Wallets :
          /\ SF_vars(ClosePostExpirationCoveredCall(w, w))
          /\ SF_vars(ExchangeWriterTokenForQuote(w, w))
          /\ SF_vars(tx[w] # NoTx /\ tx[w].op = "ClosePostExpiration" /\ Land(w))
          /\ SF_vars(tx[w] # NoTx /\ tx[w].op = "ExchangeWriterTokenForQuote" /\ Land(w))

-----------------------------------------------------------------------------
(* Properties *)

\* A transaction executed while the program would still pay for what it was
\* built for is accepted and does that, whoever pays for it and whatever others
\* did since it was built.  The exception is the owner of the options of a
\* position, whose signature closePosition.ts does not ask for.
BuiltCallsAreAccepted ==
    \A w \in Wallets :
        /\ tx[w] # NoTx
        /\ Pays(tx[w].op, w, tx[w].holder)
        /\ tx[w].op = "ClosePosition" => tx[w].holder \in {w, tx[w].payer}
        => Unpack[Tag(w)] = tx[w].op /\ Executes(w)

\* After expiration every writer gets out through the two redemptions, however
\* many of its transactions fail or become too old, and whoever emptied which pool.
WritersLeave == \A w \in Wallets : <>(writer[w] = 0)
=============================================================================

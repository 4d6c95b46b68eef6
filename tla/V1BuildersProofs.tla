-------------------------- MODULE V1BuildersProofs --------------------------
(***************************************************************************)
(* The transactions that the client builds for the first version of the    *)
(* program are what it takes, for any wallets and any number of contracts. *)
(***************************************************************************)
EXTENDS V1Builders, TLAPS

Ops == {"ExerciseCoveredCall", "ClosePostExpiration", "ClosePosition", "ExchangeWriterTokenForQuote"}
BuiltTx == [op : Ops, holder : Wallets, payer : Wallets]

\* What a wallet has built is one of the four transactions, for wallets.
TxType == tx \in [Wallets -> BuiltTx \cup {NoTx}]

-----------------------------------------------------------------------------
(* Messages *)

\* A message without remaining accounts is its payer and its list.
LEMMA MessageOf ==
    ASSUME NEW payer, NEW list
    PROVE  /\ Message(payer, list, <<>>).signer = {payer} \cup list.signer
           /\ Message(payer, list, <<>>).mut = {payer} \cup list.mut
           /\ Message(payer, list, <<>>).key
                 = {payer} \cup list.signer \cup list.mut \cup list.readonly
  BY DEF Message

\* A list that suffices for each call suffices for all of them.
LEMMA CallsAccepted ==
    ASSUME NEW payer \in Wallets, NEW list, NEW calls, list.signer \subseteq Wallets,
           \A n \in calls : /\ n.signer \subseteq {payer} \cup list.signer
                            /\ n.mut \subseteq list.mut
                            /\ n.key \subseteq list.readonly
    PROVE  Accepted(Message(payer, list, <<>>), Wallets, Together(calls))
  <1> DEFINE message == Message(payer, list, <<>>)
  <1>1. /\ message.signer = {payer} \cup list.signer
        /\ message.mut = {payer} \cup list.mut
        /\ message.key = {payer} \cup list.signer \cup list.mut \cup list.readonly
    BY MessageOf
  <1> HIDE DEF message
  <1> QED
    BY <1>1 DEF Accepted, Together, message

\* What each of the calls needs.
LEMMA NeedsOf ==
    /\ \A owner, token, mint : BurnNeeds(owner, token, mint) =
          [signer |-> {owner}, mut |-> {<<owner, token>>, mint}, key |-> {Key("spl-token")}]
    /\ \A pool, w, token : PayNeeds(pool, w, token) =
          [signer |-> {}, mut |-> {pool, <<w, token>>}, key |-> Market]
    /\ \A w, payer : ExerciseNeeds(w, payer) =
          [signer |-> {w, payer},
           mut |-> {<<w, "quote">>, QuotePool, payer} \cup FeeAccounts, key |-> {Key("clock")}]
  BY DEF BurnNeeds, PayNeeds, ExerciseNeeds, Needs

\* The account lists carry the keys of the program's calls.
LEMMA MarketKeys == Key("spl-token") \in Market
  BY DEF Market

\* An exercise has the signatures of the exerciser, the owner of the options and
\* the payer.
LEMMA ExerciseAccepted ==
    ASSUME NEW w \in Wallets, NEW holder \in Wallets, NEW payer \in Wallets
    PROVE  Accepted(Message(payer, ExerciseCoveredCallInstruction(w, holder, payer).list, <<>>),
                    Wallets, OpNeeds("ExerciseCoveredCall", w, holder, payer))
  <1> DEFINE list == ExerciseCoveredCallInstruction(w, holder, payer).list
             calls == { ExerciseNeeds(w, payer), BurnNeeds(holder, "option", OptionMint),
                        PayNeeds(UnderlyingPool, w, "underlying") }
  <1>1. /\ list.signer = {w, holder}
        /\ {payer, <<w, "quote">>, <<w, "underlying">>, UnderlyingPool, QuotePool, OptionMint,
            <<holder, "option">>} \cup FeeAccounts \subseteq list.mut
        /\ Market \cup {Key("clock")} \subseteq list.readonly
    BY DEF ExerciseCoveredCallInstruction, Instruction
  <1>2. Together(calls) = OpNeeds("ExerciseCoveredCall", w, holder, payer)
    <2>1. calls = {ExerciseNeeds(w, payer)} \cup {BurnNeeds(holder, "option", OptionMint)}
                     \cup {PayNeeds(UnderlyingPool, w, "underlying")}
      OBVIOUS
    <2> QED
      BY <2>1 DEF OpNeeds
  <1> HIDE DEF list
  <1>3. \A n \in calls : /\ n.signer \subseteq {payer} \cup list.signer
                         /\ n.mut \subseteq list.mut
                         /\ n.key \subseteq list.readonly
    BY <1>1, NeedsOf, MarketKeys
  <1>4. list.signer \subseteq Wallets
    BY <1>1
  <1>5. Accepted(Message(payer, list, <<>>), Wallets, Together(calls))
    BY <1>3, <1>4, CallsAccepted
  <1> QED
    BY <1>2, <1>5 DEF list

\* A redemption after expiration has those of the writer and the payer.
LEMMA ClosePostExpirationAccepted ==
    ASSUME NEW w \in Wallets, NEW holder \in Wallets, NEW payer \in Wallets
    PROVE  Accepted(Message(payer, ClosePostExpirationCoveredCallInstruction(w).list, <<>>),
                    Wallets, OpNeeds("ClosePostExpiration", w, holder, payer))
  <1> DEFINE list == ClosePostExpirationCoveredCallInstruction(w).list
             calls == { BurnNeeds(w, "writer", WriterTokenMint),
                        PayNeeds(UnderlyingPool, w, "underlying") }
  <1>1. /\ list.signer = {w}
        /\ {WriterTokenMint, <<w, "writer">>, <<w, "underlying">>, UnderlyingPool} \subseteq list.mut
        /\ Market \subseteq list.readonly
    BY DEF ClosePostExpirationCoveredCallInstruction, Instruction
  <1>2. Together(calls) = OpNeeds("ClosePostExpiration", w, holder, payer)
    <2>1. calls = {BurnNeeds(w, "writer", WriterTokenMint)} \cup {}
                     \cup {PayNeeds(UnderlyingPool, w, "underlying")}
      OBVIOUS
    <2> QED
      BY <2>1 DEF OpNeeds
  <1> HIDE DEF list
  <1>3. \A n \in calls : /\ n.signer \subseteq {payer} \cup list.signer
                         /\ n.mut \subseteq list.mut
                         /\ n.key \subseteq list.readonly
    BY <1>1, NeedsOf, MarketKeys
  <1>4. list.signer \subseteq Wallets
    BY <1>1
  <1>5. Accepted(Message(payer, list, <<>>), Wallets, Together(calls))
    BY <1>3, <1>4, CallsAccepted
  <1> QED
    BY <1>2, <1>5 DEF list

\* So does an exchange for quote.
LEMMA ExchangeAccepted ==
    ASSUME NEW w \in Wallets, NEW holder \in Wallets, NEW payer \in Wallets
    PROVE  Accepted(Message(payer, ExchangeWriterTokenForQuoteInstruction(w).list, <<>>),
                    Wallets, OpNeeds("ExchangeWriterTokenForQuote", w, holder, payer))
  <1> DEFINE list == ExchangeWriterTokenForQuoteInstruction(w).list
             calls == {BurnNeeds(w, "writer", WriterTokenMint), PayNeeds(QuotePool, w, "quote")}
  <1>1. /\ list.signer = {w}
        /\ {WriterTokenMint, <<w, "writer">>, <<w, "quote">>, QuotePool} \subseteq list.mut
        /\ Market \subseteq list.readonly
    BY DEF ExchangeWriterTokenForQuoteInstruction, Instruction
  <1>2. Together(calls) = OpNeeds("ExchangeWriterTokenForQuote", w, holder, payer)
    <2>1. calls = {BurnNeeds(w, "writer", WriterTokenMint)} \cup {}
                     \cup {PayNeeds(QuotePool, w, "quote")}
      OBVIOUS
    <2> QED
      BY <2>1 DEF OpNeeds
  <1> HIDE DEF list
  <1>3. \A n \in calls : /\ n.signer \subseteq {payer} \cup list.signer
                         /\ n.mut \subseteq list.mut
                         /\ n.key \subseteq list.readonly
    BY <1>1, NeedsOf, MarketKeys
  <1>4. list.signer \subseteq Wallets
    BY <1>1
  <1>5. Accepted(Message(payer, list, <<>>), Wallets, Together(calls))
    BY <1>3, <1>4, CallsAccepted
  <1> QED
    BY <1>2, <1>5 DEF list

\* Closing a position has the signature of the owner of its options only if
\* that is the writer or the payer.
LEMMA ClosePositionAccepted ==
    ASSUME NEW w \in Wallets, NEW holder \in Wallets, NEW payer \in Wallets,
           holder \in {w, payer}
    PROVE  Accepted(Message(payer, ClosePositionInstruction(w, holder).list, <<>>),
                    Wallets, OpNeeds("ClosePosition", w, holder, payer))
  <1> DEFINE list == ClosePositionInstruction(w, holder).list
             calls == { BurnNeeds(w, "writer", WriterTokenMint),
                        BurnNeeds(holder, "option", OptionMint),
                        PayNeeds(UnderlyingPool, w, "underlying") }
  <1>1. /\ list.signer = {w}
        /\ {OptionMint, <<holder, "option">>, WriterTokenMint, <<w, "writer">>,
            <<w, "underlying">>, UnderlyingPool} \subseteq list.mut
        /\ Market \subseteq list.readonly
    BY DEF ClosePositionInstruction, Instruction
  <1>2. Together(calls) = OpNeeds("ClosePosition", w, holder, payer)
    <2>1. calls = {BurnNeeds(w, "writer", WriterTokenMint)}
                     \cup {BurnNeeds(holder, "option", OptionMint)}
                     \cup {PayNeeds(UnderlyingPool, w, "underlying")}
      OBVIOUS
    <2> QED
      BY <2>1 DEF OpNeeds
  <1> HIDE DEF list
  <1>3. \A n \in calls : /\ n.signer \subseteq {payer} \cup list.signer
                         /\ n.mut \subseteq list.mut
                         /\ n.key \subseteq list.readonly
    BY <1>1, NeedsOf, MarketKeys
  <1>4. list.signer \subseteq Wallets
    BY <1>1
  <1>5. Accepted(Message(payer, list, <<>>), Wallets, Together(calls))
    BY <1>3, <1>4, CallsAccepted
  <1> QED
    BY <1>2, <1>5 DEF list

-----------------------------------------------------------------------------
(* Transactions *)

\* A wallet builds a transaction, and in the end has nothing.
LEMMA TxTypeStep == TxType /\ [Next]_vars => TxType'
  <1> SUFFICES ASSUME TxType, [Next]_vars PROVE TxType'
    OBVIOUS
  <1>1. ASSUME NEW w \in Wallets, NEW op \in Ops, NEW holder \in Wallets, NEW payer \in Wallets,
               Build(w, op, holder, payer)
        PROVE  TxType'
    BY <1>1 DEF Build, TxType, BuiltTx
  <1>2. ASSUME NEW w \in Wallets, tx' = [tx EXCEPT ![w] = NoTx]
        PROVE  TxType'
    BY <1>2 DEF TxType
  <1>3. CASE UNCHANGED tx
    BY <1>3 DEF TxType
  <1>4. ASSUME NEW w \in Wallets, NEW holder \in Wallets, NEW payer \in Wallets,
               ExerciseCoveredCall(w, holder, payer) \/ ClosePosition(w, holder, payer)
        PROVE  TxType'
    BY <1>1, <1>4 DEF ExerciseCoveredCall, ClosePosition, Ops
  <1>5. ASSUME NEW w \in Wallets, NEW payer \in Wallets,
               ClosePostExpirationCoveredCall(w, payer) \/ ExchangeWriterTokenForQuote(w, payer)
        PROVE  TxType'
    BY <1>1, <1>5 DEF ClosePostExpirationCoveredCall, ExchangeWriterTokenForQuote, Ops
  <1>6. CASE \E w \in Wallets : Land(w) \/ Fail(w)
    BY <1>2, <1>6 DEF Land, Fail
  <1> QED
    BY <1>3, <1>4, <1>5, <1>6 DEF Next, vars, Expire

\* Nothing is built at first.
LEMMA TxTypeInit == Init => TxType
  BY DEF Init, TxType

\* The tag of each is the instruction the program takes it for.
LEMMA TagsUnpack ==
    /\ Unpack[2] = "ExerciseCoveredCall"
    /\ Unpack[3] = "ClosePostExpiration"
    /\ Unpack[4] = "ClosePosition"
    /\ Unpack[5] = "ExchangeWriterTokenForQuote"
  <1>1. 2 \in 2..5 /\ 3 \in 2..5 /\ 4 \in 2..5 /\ 5 \in 2..5
    OBVIOUS
  <1> QED
    BY <1>1 DEF Unpack

\* Whatever was built, and whatever the state it is executed in.
LEMMA AcceptedWhateverBuilt ==
    ASSUME TxType, NEW w \in Wallets, tx[w] # NoTx,
           tx[w].op = "ClosePosition" => tx[w].holder \in {w, tx[w].payer}
    PROVE  /\ Unpack[Tag(w)] = tx[w].op
           /\ Accepted(Sent(w), Wallets, OpNeeds(tx[w].op, w, tx[w].holder, tx[w].payer))
  <1> DEFINE op == tx[w].op
             holder == tx[w].holder
             payer == tx[w].payer
  <1>1. op \in Ops /\ holder \in Wallets /\ payer \in Wallets
    BY DEF TxType, BuiltTx
  <1>2. CASE op = "ExerciseCoveredCall"
    <2>1. InstructionFor(tx[w], w) = ExerciseCoveredCallInstruction(w, holder, payer)
      BY <1>2 DEF InstructionFor
    <2>2. Tag(w) = 2
      BY <2>1 DEF Tag, ExerciseCoveredCallInstruction, Instruction
    <2> QED
      BY <1>1, <1>2, <2>1, <2>2, TagsUnpack, ExerciseAccepted DEF Sent
  <1>3. CASE op = "ClosePostExpiration"
    <2>1. InstructionFor(tx[w], w) = ClosePostExpirationCoveredCallInstruction(w)
      BY <1>3 DEF InstructionFor
    <2>2. Tag(w) = 3
      BY <2>1 DEF Tag, ClosePostExpirationCoveredCallInstruction, Instruction
    <2> QED
      BY <1>1, <1>3, <2>1, <2>2, TagsUnpack, ClosePostExpirationAccepted DEF Sent
  <1>4. CASE op = "ClosePosition"
    <2>1. InstructionFor(tx[w], w) = ClosePositionInstruction(w, holder)
      BY <1>4 DEF InstructionFor
    <2>2. Tag(w) = 4
      BY <2>1 DEF Tag, ClosePositionInstruction, Instruction
    <2> QED
      BY <1>1, <1>4, <2>1, <2>2, TagsUnpack, ClosePositionAccepted DEF Sent
  <1>5. CASE op = "ExchangeWriterTokenForQuote"
    <2>1. InstructionFor(tx[w], w) = ExchangeWriterTokenForQuoteInstruction(w)
      BY <1>5 DEF InstructionFor
    <2>2. Tag(w) = 5
      BY <2>1 DEF Tag, ExchangeWriterTokenForQuoteInstruction, Instruction
    <2> QED
      BY <1>1, <1>5, <2>1, <2>2, TagsUnpack, ExchangeAccepted DEF Sent
  <1> QED
    BY <1>1, <1>2, <1>3, <1>4, <1>5 DEF Ops

-----------------------------------------------------------------------------
(* Theorems *)

\* What a builder returns is what the program takes, whoever pays for it and
\* whatever has happened by the time it gets there.
THEOREM BuiltAccepted == Spec => []BuiltCallsAreAccepted
  <1>1. TxType => BuiltCallsAreAccepted
    BY AcceptedWhateverBuilt DEF BuiltCallsAreAccepted, Executes
  <1> QED
    BY <1>1, TxTypeInit, TxTypeStep, PTL DEF Spec
=============================================================================

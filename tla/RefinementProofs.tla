-------------------------- MODULE RefinementProofs --------------------------
(***************************************************************************)
(* The program implements the abstract market of covered options, for any  *)
(* wallets, markets, terms and sizes.                                      *)
(*                                                                         *)
(* The summaries of the instructions (PsyAmericanProofs) are the abstract  *)
(* market's actions but for one thing: creating a market must not bring    *)
(* contracts into being, so its pools have to be empty until then.         *)
(*                                                                         *)
(* The second half is about the client.  A call that it makes only does    *)
(* what the program does, and what the program would do for a wallet the   *)
(* client can ask for: with the accounts that the client lists and the     *)
(* wallet's own token accounts, the instruction goes through.              *)
(***************************************************************************)
EXTENDS PsyAmericanRefinement, ClientCalls, PsyAmericanProofs

-----------------------------------------------------------------------------
(* Accounts of markets that do not exist *)

Unlisted(a) == a \in Accounts /\ OwnerOf(a) \in Markets \ markets

\* Ledgers that a transaction goes through without touching such accounts.
Untouched(L) ==
    \A l \in L : /\ DOMAIN l.balance = Accounts
                 /\ \A a \in Accounts : Unlisted(a) => l.balance[a] = ledger.balance[a]

\* A transfer between other accounts leaves the pools of unlisted markets alone.
LEMMA TransferUntouched ==
    ASSUME NEW L, Untouched(L), NEW authority, NEW from, NEW to, NEW amount,
           ~Unlisted(from), ~Unlisted(to)
    PROVE  Untouched(Transfer(L, authority, from, to, amount))
  <1> SUFFICES ASSUME NEW l2 \in Transfer(L, authority, from, to, amount)
               PROVE  /\ DOMAIN l2.balance = Accounts
                      /\ \A a \in Accounts : Unlisted(a) => l2.balance[a] = ledger.balance[a]
    BY DEF Untouched
  <1>1. PICK l \in L :
            l2 = [ balance |-> [l.balance EXCEPT ![from] = @ - amount, ![to] = @ + amount],
                   supply |-> l.supply ]
    BY DEF Transfer
  <1> DEFINE f == [l.balance EXCEPT ![from] = @ - amount]
  <1>2. l2.balance = [f EXCEPT ![to] = @ + amount]
    BY <1>1
  <1>3. DOMAIN f = Accounts /\ DOMAIN l2.balance = Accounts
    BY <1>2 DEF Untouched
  <1>4. ASSUME NEW a \in Accounts, Unlisted(a) PROVE l2.balance[a] = ledger.balance[a]
    <2>1. a # from /\ a # to /\ DOMAIN l.balance = Accounts /\ l.balance[a] = ledger.balance[a]
      BY <1>4 DEF Untouched
    <2>2. f[a] = l.balance[a]
      BY <2>1
    <2> HIDE DEF f
    <2> QED
      BY <1>2, <1>3, <2>1, <2>2
  <1> QED
    BY <1>3, <1>4

\* Minting to an account that is no such pool does, too.
LEMMA MintToUntouched ==
    ASSUME NEW L, Untouched(L), NEW authority, NEW mint, NEW to, NEW amount, ~Unlisted(to)
    PROVE  Untouched(MintTo(L, authority, mint, to, amount))
  BY DEF MintTo, Untouched

\* Burning tokens of a wallet does.
LEMMA BurnUntouched ==
    ASSUME NEW L, Untouched(L), NEW user \in Users, NEW mint, NEW amount
    PROVE  Untouched(Burn(L, user, mint, amount))
  <1>1. ~Unlisted(<<user, mint>>)
    BY PartiesAssumption DEF Unlisted, OwnerOf
  <1> QED
    BY <1>1 DEF Burn, Untouched

\* The transfers of the handlers leave them alone.
LEMMA TransferTotalUntouched ==
    ASSUME NEW L, Untouched(L), NEW authority, NEW from, NEW to, NEW perContract, NEW size,
           ~Unlisted(from), ~Unlisted(to)
    PROVE  Untouched(TransferTotal(L, authority, from, to, perContract, size))
  <1>1. \A total : Untouched(Transfer(L, authority, from, to, total))
    BY TransferUntouched
  <1> QED
    BY <1>1 DEF TransferTotal, Untouched

\* Accounts that instructions name exist: a user's, a market's own, the fee
\* owner's, and any destination the runtime lets a client pass.
LEMMA NamedAccounts ==
    /\ \A user \in Users : \A mint : ~Unlisted(<<user, mint>>)
    /\ \A asset : ~Unlisted(FeeAccount(asset))
    /\ \A mint : \A a \in AccountsOf(mint) : ~Unlisted(a)
    /\ \A m \in markets : /\ ~Unlisted(UnderlyingAssetPool(m))
                          /\ ~Unlisted(QuoteAssetPool(m))
  BY PartiesAssumption
  DEF Unlisted, OwnerOf, FeeAccount, AccountsOf, UnderlyingAssetPool, QuoteAssetPool

\* A fee leaves them alone.
LEMMA PayFeeUntouched ==
    ASSUME NEW L, Untouched(L), NEW user \in Users, NEW asset, NEW quantity, NEW size
    PROVE  Untouched(PayFee(L, user, asset, quantity, size))
  BY NamedAccounts, TransferTotalUntouched DEF PayFee

\* Issuing leaves them alone.
LEMMA IssueUntouched ==
    ASSUME NEW L, Untouched(L), NEW m \in markets, NEW user \in Users, NEW size,
           NEW a \in MintAccounts(m), NEW optionDest \in AccountsOf(a.option_mint),
           NEW writerDest \in AccountsOf(a.writer_token_mint)
    PROVE  Untouched(IssueContracts(L, m, user, size, a, optionDest, writerDest))
  <1>1. a.underlying_asset_pool = UnderlyingAssetPool(m)
    BY DEF MintAccounts
  <1> QED
    BY <1>1, NamedAccounts, TransferTotalUntouched, MintToUntouched DEF IssueContracts

\* Exercising leaves them alone.
LEMMA ExerciseUntouched ==
    ASSUME TypeOK, NEW m \in markets, NEW user \in Users, NEW holder \in Users, NEW size,
           NEW a \in ExerciseAccounts(m), Untouched({ledger})
    PROVE  Untouched(ExerciseContracts(m, user, holder, size, a))
  <1>1. /\ a.underlying_asset_pool = UnderlyingAssetPool(m)
        /\ a.quote_asset_pool = QuoteAssetPool(m)
        /\ a.underlying_asset_dest \in AccountsOf(Terms[m].underlying_asset_mint)
    BY DEF ExerciseAccounts
  <1> QED
    BY <1>1, NamedAccounts, TransferTotalUntouched, BurnUntouched DEF ExerciseContracts

\* Redeeming leaves them alone.
LEMMA RedeemUntouched ==
    ASSUME NEW m \in markets, NEW user \in Users, NEW mint, NEW size, NEW perContract,
           NEW pool \in {UnderlyingAssetPool(m), QuoteAssetPool(m)},
           NEW dest, ~Unlisted(dest), Untouched({ledger})
    PROVE  Untouched(RedeemWriterTokens({ledger}, m, user, mint, pool, dest, perContract, size))
  BY NamedAccounts, TransferTotalUntouched, BurnUntouched DEF RedeemWriterTokens

\* No step gives tokens to a market that is not there.
LEMMA StepUntouched ==
    ASSUME TypeOK, [Next]_vars
    PROVE  \A a \in Accounts : Unlisted(a) => ledger'.balance[a] = ledger.balance[a]
  <1> SUFFICES ledger' = ledger \/ \E L : ledger' \in L /\ Untouched(L)
    BY DEF Untouched
  <1>1. Untouched({ledger})
    BY DEF TypeOK, Untouched
  <1>2. ASSUME NEW m \in Markets, NEW user \in Users, NEW size \in Sizes,
               Instruction(m, user, size)
        PROVE  \E L : ledger' \in L /\ Untouched(L)
    <2>1. CASE MintOption(m, user, size)
      <3>1. m \in markets
        BY <2>1 DEF MintOption, MayMint
      <3> DEFINE charged == PayFee({ledger}, user, Terms[m].underlying_asset_mint,
                                   Terms[m].underlying_amount_per_contract, size)
      <3>2. Untouched(charged)
        BY <1>1, PayFeeUntouched
      <3>3. PICK a \in MintAccounts(m) :
                \E optionDest \in AccountsOf(a.option_mint),
                   writerDest \in AccountsOf(a.writer_token_mint) :
                   ledger' \in IssueContracts(charged, m, user, size, a, optionDest, writerDest)
        BY <2>1, MintResults DEF MintOption
      <3>4. PICK optionDest \in AccountsOf(a.option_mint),
                 writerDest \in AccountsOf(a.writer_token_mint) :
                ledger' \in IssueContracts(charged, m, user, size, a, optionDest, writerDest)
        BY <3>3
      <3> QED
        BY <3>1, <3>2, <3>4, IssueUntouched
    <2>2. CASE MintOptionV2(m, user, size)
      <3>1. m \in markets
        BY <2>2 DEF MintOptionV2, MayMint
      <3>2. PICK a \in MintAccounts(m) :
                \E optionDest \in AccountsOf(a.option_mint),
                   writerDest \in AccountsOf(a.writer_token_mint) :
                   ledger' \in IssueContracts({ledger}, m, user, size, a, optionDest, writerDest)
        BY <2>2, MintV2Results DEF MintOptionV2
      <3>3. PICK optionDest \in AccountsOf(a.option_mint),
                 writerDest \in AccountsOf(a.writer_token_mint) :
                ledger' \in IssueContracts({ledger}, m, user, size, a, optionDest, writerDest)
        BY <3>2
      <3> QED
        BY <1>1, <3>1, <3>3, IssueUntouched
    <2>3. ASSUME NEW holder \in Users, ExerciseOption(m, user, holder, size)
          PROVE  \E L : ledger' \in L /\ Untouched(L)
      <3>1. m \in markets
        BY <2>3 DEF ExerciseOption
      <3>2. PICK a \in ExerciseAccounts(m) :
                ledger' \in PayFee(ExerciseContracts(m, user, holder, size, a), user,
                                   Terms[m].quote_asset_mint,
                                   Terms[m].quote_amount_per_contract, size)
        BY <2>3, ExerciseResults DEF ExerciseOption
      <3> QED
        BY <1>1, <3>1, <3>2, ExerciseUntouched, PayFeeUntouched
    <2>4. ASSUME NEW holder \in Users, ExerciseOptionV2(m, user, holder, size)
          PROVE  \E L : ledger' \in L /\ Untouched(L)
      <3>1. m \in markets
        BY <2>4 DEF ExerciseOptionV2
      <3>2. PICK a \in ExerciseAccounts(m) :
                ledger' \in ExerciseContracts(m, user, holder, size, a)
        BY <2>4, ExerciseResults DEF ExerciseOptionV2
      <3> QED
        BY <1>1, <3>1, <3>2, ExerciseUntouched
    <2>5. CASE ClosePostExpiration(m, user, size)
      <3>1. m \in markets
        BY <2>5 DEF ClosePostExpiration
      <3>2. PICK dest \in AccountsOf(Terms[m].underlying_asset_mint) :
                ledger' \in RedeemWriterTokens({ledger}, m, user, WriterTokenMint(m),
                                UnderlyingAssetPool(m), dest,
                                Terms[m].underlying_amount_per_contract, size)
        BY <2>5, RedeemResults DEF ClosePostExpiration
      <3> QED
        BY <1>1, <3>1, <3>2, NamedAccounts, RedeemUntouched
    <2>6. CASE CloseOptionPosition(m, user, size)
      <3>1. m \in markets
        BY <2>6 DEF CloseOptionPosition
      <3> DEFINE writersBurnt == Burn({ledger}, user, WriterTokenMint(m), size)
                 bothBurnt == Burn(writersBurnt, user, OptionMint(m), size)
      <3>2. Untouched(bothBurnt)
        BY <1>1, BurnUntouched
      <3>3. PICK dest \in AccountsOf(MintOf(UnderlyingAssetPool(m))) :
                ledger' \in TransferTotal(bothBurnt, m, UnderlyingAssetPool(m), dest,
                                Terms[m].underlying_amount_per_contract, size)
        BY <2>6, CloseResults DEF CloseOptionPosition
      <3> HIDE DEF bothBurnt
      <3> QED
        BY <3>1, <3>2, <3>3, NamedAccounts, TransferTotalUntouched
    <2>7. CASE BurnWriterForQuote(m, user, size)
      <3>1. m \in markets
        BY <2>7 DEF BurnWriterForQuote
      <3>2. PICK dest \in AccountsOf(MintOf(QuoteAssetPool(m))) :
                ledger' \in RedeemWriterTokens({ledger}, m, user, WriterTokenMint(m),
                                QuoteAssetPool(m), dest,
                                Terms[m].quote_amount_per_contract, size)
        BY <2>7, RedeemResults DEF BurnWriterForQuote
      <3> QED
        BY <1>1, <3>1, <3>2, NamedAccounts, RedeemUntouched
    <2> QED
      BY <1>2, <2>1, <2>2, <2>3, <2>4, <2>5, <2>6, <2>7 DEF Instruction
  <1>3. ASSUME NEW user \in Users, NEW to \in Accounts, TokenTransfer(user, to)
        PROVE  \E L : ledger' \in L /\ Untouched(L)
    BY <1>1, <1>3, NamedAccounts, TransferUntouched DEF TokenTransfer
  <1>4. ASSUME NEW user \in Users, NEW mint \in ProgramMints, TokenBurn(user, mint)
        PROVE  \E L : ledger' \in L /\ Untouched(L)
    BY <1>1, <1>4, BurnUntouched DEF TokenBurn
  <1> QED
    BY <1>2, <1>3, <1>4 DEF Next, InitializeMarket, Tick, Upgrade, vars

\* The pools of a market are empty when it is created.
NothingBefore == \A a \in Accounts : Unlisted(a) => ledger.balance[a] = 0

\* No step puts anything into the pools of a market that does not exist.
LEMMA NothingBeforeStep ==
    ASSUME TypeOK, NothingBefore, [Next]_vars
    PROVE  NothingBefore'
  <1>1. markets \subseteq markets'
    <2>1. ASSUME NEW m \in Markets, NEW user \in Users, NEW size \in Sizes,
                 Instruction(m, user, size)
          PROVE  UNCHANGED markets
      BY <2>1 DEF Instruction, MintOption, MintOptionV2, ExerciseOption, ExerciseOptionV2,
                  ClosePostExpiration, CloseOptionPosition, BurnWriterForQuote
    <2> QED
      BY <2>1 DEF Next, InitializeMarket, TokenTransfer, TokenBurn, Tick, Upgrade, vars
  <1>2. \A a \in Accounts : Unlisted(a)' => Unlisted(a)
    BY <1>1 DEF Unlisted
  <1> QED
    BY <1>2, StepUntouched DEF NothingBefore

-----------------------------------------------------------------------------
(* The mapping *)

\* Contracts that the abstract market holds and tokens in circulation.
Locked == [k \in Markets |-> IF k \in markets THEN UnderlyingContracts(k) ELSE 0]
Proceeds == [k \in Markets |-> IF k \in markets THEN QuoteContracts(k) ELSE 0]
OptionCounts == [k \in Markets |-> OptionSupply(k)]
WriterCounts == [k \in Markets |-> WriterSupply(k)]
Past == {k \in markets : ~Alive(k)}

\* A step that moves contracts of one market and names no other moves the same
\* contracts of the abstract market.
Moved(m, u, q, o, w) ==
    /\ CoveredOptions!AtLeast(Locked, Locked', m, u)
    /\ CoveredOptions!AtLeast(Proceeds, Proceeds', m, q)
    /\ OptionCounts' = [OptionCounts EXCEPT ![m] = @ + o]
    /\ WriterCounts' = [WriterCounts EXCEPT ![m] = @ + w]
    /\ UNCHANGED <<markets, Past, ~blocked>>

SuppliesMove(m, o, w) ==
    \A k \in Markets :
        /\ OptionSupply(k)' = OptionSupply(k) + (IF k = m THEN o ELSE 0)
        /\ WriterSupply(k)' = WriterSupply(k) + (IF k = m THEN w ELSE 0)

\* Contract and supply effects are a move of whole contracts.
LEMMA ContractsMoved ==
    ASSUME IInv, NEW m \in Markets,
           NEW u \in Int, NEW q \in Int, NEW o \in Int, NEW w \in Int,
           m \in markets \/ (u <= 0 /\ q <= 0),
           UNCHANGED <<markets, now, blocked>>,
           ContractEffect(m, u, q, o, w), SuppliesMove(m, o, w)
    PROVE  Moved(m, u, q, o, w)
  <1>1. \A k \in markets : k \in Markets /\ UnderlyingContracts(k) \in Nat /\ QuoteContracts(k) \in Nat
    BY CountsAreNaturals, TypeFacts DEF IInv
  <1>2. \A k \in Markets : OptionSupply(k) \in Nat /\ WriterSupply(k) \in Nat
    BY NaturalSupplies DEF IInv
  <1>3. ASSUME NEW k \in Markets
        PROVE  /\ Locked'[k] \in Nat
               /\ Locked'[k] >= Locked[k] + (IF k = m THEN u ELSE 0)
               /\ Proceeds'[k] \in Nat
               /\ Proceeds'[k] >= Proceeds[k] + (IF k = m THEN q ELSE 0)
    <2>1. CASE k \in markets
      BY <1>1, <2>1 DEF Locked, Proceeds, ContractEffect
    <2>2. CASE k \notin markets
      <3>1. Locked[k] = 0 /\ Proceeds[k] = 0 /\ Locked'[k] = 0 /\ Proceeds'[k] = 0
        BY <2>2 DEF Locked, Proceeds
      <3> QED
        BY <2>2, <3>1
    <2> QED
      BY <2>1, <2>2
  <1>4. /\ CoveredOptions!AtLeast(Locked, Locked', m, u)
        /\ CoveredOptions!AtLeast(Proceeds, Proceeds', m, q)
    <2>1. Locked' \in [Markets -> Nat] /\ Proceeds' \in [Markets -> Nat]
      BY <1>3 DEF Locked, Proceeds
    <2> QED
      BY <1>3, <2>1 DEF CoveredOptions!AtLeast, CoveredOptions!Counts
  <1>5. /\ OptionCounts' = [OptionCounts EXCEPT ![m] = @ + o]
        /\ WriterCounts' = [WriterCounts EXCEPT ![m] = @ + w]
    <2>1. ASSUME NEW k \in Markets
          PROVE  /\ OptionCounts'[k] = [OptionCounts EXCEPT ![m] = @ + o][k]
                 /\ WriterCounts'[k] = [WriterCounts EXCEPT ![m] = @ + w][k]
      <3>1. /\ OptionCounts'[k] = OptionCounts[k] + (IF k = m THEN o ELSE 0)
            /\ WriterCounts'[k] = WriterCounts[k] + (IF k = m THEN w ELSE 0)
            /\ OptionCounts[k] \in Nat /\ WriterCounts[k] \in Nat
        BY <1>2 DEF OptionCounts, WriterCounts, SuppliesMove
      <3>2. DOMAIN OptionCounts = Markets /\ DOMAIN WriterCounts = Markets
        BY DEF OptionCounts, WriterCounts
      <3> QED
        BY <3>1, <3>2
    <2> QED
      BY <2>1 DEF OptionCounts, WriterCounts
  <1>6. UNCHANGED <<markets, Past, ~blocked>>
    BY DEF Past, Alive
  <1> QED
    BY <1>4, <1>5, <1>6 DEF Moved

\* Such a move is a change of the abstract market's counts.
LEMMA MovedIsChange ==
    ASSUME NEW m, NEW n, NEW u, NEW q, NEW o, NEW w, Moved(m, u * n, q * n, o * n, w * n)
    PROVE  CoveredOptions!Changes(m, n, u, q, o, w)
  BY DEF Moved, CoveredOptions!Changes, Locked, Proceeds, OptionCounts, WriterCounts, Past

\* Tokens in circulation bound the contracts of a transaction.
LEMMA SupplyBounds ==
    ASSUME IInv, NEW m \in Markets, NEW u, NEW q, NEW o \in Int, NEW w \in Int,
           PoolEffect(ledger, ledger', m, u, q, o, w)
    PROVE  /\ SuppliesMove(m, o, w)
           /\ 0 <= OptionSupply(m) + o /\ OptionSupply(m) + o <= MaxU64
           /\ 0 <= WriterSupply(m) + w /\ WriterSupply(m) + w <= MaxU64
           /\ OptionSupply(m) \in 0..MaxU64 /\ WriterSupply(m) \in 0..MaxU64
  <1>1. SuppliesMove(m, o, w)
    BY DEF PoolEffect, SuppliesMove, OptionSupply, WriterSupply
  <1>2. /\ ledger \in ProgramLedgers /\ ledger' \in ProgramLedgers
        /\ OptionMint(m) \in ProgramMints /\ WriterTokenMint(m) \in ProgramMints
    BY TypeFacts, MarketAccounts DEF IInv, PoolEffect
  <1>3. /\ OptionSupply(m) \in 0..MaxU64 /\ OptionSupply(m)' \in 0..MaxU64
        /\ WriterSupply(m) \in 0..MaxU64 /\ WriterSupply(m)' \in 0..MaxU64
    BY <1>2 DEF ProgramLedgers, Ledgers, U64, OptionSupply, WriterSupply
  <1>4. /\ OptionSupply(m)' = OptionSupply(m) + o
        /\ WriterSupply(m)' = WriterSupply(m) + w
    BY <1>1 DEF SuppliesMove
  <1> QED
    BY <1>1, <1>3, <1>4, MaxU64Assumption

\* A pool effect moves contracts within the supplies.
LEMMA MovedWithin ==
    ASSUME IInv, NEW m \in Markets, NEW x, NEW y,
           NEW u \in Int, NEW q \in Int, NEW o \in Int, NEW w \in Int,
           m \in markets \/ (u <= 0 /\ q <= 0),
           UNCHANGED <<markets, now, blocked>>,
           PoolEffect(ledger, ledger', m, x, y, o, w), ContractEffect(m, u, q, o, w)
    PROVE  /\ Moved(m, u, q, o, w)
           /\ OptionSupply(m) \in Nat /\ WriterSupply(m) \in Nat
           /\ OptionSupply(m) <= MaxU64 /\ WriterSupply(m) <= MaxU64
           /\ 0 <= OptionSupply(m) + o /\ OptionSupply(m) + o <= MaxU64
           /\ 0 <= WriterSupply(m) + w /\ WriterSupply(m) + w <= MaxU64
  BY ContractsMoved, SupplyBounds, MaxU64Assumption

\* A transaction of no contracts is a donation at most.
LEMMA NoContracts ==
    ASSUME NEW m \in Markets, Moved(m, 0, 0, 0, 0)
    PROVE  CoveredOptions!Next
  <1>1. Moved(m, 0 * 0, 0 * 0, 0 * 0, 0 * 0)
    OBVIOUS
  <1>2. CoveredOptions!Changes(m, 0, 0, 0, 0, 0)
    BY <1>1, MovedIsChange
  <1> QED
    BY <1>2 DEF CoveredOptions!Next, CoveredOptions!Forfeit

\* The abstract actions of n contracts.
LEMMA IssuedMaps ==
    ASSUME IInv, NEW m \in Markets, NEW n \in Nat, Issued(m, n)
    PROVE  CoveredOptions!Next
  <1>1. Moved(m, n, 0, n, n) /\ n <= MaxU64
    <2>1. /\ m \in markets /\ UNCHANGED <<markets, now, blocked>>
          /\ PoolEffect(ledger, ledger', m, Terms[m].underlying_amount_per_contract * n, 0, n, n)
      BY DEF Issued, OfMarket
    <2>2. ContractEffect(m, n, 0, n, n)
      BY ContractEffects DEF IInv
    <2>3. n \in Int /\ -n \in Int /\ 0 \in Int
      OBVIOUS
    <2> QED
      BY <2>1, <2>2, <2>3, MovedWithin, MaxU64Assumption
  <1>2. CASE n = 0
    BY <1>1, <1>2, NoContracts
  <1>3. CASE n # 0
    <2>1. Moved(m, 1 * n, 0 * n, 1 * n, 1 * n) /\ n \in 1..MaxU64
      BY <1>1, <1>3
    <2>2. CoveredOptions!Changes(m, n, 1, 0, 1, 1)
      BY <2>1, MovedIsChange
    <2>3. CoveredOptions!Write(m, n)
      BY <2>2 DEF CoveredOptions!Write, Issued, OfMarket
    <2> QED
      BY <2>1, <2>3 DEF CoveredOptions!Next
  <1> QED
    BY <1>2, <1>3

\* An exercise is the abstract one.
LEMMA ExercisedMaps ==
    ASSUME IInv, NEW m \in Markets, NEW n \in Nat, Exercised(m, n)
    PROVE  CoveredOptions!Next
  <1>1. Moved(m, -n, n, -n, 0) /\ n <= MaxU64 /\ n <= OptionSupply(m)
    <2>1. /\ m \in markets /\ UNCHANGED <<markets, now, blocked>>
          /\ PoolEffect(ledger, ledger', m, -(Terms[m].underlying_amount_per_contract * n),
                     Terms[m].quote_amount_per_contract * n, -n, 0)
      BY DEF Exercised, OfMarket
    <2>2. ContractEffect(m, -n, n, -n, 0)
      BY ContractEffects DEF IInv
    <2>3. n \in Int /\ -n \in Int /\ 0 \in Int
      OBVIOUS
    <2> QED
      BY <2>1, <2>2, <2>3, MovedWithin, MaxU64Assumption
  <1>2. CASE n = 0
    BY <1>1, <1>2, NoContracts
  <1>3. CASE n # 0
    <2>1. Moved(m, (-1) * n, 1 * n, (-1) * n, 0 * n) /\ n \in 1..MaxU64
      BY <1>1, <1>3
    <2>2. CoveredOptions!Changes(m, n, -1, 1, -1, 0)
      BY <2>1, MovedIsChange
    <2>3. CoveredOptions!Exercise(m, n)
      BY <1>1, <2>2 DEF CoveredOptions!Exercise, Exercised, OfMarket
    <2> QED
      BY <2>1, <2>3 DEF CoveredOptions!Next
  <1> QED
    BY <1>2, <1>3

\* Closing a position is the abstract closing.
LEMMA ClosedMaps ==
    ASSUME IInv, NEW m \in Markets, NEW n \in Nat, Closed(m, n)
    PROVE  CoveredOptions!Next
  <1>1. Moved(m, -n, 0, -n, -n) /\ n <= MaxU64 /\ n <= OptionSupply(m) /\ n <= WriterSupply(m)
    <2>1. /\ m \in markets /\ UNCHANGED <<markets, now, blocked>>
          /\ PoolEffect(ledger, ledger', m, -(Terms[m].underlying_amount_per_contract * n), 0, -n, -n)
      BY DEF Closed, OfMarket
    <2>2. ContractEffect(m, -n, 0, -n, -n)
      BY ContractEffects DEF IInv
    <2>3. n \in Int /\ -n \in Int /\ 0 \in Int
      OBVIOUS
    <2> QED
      BY <2>1, <2>2, <2>3, MovedWithin, MaxU64Assumption
  <1>2. CASE n = 0
    BY <1>1, <1>2, NoContracts
  <1>3. CASE n # 0
    <2>1. Moved(m, (-1) * n, 0 * n, (-1) * n, (-1) * n) /\ n \in 1..MaxU64
      BY <1>1, <1>3
    <2>2. CoveredOptions!Changes(m, n, -1, 0, -1, -1)
      BY <2>1, MovedIsChange
    <2>3. CoveredOptions!Close(m, n)
      BY <1>1, <2>2 DEF CoveredOptions!Close, Closed, OfMarket
    <2> QED
      BY <2>1, <2>3 DEF CoveredOptions!Next
  <1> QED
    BY <1>2, <1>3

\* A redemption for underlying is the abstract one.
LEMMA RedeemedForUnderlyingMaps ==
    ASSUME IInv, NEW m \in Markets, NEW n \in Nat, RedeemedForUnderlying(m, n)
    PROVE  CoveredOptions!Next
  <1>1. Moved(m, -n, 0, 0, -n) /\ n <= MaxU64 /\ n <= WriterSupply(m)
    <2>1. /\ m \in markets /\ UNCHANGED <<markets, now, blocked>>
          /\ PoolEffect(ledger, ledger', m, -(Terms[m].underlying_amount_per_contract * n), 0, 0, -n)
      BY DEF RedeemedForUnderlying, OfMarket
    <2>2. ContractEffect(m, -n, 0, 0, -n)
      BY ContractEffects DEF IInv
    <2>3. n \in Int /\ -n \in Int /\ 0 \in Int
      OBVIOUS
    <2> QED
      BY <2>1, <2>2, <2>3, MovedWithin, MaxU64Assumption
  <1>2. CASE n = 0
    BY <1>1, <1>2, NoContracts
  <1>3. CASE n # 0
    <2>1. Moved(m, (-1) * n, 0 * n, 0 * n, (-1) * n) /\ n \in 1..MaxU64
      BY <1>1, <1>3
    <2>2. CoveredOptions!Changes(m, n, -1, 0, 0, -1)
      BY <2>1, MovedIsChange
    <2>3. CoveredOptions!RedeemForUnderlying(m, n)
      BY <1>1, <2>2 DEF CoveredOptions!RedeemForUnderlying, RedeemedForUnderlying, OfMarket
    <2> QED
      BY <2>1, <2>3 DEF CoveredOptions!Next
  <1> QED
    BY <1>2, <1>3

\* A redemption for quote is the abstract one.
LEMMA RedeemedForQuoteMaps ==
    ASSUME IInv, NEW m \in Markets, NEW n \in Nat, RedeemedForQuote(m, n)
    PROVE  CoveredOptions!Next
  <1>1. Moved(m, 0, -n, 0, -n) /\ n <= MaxU64 /\ n <= WriterSupply(m)
    <2>1. /\ m \in markets /\ UNCHANGED <<markets, now, blocked>>
          /\ PoolEffect(ledger, ledger', m, 0, -(Terms[m].quote_amount_per_contract * n), 0, -n)
      BY DEF RedeemedForQuote, OfMarket
    <2>2. ContractEffect(m, 0, -n, 0, -n)
      BY ContractEffects DEF IInv
    <2>3. n \in Int /\ -n \in Int /\ 0 \in Int
      OBVIOUS
    <2> QED
      BY <2>1, <2>2, <2>3, MovedWithin, MaxU64Assumption
  <1>2. CASE n = 0
    BY <1>1, <1>2, NoContracts
  <1>3. CASE n # 0
    <2>1. Moved(m, 0 * n, (-1) * n, 0 * n, (-1) * n) /\ n \in 1..MaxU64
      BY <1>1, <1>3
    <2>2. CoveredOptions!Changes(m, n, 0, -1, 0, -1)
      BY <2>1, MovedIsChange
    <2>3. CoveredOptions!RedeemForQuote(m, n)
      BY <1>1, <2>2 DEF CoveredOptions!RedeemForQuote, RedeemedForQuote, OfMarket
    <2> QED
      BY <2>1, <2>3 DEF CoveredOptions!Next
  <1> QED
    BY <1>2, <1>3

\* What wallets do by themselves: a donation, or tokens given up.
LEMMA SentMaps ==
    ASSUME IInv, Sent, UNCHANGED <<markets, now, blocked>>
    PROVE  CoveredOptions!Next \/ UNCHANGED CoveredOptions!vars
  <1>1. ASSUME NEW m \in Markets PROVE CoveredOptions!Next
    <2>1. PoolEffect(ledger, ledger', m, 0, 0, 0, 0)
      BY DEF Sent
    <2>2. ContractEffect(m, 0, 0, 0, 0)
      BY <2>1, ContractEffects DEF IInv
    <2>3. Moved(m, 0, 0, 0, 0)
      BY <2>1, <2>2, MovedWithin
    <2> QED
      BY <2>3, NoContracts
  <1>2. ASSUME Markets = {} PROVE UNCHANGED CoveredOptions!vars
    <2>1. /\ Locked' = Locked /\ Proceeds' = Proceeds
          /\ OptionCounts' = OptionCounts /\ WriterCounts' = WriterCounts
      BY <1>2 DEF Locked, Proceeds, OptionCounts, WriterCounts
    <2>2. Past' = Past
      BY DEF Past, Alive
    <2> QED
      BY <2>1, <2>2
      DEF CoveredOptions!vars, Past, Locked, Proceeds, OptionCounts, WriterCounts
  <1> QED
    BY <1>1, <1>2

\* Burning a token outside the program is the abstract forfeit.
LEMMA ForfeitedMaps ==
    ASSUME IInv, Forfeited, UNCHANGED <<markets, now, blocked>>
    PROVE  CoveredOptions!Next
  <1>1. ASSUME NEW m \in Markets, PoolEffect(ledger, ledger', m, 0, 0, -1, 0)
        PROVE  CoveredOptions!Next
    <2>1. ContractEffect(m, 0, 0, -1, 0)
      BY <1>1, ContractEffects DEF IInv
    <2>2. Moved(m, 0, 0, -1, 0) /\ OptionSupply(m) > 0
      BY <1>1, <2>1, MovedWithin
    <2>3. Moved(m, 0 * 1, 0 * 1, (-1) * 1, 0 * 1)
      BY <2>2
    <2>4. CoveredOptions!Changes(m, 1, 0, 0, -1, 0)
      BY <2>3, MovedIsChange
    <2> QED
      BY <2>2, <2>4 DEF CoveredOptions!Next, CoveredOptions!Forfeit
  <1>2. ASSUME NEW m \in Markets, PoolEffect(ledger, ledger', m, 0, 0, 0, -1)
        PROVE  CoveredOptions!Next
    <2>1. ContractEffect(m, 0, 0, 0, -1)
      BY <1>2, ContractEffects DEF IInv
    <2>2. Moved(m, 0, 0, 0, -1) /\ WriterSupply(m) > 0
      BY <1>2, <2>1, MovedWithin
    <2>3. Moved(m, 0 * 1, 0 * 1, 0 * 1, (-1) * 1)
      BY <2>2
    <2>4. CoveredOptions!Changes(m, 1, 0, 0, 0, -1)
      BY <2>3, MovedIsChange
    <2> QED
      BY <2>2, <2>4 DEF CoveredOptions!Next, CoveredOptions!Forfeit
  <1> QED
    BY <1>1, <1>2 DEF Forfeited

\* A market comes into being with empty pools, alive.
LEMMA InitializeMaps ==
    ASSUME IInv, NothingBefore, NEW m \in Markets, InitializeMarket(m)
    PROVE  CoveredOptions!Next
  <1>1. /\ ~blocked /\ m \notin markets
        /\ markets' = markets \cup {m}
        /\ UNCHANGED <<ledger, now, blocked>>
    BY DEF InitializeMarket, MayInitialize
  <1>2. Alive(m)
    BY MarketAccounts, TypeFacts DEF InitializeMarket, MayInitialize, ValidTerms, Alive, IInv
  <1>3. Past' = Past
    BY <1>1, <1>2 DEF Past, Alive
  <1>4. UnderlyingContracts(m) = 0 /\ QuoteContracts(m) = 0
    <2>1. /\ ledger.balance[UnderlyingAssetPool(m)] = 0
          /\ ledger.balance[QuoteAssetPool(m)] = 0
      BY <1>1, MarketAccounts DEF NothingBefore, Unlisted
    <2>2. /\ Terms[m].underlying_amount_per_contract \in Nat
          /\ Terms[m].underlying_amount_per_contract > 0
          /\ Terms[m].quote_amount_per_contract \in Nat
          /\ Terms[m].quote_amount_per_contract > 0
      BY MarketAccounts, MaxU64Assumption DEF InitializeMarket, MayInitialize, ValidTerms, U64
    <2>3. ASSUME NEW d \in Nat, d > 0 PROVE 0 \div d = 0
      BY <2>3
    <2> QED
      BY <2>1, <2>2, <2>3 DEF UnderlyingContracts, QuoteContracts
  <1>5. \A k \in Markets : /\ UnderlyingContracts(k)' = UnderlyingContracts(k)
                           /\ QuoteContracts(k)' = QuoteContracts(k)
                           /\ OptionSupply(k)' = OptionSupply(k)
                           /\ WriterSupply(k)' = WriterSupply(k)
    BY <1>1 DEF UnderlyingContracts, QuoteContracts, OptionSupply, WriterSupply
  <1>6. /\ Locked' = Locked /\ Proceeds' = Proceeds
        /\ OptionCounts' = OptionCounts /\ WriterCounts' = WriterCounts
    BY <1>1, <1>4, <1>5 DEF Locked, Proceeds, OptionCounts, WriterCounts
  <1>7. CoveredOptions!List(m)
    BY <1>1, <1>3, <1>6
    DEF CoveredOptions!List, Past, Locked, Proceeds, OptionCounts, WriterCounts
  <1> QED
    BY <1>7 DEF CoveredOptions!Next

\* Time moves markets past their expiration and nothing else.
LEMMA TickMaps ==
    ASSUME IInv, Tick
    PROVE  CoveredOptions!Next
  <1>1. now \in Int /\ now' = now + 1 /\ UNCHANGED <<markets, ledger, blocked>>
    BY TypeFacts DEF Tick, IInv
  <1>2. Past \subseteq Past' /\ Past' \subseteq markets
    <2>1. \A k \in markets : Terms[k].expiration_unix_timestamp \in Int
      BY MarketAccounts, TypeFacts DEF IInv
    <2> QED
      BY <1>1, <2>1 DEF Past, Alive
  <1>3. /\ Locked' = Locked /\ Proceeds' = Proceeds
        /\ OptionCounts' = OptionCounts /\ WriterCounts' = WriterCounts
    BY <1>1 DEF Locked, Proceeds, OptionCounts, WriterCounts, UnderlyingContracts,
                QuoteContracts, OptionSupply, WriterSupply
  <1>4. CoveredOptions!Expire
    BY <1>1, <1>2, <1>3
    DEF CoveredOptions!Expire, Past, Locked, Proceeds, OptionCounts, WriterCounts
  <1> QED
    BY <1>4 DEF CoveredOptions!Next

\* The build that panics stops the issuing.
LEMMA UpgradeMaps ==
    ASSUME Upgrade
    PROVE  CoveredOptions!Next
  <1>1. blocked' /\ UNCHANGED <<markets, ledger, now>>
    BY DEF Upgrade
  <1>2. /\ Past' = Past /\ Locked' = Locked /\ Proceeds' = Proceeds
        /\ OptionCounts' = OptionCounts /\ WriterCounts' = WriterCounts
    BY <1>1 DEF Past, Alive, Locked, Proceeds, OptionCounts, WriterCounts,
                UnderlyingContracts, QuoteContracts, OptionSupply, WriterSupply
  <1>3. (~blocked') = FALSE
    BY <1>1
  <1>4. CoveredOptions!StopIssuing
    BY <1>1, <1>2, <1>3
    DEF CoveredOptions!StopIssuing, Past, Locked, Proceeds, OptionCounts, WriterCounts
  <1> QED
    BY <1>4 DEF CoveredOptions!Next

\* A stutter is a stutter.
LEMMA StutterMaps ==
    ASSUME UNCHANGED vars
    PROVE  UNCHANGED CoveredOptions!vars
  BY DEF vars, CoveredOptions!vars, Alive, UnderlyingContracts, QuoteContracts, OptionSupply,
         WriterSupply

\* Every step is a step of the abstract market, or a stutter.
LEMMA StepMaps ==
    ASSUME IInv, NothingBefore, [Next]_vars
    PROVE  [CoveredOptions!Next]_(CoveredOptions!vars)
  BY StepCases, IssuedMaps, ExercisedMaps, ClosedMaps, RedeemedForUnderlyingMaps,
     RedeemedForQuoteMaps, SentMaps, ForfeitedMaps, InitializeMaps, TickMaps, UpgradeMaps,
     StutterMaps DEF IInv

\* The initial states are those of the abstract market.
LEMMA InitMaps ==
    ASSUME Init
    PROVE  CoveredOptions!Init
  <1>1. \A k \in Markets : OptionSupply(k) = 0 /\ WriterSupply(k) = 0
    BY MarketAccounts DEF Init, OptionSupply, WriterSupply
  <1>2. markets = {} /\ (~blocked) = TRUE /\ Past = {}
    BY DEF Init, Past
  <1>3. /\ Locked = CoveredOptions!None /\ Proceeds = CoveredOptions!None
        /\ OptionCounts = CoveredOptions!None /\ WriterCounts = CoveredOptions!None
    BY <1>1, <1>2
    DEF CoveredOptions!None, Locked, Proceeds, OptionCounts, WriterCounts
  <1> QED
    BY <1>2, <1>3
    DEF CoveredOptions!Init, Past, Locked, Proceeds, OptionCounts, WriterCounts

\* The pools of a market that does not exist are empty, whoever sends tokens
\* where: what its contracts are counted from starts at nothing.
THEOREM PoolsStartEmpty == Spec => []NothingBefore
  <1>1. Init => NothingBefore
    BY EndowmentAssumption DEF Init, NothingBefore, Unlisted
  <1>2. TypeOK /\ NothingBefore /\ [Next]_vars => NothingBefore'
    BY NothingBeforeStep
  <1> QED
    BY <1>1, <1>2, TypeCorrect, PTL DEF Spec

\* Every behaviour of the program is a behaviour of the abstract market, with
\* any wallets, markets, terms and sizes: each instruction takes the contracts
\* its tokens stand for from the pool it names, and only when it may.
THEOREM Implements == Spec => ImplementsCoveredOptions
  <1>1. IInv /\ NothingBefore /\ [Next]_vars => [CoveredOptions!Next]_(CoveredOptions!vars)
    BY StepMaps
  <1>2. Init => CoveredOptions!Init
    BY InitMaps
  <1> QED
    BY <1>1, <1>2, Invariance, PoolsStartEmpty, PTL
    DEF Spec, ImplementsCoveredOptions, CoveredOptions!Spec

-----------------------------------------------------------------------------
(* The client implements the program *)

\* Each call's transaction is the instruction, with the same market, wallet and
\* size.
LEMMA CallIsInstruction ==
    ASSUME NEW payer \in Users, NEW m \in Markets, NEW user \in Users, NEW size \in Sizes,
           ClientCall(payer, m, user, size)
    PROVE  Instruction(m, user, size)
  <1>1. CASE MintOptionsTx(payer, m, user, size)
    BY <1>1 DEF MintOptionsTx, Instruction
  <1>2. CASE MintOptionV2Tx(payer, m, user, size)
    BY <1>2 DEF MintOptionV2Tx, Instruction
  <1>3. CASE \E holder \in Users : ExerciseOptionTx(payer, m, user, holder, size)
    BY <1>3 DEF ExerciseOptionTx, Instruction
  <1>4. CASE ExerciseOptionV2Tx(user, m, size)
    BY <1>4 DEF ExerciseOptionV2Tx, Instruction
  <1>5. CASE ClosePostExpirationTx(payer, m, user, size)
    BY <1>5 DEF ClosePostExpirationTx, Instruction
  <1>6. CASE CloseOptionPositionTx(payer, m, user, size)
    BY <1>6 DEF CloseOptionPositionTx, Instruction
  <1>7. CASE BurnWriterForQuoteTx(payer, m, user, size)
    BY <1>7 DEF BurnWriterForQuoteTx, Instruction
  <1> QED
    BY <1>1, <1>2, <1>3, <1>4, <1>5, <1>6, <1>7 DEF ClientCall

\* A step of the client's system is a step of the program's.
LEMMA ClientStep == ClientNext => Next
  <1> SUFFICES ASSUME ClientNext PROVE Next
    OBVIOUS
  <1>1. ASSUME NEW payer \in Users, NEW user \in Users, NEW m \in Markets,
               InitOptionMarket(payer, user, m)
        PROVE  Next
    BY <1>1 DEF InitOptionMarket, Next
  <1>2. ASSUME NEW payer \in Users, NEW user \in Users, NEW m \in Markets, NEW size \in Sizes,
               ClientCall(payer, m, user, size)
        PROVE  Next
    BY <1>2, CallIsInstruction DEF Next
  <1> QED
    BY <1>1, <1>2 DEF ClientNext, Next

\* The client implements the program: whatever it sends, for any wallets, terms
\* and sizes, and whatever the flags of its IDL.
THEOREM ClientImplements == ClientSpec => Spec
  <1>1. [ClientNext]_vars => [Next]_vars
    BY ClientStep
  <1> QED
    BY <1>1, PTL DEF ClientSpec, Spec

\* So contracts written through the client are covered until expiration.
THEOREM ClientOptionsCovered == ClientSpec => []OptionsCovered
  BY ClientImplements, Covered, PTL

\* And every writer token issued through it has a contract behind it.
THEOREM ClientWritersCovered == ClientSpec => []WritersCovered
  BY ClientImplements, WritersBacked, PTL

\* And nothing its calls take from a pool is more than what they burn for it.
THEOREM ClientPayoutsBurn == ClientSpec => PayoutsMatchBurns
  BY ClientImplements, PayoutsBurn, PTL

\* And no writer is locked in: wherever clients have brought a market, the program
\* redeems the writer tokens of every user once it has expired.
THEOREM ClientWritersExit == ClientSpec => []WriterCanExit
  BY ClientImplements, WritersExit, PTL

-----------------------------------------------------------------------------
(* What the client can do *)

\* From ledger l to l2, both of which count their supplies, only what is in mut
\* changes.
Keeps(mut, l, l2) ==
    /\ l \in CountedLedger /\ l2 \in CountedLedger
    /\ \A a \in Accounts : l2.balance[a] = l.balance[a] \/ a \in mut
    /\ \A t \in ProgramMints : l2.supply[t] = l.supply[t] \/ t \in mut

\* The ledgers L2 are what keeping to mut makes of the ledgers L.
AllKeep(mut, L, L2) == \A l2 \in L2 : \E l \in L : Keeps(mut, l, l2)

\* One such change after another is one.
LEMMA KeepsTwice ==
    ASSUME NEW mut, NEW L, NEW L2, NEW L3, AllKeep(mut, L, L2), AllKeep(mut, L2, L3)
    PROVE  AllKeep(mut, L, L3)
  <1> SUFFICES ASSUME NEW l3 \in L3 PROVE \E l \in L : Keeps(mut, l, l3)
    BY DEF AllKeep
  <1>1. PICK l2 \in L2 : Keeps(mut, l2, l3)
    BY DEF AllKeep
  <1>2. PICK l \in L : Keeps(mut, l, l2)
    BY DEF AllKeep
  <1>3. Keeps(mut, l, l3)
    BY <1>1, <1>2 DEF Keeps
  <1> QED
    BY <1>3

\* A transfer changes the two accounts it is between.
LEMMA TotalKeeps ==
    ASSUME NEW L, L \subseteq CountedLedger, NEW authority, NEW from, NEW to,
           NEW perContract, NEW size, NEW mut, from \in mut, to \in mut
    PROVE  AllKeep(mut, L, TransferTotal(L, authority, from, to, perContract, size))
  <1> SUFFICES ASSUME NEW l2 \in TransferTotal(L, authority, from, to, perContract, size)
               PROVE  \E l \in L : Keeps(mut, l, l2)
    BY DEF AllKeep
  <1>1. PICK total : l2 \in Transfer(L, authority, from, to, total)
    BY DEF TransferTotal
  <1>2. PICK l \in L :
           l2 = [ balance |-> [l.balance EXCEPT ![from] = @ - total, ![to] = @ + total],
                  supply |-> l.supply ]
    BY <1>1 DEF Transfer
  <1>3. l \in CountedLedger /\ l2 \in CountedLedger
    BY TotalCounted
  <1>4. l.balance \in [Accounts -> U64]
    BY <1>3 DEF CountedLedger, CountedLedgers, Ledgers
  <1>5. \A a \in Accounts : a # from /\ a # to => l2.balance[a] = l.balance[a]
    BY <1>2, <1>4
  <1>6. l2.supply = l.supply
    BY <1>2
  <1> QED
    BY <1>3, <1>5, <1>6 DEF Keeps

\* So does a fee, from the payer's account to the fee owner's.
LEMMA FeeKeeps ==
    ASSUME NEW L, L \subseteq CountedLedger, NEW user, NEW asset, NEW quantity, NEW size, NEW mut,
           FeeInTokens(quantity) => <<user, asset>> \in mut /\ FeeAccount(asset) \in mut,
           ~FeeInTokens(quantity) => <<user, Sol>> \in mut /\ FeeAccount(Sol) \in mut
    PROVE  AllKeep(mut, L, PayFee(L, user, asset, quantity, size))
  BY TotalKeeps DEF PayFee

\* Minting and burning change an account and the mint.
LEMMA MintingKeeps ==
    ASSUME NEW L, L \subseteq CountedLedger, NEW authority, NEW mint, NEW to, NEW size \in Nat,
           NEW mut, mint \in mut, to \in mut
    PROVE  AllKeep(mut, L, MintTo(L, authority, mint, to, size))
  <1> SUFFICES ASSUME NEW l2 \in MintTo(L, authority, mint, to, size)
               PROVE  \E l \in L : Keeps(mut, l, l2)
    BY DEF AllKeep
  <1>1. PICK l \in L :
           l2 = [ balance |-> [l.balance EXCEPT ![to] = @ + size],
                  supply |-> [l.supply EXCEPT ![mint] = @ + size] ]
    BY DEF MintTo
  <1>2. l \in CountedLedger /\ l2 \in CountedLedger
    BY MintedCounted
  <1>3. l.balance \in [Accounts -> U64] /\ l.supply \in [ProgramMints -> U64]
    BY <1>2 DEF CountedLedger, CountedLedgers, Ledgers
  <1>4. /\ \A a \in Accounts : a # to => l2.balance[a] = l.balance[a]
        /\ \A t \in ProgramMints : t # mint => l2.supply[t] = l.supply[t]
    BY <1>1, <1>3
  <1> QED
    BY <1>2, <1>4 DEF Keeps

\* Burning changes the mint and the holder's account of it, nothing else.
LEMMA BurningKeeps ==
    ASSUME NEW L, L \subseteq CountedLedger, NEW authority, NEW mint, NEW size \in Nat,
           NEW mut, mint \in mut, <<authority, mint>> \in mut
    PROVE  AllKeep(mut, L, Burn(L, authority, mint, size))
  <1> DEFINE from == <<authority, mint>>
  <1> SUFFICES ASSUME NEW l2 \in Burn(L, authority, mint, size)
               PROVE  \E l \in L : Keeps(mut, l, l2)
    BY DEF AllKeep
  <1>1. PICK l \in L :
           l2 = [ balance |-> [l.balance EXCEPT ![from] = @ - size],
                  supply |-> [l.supply EXCEPT ![mint] = @ - size] ]
    BY DEF Burn
  <1>2. l \in CountedLedger /\ l2 \in CountedLedger
    BY BurntCounted
  <1>3. l.balance \in [Accounts -> U64] /\ l.supply \in [ProgramMints -> U64]
    BY <1>2 DEF CountedLedger, CountedLedgers, Ledgers
  <1> HIDE DEF from
  <1>4. /\ \A a \in Accounts : a # from => l2.balance[a] = l.balance[a]
        /\ \A t \in ProgramMints : t # mint => l2.supply[t] = l.supply[t]
    BY <1>1, <1>3
  <1>5. from \in mut
    BY DEF from
  <1> QED
    BY <1>2, <1>4, <1>5 DEF Keeps

\* A transaction that keeps to what its message marks writable goes through.
LEMMA KeptIsAllowed ==
    ASSUME NEW mut, NEW l, Keeps(mut, ledger, l)
    PROVE  ChangesOnly(mut, l)
  BY DEF Keeps, ChangesOnly

\* A user's accounts, of assets and of a market's tokens.
LEMMA OwnAccounts ==
    ASSUME NEW m \in Markets, NEW user \in Users
    PROVE  /\ Terms[m].underlying_asset_mint \in Assets /\ Terms[m].quote_asset_mint \in Assets
           /\ \A asset \in Assets \cup {Sol} :
                 TokenAccount(user, asset) \in Accounts /\ FeeAccount(asset) \in Accounts
           /\ \A asset \in Assets : TokenAccount(user, asset) \in AccountsOf(asset)
           /\ TokenAccount(user, OptionMint(m)) \in AccountsOf(OptionMint(m))
           /\ TokenAccount(user, WriterTokenMint(m)) \in AccountsOf(WriterTokenMint(m))
           /\ \A mint : /\ OwnerOf(TokenAccount(user, mint)) = user
                        /\ MintOf(TokenAccount(user, mint)) = mint
                        /\ MintOf(FeeAccount(mint)) = mint
  <1>1. Terms[m] \in MarketTerms
    BY TermsAssumption
  <1>2. Terms[m].underlying_asset_mint \in Assets /\ Terms[m].quote_asset_mint \in Assets
    BY <1>1 DEF MarketTerms
  <1>3. user \notin Markets
    BY PartiesAssumption
  <1>4. OptionMint(m) \in ProgramMints /\ WriterTokenMint(m) \in ProgramMints
    BY MarketAccounts
  <1>5. \A mint \in Assets \cup {Sol} \cup ProgramMints : TokenAccount(user, mint) \in AccountsOf(mint)
    BY <1>3 DEF TokenAccount, AccountsOf, Accounts, MintOf, OwnerOf
  <1>6. \A asset \in Assets \cup {Sol} :
           TokenAccount(user, asset) \in Accounts /\ FeeAccount(asset) \in Accounts
    BY DEF TokenAccount, FeeAccount, Accounts
  <1>7. \A mint : /\ OwnerOf(TokenAccount(user, mint)) = user
                  /\ MintOf(TokenAccount(user, mint)) = mint
                  /\ MintOf(FeeAccount(mint)) = mint
    BY DEF TokenAccount, FeeAccount, MintOf, OwnerOf
  <1> QED
    BY <1>2, <1>4, <1>5, <1>6, <1>7

\* Ledgers that differ in who has an asset.
SameBut(asset, l, k) ==
    /\ l \in CountedLedger /\ k \in CountedLedger
    /\ \A a \in Accounts : MintOf(a) # asset => k.balance[a] = l.balance[a]

AllSameBut(asset, L, K) == \A l \in L : \E k \in K : SameBut(asset, l, k)

\* An asset that can be paid to somebody can be paid to anybody.
LEMMA PaidElsewhere ==
    ASSUME NEW L, L \subseteq CountedLedger, NEW authority, NEW asset \in Assets,
           NEW from \in Accounts, MintOf(from) = asset, NEW to,
           NEW to2 \in Accounts, MintOf(to2) = asset, NEW perContract, NEW size
    PROVE  AllSameBut(asset, TransferTotal(L, authority, from, to, perContract, size),
                             TransferTotal(L, authority, from, to2, perContract, size))
  <1> SUFFICES ASSUME NEW l2 \in TransferTotal(L, authority, from, to, perContract, size)
               PROVE  \E k \in TransferTotal(L, authority, from, to2, perContract, size) :
                         SameBut(asset, l2, k)
    BY DEF AllSameBut
  <1>1. PICK total \in CheckedMul(perContract, size) : l2 \in Transfer(L, authority, from, to, total)
    BY DEF TransferTotal
  <1>2. PICK l \in L :
           /\ {from, to} \subseteq DOMAIN l.balance
           /\ OwnerOf(from) = authority
           /\ MintOf(from) = MintOf(to)
           /\ total <= l.balance[from]
           /\ l2 = [ balance |-> [l.balance EXCEPT ![from] = @ - total, ![to] = @ + total],
                     supply |-> l.supply ]
    BY <1>1 DEF Transfer
  <1>3. l.balance \in [Accounts -> U64] /\ l \in CountedLedger
    BY DEF CountedLedger, CountedLedgers, Ledgers
  <1>4. total \in Nat
    BY CheckedMulValue
  <1>5. from # to2 => l.balance[to2] + total \in U64
    BY <1>2, <1>3, <1>4, RoomForPayment
  <1> DEFINE k == [ balance |-> [l.balance EXCEPT ![from] = @ - total, ![to2] = @ + total],
                    supply |-> l.supply ]
  <1>6. k \in Transfer(L, authority, from, to2, total)
    BY <1>2, <1>3, <1>5 DEF Transfer
  <1>7. k \in TransferTotal(L, authority, from, to2, perContract, size)
    BY <1>6 DEF TransferTotal
  <1>8. l2 \in CountedLedger /\ k \in CountedLedger
    BY <1>7, TotalCounted
  <1>9. \A a \in Accounts : a # from /\ a # to /\ a # to2 => k.balance[a] = l2.balance[a]
    BY <1>2, <1>3
  <1> HIDE DEF k
  <1>10. SameBut(asset, l2, k)
    BY <1>2, <1>8, <1>9 DEF SameBut
  <1> QED
    BY <1>7, <1>10

\* Who has one asset makes no difference to paying another.
LEMMA StillPaid ==
    ASSUME NEW asset, NEW L, NEW K, AllSameBut(asset, L, K),
           NEW authority, NEW from, MintOf(from) # asset, NEW to, NEW perContract, NEW size,
           TransferTotal(L, authority, from, to, perContract, size) # {}
    PROVE  TransferTotal(K, authority, from, to, perContract, size) # {}
  <1>1. PICK total \in CheckedMul(perContract, size) : Transfer(L, authority, from, to, total) # {}
    BY DEF TransferTotal
  <1>2. PICK l \in L :
           /\ {from, to} \subseteq DOMAIN l.balance
           /\ OwnerOf(from) = authority
           /\ MintOf(from) = MintOf(to)
           /\ total <= l.balance[from]
           /\ from # to => l.balance[to] + total \in U64
    BY <1>1 DEF Transfer
  <1>3. PICK k \in K : SameBut(asset, l, k)
    BY DEF AllSameBut
  <1>4. DOMAIN l.balance = Accounts /\ DOMAIN k.balance = Accounts
    BY <1>3 DEF SameBut, CountedLedger, CountedLedgers, Ledgers
  <1>5. k.balance[from] = l.balance[from] /\ k.balance[to] = l.balance[to]
    BY <1>2, <1>3, <1>4 DEF SameBut
  <1>6. Transfer(K, authority, from, to, total) # {}
    BY <1>2, <1>4, <1>5, TransferPays
  <1> QED
    BY <1>1, <1>6 DEF TransferTotal

\* A fee in another asset can still be paid, its payer's accounts of it being the same.
LEMMA FeeStillPaid ==
    ASSUME NEW asset \in Assets, NEW L, NEW K, AllSameBut(asset, L, K),
           NEW user, NEW feeAsset, feeAsset # asset, NEW quantity, NEW size,
           PayFee(L, user, feeAsset, quantity, size) # {}
    PROVE  PayFee(K, user, feeAsset, quantity, size) # {}
  <1>1. MintOf(<<user, feeAsset>>) # asset /\ MintOf(<<user, Sol>>) # asset
    BY PartiesAssumption DEF MintOf
  <1> QED
    BY <1>1, StillPaid DEF PayFee

\* Ledgers K have the supplies of ledgers L.
AllSupplied(L, K) == \A l \in L : \E k \in K : k.supply = l.supply

\* Tokens that can be issued to somebody can be issued to anybody.
LEMMA IssuedElsewhere ==
    ASSUME NEW L, L \subseteq CountedLedger, NEW K, K \subseteq CountedLedger, AllSupplied(L, K),
           NEW authority, NEW mint \in ProgramMints, NEW to,
           NEW to2 \in Accounts, MintOf(to2) = mint, NEW size \in Nat
    PROVE  AllSupplied(MintTo(L, authority, mint, to, size), MintTo(K, authority, mint, to2, size))
  <1> SUFFICES ASSUME NEW l2 \in MintTo(L, authority, mint, to, size)
               PROVE  \E k2 \in MintTo(K, authority, mint, to2, size) : k2.supply = l2.supply
    BY DEF AllSupplied
  <1>0. PICK l \in L :
           /\ MintAuthority(mint) = authority
           /\ l.supply[mint] + size \in U64
           /\ l2 = [ balance |-> [l.balance EXCEPT ![to] = @ + size],
                      supply |-> [l.supply EXCEPT ![mint] = @ + size] ]
    BY DEF MintTo
  <1>1. /\ MintAuthority(mint) = authority
        /\ l.supply[mint] + size \in U64
        /\ l2.supply = [l.supply EXCEPT ![mint] = @ + size]
    BY <1>0
  <1>2. PICK k \in K : k.supply = l.supply
    BY DEF AllSupplied
  <1>3. k \in CountedLedger /\ k.balance \in [Accounts -> U64] /\ k.supply \in [ProgramMints -> U64]
    BY DEF CountedLedger, CountedLedgers, Ledgers
  <1>4. k.balance[to2] <= k.supply[mint] /\ k.balance[to2] \in U64 /\ k.supply[mint] \in U64
    BY <1>3, HeldIsSupplied
  <1>5. k.supply[mint] + size \in U64
    BY <1>1, <1>2
  <1>6. k.balance[to2] + size \in U64
    BY <1>4, <1>5, MaxU64Assumption DEF U64
  <1> DEFINE k2 == [ balance |-> [k.balance EXCEPT ![to2] = @ + size],
                     supply |-> [k.supply EXCEPT ![mint] = @ + size] ]
  <1>7. k2 \in MintTo(K, authority, mint, to2, size)
    BY <1>1, <1>3, <1>5, <1>6 DEF MintTo
  <1>8. k2.supply = l2.supply
    BY <1>1, <1>2
  <1> QED
    BY <1>7, <1>8

\* A message has what a handler needs.
Covers(message, needs) ==
    /\ needs.signer \subseteq message.signer
    /\ needs.mut \subseteq message.mut
    /\ needs.key \subseteq message.key

\* None of a call's remaining accounts signs.
NobodySigns(remaining) == \A i \in DOMAIN remaining : remaining[i].isSigner = FALSE

\* The accounts that an instruction lists are in its message.
HasAccounts(message, payer, list) ==
    /\ message.signer = {payer} \cup list.signer
    /\ {payer} \cup list.mut \subseteq message.mut
    /\ list.readonly \cup list.mut \subseteq message.key

\* So they are in the message of a client's call, and the writable remaining accounts.
LEMMA MessageHas ==
    ASSUME NEW payer, NEW list, NEW remaining, NobodySigns(remaining)
    PROVE  /\ HasAccounts(Message(payer, list, remaining), payer, list)
           /\ \A i \in DOMAIN remaining :
                 remaining[i].isWritable => remaining[i].key \in Message(payer, list, remaining).mut
  BY DEF Message, NobodySigns, HasAccounts

\* A call without remaining accounts.
LEMMA NobodyElse == NobodySigns(<<>>)
  BY DEF NobodySigns

\* A message that has what each call needs has what all of them do.
LEMMA CoversAll ==
    ASSUME NEW message, NEW calls, \A n \in calls : Covers(message, n)
    PROVE  Covers(message, Together(calls))
  BY DEF Covers, Together

\* A message that has what a handler needs, and whose signers sign, is executed.
LEMMA CoveredIsAccepted ==
    ASSUME NEW message, NEW needs, NEW signatures,
           message.signer \subseteq signatures, Covers(message, needs)
    PROVE  Accepted(message, signatures, needs)
  BY DEF Covers, Accepted

\* What it has to have for each kind of call.
LEMMA CallCovered ==
    ASSUME NEW message, TokenProgram \in message.key
    PROVE  /\ \A authority, from, to :
                 authority \in message.signer /\ from \in message.mut /\ to \in message.mut
                 => Covers(message, TransferNeeds(authority, from, to))
           /\ \A pool, to :
                 pool \in message.mut /\ to \in message.mut => Covers(message, PayoutNeeds(pool, to))
           /\ \A mint, to :
                 mint \in message.mut /\ to \in message.mut => Covers(message, MintToNeeds(mint, to))
           /\ \A authority, mint, from :
                 authority \in message.signer /\ mint \in message.mut /\ from \in message.mut
                 => Covers(message, BurnNeeds(authority, mint, from))
  BY DEF Covers, TransferNeeds, PayoutNeeds, MintToNeeds, BurnNeeds, Needs

\* And for a fee, by the branch it takes.
LEMMA FeeCovered ==
    ASSUME NEW message, NEW user, NEW asset, NEW quantity,
           Wallet(user) \in message.signer, {TokenProgram, SystemProgram} \subseteq message.key,
           FeeInTokens(quantity) =>
              TokenAccount(user, asset) \in message.mut /\ FeeAccount(asset) \in message.mut,
           ~FeeInTokens(quantity) =>
              Wallet(user) \in message.mut /\ FeeAccount(Sol) \in message.mut
    PROVE  Covers(message, FeeNeeds(user, asset, quantity))
  <1>1. CASE FeeInTokens(quantity)
    <2>1. FeeNeeds(user, asset, quantity)
             = TransferNeeds(Wallet(user), TokenAccount(user, asset), FeeAccount(asset))
      BY <1>1 DEF FeeNeeds
    <2> QED
      BY <1>1, <2>1, CallCovered
  <1>2. CASE ~FeeInTokens(quantity)
    <2>1. FeeNeeds(user, asset, quantity) = LamportNeeds(Wallet(user), FeeAccount(Sol))
      BY <1>2 DEF FeeNeeds
    <2> QED
      BY <1>2, <2>1 DEF Covers, LamportNeeds, Needs
  <1> QED
    BY <1>1, <1>2

\* Client and program agree on which quantities pay a fee in tokens.
LEMMA FeesAgree ==
    ASSUME NEW q \in Nat
    PROVE  PassesFeeAccount(q) <=> FeeInTokens(q)
  <1> DEFINE d == ClientDivisor
             rate == FeeRate
  <1>1. /\ One \in Nat /\ One > 0
        /\ FeeBps \in Nat /\ FeeBps > 0
        /\ BpsDenominator \in Nat /\ BpsDenominator > 0
        /\ FeeBps * d = BpsDenominator /\ d * d <= One
    BY FeesAssumption
  <1>2. d = BpsDenominator \div FeeBps /\ rate = (FeeBps * One) \div BpsDenominator + 1
    BY DEF ClientDivisor, FeeRate, FeeBpsFixed
  <1> HIDE DEF d, rate
  <1>3. q \div d > 0 <=> (rate * q) \div One > 0
    BY <1>1, <1>2, SameQuantitiesPay
  <1> QED
    BY <1>3 DEF d, rate, PassesFeeAccount, FeeAmountPerContract, FeeInTokens, FeeAmount, FeeProduct

\* For a market's amounts, the client and the program agree on which fee is in tokens.
LEMMA TermsAgree ==
    ASSUME NEW m \in Markets
    PROVE  /\ PassesFeeAccount(Terms[m].underlying_amount_per_contract)
                 <=> FeeInTokens(Terms[m].underlying_amount_per_contract)
           /\ PassesFeeAccount(Terms[m].quote_amount_per_contract)
                 <=> FeeInTokens(Terms[m].quote_amount_per_contract)
  <1>1. /\ Terms[m].underlying_amount_per_contract \in Nat
        /\ Terms[m].quote_amount_per_contract \in Nat
    BY MarketAccounts, MaxU64Assumption DEF U64
  <1> QED
    BY <1>1, FeesAgree

-----------------------------------------------------------------------------
(* Creating a market *)

\* Creating a market: the fee accounts are the ones the program looks for, in its order.
LEMMA InitGoesThrough ==
    ASSUME NEW payer \in Users, NEW user \in Users, NEW m \in Markets
    PROVE  InitOptionMarketGoesThrough(payer, user, m)
  <1> DEFINE list == InitializeMarketIdl(Wallet(user), m)
             remaining == SetupRemaining(m)
             message == Message(Wallet(payer), list, remaining)
  <1>1. ValidateFeeAccounts(m, remaining)
    <2> DEFINE U == FeeInTokens(Terms[m].underlying_amount_per_contract)
               Q == FeeInTokens(Terms[m].quote_amount_per_contract)
    <2>1. remaining = (IF U THEN << Meta(FeeAccount(Terms[m].underlying_asset_mint), FALSE, TRUE) >>
                       ELSE <<>>)
                      \o (IF Q THEN << Meta(FeeAccount(Terms[m].quote_asset_mint), FALSE, FALSE) >>
                          ELSE <<>>)
      BY TermsAgree DEF SetupRemaining
    <2>2. CASE U /\ Q
      BY <2>1, <2>2 DEF ValidateFeeAccounts, Meta
    <2>3. CASE U /\ ~Q
      BY <2>1, <2>3 DEF ValidateFeeAccounts, Meta
    <2>4. CASE ~U /\ Q
      BY <2>1, <2>4 DEF ValidateFeeAccounts, Meta
    <2>5. CASE ~U /\ ~Q
      BY <2>1, <2>5 DEF ValidateFeeAccounts, Meta
    <2> QED
      BY <2>2, <2>3, <2>4, <2>5
  <1>2. NobodySigns(remaining)
    BY DEF NobodySigns, SetupRemaining, Meta
  <1>3. /\ list.signer = {Wallet(user)}
        /\ list.mut = {Wallet(user), OptionMint(m), WriterTokenMint(m),
                       QuoteAssetPool(m), UnderlyingAssetPool(m), m}
        /\ {TokenProgram, SystemProgram} \subseteq list.readonly
    BY DEF InitializeMarketIdl
  <1> HIDE DEF remaining, list
  <1>4. /\ message.signer = {Wallet(payer), Wallet(user)}
        /\ list.mut \subseteq message.mut
        /\ {TokenProgram, SystemProgram} \subseteq message.key
    BY <1>2, <1>3, MessageHas DEF HasAccounts
  <1> HIDE DEF message
  <1>5. Accepted(message, {Wallet(payer), Wallet(user)}, InitializeMarketNeeds(Wallet(user), m))
    BY <1>3, <1>4 DEF Accepted, InitializeMarketNeeds, Needs
  <1> QED
    BY <1>1, <1>5 DEF InitOptionMarketGoesThrough, message, list, remaining

-----------------------------------------------------------------------------
(* Minting *)

\* Contracts that can be issued can be issued to their writer, and change
\* nothing but his accounts, the pool and the mints.
LEMMA IssuedToWriter ==
    ASSUME NEW L, L \subseteq CountedLedger, NEW m \in Markets, NEW user \in Users,
           NEW size \in Nat, NEW a \in MintAccounts(m), NEW optionDest, NEW writerDest,
           IssueContracts(L, m, user, size, a, optionDest, writerDest) # {},
           NEW mut,
           { TokenAccount(user, Terms[m].underlying_asset_mint), UnderlyingAssetPool(m),
             OptionMint(m), TokenAccount(user, OptionMint(m)),
             WriterTokenMint(m), TokenAccount(user, WriterTokenMint(m)) } \subseteq mut
    PROVE  LET issued == IssueContracts(L, m, user, size, a, TokenAccount(user, OptionMint(m)),
                                        TokenAccount(user, WriterTokenMint(m)))
           IN  issued # {} /\ AllKeep(mut, L, issued)
  <1> DEFINE U == Terms[m].underlying_amount_per_contract
             asset == Terms[m].underlying_asset_mint
             options == TokenAccount(user, OptionMint(m))
             writers == TokenAccount(user, WriterTokenMint(m))
             locked == TransferTotal(L, user, TokenAccount(user, asset), UnderlyingAssetPool(m), U, size)
             minted(dest) == MintTo(locked, m, OptionMint(m), dest, size)
             issued(dest, dest2) == MintTo(minted(dest), m, WriterTokenMint(m), dest2, size)
  <1>1. \A dest, dest2 : IssueContracts(L, m, user, size, a, dest, dest2) = issued(dest, dest2)
    <2>1. /\ a.underlying_asset_pool = UnderlyingAssetPool(m)
          /\ a.option_mint = OptionMint(m) /\ a.writer_token_mint = WriterTokenMint(m)
      BY DEF MintAccounts
    <2>2. MintOf(UnderlyingAssetPool(m)) = asset
      BY MarketAccounts
    <2> QED
      BY <2>1, <2>2 DEF IssueContracts, TokenAccount
  <1>2. OptionMint(m) \in ProgramMints /\ WriterTokenMint(m) \in ProgramMints
    BY MarketAccounts
  <1>3. /\ options \in Accounts /\ MintOf(options) = OptionMint(m)
        /\ writers \in Accounts /\ MintOf(writers) = WriterTokenMint(m)
    BY OwnAccounts DEF AccountsOf
  <1>4. locked \subseteq CountedLedger
    BY TotalCounted
  <1> HIDE DEF locked, options, writers
  <1>5. \A dest : minted(dest) \subseteq CountedLedger
    BY <1>4, MintedCounted
  <1>6. AllSupplied(locked, locked)
    BY DEF AllSupplied
  <1>7. AllSupplied(minted(optionDest), minted(options))
    BY <1>2, <1>3, <1>4, <1>6, IssuedElsewhere
  <1> HIDE DEF minted
  <1>8. AllSupplied(issued(optionDest, writerDest), issued(options, writers))
    BY <1>2, <1>3, <1>5, <1>7, IssuedElsewhere
  <1>9. issued(options, writers) # {}
    BY <1>1, <1>8 DEF AllSupplied
  <1>10. AllKeep(mut, L, locked)
    BY TotalKeeps DEF locked
  <1>11. AllKeep(mut, locked, minted(options))
    BY <1>4, MintingKeeps DEF minted, options
  <1>12. AllKeep(mut, minted(options), issued(options, writers))
    BY <1>5, MintingKeeps DEF writers
  <1>13. AllKeep(mut, L, issued(options, writers))
    BY <1>10, <1>11, <1>12, KeepsTwice
  <1> QED
    BY <1>1, <1>9, <1>13 DEF options, writers

\* A message with a writer's accounts has what issuing needs.
LEMMA IssueCovered ==
    ASSUME NEW message, NEW m, NEW user,
           Wallet(user) \in message.signer, TokenProgram \in message.key,
           { TokenAccount(user, Terms[m].underlying_asset_mint), UnderlyingAssetPool(m),
             OptionMint(m), TokenAccount(user, OptionMint(m)),
             WriterTokenMint(m), TokenAccount(user, WriterTokenMint(m)) } \subseteq message.mut
    PROVE  Covers(message, IssueNeeds(m, user))
  <1> DEFINE calls == { TransferNeeds(Wallet(user), TokenAccount(user, Terms[m].underlying_asset_mint),
                                      UnderlyingAssetPool(m)),
                        MintToNeeds(OptionMint(m), TokenAccount(user, OptionMint(m))),
                        MintToNeeds(WriterTokenMint(m), TokenAccount(user, WriterTokenMint(m))) }
  <1>1. \A n \in calls : Covers(message, n)
    BY CallCovered
  <1> HIDE DEF calls
  <1>2. Covers(message, Together(calls))
    BY <1>1, CoversAll
  <1> QED
    BY <1>2 DEF IssueNeeds, calls

\* The first version, with its fee.
LEMMA MintGoesThrough ==
    ASSUME SuppliesCounted, NEW payer \in Users, NEW user \in Users, NEW m \in Markets,
           NEW size \in Nat, MintOptionResults(m, user, size) # {}
    PROVE  \E l \in MintOptionResults(m, user, size) : MintOptionsGoesThrough(payer, m, user, l)
  <1> DEFINE U == Terms[m].underlying_amount_per_contract
             asset == Terms[m].underlying_asset_mint
             list == MintOptionIdl(m, user)
             remaining == MintFeeRemaining(m)
             message == Message(Wallet(payer), list, remaining)
             charged == PayFee({ledger}, user, asset, U, size)
             options == TokenAccount(user, OptionMint(m))
             writers == TokenAccount(user, WriterTokenMint(m))
             written == { TokenAccount(user, asset), UnderlyingAssetPool(m),
                          OptionMint(m), options, WriterTokenMint(m), writers }
  <1>1. PICK l0, a, optionDest, writerDest :
           /\ a \in MintAccounts(m)
           /\ l0 \in IssueContracts(charged, m, user, size, a, optionDest, writerDest)
    BY MintResults
  <1>2. NobodySigns(remaining)
    BY DEF NobodySigns, MintFeeRemaining, Meta
  <1>3. FeeInTokens(U) =>
           /\ remaining # <<>> /\ remaining[1].key = FeeAccount(asset)
           /\ 1 \in DOMAIN remaining /\ remaining[1].isWritable
    BY TermsAgree DEF MintFeeRemaining, Meta
  <1>4. /\ list.signer = {Wallet(user)}
        /\ written \cup {Wallet(user), FeeAccount(Sol)} \subseteq list.mut
        /\ {m, TokenProgram, SystemProgram, ClockSysvar} \subseteq list.readonly
    BY DEF MintOptionIdl
  <1>5. Wallet(user) = <<user, Sol>> /\ TokenAccount(user, asset) = <<user, asset>>
    BY DEF Wallet, TokenAccount
  <1>6. OptionMint(m) = a.option_mint /\ WriterTokenMint(m) = a.writer_token_mint
    BY <1>1 DEF MintAccounts
  <1> HIDE DEF list, remaining
  <1>7. /\ message.signer = {Wallet(payer), Wallet(user)}
        /\ written \cup {Wallet(user), FeeAccount(Sol)} \subseteq message.mut
        /\ {m, TokenProgram, SystemProgram, ClockSysvar} \subseteq message.key
        /\ FeeInTokens(U) => FeeAccount(asset) \in message.mut
    BY <1>2, <1>3, <1>4, MessageHas DEF HasAccounts
  <1> HIDE DEF message
  <1>8. {ledger} \subseteq CountedLedger
    BY DEF SuppliesCounted
  <1>9. charged \subseteq CountedLedger
    BY <1>8, FeeCounted
  <1>10. AllKeep(message.mut, {ledger}, charged)
    BY <1>5, <1>7, <1>8, FeeKeeps
  <1> HIDE DEF charged
  <1> DEFINE issued == IssueContracts(charged, m, user, size, a, options, writers)
  <1>11. issued # {} /\ AllKeep(message.mut, charged, issued)
    BY <1>1, <1>7, <1>9, IssuedToWriter
  <1>12. AllKeep(message.mut, {ledger}, issued)
    BY <1>10, <1>11, KeepsTwice
  <1>13. PICK l \in issued : Keeps(message.mut, ledger, l)
    BY <1>11, <1>12 DEF AllKeep
  <1>14. l \in MintOptionResults(m, user, size)
    <2>1. options \in AccountsOf(a.option_mint) /\ writers \in AccountsOf(a.writer_token_mint)
      BY <1>6, OwnAccounts
    <2> QED
      BY <1>1, <1>13, <2>1, MintResults DEF charged
  <1>15. ChangesOnly(message.mut, l)
    BY <1>13, KeptIsAllowed
  <1> DEFINE needs == {MintOptionFields(m, user), IssueNeeds(m, user), FeeNeeds(user, asset, U)}
  <1>16. Covers(message, Together(needs))
    <2>1. Covers(message, IssueNeeds(m, user))
      BY <1>7, IssueCovered
    <2>2. Covers(message, FeeNeeds(user, asset, U))
      BY <1>7, FeeCovered
    <2>3. Covers(message, MintOptionFields(m, user))
      BY <1>7 DEF Covers, MintOptionFields, Needs
    <2>4. \A n \in needs : Covers(message, n)
      BY <2>1, <2>2, <2>3
    <2> HIDE DEF needs
    <2> QED
      BY <2>4, CoversAll
  <1>17. Accepted(message, {Wallet(payer), Wallet(user)},
                  Together(needs))
    BY <1>7, <1>16, CoveredIsAccepted
  <1>18. FeeAccountPassed(remaining, asset, U)
    BY <1>3 DEF FeeAccountPassed
  <1>19. MintOptionsGoesThrough(payer, m, user, l)
    BY <1>15, <1>17, <1>18 DEF MintOptionsGoesThrough, message, list, remaining
  <1> QED
    BY <1>14, <1>19

\* The second, without one.
LEMMA MintV2GoesThrough ==
    ASSUME SuppliesCounted, NEW payer \in Users, NEW user \in Users, NEW m \in Markets,
           NEW size \in Nat, MintOptionV2Results(m, user, size) # {}
    PROVE  \E l \in MintOptionV2Results(m, user, size) : MintOptionV2GoesThrough(payer, m, user, l)
  <1> DEFINE asset == Terms[m].underlying_asset_mint
             list == MintOptionV2Idl(m, user)
             remaining == SetupRemaining(m)
             message == Message(Wallet(payer), list, remaining)
             options == TokenAccount(user, OptionMint(m))
             writers == TokenAccount(user, WriterTokenMint(m))
             written == { TokenAccount(user, asset), UnderlyingAssetPool(m),
                          OptionMint(m), options, WriterTokenMint(m), writers }
  <1>1. PICK l0, a, optionDest, writerDest :
           /\ a \in MintAccounts(m)
           /\ l0 \in IssueContracts({ledger}, m, user, size, a, optionDest, writerDest)
    BY MintV2Results
  <1>2. NobodySigns(remaining)
    BY DEF NobodySigns, SetupRemaining, Meta
  <1>3. /\ list.signer = {Wallet(user)}
        /\ written \subseteq list.mut
        /\ TokenProgram \in list.readonly
    BY DEF MintOptionV2Idl
  <1>4. OptionMint(m) = a.option_mint /\ WriterTokenMint(m) = a.writer_token_mint
    BY <1>1 DEF MintAccounts
  <1> HIDE DEF list, remaining
  <1>5. /\ message.signer = {Wallet(payer), Wallet(user)}
        /\ written \subseteq message.mut
        /\ TokenProgram \in message.key
    BY <1>2, <1>3, MessageHas DEF HasAccounts
  <1> HIDE DEF message
  <1>6. {ledger} \subseteq CountedLedger
    BY DEF SuppliesCounted
  <1> DEFINE issued == IssueContracts({ledger}, m, user, size, a, options, writers)
  <1>7. issued # {} /\ AllKeep(message.mut, {ledger}, issued)
    BY <1>1, <1>5, <1>6, IssuedToWriter
  <1>8. PICK l \in issued : Keeps(message.mut, ledger, l)
    BY <1>7 DEF AllKeep
  <1>9. l \in MintOptionV2Results(m, user, size)
    <2>1. options \in AccountsOf(a.option_mint) /\ writers \in AccountsOf(a.writer_token_mint)
      BY <1>4, OwnAccounts
    <2> QED
      BY <1>1, <1>8, <2>1, MintV2Results
  <1>10. ChangesOnly(message.mut, l)
    BY <1>8, KeptIsAllowed
  <1>11. Accepted(message, {Wallet(payer), Wallet(user)}, IssueNeeds(m, user))
    <2>1. Covers(message, IssueNeeds(m, user))
      BY <1>5, IssueCovered
    <2> QED
      BY <1>5, <2>1, CoveredIsAccepted
  <1>12. MintOptionV2GoesThrough(payer, m, user, l)
    BY <1>10, <1>11 DEF MintOptionV2GoesThrough, message, list, remaining
  <1> QED
    BY <1>9, <1>12

-----------------------------------------------------------------------------
(* Exercising *)

\* An exercise that can deliver to somebody can deliver to the exerciser, and
\* changes nothing but the options' account, the exerciser's, the pools and the mint.
LEMMA DeliveredToExerciser ==
    ASSUME SuppliesCounted, NEW m \in Markets, NEW user \in Users, NEW holder \in Users,
           NEW size \in Nat, NEW a \in ExerciseAccounts(m), NEW mut,
           { OptionMint(m), TokenAccount(holder, OptionMint(m)),
             UnderlyingAssetPool(m), TokenAccount(user, Terms[m].underlying_asset_mint),
             QuoteAssetPool(m), TokenAccount(user, Terms[m].quote_asset_mint) } \subseteq mut
    PROVE  \E own \in ExerciseAccounts(m) :
              LET delivered == ExerciseContracts(m, user, holder, size, own)
              IN  /\ AllSameBut(Terms[m].underlying_asset_mint,
                                ExerciseContracts(m, user, holder, size, a), delivered)
                  /\ AllKeep(mut, {ledger}, delivered)
                  /\ delivered \subseteq CountedLedger
  <1> DEFINE U == Terms[m].underlying_amount_per_contract
             Q == Terms[m].quote_amount_per_contract
             asset == Terms[m].underlying_asset_mint
             quote == Terms[m].quote_asset_mint
             dest == TokenAccount(user, asset)
             burnt == Burn({ledger}, holder, OptionMint(m), size)
             paid == TransferTotal(burnt, user, TokenAccount(user, quote), QuoteAssetPool(m), Q, size)
             delivered(to) == TransferTotal(paid, m, UnderlyingAssetPool(m), to, U, size)
             own == [ option_mint |-> OptionMint(m), quote_asset_pool |-> QuoteAssetPool(m),
                      underlying_asset_pool |-> UnderlyingAssetPool(m),
                      underlying_asset_dest |-> dest ]
  <1>1. own \in ExerciseAccounts(m)
    <2>1. dest \in AccountsOf(asset)
      BY OwnAccounts
    <2> QED
      BY <2>1 DEF ExerciseAccounts
  <1>2. \A b \in ExerciseAccounts(m) :
           ExerciseContracts(m, user, holder, size, b) = delivered(b.underlying_asset_dest)
    <2>1. \A b \in ExerciseAccounts(m) :
             /\ b.option_mint = OptionMint(m) /\ b.quote_asset_pool = QuoteAssetPool(m)
             /\ b.underlying_asset_pool = UnderlyingAssetPool(m)
      BY DEF ExerciseAccounts
    <2>2. MintOf(QuoteAssetPool(m)) = quote
      BY MarketAccounts
    <2> QED
      BY <2>1, <2>2 DEF ExerciseContracts, TokenAccount
  <1>3. own.underlying_asset_dest = dest
    OBVIOUS
  <1>4. /\ asset \in Assets /\ dest \in Accounts /\ MintOf(dest) = asset
        /\ UnderlyingAssetPool(m) \in Accounts /\ MintOf(UnderlyingAssetPool(m)) = asset
    BY OwnAccounts, MarketAccounts
  <1>5. {ledger} \subseteq CountedLedger
    BY DEF SuppliesCounted
  <1>6. burnt \subseteq CountedLedger
    BY <1>5, BurntCounted
  <1>7. AllKeep(mut, {ledger}, burnt)
    BY <1>5, BurningKeeps DEF TokenAccount
  <1> HIDE DEF burnt, dest, own
  <1>8. paid \subseteq CountedLedger
    BY <1>6, TotalCounted
  <1>9. AllKeep(mut, burnt, paid)
    BY <1>6, TotalKeeps
  <1> HIDE DEF paid
  <1>10. delivered(dest) \subseteq CountedLedger
    BY <1>8, TotalCounted
  <1>11. AllKeep(mut, paid, delivered(dest))
    BY <1>8, TotalKeeps DEF dest
  <1>12. AllSameBut(asset, delivered(a.underlying_asset_dest), delivered(dest))
    BY <1>4, <1>8, PaidElsewhere
  <1>13. AllKeep(mut, {ledger}, delivered(dest))
    BY <1>7, <1>9, <1>11, KeepsTwice
  <1>14. ExerciseContracts(m, user, holder, size, own) = delivered(dest)
    BY <1>1, <1>2, <1>3
  <1> QED
    BY <1>1, <1>2, <1>10, <1>12, <1>13, <1>14

\* A message with those accounts has what an exercise needs, if the owner of the
\* options signs.
LEMMA ExerciseCovered ==
    ASSUME NEW message, NEW m, NEW user, NEW holder,
           {Wallet(user), Wallet(holder)} \subseteq message.signer, TokenProgram \in message.key,
           { OptionMint(m), TokenAccount(holder, OptionMint(m)),
             UnderlyingAssetPool(m), TokenAccount(user, Terms[m].underlying_asset_mint),
             QuoteAssetPool(m), TokenAccount(user, Terms[m].quote_asset_mint) } \subseteq message.mut
    PROVE  Covers(message, ExerciseNeeds(m, user, holder))
  <1> DEFINE calls == { BurnNeeds(Wallet(holder), OptionMint(m), TokenAccount(holder, OptionMint(m))),
                        TransferNeeds(Wallet(user), TokenAccount(user, Terms[m].quote_asset_mint),
                                      QuoteAssetPool(m)),
                        PayoutNeeds(UnderlyingAssetPool(m),
                                    TokenAccount(user, Terms[m].underlying_asset_mint)) }
  <1>1. \A n \in calls : Covers(message, n)
    BY CallCovered
  <1> HIDE DEF calls
  <1>2. Covers(message, Together(calls))
    BY <1>1, CoversAll
  <1> QED
    BY <1>2 DEF ExerciseNeeds, calls

\* The first version, with its fee.
LEMMA ExerciseGoesThrough ==
    ASSUME SuppliesCounted, NEW m \in Markets, AssetsDiffer(m),
           NEW payer \in Users, NEW user \in Users, NEW holder \in Users,
           NEW size \in Nat, ExerciseHasPrivileges(payer, m, user, holder),
           ExerciseOptionResults(m, user, holder, size) # {}
    PROVE  \E l \in ExerciseOptionResults(m, user, holder, size) :
              ExerciseOptionGoesThrough(payer, m, user, holder, l)
  <1> DEFINE Q == Terms[m].quote_amount_per_contract
             asset == Terms[m].underlying_asset_mint
             quote == Terms[m].quote_asset_mint
             list == ExerciseOptionIdl(m, user, holder)
             remaining == ExerciseFeeRemaining(m)
             message == Message(Wallet(payer), list, remaining)
             written == { OptionMint(m), TokenAccount(holder, OptionMint(m)),
                          UnderlyingAssetPool(m), TokenAccount(user, asset),
                          QuoteAssetPool(m), TokenAccount(user, quote) }
  <1>1. PICK l0, a :
           /\ a \in ExerciseAccounts(m)
           /\ l0 \in PayFee(ExerciseContracts(m, user, holder, size, a), user, quote, Q, size)
    BY ExerciseResults
  <1>2. /\ NobodySigns(remaining)
        /\ remaining # <<>> /\ remaining[1].key = FeeAccount(quote)
        /\ 1 \in DOMAIN remaining /\ remaining[1].isWritable
    BY DEF NobodySigns, ExerciseFeeRemaining, Meta
  <1>3. /\ list.signer = {Wallet(user), Wallet(holder)}
        /\ written \cup {Wallet(holder), FeeAccount(Sol)} \subseteq list.mut
        /\ {m, TokenProgram, SystemProgram, ClockSysvar} \subseteq list.readonly
    BY DEF ExerciseOptionIdl
  <1>4. Wallet(user) = <<user, Sol>> /\ TokenAccount(user, quote) = <<user, quote>>
    BY DEF Wallet, TokenAccount
  <1>5. holder \in {payer, user} /\ (FeeInTokens(Q) \/ user \in {payer, holder})
    BY DEF ExerciseHasPrivileges
  <1> HIDE DEF list, remaining
  <1>6. /\ message.signer = {Wallet(payer), Wallet(user), Wallet(holder)}
        /\ written \cup {Wallet(payer), Wallet(holder), FeeAccount(Sol), FeeAccount(quote)}
              \subseteq message.mut
        /\ {m, TokenProgram, SystemProgram, ClockSysvar} \subseteq message.key
    BY <1>2, <1>3, MessageHas DEF HasAccounts
  <1> HIDE DEF message
  <1>7. ~FeeInTokens(Q) => Wallet(user) \in message.mut
    BY <1>5, <1>6
  <1>8. PICK own \in ExerciseAccounts(m) :
           LET delivered == ExerciseContracts(m, user, holder, size, own)
           IN  /\ AllSameBut(asset, ExerciseContracts(m, user, holder, size, a), delivered)
               /\ AllKeep(message.mut, {ledger}, delivered)
               /\ delivered \subseteq CountedLedger
    BY <1>1, <1>6, DeliveredToExerciser
  <1> DEFINE delivered == ExerciseContracts(m, user, holder, size, own)
             charged == PayFee(delivered, user, quote, Q, size)
  <1>9. charged # {}
    <2>1. asset \in Assets /\ quote # asset
      BY OwnAccounts DEF AssetsDiffer
    <2> QED
      BY <1>1, <1>8, <2>1, FeeStillPaid
  <1> HIDE DEF delivered
  <1>10. AllKeep(message.mut, delivered, charged)
    BY <1>4, <1>6, <1>7, <1>8, FeeKeeps DEF delivered
  <1>11. AllKeep(message.mut, {ledger}, charged)
    BY <1>8, <1>10, KeepsTwice DEF delivered
  <1>12. PICK l \in charged : Keeps(message.mut, ledger, l)
    BY <1>9, <1>11 DEF AllKeep
  <1>13. l \in ExerciseOptionResults(m, user, holder, size)
    BY <1>12, ExerciseResults DEF delivered
  <1>14. ChangesOnly(message.mut, l)
    BY <1>12, KeptIsAllowed
  <1> DEFINE needs == {ExerciseOptionFields(m, user, holder), ExerciseNeeds(m, user, holder),
                       FeeNeeds(user, quote, Q)}
  <1>15. Covers(message, Together(needs))
    <2>1. Covers(message, ExerciseNeeds(m, user, holder))
      BY <1>6, ExerciseCovered
    <2>2. Covers(message, FeeNeeds(user, quote, Q))
      BY <1>6, <1>7, FeeCovered
    <2>3. Covers(message, ExerciseOptionFields(m, user, holder))
      BY <1>6 DEF Covers, ExerciseOptionFields, Needs
    <2>4. \A n \in needs : Covers(message, n)
      BY <2>1, <2>2, <2>3
    <2> HIDE DEF needs
    <2> QED
      BY <2>4, CoversAll
  <1>16. Accepted(message, {Wallet(payer), Wallet(user)},
                  Together(needs))
    <2>1. message.signer \subseteq {Wallet(payer), Wallet(user)}
      BY <1>5, <1>6
    <2> QED
      BY <1>15, <2>1, CoveredIsAccepted
  <1>17. FeeAccountPassed(remaining, quote, Q)
    BY <1>2 DEF FeeAccountPassed
  <1>18. ExerciseOptionGoesThrough(payer, m, user, holder, l)
    BY <1>14, <1>16, <1>17 DEF ExerciseOptionGoesThrough, message, list, remaining
  <1> QED
    BY <1>13, <1>18

\* The second, sent by the holder.
LEMMA ExerciseV2GoesThrough ==
    ASSUME SuppliesCounted, NEW m \in Markets, NEW user \in Users, NEW size \in Nat,
           ExerciseOptionV2Results(m, user, user, size) # {}
    PROVE  \E l \in ExerciseOptionV2Results(m, user, user, size) :
              ExerciseOptionV2GoesThrough(user, m, l)
  <1> DEFINE asset == Terms[m].underlying_asset_mint
             list == ExerciseOptionV2Idl(m, user, user)
             message == Message(Wallet(user), list, <<>>)
             written == { OptionMint(m), TokenAccount(user, OptionMint(m)),
                          UnderlyingAssetPool(m), TokenAccount(user, asset),
                          QuoteAssetPool(m), TokenAccount(user, Terms[m].quote_asset_mint) }
  <1>1. PICK l0, a : a \in ExerciseAccounts(m) /\ l0 \in ExerciseContracts(m, user, user, size, a)
    BY ExerciseResults
  <1>2. /\ list.signer = {Wallet(user)}
        /\ written \subseteq list.mut
        /\ TokenProgram \in list.readonly
    BY DEF ExerciseOptionV2Idl
  <1> HIDE DEF list
  <1>3. /\ message.signer = {Wallet(user)}
        /\ written \subseteq message.mut
        /\ TokenProgram \in message.key
    BY <1>2, NobodyElse, MessageHas DEF HasAccounts
  <1> HIDE DEF message
  <1>4. PICK own \in ExerciseAccounts(m) :
           LET delivered == ExerciseContracts(m, user, user, size, own)
           IN  /\ AllSameBut(asset, ExerciseContracts(m, user, user, size, a), delivered)
               /\ AllKeep(message.mut, {ledger}, delivered)
               /\ delivered \subseteq CountedLedger
    BY <1>1, <1>3, DeliveredToExerciser
  <1>5. PICK l \in ExerciseContracts(m, user, user, size, own) : Keeps(message.mut, ledger, l)
    BY <1>1, <1>4 DEF AllKeep, AllSameBut
  <1>6. l \in ExerciseOptionV2Results(m, user, user, size)
    BY <1>5, ExerciseResults
  <1>7. ChangesOnly(message.mut, l)
    BY <1>5, KeptIsAllowed
  <1>8. Accepted(message, {Wallet(user)}, ExerciseNeeds(m, user, user))
    <2>1. Covers(message, ExerciseNeeds(m, user, user))
      BY <1>3, ExerciseCovered
    <2> QED
      BY <1>3, <2>1, CoveredIsAccepted
  <1>9. ExerciseOptionV2GoesThrough(user, m, l)
    BY <1>7, <1>8 DEF ExerciseOptionV2GoesThrough, message, list
  <1> QED
    BY <1>6, <1>9

-----------------------------------------------------------------------------
(* Redeeming and closing *)

\* What a pool can pay to somebody it can pay to the user who burnt for it, and that
\* changes nothing but what the burning did, the pool and the user's account.
LEMMA PaidToUser ==
    ASSUME NEW L, L \subseteq CountedLedger, NEW m \in Markets, NEW user \in Users,
           NEW pool \in {UnderlyingAssetPool(m), QuoteAssetPool(m)}, NEW asset, asset = MintOf(pool),
           NEW dest, NEW perContract, NEW size, NEW mut, AllKeep(mut, {ledger}, L),
           {pool, TokenAccount(user, asset)} \subseteq mut,
           TransferTotal(L, m, pool, dest, perContract, size) # {}
    PROVE  \E l \in TransferTotal(L, m, pool, TokenAccount(user, asset), perContract, size) :
              Keeps(mut, ledger, l)
  <1> DEFINE paid(to) == TransferTotal(L, m, pool, to, perContract, size)
             own == TokenAccount(user, asset)
  <1>1. /\ pool \in Accounts /\ asset \in Assets
        /\ own \in Accounts /\ MintOf(own) = asset
    BY OwnAccounts, MarketAccounts
  <1> HIDE DEF own
  <1>2. AllSameBut(asset, paid(dest), paid(own))
    BY <1>1, PaidElsewhere
  <1>3. AllKeep(mut, L, paid(own))
    BY TotalKeeps DEF own
  <1> HIDE DEF paid
  <1>4. AllKeep(mut, {ledger}, paid(own))
    BY <1>3, KeepsTwice
  <1>5. paid(dest) # {}
    BY DEF paid
  <1>6. PICK l \in paid(own) : Keeps(mut, ledger, l)
    BY <1>2, <1>4, <1>5 DEF AllKeep, AllSameBut
  <1> QED
    BY <1>6 DEF paid, own

\* A message with the writer's accounts has what a redemption needs.
LEMMA RedeemCovered ==
    ASSUME NEW message, NEW m, NEW user, NEW pool, NEW asset,
           Wallet(user) \in message.signer, TokenProgram \in message.key,
           {WriterTokenMint(m), TokenAccount(user, WriterTokenMint(m)), pool,
            TokenAccount(user, asset)} \subseteq message.mut
    PROVE  Covers(message, RedeemNeeds(m, user, pool, asset))
  <1> DEFINE calls == { BurnNeeds(Wallet(user), WriterTokenMint(m),
                                  TokenAccount(user, WriterTokenMint(m))),
                        PayoutNeeds(pool, TokenAccount(user, asset)) }
  <1>1. \A n \in calls : Covers(message, n)
    BY CallCovered
  <1> HIDE DEF calls
  <1>2. Covers(message, Together(calls))
    BY <1>1, CoversAll
  <1> QED
    BY <1>2 DEF RedeemNeeds, calls

\* Redeeming the underlying after expiration, to the writer's own account.
LEMMA ClosePostExpirationGoes ==
    ASSUME SuppliesCounted, NEW m \in Markets, NEW payer \in Users, NEW user \in Users,
           NEW size \in Nat, ClosePostExpirationResults(m, user, size) # {}
    PROVE  \E l \in ClosePostExpirationResults(m, user, size) :
              ClosePostExpirationGoesThrough(payer, m, user, l)
  <1> DEFINE U == Terms[m].underlying_amount_per_contract
             asset == Terms[m].underlying_asset_mint
             pool == UnderlyingAssetPool(m)
             list == ClosePostExpirationIdl(m, user)
             message == Message(Wallet(payer), list, <<>>)
             written == { WriterTokenMint(m), TokenAccount(user, WriterTokenMint(m)), pool,
                          TokenAccount(user, asset) }
             burnt == Burn({ledger}, user, WriterTokenMint(m), size)
  <1>1. PICK l0, dest : l0 \in TransferTotal(burnt, m, pool, dest, U, size)
    BY RedeemResults DEF RedeemWriterTokens
  <1>2. /\ list.signer = {Wallet(user)}
        /\ written \subseteq list.mut
        /\ TokenProgram \in list.readonly
    BY DEF ClosePostExpirationIdl
  <1> HIDE DEF list
  <1>3. /\ message.signer = {Wallet(payer), Wallet(user)}
        /\ written \subseteq message.mut
        /\ TokenProgram \in message.key
    BY <1>2, NobodyElse, MessageHas DEF HasAccounts
  <1> HIDE DEF message
  <1>4. {ledger} \subseteq CountedLedger
    BY DEF SuppliesCounted
  <1>5. burnt \subseteq CountedLedger
    BY <1>4, BurntCounted
  <1>6. AllKeep(message.mut, {ledger}, burnt)
    BY <1>3, <1>4, BurningKeeps DEF TokenAccount
  <1> HIDE DEF burnt
  <1>7. MintOf(pool) = asset
    BY MarketAccounts
  <1>8. PICK l \in TransferTotal(burnt, m, pool, TokenAccount(user, asset), U, size) :
           Keeps(message.mut, ledger, l)
    BY <1>1, <1>3, <1>5, <1>6, <1>7, PaidToUser
  <1>9. l \in ClosePostExpirationResults(m, user, size)
    <2>1. TokenAccount(user, asset) \in AccountsOf(asset)
      BY OwnAccounts
    <2> QED
      BY <1>8, <2>1, RedeemResults DEF RedeemWriterTokens, burnt
  <1>10. ChangesOnly(message.mut, l)
    BY <1>8, KeptIsAllowed
  <1>11. Accepted(message, {Wallet(payer), Wallet(user)}, RedeemNeeds(m, user, pool, asset))
    <2>1. Covers(message, RedeemNeeds(m, user, pool, asset))
      BY <1>3, RedeemCovered
    <2> QED
      BY <1>3, <2>1, CoveredIsAccepted
  <1>12. ClosePostExpirationGoesThrough(payer, m, user, l)
    BY <1>10, <1>11 DEF ClosePostExpirationGoesThrough, message, list
  <1> QED
    BY <1>9, <1>12

\* Redeeming the quotes of exercised contracts, to the writer's own account.
LEMMA BurnWriterGoes ==
    ASSUME SuppliesCounted, NEW m \in Markets, NEW payer \in Users, NEW user \in Users,
           NEW size \in Nat, BurnWriterForQuoteResults(m, user, size) # {}
    PROVE  \E l \in BurnWriterForQuoteResults(m, user, size) :
              BurnWriterForQuoteGoesThrough(payer, m, user, l)
  <1> DEFINE Q == Terms[m].quote_amount_per_contract
             asset == Terms[m].quote_asset_mint
             pool == QuoteAssetPool(m)
             list == BurnWriterForQuoteIdl(m, user)
             message == Message(Wallet(payer), list, <<>>)
             written == { WriterTokenMint(m), TokenAccount(user, WriterTokenMint(m)), pool,
                          TokenAccount(user, asset) }
             burnt == Burn({ledger}, user, WriterTokenMint(m), size)
  <1>1. PICK l0, dest : /\ QuotesInPool(m, pool, size)
                        /\ l0 \in TransferTotal(burnt, m, pool, dest, Q, size)
    BY RedeemResults DEF RedeemWriterTokens
  <1>2. /\ list.signer = {Wallet(user)}
        /\ written \subseteq list.mut
        /\ TokenProgram \in list.readonly
    BY DEF BurnWriterForQuoteIdl
  <1> HIDE DEF list
  <1>3. /\ message.signer = {Wallet(payer), Wallet(user)}
        /\ written \subseteq message.mut
        /\ TokenProgram \in message.key
    BY <1>2, NobodyElse, MessageHas DEF HasAccounts
  <1> HIDE DEF message
  <1>4. {ledger} \subseteq CountedLedger
    BY DEF SuppliesCounted
  <1>5. burnt \subseteq CountedLedger
    BY <1>4, BurntCounted
  <1>6. AllKeep(message.mut, {ledger}, burnt)
    BY <1>3, <1>4, BurningKeeps DEF TokenAccount
  <1> HIDE DEF burnt
  <1>7. MintOf(pool) = asset
    BY MarketAccounts
  <1>8. PICK l \in TransferTotal(burnt, m, pool, TokenAccount(user, asset), Q, size) :
           Keeps(message.mut, ledger, l)
    BY <1>1, <1>3, <1>5, <1>6, <1>7, PaidToUser
  <1>9. l \in BurnWriterForQuoteResults(m, user, size)
    <2>1. TokenAccount(user, asset) \in AccountsOf(MintOf(pool))
      BY <1>7, OwnAccounts
    <2> QED
      BY <1>1, <1>8, <2>1, RedeemResults DEF RedeemWriterTokens, burnt
  <1>10. ChangesOnly(message.mut, l)
    BY <1>8, KeptIsAllowed
  <1>11. Accepted(message, {Wallet(payer), Wallet(user)}, RedeemNeeds(m, user, pool, asset))
    <2>1. Covers(message, RedeemNeeds(m, user, pool, asset))
      BY <1>3, RedeemCovered
    <2> QED
      BY <1>3, <2>1, CoveredIsAccepted
  <1>12. BurnWriterForQuoteGoesThrough(payer, m, user, l)
    BY <1>10, <1>11 DEF BurnWriterForQuoteGoesThrough, message, list
  <1> QED
    BY <1>9, <1>12

\* Closing a position, to the writer's own account.
LEMMA CloseOptionPositionGoes ==
    ASSUME SuppliesCounted, NEW m \in Markets, NEW payer \in Users, NEW user \in Users,
           NEW size \in Nat, CloseOptionPositionResults(m, user, size) # {}
    PROVE  \E l \in CloseOptionPositionResults(m, user, size) :
              CloseOptionPositionGoesThrough(payer, m, user, l)
  <1> DEFINE U == Terms[m].underlying_amount_per_contract
             asset == Terms[m].underlying_asset_mint
             pool == UnderlyingAssetPool(m)
             list == CloseOptionPositionIdl(m, user)
             message == Message(Wallet(payer), list, <<>>)
             written == { WriterTokenMint(m), TokenAccount(user, WriterTokenMint(m)),
                          OptionMint(m), TokenAccount(user, OptionMint(m)), pool,
                          TokenAccount(user, asset) }
             writersBurnt == Burn({ledger}, user, WriterTokenMint(m), size)
             bothBurnt == Burn(writersBurnt, user, OptionMint(m), size)
             redeem == RedeemNeeds(m, user, pool, asset)
             burn == BurnNeeds(Wallet(user), OptionMint(m), TokenAccount(user, OptionMint(m)))
  <1>1. PICK l0, dest : l0 \in TransferTotal(bothBurnt, m, pool, dest, U, size)
    BY CloseResults
  <1>2. /\ list.signer = {Wallet(user)}
        /\ written \subseteq list.mut
        /\ TokenProgram \in list.readonly
    BY DEF CloseOptionPositionIdl
  <1> HIDE DEF list
  <1>3. /\ message.signer = {Wallet(payer), Wallet(user)}
        /\ written \subseteq message.mut
        /\ TokenProgram \in message.key
    BY <1>2, NobodyElse, MessageHas DEF HasAccounts
  <1> HIDE DEF message
  <1>4. {ledger} \subseteq CountedLedger
    BY DEF SuppliesCounted
  <1>5. writersBurnt \subseteq CountedLedger
    BY <1>4, BurntCounted
  <1>6. AllKeep(message.mut, {ledger}, writersBurnt)
    BY <1>3, <1>4, BurningKeeps DEF TokenAccount
  <1> HIDE DEF writersBurnt
  <1>7. bothBurnt \subseteq CountedLedger
    BY <1>5, BurntCounted
  <1>8. AllKeep(message.mut, writersBurnt, bothBurnt)
    BY <1>3, <1>5, BurningKeeps DEF TokenAccount
  <1> HIDE DEF bothBurnt
  <1>9. AllKeep(message.mut, {ledger}, bothBurnt)
    BY <1>6, <1>8, KeepsTwice
  <1>10. MintOf(pool) = asset
    BY MarketAccounts
  <1>11. PICK l \in TransferTotal(bothBurnt, m, pool, TokenAccount(user, asset), U, size) :
            Keeps(message.mut, ledger, l)
    BY <1>1, <1>3, <1>7, <1>9, <1>10, PaidToUser
  <1>12. l \in CloseOptionPositionResults(m, user, size)
    <2>1. TokenAccount(user, asset) \in AccountsOf(MintOf(pool))
      BY <1>10, OwnAccounts
    <2> QED
      BY <1>11, <2>1, CloseResults DEF bothBurnt, writersBurnt
  <1>13. ChangesOnly(message.mut, l)
    BY <1>11, KeptIsAllowed
  <1>14. Accepted(message, {Wallet(payer), Wallet(user)}, Together({redeem, burn}))
    <2>1. Covers(message, redeem)
      BY <1>3, RedeemCovered
    <2>2. Covers(message, burn)
      BY <1>3, CallCovered
    <2> HIDE DEF redeem, burn
    <2>3. Covers(message, Together({redeem, burn}))
      BY <2>1, <2>2, CoversAll
    <2> QED
      BY <1>3, <2>3, CoveredIsAccepted
  <1>15. CloseOptionPositionGoesThrough(payer, m, user, l)
    BY <1>13, <1>14 DEF CloseOptionPositionGoesThrough, message, list
  <1> QED
    BY <1>12, <1>15

-----------------------------------------------------------------------------
(* Whatever the program would do for a wallet, the client can ask for *)

\* Creating a market and minting, by any wallet and whoever pays.  It takes the
\* agreement on fees, and SuppliesCounted: the writer's accounts have room for
\* what is issued, since the mints have.
THEOREM ClientIssuesAll == ClientSpec => []ClientIssues
  <1>1. SuppliesCounted => ClientIssues
    BY InitGoesThrough, MintGoesThrough, MintV2GoesThrough, SizesAreNaturals DEF ClientIssues
  <1> QED
    BY <1>1, ClientImplements, SupplyCounted, PTL

\* Exercising, redeeming and closing, with the signatures the helper gets.  Here
\* the fee comes after the delivery, and is in another asset.
THEOREM ClientExercisesAll == ClientSpec => []ClientExercisesAndCloses
  <1>1. IInv /\ SuppliesCounted => ClientExercisesAndCloses
    <2> SUFFICES ASSUME IInv, SuppliesCounted PROVE ClientExercisesAndCloses
      OBVIOUS
    <2>1. \A m \in markets : m \in Markets /\ AssetsDiffer(m)
      BY TypeFacts DEF IInv, MarketsWellFormed
    <2>2. \A size \in Sizes : size \in Nat
      BY SizesAreNaturals
    <2> QED
      BY <2>1, <2>2, ExerciseGoesThrough, ExerciseV2GoesThrough, ClosePostExpirationGoes,
         BurnWriterGoes, CloseOptionPositionGoes
      DEF ClientExercisesAndCloses
  <1> QED
    BY <1>1, ClientImplements, Invariance, SupplyCounted, PTL
=============================================================================

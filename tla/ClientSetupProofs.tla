------------------------- MODULE ClientSetupProofs -------------------------
(***************************************************************************)
(* The setup of a market, for any amounts per contract, any rate of the    *)
(* fee, any fee accounts asked for, and whatever other clients and the     *)
(* clock do at whatever moment.                                            *)
(*                                                                         *)
(* The invariant says for every request what earlier ones have put in      *)
(* place and that what later ones create is not there, but for the market, *)
(* which is there as a whole or not at all.  A refusal then has no cause   *)
(* left but those of Reason, and they all stay.                            *)
(***************************************************************************)
EXTENDS ClientSetup, ArithmeticLemmas

\* The requests up to the market, the minter's accounts and the exerciser's.
ToMarket == {"underlyingMint", "quoteMint", "mintFee", "exerciseFee", "optionMarket"}
ToMinter == ToMarket \cup {"minter"}
ToExerciser == ToMinter \cup {"minterUnderlying", "minterQuote", "exerciser"}

AllKeys ==
    AssetKeys \cup FeeKeys \cup NewMarketAccounts
        \cup AccountsOfMinter \cup AccountsOfExerciser \cup SpareKeys

\* What is still to be created has keys nobody else uses.
Fresh ==
    /\ pc = "underlyingMint" => MintKey("underlying") \notin chain
    /\ pc \in {"underlyingMint", "quoteMint"} => MintKey("quote") \notin chain
    /\ pc \in ToMinter => AccountsOfMinter \cap chain = {}
    /\ pc \in ToExerciser => AccountsOfExerciser \cap chain = {}
    /\ pc \in ToExerciser \cup {"exerciserQuote", "spareMint"} => MintKey("spare") \notin chain
    /\ pc \notin {"returned", "threw"} => <<"spare", "spare">> \notin chain

\* The market is created as a whole, by this client or another.
Whole == MarketKey \in chain \/ NewMarketAccounts \cap chain = {}

\* What earlier requests created is there.
There ==
    /\ pc \notin {"underlyingMint", "threw"} => MintKey("underlying") \in chain
    /\ pc \notin {"underlyingMint", "quoteMint", "threw"} => MintKey("quote") \in chain
    /\ pc \notin ToMarket \cup {"threw"} => NewMarketAccounts \subseteq chain
    /\ pc \notin ToMinter \cup {"threw"} => AccountsOfMinter \subseteq chain
    /\ pc \notin ToExerciser \cup {"threw"} => AccountsOfExerciser \subseteq chain
    /\ pc = "spareAccount" => MintKey("spare") \in chain

\* A fee account the market needs was found or is about to be created, and
\* then it is there.
Found(asset) ==
    PassesFeeAccount(perContract[asset]) => feeKey[asset] \in chain \/ asset \in missing
LookedUp ==
    /\ pc \in ToMarket => \A asset \in missing : PassesFeeAccount(perContract[asset])
    /\ pc \in {"exerciseFee", "optionMarket"} => Found("underlying")
    /\ pc = "optionMarket" => Found("quote")
    /\ pc \notin ToMarket \cup {"threw"} =>
          \A asset \in Assets : FeeInTokens(perContract[asset]) => FeeKey(asset) \in chain

\* The tokens that were asked for are minted.
Minted ==
    /\ pc \notin ToMinter \cup {"minterUnderlying", "threw"} =>
          <<"minter", "underlying">> \in funded
    /\ pc \notin ToMinter \cup {"minterUnderlying", "minterQuote", "threw"} /\ quoteAmount > 0 =>
          <<"minter", "quote">> \in funded
    /\ pc \notin ToExerciser \cup {"exerciserQuote", "threw"} =>
          <<"exerciser", "quote">> \in funded

Placed == Fresh /\ There /\ LookedUp /\ Minted
Inv == TypeOK /\ Whole /\ Placed /\ SetupRefusedForAReason

-----------------------------------------------------------------------------
\* The order of the requests.
LEMMA FollowingIs ==
    /\ Following["underlyingMint"] = "quoteMint"
    /\ Following["quoteMint"] = "mintFee"
    /\ Following["mintFee"] = "exerciseFee"
    /\ Following["exerciseFee"] = "optionMarket"
    /\ Following["optionMarket"] = "minter"
    /\ Following["minter"] = "minterUnderlying"
    /\ Following["minterUnderlying"] = "minterQuote"
    /\ Following["minterQuote"] = "exerciser"
    /\ Following["exerciser"] = "exerciserQuote"
    /\ Following["exerciserQuote"] = "spareMint"
    /\ Following["spareMint"] = "spareAccount"
    /\ Following["spareAccount"] = "returned"
  BY DEF Following

\* The requests, part by part.
LEMMA RequestsAre ==
    Requests = ToExerciser \cup {"exerciserQuote", "spareMint", "spareAccount"}
  BY DEF Requests, Following, ToExerciser, ToMinter, ToMarket

\* A fee account is none of the accounts the client creates under its own keys.
LEMMA FeeKeysApart ==
    /\ FeeKeys \cap (AssetKeys \cup NewMarketAccounts \cup AccountsOfMinter
                        \cup AccountsOfExerciser \cup SpareKeys) = {}
    /\ \A asset \in Assets : FeeKey(asset) \in FeeKeys
    /\ FeeKey("underlying") # FeeKey("quote")
  BY DEF FeeKeys, FeeKeysOf, FeeKey, AssetKeys, NewMarketAccounts, AccountsOfMinter,
         AccountsOfExerciser, SpareKeys, MintKey, MarketKey, Assets

\* What a transaction does: it is executed, it is refused, or the client does
\* not learn what became of it and throws.
LEMMA SendCases ==
    ASSUME NEW valid, NEW accounts, NEW credited, Send(valid, accounts, credited)
    PROVE  /\ UNCHANGED <<perContract, quoteAmount, feeKey, missing, expired, blocked>>
           /\ lamports' = lamports \ chain'
           /\ \/ valid /\ pc' = Following[pc] /\ stoppedAt' = stoppedAt /\ fault' = fault
                   /\ chain' = chain \cup accounts /\ funded' = funded \cup credited
              \/ pc' = "threw" /\ stoppedAt' = pc /\ fault' = TRUE
                   /\ \/ chain' = chain \cup accounts /\ funded' = funded \cup credited
                      \/ chain' = chain /\ funded' = funded
              \/ ~valid /\ pc' = "threw" /\ stoppedAt' = pc
                   /\ fault' = fault /\ chain' = chain /\ funded' = funded
  BY DEF Send, Goes, Throws, asked

\* The keys of different requests differ.
LEMMA KeysApart ==
    /\ MintKey("underlying") # MintKey("quote")
    /\ MintKey("spare") \notin AssetKeys
    /\ AssetKeys = {MintKey("underlying"), MintKey("quote")}
    /\ SpareKeys = {MintKey("spare"), <<"spare", "spare">>}
    /\ AssetKeys \cap (NewMarketAccounts \cup AccountsOfMinter \cup AccountsOfExerciser) = {}
    /\ SpareKeys \cap (NewMarketAccounts \cup AccountsOfMinter \cup AccountsOfExerciser) = {}
    /\ <<"spare", "spare">> \notin AssetKeys \cup {MintKey("spare")}
    /\ NewMarketAccounts \cap (AccountsOfMinter \cup AccountsOfExerciser) = {}
    /\ AccountsOfMinter \cap AccountsOfExerciser = {}
  BY DEF AssetKeys, NewMarketAccounts, AccountsOfMinter, AccountsOfExerciser, SpareKeys,
         MintKey, MarketKey

\* A transaction keeps the types of the variables.
LEMMA SendType ==
    ASSUME TypeOK, pc \in Requests, NEW valid, NEW accounts, NEW credited,
           Send(valid, accounts, credited),
           accounts \subseteq AllKeys,
           credited \subseteq AccountsOfMinter \cup AccountsOfExerciser
    PROVE  TypeOK'
  <1>1. pc' \in Requests \cup {"returned", "threw"} /\ stoppedAt' \in Requests \cup {"none"}
    <2>1. Following[pc] \in Requests \cup {"returned"}
      BY FollowingIs, RequestsAre DEF ToExerciser, ToMinter, ToMarket
    <2> QED
      BY <2>1, SendCases DEF TypeOK
  <1>2. /\ chain' = chain \/ chain' = chain \cup accounts
        /\ funded' = funded \/ funded' = funded \cup credited
        /\ fault' \in BOOLEAN
    BY SendCases DEF TypeOK
  <1>3. /\ lamports' = lamports \ chain'
        /\ UNCHANGED <<perContract, quoteAmount, feeKey, missing, expired, blocked>>
    BY SendCases
  <1> QED
    BY <1>1, <1>2, <1>3 DEF TypeOK, AllKeys

\* A client that threw asks for nothing more.
LEMMA ThrewIsPlaced ==
    ASSUME pc' = "threw"
    PROVE  Placed'
  BY RequestsAre DEF Placed, Fresh, There, LookedUp, Minted, ToExerciser, ToMinter, ToMarket

\* A transaction that nothing refuses, and its execution.
Sent(accounts, credited) == Send(TRUE, accounts, credited)
Executed(accounts, credited) ==
    /\ pc' = Following[pc]
    /\ chain' = chain \cup accounts
    /\ funded' = funded \cup credited
    /\ UNCHANGED <<perContract, quoteAmount, feeKey, missing>>

\* It keeps the invariant, if its execution does.
LEMMA SendKeeps ==
    ASSUME TypeOK, Whole, pc \in Requests, NEW accounts, NEW credited,
           Sent(accounts, credited), accounts \subseteq AllKeys,
           accounts \cap NewMarketAccounts = {},
           credited \subseteq AccountsOfMinter \cup AccountsOfExerciser,
           Executed(accounts, credited) => Placed'
    PROVE  Inv'
  <1>1. TypeOK'
    BY SendType DEF Sent
  <1>2. Whole'
    <2>1. chain' = chain \/ chain' = chain \cup accounts
      BY SendCases DEF Sent
    <2> QED
      BY <2>1 DEF Whole
  <1>3. CASE pc' = "threw" /\ fault' = TRUE
    BY <1>1, <1>2, <1>3, ThrewIsPlaced DEF Inv, SetupRefusedForAReason
  <1>4. CASE Executed(accounts, credited)
    <2>1. pc' # "threw"
      BY <1>4, FollowingIs, RequestsAre DEF Executed, ToExerciser, ToMinter, ToMarket
    <2> QED
      BY <1>1, <1>2, <1>4, <2>1 DEF Inv, SetupRefusedForAReason
  <1>5. Executed(accounts, credited) \/ (pc' = "threw" /\ fault' = TRUE)
    BY SendCases DEF Sent, Executed
  <1> QED
    BY <1>3, <1>4, <1>5

-----------------------------------------------------------------------------
\* At first nothing exists.
LEMMA InitInv == Init => Inv
  <1> SUFFICES ASSUME Init PROVE Inv
    OBVIOUS
  <1>1. TypeOK
    BY RequestsAre DEF Init, TypeOK, ToExerciser, ToMinter, ToMarket
  <1>2. Whole /\ Placed
    BY DEF Init, Whole, Placed, Fresh, There, LookedUp, Minted, ToExerciser, ToMinter, ToMarket
  <1> QED
    BY <1>1, <1>2 DEF Init, Inv, SetupRefusedForAReason

\* The mints of the two assets.
LEMMA MintsKeep ==
    ASSUME Inv, CreateUnderlyingAndQuoteMints
    PROVE  Inv'
  <1>1. PICK asset \in Assets :
            /\ pc = IF asset = "underlying" THEN "underlyingMint" ELSE "quoteMint"
            /\ Send(NewKeys({MintKey(asset)}), {MintKey(asset)}, {})
    BY DEF CreateUnderlyingAndQuoteMints
  <1>2. asset = "underlying" \/ asset = "quote"
    BY DEF Assets
  <1>3. pc \in Requests /\ MintKey(asset) \in AssetKeys
    BY <1>1, <1>2, RequestsAre, KeysApart DEF ToExerciser, ToMinter, ToMarket
  <1>4. NewKeys({MintKey(asset)})
    <2>1. MintKey(asset) \notin chain
      BY <1>1, <1>2 DEF Inv, Placed, Fresh
    <2>2. MintKey(asset) \notin lamports
      BY <1>3, FeeKeysApart DEF Inv, TypeOK
    <2> QED
      BY <2>1, <2>2 DEF NewKeys
  <1>5. ASSUME Executed({MintKey(asset)}, {})
        PROVE  Placed'
    <2>1. pc' = IF asset = "underlying" THEN "quoteMint" ELSE "mintFee"
      BY <1>1, <1>2, <1>5, FollowingIs DEF Executed
    <2>2. Fresh'
      BY <1>1, <1>2, <1>5, <2>1, KeysApart
      DEF Executed, Inv, Placed, Fresh, ToExerciser, ToMinter, ToMarket
    <2>3. There'
      BY <1>1, <1>2, <1>5, <2>1
      DEF Executed, Inv, Placed, There, ToExerciser, ToMinter, ToMarket
    <2>4. LookedUp'
      BY <1>1, <1>2, <1>5, <2>1 DEF Executed, Inv, Placed, LookedUp, ToMarket
    <2> QED
      BY <2>1, <2>2, <2>3, <2>4 DEF Placed, Minted, ToExerciser, ToMinter, ToMarket
  <1>6. Sent({MintKey(asset)}, {})
    BY <1>1, <1>4 DEF Sent, Send
  <1>7. /\ {MintKey(asset)} \subseteq AllKeys
        /\ {MintKey(asset)} \cap NewMarketAccounts = {}
        /\ {} \subseteq AccountsOfMinter \cup AccountsOfExerciser
    BY <1>3, KeysApart DEF AllKeys
  <1>8. TypeOK /\ Whole
    BY DEF Inv
  <1> QED
    BY <1>3, <1>5, <1>6, <1>7, <1>8, SendKeeps

\* The lookup of a fee account.
LEMMA LookUpKeeps ==
    ASSUME Inv, NEW asset \in Assets, LookUpFee(asset)
    PROVE  Inv'
  <1>1. asset = "underlying" \/ asset = "quote"
    BY DEF Assets
  <1>2. pc = IF asset = "underlying" THEN "mintFee" ELSE "exerciseFee"
    BY DEF LookUpFee
  <1>3. UNCHANGED <<perContract, quoteAmount, feeKey, chain, lamports, funded, expired, blocked>>
    BY DEF LookUpFee, GetOrAddAssociatedTokenAccountTx, asked, ledger
  <1>4. TypeOK'
    <2>1. \/ pc' = Following[pc] /\ stoppedAt' = stoppedAt
          \/ pc' = "threw" /\ stoppedAt' = pc
      BY DEF LookUpFee, GetOrAddAssociatedTokenAccountTx, Goes, Throws
    <2>2. pc' \in Requests \cup {"returned", "threw"} /\ stoppedAt' \in Requests \cup {"none"}
      BY <1>1, <1>2, <2>1, FollowingIs, RequestsAre
      DEF Inv, TypeOK, ToExerciser, ToMinter, ToMarket
    <2>3. missing' = missing \/ missing' = missing \cup {asset}
      BY DEF LookUpFee, GetOrAddAssociatedTokenAccountTx
    <2>4. \/ fault' = fault
          \/ fault' = (LookupAnswer(asset) \in TakenForMissing \cup {"account"})
      BY DEF LookUpFee, GetOrAddAssociatedTokenAccountTx
    <2>5. (LookupAnswer(asset) \in TakenForMissing \cup {"account"}) \in BOOLEAN
      OBVIOUS
    <2>6. fault' \in BOOLEAN
      BY <2>4, <2>5 DEF Inv, TypeOK
    <2> QED
      BY <1>3, <2>2, <2>3, <2>6 DEF Inv, TypeOK
  <1>5. LookupAnswer(asset) \in TakenForMissing \cup {"account"}
    BY DEF LookupAnswer, TakenForMissing
  <1>6. \/ pc' = "threw" /\ fault'
        \/ pc' = Following[pc] /\ missing' = missing /\ Found(asset)
        \/ /\ pc' = Following[pc] /\ missing' = missing \cup {asset}
           /\ PassesFeeAccount(perContract[asset])
    <2>1. CASE ~PassesFeeAccount(perContract[asset])
      BY <2>1 DEF LookUpFee, Goes, Found
    <2>2. CASE PassesFeeAccount(perContract[asset])
      <3>1. GetOrAddAssociatedTokenAccountTx(asset)
        BY <2>2 DEF LookUpFee
      <3>2. CASE Throws /\ fault' = (LookupAnswer(asset) \in TakenForMissing \cup {"account"})
        BY <1>5, <3>2 DEF Throws
      <3>3. CASE LookupAnswer(asset) = "account" /\ Goes(Following[pc]) /\ missing' = missing
        <4>1. feeKey[asset] \in chain
          BY <3>3 DEF LookupAnswer
        <4> QED
          BY <3>3, <4>1 DEF Goes, Found
      <3>4. CASE Goes(Following[pc]) /\ missing' = missing \cup {asset}
        BY <2>2, <3>4 DEF Goes
      <3> QED
        BY <3>1, <3>2, <3>3, <3>4 DEF GetOrAddAssociatedTokenAccountTx
    <2> QED
      BY <2>1, <2>2
  <1>7. Whole'
    BY <1>3 DEF Inv, Whole
  <1>8. CASE pc' = "threw" /\ fault'
    BY <1>4, <1>7, <1>8, ThrewIsPlaced DEF Inv, SetupRefusedForAReason
  <1>9. CASE /\ pc' = Following[pc]
             /\ \/ missing' = missing /\ Found(asset)
                \/ missing' = missing \cup {asset} /\ PassesFeeAccount(perContract[asset])
    <2>1. pc' = IF asset = "underlying" THEN "exerciseFee" ELSE "optionMarket"
      BY <1>1, <1>2, <1>9, FollowingIs
    <2>2. Fresh' /\ There' /\ Minted'
      BY <1>1, <1>2, <1>3, <2>1
      DEF Inv, Placed, Fresh, There, Minted, ToExerciser, ToMinter, ToMarket
    <2>3. LookedUp'
      BY <1>1, <1>2, <1>3, <1>9, <2>1 DEF Inv, Placed, LookedUp, Found, ToMarket
    <2> QED
      BY <1>1, <1>4, <1>7, <2>1, <2>2, <2>3 DEF Inv, Placed, SetupRefusedForAReason
  <1> QED
    BY <1>6, <1>8, <1>9

\* Client and program agree on which quantities pay a fee.
LEMMA FeesAgree ==
    ASSUME NEW q \in Nat
    PROVE  PassesFeeAccount(q) <=> FeeInTokens(q)
  <1> DEFINE d == ClientDivisor
             rate == FeeRate
  <1>1. /\ One \in Nat /\ One > 0
        /\ FeeBps \in Nat /\ FeeBps > 0
        /\ BpsDenominator \in Nat /\ BpsDenominator > 0
        /\ FeeBps * d = BpsDenominator /\ d * d <= One
    BY FeesAssumption
  <1>2. d = BpsDenominator \div FeeBps /\ rate = (FeeBps * One) \div BpsDenominator + 1
    BY DEF ClientDivisor, FeeRate, FeeBpsFixed
  <1> HIDE DEF d, rate
  <1>3. q \div d > 0 <=> (rate * q) \div One > 0
    BY <1>1, <1>2, SameQuantitiesPay
  <1> QED
    BY <1>3 DEF d, rate, PassesFeeAccount, FeeAmountPerContract, FeeInTokens, FeeAmount, FeeProduct

\* A fee account the program takes is there.
LEMMA TakenAreThere ==
    ASSUME NEW accounts, ValidateFeeAccounts(accounts)
    PROVE  \A asset \in Assets : FeeInTokens(perContract[asset]) => FeeKey(asset) \in accounts
  <1> DEFINE wanted(asset) == IF FeeInTokens(perContract[asset]) THEN <<FeeKey(asset)>> ELSE <<>>
             taken == wanted("underlying") \o wanted("quote")
  <1>1. ToSet(taken) \subseteq accounts
    BY DEF ValidateFeeAccounts
  <1>2. FeeInTokens(perContract["underlying"]) => FeeKey("underlying") \in ToSet(taken)
    BY DEF ToSet
  <1>3. FeeInTokens(perContract["quote"]) => FeeKey("quote") \in ToSet(taken)
    <2>1. CASE FeeInTokens(perContract["quote"]) /\ FeeInTokens(perContract["underlying"])
      <3>1. taken = <<FeeKey("underlying")>> \o <<FeeKey("quote")>>
        BY <2>1
      <3>2. 2 \in 1..Len(taken) /\ taken[2] = FeeKey("quote")
        BY <3>1
      <3>3. DOMAIN taken = 1..Len(taken)
        BY <3>1
      <3> HIDE DEF taken
      <3> QED
        BY <3>2, <3>3 DEF ToSet
    <2>2. CASE FeeInTokens(perContract["quote"]) /\ ~FeeInTokens(perContract["underlying"])
      <3>1. taken = <<FeeKey("quote")>>
        BY <2>2
      <3>2. FeeKey("quote") \in ToSet(<<FeeKey("quote")>>)
        BY DEF ToSet
      <3> HIDE DEF taken
      <3> QED
        BY <3>1, <3>2
    <2> QED
      BY <2>1, <2>2
  <1> QED
    BY <1>1, <1>2, <1>3 DEF Assets

\* The program takes the fee accounts that the client passes, unless the caller
\* has asked for wrong ones.
LEMMA FeeAccountsAgree ==
    ASSUME TypeOK, Found("underlying"), Found("quote"), ~WrongFeeAccount
    PROVE  ValidateFeeAccounts(chain \cup Instructions)
  <1>1. perContract["underlying"] \in Nat /\ perContract["quote"] \in Nat
    BY SetupAssumption DEF TypeOK, Assets
  <1>2. /\ FeeInTokens(perContract["underlying"]) = PassesFeeAccount(perContract["underlying"])
        /\ FeeInTokens(perContract["quote"]) = PassesFeeAccount(perContract["quote"])
    <2>1. /\ FeeInTokens(perContract["underlying"]) <=> PassesFeeAccount(perContract["underlying"])
          /\ FeeInTokens(perContract["quote"]) <=> PassesFeeAccount(perContract["quote"])
      BY <1>1, FeesAgree
    <2> QED
      BY <2>1 DEF FeeInTokens, PassesFeeAccount
  <1>3. /\ FeeInTokens(perContract["underlying"]) => feeKey["underlying"] = FeeKey("underlying")
        /\ FeeInTokens(perContract["quote"]) => feeKey["quote"] = FeeKey("quote")
    BY DEF WrongFeeAccount, Assets
  <1>4. /\ PassesFeeAccount(perContract["underlying"]) => feeKey["underlying"] \in chain \cup Instructions
        /\ PassesFeeAccount(perContract["quote"]) => feeKey["quote"] \in chain \cup Instructions
    BY DEF Found, Instructions
  <1>5. ToSet(RemainingAccounts) \subseteq chain \cup Instructions
    BY <1>4 DEF ToSet, RemainingAccounts
  <1>6. IsPrefix(RemainingAccounts, RemainingAccounts)
    <2>1. Len(RemainingAccounts) \in Nat
      BY DEF RemainingAccounts
    <2> QED
      BY <2>1 DEF IsPrefix
  <1> DEFINE wanted(asset) == IF FeeInTokens(perContract[asset]) THEN <<FeeKey(asset)>> ELSE <<>>
             taken == wanted("underlying") \o wanted("quote")
  <1>7. taken = RemainingAccounts
    BY <1>2, <1>3 DEF RemainingAccounts
  <1> QED
    BY <1>5, <1>6, <1>7 DEF ValidateFeeAccounts

\* The accounts of a market are created as a whole.
LEMMA WholeMarket ==
    ASSUME TypeOK, Whole, NEW accounts \in SUBSET FeeKeys,
           \/ chain' = chain
           \/ chain' = chain \cup accounts
           \/ chain' = chain \cup NewMarketAccounts \cup accounts
    PROVE  Whole'
  BY FeeKeysApart DEF Whole, NewMarketAccounts

\* What the creation of the market is refused for.
LEMMA RefusalHasReason ==
    ASSUME Inv, pc = "optionMarket",
           ~(/\ Instructions \cap chain = {} /\ ~Twice
             /\ InitializeMarket
             /\ ValidateFeeAccounts(chain \cup Instructions))
    PROVE  Reason
  <1> SUFFICES ASSUME ~Reason
               PROVE  FALSE
    OBVIOUS
  <1>1. Instructions \cap chain = {}
    BY DEF Reason, Overtaken, Instructions
  <1>2. ~Twice
    <2>1. ASSUME Twice
          PROVE  FALSE
      <3>1. \A asset \in Assets : PassesFeeAccount(perContract[asset]) /\ perContract[asset] \in Nat
        BY <2>1, SetupAssumption DEF Twice, Inv, TypeOK, Placed, LookedUp, ToMarket
      <3>2. \A asset \in Assets : FeeInTokens(perContract[asset])
        BY <3>1, FeesAgree
      <3>3. feeKey["underlying"] = FeeKey("underlying") /\ feeKey["quote"] = FeeKey("quote")
        BY <3>2 DEF Reason, WrongFeeAccount, Assets
      <3> QED
        BY <2>1, <3>3, FeeKeysApart DEF Twice
    <2> QED
      BY <2>1
  <1>3. ValidateFeeAccounts(chain \cup Instructions)
    BY FeeAccountsAgree DEF Reason, Inv, Placed, LookedUp
  <1>4. InitializeMarket
    <2>1. AssetKeys \subseteq chain
      BY KeysApart DEF Inv, Placed, There
    <2>2. NewMarketAccounts \cap chain = {}
      BY DEF Reason, Overtaken, Inv, Whole
    <2>3. \A asset \in Assets : perContract[asset] > 0
      <3>1. \A asset \in Assets : perContract[asset] \in Nat /\ perContract[asset] # 0
        BY SetupAssumption DEF Reason, EmptyContract, Inv, TypeOK
      <3> QED
        BY <3>1
    <2> QED
      BY <2>1, <2>2, <2>3 DEF InitializeMarket, Reason
  <1> QED
    BY <1>1, <1>2, <1>3, <1>4

\* The market is refused only for one of the reasons.
LEMMA MarketKeeps ==
    ASSUME Inv, InitOptionMarket
    PROVE  Inv'
  <1> DEFINE valid ==
        /\ Instructions \cap chain = {} /\ ~Twice
        /\ InitializeMarket
        /\ ValidateFeeAccounts(chain \cup Instructions)
  <1> DEFINE accounts == NewMarketAccounts \cup Instructions
  <1>1. pc = "optionMarket" /\ Send(valid, accounts, {})
    BY DEF InitOptionMarket
  <1>2. Instructions \in SUBSET FeeKeys
    BY DEF Inv, TypeOK, Instructions
  <1>3. pc \in Requests /\ accounts \subseteq AllKeys
    BY <1>1, <1>2, RequestsAre DEF ToExerciser, ToMinter, ToMarket, AllKeys
  <1>4. ~valid => Reason
    BY <1>1, RefusalHasReason
  <1>5. valid => AssetKeys \subseteq chain
    BY DEF InitializeMarket
  <1>6. valid => \A asset \in Assets :
                    FeeInTokens(perContract[asset]) => FeeKey(asset) \in chain \cup Instructions
    BY TakenAreThere
  <1>7. accounts = NewMarketAccounts \cup Instructions
    OBVIOUS
  <1> HIDE DEF valid, accounts
  <1>8. TypeOK /\ Whole
    BY DEF Inv
  <1>9. TypeOK'
    BY <1>1, <1>3, <1>8, SendType
  <1>10. chain' = chain \/ chain' = chain \cup accounts
    BY <1>1, SendCases
  <1>11. Whole'
    BY <1>2, <1>7, <1>8, <1>10, WholeMarket
  <1>12. CASE pc' = "threw" /\ fault' = TRUE
    BY <1>9, <1>11, <1>12, ThrewIsPlaced DEF Inv, SetupRefusedForAReason
  <1>13. CASE valid /\ Executed(accounts, {})
    <2>1. pc' = "minter"
      BY <1>1, <1>13, FollowingIs DEF Executed
    <2>2. chain' = chain \cup NewMarketAccounts \cup Instructions /\ UNCHANGED perContract
      BY <1>7, <1>13 DEF Executed
    <2>3. Fresh'
      <3>1. AccountsOfMinter \cap chain = {} /\ AccountsOfExerciser \cap chain = {}
            /\ MintKey("spare") \notin chain /\ <<"spare", "spare">> \notin chain
        BY <1>1 DEF Inv, Placed, Fresh, ToExerciser, ToMinter, ToMarket
      <3>2. (AccountsOfMinter \cup AccountsOfExerciser \cup SpareKeys) \cap chain' = {}
        BY <1>2, <2>2, <3>1, FeeKeysApart, KeysApart
      <3> QED
        BY <2>1, <3>2, KeysApart DEF Fresh, ToExerciser, ToMinter, ToMarket
    <2>4. There'
      BY <1>5, <1>13, <2>1, <2>2, KeysApart DEF There, ToExerciser, ToMinter, ToMarket
    <2>5. LookedUp'
      BY <1>6, <1>13, <2>1, <2>2 DEF LookedUp, ToMarket
    <2>6. Minted' /\ SetupRefusedForAReason'
      BY <2>1 DEF Minted, SetupRefusedForAReason, ToExerciser, ToMinter, ToMarket
    <2> QED
      BY <1>9, <1>11, <2>3, <2>4, <2>5, <2>6 DEF Inv, Placed
  <1>14. CASE ~valid /\ pc' = "threw" /\ stoppedAt' = pc /\ chain' = chain
    <2>1. UNCHANGED <<perContract, feeKey, missing, expired, blocked>>
      BY <1>1, SendCases
    <2>2. Reason'
      BY <1>4, <1>14, <2>1 DEF Reason, Overtaken, EmptyContract, WrongFeeAccount
    <2> QED
      BY <1>1, <1>9, <1>11, <1>14, <2>2, ThrewIsPlaced DEF Inv, SetupRefusedForAReason
  <1>15. \/ valid /\ Executed(accounts, {})
         \/ pc' = "threw" /\ fault' = TRUE
         \/ ~valid /\ pc' = "threw" /\ stoppedAt' = pc /\ chain' = chain
    <2>1. /\ UNCHANGED <<perContract, quoteAmount, feeKey, missing, expired, blocked>>
          /\ \/ valid /\ pc' = Following[pc] /\ stoppedAt' = stoppedAt /\ fault' = fault
                  /\ chain' = chain \cup accounts /\ funded' = funded \cup {}
             \/ pc' = "threw" /\ stoppedAt' = pc /\ fault' = TRUE
             \/ ~valid /\ pc' = "threw" /\ stoppedAt' = pc /\ chain' = chain
      BY <1>1, SendCases
    <2> QED
      BY <2>1 DEF Executed
  <1> QED
    BY <1>12, <1>13, <1>14, <1>15

\* The transactions after the market: what each creates, and whom it credits.
OwnAccounts(accounts, credited) ==
    \/ pc = "minter" /\ accounts = AccountsOfMinter /\ credited = {}
    \/ pc = "minterUnderlying" /\ accounts = {} /\ credited = {<<"minter", "underlying">>}
    \/ pc = "minterQuote" /\ accounts = {} /\ credited = {<<"minter", "quote">>}
    \/ pc = "exerciser" /\ accounts = AccountsOfExerciser /\ credited = {}
    \/ pc = "exerciserQuote" /\ accounts = {} /\ credited = {<<"exerciser", "quote">>}
    \/ pc = "spareMint" /\ accounts = {MintKey("spare")} /\ credited = {}
    \/ pc = "spareAccount" /\ accounts = {<<"spare", "spare">>} /\ credited = {}

\* A transaction over the client's own new keys keeps the invariant.
LEMMA OwnAccountsKeep ==
    ASSUME Inv, NEW accounts, NEW credited,
           Sent(accounts, credited), OwnAccounts(accounts, credited)
    PROVE  Inv'
  <1>1. pc \in Requests
    BY RequestsAre DEF OwnAccounts, ToExerciser, ToMinter, ToMarket
  <1>2. /\ accounts \subseteq AllKeys
        /\ accounts \cap NewMarketAccounts = {}
        /\ credited \subseteq AccountsOfMinter \cup AccountsOfExerciser
    BY KeysApart DEF OwnAccounts, AllKeys, AccountsOfMinter, AccountsOfExerciser
  <1>3. ASSUME Executed(accounts, credited)
        PROVE  Placed'
    <2>1. /\ chain' = chain \cup accounts /\ funded' = funded \cup credited
          /\ pc' = Following[pc] /\ UNCHANGED <<perContract, quoteAmount>>
      BY <1>3 DEF Executed
    <2>2. Fresh'
      BY <2>1, FollowingIs, KeysApart DEF OwnAccounts, Inv, Placed, Fresh, ToExerciser, ToMinter, ToMarket
    <2>3. There'
      BY <2>1, FollowingIs, KeysApart DEF OwnAccounts, Inv, Placed, There, ToExerciser, ToMinter, ToMarket
    <2>4. LookedUp'
      BY <2>1, FollowingIs DEF OwnAccounts, Inv, Placed, LookedUp, ToExerciser, ToMinter, ToMarket
    <2>5. Minted'
      BY <2>1, FollowingIs DEF OwnAccounts, Inv, Placed, Minted, ToExerciser, ToMinter, ToMarket
    <2> QED
      BY <2>2, <2>3, <2>4, <2>5 DEF Placed
  <1>4. TypeOK /\ Whole
    BY DEF Inv
  <1> QED
    BY <1>1, <1>2, <1>3, <1>4, SendKeeps

\* None of them is refused.
LEMMA ScriptKeeps ==
    ASSUME Inv, Script
    PROVE  Inv'
  <1>1. CASE CreateUnderlyingAndQuoteMints
    BY <1>1, MintsKeep
  <1>2. CASE \E asset \in Assets : LookUpFee(asset)
    BY <1>2, LookUpKeeps
  <1>3. CASE InitOptionMarket
    BY <1>3, MarketKeeps
  <1>4. FeeKeys \cap (AccountsOfMinter \cup AccountsOfExerciser \cup SpareKeys) = {}
        /\ lamports \subseteq FeeKeys
    BY FeeKeysApart DEF Inv, TypeOK
  <1>5. CASE CreateMinter
    <2>1. CASE pc = "minter"
      <3>1. NewKeys(AccountsOfMinter)
        BY <1>4, <2>1 DEF NewKeys, Inv, Placed, Fresh, ToMinter, ToMarket
      <3>2. MintsExist(AccountsOfMinter)
        BY <2>1, KeysApart
        DEF MintsExist, AccountsOfMinter, Inv, Placed, There, NewMarketAccounts, ToMarket
      <3>3. Sent(AccountsOfMinter, {})
        BY <1>5, <2>1, <3>1, <3>2 DEF CreateMinter, Sent, Send
      <3> QED
        BY <2>1, <3>3, OwnAccountsKeep DEF OwnAccounts
    <2>2. CASE pc = "minterUnderlying"
      <3>1. <<"minter", "underlying">> \in chain
        BY <2>2 DEF AccountsOfMinter, Inv, Placed, There, ToMinter, ToMarket
      <3>2. Sent({}, {<<"minter", "underlying">>})
        BY <1>5, <2>2, <3>1 DEF CreateMinter, Sent, Send
      <3> QED
        BY <2>2, <3>2, OwnAccountsKeep DEF OwnAccounts
    <2>3. CASE pc = "minterQuote" /\ quoteAmount > 0
      <3>1. <<"minter", "quote">> \in chain
        BY <2>3 DEF AccountsOfMinter, Inv, Placed, There, ToMinter, ToMarket
      <3>2. Sent({}, {<<"minter", "quote">>})
        BY <1>5, <2>3, <3>1 DEF CreateMinter, Sent, Send
      <3> QED
        BY <2>3, <3>2, OwnAccountsKeep DEF OwnAccounts
    <2>4. CASE pc = "minterQuote" /\ quoteAmount = 0
      <3>1. /\ pc' = "exerciser" /\ stoppedAt' = stoppedAt
            /\ UNCHANGED <<perContract, quoteAmount, feeKey, chain, lamports, funded>>
            /\ UNCHANGED <<missing, fault, expired, blocked>>
        BY <1>5, <2>4, FollowingIs DEF CreateMinter, Goes, asked, ledger
      <3>2. Placed'
        BY <2>4, <3>1
        DEF Inv, Placed, Fresh, There, LookedUp, Minted, ToExerciser, ToMinter, ToMarket
      <3>3. TypeOK' /\ Whole'
        BY <3>1, RequestsAre DEF Inv, TypeOK, Whole, ToExerciser
      <3> QED
        BY <3>1, <3>2, <3>3 DEF Inv, SetupRefusedForAReason
    <2> QED
      BY <1>5, <2>1, <2>2, <2>3, <2>4 DEF CreateMinter
  <1>6. CASE CreateExerciser
    <2>1. CASE pc = "exerciser"
      <3>1. NewKeys(AccountsOfExerciser)
        BY <1>4, <2>1 DEF NewKeys, Inv, Placed, Fresh, ToExerciser, ToMinter, ToMarket
      <3>2. MintsExist(AccountsOfExerciser)
        BY <2>1, KeysApart
        DEF MintsExist, AccountsOfExerciser, Inv, Placed, There, NewMarketAccounts, ToMarket
      <3>3. Sent(AccountsOfExerciser, {})
        BY <1>6, <2>1, <3>1, <3>2 DEF CreateExerciser, Sent, Send
      <3> QED
        BY <2>1, <3>3, OwnAccountsKeep DEF OwnAccounts
    <2>2. CASE pc = "exerciserQuote"
      <3>1. <<"exerciser", "quote">> \in chain
        BY <2>2 DEF AccountsOfExerciser, Inv, Placed, There, ToExerciser, ToMinter, ToMarket
      <3>2. Sent({}, {<<"exerciser", "quote">>})
        BY <1>6, <2>2, <3>1 DEF CreateExerciser, Sent, Send
      <3> QED
        BY <2>2, <3>2, OwnAccountsKeep DEF OwnAccounts
    <2> QED
      BY <1>6, <2>1, <2>2 DEF CreateExerciser
  <1>7. CASE InitNewTokenMint
    <2>1. pc = "spareMint" /\ NewKeys({MintKey("spare")})
      BY <1>4, <1>7, KeysApart DEF InitNewTokenMint, NewKeys, Inv, Placed, Fresh
    <2>2. Sent({MintKey("spare")}, {})
      BY <1>7, <2>1 DEF InitNewTokenMint, Sent, Send
    <2> QED
      BY <2>1, <2>2, OwnAccountsKeep DEF OwnAccounts
  <1>8. CASE InitNewTokenAccount
    <2>1. pc = "spareAccount" /\ NewKeys({<<"spare", "spare">>})
      BY <1>4, <1>8, KeysApart DEF InitNewTokenAccount, NewKeys, Inv, Placed, Fresh
    <2>2. MintsExist({<<"spare", "spare">>})
      BY <2>1 DEF MintsExist, Inv, Placed, There
    <2>3. Sent({<<"spare", "spare">>}, {})
      BY <1>8, <2>1, <2>2 DEF InitNewTokenAccount, Sent, Send
    <2> QED
      BY <2>1, <2>3, OwnAccountsKeep DEF OwnAccounts
  <1> QED
    BY <1>1, <1>2, <1>3, <1>5, <1>6, <1>7, <1>8 DEF Script

\* What everybody else does, and the clock and the builders.
OthersStep ==
    \/ \E asset \in Assets : OthersCreateFeeAccount(asset) \/ OthersSendLamports(asset)
    \/ OthersInitOptionMarket
    \/ Expire
    \/ Upgrade

\* They create and fund fee accounts, and the market.
LEMMA OthersCreate ==
    ASSUME Inv, OthersStep
    PROVE  /\ UNCHANGED <<perContract, quoteAmount, feeKey, funded, pc, stoppedAt, missing, fault>>
           /\ \E accounts \in SUBSET FeeKeys :
                 \/ chain' = chain
                 \/ chain' = chain \cup accounts
                 \/ chain' = chain \cup NewMarketAccounts \cup accounts
           /\ lamports' \subseteq FeeKeys \ chain'
           /\ (expired => expired') /\ (blocked => blocked')
           /\ expired' \in BOOLEAN /\ blocked' \in BOOLEAN
  <1>1. CASE \E asset \in Assets : OthersCreateFeeAccount(asset) \/ OthersSendLamports(asset)
    <2>1. PICK asset \in Assets : OthersCreateFeeAccount(asset) \/ OthersSendLamports(asset)
      BY <1>1
    <2>2. {feeKey[asset]} \in SUBSET FeeKeys
      BY DEF Inv, TypeOK
    <2>3. CASE OthersCreateFeeAccount(asset)
      <3>1. chain' = chain \cup {feeKey[asset]} /\ lamports' = lamports \ {feeKey[asset]}
        BY <2>3 DEF OthersCreateFeeAccount
      <3>2. lamports' \subseteq FeeKeys \ chain'
        BY <3>1 DEF Inv, TypeOK
      <3> QED
        BY <2>2, <2>3, <3>1, <3>2 DEF OthersCreateFeeAccount, asked, client, Inv, TypeOK
    <2>4. CASE OthersSendLamports(asset)
      BY <2>2, <2>4 DEF OthersSendLamports, NotCreatedNorFunded, asked, client, Inv, TypeOK
    <2> QED
      BY <2>1, <2>3, <2>4
  <1>2. CASE OthersInitOptionMarket
    <2> DEFINE wanted == {FeeKey(asset) : asset \in {a \in Assets : FeeInTokens(perContract[a])}}
    <2>1. wanted \in SUBSET FeeKeys
      BY FeeKeysApart
    <2>2. chain' = chain \cup NewMarketAccounts \cup wanted /\ lamports' = lamports \ chain'
      BY <1>2 DEF OthersInitOptionMarket
    <2> HIDE DEF wanted
    <2> QED
      BY <1>2, <2>1, <2>2 DEF OthersInitOptionMarket, asked, client, Inv, TypeOK
  <1>3. CASE Expire \/ Upgrade
    BY <1>3 DEF Expire, Upgrade, asked, ledger, client, Inv, TypeOK
  <1> QED
    BY <1>1, <1>2, <1>3 DEF OthersStep

\* They take nothing from the client, and what was a reason to refuse it stays.
LEMMA OthersKeep ==
    ASSUME Inv, OthersStep
    PROVE  Inv'
  <1>1. /\ UNCHANGED <<perContract, quoteAmount, feeKey, funded, pc, stoppedAt, missing, fault>>
        /\ lamports' \subseteq FeeKeys \ chain'
        /\ (expired => expired') /\ (blocked => blocked')
        /\ expired' \in BOOLEAN /\ blocked' \in BOOLEAN
    BY OthersCreate
  <1>2. PICK accounts \in SUBSET FeeKeys :
            \/ chain' = chain
            \/ chain' = chain \cup accounts
            \/ chain' = chain \cup NewMarketAccounts \cup accounts
    BY OthersCreate
  <1>3. TypeOK'
    BY <1>1, <1>2 DEF Inv, TypeOK
  <1>4. Whole'
    BY <1>2, WholeMarket DEF Inv
  <1>5. /\ chain \subseteq chain'
        /\ (AssetKeys \cup AccountsOfMinter \cup AccountsOfExerciser \cup SpareKeys) \cap chain'
              \subseteq chain
    BY <1>2, FeeKeysApart, KeysApart
  <1>6. Fresh'
    BY <1>1, <1>5, KeysApart DEF Inv, Placed, Fresh
  <1>7. There' /\ LookedUp' /\ Minted'
    BY <1>1, <1>5 DEF Inv, Placed, There, LookedUp, Found, Minted
  <1>8. Reason => Reason'
    BY <1>1, <1>5 DEF Reason, Overtaken, EmptyContract, WrongFeeAccount
  <1> QED
    BY <1>1, <1>3, <1>4, <1>6, <1>7, <1>8 DEF Inv, Placed, SetupRefusedForAReason

\* The invariant holds in every state of a setup.
THEOREM SetupInvariance == Spec => []Inv
  <1>1. Inv /\ [Next]_vars => Inv'
    <2> SUFFICES ASSUME Inv, [Next]_vars
                 PROVE  Inv'
      OBVIOUS
    <2>1. CASE Script
      BY <2>1, ScriptKeeps
    <2>2. CASE OthersStep
      BY <2>2, OthersKeep
    <2>3. CASE UNCHANGED vars
      <3>1. /\ UNCHANGED <<perContract, quoteAmount, feeKey, chain, lamports, funded>>
            /\ UNCHANGED <<pc, stoppedAt, missing, fault, expired, blocked>>
        BY <2>3 DEF vars, asked, ledger, client
      <3>2. TypeOK' /\ Whole' /\ Placed'
        BY <3>1 DEF Inv, TypeOK, Whole, Placed, Fresh, There, LookedUp, Found, Minted
      <3>3. Reason => Reason'
        BY <3>1 DEF Reason, Overtaken, EmptyContract, WrongFeeAccount
      <3> QED
        BY <3>1, <3>2, <3>3 DEF Inv, SetupRefusedForAReason
    <2> QED
      BY <2>1, <2>2, <2>3 DEF Next, OthersStep
  <1> QED
    BY <1>1, InitInv, PTL DEF Spec

\* The variables of a setup keep their types.
THEOREM SetupTypes == Spec => []TypeOK
  <1>1. Inv => TypeOK
    BY DEF Inv
  <1> QED
    BY <1>1, SetupInvariance, PTL

\* A setup that was refused, and lost nothing, was refused at the creation of its
\* market, for a reason that is there to see: an empty contract, a wrong fee
\* account, a past expiration, a blocked build, or somebody who came first.
THEOREM SetupRefusals == Spec => []SetupRefusedForAReason
  <1>1. Inv => SetupRefusedForAReason
    BY DEF Inv
  <1> QED
    BY <1>1, SetupInvariance, PTL

\* A setup that returned has its market, its fee accounts and its tokens.
THEOREM ReturnedComplete == Spec => []ReturnedIsComplete
  <1>1. Inv => ReturnedIsComplete
    BY DEF Inv, Placed, There, LookedUp, Minted, ReturnedIsComplete,
           ToExerciser, ToMinter, ToMarket
  <1> QED
    BY <1>1, SetupInvariance, PTL
=============================================================================

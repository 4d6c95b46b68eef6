-------------------------- MODULE PsyAmericanProofs --------------------------
(***************************************************************************)
(* Theorems about psy_american for any number of users, markets and        *)
(* assets, any terms, and any width of the integers.                       *)
(*                                                                         *)
(* Every instruction is first summarised by what it does to the pools and  *)
(* supplies of the markets (PoolEffect); coverage is then proved from the  *)
(* summaries, with no token operation in sight.  That every writer can     *)
(* exit also takes an upper bound on what an account can hold: that comes  *)
(* from counting tokens, which no instruction creates or destroys except   *)
(* where it changes a supply.                                              *)
(***************************************************************************)
EXTENDS PsyAmerican, ArithmeticLemmas, TLAPS

-----------------------------------------------------------------------------
(* What an operation on tokens does to a ledger *)

Ledgers(accounts, mints) == [balance : [accounts -> U64], supply : [mints -> U64]]

\* What is known of a ledger l2 that an operation made of ledger l.
TransferMade(l, l2, accounts, mints, authority, from, to, amount) ==
    /\ l2 \in Ledgers(accounts, mints)
    /\ l2.supply = l.supply
    /\ OwnerOf(from) = authority
    /\ from # to => l2.balance[to] = l.balance[to] + amount
    /\ \A a \in accounts :
          /\ l2.balance[a] >= l.balance[a] - amount
          /\ a # from => l2.balance[a] >= l.balance[a]

MintingMade(l, l2, accounts, mints, mint, amount) ==
    /\ l2 \in Ledgers(accounts, mints)
    /\ mint \in mints
    /\ l2.supply = [l.supply EXCEPT ![mint] = @ + amount]
    /\ \A a \in accounts : l2.balance[a] >= l.balance[a]

BurningMade(l, l2, accounts, mints, mint, amount) ==
    /\ l2 \in Ledgers(accounts, mints)
    /\ mint \in mints
    /\ amount <= l.supply[mint]
    /\ l2.supply = [l.supply EXCEPT ![mint] = @ - amount]
    /\ \A a \in accounts : MintOf(a) # mint => l2.balance[a] = l.balance[a]

\* A transfer leaves supplies alone, takes at most the amount, and only from
\* an account of the authority.
LEMMA TransferEffect ==
    ASSUME NEW accounts, NEW mints,
           NEW L, L \subseteq Ledgers(accounts, mints), NEW authority, NEW from, NEW to,
           NEW amount \in Nat,
           NEW l2 \in Transfer(L, authority, from, to, amount)
    PROVE  \E l \in L : TransferMade(l, l2, accounts, mints, authority, from, to, amount)
  <1> USE MaxU64Assumption DEF U64
  <1>1. PICK l \in L :
            /\ {from, to} \subseteq DOMAIN l.balance
            /\ OwnerOf(from) = authority
            /\ MintOf(from) = MintOf(to)
            /\ amount <= l.balance[from]
            /\ from # to => l.balance[to] + amount \in U64
            /\ l2 = [ balance |-> [l.balance EXCEPT ![from] = @ - amount, ![to] = @ + amount],
                     supply |-> l.supply ]
    BY DEF Transfer
  <1>2. l \in Ledgers(accounts, mints)
    OBVIOUS
  <1>3. from \in accounts /\ to \in accounts
    BY <1>1, <1>2 DEF Ledgers
  <1> DEFINE b == [[l.balance EXCEPT ![from] = @ - amount] EXCEPT ![to] = @ + amount]
  <1>4. l2.balance = b /\ l2.supply = l.supply
    BY <1>1, <1>2 DEF Ledgers
  <1>5. b \in [accounts -> U64]
    BY <1>1, <1>2, <1>3 DEF Ledgers
  <1>6. l2 \in Ledgers(accounts, mints)
    BY <1>1, <1>2, <1>4, <1>5 DEF Ledgers
  <1>7. \A a \in accounts :
            /\ b[a] >= l.balance[a] - amount
            /\ a # from => b[a] >= l.balance[a]
    BY <1>1, <1>2, <1>3 DEF Ledgers
  <1>8. from # to => b[to] = l.balance[to] + amount
    BY <1>1, <1>2, <1>3 DEF Ledgers
  <1> QED
    BY <1>1, <1>3, <1>4, <1>6, <1>7, <1>8 DEF TransferMade

\* Minting raises the supply of the mint and touches no pool.
LEMMA MintToEffect ==
    ASSUME NEW accounts, NEW mints,
           NEW L, L \subseteq Ledgers(accounts, mints), NEW authority, NEW mint, NEW to,
           NEW amount \in Nat,
           NEW l2 \in MintTo(L, authority, mint, to, amount)
    PROVE  \E l \in L : MintingMade(l, l2, accounts, mints, mint, amount)
  <1> USE MaxU64Assumption DEF U64
  <1>1. PICK l \in L :
            /\ to \in DOMAIN l.balance
            /\ mint \in DOMAIN l.supply
            /\ l.balance[to] + amount \in U64
            /\ l.supply[mint] + amount \in U64
            /\ l2 = [ balance |-> [l.balance EXCEPT ![to] = @ + amount],
                     supply |-> [l.supply EXCEPT ![mint] = @ + amount] ]
    BY DEF MintTo
  <1>2. l \in Ledgers(accounts, mints) /\ to \in accounts /\ mint \in mints
    BY <1>1 DEF Ledgers
  <1>3. /\ l2.balance = [l.balance EXCEPT ![to] = @ + amount]
        /\ l2.supply = [l.supply EXCEPT ![mint] = @ + amount]
        /\ l2 = [balance |-> l2.balance, supply |-> l2.supply]
    BY <1>1, <1>2 DEF Ledgers
  <1>4. l2 \in Ledgers(accounts, mints)
    BY <1>1, <1>2, <1>3 DEF Ledgers
  <1>5. \A a \in accounts : l2.balance[a] >= l.balance[a]
    BY <1>2, <1>3 DEF Ledgers
  <1> QED
    BY <1>2, <1>3, <1>4, <1>5 DEF MintingMade

\* Burning lowers the supply of the mint, which covers the amount, and touches
\* no account of another mint.
LEMMA BurnEffect ==
    ASSUME NEW accounts, NEW mints,
           NEW L, L \subseteq Ledgers(accounts, mints), NEW authority, NEW mint,
           NEW amount \in Nat,
           NEW l2 \in Burn(L, authority, mint, amount)
    PROVE  \E l \in L : BurningMade(l, l2, accounts, mints, mint, amount)
  <1> USE MaxU64Assumption DEF U64
  <1> DEFINE from == <<authority, mint>>
  <1>1. PICK l \in L :
            /\ from \in DOMAIN l.balance
            /\ mint \in DOMAIN l.supply
            /\ amount <= l.balance[from]
            /\ amount <= l.supply[mint]
            /\ l2 = [ balance |-> [l.balance EXCEPT ![from] = @ - amount],
                     supply |-> [l.supply EXCEPT ![mint] = @ - amount] ]
    BY DEF Burn
  <1>2. l \in Ledgers(accounts, mints) /\ from \in accounts /\ mint \in mints /\ MintOf(from) = mint
    BY <1>1 DEF Ledgers, MintOf
  <1> HIDE DEF from
  <1>3. /\ l2.balance = [l.balance EXCEPT ![from] = @ - amount]
        /\ l2.supply = [l.supply EXCEPT ![mint] = @ - amount]
        /\ l2 = [balance |-> l2.balance, supply |-> l2.supply]
    BY <1>1, <1>2 DEF Ledgers
  <1>4. l2 \in Ledgers(accounts, mints)
    BY <1>1, <1>2, <1>3 DEF Ledgers
  <1> QED
    BY <1>1, <1>2, <1>3, <1>4 DEF Ledgers, BurningMade

-----------------------------------------------------------------------------
(* Supplies *)

\* Ledgers whose supplies are what the accounts of the mint hold together: of
\* the mints by the ledger's own record, of the assets in a u64.
CountedLedgers(accounts, mints, assets) ==
    { l \in Ledgers(accounts, mints) :
        /\ \A t \in mints \cup assets : IsFiniteSet(TokensOf(l.balance, t))
        /\ \A t \in mints : Cardinality(TokensOf(l.balance, t)) = l.supply[t]
        /\ \A t \in assets : Cardinality(TokensOf(l.balance, t)) \in U64 }

\* The tokens of a mint are those of its accounts.
LEMMA TokensAreUnits ==
    ASSUME NEW accounts, NEW balance \in [accounts -> U64], NEW mint
    PROVE  TokensOf(balance, mint) = Units(balance, {x \in accounts : MintOf(x) = mint})
  BY DEF TokensOf, Units

\* n tokens more in one account are n more of its mint, and no more of others.
LEMMA TokensAdded ==
    ASSUME NEW accounts, NEW b \in [accounts -> U64], NEW x \in accounts, NEW n \in Nat,
           NEW b2 \in [accounts -> U64], b2[x] = b[x] + n,
           \A a \in accounts : a # x => b2[a] = b[a],
           NEW mint, IsFiniteSet(TokensOf(b, mint))
    PROVE  /\ IsFiniteSet(TokensOf(b2, mint))
           /\ Cardinality(TokensOf(b2, mint))
                 = Cardinality(TokensOf(b, mint)) + (IF MintOf(x) = mint THEN n ELSE 0)
  <1> DEFINE S == {a \in accounts : MintOf(a) = mint}
  <1>1. \A a \in S : b[a] \in Nat
    BY MaxU64Assumption DEF U64
  <1>2. TokensOf(b, mint) = Units(b, S) /\ TokensOf(b2, mint) = Units(b2, S)
    BY TokensAreUnits
  <1>3. CASE MintOf(x) = mint
    <2>1. x \in S
      BY <1>3
    <2> HIDE DEF S
    <2>2. \A a \in S : a # x => b2[a] = b[a]
      BY DEF S
    <2>3. /\ IsFiniteSet(Units(b2, S))
          /\ Cardinality(Units(b2, S)) = Cardinality(Units(b, S)) + n
      BY <1>1, <1>2, <2>1, <2>2, UnitsAdded
    <2> QED
      BY <1>2, <1>3, <2>3
  <1>4. CASE MintOf(x) # mint
    <2>1. \A a \in S : b2[a] = b[a]
      BY <1>4
    <2>2. TokensOf(b2, mint) = TokensOf(b, mint)
      BY <1>2, <2>1, SameUnits
    <2>3. Cardinality(TokensOf(b, mint)) \in Nat
      BY FS_CardinalityType
    <2> QED
      BY <1>4, <2>2, <2>3
  <1> QED
    BY <1>3, <1>4

\* n tokens less are n less of that mint.
LEMMA TokensRemoved ==
    ASSUME NEW accounts, NEW b \in [accounts -> U64], NEW x \in accounts, NEW n \in Nat,
           NEW b2 \in [accounts -> U64], b[x] = b2[x] + n,
           \A a \in accounts : a # x => b2[a] = b[a],
           NEW mint, IsFiniteSet(TokensOf(b, mint))
    PROVE  /\ IsFiniteSet(TokensOf(b2, mint))
           /\ Cardinality(TokensOf(b2, mint))
                 = Cardinality(TokensOf(b, mint)) - (IF MintOf(x) = mint THEN n ELSE 0)
  <1> DEFINE S == {a \in accounts : MintOf(a) = mint}
  <1>1. \A a \in S : b2[a] \in Nat
    BY MaxU64Assumption DEF U64
  <1>2. TokensOf(b, mint) = Units(b, S) /\ TokensOf(b2, mint) = Units(b2, S)
    BY TokensAreUnits
  <1>3. CASE MintOf(x) = mint
    <2>1. x \in S
      BY <1>3
    <2> HIDE DEF S
    <2>2. \A a \in S : a # x => b2[a] = b[a]
      BY DEF S
    <2>3. /\ IsFiniteSet(Units(b2, S))
          /\ Cardinality(Units(b2, S)) = Cardinality(Units(b, S)) - n
      BY <1>1, <1>2, <2>1, <2>2, UnitsRemoved
    <2> QED
      BY <1>2, <1>3, <2>3
  <1>4. CASE MintOf(x) # mint
    <2>1. \A a \in S : b2[a] = b[a]
      BY <1>4
    <2>2. TokensOf(b2, mint) = TokensOf(b, mint)
      BY <1>2, <2>1, SameUnits
    <2>3. Cardinality(TokensOf(b, mint)) \in Nat
      BY FS_CardinalityType
    <2> QED
      BY <1>4, <2>2, <2>3
  <1> QED
    BY <1>3, <1>4

\* A transfer creates and destroys nothing.
LEMMA TransferKeepsCount ==
    ASSUME NEW accounts, NEW mints, NEW assets,
           NEW L, L \subseteq CountedLedgers(accounts, mints, assets),
           NEW authority, NEW from, NEW to, NEW amount \in Nat
    PROVE  Transfer(L, authority, from, to, amount) \subseteq CountedLedgers(accounts, mints, assets)
  <1> SUFFICES ASSUME NEW l2 \in Transfer(L, authority, from, to, amount)
               PROVE  l2 \in CountedLedgers(accounts, mints, assets)
    OBVIOUS
  <1>1. PICK l \in L :
            /\ {from, to} \subseteq DOMAIN l.balance
            /\ MintOf(from) = MintOf(to)
            /\ amount <= l.balance[from]
            /\ from # to => l.balance[to] + amount \in U64
            /\ l2 = [ balance |-> [l.balance EXCEPT ![from] = @ - amount, ![to] = @ + amount],
                     supply |-> l.supply ]
    BY DEF Transfer
  <1>2. l \in CountedLedgers(accounts, mints, assets) /\ l \in Ledgers(accounts, mints)
    BY DEF CountedLedgers
  <1>3. /\ l.balance \in [accounts -> U64] /\ l.supply \in [mints -> U64]
        /\ from \in accounts /\ to \in accounts
    BY <1>1, <1>2 DEF Ledgers
  <1> DEFINE b1 == [l.balance EXCEPT ![from] = @ - amount]
             b2 == [b1 EXCEPT ![to] = @ + amount]
  <1>4. b1 \in [accounts -> U64]
    BY <1>1, <1>3, MaxU64Assumption DEF U64
  <1>5. b1[to] + amount \in U64
    BY <1>1, <1>3, MaxU64Assumption DEF U64
  <1>6. b2 \in [accounts -> U64]
    BY <1>3, <1>4, <1>5
  <1>7. l2.balance = b2 /\ l2.supply = l.supply
    BY <1>1
  <1>8. /\ l.balance[from] = b1[from] + amount
        /\ \A a \in accounts : a # from => b1[a] = l.balance[a]
    BY <1>1, <1>3, MaxU64Assumption DEF U64
  <1>9. /\ b2[to] = b1[to] + amount
        /\ \A a \in accounts : a # to => b2[a] = b1[a]
    BY <1>3, <1>4, MaxU64Assumption DEF U64
  <1> HIDE DEF b1, b2
  <1>10. l2 \in Ledgers(accounts, mints)
    BY <1>1, <1>3, <1>6, <1>7 DEF Ledgers
  <1>11. ASSUME NEW t \in mints \cup assets
         PROVE  /\ IsFiniteSet(TokensOf(l2.balance, t))
                /\ Cardinality(TokensOf(l2.balance, t)) = Cardinality(TokensOf(l.balance, t))
    <2>1. IsFiniteSet(TokensOf(l.balance, t))
      BY <1>2 DEF CountedLedgers
    <2>2. /\ IsFiniteSet(TokensOf(b1, t))
          /\ Cardinality(TokensOf(b1, t))
                = Cardinality(TokensOf(l.balance, t)) - (IF MintOf(from) = t THEN amount ELSE 0)
      BY <1>3, <1>4, <1>8, <2>1, TokensRemoved
    <2>3. /\ IsFiniteSet(TokensOf(b2, t))
          /\ Cardinality(TokensOf(b2, t))
                = Cardinality(TokensOf(b1, t)) + (IF MintOf(to) = t THEN amount ELSE 0)
      BY <1>3, <1>4, <1>6, <1>9, <2>2, TokensAdded
    <2>4. Cardinality(TokensOf(l.balance, t)) \in Nat
      BY <2>1, FS_CardinalityType
    <2> QED
      BY <1>1, <1>7, <2>2, <2>3, <2>4
  <1> QED
    BY <1>2, <1>7, <1>10, <1>11 DEF CountedLedgers

\* Minting counts what it creates.
LEMMA MintToKeepsCount ==
    ASSUME NEW accounts, NEW mints, NEW assets, mints \cap assets = {},
           NEW L, L \subseteq CountedLedgers(accounts, mints, assets),
           NEW authority, NEW mint, NEW to, NEW amount \in Nat
    PROVE  MintTo(L, authority, mint, to, amount) \subseteq CountedLedgers(accounts, mints, assets)
  <1> SUFFICES ASSUME NEW l2 \in MintTo(L, authority, mint, to, amount)
               PROVE  l2 \in CountedLedgers(accounts, mints, assets)
    OBVIOUS
  <1>1. PICK l \in L :
            /\ to \in DOMAIN l.balance
            /\ mint \in DOMAIN l.supply
            /\ MintOf(to) = mint
            /\ l.balance[to] + amount \in U64
            /\ l.supply[mint] + amount \in U64
            /\ l2 = [ balance |-> [l.balance EXCEPT ![to] = @ + amount],
                     supply |-> [l.supply EXCEPT ![mint] = @ + amount] ]
    BY DEF MintTo
  <1>2. l \in CountedLedgers(accounts, mints, assets) /\ l \in Ledgers(accounts, mints)
    BY DEF CountedLedgers
  <1>3. /\ l.balance \in [accounts -> U64] /\ l.supply \in [mints -> U64]
        /\ to \in accounts /\ mint \in mints
    BY <1>1, <1>2 DEF Ledgers
  <1> DEFINE b2 == [l.balance EXCEPT ![to] = @ + amount]
             s2 == [l.supply EXCEPT ![mint] = @ + amount]
  <1>4. b2 \in [accounts -> U64] /\ s2 \in [mints -> U64]
    BY <1>1, <1>3
  <1>5. l2 = [balance |-> b2, supply |-> s2] /\ l2.balance = b2 /\ l2.supply = s2
    BY <1>1
  <1>6. l2 \in Ledgers(accounts, mints)
    BY <1>4, <1>5 DEF Ledgers
  <1>7. /\ b2[to] = l.balance[to] + amount
        /\ \A a \in accounts : a # to => b2[a] = l.balance[a]
    BY <1>1, <1>3, MaxU64Assumption DEF U64
  <1>8. \A t \in mints : s2[t] = l.supply[t] + (IF mint = t THEN amount ELSE 0)
    BY <1>1, <1>3, MaxU64Assumption DEF U64
  <1> HIDE DEF b2, s2
  <1>9. ASSUME NEW t \in mints \cup assets
        PROVE  /\ IsFiniteSet(TokensOf(l2.balance, t))
               /\ Cardinality(TokensOf(l2.balance, t))
                     = Cardinality(TokensOf(l.balance, t)) + (IF mint = t THEN amount ELSE 0)
    <2>1. IsFiniteSet(TokensOf(l.balance, t))
      BY <1>2 DEF CountedLedgers
    <2>2. /\ IsFiniteSet(TokensOf(b2, t))
          /\ Cardinality(TokensOf(b2, t))
                = Cardinality(TokensOf(l.balance, t)) + (IF MintOf(to) = t THEN amount ELSE 0)
      BY <1>3, <1>4, <1>7, <2>1, TokensAdded
    <2> QED
      BY <1>1, <1>5, <2>2
  <1>10. ASSUME NEW t \in mints
        PROVE  Cardinality(TokensOf(l2.balance, t)) = l2.supply[t]
    <2>1. Cardinality(TokensOf(l.balance, t)) = l.supply[t] /\ l.supply[t] \in Nat
      BY <1>2, <1>3, MaxU64Assumption DEF CountedLedgers, U64
    <2>2. l2.supply[t] = l.supply[t] + (IF mint = t THEN amount ELSE 0)
      BY <1>5, <1>8
    <2> QED
      BY <1>9, <2>1, <2>2
  <1>11. ASSUME NEW t \in assets
        PROVE  Cardinality(TokensOf(l2.balance, t)) \in U64
    <2>1. Cardinality(TokensOf(l.balance, t)) \in U64 /\ t # mint
      BY <1>2, <1>3 DEF CountedLedgers
    <2> QED
      BY <1>9, <2>1, MaxU64Assumption DEF U64
  <1> QED
    BY <1>6, <1>9, <1>10, <1>11 DEF CountedLedgers

\* And burning what it destroys.
LEMMA BurnKeepsCount ==
    ASSUME NEW accounts, NEW mints, NEW assets, mints \cap assets = {},
           NEW L, L \subseteq CountedLedgers(accounts, mints, assets),
           NEW authority, NEW mint, NEW amount \in Nat
    PROVE  Burn(L, authority, mint, amount) \subseteq CountedLedgers(accounts, mints, assets)
  <1> SUFFICES ASSUME NEW l2 \in Burn(L, authority, mint, amount)
               PROVE  l2 \in CountedLedgers(accounts, mints, assets)
    OBVIOUS
  <1> DEFINE from == <<authority, mint>>
  <1>1. PICK l \in L :
            /\ from \in DOMAIN l.balance
            /\ mint \in DOMAIN l.supply
            /\ amount <= l.balance[from]
            /\ amount <= l.supply[mint]
            /\ l2 = [ balance |-> [l.balance EXCEPT ![from] = @ - amount],
                     supply |-> [l.supply EXCEPT ![mint] = @ - amount] ]
    BY DEF Burn
  <1>2. l \in CountedLedgers(accounts, mints, assets) /\ l \in Ledgers(accounts, mints)
    BY DEF CountedLedgers
  <1>3. /\ l.balance \in [accounts -> U64] /\ l.supply \in [mints -> U64]
        /\ from \in accounts /\ mint \in mints /\ MintOf(from) = mint
    BY <1>1, <1>2 DEF Ledgers, MintOf
  <1> HIDE DEF from
  <1> DEFINE b2 == [l.balance EXCEPT ![from] = @ - amount]
             s2 == [l.supply EXCEPT ![mint] = @ - amount]
  <1>4. b2 \in [accounts -> U64] /\ s2 \in [mints -> U64]
    BY <1>1, <1>3, MaxU64Assumption DEF U64
  <1>5. l2 = [balance |-> b2, supply |-> s2] /\ l2.balance = b2 /\ l2.supply = s2
    BY <1>1
  <1>6. l2 \in Ledgers(accounts, mints)
    BY <1>4, <1>5 DEF Ledgers
  <1>7. /\ l.balance[from] = b2[from] + amount
        /\ \A a \in accounts : a # from => b2[a] = l.balance[a]
    BY <1>1, <1>3, MaxU64Assumption DEF U64
  <1>8. \A t \in mints : s2[t] = l.supply[t] - (IF mint = t THEN amount ELSE 0)
    BY <1>1, <1>3, MaxU64Assumption DEF U64
  <1> HIDE DEF b2, s2
  <1>9. ASSUME NEW t \in mints \cup assets
        PROVE  /\ IsFiniteSet(TokensOf(l2.balance, t))
               /\ Cardinality(TokensOf(l2.balance, t))
                     = Cardinality(TokensOf(l.balance, t)) - (IF mint = t THEN amount ELSE 0)
    <2>1. IsFiniteSet(TokensOf(l.balance, t))
      BY <1>2 DEF CountedLedgers
    <2>2. /\ IsFiniteSet(TokensOf(b2, t))
          /\ Cardinality(TokensOf(b2, t))
                = Cardinality(TokensOf(l.balance, t)) - (IF MintOf(from) = t THEN amount ELSE 0)
      BY <1>3, <1>4, <1>7, <2>1, TokensRemoved
    <2> QED
      BY <1>3, <1>5, <2>2
  <1>10. ASSUME NEW t \in mints
        PROVE  Cardinality(TokensOf(l2.balance, t)) = l2.supply[t]
    <2>1. Cardinality(TokensOf(l.balance, t)) = l.supply[t] /\ l.supply[t] \in Nat
      BY <1>2, <1>3, MaxU64Assumption DEF CountedLedgers, U64
    <2>2. l2.supply[t] = l.supply[t] - (IF mint = t THEN amount ELSE 0)
      BY <1>5, <1>8
    <2> QED
      BY <1>9, <2>1, <2>2
  <1>11. ASSUME NEW t \in assets
        PROVE  Cardinality(TokensOf(l2.balance, t)) \in U64
    <2>1. Cardinality(TokensOf(l.balance, t)) \in U64 /\ t # mint
      BY <1>2, <1>3 DEF CountedLedgers
    <2> QED
      BY <1>9, <2>1, MaxU64Assumption DEF U64
  <1> QED
    BY <1>6, <1>9, <1>10, <1>11 DEF CountedLedgers

-----------------------------------------------------------------------------
(* What an instruction does to the pools and supplies of the markets *)

ProgramLedgers == Ledgers(Accounts, ProgramMints)

\* From ledger l to l2, market m's pools gain at least the given numbers of
\* tokens (lose at most, if negative), its supplies change by exactly those
\* given, and no other market loses anything.
PoolEffect(l, l2, m, underlying, quote, options, writers) ==
    /\ l2 \in ProgramLedgers
    /\ \A k \in Markets :
         /\ l2.balance[UnderlyingAssetPool(k)]
               >= l.balance[UnderlyingAssetPool(k)] + (IF k = m THEN underlying ELSE 0)
         /\ l2.balance[QuoteAssetPool(k)]
               >= l.balance[QuoteAssetPool(k)] + (IF k = m THEN quote ELSE 0)
         /\ l2.supply[OptionMint(k)]
               = l.supply[OptionMint(k)] + (IF k = m THEN options ELSE 0)
         /\ l2.supply[WriterTokenMint(k)]
               = l.supply[WriterTokenMint(k)] + (IF k = m THEN writers ELSE 0)

-----------------------------------------------------------------------------
(* Accounts and mints of a market *)

\* The names of pools and mints: each belongs to its market alone, no pool
\* holds program tokens, and the two pools differ when the assets do.
LEMMA MarketAccounts ==
    ASSUME NEW m \in Markets
    PROVE  /\ UnderlyingAssetPool(m) \in Accounts
           /\ QuoteAssetPool(m) \in Accounts
           /\ OwnerOf(UnderlyingAssetPool(m)) = m
           /\ OwnerOf(QuoteAssetPool(m)) = m
           /\ MintOf(UnderlyingAssetPool(m)) = Terms[m].underlying_asset_mint
           /\ MintOf(QuoteAssetPool(m)) = Terms[m].quote_asset_mint
           /\ MintOf(UnderlyingAssetPool(m)) \notin ProgramMints
           /\ MintOf(QuoteAssetPool(m)) \notin ProgramMints
           /\ OptionMint(m) \in ProgramMints
           /\ WriterTokenMint(m) \in ProgramMints
           /\ Terms[m].underlying_amount_per_contract \in U64
           /\ Terms[m].quote_amount_per_contract \in U64
           /\ Terms[m].expiration_unix_timestamp \in Int
           /\ Terms[m].underlying_asset_mint # Terms[m].quote_asset_mint
                 => UnderlyingAssetPool(m) # QuoteAssetPool(m)
  <1>1. Terms[m] \in MarketTerms
    BY TermsAssumption
  <1>2. /\ Terms[m].underlying_asset_mint \in Assets
        /\ Terms[m].quote_asset_mint \in Assets
        /\ Terms[m].underlying_amount_per_contract \in U64
        /\ Terms[m].quote_amount_per_contract \in U64
        /\ Terms[m].expiration_unix_timestamp \in Int
    BY <1>1 DEF MarketTerms
  <1>3. \A asset \in Assets : <<m, asset>> \in Accounts /\ asset \notin ProgramMints
    BY PartiesAssumption DEF Accounts
  <1>4. OptionMint(m) \in ProgramMints /\ WriterTokenMint(m) \in ProgramMints
    BY DEF ProgramMints, OptionTokens, WriterTokens
  <1> QED
    BY <1>2, <1>3, <1>4 DEF UnderlyingAssetPool, QuoteAssetPool, OwnerOf, MintOf

\* The mints of two markets, and the two mints of one, are different.
LEMMA MintsDiffer ==
    ASSUME NEW m \in Markets, NEW k \in Markets
    PROVE  /\ OptionMint(m) # WriterTokenMint(k)
           /\ m # k => OptionMint(m) # OptionMint(k)
           /\ m # k => WriterTokenMint(m) # WriterTokenMint(k)
  BY DEF OptionMint, WriterTokenMint

-----------------------------------------------------------------------------
(* Token movements as seen from the pools *)

\* checked_mul returns the product itself.
LEMMA CheckedMulValue ==
    ASSUME NEW a, NEW b, NEW total \in CheckedMul(a, b)
    PROVE  total = a * b /\ total \in Nat
  BY MaxU64Assumption DEF CheckedMul, U64

\* What is known of a ledger l2 that a payment into an account, a payout from a
\* pool, a minting or a burning made of ledger l.
Payment(l, l2, to, amount) ==
    /\ l2 \in ProgramLedgers
    /\ l2.supply = l.supply
    /\ \A a \in Accounts : OwnerOf(a) \in Markets => l2.balance[a] >= l.balance[a]
    /\ OwnerOf(to) \in Markets => l2.balance[to] = l.balance[to] + amount

Payout(l, l2, pool, amount) ==
    /\ l2 \in ProgramLedgers
    /\ l2.supply = l.supply
    /\ \A a \in Accounts :
          /\ l2.balance[a] >= l.balance[a] - amount
          /\ a # pool => l2.balance[a] >= l.balance[a]

SupplyChange(l, l2, mint, amount) ==
    /\ l2 \in ProgramLedgers
    /\ mint \in ProgramMints
    /\ l.supply[mint] + amount >= 0
    /\ l2.supply = [l.supply EXCEPT ![mint] = @ + amount]
    /\ \A a \in Accounts : MintOf(a) \notin ProgramMints => l2.balance[a] >= l.balance[a]

\* A payment signed by somebody who is no market takes from no pool.
LEMMA PaymentEffect ==
    ASSUME NEW L, L \subseteq ProgramLedgers, NEW user, user \notin Markets,
           NEW from, NEW to, NEW perContract, NEW size,
           NEW l2 \in TransferTotal(L, user, from, to, perContract, size)
    PROVE  \E l \in L : Payment(l, l2, to, perContract * size)
  <1>1. PICK total \in CheckedMul(perContract, size) : l2 \in Transfer(L, user, from, to, total)
    BY DEF TransferTotal
  <1>2. total = perContract * size /\ total \in Nat
    BY <1>1, CheckedMulValue
  <1>3. L \subseteq Ledgers(Accounts, ProgramMints)
    BY DEF ProgramLedgers
  <1>4. PICK l \in L : TransferMade(l, l2, Accounts, ProgramMints, user, from, to, total)
    BY <1>1, <1>2, <1>3, TransferEffect
  <1> QED
    BY <1>2, <1>4 DEF TransferMade, ProgramLedgers, Payment

\* A payout signed by a market takes from the pool it names alone.
LEMMA PayoutEffect ==
    ASSUME NEW L, L \subseteq ProgramLedgers, NEW m \in Markets, NEW pool, NEW to,
           NEW perContract, NEW size,
           NEW l2 \in TransferTotal(L, m, pool, to, perContract, size)
    PROVE  \E l \in L : Payout(l, l2, pool, perContract * size)
  <1>1. PICK total \in CheckedMul(perContract, size) : l2 \in Transfer(L, m, pool, to, total)
    BY DEF TransferTotal
  <1>2. total = perContract * size /\ total \in Nat
    BY <1>1, CheckedMulValue
  <1>3. L \subseteq Ledgers(Accounts, ProgramMints)
    BY DEF ProgramLedgers
  <1>4. PICK l \in L : TransferMade(l, l2, Accounts, ProgramMints, m, pool, to, total)
    BY <1>1, <1>2, <1>3, TransferEffect
  <1> QED
    BY <1>2, <1>4 DEF TransferMade, ProgramLedgers, Payout

\* Lamports or tokens, a fee touches no pool and no supply.
LEMMA FeeEffect ==
    ASSUME NEW L, L \subseteq ProgramLedgers, NEW user \in Users, NEW asset,
           NEW quantity, NEW size,
           NEW l2 \in PayFee(L, user, asset, quantity, size)
    PROVE  \E l \in L : \E to, amount : Payment(l, l2, to, amount)
  <1>1. user \notin Markets
    BY PartiesAssumption
  <1>2. PICK from, to, perContract : l2 \in TransferTotal(L, user, from, to, perContract, size)
    BY DEF PayFee
  <1> QED
    BY <1>1, <1>2, PaymentEffect

\* Minting and burning change the supply of their mint and take from no pool.
LEMMA MintingEffect ==
    ASSUME NEW L, L \subseteq ProgramLedgers, NEW m, NEW mint, NEW to, NEW size \in U64,
           NEW l2 \in MintTo(L, m, mint, to, size)
    PROVE  \E l \in L : SupplyChange(l, l2, mint, size)
  <1>1. L \subseteq Ledgers(Accounts, ProgramMints) /\ size \in Nat
    BY MaxU64Assumption DEF ProgramLedgers, U64
  <1>2. PICK l \in L : MintingMade(l, l2, Accounts, ProgramMints, mint, size)
    BY <1>1, MintToEffect
  <1>3. mint \in ProgramMints /\ l.supply[mint] \in Nat
    BY <1>1, <1>2, MaxU64Assumption DEF MintingMade, Ledgers, U64
  <1>4. l.supply[mint] + size >= 0
    BY <1>1, <1>3
  <1>5. SupplyChange(l, l2, mint, size)
    BY <1>2, <1>3, <1>4 DEF MintingMade, ProgramLedgers, SupplyChange
  <1> QED
    BY <1>5

\* A burn of program tokens moves one supply, and no pool.
LEMMA BurningEffect ==
    ASSUME NEW L, L \subseteq ProgramLedgers, NEW authority, NEW mint, NEW size \in U64,
           NEW l2 \in Burn(L, authority, mint, size)
    PROVE  \E l \in L : SupplyChange(l, l2, mint, -size)
  <1>1. L \subseteq Ledgers(Accounts, ProgramMints) /\ size \in Nat
    BY MaxU64Assumption DEF ProgramLedgers, U64
  <1>2. PICK l \in L : BurningMade(l, l2, Accounts, ProgramMints, mint, size)
    BY <1>1, BurnEffect
  <1>3. mint \in ProgramMints /\ l.supply \in [ProgramMints -> Nat] /\ l.balance \in [Accounts -> Nat]
    BY <1>1, <1>2, MaxU64Assumption DEF BurningMade, Ledgers, U64
  <1>4. [l.supply EXCEPT ![mint] = @ - size] = [l.supply EXCEPT ![mint] = @ + (-size)]
    BY <1>1, <1>3
  <1>5. \A a \in Accounts : MintOf(a) \notin ProgramMints => l2.balance[a] >= l.balance[a]
    BY <1>2, <1>3 DEF BurningMade
  <1>6. l.supply[mint] + (-size) >= 0
    BY <1>1, <1>2, <1>3 DEF BurningMade
  <1>7. SupplyChange(l, l2, mint, -size)
    BY <1>2, <1>3, <1>4, <1>5, <1>6 DEF BurningMade, ProgramLedgers, SupplyChange
  <1> QED
    BY <1>7

-----------------------------------------------------------------------------
(* The instructions *)

\* Minting locks the underlying of every contract it issues.
LEMMA IssueEffect ==
    ASSUME NEW L, L \subseteq ProgramLedgers, NEW m \in Markets, NEW user \in Users,
           NEW size \in U64, NEW a \in MintAccounts(m), NEW optionDest, NEW writerDest,
           NEW l4 \in IssueContracts(L, m, user, size, a, optionDest, writerDest)
    PROVE  \E l \in L :
              PoolEffect(l, l4, m, Terms[m].underlying_amount_per_contract * size, 0, size, size)
  <1> DEFINE U == Terms[m].underlying_amount_per_contract
             locked == TransferTotal(L, user, <<user, MintOf(a.underlying_asset_pool)>>,
                                     a.underlying_asset_pool, U, size)
             optionsMinted == MintTo(locked, m, a.option_mint, optionDest, size)
  <1>1. /\ a.underlying_asset_pool = UnderlyingAssetPool(m)
        /\ a.option_mint = OptionMint(m)
        /\ a.writer_token_mint = WriterTokenMint(m)
    BY DEF MintAccounts
  <1>2. user \notin Markets
    BY PartiesAssumption
  <1>3. \A l2 \in locked : \E l \in L : Payment(l, l2, UnderlyingAssetPool(m), U * size)
    BY <1>1, <1>2, PaymentEffect
  <1>4. locked \subseteq ProgramLedgers
    BY <1>3 DEF Payment
  <1>5. \A l3 \in optionsMinted : \E l2 \in locked : SupplyChange(l2, l3, OptionMint(m), size)
    BY <1>1, <1>4, MintingEffect
  <1>6. optionsMinted \subseteq ProgramLedgers
    BY <1>5 DEF SupplyChange
  <1>7. PICK l3 \in optionsMinted : SupplyChange(l3, l4, WriterTokenMint(m), size)
    BY <1>1, <1>6, MintingEffect DEF IssueContracts
  <1>8. PICK l2 \in locked : SupplyChange(l2, l3, OptionMint(m), size)
    BY <1>5
  <1>9. PICK l \in L : Payment(l, l2, UnderlyingAssetPool(m), U * size)
    BY <1>3
  <1> HIDE DEF locked, optionsMinted
  <1>10. \A k \in Markets :
            /\ l4.supply[OptionMint(k)] = l.supply[OptionMint(k)] + (IF k = m THEN size ELSE 0)
            /\ l4.supply[WriterTokenMint(k)]
                  = l.supply[WriterTokenMint(k)] + (IF k = m THEN size ELSE 0)
    BY <1>7, <1>8, <1>9, MarketAccounts, MintsDiffer, MaxU64Assumption
       DEF SupplyChange, Payment, ProgramLedgers, Ledgers, U64
  <1>11. \A k \in Markets :
            /\ l4.balance[UnderlyingAssetPool(k)]
                  >= l.balance[UnderlyingAssetPool(k)] + (IF k = m THEN U * size ELSE 0)
            /\ l4.balance[QuoteAssetPool(k)]
                  >= l.balance[QuoteAssetPool(k)] + (IF k = m THEN 0 ELSE 0)
    <2> TAKE k \in Markets
    <2> QED
      BY <1>7, <1>8, <1>9, MarketAccounts, MaxU64Assumption
         DEF SupplyChange, Payment, ProgramLedgers, Ledgers, U64
  <1>12. PoolEffect(l, l4, m, U * size, 0, size, size)
    BY <1>7, <1>10, <1>11 DEF PoolEffect, SupplyChange
  <1> QED
    BY <1>12

\* Exercising burns the options, takes their underlying and leaves the strike.
LEMMA ExerciseEffect ==
    ASSUME ledger \in ProgramLedgers,
           NEW m \in Markets, Terms[m].underlying_asset_mint # Terms[m].quote_asset_mint,
           NEW user \in Users, NEW holder, NEW size \in U64, NEW a \in ExerciseAccounts(m),
           NEW l3 \in ExerciseContracts(m, user, holder, size, a)
    PROVE  PoolEffect(ledger, l3, m, -(Terms[m].underlying_amount_per_contract * size),
                      Terms[m].quote_amount_per_contract * size, -size, 0)
  <1> DEFINE U == Terms[m].underlying_amount_per_contract
             Q == Terms[m].quote_amount_per_contract
             burnt == Burn({ledger}, holder, a.option_mint, size)
             strikePaid == TransferTotal(burnt, user, <<user, MintOf(a.quote_asset_pool)>>,
                                         a.quote_asset_pool, Q, size)
  <1>1. /\ a.option_mint = OptionMint(m)
        /\ a.quote_asset_pool = QuoteAssetPool(m)
        /\ a.underlying_asset_pool = UnderlyingAssetPool(m)
    BY DEF ExerciseAccounts
  <1>2. user \notin Markets
    BY PartiesAssumption
  <1>3. \A l1 \in burnt : SupplyChange(ledger, l1, OptionMint(m), -size)
    BY <1>1, BurningEffect
  <1>4. burnt \subseteq ProgramLedgers
    BY <1>3 DEF SupplyChange
  <1>5. \A l2 \in strikePaid : \E l1 \in burnt : Payment(l1, l2, QuoteAssetPool(m), Q * size)
    BY <1>1, <1>2, <1>4, PaymentEffect
  <1>6. strikePaid \subseteq ProgramLedgers
    BY <1>5 DEF Payment
  <1>7. PICK l2 \in strikePaid : Payout(l2, l3, UnderlyingAssetPool(m), U * size)
    BY <1>1, <1>6, PayoutEffect DEF ExerciseContracts
  <1>8. PICK l1 \in burnt : Payment(l1, l2, QuoteAssetPool(m), Q * size)
    BY <1>5
  <1>9. SupplyChange(ledger, l1, OptionMint(m), -size)
    BY <1>3
  <1> HIDE DEF burnt, strikePaid
  <1>10. \A k \in Markets :
            /\ l3.supply[OptionMint(k)] = ledger.supply[OptionMint(k)] + (IF k = m THEN -size ELSE 0)
            /\ l3.supply[WriterTokenMint(k)]
                  = ledger.supply[WriterTokenMint(k)] + (IF k = m THEN 0 ELSE 0)
    BY <1>7, <1>8, <1>9, MarketAccounts, MintsDiffer, MaxU64Assumption
       DEF SupplyChange, Payment, Payout, ProgramLedgers, Ledgers, U64
  <1>11. \A k \in Markets :
            /\ l3.balance[UnderlyingAssetPool(k)]
                  >= ledger.balance[UnderlyingAssetPool(k)] + (IF k = m THEN -(U * size) ELSE 0)
            /\ l3.balance[QuoteAssetPool(k)]
                  >= ledger.balance[QuoteAssetPool(k)] + (IF k = m THEN Q * size ELSE 0)
    <2> TAKE k \in Markets
    <2>1. k = m => QuoteAssetPool(k) # UnderlyingAssetPool(m)
      BY MarketAccounts
    <2>2. k # m => /\ QuoteAssetPool(k) # UnderlyingAssetPool(m)
                   /\ UnderlyingAssetPool(k) # UnderlyingAssetPool(m)
      BY MarketAccounts
    <2> QED
      BY <1>7, <1>8, <1>9, <2>1, <2>2, MarketAccounts, MaxU64Assumption
         DEF SupplyChange, Payment, Payout, ProgramLedgers, Ledgers, U64
  <1>12. PoolEffect(ledger, l3, m, -(U * size), Q * size, -size, 0)
    BY <1>7, <1>10, <1>11 DEF PoolEffect, Payout
  <1> QED
    BY <1>12

\* Redeeming burns writer tokens and pays out of one pool of the market.
LEMMA RedeemEffect ==
    ASSUME ledger \in ProgramLedgers,
           NEW m \in Markets, Terms[m].underlying_asset_mint # Terms[m].quote_asset_mint,
           NEW user, NEW dest, NEW size \in U64, NEW perContract \in U64,
           NEW pool \in {UnderlyingAssetPool(m), QuoteAssetPool(m)},
           NEW l2 \in RedeemWriterTokens({ledger}, m, user, WriterTokenMint(m), pool, dest,
                                         perContract, size)
    PROVE  PoolEffect(ledger, l2, m,
                      IF pool = UnderlyingAssetPool(m) THEN -(perContract * size) ELSE 0,
                      IF pool = QuoteAssetPool(m) THEN -(perContract * size) ELSE 0,
                      0, -size)
  <1> DEFINE burnt == Burn({ledger}, user, WriterTokenMint(m), size)
             paid == perContract * size
  <1>1. \A l1 \in burnt : SupplyChange(ledger, l1, WriterTokenMint(m), -size)
    BY BurningEffect
  <1>2. burnt \subseteq ProgramLedgers
    BY <1>1 DEF SupplyChange
  <1>3. PICK l1 \in burnt : Payout(l1, l2, pool, paid)
    BY <1>2, PayoutEffect DEF RedeemWriterTokens
  <1>4. SupplyChange(ledger, l1, WriterTokenMint(m), -size)
    BY <1>1
  <1> HIDE DEF burnt
  <1>5. \A k \in Markets :
            /\ l2.supply[OptionMint(k)] = ledger.supply[OptionMint(k)] + (IF k = m THEN 0 ELSE 0)
            /\ l2.supply[WriterTokenMint(k)]
                  = ledger.supply[WriterTokenMint(k)] + (IF k = m THEN -size ELSE 0)
    BY <1>3, <1>4, MarketAccounts, MintsDiffer, MaxU64Assumption
       DEF SupplyChange, Payout, ProgramLedgers, Ledgers, U64
  <1>6. paid \in Int
    BY MaxU64Assumption DEF U64
  <1> HIDE DEF paid
  <1>7. \A k \in Markets, p \in Accounts :
            MintOf(p) \notin ProgramMints
            => l2.balance[p] >= ledger.balance[p] + (IF p = pool THEN -paid ELSE 0)
    BY <1>3, <1>4, <1>6, MaxU64Assumption
       DEF SupplyChange, Payout, ProgramLedgers, Ledgers, U64
  <1>8. \A k \in Markets :
            /\ l2.balance[UnderlyingAssetPool(k)]
                  >= ledger.balance[UnderlyingAssetPool(k)]
                        + (IF k = m THEN IF pool = UnderlyingAssetPool(m) THEN -paid ELSE 0 ELSE 0)
            /\ l2.balance[QuoteAssetPool(k)]
                  >= ledger.balance[QuoteAssetPool(k)]
                        + (IF k = m THEN IF pool = QuoteAssetPool(m) THEN -paid ELSE 0 ELSE 0)
    <2> TAKE k \in Markets
    <2>1. k # m => UnderlyingAssetPool(k) # pool /\ QuoteAssetPool(k) # pool
      BY MarketAccounts
    <2> QED
      BY <1>7, <2>1, MarketAccounts
  <1>9. PoolEffect(ledger, l2, m,
                   IF pool = UnderlyingAssetPool(m) THEN -paid ELSE 0,
                   IF pool = QuoteAssetPool(m) THEN -paid ELSE 0,
                   0, -size)
    BY <1>3, <1>5, <1>8 DEF PoolEffect, Payout
  <1> QED
    BY <1>9 DEF paid

-----------------------------------------------------------------------------
(* What a transaction amounts to, in contracts of one market *)

OfMarket(m, n) == m \in markets /\ n \in Nat /\ UNCHANGED <<markets, now, blocked>>

Issued(m, n) ==
    /\ OfMarket(m, n)
    /\ ~blocked
    /\ Alive(m)
    /\ PoolEffect(ledger, ledger', m, Terms[m].underlying_amount_per_contract * n, 0, n, n)

Exercised(m, n) ==
    /\ OfMarket(m, n)
    /\ Alive(m)
    /\ PoolEffect(ledger, ledger', m, -(Terms[m].underlying_amount_per_contract * n),
                  Terms[m].quote_amount_per_contract * n, -n, 0)

Closed(m, n) ==
    /\ OfMarket(m, n)
    /\ PoolEffect(ledger, ledger', m, -(Terms[m].underlying_amount_per_contract * n), 0, -n, -n)

RedeemedForUnderlying(m, n) ==
    /\ OfMarket(m, n)
    /\ ~Alive(m)
    /\ PoolEffect(ledger, ledger', m, -(Terms[m].underlying_amount_per_contract * n), 0, 0, -n)

RedeemedForQuote(m, n) ==
    /\ OfMarket(m, n)
    /\ PoolEffect(ledger, ledger', m, 0, -(Terms[m].quote_amount_per_contract * n), 0, -n)

\* The clock checks are the ones the properties speak of.
LEMMA AliveUnexpired ==
    ASSUME NEW m \in Markets, now \in Int
    PROVE  /\ UnexpiredMarket(m) <=> Alive(m)
           /\ ExpiredMarket(m) <=> ~Alive(m)
  BY MarketAccounts DEF UnexpiredMarket, ExpiredMarket, Alive

\* What the type invariant says of the ledger and the clock.
LEMMA TypeFacts ==
    ASSUME TypeOK
    PROVE  ledger \in ProgramLedgers /\ now \in Int /\ markets \subseteq Markets
  BY AmountsAssumption DEF TypeOK, ProgramLedgers, Ledgers

\* Sizes are u64s and naturals.
LEMMA SizesAreNaturals == \A size \in Sizes : size \in U64 /\ size \in Nat
  BY AmountsAssumption, MaxU64Assumption DEF U64

\* What each instruction ends in, over the account lists that it takes.
LEMMA MintResults ==
    ASSUME NEW m, NEW user, NEW size, NEW l
    PROVE  l \in MintOptionResults(m, user, size) <=>
              \E a \in MintAccounts(m) :
              \E optionDest \in AccountsOf(a.option_mint),
                 writerDest \in AccountsOf(a.writer_token_mint) :
                 l \in IssueContracts(PayFee({ledger}, user, Terms[m].underlying_asset_mint,
                                            Terms[m].underlying_amount_per_contract, size),
                                     m, user, size, a, optionDest, writerDest)
  BY DEF MintOptionResults

\* The second version of minting.
LEMMA MintV2Results ==
    ASSUME NEW m, NEW user, NEW size, NEW l
    PROVE  l \in MintOptionV2Results(m, user, size) <=>
              \E a \in MintAccounts(m) :
              \E optionDest \in AccountsOf(a.option_mint),
                 writerDest \in AccountsOf(a.writer_token_mint) :
                 l \in IssueContracts({ledger}, m, user, size, a, optionDest, writerDest)
  BY DEF MintOptionV2Results, MintV2Accounts

\* Both versions of exercising.
LEMMA ExerciseResults ==
    ASSUME NEW m, NEW user, NEW holder, NEW size, NEW l
    PROVE  /\ l \in ExerciseOptionResults(m, user, holder, size) <=>
                 \E a \in ExerciseAccounts(m) :
                    l \in PayFee(ExerciseContracts(m, user, holder, size, a), user,
                                Terms[m].quote_asset_mint,
                                Terms[m].quote_amount_per_contract, size)
           /\ l \in ExerciseOptionV2Results(m, user, holder, size) <=>
                 \E a \in ExerciseAccounts(m) : l \in ExerciseContracts(m, user, holder, size, a)
  BY DEF ExerciseOptionResults, ExerciseOptionV2Results, ExerciseV2Accounts

\* Redeeming, after expiration and for quotes.
LEMMA RedeemResults ==
    ASSUME NEW m, NEW user, NEW size, NEW l
    PROVE  /\ l \in ClosePostExpirationResults(m, user, size) <=>
                 \E dest \in AccountsOf(Terms[m].underlying_asset_mint) :
                    l \in RedeemWriterTokens({ledger}, m, user, WriterTokenMint(m),
                                UnderlyingAssetPool(m), dest,
                                Terms[m].underlying_amount_per_contract, size)
           /\ l \in BurnWriterForQuoteResults(m, user, size) <=>
                 /\ QuotesInPool(m, QuoteAssetPool(m), size)
                 /\ \E dest \in AccountsOf(MintOf(QuoteAssetPool(m))) :
                       l \in RedeemWriterTokens({ledger}, m, user, WriterTokenMint(m),
                                   QuoteAssetPool(m), dest,
                                   Terms[m].quote_amount_per_contract, size)
  <1>1. l \in ClosePostExpirationResults(m, user, size) <=>
           \E a \in ClosePostExpAccounts(m) :
              l \in RedeemWriterTokens({ledger}, m, user, a.writer_token_mint,
                          a.underlying_asset_pool, a.underlying_asset_dest,
                          Terms[m].underlying_amount_per_contract, size)
    BY DEF ClosePostExpirationResults
  <1>2. l \in BurnWriterForQuoteResults(m, user, size) <=>
           \E a \in BurnWriterForQuoteAccounts(m) :
              /\ QuotesInPool(m, a.quote_asset_pool, size)
              /\ \E dest \in AccountsOf(MintOf(a.quote_asset_pool)) :
                    l \in RedeemWriterTokens({ledger}, m, user, a.writer_token_mint,
                                a.quote_asset_pool, dest,
                                Terms[m].quote_amount_per_contract, size)
    BY DEF BurnWriterForQuoteResults
  <1>3. \A dest \in AccountsOf(Terms[m].underlying_asset_mint) :
           [ writer_token_mint |-> WriterTokenMint(m),
             underlying_asset_pool |-> UnderlyingAssetPool(m),
             underlying_asset_dest |-> dest ] \in ClosePostExpAccounts(m)
    BY DEF ClosePostExpAccounts
  <1>4. \A a \in ClosePostExpAccounts(m) :
           /\ a.writer_token_mint = WriterTokenMint(m)
           /\ a.underlying_asset_pool = UnderlyingAssetPool(m)
           /\ a.underlying_asset_dest \in AccountsOf(Terms[m].underlying_asset_mint)
    BY DEF ClosePostExpAccounts
  <1>5. [ writer_token_mint |-> WriterTokenMint(m), quote_asset_pool |-> QuoteAssetPool(m) ]
           \in BurnWriterForQuoteAccounts(m)
    BY DEF BurnWriterForQuoteAccounts
  <1>6. \A a \in BurnWriterForQuoteAccounts(m) :
           a.writer_token_mint = WriterTokenMint(m) /\ a.quote_asset_pool = QuoteAssetPool(m)
    BY DEF BurnWriterForQuoteAccounts
  <1> QED
    BY <1>1, <1>2, <1>3, <1>4, <1>5, <1>6

\* Closing a position.
LEMMA CloseResults ==
    ASSUME NEW m, NEW user, NEW size, NEW l
    PROVE  l \in CloseOptionPositionResults(m, user, size) <=>
              \E dest \in AccountsOf(MintOf(UnderlyingAssetPool(m))) :
                 l \in TransferTotal(
                          Burn(Burn({ledger}, user, WriterTokenMint(m), size),
                               user, OptionMint(m), size),
                          m, UnderlyingAssetPool(m), dest,
                          Terms[m].underlying_amount_per_contract, size)
  <1>1. l \in CloseOptionPositionResults(m, user, size) <=>
           \E a \in CloseOptionPositionAccounts(m) :
           \E dest \in AccountsOf(MintOf(a.underlying_asset_pool)) :
              l \in ReleaseContracts(m, user, size, a, dest)
    BY DEF CloseOptionPositionResults
  <1>2. [ writer_token_mint |-> WriterTokenMint(m), option_token_mint |-> OptionMint(m),
          underlying_asset_pool |-> UnderlyingAssetPool(m) ] \in CloseOptionPositionAccounts(m)
    BY DEF CloseOptionPositionAccounts
  <1>3. \A a \in CloseOptionPositionAccounts(m) :
           /\ a.writer_token_mint = WriterTokenMint(m)
           /\ a.option_token_mint = OptionMint(m)
           /\ a.underlying_asset_pool = UnderlyingAssetPool(m)
    BY DEF CloseOptionPositionAccounts
  <1> QED
    BY <1>1, <1>2, <1>3 DEF ReleaseContracts

\* Both versions of minting issue covered contracts, and only while the build
\* still issues and the market is alive.
LEMMA MintIssues ==
    ASSUME TypeOK, NEW m \in Markets, NEW user \in Users, NEW size \in Sizes,
           MintOption(m, user, size) \/ MintOptionV2(m, user, size)
    PROVE  Issued(m, size)
  <1> DEFINE U == Terms[m].underlying_amount_per_contract
  <1> USE TypeFacts, SizesAreNaturals
  <1>1. CASE MintOptionV2(m, user, size)
    <2>0. PICK a \in MintAccounts(m) : \E optionDest, writerDest :
             ledger' \in IssueContracts({ledger}, m, user, size, a, optionDest, writerDest)
      BY <1>1, MintV2Results DEF MintOptionV2
    <2>1. PICK optionDest, writerDest :
             ledger' \in IssueContracts({ledger}, m, user, size, a, optionDest, writerDest)
      BY <2>0
    <2>2. PoolEffect(ledger, ledger', m, U * size, 0, size, size)
      BY <2>1, IssueEffect
    <2> QED
      BY <1>1, <2>2, AliveUnexpired DEF MintOptionV2, MayMint, Issued, OfMarket
  <1>2. CASE MintOption(m, user, size)
    <2> DEFINE charged == PayFee({ledger}, user, Terms[m].underlying_asset_mint, U, size)
    <2>0. PICK a \in MintAccounts(m) : \E optionDest, writerDest :
             ledger' \in IssueContracts(charged, m, user, size, a, optionDest, writerDest)
      BY <1>2, MintResults DEF MintOption
    <2>1. PICK optionDest, writerDest :
             ledger' \in IssueContracts(charged, m, user, size, a, optionDest, writerDest)
      BY <2>0
    <2>2. \A l1 \in charged : \E to, amount : Payment(ledger, l1, to, amount)
      BY FeeEffect
    <2>3. charged \subseteq ProgramLedgers
      BY <2>2 DEF Payment
    <2>4. PICK l1 \in charged : PoolEffect(l1, ledger', m, U * size, 0, size, size)
      BY <2>1, <2>3, IssueEffect
    <2>5. PICK to, amount : Payment(ledger, l1, to, amount)
      BY <2>2
    <2> HIDE DEF charged
    <2>6. PoolEffect(ledger, ledger', m, U * size, 0, size, size)
      BY <2>4, <2>5, MarketAccounts, MaxU64Assumption
         DEF PoolEffect, Payment, ProgramLedgers, Ledgers, U64
    <2> QED
      BY <1>2, <2>6, AliveUnexpired DEF MintOption, MayMint, Issued, OfMarket
  <1> QED
    BY <1>1, <1>2

\* Both versions of exercise trade the strike for the underlying of the options
\* burnt, and only while the market is alive.
LEMMA ExerciseExercises ==
    ASSUME TypeOK, MarketsWellFormed, NEW m \in Markets, NEW user \in Users,
           NEW holder, NEW size \in Sizes,
           ExerciseOption(m, user, holder, size) \/ ExerciseOptionV2(m, user, holder, size)
    PROVE  Exercised(m, size)
  <1> DEFINE U == Terms[m].underlying_amount_per_contract
             Q == Terms[m].quote_amount_per_contract
  <1> USE TypeFacts, SizesAreNaturals
  <1>1. m \in markets /\ Terms[m].underlying_asset_mint # Terms[m].quote_asset_mint
    BY DEF ExerciseOption, ExerciseOptionV2, MarketsWellFormed, AssetsDiffer
  <1>2. CASE ExerciseOptionV2(m, user, holder, size)
    <2>1. PICK a \in ExerciseAccounts(m) : ledger' \in ExerciseContracts(m, user, holder, size, a)
      BY <1>2, ExerciseResults DEF ExerciseOptionV2
    <2>2. PoolEffect(ledger, ledger', m, -(U * size), Q * size, -size, 0)
      BY <1>1, <2>1, ExerciseEffect
    <2> QED
      BY <1>2, <2>2, AliveUnexpired DEF ExerciseOptionV2, Exercised, OfMarket
  <1>3. CASE ExerciseOption(m, user, holder, size)
    <2>1. PICK a \in ExerciseAccounts(m) :
             ledger' \in PayFee(ExerciseContracts(m, user, holder, size, a), user,
                                Terms[m].quote_asset_mint, Q, size)
      BY <1>3, ExerciseResults DEF ExerciseOption
    <2> DEFINE delivered == ExerciseContracts(m, user, holder, size, a)
    <2>2. \A l1 \in delivered : PoolEffect(ledger, l1, m, -(U * size), Q * size, -size, 0)
      BY <1>1, ExerciseEffect
    <2>3. delivered \subseteq ProgramLedgers
      BY <2>2 DEF PoolEffect
    <2>4. PICK l1 \in delivered : \E to, amount : Payment(l1, ledger', to, amount)
      BY <2>1, <2>3, FeeEffect
    <2>5. PICK to, amount : Payment(l1, ledger', to, amount)
      BY <2>4
    <2>6. PoolEffect(ledger, l1, m, -(U * size), Q * size, -size, 0)
      BY <2>2
    <2> HIDE DEF delivered
    <2>7. PoolEffect(ledger, ledger', m, -(U * size), Q * size, -size, 0)
      BY <2>5, <2>6, MarketAccounts, MaxU64Assumption
         DEF PoolEffect, Payment, ProgramLedgers, Ledgers, U64
    <2> QED
      BY <1>3, <2>7, AliveUnexpired DEF ExerciseOption, Exercised, OfMarket
  <1> QED
    BY <1>2, <1>3

\* close_post_expiration redeems for underlying, after expiration only.
LEMMA ClosePostExpirationRedeems ==
    ASSUME TypeOK, MarketsWellFormed, NEW m \in Markets, NEW user \in Users,
           NEW size \in Sizes, ClosePostExpiration(m, user, size)
    PROVE  RedeemedForUnderlying(m, size)
  <1> DEFINE U == Terms[m].underlying_amount_per_contract
  <1> USE TypeFacts, SizesAreNaturals
  <1>1. m \in markets /\ Terms[m].underlying_asset_mint # Terms[m].quote_asset_mint
    BY DEF ClosePostExpiration, MarketsWellFormed, AssetsDiffer
  <1>2. PICK dest : ledger' \in RedeemWriterTokens({ledger}, m, user, WriterTokenMint(m),
                                    UnderlyingAssetPool(m), dest, U, size)
    BY RedeemResults DEF ClosePostExpiration
  <1>3. U \in U64 /\ UnderlyingAssetPool(m) # QuoteAssetPool(m)
    BY <1>1, MarketAccounts
  <1>4. PoolEffect(ledger, ledger', m, -(U * size), 0, 0, -size)
    BY <1>1, <1>2, <1>3, RedeemEffect
  <1> QED
    BY <1>4, AliveUnexpired DEF ClosePostExpiration, RedeemedForUnderlying, OfMarket

\* burn_writer_for_quote redeems for quote, at any time.
LEMMA BurnWriterRedeems ==
    ASSUME TypeOK, MarketsWellFormed, NEW m \in Markets, NEW user \in Users,
           NEW size \in Sizes, BurnWriterForQuote(m, user, size)
    PROVE  RedeemedForQuote(m, size)
  <1> DEFINE Q == Terms[m].quote_amount_per_contract
  <1> USE TypeFacts, SizesAreNaturals
  <1>1. m \in markets /\ Terms[m].underlying_asset_mint # Terms[m].quote_asset_mint
    BY DEF BurnWriterForQuote, MarketsWellFormed, AssetsDiffer
  <1>2. PICK dest : ledger' \in RedeemWriterTokens({ledger}, m, user, WriterTokenMint(m),
                                    QuoteAssetPool(m), dest, Q, size)
    BY RedeemResults DEF BurnWriterForQuote
  <1>3. Q \in U64 /\ UnderlyingAssetPool(m) # QuoteAssetPool(m)
    BY <1>1, MarketAccounts
  <1>4. PoolEffect(ledger, ledger', m, 0, -(Q * size), 0, -size)
    BY <1>1, <1>2, <1>3, RedeemEffect
  <1> QED
    BY <1>4 DEF BurnWriterForQuote, RedeemedForQuote, OfMarket

\* close_option_position burns both tokens of every contract it releases.
LEMMA CloseOptionPositionCloses ==
    ASSUME TypeOK, MarketsWellFormed, NEW m \in Markets, NEW user \in Users,
           NEW size \in Sizes, CloseOptionPosition(m, user, size)
    PROVE  Closed(m, size)
  <1> DEFINE U == Terms[m].underlying_amount_per_contract
             writersBurnt == Burn({ledger}, user, WriterTokenMint(m), size)
             bothBurnt == Burn(writersBurnt, user, OptionMint(m), size)
  <1> USE TypeFacts, SizesAreNaturals
  <1>1. m \in markets /\ Terms[m].underlying_asset_mint # Terms[m].quote_asset_mint
    BY DEF CloseOptionPosition, MarketsWellFormed, AssetsDiffer
  <1>2. PICK dest : ledger' \in TransferTotal(bothBurnt, m, UnderlyingAssetPool(m), dest, U, size)
    BY CloseResults DEF CloseOptionPosition
  <1>3. \A l1 \in writersBurnt : SupplyChange(ledger, l1, WriterTokenMint(m), -size)
    BY BurningEffect
  <1>4. writersBurnt \subseteq ProgramLedgers
    BY <1>3 DEF SupplyChange
  <1>5. \A l2 \in bothBurnt : \E l1 \in writersBurnt : SupplyChange(l1, l2, OptionMint(m), -size)
    BY <1>4, BurningEffect
  <1>6. bothBurnt \subseteq ProgramLedgers
    BY <1>5 DEF SupplyChange
  <1>7. PICK l2 \in bothBurnt : Payout(l2, ledger', UnderlyingAssetPool(m), U * size)
    BY <1>2, <1>6, PayoutEffect
  <1>8. PICK l1 \in writersBurnt : SupplyChange(l1, l2, OptionMint(m), -size)
    BY <1>5
  <1>9. SupplyChange(ledger, l1, WriterTokenMint(m), -size)
    BY <1>3
  <1> HIDE DEF writersBurnt, bothBurnt
  <1>10. \A k \in Markets :
            /\ ledger'.supply[OptionMint(k)]
                  = ledger.supply[OptionMint(k)] + (IF k = m THEN -size ELSE 0)
            /\ ledger'.supply[WriterTokenMint(k)]
                  = ledger.supply[WriterTokenMint(k)] + (IF k = m THEN -size ELSE 0)
    BY <1>7, <1>8, <1>9, MarketAccounts, MintsDiffer, MaxU64Assumption
       DEF SupplyChange, Payout, ProgramLedgers, Ledgers, U64
  <1>11. \A k \in Markets :
            /\ ledger'.balance[UnderlyingAssetPool(k)]
                  >= ledger.balance[UnderlyingAssetPool(k)] + (IF k = m THEN -(U * size) ELSE 0)
            /\ ledger'.balance[QuoteAssetPool(k)]
                  >= ledger.balance[QuoteAssetPool(k)] + (IF k = m THEN 0 ELSE 0)
    <2> TAKE k \in Markets
    <2>1. QuoteAssetPool(k) # UnderlyingAssetPool(m)
      BY <1>1, MarketAccounts
    <2>2. k # m => UnderlyingAssetPool(k) # UnderlyingAssetPool(m)
      BY MarketAccounts
    <2> QED
      BY <1>7, <1>8, <1>9, <2>1, <2>2, MarketAccounts, MaxU64Assumption
         DEF SupplyChange, Payout, ProgramLedgers, Ledgers, U64
  <1>12. PoolEffect(ledger, ledger', m, -(U * size), 0, -size, -size)
    BY <1>7, <1>10, <1>11 DEF PoolEffect, Payout
  <1> QED
    BY <1>1, <1>12 DEF CloseOptionPosition, Closed, OfMarket

-----------------------------------------------------------------------------
(* What happens around the program *)

\* A wallet's transfer takes nothing from any market.
LEMMA TransferHarmless ==
    ASSUME TypeOK, NEW user \in Users, NEW to \in Accounts, TokenTransfer(user, to)
    PROVE  /\ ledger' \in ProgramLedgers
           /\ \A m \in Markets : PoolEffect(ledger, ledger', m, 0, 0, 0, 0)
           /\ UNCHANGED <<markets, now, blocked>>
  <1> USE TypeFacts
  <1>1. {ledger} \subseteq Ledgers(Accounts, ProgramMints)
    BY DEF ProgramLedgers
  <1>2. ledger' \in Transfer({ledger}, user, <<user, MintOf(to)>>, to, 1)
    BY DEF TokenTransfer
  <1>3. TransferMade(ledger, ledger', Accounts, ProgramMints, user, <<user, MintOf(to)>>, to, 1)
    BY <1>1, <1>2, TransferEffect
  <1>4. \A a \in Accounts : OwnerOf(a) \in Markets => ledger'.balance[a] >= ledger.balance[a]
    BY <1>3, PartiesAssumption DEF TransferMade, OwnerOf
  <1>5. ledger' \in ProgramLedgers /\ ledger'.supply = ledger.supply
    BY <1>3 DEF TransferMade, ProgramLedgers
  <1>6. \A m \in Markets : PoolEffect(ledger, ledger', m, 0, 0, 0, 0)
    BY <1>4, <1>5, MarketAccounts, MaxU64Assumption DEF PoolEffect, ProgramLedgers, Ledgers, U64
  <1> QED
    BY <1>5, <1>6 DEF TokenTransfer

\* A holder that burns a token of a market lowers that supply by one.
LEMMA BurnHarmless ==
    ASSUME TypeOK, NEW user \in Users, NEW mint \in ProgramMints, TokenBurn(user, mint)
    PROVE  /\ ledger' \in ProgramLedgers
           /\ \E m \in Markets :
                 \/ PoolEffect(ledger, ledger', m, 0, 0, -1, 0)
                 \/ PoolEffect(ledger, ledger', m, 0, 0, 0, -1)
           /\ ledger.supply[mint] >= 1
           /\ UNCHANGED <<markets, now, blocked>>
  <1> USE TypeFacts
  <1>1. {ledger} \subseteq Ledgers(Accounts, ProgramMints)
    BY DEF ProgramLedgers
  <1>2. ledger' \in Burn({ledger}, user, mint, 1)
    BY DEF TokenBurn
  <1>3. BurningMade(ledger, ledger', Accounts, ProgramMints, mint, 1)
    BY <1>1, <1>2, BurnEffect
  <1>4. ledger' \in ProgramLedgers
    BY <1>3 DEF BurningMade, ProgramLedgers
  <1>5. \A k \in Markets :
            /\ ledger'.balance[UnderlyingAssetPool(k)] = ledger.balance[UnderlyingAssetPool(k)]
            /\ ledger'.balance[QuoteAssetPool(k)] = ledger.balance[QuoteAssetPool(k)]
    BY <1>3, MarketAccounts DEF BurningMade
  <1>6. PICK m \in Markets : mint = OptionMint(m) \/ mint = WriterTokenMint(m)
    BY DEF ProgramMints, OptionTokens, WriterTokens
  <1>7. CASE mint = OptionMint(m)
    <2>1. PoolEffect(ledger, ledger', m, 0, 0, -1, 0)
      BY <1>3, <1>4, <1>5, <1>7, MarketAccounts, MintsDiffer, MaxU64Assumption
         DEF BurningMade, PoolEffect, ProgramLedgers, Ledgers, U64
    <2> QED
      BY <1>3, <1>4, <2>1 DEF BurningMade, TokenBurn
  <1>8. CASE mint = WriterTokenMint(m)
    <2>1. PoolEffect(ledger, ledger', m, 0, 0, 0, -1)
      BY <1>3, <1>4, <1>5, <1>8, MarketAccounts, MintsDiffer, MaxU64Assumption
         DEF BurningMade, PoolEffect, ProgramLedgers, Ledgers, U64
    <2> QED
      BY <1>3, <1>4, <2>1 DEF BurningMade, TokenBurn
  <1> QED
    BY <1>6, <1>7, <1>8

Sent == \A m \in Markets : PoolEffect(ledger, ledger', m, 0, 0, 0, 0)

Forfeited ==
    \E m \in Markets : \/ PoolEffect(ledger, ledger', m, 0, 0, -1, 0)
                       \/ PoolEffect(ledger, ledger', m, 0, 0, 0, -1)

\* Every step is one of these: the summaries cover the next-state relation.
LEMMA StepCases ==
    ASSUME TypeOK, MarketsWellFormed, [Next]_vars
    PROVE  \/ \E m \in Markets : InitializeMarket(m)
           \/ \E m \in Markets, n \in Nat :
                 \/ Issued(m, n)
                 \/ Exercised(m, n)
                 \/ Closed(m, n)
                 \/ RedeemedForUnderlying(m, n)
                 \/ RedeemedForQuote(m, n)
           \/ ledger' \in ProgramLedgers /\ Sent /\ UNCHANGED <<markets, now, blocked>>
           \/ ledger' \in ProgramLedgers /\ Forfeited /\ UNCHANGED <<markets, now, blocked>>
           \/ Tick
           \/ Upgrade
           \/ UNCHANGED vars
  <1>1. CASE \E m \in Markets, user \in Users, size \in Sizes : Instruction(m, user, size)
    <2>1. PICK m \in Markets, user \in Users, size \in Sizes : Instruction(m, user, size)
      BY <1>1
    <2>2. size \in Nat
      BY SizesAreNaturals
    <2>3. \/ Issued(m, size)
          \/ Exercised(m, size)
          \/ Closed(m, size)
          \/ RedeemedForUnderlying(m, size)
          \/ RedeemedForQuote(m, size)
      BY <2>1, MintIssues, ExerciseExercises, ClosePostExpirationRedeems, BurnWriterRedeems,
         CloseOptionPositionCloses DEF Instruction
    <2> QED
      BY <2>2, <2>3
  <1>2. CASE \E user \in Users, to \in Accounts : TokenTransfer(user, to)
    BY <1>2, TransferHarmless DEF Sent
  <1>3. CASE \E user \in Users, mint \in ProgramMints : TokenBurn(user, mint)
    BY <1>3, BurnHarmless DEF Forfeited
  <1> QED
    BY <1>1, <1>2, <1>3 DEF Next

-----------------------------------------------------------------------------
(* Invariants *)

\* Nothing of a market is in circulation before it exists.
NothingUnlisted == \A m \in Markets \ markets : OptionSupply(m) = 0 /\ WriterSupply(m) = 0

\* The inductive invariant.  Coverage alone is not inductive: a market may come
\* into existence, and must do so with no token issued and amounts to divide by.
IInv ==
    /\ TypeOK
    /\ MarketsWellFormed
    /\ NothingUnlisted
    /\ OptionsCovered
    /\ WritersCovered

\* Whole contracts in the pools and tokens in circulation, after a step that
\* moves contracts of market m.
ContractEffect(m, underlying, quote, options, writers) ==
    \A k \in markets :
        /\ UnderlyingContracts(k)' \in Nat /\ QuoteContracts(k)' \in Nat
        /\ UnderlyingContracts(k)' >= UnderlyingContracts(k) + (IF k = m THEN underlying ELSE 0)
        /\ QuoteContracts(k)' >= QuoteContracts(k) + (IF k = m THEN quote ELSE 0)
        /\ OptionSupply(k)' = OptionSupply(k) + (IF k = m THEN options ELSE 0)
        /\ WriterSupply(k)' = WriterSupply(k) + (IF k = m THEN writers ELSE 0)

\* Contracts in the pools and tokens in circulation are natural numbers.
LEMMA CountsAreNaturals ==
    ASSUME TypeOK, MarketsWellFormed
    PROVE  \A k \in markets : /\ UnderlyingContracts(k) \in Nat
                              /\ QuoteContracts(k) \in Nat
                              /\ OptionSupply(k) \in Nat
                              /\ WriterSupply(k) \in Nat
  <1> TAKE k \in markets
  <1>1. k \in Markets /\ ledger \in ProgramLedgers
    BY TypeFacts
  <1>2. /\ Terms[k].underlying_amount_per_contract \in Nat
        /\ Terms[k].underlying_amount_per_contract > 0
        /\ Terms[k].quote_amount_per_contract \in Nat
        /\ Terms[k].quote_amount_per_contract > 0
    BY <1>1, MarketAccounts, MaxU64Assumption DEF MarketsWellFormed, U64
  <1>3. /\ ledger.balance[UnderlyingAssetPool(k)] \in Nat
        /\ ledger.balance[QuoteAssetPool(k)] \in Nat
        /\ OptionSupply(k) \in Nat
        /\ WriterSupply(k) \in Nat
    BY <1>1, MarketAccounts, MaxU64Assumption
       DEF ProgramLedgers, Ledgers, U64, OptionSupply, WriterSupply
  <1> QED
    BY <1>2, <1>3, DivBounds DEF UnderlyingContracts, QuoteContracts

\* Tokens that move a whole number of contracts move that many contracts,
\* whatever odd tokens the pools hold besides.
LEMMA ContractsMove ==
    ASSUME TypeOK, MarketsWellFormed, NEW m \in Markets,
           NEW u \in Int, NEW q \in Int, NEW o \in Int, NEW w \in Int,
           PoolEffect(ledger, ledger', m, Terms[m].underlying_amount_per_contract * u,
                      Terms[m].quote_amount_per_contract * q, o, w)
    PROVE  ContractEffect(m, u, q, o, w)
  <1> SUFFICES ASSUME NEW k \in markets
               PROVE  /\ UnderlyingContracts(k)' \in Nat /\ QuoteContracts(k)' \in Nat
                      /\ UnderlyingContracts(k)' >= UnderlyingContracts(k) + (IF k = m THEN u ELSE 0)
                      /\ QuoteContracts(k)' >= QuoteContracts(k) + (IF k = m THEN q ELSE 0)
                      /\ OptionSupply(k)' = OptionSupply(k) + (IF k = m THEN o ELSE 0)
                      /\ WriterSupply(k)' = WriterSupply(k) + (IF k = m THEN w ELSE 0)
    BY DEF ContractEffect
  <1> DEFINE U == Terms[k].underlying_amount_per_contract
             Q == Terms[k].quote_amount_per_contract
             x == ledger.balance[UnderlyingAssetPool(k)]
             x2 == ledger'.balance[UnderlyingAssetPool(k)]
             y == ledger.balance[QuoteAssetPool(k)]
             y2 == ledger'.balance[QuoteAssetPool(k)]
  <1>1. k \in Markets /\ ledger \in ProgramLedgers /\ ledger' \in ProgramLedgers
    BY TypeFacts DEF PoolEffect
  <1>2. U \in Nat /\ U > 0 /\ Q \in Nat /\ Q > 0
    BY <1>1, MarketAccounts, MaxU64Assumption DEF MarketsWellFormed, U64
  <1>3. x \in Nat /\ x2 \in Nat /\ y \in Nat /\ y2 \in Nat
    BY <1>1, MarketAccounts, MaxU64Assumption DEF ProgramLedgers, Ledgers, U64
  <1>4. /\ k = m => x2 >= x + U * u /\ y2 >= y + Q * q
        /\ k # m => x2 >= x + 0 /\ y2 >= y + 0
    BY <1>1 DEF PoolEffect
  <1>5. /\ OptionSupply(k)' = OptionSupply(k) + (IF k = m THEN o ELSE 0)
        /\ WriterSupply(k)' = WriterSupply(k) + (IF k = m THEN w ELSE 0)
    BY <1>1 DEF PoolEffect, OptionSupply, WriterSupply
  <1>6. /\ UnderlyingContracts(k) = x \div U /\ UnderlyingContracts(k)' = x2 \div U
        /\ QuoteContracts(k) = y \div Q /\ QuoteContracts(k)' = y2 \div Q
    BY DEF UnderlyingContracts, QuoteContracts, UnderlyingAssetPool, QuoteAssetPool
  <1> HIDE DEF U, Q, x, x2, y, y2
  <1>7. x2 \div U \in Nat /\ y2 \div Q \in Nat
    BY <1>2, <1>3, DivBounds
  <1>8. CASE k = m
    <2>1. x2 \div U >= x \div U + u /\ y2 \div Q >= y \div Q + q
      BY <1>2, <1>3, <1>4, <1>8, DivShift
    <2> QED
      BY <1>5, <1>6, <1>7, <1>8, <2>1
  <1>9. CASE k # m
    <2>1. U * 0 = 0 /\ Q * 0 = 0
      BY <1>2
    <2>2. x2 >= x + U * 0 /\ y2 >= y + Q * 0
      BY <1>4, <1>9, <2>1
    <2>3. x2 \div U >= x \div U + 0 /\ y2 \div Q >= y \div Q + 0
      BY <1>2, <1>3, <2>2, DivShift
    <2> QED
      BY <1>5, <1>6, <1>7, <1>9, <2>3
  <1> QED
    BY <1>8, <1>9

\* The summaries, counted in contracts.
LEMMA ContractEffects ==
    ASSUME TypeOK, MarketsWellFormed, NEW m \in Markets, NEW n \in Nat
    PROVE  /\ Issued(m, n) => ContractEffect(m, n, 0, n, n)
           /\ Exercised(m, n) => ContractEffect(m, -n, n, -n, 0)
           /\ Closed(m, n) => ContractEffect(m, -n, 0, -n, -n)
           /\ RedeemedForUnderlying(m, n) => ContractEffect(m, -n, 0, 0, -n)
           /\ RedeemedForQuote(m, n) => ContractEffect(m, 0, -n, 0, -n)
           /\ PoolEffect(ledger, ledger', m, 0, 0, 0, 0) => ContractEffect(m, 0, 0, 0, 0)
           /\ PoolEffect(ledger, ledger', m, 0, 0, -1, 0) => ContractEffect(m, 0, 0, -1, 0)
           /\ PoolEffect(ledger, ledger', m, 0, 0, 0, -1) => ContractEffect(m, 0, 0, 0, -1)
  <1> DEFINE U == Terms[m].underlying_amount_per_contract
             Q == Terms[m].quote_amount_per_contract
  <1>1. U \in Nat /\ Q \in Nat
    BY MarketAccounts, MaxU64Assumption DEF U64
  <1> HIDE DEF U, Q
  <1>2. U * 0 = 0 /\ Q * 0 = 0 /\ -(U * n) = U * (-n) /\ -(Q * n) = Q * (-n)
    BY <1>1
  <1>3. \A u, q, o, w \in Int : PoolEffect(ledger, ledger', m, U * u, Q * q, o, w)
                                   => ContractEffect(m, u, q, o, w)
    BY ContractsMove DEF U, Q
  <1>4. /\ Issued(m, n) => PoolEffect(ledger, ledger', m, U * n, Q * 0, n, n)
        /\ Exercised(m, n) => PoolEffect(ledger, ledger', m, U * (-n), Q * n, -n, 0)
        /\ Closed(m, n) => PoolEffect(ledger, ledger', m, U * (-n), Q * 0, -n, -n)
        /\ RedeemedForUnderlying(m, n)
              => PoolEffect(ledger, ledger', m, U * (-n), Q * 0, 0, -n)
        /\ RedeemedForQuote(m, n) => PoolEffect(ledger, ledger', m, U * 0, Q * (-n), 0, -n)
    BY <1>2 DEF Issued, Exercised, Closed, RedeemedForUnderlying, RedeemedForQuote, U, Q
  <1>5. n \in Int /\ -n \in Int /\ 0 \in Int /\ -1 \in Int
    OBVIOUS
  <1> QED
    BY <1>2, <1>3, <1>4, <1>5

\* A step that moves contracts of one market keeps coverage, if it issues no
\* option or writer token without the underlying and releases no pool without
\* burning the token.
LEMMA CoverageKept ==
    ASSUME TypeOK, MarketsWellFormed, OptionsCovered, WritersCovered,
           NEW m \in Markets, NEW u \in Int, NEW q \in Int, NEW o \in Int, NEW w \in Int,
           ContractEffect(m, u, q, o, w), UNCHANGED <<markets, now>>,
           w <= u + q,
           m \in markets /\ Alive(m) => o <= u
    PROVE  OptionsCovered' /\ WritersCovered'
  <1>1. \A k \in markets : Alive(k)' <=> Alive(k)
    BY DEF Alive
  <1>2. \A k \in markets : /\ UnderlyingContracts(k) \in Nat
                           /\ QuoteContracts(k) \in Nat
                           /\ OptionSupply(k) \in Nat
                           /\ WriterSupply(k) \in Nat
    BY CountsAreNaturals
  <1>3. ASSUME NEW k \in markets
        PROVE  /\ Alive(k)' => OptionSupply(k)' <= UnderlyingContracts(k)'
               /\ WriterSupply(k)' <= UnderlyingContracts(k)' + QuoteContracts(k)'
    BY <1>1, <1>2 DEF ContractEffect, OptionsCovered, WritersCovered
  <1> QED
    BY <1>3 DEF OptionsCovered, WritersCovered

\* The initial state satisfies the invariant.
LEMMA InitInvariant == Init => IInv
  <1> SUFFICES ASSUME Init PROVE IInv
    OBVIOUS
  <1>1. ledger \in Ledgers(Accounts, ProgramMints)
    BY EndowmentAssumption, MaxU64Assumption DEF Init, Ledgers, U64
  <1>2. TypeOK
    <2>1. now \in 0..MaxTime
      BY AmountsAssumption DEF Init
    <2> QED
      BY <1>1, <2>1 DEF Init, TypeOK, Ledgers
  <1>3. NothingUnlisted
    BY MarketAccounts DEF Init, NothingUnlisted, OptionSupply, WriterSupply
  <1> QED
    BY <1>2, <1>3 DEF Init, IInv, MarketsWellFormed, OptionsCovered, WritersCovered

\* Types: every step leaves a well-typed ledger.
LEMMA TypeStep == TypeOK /\ MarketsWellFormed /\ [Next]_vars => TypeOK'
  <1> SUFFICES ASSUME TypeOK, MarketsWellFormed, [Next]_vars PROVE TypeOK'
    OBVIOUS
  <1>1. ledger' \in ProgramLedgers
    BY StepCases, TypeFacts DEF InitializeMarket, Tick, Upgrade, vars, Issued, Exercised,
       Closed, RedeemedForUnderlying, RedeemedForQuote, PoolEffect
  <1>2. markets' \subseteq Markets /\ blocked' \in BOOLEAN
    BY StepCases, TypeFacts DEF TypeOK, InitializeMarket, Tick, Upgrade, vars, Issued, Exercised,
       Closed, RedeemedForUnderlying, RedeemedForQuote, OfMarket
  <1>3. now' \in 0..MaxTime
    <2>1. CASE Tick
      BY <2>1, AmountsAssumption DEF TypeOK, Tick
    <2>2. CASE now' = now
      BY <2>2 DEF TypeOK
    <2> QED
      BY <2>1, <2>2, StepCases DEF InitializeMarket, Upgrade, vars, Issued, Exercised, Closed,
         RedeemedForUnderlying, RedeemedForQuote, OfMarket
  <1> QED
    BY <1>1, <1>2, <1>3 DEF TypeOK, ProgramLedgers, Ledgers

\* What the program requires of the terms holds of every market initialised.
LEMMA MarketsWellFormedStep ==
    TypeOK /\ MarketsWellFormed /\ [Next]_vars => MarketsWellFormed'
  <1> SUFFICES ASSUME TypeOK, MarketsWellFormed, [Next]_vars PROVE MarketsWellFormed'
    OBVIOUS
  <1>1. CASE \E m \in Markets : InitializeMarket(m)
    <2>1. PICK m \in Markets : InitializeMarket(m)
      BY <1>1
    <2>2. Terms[m].underlying_amount_per_contract \in Nat /\ Terms[m].quote_amount_per_contract \in Nat
      BY MarketAccounts, MaxU64Assumption DEF U64
    <2> QED
      BY <2>1, <2>2 DEF InitializeMarket, MayInitialize, ValidTerms, MarketsWellFormed
  <1>2. CASE markets' = markets
    BY <1>2 DEF MarketsWellFormed
  <1> QED
    BY <1>1, <1>2, StepCases DEF Tick, Upgrade, vars, Issued, Exercised, Closed,
       RedeemedForUnderlying, RedeemedForQuote, OfMarket

\* No instruction creates tokens of a market that does not exist.
LEMMA NothingUnlistedStep == IInv /\ [Next]_vars => NothingUnlisted'
  <1> SUFFICES ASSUME IInv, [Next]_vars, NEW k \in Markets \ markets'
               PROVE  OptionSupply(k)' = 0 /\ WriterSupply(k)' = 0
    BY DEF NothingUnlisted
  <1> USE DEF IInv
  <1>1. ASSUME NEW m \in Markets, NEW u, NEW q, NEW o \in Int, NEW w \in Int,
               PoolEffect(ledger, ledger', m, u, q, o, w), m # k \/ (o = 0 /\ w = 0),
               UNCHANGED markets
        PROVE  OptionSupply(k)' = 0 /\ WriterSupply(k)' = 0
    BY <1>1 DEF PoolEffect, NothingUnlisted, OptionSupply, WriterSupply
  <1>2. CASE \E m \in Markets, n \in Nat :
                \/ Issued(m, n)
                \/ Exercised(m, n)
                \/ Closed(m, n)
                \/ RedeemedForUnderlying(m, n)
                \/ RedeemedForQuote(m, n)
    <2>1. PICK m \in Markets, n \in Nat : \/ Issued(m, n)
                                          \/ Exercised(m, n)
                                          \/ Closed(m, n)
                                          \/ RedeemedForUnderlying(m, n)
                                          \/ RedeemedForQuote(m, n)
      BY <1>2
    <2>2. m # k /\ UNCHANGED markets
      BY <2>1 DEF Issued, Exercised, Closed, RedeemedForUnderlying, RedeemedForQuote, OfMarket
    <2>3. \E u, q : \E o \in Int, w \in Int : PoolEffect(ledger, ledger', m, u, q, o, w)
      <3>1. n \in Int /\ -n \in Int /\ 0 \in Int
        OBVIOUS
      <3>2. CASE Issued(m, n)
        BY <3>1, <3>2 DEF Issued
      <3>3. CASE Exercised(m, n)
        BY <3>1, <3>3 DEF Exercised
      <3>4. CASE Closed(m, n)
        BY <3>1, <3>4 DEF Closed
      <3>5. CASE RedeemedForUnderlying(m, n)
        BY <3>1, <3>5 DEF RedeemedForUnderlying
      <3>6. CASE RedeemedForQuote(m, n)
        BY <3>1, <3>6 DEF RedeemedForQuote
      <3> QED
        BY <2>1, <3>2, <3>3, <3>4, <3>5, <3>6
    <2> QED
      BY <1>1, <2>2, <2>3
  <1>3. CASE Sent /\ UNCHANGED <<markets, now, blocked>>
    BY <1>1, <1>3 DEF Sent
  <1>4. CASE ledger' \in ProgramLedgers /\ Forfeited /\ UNCHANGED <<markets, now, blocked>>
    <2>1. PICK m \in Markets : \/ PoolEffect(ledger, ledger', m, 0, 0, -1, 0)
                               \/ PoolEffect(ledger, ledger', m, 0, 0, 0, -1)
      BY <1>4 DEF Forfeited
    <2>2. OptionSupply(m)' >= 0 /\ WriterSupply(m)' >= 0
      BY <1>4, MarketAccounts, MaxU64Assumption
         DEF ProgramLedgers, Ledgers, U64, OptionSupply, WriterSupply
    <2>3. OptionSupply(m)' = OptionSupply(m) - 1 \/ WriterSupply(m)' = WriterSupply(m) - 1
      BY <2>1, TypeFacts, MarketAccounts, MaxU64Assumption
         DEF PoolEffect, OptionSupply, WriterSupply, ProgramLedgers, Ledgers, U64
    <2>4. m # k
      BY <1>4, <2>2, <2>3 DEF NothingUnlisted
    <2>5. -1 \in Int /\ 0 \in Int
      OBVIOUS
    <2> QED
      BY <1>1, <1>4, <2>1, <2>4, <2>5
  <1>5. CASE UNCHANGED ledger /\ markets \subseteq markets'
    BY <1>5 DEF NothingUnlisted, OptionSupply, WriterSupply
  <1> QED
    BY <1>2, <1>3, <1>4, <1>5, StepCases DEF InitializeMarket, Tick, Upgrade, vars

\* Coverage: a contract is issued with its underlying, an option leaves
\* circulation with the underlying it is exercised for, and a writer token with
\* what it is redeemed for.  A new market has issued nothing, and a market that
\* expires is no longer asked to cover its options.
LEMMA CoverageStep == IInv /\ [Next]_vars => OptionsCovered' /\ WritersCovered'
  <1> SUFFICES ASSUME IInv, [Next]_vars PROVE OptionsCovered' /\ WritersCovered'
    OBVIOUS
  <1> USE DEF IInv
  <1>1. CASE \E m \in Markets, n \in Nat :
                \/ Issued(m, n)
                \/ Exercised(m, n)
                \/ Closed(m, n)
                \/ RedeemedForUnderlying(m, n)
                \/ RedeemedForQuote(m, n)
    <2>1. PICK m \in Markets, n \in Nat : \/ Issued(m, n)
                                          \/ Exercised(m, n)
                                          \/ Closed(m, n)
                                          \/ RedeemedForUnderlying(m, n)
                                          \/ RedeemedForQuote(m, n)
      BY <1>1
    <2>2. UNCHANGED <<markets, now>>
      BY <2>1 DEF Issued, Exercised, Closed, RedeemedForUnderlying, RedeemedForQuote, OfMarket
    <2>3. n \in Int /\ -n \in Int /\ 0 \in Int
      OBVIOUS
    <2>4. CASE Issued(m, n)
      <3>1. ContractEffect(m, n, 0, n, n)
        BY <2>4, ContractEffects
      <3> QED
        BY <2>2, <2>3, <3>1, CoverageKept
    <2>5. CASE Exercised(m, n)
      <3>1. ContractEffect(m, -n, n, -n, 0)
        BY <2>5, ContractEffects
      <3> QED
        BY <2>2, <2>3, <3>1, CoverageKept
    <2>6. CASE Closed(m, n)
      <3>1. ContractEffect(m, -n, 0, -n, -n)
        BY <2>6, ContractEffects
      <3> QED
        BY <2>2, <2>3, <3>1, CoverageKept
    <2>7. CASE RedeemedForUnderlying(m, n)
      <3>1. ContractEffect(m, -n, 0, 0, -n) /\ ~Alive(m)
        BY <2>7, ContractEffects DEF RedeemedForUnderlying
      <3> QED
        BY <2>2, <2>3, <3>1, CoverageKept
    <2>8. CASE RedeemedForQuote(m, n)
      <3>1. ContractEffect(m, 0, -n, 0, -n)
        BY <2>8, ContractEffects
      <3> QED
        BY <2>2, <2>3, <3>1, CoverageKept
    <2> QED
      BY <2>1, <2>4, <2>5, <2>6, <2>7, <2>8
  <1>2. CASE (Sent \/ Forfeited) /\ UNCHANGED <<markets, now, blocked>>
    <2>1. CASE markets = {}
      BY <1>2, <2>1 DEF OptionsCovered, WritersCovered
    <2>2. CASE markets # {}
      <3>1. \E m \in Markets : \/ ContractEffect(m, 0, 0, 0, 0)
                               \/ ContractEffect(m, 0, 0, -1, 0)
                               \/ ContractEffect(m, 0, 0, 0, -1)
        BY <1>2, <2>2, TypeFacts, ContractEffects DEF Sent, Forfeited
      <3>2. 0 \in Int /\ -1 \in Int
        OBVIOUS
      <3> QED
        BY <1>2, <3>1, <3>2, CoverageKept
    <2> QED
      BY <2>1, <2>2
  <1>3. CASE \E m \in Markets : InitializeMarket(m)
    <2>1. PICK m \in Markets : InitializeMarket(m)
      BY <1>3
    <2>2. /\ markets' = markets \cup {m} /\ UNCHANGED <<ledger, now>>
          /\ m \notin markets
      BY <2>1 DEF InitializeMarket, MayInitialize
    <2>3. \A k \in Markets : /\ Alive(k)' <=> Alive(k)
                             /\ OptionSupply(k)' = OptionSupply(k)
                             /\ WriterSupply(k)' = WriterSupply(k)
                             /\ UnderlyingContracts(k)' = UnderlyingContracts(k)
                             /\ QuoteContracts(k)' = QuoteContracts(k)
      BY <2>2 DEF Alive, OptionSupply, WriterSupply, UnderlyingContracts, QuoteContracts,
         UnderlyingAssetPool, QuoteAssetPool
    <2>4. OptionSupply(m) = 0 /\ WriterSupply(m) = 0
      BY <2>2 DEF NothingUnlisted
    <2>5. UnderlyingContracts(m) \in Nat /\ QuoteContracts(m) \in Nat
      <3>1. /\ ledger.balance[UnderlyingAssetPool(m)] \in Nat
            /\ ledger.balance[QuoteAssetPool(m)] \in Nat
            /\ Terms[m].underlying_amount_per_contract \in Nat
            /\ Terms[m].quote_amount_per_contract \in Nat
        BY TypeFacts, MarketAccounts, MaxU64Assumption DEF ProgramLedgers, Ledgers, U64
      <3>2. /\ Terms[m].underlying_amount_per_contract > 0
            /\ Terms[m].quote_amount_per_contract > 0
        BY <2>1, <3>1 DEF InitializeMarket, MayInitialize, ValidTerms
      <3> QED
        BY <3>1, <3>2, DivBounds DEF UnderlyingContracts, QuoteContracts
    <2> QED
      BY <2>2, <2>3, <2>4, <2>5, TypeFacts DEF OptionsCovered, WritersCovered
  <1>4. CASE UNCHANGED <<markets, ledger>> /\ (Tick \/ now' = now)
    <2>1. \A k \in markets : /\ Alive(k)' => Alive(k)
                             /\ OptionSupply(k)' = OptionSupply(k)
                             /\ WriterSupply(k)' = WriterSupply(k)
                             /\ UnderlyingContracts(k)' = UnderlyingContracts(k)
                             /\ QuoteContracts(k)' = QuoteContracts(k)
      <3> TAKE k \in markets
      <3>1. Terms[k].expiration_unix_timestamp \in Int /\ now \in Int
        BY TypeFacts, MarketAccounts
      <3>2. Alive(k)' => Alive(k)
        BY <1>4, <3>1 DEF Alive, Tick
      <3> QED
        BY <1>4, <3>2 DEF OptionSupply, WriterSupply, UnderlyingContracts, QuoteContracts,
           UnderlyingAssetPool, QuoteAssetPool
    <2> QED
      BY <1>4, <2>1 DEF OptionsCovered, WritersCovered
  <1> QED
    BY <1>1, <1>2, <1>3, <1>4, StepCases DEF Tick, Upgrade, vars

-----------------------------------------------------------------------------
(* Theorems *)

\* The inductive invariant holds of every reachable state.
THEOREM Invariance == Spec => []IInv
  <1>1. Init => IInv
    BY InitInvariant
  <1>2. IInv /\ [Next]_vars => IInv'
    BY TypeStep, MarketsWellFormedStep, NothingUnlistedStep, CoverageStep DEF IInv
  <1> QED
    BY <1>1, <1>2, PTL DEF Spec

\* Balances and supplies stay within u64, whoever calls what.
THEOREM TypeCorrect == Spec => []TypeOK
  BY Invariance, PTL DEF IInv

\* The call is covered: until expiration the underlying of every option in
\* circulation is in its market's pool.
THEOREM Covered == Spec => []OptionsCovered
  BY Invariance, PTL DEF IInv

\* Every writer token in circulation has a contract of underlying or of quote
\* behind it.
THEOREM WritersBacked == Spec => []WritersCovered
  BY Invariance, PTL DEF IInv

-----------------------------------------------------------------------------
(* Steps *)

\* What a step does to the supplies and pools of one market, in whole numbers.
LEMMA NaturalSupplies ==
    ASSUME TypeOK, NEW k \in Markets
    PROVE  /\ OptionSupply(k) \in Nat /\ WriterSupply(k) \in Nat
           /\ ledger.balance[UnderlyingAssetPool(k)] \in Nat
           /\ ledger.balance[QuoteAssetPool(k)] \in Nat
           /\ Terms[k].underlying_amount_per_contract \in Nat
           /\ Terms[k].quote_amount_per_contract \in Nat
  BY TypeFacts, MarketAccounts, MaxU64Assumption
     DEF ProgramLedgers, Ledgers, U64, OptionSupply, WriterSupply

Shrinks(k) == OptionsBurnt(k) >= 0 /\ WritersBurnt(k) >= 0

\* Only Issued adds to a supply.
LEMMA SuppliesShrink ==
    ASSUME TypeOK, NEW m \in Markets, NEW u, NEW q, NEW o \in Int, NEW w \in Int,
           o <= 0, w <= 0, PoolEffect(ledger, ledger', m, u, q, o, w), NEW k \in Markets
    PROVE  Shrinks(k)
  <1>1. /\ OptionSupply(k)' = OptionSupply(k) + (IF k = m THEN o ELSE 0)
        /\ WriterSupply(k)' = WriterSupply(k) + (IF k = m THEN w ELSE 0)
    BY DEF PoolEffect, OptionSupply, WriterSupply
  <1> QED
    BY <1>1, NaturalSupplies DEF Shrinks, OptionsBurnt, WritersBurnt

\* A market's supplies grow only in a step that issues its contracts.
LEMMA ShrinkingStep ==
    ASSUME IInv, [Next]_vars, NEW k \in Markets, blocked \/ ~Alive(k)
    PROVE  Shrinks(k)
  <1> USE DEF IInv
  <1>1. CASE UNCHANGED ledger
    <2>1. OptionSupply(k)' = OptionSupply(k) /\ WriterSupply(k)' = WriterSupply(k)
      BY <1>1 DEF OptionSupply, WriterSupply
    <2> QED
      BY <2>1, NaturalSupplies DEF Shrinks, OptionsBurnt, WritersBurnt
  <1>2. CASE Sent \/ Forfeited
    <2>1. 0 \in Int /\ -1 \in Int /\ 0 <= 0 /\ -1 <= 0
      OBVIOUS
    <2>2. CASE Sent
      BY <2>1, <2>2, SuppliesShrink DEF Sent
    <2>3. CASE Forfeited
      BY <2>1, <2>3, SuppliesShrink DEF Forfeited
    <2> QED
      BY <1>2, <2>2, <2>3
  <1>3. ASSUME NEW m \in Markets, NEW n \in Nat,
               \/ Exercised(m, n)
               \/ Closed(m, n)
               \/ RedeemedForUnderlying(m, n)
               \/ RedeemedForQuote(m, n)
        PROVE  Shrinks(k)
    <2>1. n \in Int /\ -n \in Int /\ 0 \in Int /\ -n <= 0 /\ 0 <= 0
      OBVIOUS
    <2>2. CASE Exercised(m, n)
      BY <2>1, <2>2, SuppliesShrink DEF Exercised
    <2>3. CASE Closed(m, n)
      BY <2>1, <2>3, SuppliesShrink DEF Closed
    <2>4. CASE RedeemedForUnderlying(m, n)
      BY <2>1, <2>4, SuppliesShrink DEF RedeemedForUnderlying
    <2>5. CASE RedeemedForQuote(m, n)
      BY <2>1, <2>5, SuppliesShrink DEF RedeemedForQuote
    <2> QED
      BY <1>3, <2>2, <2>3, <2>4, <2>5
  <1>4. ASSUME NEW m \in Markets, NEW n \in Nat, Issued(m, n)
        PROVE  Shrinks(k)
    <2>1. m # k
      BY <1>4 DEF Issued
    <2>2. OptionSupply(k)' = OptionSupply(k) + 0 /\ WriterSupply(k)' = WriterSupply(k) + 0
      BY <1>4, <2>1 DEF Issued, PoolEffect, OptionSupply, WriterSupply
    <2> QED
      BY <2>2, NaturalSupplies DEF Shrinks, OptionsBurnt, WritersBurnt
  <1> QED
    BY <1>1, <1>2, <1>3, <1>4, StepCases DEF InitializeMarket, Tick, Upgrade, vars

\* After expiration, or once the build is blocked, no step issues anything.
THEOREM LiabilitiesShrink == Spec => LiabilitiesOnlyShrink
  <1>1. IInv /\ [Next]_vars
           => [\A m \in Markets : blocked \/ ~Alive(m) => /\ OptionsBurnt(m) >= 0
                                                          /\ WritersBurnt(m) >= 0]_vars
    BY ShrinkingStep DEF Shrinks
  <1> QED
    BY <1>1, Invariance, PTL DEF Spec, LiabilitiesOnlyShrink

\* What leaves the pools of a market, bounded by what a step of n contracts
\* may take.
LEMMA PoolsOut ==
    ASSUME TypeOK, NEW m \in Markets, NEW u \in Int, NEW q \in Int, NEW o \in Int, NEW w \in Int,
           PoolEffect(ledger, ledger', m, u, q, o, w), NEW k \in Markets
    PROVE  /\ k = m => /\ UnderlyingOut(k) <= -u /\ QuoteOut(k) <= -q
                       /\ OptionsBurnt(k) = -o /\ WritersBurnt(k) = -w
           /\ k # m => UnderlyingOut(k) <= 0 /\ QuoteOut(k) <= 0
           /\ UnderlyingOut(k) \in Int /\ QuoteOut(k) \in Int
  <1>1. ledger' \in ProgramLedgers
    BY DEF PoolEffect
  <1>2. /\ ledger'.balance[UnderlyingAssetPool(k)] \in Nat
        /\ ledger'.balance[QuoteAssetPool(k)] \in Nat
        /\ ledger'.supply[OptionMint(k)] \in Nat
        /\ ledger'.supply[WriterTokenMint(k)] \in Nat
    BY <1>1, MarketAccounts, MaxU64Assumption DEF ProgramLedgers, Ledgers, U64
  <1>3. /\ ledger.balance[UnderlyingAssetPool(k)] \in Nat
        /\ ledger.balance[QuoteAssetPool(k)] \in Nat
        /\ ledger.supply[OptionMint(k)] \in Nat
        /\ ledger.supply[WriterTokenMint(k)] \in Nat
    BY NaturalSupplies DEF OptionSupply, WriterSupply
  <1> QED
    BY <1>2, <1>3 DEF PoolEffect, UnderlyingOut, QuoteOut, OptionsBurnt, WritersBurnt,
       OptionSupply, WriterSupply, UnderlyingAssetPool, QuoteAssetPool

\* The pools of every market that exists pay for tokens burnt, whatever the step.
LEMMA PayoutStep ==
    ASSUME IInv, [Next]_vars, NEW k \in markets
    PROVE  PayoutMatchesBurn(k)
  <1> DEFINE U == Terms[k].underlying_amount_per_contract
             Q == Terms[k].quote_amount_per_contract
  <1> USE DEF IInv
  <1>1. k \in Markets /\ U \in Nat /\ Q \in Nat
    BY TypeFacts, NaturalSupplies
  <1>2. ASSUME UnderlyingOut(k) \in Int, QuoteOut(k) \in Int,
               UnderlyingOut(k) <= 0, QuoteOut(k) <= 0
        PROVE  PayoutMatchesBurn(k)
    BY <1>2 DEF PayoutMatchesBurn
  <1>3. CASE UNCHANGED ledger
    <2>1. UnderlyingOut(k) = 0 /\ QuoteOut(k) = 0
      BY <1>1, <1>3, NaturalSupplies DEF UnderlyingOut, QuoteOut, UnderlyingAssetPool, QuoteAssetPool
    <2> QED
      BY <1>2, <2>1
  <1>4. CASE Sent \/ Forfeited
    <2>1. PICK m \in Markets, o \in {0, -1}, w \in {0, -1} :
             PoolEffect(ledger, ledger', m, 0, 0, o, w)
      BY <1>1, <1>4 DEF Sent, Forfeited
    <2>2. o \in Int /\ w \in Int /\ 0 \in Int
      BY <2>1
    <2>3. /\ k = m => UnderlyingOut(k) <= -0 /\ QuoteOut(k) <= -0
          /\ k # m => UnderlyingOut(k) <= 0 /\ QuoteOut(k) <= 0
          /\ UnderlyingOut(k) \in Int /\ QuoteOut(k) \in Int
      BY <1>1, <2>1, <2>2, PoolsOut
    <2> QED
      BY <1>2, <2>3
  <1>5. ASSUME NEW m \in Markets, NEW n \in Nat,
               \/ Issued(m, n)
               \/ Exercised(m, n)
               \/ Closed(m, n)
               \/ RedeemedForUnderlying(m, n)
               \/ RedeemedForQuote(m, n)
        PROVE  PayoutMatchesBurn(k)
    <2> DEFINE Um == Terms[m].underlying_amount_per_contract
               Qm == Terms[m].quote_amount_per_contract
    <2>1. Um \in Nat /\ Qm \in Nat
      BY NaturalSupplies
    <2> HIDE DEF Um, Qm
    <2>2. /\ Um * n \in Int /\ -(Um * n) \in Int /\ Um * n >= 0
          /\ Qm * n \in Int /\ -(Qm * n) \in Int /\ Qm * n >= 0
          /\ n \in Int /\ -n \in Int /\ 0 \in Int
      BY <2>1
    <2>3. CASE k # m
      <3>1. PICK u \in Int, q \in Int, o \in Int, w \in Int :
               PoolEffect(ledger, ledger', m, u, q, o, w)
        <4>1. CASE Issued(m, n)
          BY <2>2, <4>1 DEF Issued, Um
        <4>2. CASE Exercised(m, n)
          BY <2>2, <4>2 DEF Exercised, Um, Qm
        <4>3. CASE Closed(m, n)
          BY <2>2, <4>3 DEF Closed, Um
        <4>4. CASE RedeemedForUnderlying(m, n)
          BY <2>2, <4>4 DEF RedeemedForUnderlying, Um
        <4>5. CASE RedeemedForQuote(m, n)
          BY <2>2, <4>5 DEF RedeemedForQuote, Qm
        <4> QED
          BY <1>5, <4>1, <4>2, <4>3, <4>4, <4>5
      <3> QED
        BY <1>1, <1>2, <2>3, <3>1, PoolsOut
    <2>4. CASE k = m
      <3>1. U = Um /\ Q = Qm
        BY <2>4 DEF Um, Qm
      <3> HIDE DEF U, Q
      <3>2. CASE Issued(m, n)
        <4>1. PoolEffect(ledger, ledger', m, Um * n, 0, n, n)
          BY <3>2 DEF Issued, Um
        <4> QED
          BY <1>1, <1>2, <2>2, <2>4, <4>1, PoolsOut
      <3>3. CASE Exercised(m, n)
        <4>1. PoolEffect(ledger, ledger', m, -(Um * n), Qm * n, -n, 0) /\ Alive(m)
          BY <3>3 DEF Exercised, Um, Qm
        <4>2. /\ UnderlyingOut(k) <= Um * n /\ QuoteOut(k) <= -(Qm * n) /\ OptionsBurnt(k) = n
              /\ QuoteOut(k) \in Int
          BY <1>1, <2>2, <2>4, <4>1, PoolsOut
        <4>3. QuoteOut(k) <= 0 /\ -QuoteOut(k) >= Qm * n
          BY <2>2, <4>2
        <4>4. n > 0 => Qm * n > 0
          BY <2>1, <2>4 DEF MarketsWellFormed, Qm
        <4>5. n = 0 => Um * n = 0
          BY <2>1
        <4>6. UnderlyingOut(k) > 0 => QuoteOut(k) < 0
          BY <1>1, <2>2, <2>4, <4>1, <4>2, <4>4, <4>5, PoolsOut
        <4> QED
          BY <2>4, <3>1, <4>1, <4>2, <4>3, <4>6 DEF PayoutMatchesBurn, U, Q
      <3>4. CASE Closed(m, n)
        <4>1. PoolEffect(ledger, ledger', m, -(Um * n), 0, -n, -n)
          BY <3>4 DEF Closed, Um
        <4>2. /\ UnderlyingOut(k) <= Um * n /\ QuoteOut(k) <= 0
              /\ OptionsBurnt(k) = n /\ WritersBurnt(k) = n
              /\ QuoteOut(k) \in Int
          BY <1>1, <2>2, <2>4, <4>1, PoolsOut
        <4> QED
          BY <3>1, <4>2 DEF PayoutMatchesBurn, U, Q
      <3>5. CASE RedeemedForUnderlying(m, n)
        <4>1. PoolEffect(ledger, ledger', m, -(Um * n), 0, 0, -n) /\ ~Alive(m)
          BY <3>5 DEF RedeemedForUnderlying, Um
        <4>2. /\ UnderlyingOut(k) <= Um * n /\ QuoteOut(k) <= 0 /\ WritersBurnt(k) = n
              /\ QuoteOut(k) \in Int
          BY <1>1, <2>2, <2>4, <4>1, PoolsOut
        <4> QED
          BY <2>4, <3>1, <4>1, <4>2 DEF PayoutMatchesBurn, U, Q
      <3>6. CASE RedeemedForQuote(m, n)
        <4>1. PoolEffect(ledger, ledger', m, 0, -(Qm * n), 0, -n)
          BY <3>6 DEF RedeemedForQuote, Qm
        <4>2. /\ QuoteOut(k) <= Qm * n /\ UnderlyingOut(k) <= 0 /\ WritersBurnt(k) = n
              /\ UnderlyingOut(k) \in Int
          BY <1>1, <2>2, <2>4, <4>1, PoolsOut
        <4> QED
          BY <3>1, <4>2 DEF PayoutMatchesBurn, U, Q
      <3> QED
        BY <1>5, <3>2, <3>3, <3>4, <3>5, <3>6
    <2> QED
      BY <2>3, <2>4
  <1> QED
    BY <1>3, <1>4, <1>5, StepCases DEF InitializeMarket, Tick, Upgrade, vars

\* Nothing leaves a market's pools but for its own tokens burnt.
THEOREM PayoutsBurn == Spec => PayoutsMatchBurns
  <1>1. IInv /\ [Next]_vars => [\A m \in markets : PayoutMatchesBurn(m)]_vars
    BY PayoutStep
  <1> QED
    BY <1>1, Invariance, PTL DEF Spec, PayoutsMatchBurns

-----------------------------------------------------------------------------
(* Every writer can exit *)

\* The invariant that the way out of a market rests on, beside IInv: supplies
\* are what wallets and pools hold, and what there is of an asset fits a u64,
\* so that no account is too full to be paid.
CountedLedger == CountedLedgers(Accounts, ProgramMints, Assets)
SuppliesCounted == ledger \in CountedLedger

\* No asset is a mint of the program.
LEMMA AssetsAreNoProgramMints == ProgramMints \cap Assets = {}
  BY PartiesAssumption

\* The movements of the instructions keep the count.
LEMMA TotalCounted ==
    ASSUME NEW L, L \subseteq CountedLedger, NEW authority, NEW from, NEW to,
           NEW perContract, NEW size
    PROVE  TransferTotal(L, authority, from, to, perContract, size) \subseteq CountedLedger
  <1> SUFFICES ASSUME NEW total \in CheckedMul(perContract, size)
               PROVE  Transfer(L, authority, from, to, total) \subseteq CountedLedger
    BY DEF TransferTotal
  <1>1. total \in Nat
    BY CheckedMulValue
  <1> QED
    BY <1>1, TransferKeepsCount DEF CountedLedger

\* A fee is a transfer.
LEMMA FeeCounted ==
    ASSUME NEW L, L \subseteq CountedLedger, NEW user, NEW asset, NEW quantity, NEW size
    PROVE  PayFee(L, user, asset, quantity, size) \subseteq CountedLedger
  BY TotalCounted DEF PayFee

\* Minting and burning count what they issue and destroy.
LEMMA MintedCounted ==
    ASSUME NEW L, L \subseteq CountedLedger, NEW authority, NEW mint, NEW to, NEW size \in Nat
    PROVE  MintTo(L, authority, mint, to, size) \subseteq CountedLedger
  BY AssetsAreNoProgramMints, MintToKeepsCount DEF CountedLedger

\* Burning does too.
LEMMA BurntCounted ==
    ASSUME NEW L, L \subseteq CountedLedger, NEW authority, NEW mint, NEW size \in Nat
    PROVE  Burn(L, authority, mint, size) \subseteq CountedLedger
  BY AssetsAreNoProgramMints, BurnKeepsCount DEF CountedLedger

\* So do the instructions, made of them.
LEMMA InstructionCounted ==
    ASSUME SuppliesCounted, NEW m \in Markets, NEW user \in Users, NEW size \in Sizes,
           Instruction(m, user, size)
    PROVE  SuppliesCounted'
  <1>1. {ledger} \subseteq CountedLedger /\ size \in Nat
    BY SizesAreNaturals DEF SuppliesCounted
  <1>2. \A L, a, optionDest, writerDest : L \subseteq CountedLedger =>
           IssueContracts(L, m, user, size, a, optionDest, writerDest) \subseteq CountedLedger
    BY <1>1, TotalCounted, MintedCounted DEF IssueContracts
  <1>3. \A holder, a : ExerciseContracts(m, user, holder, size, a) \subseteq CountedLedger
    BY <1>1, TotalCounted, BurntCounted DEF ExerciseContracts
  <1>4. \A mint, pool, dest, perContract :
           RedeemWriterTokens({ledger}, m, user, mint, pool, dest, perContract, size)
              \subseteq CountedLedger
    BY <1>1, TotalCounted, BurntCounted DEF RedeemWriterTokens
  <1>5. CASE MintOption(m, user, size)
    <2>1. PICK a, optionDest, writerDest :
             ledger' \in IssueContracts(
                           PayFee({ledger}, user, Terms[m].underlying_asset_mint,
                                  Terms[m].underlying_amount_per_contract, size),
                           m, user, size, a, optionDest, writerDest)
      BY <1>5, MintResults DEF MintOption
    <2> QED
      BY <1>1, <1>2, <2>1, FeeCounted DEF SuppliesCounted
  <1>6. CASE MintOptionV2(m, user, size)
    <2>1. PICK a, optionDest, writerDest :
             ledger' \in IssueContracts({ledger}, m, user, size, a, optionDest, writerDest)
      BY <1>6, MintV2Results DEF MintOptionV2
    <2> QED
      BY <1>1, <1>2, <2>1 DEF SuppliesCounted
  <1>7. CASE \E holder \in Users : ExerciseOption(m, user, holder, size)
    <2>1. PICK holder, a :
             ledger' \in PayFee(ExerciseContracts(m, user, holder, size, a), user,
                                Terms[m].quote_asset_mint,
                                Terms[m].quote_amount_per_contract, size)
      BY <1>7, ExerciseResults DEF ExerciseOption
    <2> QED
      BY <1>3, <2>1, FeeCounted DEF SuppliesCounted
  <1>8. CASE \E holder \in Users : ExerciseOptionV2(m, user, holder, size)
    <2>1. PICK holder, a : ledger' \in ExerciseContracts(m, user, holder, size, a)
      BY <1>8, ExerciseResults DEF ExerciseOptionV2
    <2> QED
      BY <1>3, <2>1 DEF SuppliesCounted
  <1>9. CASE ClosePostExpiration(m, user, size)
    <2>1. PICK mint, pool, dest, perContract :
             ledger' \in RedeemWriterTokens({ledger}, m, user, mint, pool, dest, perContract, size)
      BY <1>9, RedeemResults DEF ClosePostExpiration
    <2> QED
      BY <1>4, <2>1 DEF SuppliesCounted
  <1>10. CASE BurnWriterForQuote(m, user, size)
    <2>1. PICK mint, pool, dest, perContract :
             ledger' \in RedeemWriterTokens({ledger}, m, user, mint, pool, dest, perContract, size)
      BY <1>10, RedeemResults DEF BurnWriterForQuote
    <2> QED
      BY <1>4, <2>1 DEF SuppliesCounted
  <1>11. CASE CloseOptionPosition(m, user, size)
    <2>1. PICK dest :
             ledger' \in TransferTotal(
                           Burn(Burn({ledger}, user, WriterTokenMint(m), size),
                                user, OptionMint(m), size),
                           m, UnderlyingAssetPool(m), dest,
                           Terms[m].underlying_amount_per_contract, size)
      BY <1>11, CloseResults DEF CloseOptionPosition
    <2>2. Burn(Burn({ledger}, user, WriterTokenMint(m), size), user, OptionMint(m), size)
             \subseteq CountedLedger
      BY <1>1, BurntCounted
    <2> QED
      BY <2>1, <2>2, TotalCounted DEF SuppliesCounted
  <1> QED
    BY <1>5, <1>6, <1>7, <1>8, <1>9, <1>10, <1>11 DEF Instruction

\* The endowment is counted: assets by assumption, program tokens as there are
\* none yet.
LEMMA InitCounted == Init => SuppliesCounted
  <1> SUFFICES ASSUME Init PROVE SuppliesCounted
    OBVIOUS
  <1>1. ledger.balance = Endowment /\ ledger.supply = [t \in ProgramMints |-> 0]
    BY DEF Init
  <1>2. Endowment \in [Accounts -> U64] /\ 0 \in U64
    BY EndowmentAssumption, MaxU64Assumption DEF U64
  <1>3. ledger \in Ledgers(Accounts, ProgramMints)
    BY <1>2 DEF Init, Ledgers
  <1>4. ASSUME NEW t \in ProgramMints
        PROVE  IsFiniteSet(TokensOf(Endowment, t)) /\ Cardinality(TokensOf(Endowment, t)) = 0
    <2>1. \A a \in {x \in Accounts : MintOf(x) = t} : Endowment[a] = 0
      BY EndowmentAssumption
    <2>2. TokensOf(Endowment, t) = Units(Endowment, {x \in Accounts : MintOf(x) = t})
      BY <1>2, TokensAreUnits
    <2> QED
      BY <2>1, <2>2, NoUnits
  <1>5. \A t \in Assets : /\ IsFiniteSet(TokensOf(Endowment, t))
                          /\ Cardinality(TokensOf(Endowment, t)) \in U64
    BY EndowmentAssumption
  <1> QED
    BY <1>1, <1>3, <1>4, <1>5 DEF SuppliesCounted, CountedLedger, CountedLedgers

\* Supplies stay counted, whoever sends or burns what.
LEMMA SuppliesCountedStep == SuppliesCounted /\ [Next]_vars => SuppliesCounted'
  <1> SUFFICES ASSUME SuppliesCounted, [Next]_vars PROVE SuppliesCounted'
    OBVIOUS
  <1>1. {ledger} \subseteq CountedLedger /\ 1 \in Nat
    BY DEF SuppliesCounted
  <1>2. CASE UNCHANGED ledger
    BY <1>2 DEF SuppliesCounted, CountedLedger
  <1>3. CASE \E m \in Markets, user \in Users, size \in Sizes : Instruction(m, user, size)
    BY <1>3, InstructionCounted
  <1>4. ASSUME NEW user \in Users, NEW to \in Accounts, TokenTransfer(user, to)
        PROVE  SuppliesCounted'
    <2>1. ledger' \in Transfer({ledger}, user, <<user, MintOf(to)>>, to, 1)
      BY <1>4 DEF TokenTransfer
    <2> QED
      BY <1>1, <2>1, TransferKeepsCount DEF SuppliesCounted, CountedLedger
  <1>5. ASSUME NEW user \in Users, NEW mint \in ProgramMints, TokenBurn(user, mint)
        PROVE  SuppliesCounted'
    <2>1. ledger' \in Burn({ledger}, user, mint, 1)
      BY <1>5 DEF TokenBurn
    <2> QED
      BY <1>1, <2>1, BurntCounted DEF SuppliesCounted
  <1> QED
    BY <1>2, <1>3, <1>4, <1>5 DEF Next, InitializeMarket, Tick, Upgrade, vars

\* The supply that the mints record is what the accounts hold, and assets stay
\* what they were.
THEOREM SupplyCounted == Spec => []SuppliesCounted
  BY InitCounted, SuppliesCountedStep, PTL DEF Spec

\* A transfer that its accounts allow is made.
LEMMA TransferPays ==
    ASSUME NEW L, NEW l \in L, NEW authority, NEW from, NEW to, NEW amount,
           {from, to} \subseteq DOMAIN l.balance, OwnerOf(from) = authority,
           MintOf(from) = MintOf(to), amount <= l.balance[from],
           from # to => l.balance[to] + amount \in U64
    PROVE  Transfer(L, authority, from, to, amount) # {}
  BY DEF Transfer

\* What there is of an asset leaves room for a payment of it everywhere.
LEMMA RoomForPayment ==
    ASSUME NEW l \in CountedLedger, NEW asset \in Assets,
           NEW from \in Accounts, NEW to \in Accounts, from # to,
           MintOf(from) = asset, MintOf(to) = asset,
           NEW amount \in Nat, amount <= l.balance[from]
    PROVE  l.balance[to] + amount \in U64
  <1> DEFINE S == {x \in Accounts : MintOf(x) = asset}
  <1>1. /\ l.balance \in [Accounts -> U64]
        /\ IsFiniteSet(TokensOf(l.balance, asset))
        /\ Cardinality(TokensOf(l.balance, asset)) \in U64
    BY DEF CountedLedger, CountedLedgers, Ledgers
  <1>2. TokensOf(l.balance, asset) = Units(l.balance, S)
    BY <1>1, TokensAreUnits
  <1>3. from \in S /\ to \in S
    OBVIOUS
  <1>4. l.balance[from] \in Nat /\ l.balance[to] \in Nat
    BY <1>1, MaxU64Assumption DEF U64
  <1> HIDE DEF S
  <1>5. l.balance[to] + l.balance[from] <= Cardinality(TokensOf(l.balance, asset))
    BY <1>1, <1>2, <1>3, <1>4, UnitsOfTwo
  <1> QED
    BY <1>1, <1>4, <1>5, MaxU64Assumption DEF U64

\* No account holds more program tokens than there are.
LEMMA HeldIsSupplied ==
    ASSUME NEW l \in CountedLedger, NEW mint \in ProgramMints, NEW account \in Accounts,
           MintOf(account) = mint
    PROVE  l.balance[account] <= l.supply[mint]
  <1> DEFINE S == {x \in Accounts : MintOf(x) = mint}
  <1>1. /\ l.balance \in [Accounts -> U64]
        /\ IsFiniteSet(TokensOf(l.balance, mint))
        /\ Cardinality(TokensOf(l.balance, mint)) = l.supply[mint]
    BY DEF CountedLedger, CountedLedgers, Ledgers
  <1>2. TokensOf(l.balance, mint) = Units(l.balance, S)
    BY <1>1, TokensAreUnits
  <1>3. account \in S /\ l.balance[account] \in Nat
    BY <1>1, MaxU64Assumption DEF U64
  <1> HIDE DEF S
  <1> QED
    BY <1>1, <1>2, <1>3, UnitsOfOne

\* A writer token is redeemed from any pool that holds a contract.
LEMMA RedemptionPays ==
    ASSUME TypeOK, SuppliesCounted, NEW m \in Markets, NEW user \in Users,
           NEW pool \in {UnderlyingAssetPool(m), QuoteAssetPool(m)}, NEW perContract \in U64,
           perContract <= ledger.balance[pool],
           ledger.balance[<<user, WriterTokenMint(m)>>] > 0
    PROVE  RedeemWriterTokens({ledger}, m, user, WriterTokenMint(m), pool,
                              <<user, MintOf(pool)>>, perContract, 1) # {}
  <1> DEFINE mint == WriterTokenMint(m)
             holding == <<user, mint>>
             dest == <<user, MintOf(pool)>>
             burnt == [ balance |-> [ledger.balance EXCEPT ![holding] = @ - 1],
                        supply |-> [ledger.supply EXCEPT ![mint] = @ - 1] ]
  <1>1. /\ mint \in ProgramMints
        /\ MintOf(pool) \in Assets /\ pool \in Accounts /\ OwnerOf(pool) = m
    <2>1. Terms[m].underlying_asset_mint \in Assets /\ Terms[m].quote_asset_mint \in Assets
      BY TermsAssumption DEF MarketTerms
    <2> QED
      BY <2>1, MarketAccounts
  <1>2. /\ holding \in Accounts /\ MintOf(holding) = mint /\ OwnerOf(holding) = user
        /\ dest \in Accounts /\ MintOf(dest) = MintOf(pool)
    BY <1>1 DEF Accounts, MintOf, OwnerOf
  <1>3. pool # holding
    BY <1>1, <1>2, PartiesAssumption
  <1>4. /\ ledger \in CountedLedger
        /\ ledger.balance \in [Accounts -> U64] /\ ledger.supply \in [ProgramMints -> U64]
    BY DEF SuppliesCounted, TypeOK
  <1>5. ledger.balance[holding] \in Nat /\ ledger.supply[mint] \in Nat
    BY <1>1, <1>2, <1>4, MaxU64Assumption DEF U64
  <1>6. ledger.balance[holding] <= ledger.supply[mint]
    BY <1>1, <1>2, <1>4, HeldIsSupplied
  <1>7. 1 <= ledger.balance[holding] /\ 1 <= ledger.supply[mint]
    BY <1>5, <1>6
  <1>8. burnt \in Burn({ledger}, user, mint, 1)
    BY <1>1, <1>2, <1>4, <1>7 DEF Burn
  <1>9. burnt.balance[pool] = ledger.balance[pool] /\ DOMAIN burnt.balance = Accounts
    BY <1>1, <1>2, <1>3, <1>4
  <1> HIDE DEF burnt, mint, holding, dest
  <1>10. burnt \in CountedLedger
    <2>1. {ledger} \subseteq CountedLedger /\ 1 \in Nat
      BY <1>4
    <2> QED
      BY <1>8, <2>1, BurntCounted
  <1>11. perContract \in Nat /\ perContract \in CheckedMul(perContract, 1)
    BY MaxU64Assumption DEF CheckedMul, U64
  <1>12. pool # dest => burnt.balance[dest] + perContract \in U64
    BY <1>1, <1>2, <1>9, <1>10, <1>11, RoomForPayment
  <1>13. Transfer(Burn({ledger}, user, mint, 1), m, pool, dest, perContract) # {}
    <2>1. /\ {pool, dest} \subseteq DOMAIN burnt.balance
          /\ OwnerOf(pool) = m /\ MintOf(pool) = MintOf(dest)
          /\ perContract <= burnt.balance[pool]
      BY <1>1, <1>2, <1>9
    <2> QED
      BY <1>8, <1>12, <2>1, TransferPays
  <1> QED
    BY <1>11, <1>13 DEF RedeemWriterTokens, TransferTotal, mint, dest

\* A pool that holds one of n contracts, n not zero, holds what one takes.
LEMMA PoolHoldsContract ==
    ASSUME NEW balance \in Nat, NEW perContract \in Nat, perContract > 0,
           balance \div perContract >= 1
    PROVE  perContract <= balance
  <1> DEFINE n == balance \div perContract
  <1>1. n \in Nat /\ perContract * n <= balance
    BY DivBounds
  <1> HIDE DEF n
  <1>2. n >= 1
    BY DEF n
  <1> QED
    BY <1>1, <1>2, SMT

\* Whoever holds a writer token of an expired market finds it behind one of the
\* two instructions that redeem it.
LEMMA ExitFound ==
    ASSUME IInv, SuppliesCounted, NEW m \in markets, NEW user \in Users,
           ledger.balance[<<user, WriterTokenMint(m)>>] > 0
    PROVE  ClosePostExpirationPays(m, user) \/ BurnWriterForQuotePays(m, user)
  <1> DEFINE U == Terms[m].underlying_amount_per_contract
             Q == Terms[m].quote_amount_per_contract
  <1> USE DEF IInv
  <1>1. m \in Markets /\ U > 0 /\ Q > 0
    BY TypeFacts DEF MarketsWellFormed
  <1>2. /\ U \in Nat /\ Q \in Nat /\ U \in U64 /\ Q \in U64
        /\ ledger.balance[UnderlyingAssetPool(m)] \in Nat
        /\ ledger.balance[QuoteAssetPool(m)] \in Nat
    BY <1>1, NaturalSupplies, MarketAccounts
  <1>3. WriterSupply(m) >= 1
    <2>1. /\ <<user, WriterTokenMint(m)>> \in Accounts
          /\ MintOf(<<user, WriterTokenMint(m)>>) = WriterTokenMint(m)
          /\ WriterTokenMint(m) \in ProgramMints
      BY <1>1, MarketAccounts DEF Accounts, MintOf
    <2>2. ledger.balance[<<user, WriterTokenMint(m)>>] \in Nat
      BY <2>1, MaxU64Assumption DEF TypeOK, U64
    <2>3. ledger.balance[<<user, WriterTokenMint(m)>>] <= WriterSupply(m)
      BY <2>1, HeldIsSupplied DEF SuppliesCounted, WriterSupply
    <2> QED
      BY <1>1, <2>2, <2>3, NaturalSupplies
  <1>4. UnderlyingContracts(m) >= 1 \/ QuoteContracts(m) >= 1
    <2>1. /\ WriterSupply(m) <= UnderlyingContracts(m) + QuoteContracts(m)
          /\ WriterSupply(m) \in Nat /\ UnderlyingContracts(m) \in Nat /\ QuoteContracts(m) \in Nat
      BY CountsAreNaturals DEF WritersCovered
    <2> QED
      BY <1>3, <2>1
  <1>5. CASE UnderlyingContracts(m) >= 1
    <2>1. U <= ledger.balance[UnderlyingAssetPool(m)]
      BY <1>1, <1>2, <1>5, PoolHoldsContract DEF UnderlyingContracts
    <2> DEFINE a == [ writer_token_mint |-> WriterTokenMint(m),
                      underlying_asset_pool |-> UnderlyingAssetPool(m),
                      underlying_asset_dest |-> <<user, MintOf(UnderlyingAssetPool(m))>> ]
    <2>2. a.underlying_asset_dest \in AccountsOf(Terms[m].underlying_asset_mint)
      <3>1. Terms[m].underlying_asset_mint \in Assets
        BY <1>1, TermsAssumption DEF MarketTerms
      <3>2. user \notin Markets
        BY PartiesAssumption
      <3> QED
        BY <1>1, <3>1, <3>2, MarketAccounts DEF AccountsOf, Accounts, MintOf, OwnerOf
    <2>3. a \in ClosePostExpAccounts(m)
      BY <2>2 DEF ClosePostExpAccounts
    <2>4. OwnerOf(a.underlying_asset_dest) = user
      BY DEF OwnerOf
    <2>5. RedeemWriterTokens({ledger}, m, user, a.writer_token_mint, a.underlying_asset_pool,
                             a.underlying_asset_dest, U, 1) # {}
      BY <1>1, <1>2, <2>1, RedemptionPays
    <2> QED
      BY <2>3, <2>4, <2>5 DEF ClosePostExpirationPays
  <1>6. CASE QuoteContracts(m) >= 1
    <2>1. Q <= ledger.balance[QuoteAssetPool(m)]
      BY <1>1, <1>2, <1>6, PoolHoldsContract DEF QuoteContracts
    <2> DEFINE a == [ writer_token_mint |-> WriterTokenMint(m),
                      quote_asset_pool |-> QuoteAssetPool(m) ]
    <2>2. a \in BurnWriterForQuoteAccounts(m)
      BY DEF BurnWriterForQuoteAccounts
    <2>3. QuotesInPool(m, a.quote_asset_pool, 1)
      <3>1. Q \in CheckedMul(1, Q)
        BY <1>2 DEF CheckedMul
      <3>2. ~(ledger.balance[QuoteAssetPool(m)] < Q)
        BY <1>2, <2>1
      <3> QED
        BY <3>1, <3>2 DEF QuotesInPool
    <2>4. RedeemWriterTokens({ledger}, m, user, a.writer_token_mint, a.quote_asset_pool,
                             <<user, MintOf(a.quote_asset_pool)>>, Q, 1) # {}
      BY <1>1, <1>2, <2>1, RedemptionPays
    <2> QED
      BY <2>2, <2>3, <2>4 DEF BurnWriterForQuotePays
  <1> QED
    BY <1>4, <1>5, <1>6

\* No holder of a writer token of an expired market is stuck, whichever pool
\* the others have drained.
THEOREM WritersExit == Spec => []WriterCanExit
  <1>1. IInv /\ SuppliesCounted => WriterCanExit
    BY ExitFound DEF WriterCanExit
  <1> QED
    BY <1>1, Invariance, SupplyCounted, PTL
=============================================================================

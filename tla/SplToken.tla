------------------------------ MODULE SplToken ------------------------------
(***************************************************************************)
(* The token program, as psy_american calls it through anchor_spl.  It is  *)
(* not part of the repository: the operations are modelled from what the   *)
(* handlers rely on, each either applied as a whole or aborting the        *)
(* transaction that calls it.                                              *)
(*                                                                         *)
(* An owner has one account per mint, <<owner, mint>>, whose authority is  *)
(* the owner.  A ledger holds the balance of every account and the supply  *)
(* of the mints whose tokens are created and destroyed here; native        *)
(* lamports are kept as the balances of one more mint.                     *)
(*                                                                         *)
(* An operation takes a set of ledgers and returns the set of ledgers it   *)
(* turns them into, so that a handler is a chain of operations: the empty  *)
(* set stands for a transaction that has aborted, and stays empty.         *)
(***************************************************************************)
EXTENDS Integers, FiniteSets

CONSTANT MaxU64

ASSUME MaxU64Assumption == MaxU64 \in Nat

U64 == 0..MaxU64

OwnerOf(account) == account[1]
MintOf(account) == account[2]

\* The tokens of a mint, one by one: the i-th of each account.  For an asset
\* they are the supply that its mint records, a u64.
TokensOf(balance, mint) ==
    UNION { {a} \X (1..balance[a]) : a \in {x \in DOMAIN balance : MintOf(x) = mint} }

\* Rust's checked_mul: no value when the product does not fit.
CheckedMulWraps(a, b) == {(a * b) % (MaxU64 + 1)}
CheckedMul(a, b) == {a * b} \cap U64

\* The authority that may create tokens of <<kind, market>> is the market.
MintAuthority(mint) == mint[2]

Transfer(ledgers, authority, from, to, amount) ==
    { [ balance |-> [l.balance EXCEPT ![from] = @ - amount, ![to] = @ + amount],
        supply |-> l.supply ] :
        l \in { k \in ledgers :
                  /\ {from, to} \subseteq DOMAIN k.balance
                  /\ OwnerOf(from) = authority
                  /\ MintOf(from) = MintOf(to)
                  /\ amount <= k.balance[from]
                  /\ from # to => k.balance[to] + amount \in U64 } }

MintTo(ledgers, authority, mint, to, amount) ==
    { [ balance |-> [l.balance EXCEPT ![to] = @ + amount],
        supply |-> [l.supply EXCEPT ![mint] = @ + amount] ] :
        l \in { k \in ledgers :
                  /\ to \in DOMAIN k.balance
                  /\ mint \in DOMAIN k.supply
                  /\ MintAuthority(mint) = authority
                  /\ MintOf(to) = mint
                  /\ k.balance[to] + amount \in U64
                  /\ k.supply[mint] + amount \in U64 } }

\* An authority burns from its own account of the mint.
BurnUnchecked(ledgers, authority, mint, amount) ==
    { [ balance |-> [l.balance EXCEPT ![<<authority, mint>>] = @ - amount],
        supply |-> [l.supply EXCEPT ![mint] = @ - amount] ] :
        l \in { k \in ledgers : <<authority, mint>> \in DOMAIN k.balance } }
Burn(ledgers, authority, mint, amount) ==
    { [ balance |-> [l.balance EXCEPT ![<<authority, mint>>] = @ - amount],
        supply |-> [l.supply EXCEPT ![mint] = @ - amount] ] :
        l \in { k \in ledgers :
                  /\ <<authority, mint>> \in DOMAIN k.balance
                  /\ mint \in DOMAIN k.supply
                  /\ amount <= k.balance[<<authority, mint>>]
                  /\ amount <= k.supply[mint] } }
=============================================================================

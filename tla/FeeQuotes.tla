------------------------------ MODULE FeeQuotes ------------------------------
(***************************************************************************)
(* The fees quoted for every size of contract, one after the other: the    *)
(* state is the number of tokens per contract of the market being quoted.  *)
(***************************************************************************)
EXTENDS Fees

CONSTANT MaxQuantity   \* the largest quantity quoted: 2^64 - 1 in the code

\* A quantity is a u64, and One is the number of its values.
ASSUME QuantityAssumption == MaxQuantity \in Nat /\ MaxQuantity < One

VARIABLE quantity

Init == quantity = 0

NextQuantity ==
    /\ quantity < MaxQuantity
    /\ quantity' = quantity + 1

Spec == Init /\ [][NextQuantity]_quantity

TypeOK == quantity \in 0..MaxQuantity

-----------------------------------------------------------------------------
\* The exact fee, rounded down to whole tokens, of the documented rate.
NominalFee == (FeeBps * quantity) \div BpsDenominator

\* The fee is never below the nominal rate, and above it by at most one token
\* per contract (fees.rs: the rate is rounded down and then raised by one unit).
FeeWithinOneToken ==
    FeeAmount(quantity) \in {NominalFee, NominalFee + 1}

\* Below One / ClientDivisor tokens (9.2e15 in the code) the rounding of the
\* rate does not show: the fee is the nominal one to the token.
FeeExactForCommonSizes ==
    quantity * ClientDivisor < One => FeeAmount(quantity) = NominalFee

\* The client passes a fee account exactly when the program asks for one
\* (mintOption.ts passes it iff its own fee is positive; validate_mint_fee_acct
\* takes an account iff the program's fee is): were the two to disagree on one
\* quantity, no mint built by the client would succeed in that market.
ClientPassesFeeAccountWhenRequired ==
    PassesFeeAccount(quantity) <=> FeeInTokens(quantity)

\* mul_u64 cannot overflow its u128 and floor() fits a u64.
ProductFitsU128 ==
    /\ FeeProduct(quantity) < One * One
    /\ FeeAmount(quantity) < One
=============================================================================

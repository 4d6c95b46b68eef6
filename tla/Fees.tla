-------------------------------- MODULE Fees --------------------------------
(***************************************************************************)
(* The fee arithmetic of psy_american (fees.rs) and of its client          *)
(* (fees.ts).  A fee is a rate in unsigned 64.64 fixed point times a       *)
(* number of tokens, rounded down to whole tokens.                         *)
(***************************************************************************)
EXTENDS Integers

\* Some operators of this project have a variant before them, named after what
\* it leaves out: the mutation runs put the variant in the operator's place to
\* see the properties fail.

CONSTANTS
    One,             \* the fixed-point number 1.0: 2^64 in U64F64
    FeeBps,          \* the fee in basis points, 5 in the program
    BpsDenominator   \* basis points in the whole, 10_000 in the program

\* What the client divides by, `10_000 / 5`.
ClientDivisor == BpsDenominator \div FeeBps

\* The last two conjuncts hold of the deployed values: 10_000 = 5 * 2_000 and
\* 2_000 * 2_000 <= 2^64.
ASSUME FeesAssumption ==
    /\ One \in Nat \ {0}
    /\ FeeBps \in Nat \ {0}
    /\ BpsDenominator \in Nat \ {0}
    /\ FeeBps * ClientDivisor = BpsDenominator
    /\ ClientDivisor * ClientDivisor <= One

\* A number of basis points as a fixed-point fraction, rounded down.
FeeBpsWhole(bps) == bps * One
FeeBpsFixed(bps) == (bps * One) \div BpsDenominator

\* One unit in the last place is added so that the fee of an exact multiple
\* does not round down to one token less.
FeeRateUnadjusted == FeeBpsFixed(FeeBps)
FeeRate == FeeBpsFixed(FeeBps) + 1

\* The product that mul_u64 holds in a u128 before floor() drops its fraction.
FeeProduct(assetQuantity) == FeeRate * assetQuantity

FeeAmountRoundedUp(assetQuantity) == (FeeProduct(assetQuantity) + One - 1) \div One
FeeAmount(assetQuantity) == FeeProduct(assetQuantity) \div One

\* Whether the program asks for a fee account and charges it.
FeeInTokens(assetQuantity) == FeeAmount(assetQuantity) > 0

\* The client's own idea of the fee, which only decides whether a fee account
\* is passed to the program.
FeeAmountPerContract(assetQuantity) == assetQuantity \div ClientDivisor
PassesFeeAccount(assetQuantity) == FeeAmountPerContract(assetQuantity) > 0
=============================================================================

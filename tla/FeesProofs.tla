----------------------------- MODULE FeesProofs -----------------------------
(***************************************************************************)
(* The fee of a contract of any size, for any fixed-point width and any    *)
(* rate that divides the whole.                                            *)
(*                                                                         *)
(* With D for ClientDivisor the exact fee of q tokens is q / D, and the    *)
(* rate is the least fixed-point number above 1 / D.  The proofs bracket   *)
(* the rate, then the product, and compare the integer parts.              *)
(***************************************************************************)
EXTENDS FeeQuotes, ArithmeticLemmas

\* The divisor divides the whole exactly, and its square fits in fixed point.
LEMMA Parameters ==
    /\ One \in Nat /\ One > 0
    /\ FeeBps \in Nat /\ FeeBps > 0
    /\ BpsDenominator \in Nat /\ BpsDenominator > 0
    /\ FeeBps * ClientDivisor = BpsDenominator
    /\ ClientDivisor * ClientDivisor <= One
    /\ ClientDivisor \in Nat /\ ClientDivisor > 0
  <1>1. /\ One \in Nat /\ One > 0 /\ FeeBps \in Nat /\ FeeBps > 0
        /\ BpsDenominator \in Nat /\ BpsDenominator > 0
        /\ FeeBps * ClientDivisor = BpsDenominator
        /\ ClientDivisor * ClientDivisor <= One
    BY FeesAssumption
  <1>2. ClientDivisor \in Nat
    BY <1>1, DivBounds DEF ClientDivisor
  <1> QED
    BY <1>1, <1>2

\* The rate is the least fixed-point number above one in ClientDivisor.
LEMMA RateBounds ==
    /\ FeeRate \in Nat
    /\ One < ClientDivisor * FeeRate
    /\ ClientDivisor * FeeRate <= One + ClientDivisor
    /\ FeeRate <= One + 1
  BY Parameters, RateOfDivisor DEF FeeRate, FeeBpsFixed, ClientDivisor

\* Client and program agree on which quantities pay a fee.
LEMMA FeesAgree ==
    ASSUME NEW q \in Nat
    PROVE  PassesFeeAccount(q) <=> FeeInTokens(q)
  <1> DEFINE d == ClientDivisor
             rate == FeeRate
  <1>1. /\ One \in Nat /\ One > 0
        /\ FeeBps \in Nat /\ FeeBps > 0
        /\ BpsDenominator \in Nat /\ BpsDenominator > 0
        /\ FeeBps * d = BpsDenominator /\ d * d <= One
    BY FeesAssumption
  <1>2. d = BpsDenominator \div FeeBps /\ rate = (FeeBps * One) \div BpsDenominator + 1
    BY DEF ClientDivisor, FeeRate, FeeBpsFixed
  <1> HIDE DEF d, rate
  <1>3. q \div d > 0 <=> (rate * q) \div One > 0
    BY <1>1, <1>2, SameQuantitiesPay
  <1> QED
    BY <1>3 DEF d, rate, PassesFeeAccount, FeeAmountPerContract, FeeInTokens, FeeAmount, FeeProduct

\* With a rate of one in ClientDivisor the exact fee is a whole-number division.
LEMMA NominalFeeIs == TypeOK => NominalFee = quantity \div ClientDivisor
  <1> SUFFICES ASSUME TypeOK PROVE NominalFee = quantity \div ClientDivisor
    OBVIOUS
  <1>1. quantity \in Nat
    BY QuantityAssumption DEF TypeOK
  <1>2. (FeeBps * quantity) \div (FeeBps * ClientDivisor) = quantity \div ClientDivisor
    BY <1>1, Parameters, CommonFactor
  <1>3. FeeBps * ClientDivisor = BpsDenominator
    BY Parameters
  <1> QED
    BY ONLY <1>2, <1>3 DEF NominalFee

\* The quantity, the nominal fee and the fee, each bracketed.
LEMMA FeeBrackets ==
    ASSUME TypeOK
    PROVE  /\ quantity \in Nat /\ quantity < One
           /\ NominalFee \in Nat
           /\ ClientDivisor * NominalFee <= quantity
           /\ quantity < ClientDivisor * NominalFee + ClientDivisor
           /\ FeeAmount(quantity) \in Nat
           /\ One * FeeAmount(quantity) <= FeeRate * quantity
           /\ FeeRate * quantity < One * FeeAmount(quantity) + One
  <1>1. quantity \in Nat /\ quantity < One
    BY QuantityAssumption, Parameters DEF TypeOK
  <1>2. FeeRate * quantity \in Nat
    BY <1>1, RateBounds
  <1> QED
    BY <1>1, <1>2, NominalFeeIs, Parameters, DivBounds DEF FeeAmount, FeeProduct

\* The fee is never below the nominal one.
LEMMA FeeAtLeastNominal ==
    ASSUME TypeOK
    PROVE  FeeAmount(quantity) >= NominalFee
  <1> DEFINE D == ClientDivisor
             R == FeeRate
             n == NominalFee
             f == FeeAmount(quantity)
  <1>1. /\ One \in Nat /\ One > 0 /\ D \in Nat /\ R \in Nat /\ n \in Nat /\ f \in Nat
        /\ quantity \in Nat
        /\ D * n <= quantity /\ One < D * R /\ R * quantity < One * f + One
    BY Parameters, RateBounds, FeeBrackets
  <1> HIDE DEF D, R, n, f
  <1>2. R * (D * n) <= R * quantity
    BY <1>1, SMT
  <1>3. One * n <= (D * R) * n
    BY <1>1, SMT
  <1>4. (D * R) * n = R * (D * n)
    BY <1>1, SMT
  <1>5. One * n < One * (f + 1)
    BY <1>1, <1>2, <1>3, <1>4, SMT
  <1>6. n < f + 1
    BY <1>1, <1>5, SMT
  <1> QED
    BY <1>1, <1>6 DEF n, f

\* ClientDivisor times the fee exceeds the quantity by little.
LEMMA FeeTimesDivisor ==
    ASSUME TypeOK
    PROVE  One * (ClientDivisor * FeeAmount(quantity)) <= One * quantity + ClientDivisor * quantity
  <1> DEFINE D == ClientDivisor
             R == FeeRate
             f == FeeAmount(quantity)
  <1>1. /\ One \in Nat /\ D \in Nat /\ R \in Nat /\ f \in Nat /\ quantity \in Nat
        /\ One * f <= R * quantity
        /\ D * R <= One + D
    BY Parameters, RateBounds, FeeBrackets
  <1> HIDE DEF D, R, f
  <1>2. D * (One * f) <= D * (R * quantity)
    BY <1>1, SMT
  <1>3. (D * R) * quantity <= (One + D) * quantity
    BY <1>1, SMT
  <1>4. D * (R * quantity) = (D * R) * quantity
    BY <1>1, SMT
  <1>5. /\ D * (One * f) = One * (D * f)
        /\ (One + D) * quantity = One * quantity + D * quantity
    BY <1>1, SMT
  <1> QED
    BY <1>1, <1>2, <1>3, <1>4, <1>5 DEF D, f

\* The fee is at most one token above the nominal one.
LEMMA FeeAtMostOneMore ==
    ASSUME TypeOK
    PROVE  FeeAmount(quantity) <= NominalFee + 1
  <1> DEFINE D == ClientDivisor
             n == NominalFee
             f == FeeAmount(quantity)
  <1>1. /\ One \in Nat /\ One > 0 /\ D \in Nat /\ D > 0 /\ n \in Nat /\ f \in Nat
        /\ quantity \in Nat /\ quantity < One
        /\ quantity < D * n + D
        /\ One * (D * f) <= One * quantity + D * quantity
    BY Parameters, FeeBrackets, FeeTimesDivisor
  <1> HIDE DEF D, n, f
  <1>2. D * quantity <= D * One
    BY <1>1, SMT
  <1>3. One * (D * f) <= One * (quantity + D)
    BY <1>1, <1>2, SMT
  <1>4. D * f <= quantity + D
    BY <1>1, <1>3, SMT
  <1>5. D * f < D * (n + 2)
    BY <1>1, <1>4, SMT
  <1>6. f < n + 2
    BY <1>1, <1>5, SMT
  <1> QED
    BY <1>1, <1>6 DEF n, f

\* Below One / ClientDivisor tokens it is the nominal one.
LEMMA SmallFeeExact ==
    ASSUME TypeOK, quantity * ClientDivisor < One
    PROVE  FeeAmount(quantity) = NominalFee
  <1> DEFINE D == ClientDivisor
             n == NominalFee
             f == FeeAmount(quantity)
  <1>1. /\ One \in Nat /\ One > 0 /\ D \in Nat /\ D > 0 /\ n \in Nat /\ f \in Nat
        /\ quantity \in Nat
        /\ quantity * D < One
        /\ quantity < D * n + D
        /\ One * (D * f) <= One * quantity + D * quantity
    BY Parameters, FeeBrackets, FeeTimesDivisor
  <1>2. f >= n
    BY FeeAtLeastNominal
  <1> HIDE DEF D, n, f
  <1>3. One * (D * f) < One * (quantity + 1)
    BY <1>1, SMT
  <1>4. D * f < quantity + 1
    BY <1>1, <1>3, SMT
  <1>5. D * f < D * (n + 1)
    BY <1>1, <1>4, SMT
  <1>6. f < n + 1
    BY <1>1, <1>5, SMT
  <1> QED
    BY <1>1, <1>2, <1>6 DEF n, f

\* The product is below 2^128, and its integer part below 2^64.
LEMMA ProductFits == TypeOK => ProductFitsU128
  <1> SUFFICES ASSUME TypeOK PROVE ProductFitsU128
    OBVIOUS
  <1> DEFINE R == FeeRate
             f == FeeAmount(quantity)
  <1>1. /\ One \in Nat /\ One > 0 /\ R \in Nat /\ f \in Nat
        /\ quantity \in Nat /\ quantity <= One - 1
        /\ R <= One + 1
        /\ One * f <= R * quantity
    BY Parameters, RateBounds, FeeBrackets
  <1> HIDE DEF R, f
  <1>2. R * quantity <= (One + 1) * quantity
    BY <1>1, SMT
  <1>3. (One + 1) * quantity <= (One + 1) * (One - 1)
    BY <1>1, SMT
  <1>4. (One + 1) * (One - 1) < One * One
    BY <1>1, SMT
  <1>5. R * quantity < One * One
    BY <1>1, <1>2, <1>3, <1>4, SMT
  <1>6. One * f < One * One
    BY <1>1, <1>5, SMT
  <1>7. f < One
    BY <1>1, <1>6, SMT
  <1> QED
    BY <1>5, <1>7 DEF ProductFitsU128, FeeProduct, R, f

-----------------------------------------------------------------------------
\* Quantities stay within the integers quoted.
THEOREM QuantityCorrect == Spec => []TypeOK
  <1>1. Init => TypeOK
    BY QuantityAssumption DEF Init, TypeOK
  <1>2. TypeOK /\ [NextQuantity]_quantity => TypeOK'
    BY QuantityAssumption DEF NextQuantity, TypeOK
  <1> QED
    BY <1>1, <1>2, PTL DEF Spec

\* The fee of every quantity is the nominal fee or one token more.
THEOREM FeeWithinOne == Spec => []FeeWithinOneToken
  <1>1. TypeOK => FeeWithinOneToken
    BY FeeAtLeastNominal, FeeAtMostOneMore, FeeBrackets DEF FeeWithinOneToken
  <1> QED
    BY <1>1, QuantityCorrect, PTL

\* Up to One / ClientDivisor tokens the fee is exactly the nominal one.
THEOREM FeeExact == Spec => []FeeExactForCommonSizes
  <1>1. TypeOK => FeeExactForCommonSizes
    BY SmallFeeExact DEF FeeExactForCommonSizes
  <1> QED
    BY <1>1, QuantityCorrect, PTL

\* Client and program agree on every market about who pays lamports: a mint
\* built by the client carries a fee account if and only if it must.
THEOREM ClientAgrees == Spec => []ClientPassesFeeAccountWhenRequired
  <1>1. TypeOK => ClientPassesFeeAccountWhenRequired
    BY FeesAgree DEF TypeOK, ClientPassesFeeAccountWhenRequired
  <1> QED
    BY <1>1, QuantityCorrect, PTL

\* No quantity of tokens overflows the arithmetic of fees.rs.
THEOREM NoOverflow == Spec => []ProductFitsU128
  BY ProductFits, QuantityCorrect, PTL
=============================================================================

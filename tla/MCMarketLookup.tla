--------------------------- MODULE MCMarketLookup ---------------------------
(***************************************************************************)
(* An instance of MarketLookup for TLC.                                    *)
(***************************************************************************)
EXTENDS MarketLookup

CONSTANTS btc, usd, eur

Market(underlying, quote, amounts, expiration) ==
    [underlying_mint |-> underlying, quote_mint |-> quote,
     underlying_amount |-> amounts[1], quote_amount |-> amounts[2], expiration |-> expiration]

\* A call and one with its amounts exchanged, a market the client does not
\* support, and two markets whose amounts a double does not tell apart.
FiveTerms ==
    { Market(btc, usd, <<1, 3>>, 2), Market(btc, usd, <<3, 1>>, 2), Market(btc, eur, <<1, 3>>, 2),
      Market(btc, usd, <<8, 1>>, 2), Market(btc, usd, <<9, 1>>, 2) }
BtcAndUsd == {btc, usd}
=============================================================================

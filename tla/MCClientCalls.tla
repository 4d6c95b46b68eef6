--------------------------- MODULE MCClientCalls ---------------------------
(***************************************************************************)
(* Instances of ClientCalls for TLC, over the terms of MCPsyAmerican.      *)
(***************************************************************************)
EXTENDS ClientCalls, MCPsyAmerican

\* A call whose mint fee is lamports and whose exercise fee is a token, and
\* the put that mirrors it, whose fees are the other way round.  Alice can write
\* the call or, given an option, exercise the put; Bob the opposite.
\* A third market, too large for either to write in, has both in tokens.
CallAndPutTerms == [ m \in {m1, m2, m3} |->
    IF m = m3
    THEN [ OneMarketTerms[m1] EXCEPT !.quote_amount_per_contract = 2, !.expiration_unix_timestamp = 0 ]
    ELSE [ TwoMarketTerms[m] EXCEPT !.expiration_unix_timestamp = 0 ] ]
CallAndPutEndowment ==
    [ a \in Accounts |->
        CASE a = <<alice, btc>> -> 1
          [] a = <<alice, Sol>> -> 1
          [] a = <<bob, usd>> -> 3
          [] OTHER -> 0 ]
=============================================================================

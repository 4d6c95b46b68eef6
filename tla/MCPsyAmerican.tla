---------------------------- MODULE MCPsyAmerican ----------------------------
(***************************************************************************)
(* Instances of PsyAmerican for TLC.                                       *)
(***************************************************************************)
EXTENDS PsyAmericanRefinement

CONSTANTS alice, bob, m1, m2, m3, m4, btc, usd, sol, feeOwner

\* One market: two tokens of underlying per contract, which makes its fee a
\* token, and one of quote, which makes its fee lamports.
OneMarketTerms ==
    [ m \in {m1} |->
        [ underlying_asset_mint |-> btc, quote_asset_mint |-> usd,
          underlying_amount_per_contract |-> 2, quote_amount_per_contract |-> 1,
          expiration_unix_timestamp |-> 1 ] ]

\* Alice can write two contracts and pay one mint fee, Bob can exercise both.
OneMarketEndowment ==
    [ a \in Accounts |->
        CASE a = <<alice, btc>> -> 5
          [] a = <<bob, usd>> -> 2
          [] a = <<bob, Sol>> -> 1
          [] OTHER -> 0 ]

\* Alice can write two contracts, of which Bob can exercise one; a token more
\* lets the pools receive what is not theirs.
WindDownEndowment ==
    [ a \in Accounts |->
        CASE a = <<alice, btc>> -> 4
          [] a = <<bob, usd>> -> 1
          [] OTHER -> 0 ]

\* A call, the put that mirrors it and expires later, and two markets that no
\* instruction may create: one with no strike, one with a single asset.
TwoMarketTerms ==
    [ m \in {m1, m2, m3, m4} |->
        [ underlying_asset_mint |-> IF m = m2 THEN usd ELSE btc,
          quote_asset_mint |-> IF m \in {m2, m4} THEN btc ELSE usd,
          underlying_amount_per_contract |-> IF m = m2 THEN 2 ELSE 1,
          quote_amount_per_contract |-> CASE m = m1 -> 2 [] m = m3 -> 0 [] OTHER -> 1,
          expiration_unix_timestamp |-> IF m = m1 THEN 0 ELSE 1 ] ]

\* Alice can write the call; Bob can write the put and exercise the call, or
\* write the put twice.
TwoMarketEndowment ==
    [ a \in Accounts |->
        CASE a = <<alice, btc>> -> 1
          [] a = <<bob, usd>> -> 4
          [] OTHER -> 0 ]
=============================================================================

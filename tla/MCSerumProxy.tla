---------------------------- MODULE MCSerumProxy ----------------------------
(***************************************************************************)
(* Instances of SerumProxy for TLC.                                        *)
(***************************************************************************)
EXTENDS SerumProxy

CONSTANTS o1, o2, usd, l1, l2, alice, bob

\* One client lists the options of the first market and another those of the
\* second, in competition with anybody else.
Pairs == [l \in Listers |-> IF l = l2 THEN <<o2, usd>> ELSE <<o1, usd>>]

\* The vaults of the second only get an owner past the nonces that are tried.
FirstHasOwner == [market \in SerumMarkets |-> IF OptionMarketOf(market) = o1 THEN {0, 2} ELSE {2}]
BothHaveOwners == [market \in SerumMarkets |-> IF OptionMarketOf(market) = o1 THEN {0, 2} ELSE {1}]

\* The first market expires while the second is alive.
ExpirationInTurn == [o \in OptionMarkets |-> IF o = o1 THEN 0 ELSE 1]
Bumps == [market \in SerumMarkets |-> IF OptionMarketOf(market) = o1 THEN 255 ELSE 254]

Loader(o, bump, market) ==
    [optionMarketKey |-> o, marketAuthorityBump |-> bump, marketKey |-> market]

\* What the helpers load: the option market that the DEX market was listed for.
OwnOptionMarket ==
    {Loader(OptionMarketOf(market), Bumps[market], market) : market \in SerumMarkets}
FirstOptionMarket == {loader \in OwnOptionMarket : loader.optionMarketKey = o1}
\* What marketLoader allows: any option market with any DEX market.
AnyOptionMarket ==
    {Loader(o, Bumps[market], market) : o \in OptionMarkets, market \in SerumMarkets}
=============================================================================

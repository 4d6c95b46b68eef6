---------------------------- MODULE MCV1Builders ----------------------------
(***************************************************************************)
(* An instance of V1Builders for TLC.                                      *)
(***************************************************************************)
EXTENDS V1Builders

CONSTANTS w1, w2

\* Both wallets wrote; the second one bought one of the first one's options.
BothWrite == [w \in Wallets |-> IF w = w1 THEN 2 ELSE 1]
SecondHolds == [w \in Wallets |-> IF w = w1 THEN 1 ELSE 2]
=============================================================================

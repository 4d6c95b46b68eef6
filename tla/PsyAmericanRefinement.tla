------------------------ MODULE PsyAmericanRefinement ------------------------
(***************************************************************************)
(* psy_american implements CoveredOptions: whole contracts of each pool    *)
(* stand for the contracts the abstract market holds, so that tokens that  *)
(* do not add up to a contract, fees, and every other account are hidden.  *)
(***************************************************************************)
EXTENDS PsyAmerican

CoveredOptions == INSTANCE CoveredOptions WITH
    MaxContracts <- MaxU64,
    listed <- markets,
    expired <- {m \in markets : ~Alive(m)},
    issuing <- ~blocked,
    locked <- [m \in Markets |-> IF m \in markets THEN UnderlyingContracts(m) ELSE 0],
    proceeds <- [m \in Markets |-> IF m \in markets THEN QuoteContracts(m) ELSE 0],
    options <- [m \in Markets |-> OptionSupply(m)],
    writers <- [m \in Markets |-> WriterSupply(m)]

\* Every behaviour of the program is one of the abstract market's: each
\* instruction takes the contracts its tokens stand for out of the pool it
\* names, out of no other, and only while the abstract market allows it.
ImplementsCoveredOptions == CoveredOptions!Spec
=============================================================================

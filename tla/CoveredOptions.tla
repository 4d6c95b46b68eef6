--------------------------- MODULE CoveredOptions ---------------------------
(***************************************************************************)
(* What a market of covered American options promises, counted in          *)
(* contracts and without accounts, amounts, signatures or fees.            *)
(***************************************************************************)
EXTENDS Integers

CONSTANTS
    Markets,
    MaxContracts   \* bound on the contracts one transaction deals in

VARIABLES
    listed,      \* markets that have been created
    expired,     \* those past their expiration
    issuing,     \* TRUE while contracts may still be written
    locked,      \* contracts of underlying each market holds
    proceeds,    \* contracts of quote each market holds
    options,     \* option tokens in circulation
    writers      \* writer tokens in circulation

vars == <<listed, expired, issuing, locked, proceeds, options, writers>>

Counts == [Markets -> Nat]

TypeOK ==
    /\ listed \subseteq Markets
    /\ expired \subseteq listed
    /\ issuing \in BOOLEAN
    /\ locked \in Counts
    /\ proceeds \in Counts
    /\ options \in Counts
    /\ writers \in Counts

None == [m \in Markets |-> 0]

Init ==
    /\ listed = {}
    /\ expired = {}
    /\ issuing = TRUE
    /\ locked = None
    /\ proceeds = None
    /\ options = None
    /\ writers = None

\* A pool gives up at most the contracts a transaction takes out of it, and
\* may gain more than it puts in: anybody may send it tokens.
AtLeast(pool, paid, m, change) ==
    /\ paid \in Counts
    /\ \A k \in Markets : paid[k] >= pool[k] + (IF k = m THEN change ELSE 0)

Changes(m, n, lockedBy, proceedsBy, optionsBy, writersBy) ==
    /\ AtLeast(locked, locked', m, lockedBy * n)
    /\ AtLeast(proceeds, proceeds', m, proceedsBy * n)
    /\ options' = [options EXCEPT ![m] = @ + optionsBy * n]
    /\ writers' = [writers EXCEPT ![m] = @ + writersBy * n]
    /\ UNCHANGED <<listed, expired, issuing>>

List(m) ==
    /\ issuing
    /\ m \notin listed
    /\ listed' = listed \cup {m}
    /\ UNCHANGED <<expired, issuing, locked, proceeds, options, writers>>

Write(m, n) ==
    /\ issuing
    /\ m \in listed \ expired
    /\ Changes(m, n, 1, 0, 1, 1)

Exercise(m, n) ==
    /\ m \in listed \ expired
    /\ n <= options[m]
    /\ Changes(m, n, -1, 1, -1, 0)

Close(m, n) ==
    /\ m \in listed
    /\ n <= options[m] /\ n <= writers[m]
    /\ Changes(m, n, -1, 0, -1, -1)

RedeemForUnderlying(m, n) ==
    /\ m \in expired
    /\ n <= writers[m]
    /\ Changes(m, n, -1, 0, 0, -1)

RedeemForQuote(m, n) ==
    /\ m \in listed
    /\ n <= writers[m]
    /\ Changes(m, n, 0, -1, 0, -1)

\* A holder gives up tokens, or a wallet sends some to a pool.
Forfeit(m) ==
    \/ options[m] > 0 /\ Changes(m, 1, 0, 0, -1, 0)
    \/ writers[m] > 0 /\ Changes(m, 1, 0, 0, 0, -1)
    \/ Changes(m, 0, 0, 0, 0, 0)

Expire ==
    /\ expired' \subseteq listed
    /\ expired \subseteq expired'
    /\ UNCHANGED <<listed, issuing, locked, proceeds, options, writers>>

StopIssuing ==
    /\ issuing' = FALSE
    /\ UNCHANGED <<listed, expired, locked, proceeds, options, writers>>

Next ==
    \/ \E m \in Markets : List(m) \/ Forfeit(m)
    \/ \E m \in Markets, n \in 1..MaxContracts :
          \/ Write(m, n) \/ Exercise(m, n) \/ Close(m, n)
          \/ RedeemForUnderlying(m, n) \/ RedeemForQuote(m, n)
    \/ Expire
    \/ StopIssuing

Spec == Init /\ [][Next]_vars
=============================================================================

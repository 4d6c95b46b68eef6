---------------------------- MODULE MarketLookup ----------------------------
(***************************************************************************)
(* How the client finds markets (market.ts, getOptionMarketData.ts): all   *)
(* accounts of a program of the size of a market, one account by its key,  *)
(* or the address that follows from the terms.                             *)
(*                                                                         *)
(* A client is pointed at a program: the first version, whose accounts     *)
(* market.ts lays out, or psy_american, whose accounts Anchor writes and   *)
(* whose addresses come from the same seeds.  An account's data is the     *)
(* fields in their order after a header, and a field that is read where    *)
(* another span begins comes out as garbage.  How the first version stores *)
(* a market is known from the client alone, so that a listing finds them   *)
(* all is assumed here and not shown.                                      *)
(***************************************************************************)
EXTENDS Integers, Sequences, FiniteSets

CONSTANTS
    Terms,       \* terms of markets somebody may create
    Supported,   \* mints the client supports
    MaxSafe,     \* the largest integer below which a double holds every one
    Garbage      \* what a field reads as where it does not lie

ASSUME LookupAssumption ==
    /\ \A t \in Terms : {t.underlying_amount, t.quote_amount, t.expiration} \subseteq Nat
    /\ MaxSafe \in Nat
    \* in the range of doubles after that, every second integer
    /\ \A t \in Terms : \A n \in {t.underlying_amount, t.quote_amount, t.expiration} : n < 2 * MaxSafe

VARIABLES
    program,   \* the one the client is pointed at
    created,   \* the markets created there: their terms
    result,    \* what the last listing returned
    asOf,      \* the markets it should have, of those there were at its request
    fetched    \* the terms of the market last fetched, and what it read as

vars == <<program, created, result, asOf, fetched>>

-----------------------------------------------------------------------------
\* Layouts: fields with their spans.
PublicKey == 32
Uint64 == 8
Byte == 1

OptionMarketLayout ==
    << <<"optionMint", PublicKey>>, <<"writerTokenMint", PublicKey>>,
       <<"underlying_mint", PublicKey>>, <<"quote_mint", PublicKey>>,
       <<"underlying_amount", Uint64>>, <<"quote_amount", Uint64>>, <<"expiration", Uint64>>,
       <<"underlyingAssetPool", PublicKey>>, <<"quoteAssetPool", PublicKey>>,
       <<"mintFee", PublicKey>>, <<"exerciseFee", PublicKey>>,
       <<"bumpSeed", Byte>>, <<"initialized", Byte>> >>

\* The account as the IDL has it.
OptionMarketV2Layout ==
    << <<"optionMint", PublicKey>>, <<"writerTokenMint", PublicKey>>,
       <<"underlying_mint", PublicKey>>, <<"quote_mint", PublicKey>>,
       <<"underlying_amount", Uint64>>, <<"quote_amount", Uint64>>, <<"expiration", Uint64>>,
       <<"underlyingAssetPool", PublicKey>>, <<"quoteAssetPool", PublicKey>>,
       <<"mintFee", PublicKey>>, <<"exerciseFee", PublicKey>>,
       <<"expired", Byte>>, <<"bumpSeed", Byte>> >>

\* Where the field number i begins: after the bytes of those before it.
Offset(layout, i) == Cardinality(UNION { {k} \X (1..layout[k][2]) : k \in 1..i - 1 })
Span(layout) == Offset(layout, Len(layout) + 1)

Discriminator == 8
\* size_of of the struct, whose size is a multiple of that of a u64.
SizeOf(layout) == ((Span(layout) + 7) \div 8) * 8

\* The accounts of the two programs: what was written, from where on, and how
\* large they are.
Stored ==
    IF program = "V1"
    THEN [layout |-> OptionMarketLayout, header |-> 0, size |-> Span(OptionMarketLayout)]
    ELSE [layout |-> OptionMarketV2Layout, header |-> Discriminator,
          size |-> Discriminator + SizeOf(OptionMarketV2Layout) + 300]

\* What a field of the client's layout reads as in an account of these terms:
\* an integer is read as a double, except for the amounts.
Double(n) ==
    IF n <= MaxSafe \/ n % 2 = 0 THEN n
    ELSE IF n % 4 = 1 THEN n - 1 ELSE n + 1

Read(terms, field) ==
    LET i == CHOOSE k \in DOMAIN OptionMarketLayout : OptionMarketLayout[k][1] = field
        there == {k \in DOMAIN Stored.layout :
                    /\ Stored.layout[k] = OptionMarketLayout[i]
                    /\ Stored.header + Offset(Stored.layout, k) = Offset(OptionMarketLayout, i)}
    IN  IF there = {} THEN Garbage
        ELSE IF field = "expiration" THEN Double(terms[field])
        ELSE terms[field]

TermFields == {"underlying_mint", "quote_mint", "underlying_amount", "quote_amount", "expiration"}
Decode(terms) == [field \in TermFields |-> Read(terms, field)]

\* The address of a market: its seeds, in this order.
Seeds(terms) ==
    << terms.underlying_mint, terms.quote_mint,
       terms.underlying_amount, terms.quote_amount, terms.expiration >>

\* The same from numbers of the client.
DerivedAddressQuoteFirst(terms) ==
    << terms.underlying_mint, terms.quote_mint,
       Double(terms.quote_amount), Double(terms.underlying_amount), Double(terms.expiration) >>
DerivedAddress(terms) ==
    << terms.underlying_mint, terms.quote_mint,
       Double(terms.underlying_amount), Double(terms.quote_amount), Double(terms.expiration) >>

-----------------------------------------------------------------------------
Init ==
    /\ program \in {"V1", "psy_american"}
    /\ created = {}
    /\ result = {}
    /\ asOf = {}
    /\ fetched = <<>>

Create(terms) ==
    /\ terms \notin created
    /\ created' = created \cup {terms}
    /\ UNCHANGED <<program, result, asOf, fetched>>

\* A listing: every account that has the size of a market, with its data.
SizeFilterNone(size) == TRUE
SizeFilter(size) == size = Span(OptionMarketLayout)

AllMarkets ==
    {[key |-> Seeds(t), data |-> Decode(t)] : t \in {x \in created : SizeFilter(Stored.size)}}

GetAllMarkets ==
    /\ result' = AllMarkets
    /\ asOf' = created
    /\ UNCHANGED <<program, created, fetched>>

Supports(market) ==
    market.underlying_mint \in Supported /\ market.quote_mint \in Supported

GetAllMarketsBySplSupport ==
    /\ result' = {m \in AllMarkets : Supports(m.data)}
    /\ asOf' = {t \in created : Supports(t)}
    /\ UNCHANGED <<program, created, fetched>>

\* One market, at the address derived from its terms.  The size of the account
\* is not checked; where there is none the client throws.
GetOptionMarketData(terms) ==
    \E t \in created :
        /\ Seeds(t) = DerivedAddress(terms)
        /\ fetched' = <<terms, Decode(t)>>
        /\ UNCHANGED <<program, created, result, asOf>>

Next ==
    \/ \E terms \in Terms : Create(terms) \/ GetOptionMarketData(terms)
    \/ GetAllMarkets
    \/ GetAllMarketsBySplSupport

Spec == Init /\ [][Next]_vars

-----------------------------------------------------------------------------
(* Properties *)

Exact(terms) ==
    terms.underlying_amount <= MaxSafe /\ terms.quote_amount <= MaxSafe
        /\ terms.expiration <= MaxSafe

\* Whatever program a client lists the markets of, each entry has the terms its
\* address was made from and both of its mints are supported if that was asked;
\* nothing that is laid out otherwise is taken for a market.
ListedMarketsAreTrue ==
    \A m \in result : \E t \in asOf :
        /\ m.key = Seeds(t)
        /\ Exact(t) => m.data = [f \in TermFields |-> t[f]]

\* What a client of the first version fetches by the terms of a market is the
\* market with those terms, as long as a double holds every number of them.
FetchedIsTrue ==
    program = "V1" /\ fetched # <<>> =>
        (Exact(fetched[1]) => fetched[2] = [f \in TermFields |-> fetched[1][f]])
=============================================================================

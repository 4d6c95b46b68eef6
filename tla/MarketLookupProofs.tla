------------------------- MODULE MarketLookupProofs -------------------------
(***************************************************************************)
(* What a client finds is a market, for any terms and any programs'        *)
(* markets among them.                                                     *)
(*                                                                         *)
(* No offset needs computing: where the client's layout is the account's,  *)
(* every field lies where it is read; and where it is not, a market of     *)
(* psy_american, the account is larger than anything the client takes for  *)
(* a market, whatever the spans, since Anchor's header comes on top.       *)
(***************************************************************************)
EXTENDS MarketLookup, FiniteSetTheorems, TLAPS

-----------------------------------------------------------------------------
(* Layouts *)

\* Fields of a layout of at most 13, each at most a public key.
SmallLayout(layout) ==
    /\ Len(layout) = 13
    /\ \A k \in 1..13 : layout[k][2] \in 1..32

\* Both layouts are of that kind, and field by field of the same spans.
LEMMA LayoutsAreSmall ==
    /\ SmallLayout(OptionMarketLayout)
    /\ SmallLayout(OptionMarketV2Layout)
    /\ \A k \in 1..13 : OptionMarketLayout[k][2] = OptionMarketV2Layout[k][2]
  BY DEF SmallLayout, OptionMarketLayout, OptionMarketV2Layout, PublicKey, Uint64, Byte

\* The bytes before a field are finitely many.
LEMMA OffsetIsNatural ==
    ASSUME NEW layout, SmallLayout(layout), NEW i \in 1..14
    PROVE  Offset(layout, i) \in Nat
  <1> DEFINE bytes == UNION { {k} \X (1..layout[k][2]) : k \in 1..i - 1 }
             all == (1..13) \X (1..32)
  <1>1. IsFiniteSet(1..13) /\ IsFiniteSet(1..32)
    <2>1. 1 \in Int /\ 13 \in Int /\ 32 \in Int
      OBVIOUS
    <2> QED
      BY <2>1, FS_Interval
  <1>2. IsFiniteSet(all)
    BY <1>1, FS_Product
  <1>3. bytes \subseteq all
    BY DEF SmallLayout
  <1> HIDE DEF bytes, all
  <1>4. IsFiniteSet(bytes)
    BY <1>2, <1>3, FS_Subset
  <1> QED
    BY <1>4, FS_CardinalityType DEF Offset, bytes

\* The layouts span the same bytes.
LEMMA SpansAgree ==
    /\ Span(OptionMarketLayout) \in Nat
    /\ Span(OptionMarketV2Layout) = Span(OptionMarketLayout)
  <1>1. Span(OptionMarketLayout) \in Nat
    BY LayoutsAreSmall, OffsetIsNatural DEF Span, SmallLayout
  <1>2. /\ Len(OptionMarketLayout) + 1 = 14 /\ Len(OptionMarketV2Layout) + 1 = 14
        /\ \A k \in 1..14 - 1 : OptionMarketLayout[k][2] = OptionMarketV2Layout[k][2]
    BY LayoutsAreSmall DEF SmallLayout
  <1>3. Offset(OptionMarketV2Layout, 14) = Offset(OptionMarketLayout, 14)
    BY <1>2 DEF Offset
  <1> QED
    BY <1>1, <1>2, <1>3 DEF Span

\* A size rounded up to whole words is no smaller.
LEMMA RoundedUp == \A n \in Nat : n <= ((n + 7) \div 8) * 8
  OBVIOUS

\* A listing takes the accounts of the first version, and none of psy_american.
LEMMA SizesTellApart ==
    /\ program = "V1" => SizeFilter(Stored.size)
    /\ program # "V1" => ~SizeFilter(Stored.size)
  <1> DEFINE span == Span(OptionMarketLayout)
             rounded == ((span + 7) \div 8) * 8
  <1>1. span \in Nat /\ rounded \in Nat /\ span <= rounded
    BY SpansAgree, RoundedUp
  <1>2. SizeOf(OptionMarketV2Layout) = rounded
    BY SpansAgree DEF SizeOf
  <1> HIDE DEF span, rounded
  <1>3. Discriminator + rounded + 300 # span
    BY <1>1 DEF Discriminator
  <1> QED
    BY <1>2, <1>3 DEF SizeFilter, Stored, span

-----------------------------------------------------------------------------
(* Accounts of the first version *)

\* Every field of the terms is in the client's layout.
LEMMA TermFieldsInLayout ==
    ASSUME NEW field \in TermFields
    PROVE  \E k \in DOMAIN OptionMarketLayout : OptionMarketLayout[k][1] = field
  <1> DEFINE L == OptionMarketLayout
  <1>1. /\ DOMAIN L = 1..13
        /\ L[3][1] = "underlying_mint" /\ L[4][1] = "quote_mint"
        /\ L[5][1] = "underlying_amount" /\ L[6][1] = "quote_amount" /\ L[7][1] = "expiration"
    BY DEF OptionMarketLayout
  <1> HIDE DEF L
  <1>2. {3, 4, 5, 6, 7} \subseteq 1..13
    OBVIOUS
  <1> QED
    BY <1>1, <1>2 DEF TermFields, L

\* A client of the first version reads a field where it is.
LEMMA ReadIsThere ==
    ASSUME program = "V1", NEW terms, NEW field \in TermFields
    PROVE  Read(terms, field) = IF field = "expiration" THEN Double(terms[field]) ELSE terms[field]
  <1> DEFINE i == CHOOSE k \in DOMAIN OptionMarketLayout : OptionMarketLayout[k][1] = field
             there == {k \in DOMAIN Stored.layout :
                         /\ Stored.layout[k] = OptionMarketLayout[i]
                         /\ Stored.header + Offset(Stored.layout, k) = Offset(OptionMarketLayout, i)}
  <1>1. i \in DOMAIN OptionMarketLayout
    BY TermFieldsInLayout
  <1>2. DOMAIN OptionMarketLayout = 1..13
    BY DEF OptionMarketLayout
  <1>3. Stored.layout = OptionMarketLayout /\ Stored.header = 0
    BY DEF Stored
  <1> HIDE DEF i
  <1>4. Offset(OptionMarketLayout, i) \in Nat
    <2>1. i \in 1..14
      BY <1>1, <1>2
    <2> QED
      BY <2>1, LayoutsAreSmall, OffsetIsNatural
  <1>5. i \in there
    BY <1>1, <1>3, <1>4
  <1> HIDE DEF there
  <1> QED
    BY <1>5 DEF Read, i, there

\* And mints always, and everything where a double holds every number.
LEMMA DecodeIsTrue ==
    ASSUME program = "V1", NEW terms
    PROVE  /\ Decode(terms).underlying_mint = terms.underlying_mint
           /\ Decode(terms).quote_mint = terms.quote_mint
           /\ Exact(terms) => Decode(terms) = [f \in TermFields |-> terms[f]]
  <1>1. \A f \in TermFields :
           Decode(terms)[f] = IF f = "expiration" THEN Double(terms[f]) ELSE terms[f]
    BY ReadIsThere DEF Decode
  <1>2. Exact(terms) => Double(terms.expiration) = terms.expiration
    BY DEF Exact, Double
  <1>3. \A f \in TermFields : Exact(terms) => Read(terms, f) = terms[f]
    BY <1>2, ReadIsThere
  <1> QED
    BY <1>1, <1>3 DEF Decode, TermFields

-----------------------------------------------------------------------------
(* Theorems *)

\* A listing of psy_american's accounts is empty, and one of the first
\* version's has an entry for each market.
LEMMA ListingOf ==
    /\ program = "V1" => AllMarkets = {[key |-> Seeds(t), data |-> Decode(t)] : t \in created}
    /\ program # "V1" => AllMarkets = {}
  BY SizesTellApart DEF AllMarkets

\* Both listings return only what is there.
LEMMA ListedStep == ListedMarketsAreTrue /\ [Next]_vars => ListedMarketsAreTrue'
  <1> SUFFICES ASSUME ListedMarketsAreTrue, [Next]_vars PROVE ListedMarketsAreTrue'
    OBVIOUS
  <1>1. CASE UNCHANGED <<result, asOf>>
    BY <1>1 DEF ListedMarketsAreTrue
  <1>2. CASE GetAllMarkets
    <2> SUFFICES ASSUME NEW m \in AllMarkets
                 PROVE  \E t \in created : /\ m.key = Seeds(t)
                                           /\ Exact(t) => m.data = [f \in TermFields |-> t[f]]
      BY <1>2 DEF GetAllMarkets, ListedMarketsAreTrue
    <2>1. program = "V1"
      BY ListingOf
    <2>2. PICK t \in created : m = [key |-> Seeds(t), data |-> Decode(t)]
      BY <2>1, ListingOf
    <2> QED
      BY <2>1, <2>2, DecodeIsTrue
  <1>3. CASE GetAllMarketsBySplSupport
    <2> SUFFICES ASSUME NEW m \in AllMarkets, Supports(m.data)
                 PROVE  \E t \in {x \in created : Supports(x)} :
                            /\ m.key = Seeds(t)
                            /\ Exact(t) => m.data = [f \in TermFields |-> t[f]]
      BY <1>3 DEF GetAllMarketsBySplSupport, ListedMarketsAreTrue
    <2>1. program = "V1"
      BY ListingOf
    <2>2. PICK t \in created : m = [key |-> Seeds(t), data |-> Decode(t)]
      BY <2>1, ListingOf
    <2>3. Supports(t)
      BY <2>1, <2>2, DecodeIsTrue DEF Supports
    <2> QED
      BY <2>1, <2>2, <2>3, DecodeIsTrue
  <1> QED
    BY <1>1, <1>2, <1>3 DEF Next, vars, Create, GetOptionMarketData

\* Terms that a double holds every number of are those of the market at the
\* address derived from them.
LEMMA DerivedIsExact ==
    ASSUME NEW t, NEW terms, Seeds(t) = DerivedAddress(terms), Exact(terms)
    PROVE  Exact(t) /\ \A f \in TermFields : t[f] = terms[f]
  <1>1. /\ Double(terms.underlying_amount) = terms.underlying_amount
        /\ Double(terms.quote_amount) = terms.quote_amount
        /\ Double(terms.expiration) = terms.expiration
    BY DEF Exact, Double
  <1>2. /\ t.underlying_mint = terms.underlying_mint
        /\ t.quote_mint = terms.quote_mint
        /\ t.underlying_amount = terms.underlying_amount
        /\ t.quote_amount = terms.quote_amount
        /\ t.expiration = terms.expiration
    BY <1>1 DEF Seeds, DerivedAddress
  <1> QED
    BY <1>2 DEF Exact, TermFields

\* What is fetched by terms has these terms.
LEMMA FetchedStep == FetchedIsTrue /\ [Next]_vars => FetchedIsTrue'
  <1> SUFFICES ASSUME FetchedIsTrue, [Next]_vars PROVE FetchedIsTrue'
    OBVIOUS
  <1>1. program' = program
    BY DEF Next, vars, Create, GetOptionMarketData, GetAllMarkets, GetAllMarketsBySplSupport
  <1>2. CASE UNCHANGED fetched
    BY <1>1, <1>2 DEF FetchedIsTrue
  <1>3. ASSUME NEW terms \in Terms, GetOptionMarketData(terms) PROVE FetchedIsTrue'
    <2> SUFFICES ASSUME program = "V1", Exact(terms)
                 PROVE  fetched'[2] = [f \in TermFields |-> terms[f]]
      BY <1>1, <1>3 DEF GetOptionMarketData, FetchedIsTrue
    <2>1. PICK t \in created : Seeds(t) = DerivedAddress(terms) /\ fetched' = <<terms, Decode(t)>>
      BY <1>3 DEF GetOptionMarketData
    <2>2. Exact(t) /\ \A f \in TermFields : t[f] = terms[f]
      BY <2>1, DerivedIsExact
    <2>3. Decode(t) = [f \in TermFields |-> t[f]]
      BY <2>2, DecodeIsTrue
    <2>4. [f \in TermFields |-> t[f]] = [f \in TermFields |-> terms[f]]
      BY <2>2
    <2> QED
      BY <2>1, <2>3, <2>4
  <1> QED
    BY <1>2, <1>3 DEF Next, vars, Create, GetAllMarkets, GetAllMarketsBySplSupport

\* Whatever program it lists, a client takes nothing for a market that is not
\* one, and reads its terms off it.
THEOREM ListedAreTrue == Spec => []ListedMarketsAreTrue
  <1>1. Init => ListedMarketsAreTrue
    BY DEF Init, ListedMarketsAreTrue
  <1> QED
    BY <1>1, ListedStep, PTL DEF Spec

\* A client of the first version fetches the market that it asks for.
THEOREM FetchedTrue == Spec => []FetchedIsTrue
  <1>1. Init => FetchedIsTrue
    BY DEF Init, FetchedIsTrue
  <1> QED
    BY <1>1, FetchedStep, PTL DEF Spec
=============================================================================

-------------------------- MODULE ArithmeticLemmas --------------------------
(***************************************************************************)
(* What the proofs of several components rest on: integer division, the    *)
(* division that gives the rate of the fee, and counting tokens.           *)
(***************************************************************************)
EXTENDS Integers, FiniteSetTheorems, TLAPS

-----------------------------------------------------------------------------
(* Division *)

\* Division by a positive number brackets the dividend.
LEMMA DivBounds ==
    ASSUME NEW x \in Nat, NEW d \in Nat, d > 0
    PROVE  /\ x \div d \in Nat
           /\ d * (x \div d) <= x
           /\ x < d * (x \div d) + d
  BY SMT

\* A pool that changes by at least n contracts of d tokens holds at least n
\* contracts more (or, for negative n, at most -n fewer).
LEMMA DivShift ==
    ASSUME NEW x \in Nat, NEW y \in Nat, NEW d \in Nat, d > 0, NEW n \in Int,
           y >= x + d * n
    PROVE  y \div d >= x \div d + n
  <1> DEFINE p == x \div d
             q == y \div d
  <1>1. p \in Nat /\ d * p <= x
    BY DivBounds
  <1>2. q \in Nat /\ y < d * q + d
    BY DivBounds
  <1> HIDE DEF p, q
  <1>3. d * (p + n) = d * p + d * n
    BY <1>1, SMT
  <1>4. d * (p + n) < d * (q + 1)
    BY <1>1, <1>2, <1>3, SMT
  <1>5. p + n < q + 1
    BY <1>1, <1>2, <1>4, SMT
  <1> QED
    BY <1>1, <1>2, <1>5, SMT DEF p, q

\* A factor common to both sides of a division drops out.
LEMMA CommonFactor ==
    ASSUME NEW f \in Nat, f > 0, NEW d \in Nat, d > 0, NEW x \in Nat
    PROVE  (f * x) \div (f * d) = x \div d
  <1> DEFINE p == (f * x) \div (f * d)
             n == x \div d
  <1>1. f * x \in Nat /\ f * d \in Nat /\ f * d > 0
    BY SMT
  <1>2. p \in Nat /\ (f * d) * p <= f * x /\ f * x < (f * d) * p + f * d
    BY <1>1, DivBounds
  <1>3. n \in Nat /\ d * n <= x /\ x < d * n + d
    BY DivBounds
  <1> HIDE DEF p, n
  <1>4. f * (d * p) <= f * x /\ f * x < f * (d * p + d)
    BY <1>2, SMT
  <1>5. d * p <= x /\ x < d * p + d
    BY <1>2, <1>4, SMT
  <1>6. d * p < d * (n + 1) /\ d * n < d * (p + 1)
    BY <1>2, <1>3, <1>5, SMT
  <1>7. p < n + 1 /\ n < p + 1
    BY <1>2, <1>3, <1>6, SMT
  <1> QED
    BY <1>2, <1>3, <1>7 DEF p, n

\* The divisor that stands for a rate of `bps` in `whole`, and that rate in fixed
\* point, rounded up by one unit in the last place: above one in d, by at most
\* that unit.
LEMMA RateOfDivisor ==
    ASSUME NEW one \in Nat, one > 0, NEW bps \in Nat, bps > 0, NEW whole \in Nat, whole > 0,
           NEW d, d = whole \div bps, bps * d = whole,
           NEW rate, rate = (bps * one) \div whole + 1
    PROVE  /\ d \in Nat /\ d > 0
           /\ rate \in Nat
           /\ one < d * rate
           /\ d * rate <= one + d
           /\ rate <= one + 1
  <1> DEFINE p == one \div d
  <1>1. d \in Nat /\ d > 0
    <2>1. d \in Nat
      BY DivBounds
    <2>2. d # 0
      OBVIOUS
    <2> QED
      BY <2>1, <2>2
  <1>2. rate = p + 1
    <2>1. (bps * one) \div (bps * d) = p
      BY <1>1, CommonFactor
    <2> QED
      BY ONLY <2>1, bps * d = whole, rate = (bps * one) \div whole + 1
  <1>3. p \in Nat /\ d * p <= one /\ one < d * p + d
    BY <1>1, DivBounds
  <1> HIDE DEF p
  <1>4. p <= one
    BY <1>1, <1>3, SMT
  <1> QED
    BY <1>1, <1>2, <1>3, <1>4, SMT

\* Dividing by the divisor and multiplying by the rate agree on which quantities
\* come to at least one, as long as fixed point is fine enough for the divisor.
LEMMA SameQuantitiesPay ==
    ASSUME NEW one \in Nat, one > 0, NEW bps \in Nat, bps > 0, NEW whole \in Nat, whole > 0,
           NEW d, d = whole \div bps, bps * d = whole, d * d <= one,
           NEW rate, rate = (bps * one) \div whole + 1,
           NEW q \in Nat
    PROVE  q \div d > 0 <=> (rate * q) \div one > 0
  <1> DEFINE n == q \div d
             f == (rate * q) \div one
  <1>1. /\ one \in Nat /\ one > 0 /\ d \in Nat /\ d > 0 /\ rate \in Nat
        /\ one < d * rate /\ d * rate <= one + d /\ d * d <= one
    BY RateOfDivisor
  <1>2. n \in Nat /\ d * n <= q /\ q < d * n + d
    BY <1>1, DivBounds
  <1>3. f \in Nat /\ one * f <= rate * q /\ rate * q < one * f + one
    <2>1. rate * q \in Nat
      BY <1>1
    <2> QED
      BY <1>1, <2>1, DivBounds
  <1> HIDE DEF n, f
  <1>4. ASSUME n > 0  PROVE f > 0
    <2>1. q >= d
      BY <1>1, <1>2, <1>4, SMT
    <2>2. rate * q >= d * rate
      BY <1>1, <2>1, SMT
    <2> QED
      BY <1>1, <1>3, <2>2, SMT
  <1>5. ASSUME n = 0  PROVE f = 0
    <2>1. q <= d - 1
      BY <1>1, <1>2, <1>5, SMT
    <2>2. d < rate
      BY <1>1, SMT
    <2>3. rate * q <= d * rate - rate
      BY <1>1, <2>1, SMT
    <2>4. rate * q < one
      BY <1>1, <2>2, <2>3, SMT
    <2> QED
      BY <1>1, <1>3, <2>4, SMT
  <1>6. n > 0 <=> f > 0
    BY <1>2, <1>3, <1>4, <1>5, SMT
  <1> QED
    BY <1>6 DEF n, f

-----------------------------------------------------------------------------
(* How many tokens a set of accounts holds.  They are counted one by one, as
   the elements of a set: no sum over the accounts is needed, and there may be
   any number of them. *)

\* The i-th token of each account of S, for i up to its balance b[account].
Units(b, S) == UNION { {a} \X (1..b[a]) : a \in S }

\* A token is one of an account that holds as many.
LEMMA UnitOf ==
    ASSUME NEW b, NEW S, NEW u
    PROVE  u \in Units(b, S) <=> \E a \in S : \E i \in 1..b[a] : u = <<a, i>>
  BY DEF Units

\* Tokens i+1 to i+n of one account.
Block(a, i, n) == {a} \X (i+1..i+n)

\* They are n tokens.
LEMMA BlockOf ==
    ASSUME NEW a, NEW i \in Nat, NEW n \in Nat
    PROVE  IsFiniteSet(Block(a, i, n)) /\ Cardinality(Block(a, i, n)) = n
  <1> DEFINE T == i+1..i+n
             f == [k \in T |-> <<a, k>>]
  <1>1. IsFiniteSet(T) /\ Cardinality(T) = n
    <2>1. i + 1 \in Int /\ i + n \in Int
      OBVIOUS
    <2>2. IsFiniteSet(T) /\ Cardinality(T) = IF i + 1 > i + n THEN 0 ELSE (i + n) - (i + 1) + 1
      BY <2>1, FS_Interval
    <2> QED
      BY <2>2
  <1>2. f \in Bijection(T, {a} \X T)
    BY DEF Bijection, Injection, Surjection, IsInjective
  <1>3. ExistsBijection(T, {a} \X T)
    BY <1>2 DEF ExistsBijection
  <1> QED
    BY <1>1, <1>3, FS_Bijection DEF Block

\* Where no balance changes, the tokens are the same.
LEMMA SameUnits ==
    ASSUME NEW b, NEW b2, NEW S, \A a \in S : b2[a] = b[a]
    PROVE  Units(b2, S) = Units(b, S)
  BY DEF Units

\* An account that receives n tokens makes the tokens n more.
LEMMA UnitsAdded ==
    ASSUME NEW S, NEW b, NEW b2, NEW x \in S, NEW n \in Nat,
           \A a \in S : b[a] \in Nat,
           \A a \in S : a # x => b2[a] = b[a],
           b2[x] = b[x] + n,
           IsFiniteSet(Units(b, S))
    PROVE  /\ IsFiniteSet(Units(b2, S))
           /\ Cardinality(Units(b2, S)) = Cardinality(Units(b, S)) + n
  <1> DEFINE block == Block(x, b[x], n)
  <1>1. IsFiniteSet(block) /\ Cardinality(block) = n
    BY BlockOf
  <1>2. Units(b2, S) = Units(b, S) \cup block
    <2>1. ASSUME NEW u \in Units(b2, S) PROVE u \in Units(b, S) \cup block
      <3>1. PICK a \in S : \E i \in 1..b2[a] : u = <<a, i>>
        BY <2>1, UnitOf
      <3>2. PICK i \in 1..b2[a] : u = <<a, i>>
        BY <3>1
      <3>3. CASE i \in 1..b[a]
        BY <3>2, <3>3, UnitOf
      <3>4. CASE i \notin 1..b[a]
        <4>1. a = x
          BY <3>2, <3>4
        <4>2. i \in b[x]+1..b[x]+n
          BY <3>2, <3>4, <4>1
        <4> QED
          BY <3>2, <4>1, <4>2 DEF Block
      <3> QED
        BY <3>3, <3>4
    <2>2. ASSUME NEW u \in Units(b, S) PROVE u \in Units(b2, S)
      <3>1. PICK a \in S : \E i \in 1..b[a] : u = <<a, i>>
        BY <2>2, UnitOf
      <3>2. PICK i \in 1..b[a] : u = <<a, i>>
        BY <3>1
      <3>3. i \in 1..b2[a]
        BY <3>2
      <3> QED
        BY <3>2, <3>3, UnitOf
    <2>3. ASSUME NEW u \in block PROVE u \in Units(b2, S)
      <3>1. PICK i \in b[x]+1..b[x]+n : u = <<x, i>>
        BY <2>3 DEF Block
      <3>2. i \in 1..b2[x]
        BY <3>1
      <3> QED
        BY <3>1, <3>2, UnitOf
    <2> HIDE DEF block
    <2> QED
      BY <2>1, <2>2, <2>3
  <1>3. Units(b, S) \cap block = {}
    <2> SUFFICES ASSUME NEW u \in Units(b, S), u \in block PROVE FALSE
      OBVIOUS
    <2>1. PICK a \in S : \E i \in 1..b[a] : u = <<a, i>>
      BY UnitOf
    <2>2. PICK i \in 1..b[a] : u = <<a, i>>
      BY <2>1
    <2>3. PICK j \in b[x]+1..b[x]+n : u = <<x, j>>
      BY DEF Block
    <2> QED
      BY <2>2, <2>3
  <1> HIDE DEF block
  <1>4. /\ IsFiniteSet(Units(b2, S))
        /\ Cardinality(Units(b2, S))
              = Cardinality(Units(b, S)) + Cardinality(block) - Cardinality(Units(b, S) \cap block)
    BY <1>1, <1>2, FS_Union
  <1>5. Cardinality(Units(b, S) \cap block) = 0
    BY <1>3, FS_EmptySet
  <1>6. Cardinality(Units(b, S)) \in Nat
    BY FS_CardinalityType
  <1> QED
    BY <1>1, <1>4, <1>5, <1>6

\* An account that gives n tokens away makes the tokens n less.
LEMMA UnitsRemoved ==
    ASSUME NEW S, NEW b, NEW b2, NEW x \in S, NEW n \in Nat,
           \A a \in S : b2[a] \in Nat,
           \A a \in S : a # x => b2[a] = b[a],
           b[x] = b2[x] + n,
           IsFiniteSet(Units(b, S))
    PROVE  /\ IsFiniteSet(Units(b2, S))
           /\ Cardinality(Units(b2, S)) = Cardinality(Units(b, S)) - n
  <1>1. Units(b2, S) \subseteq Units(b, S)
    <2> SUFFICES ASSUME NEW u \in Units(b2, S) PROVE u \in Units(b, S)
      OBVIOUS
    <2>1. PICK a \in S : \E i \in 1..b2[a] : u = <<a, i>>
      BY UnitOf
    <2>2. PICK i \in 1..b2[a] : u = <<a, i>>
      BY <2>1
    <2>3. i \in 1..b[a]
      BY <2>2
    <2> QED
      BY <2>2, <2>3, UnitOf
  <1>2. IsFiniteSet(Units(b2, S))
    BY <1>1, FS_Subset
  <1>3. \A a \in S : a # x => b[a] = b2[a]
    OBVIOUS
  <1>4. Cardinality(Units(b, S)) = Cardinality(Units(b2, S)) + n
    BY <1>2, <1>3, UnitsAdded
  <1>5. Cardinality(Units(b2, S)) \in Nat
    BY <1>2, FS_CardinalityType
  <1> QED
    BY <1>2, <1>4, <1>5

\* Two accounts that exchange tokens have as many as before.
LEMMA UnitsMoved ==
    ASSUME NEW S, NEW b, NEW b2, NEW x \in S, NEW y \in S, x # y, NEW n \in Nat,
           \A a \in S : b[a] \in Nat /\ b2[a] \in Nat,
           \A a \in S : a # x /\ a # y => b2[a] = b[a],
           b[x] = b2[x] + n, b2[y] = b[y] + n,
           IsFiniteSet(Units(b, S))
    PROVE  /\ IsFiniteSet(Units(b2, S))
           /\ Cardinality(Units(b2, S)) = Cardinality(Units(b, S))
  <1> DEFINE b1 == [a \in S |-> IF a = x THEN b2[x] ELSE b[a]]
  <1>1. /\ \A a \in S : b1[a] \in Nat
        /\ \A a \in S : a # x => b1[a] = b[a]
        /\ b[x] = b1[x] + n
        /\ \A a \in S : a # y => b2[a] = b1[a]
        /\ b2[y] = b1[y] + n
    OBVIOUS
  <1> HIDE DEF b1
  <1>2. /\ IsFiniteSet(Units(b1, S))
        /\ Cardinality(Units(b1, S)) = Cardinality(Units(b, S)) - n
    BY <1>1, UnitsRemoved
  <1>3. /\ IsFiniteSet(Units(b2, S))
        /\ Cardinality(Units(b2, S)) = Cardinality(Units(b1, S)) + n
    BY <1>1, <1>2, UnitsAdded
  <1>4. Cardinality(Units(b, S)) \in Nat
    BY FS_CardinalityType
  <1> QED
    BY <1>2, <1>3, <1>4

\* Two accounts together hold no more than there is.
LEMMA UnitsOfTwo ==
    ASSUME NEW S, NEW b, NEW x \in S, NEW y \in S, x # y,
           b[x] \in Nat, b[y] \in Nat, IsFiniteSet(Units(b, S))
    PROVE  b[x] + b[y] <= Cardinality(Units(b, S))
  <1> DEFINE X == Block(x, 0, b[x])
             Y == Block(y, 0, b[y])
  <1>1. /\ IsFiniteSet(X) /\ Cardinality(X) = b[x]
        /\ IsFiniteSet(Y) /\ Cardinality(Y) = b[y]
    <2>1. 0 \in Nat
      OBVIOUS
    <2> QED
      BY <2>1, BlockOf
  <1>2. X \cup Y \subseteq Units(b, S)
    <2> SUFFICES ASSUME NEW u \in X \cup Y PROVE u \in Units(b, S)
      OBVIOUS
    <2>1. \E a \in S : \E i \in 1..b[a] : u = <<a, i>>
      <3>1. CASE u \in X
        <4>1. PICK i \in 1..b[x] : u = <<x, i>>
          BY <3>1 DEF Block
        <4> QED
          BY <4>1
      <3>2. CASE u \in Y
        <4>1. PICK i \in 1..b[y] : u = <<y, i>>
          BY <3>2 DEF Block
        <4> QED
          BY <4>1
      <3> QED
        BY <3>1, <3>2
    <2> QED
      BY <2>1, UnitOf
  <1>3. X \cap Y = {}
    BY DEF Block
  <1> HIDE DEF X, Y
  <1>4. /\ IsFiniteSet(X \cup Y)
        /\ Cardinality(X \cup Y) = Cardinality(X) + Cardinality(Y) - Cardinality(X \cap Y)
    BY <1>1, FS_Union
  <1>5. Cardinality(X \cap Y) = 0
    BY <1>3, FS_EmptySet
  <1>6. Cardinality(X \cup Y) <= Cardinality(Units(b, S))
    BY <1>2, FS_Subset
  <1> QED
    BY <1>1, <1>4, <1>5, <1>6

\* And one no more than that.
LEMMA UnitsOfOne ==
    ASSUME NEW S, NEW b, NEW x \in S, b[x] \in Nat, IsFiniteSet(Units(b, S))
    PROVE  b[x] <= Cardinality(Units(b, S))
  <1> DEFINE X == Block(x, 0, b[x])
  <1>1. IsFiniteSet(X) /\ Cardinality(X) = b[x]
    <2>1. 0 \in Nat
      OBVIOUS
    <2> QED
      BY <2>1, BlockOf
  <1>2. X \subseteq Units(b, S)
    <2> SUFFICES ASSUME NEW u \in X PROVE u \in Units(b, S)
      OBVIOUS
    <2>1. \E i \in 1..b[x] : u = <<x, i>>
      BY DEF Block
    <2> HIDE DEF X
    <2> QED
      BY <2>1, UnitOf
  <1> HIDE DEF X
  <1> QED
    BY <1>1, <1>2, FS_Subset

\* Accounts that hold nothing have no tokens.
LEMMA NoUnits ==
    ASSUME NEW S, NEW b, \A a \in S : b[a] = 0
    PROVE  IsFiniteSet(Units(b, S)) /\ Cardinality(Units(b, S)) = 0
  <1>1. Units(b, S) = {}
    <2> SUFFICES ASSUME NEW u \in Units(b, S) PROVE FALSE
      OBVIOUS
    <2>1. PICK a \in S : \E i \in 1..b[a] : u = <<a, i>>
      BY UnitOf
    <2> QED
      BY <2>1
  <1> QED
    BY <1>1, FS_EmptySet
=============================================================================

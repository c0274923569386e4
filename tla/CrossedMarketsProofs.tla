------------------------ MODULE CrossedMarketsProofs ------------------------
(***************************************************************************)
(* Proofs about CrossedMarkets, for all pools, test sizes, steps and       *)
(* precisions.                                                             *)
(***************************************************************************)
EXTENDS CrossedMarkets, PricingProofs, FiniteSetTheorems, WellFoundedInduction

-----------------------------------------------------------------------------
LEMMA PriceTypes ==
    ASSUME NEW p \in [weth : 0 .. MaxReserve, token : 0 .. MaxReserve], NEW v \in Nat
    PROVE  /\ TokenFor(p, v) \in 0 .. MaxReserve
           /\ WethFor(p, v) \in 0 .. MaxReserve
           /\ TokenNeeded(p, v) \in Nat
  BY PriceBounds, SearchAssumption

LEMMA BestMarkets ==
    ASSUME pools \in [1 .. NumMarkets -> Pools], NEW v \in Nat
    PROVE  BestAsk(pools, v) \in DOMAIN pools /\ BestBid(pools, v) \in DOMAIN pools
<1>1. NumMarkets \in Nat \ {0} /\ MaxReserve \in Nat
  BY SearchAssumption
<1>2. pools \in [1 .. NumMarkets -> [weth : 0 .. MaxReserve, token : 0 .. MaxReserve]]
  BY SearchAssumption
<1>3. BestAsk(pools, v) \in 1 .. NumMarkets /\ BestBid(pools, v) \in 1 .. NumMarkets
  BY <1>1, <1>2, BestMarketsExist
<1> QED
  BY <1>3

-----------------------------------------------------------------------------
Last == Sizes[Len(Sizes) - 1]

\* The variables that the properties read and that have one type throughout.
TypeInv ==
    /\ pools \in [1 .. NumMarkets -> Pools]
    /\ pc \in {"compare", "bracket", "ascend", "done"}
    /\ ask \in 1 .. NumMarkets /\ bid \in 1 .. NumMarkets
    /\ i \in 2 .. Len(Sizes) - 1
    /\ low \in Nat /\ mid \in Nat /\ high \in Nat
    /\ iterations \in 0 .. MaxIterations
    /\ profit \in Nat /\ volume \in Nat
    /\ kept \in BOOLEAN

\* The interval is within the test sizes from the first step on; the middle is
\* between its ends once it is set.
RangeInv ==
    /\ Cent <= low /\ low <= high /\ high <= Last
    /\ Cent <= mid
    /\ pc = "ascend" => low <= mid /\ mid <= high

\* Volumes are searched for markets that cross only, and nothing is kept before
\* the search ends.
CrossInv ==
    /\ pc \in {"bracket", "ascend"} => Crossed(ask, bid)
    /\ kept => pc = "done"

IInv == TypeInv /\ RangeInv /\ CrossInv /\ KeptMarketsDiffer

LEMMA SizesFacts ==
    /\ Len(Sizes) \in Nat /\ Len(Sizes) > 3
    /\ \A k \in 1 .. Len(Sizes) : Sizes[k] \in Nat
    /\ \A k \in 1 .. Len(Sizes) - 1 : Cent <= Sizes[k] /\ Sizes[k] <= Last
    /\ \A k \in 2 .. Len(Sizes) - 1 : Sizes[k - 1] <= Sizes[k]
    /\ Cent \in Nat /\ Last \in Nat /\ Step \in Nat /\ Step < Cent
<1>1. /\ Len(Sizes) \in Nat /\ Len(Sizes) > 3
      /\ \A k \in 1 .. Len(Sizes) : Sizes[k] \in Nat
      /\ Step \in Nat /\ Step < Sizes[1]
  BY SearchAssumption
<1>2. \A k, l \in 1 .. Len(Sizes) : k < l => Sizes[k] < Sizes[l]
  BY SearchAssumption
<1>3. ASSUME NEW k \in 1 .. Len(Sizes) - 1
      PROVE  Cent <= Sizes[k] /\ Sizes[k] <= Last
  <2>1. k = 1 \/ Sizes[1] < Sizes[k]
    BY <1>1, <1>2
  <2>2. k = Len(Sizes) - 1 \/ Sizes[k] < Sizes[Len(Sizes) - 1]
    BY <1>1, <1>2
  <2>3. Sizes[1] \in Nat /\ Sizes[k] \in Nat /\ Sizes[Len(Sizes) - 1] \in Nat
    BY <1>1
  <2>4. Sizes[1] <= Sizes[k]
    BY <2>1, <2>3
  <2>5. Sizes[k] <= Sizes[Len(Sizes) - 1]
    BY <2>2, <2>3
  <2> QED
    BY <2>4, <2>5 DEF Cent, Last
<1>4. ASSUME NEW k \in 2 .. Len(Sizes) - 1
      PROVE  Sizes[k - 1] <= Sizes[k]
  <2>1. Sizes[k - 1] < Sizes[k] /\ Sizes[k - 1] \in Nat /\ Sizes[k] \in Nat
    BY <1>1, <1>2
  <2> QED
    BY <2>1
<1>5. Cent \in Nat /\ Last \in Nat
  BY <1>1 DEF Cent, Last
<1> QED
  BY <1>1, <1>3, <1>4, <1>5 DEF Cent

LEMMA MiddleFacts ==
    ASSUME NEW a \in Nat, NEW b \in Nat, a <= b
    PROVE  /\ Middle(a, b) \in Nat /\ a <= Middle(a, b) /\ Middle(a, b) <= b
           /\ Middle(b, a) = Middle(a, b)
  BY DEF Middle

LEMMA OfferTypes ==
    ASSUME TypeInv, NEW k \in 1 .. NumMarkets, NEW v \in Nat
    PROVE  TokenFor(pools[k], v) \in Nat /\ WethFor(pools[k], v) \in Nat
<1>1. pools[k] \in [weth : 0 .. MaxReserve, token : 0 .. MaxReserve]
  BY SearchAssumption DEF TypeInv
<1>2. TokenFor(pools[k], v) \in 0 .. MaxReserve /\ WethFor(pools[k], v) \in 0 .. MaxReserve
  BY <1>1, PriceTypes, Zenon
<1> QED
  BY <1>2

LEMMA ProfitTypes ==
    ASSUME TypeInv, NEW v \in Nat
    PROVE  OrderProfit(v) \in Nat /\ Proceeds(v) \in Nat
<1>1. ask \in 1 .. NumMarkets /\ bid \in 1 .. NumMarkets
  BY DEF TypeInv
<1>2. Proceeds(v) \in Nat
  BY <1>1, OfferTypes, Zenon DEF Proceeds
<1> QED
  BY <1>2 DEF OrderProfit

\* A volume that pays is not bought from and sold to the same pool.
LEMMA ProfitNeedsTwoPools ==
    ASSUME TypeInv, NEW v \in Nat, OrderProfit(v) > 0
    PROVE  ask # bid
<1>1. Proceeds(v) > v
  BY ProfitTypes DEF OrderProfit
<1>2. pools[ask] \in Pool
  BY SearchAssumption DEF TypeInv, Pool
<1>3. ask = bid => Proceeds(v) <= v
  BY <1>2, RoundTripNeverPays DEF Proceeds
<1> QED
  BY <1>1, <1>3, ProfitTypes

LEMMA InitInvariant == Init => IInv
<1> SUFFICES ASSUME Init PROVE IInv
  OBVIOUS
<1> USE SizesFacts
<1>1. TypeInv
  <2>1. Sizes[1] \in Nat /\ Sizes[3] \in Nat /\ 2 \in 2 .. Len(Sizes) - 1
    OBVIOUS
  <2>2. 1 \in 1 .. NumMarkets /\ 0 \in 0 .. MaxIterations
    BY SearchAssumption
  <2>3. pc = "compare" /\ i = 2 /\ low = Sizes[1] /\ mid = Sizes[1] /\ high = Sizes[3]
    BY DEF Init
  <2> QED
    BY <2>1, <2>2, <2>3 DEF Init, TypeInv
<1>2. RangeInv
  BY DEF Init, RangeInv, Cent, Last
<1>3. CrossInv /\ KeptMarketsDiffer
  BY DEF Init, CrossInv, KeptMarketsDiffer
<1> QED
  BY <1>1, <1>2, <1>3 DEF IInv

LEMMA NextInvariant == IInv /\ [Next]_vars => IInv'
<1> SUFFICES ASSUME IInv, [Next]_vars PROVE IInv'
  OBVIOUS
<1> USE DEF IInv
<1>1. CASE Compare
  <2>1. ask' \in 1 .. NumMarkets /\ bid' \in 1 .. NumMarkets
    <3>1. Cent \in Nat /\ pools \in [1 .. NumMarkets -> Pools]
      BY SizesFacts DEF TypeInv
    <3>2. BestAsk(pools, Cent) \in DOMAIN pools /\ BestBid(pools, Cent) \in DOMAIN pools
      BY <3>1, BestMarkets
    <3> QED
      BY <1>1, <3>1, <3>2 DEF Compare
  <2>2. TypeInv'
    BY <1>1, <2>1 DEF Compare, TypeInv
  <2>3. RangeInv'
    BY <1>1 DEF Compare, RangeInv, Cent, Last
  <2>4. CrossInv'
    BY <1>1 DEF Compare, CrossInv, Crossed, Cent
  <2>5. KeptMarketsDiffer'
    BY <1>1 DEF Compare, CrossInv, KeptMarketsDiffer
  <2> QED
    BY <2>2, <2>3, <2>4, <2>5
<1>2. CASE Bracket
  <2>1. i \in 2 .. Len(Sizes) - 2 /\ i' = i + 1
    BY <1>2, SizesFacts DEF Bracket, Grows, TypeInv
  <2>2. /\ low' = Sizes[i - 1] /\ high' = Sizes[i + 1]
        /\ Cent <= low' /\ low' <= high' /\ high' <= Last
        /\ low' \in Nat /\ high' \in Nat
    <3>1. low' = Sizes[i - 1] /\ high' = Sizes[i + 1]
      BY <1>2 DEF Bracket
    <3>2. /\ i - 1 \in 1 .. Len(Sizes) - 1 /\ i \in 2 .. Len(Sizes) - 1
          /\ i + 1 \in 2 .. Len(Sizes) - 1 /\ i = (i + 1) - 1
      BY <2>1, SizesFacts
    <3>3. /\ Sizes[i - 1] \in Nat /\ Sizes[i] \in Nat /\ Sizes[i + 1] \in Nat
      BY <3>2, SizesFacts
    <3>4. Sizes[i - 1] <= Sizes[i] /\ Sizes[i] <= Sizes[i + 1]
      BY <3>2, SizesFacts
    <3>5. Cent <= Sizes[i - 1] /\ Sizes[i + 1] <= Last
      BY <3>2, SizesFacts
    <3> QED
      BY <3>1, <3>3, <3>4, <3>5
  <2>3. TypeInv'
    BY <1>2, <2>1, <2>2, SizesFacts DEF Bracket, TypeInv
  <2>4. RangeInv'
    BY <1>2, <2>2 DEF Bracket, RangeInv, Cent, Last
  <2>5. CrossInv' /\ KeptMarketsDiffer'
    BY <1>2 DEF Bracket, CrossInv, Crossed, Cent, KeptMarketsDiffer
  <2> QED
    BY <2>3, <2>4, <2>5
<1>3. CASE EndBracket
  <2>1. mid' \in Nat /\ low <= mid' /\ mid' <= high
    BY <1>3, MiddleFacts DEF EndBracket, TypeInv, RangeInv
  <2>2. TypeInv'
    BY <1>3, <2>1 DEF EndBracket, TypeInv
  <2>3. RangeInv'
    BY <1>3, <2>1, SizesFacts DEF EndBracket, TypeInv, RangeInv, Cent, Last
  <2>4. CrossInv' /\ KeptMarketsDiffer'
    BY <1>3 DEF EndBracket, CrossInv, Crossed, Cent, KeptMarketsDiffer
  <2> QED
    BY <2>2, <2>3, <2>4
<1>4. CASE MoveUp
  <2>1. mid' \in Nat /\ mid <= mid' /\ mid' <= high
    BY <1>4, MiddleFacts DEF MoveUp, TypeInv, RangeInv
  <2>2. TypeInv'
    BY <1>4, <2>1, SearchAssumption DEF MoveUp, Count, TypeInv
  <2>3. RangeInv'
    BY <1>4, <2>1, SizesFacts DEF MoveUp, TypeInv, RangeInv, Cent, Last
  <2>4. CrossInv' /\ KeptMarketsDiffer'
    BY <1>4 DEF MoveUp, CrossInv, Crossed, Cent, KeptMarketsDiffer
  <2> QED
    BY <2>2, <2>3, <2>4
<1>5. CASE MoveDown
  <2>1. mid' \in Nat /\ low <= mid' /\ mid' <= mid
    BY <1>5, MiddleFacts DEF MoveDown, TypeInv, RangeInv
  <2>2. TypeInv'
    BY <1>5, <2>1, SearchAssumption DEF MoveDown, Count, TypeInv
  <2>3. RangeInv'
    BY <1>5, <2>1, SizesFacts DEF MoveDown, TypeInv, RangeInv, Cent, Last
  <2>4. CrossInv' /\ KeptMarketsDiffer'
    BY <1>5 DEF MoveDown, CrossInv, Crossed, Cent, KeptMarketsDiffer
  <2> QED
    BY <2>2, <2>3, <2>4
<1>6. CASE Finish
  <2>1. OrderProfit(mid) \in Nat
    BY ProfitTypes DEF TypeInv
  <2>2. TypeInv'
    BY <1>6, <2>1 DEF Finish, TypeInv
  <2>3. RangeInv' /\ CrossInv'
    BY <1>6 DEF Finish, RangeInv, Cent, Last, CrossInv
  <2>4. KeptMarketsDiffer'
    <3>1. SUFFICES ASSUME kept' PROVE ask # bid
      BY <1>6 DEF Finish, KeptMarketsDiffer
    <3>2. OrderProfit(mid) > MinProfit
      BY <1>6, <3>1, Zenon DEF Finish
    <3>3. OrderProfit(mid) > 0
      BY <2>1, <3>2, SearchAssumption
    <3> QED
      BY <3>3, ProfitNeedsTwoPools DEF TypeInv
  <2> QED
    BY <2>2, <2>3, <2>4
<1>7. CASE UNCHANGED vars
  BY <1>7 DEF vars, TypeInv, RangeInv, CrossInv, Crossed, KeptMarketsDiffer, Cent, Last
<1> QED
  BY <1>1, <1>2, <1>3, <1>4, <1>5, <1>6, <1>7 DEF Next

LEMMA SearchInvariant == Spec => []IInv
  BY InitInvariant, NextInvariant, PTL DEF Spec

\* The type invariant.
THEOREM SearchTypeCorrect == Spec => []TypeOK
<1>1. IInv => TypeOK
  BY DEF IInv, TypeInv, TypeOK
<1> QED
  BY <1>1, SearchInvariant, PTL

\* Every volume the bisection tries is within the test sizes, and so is the one
\* it returns; the volume a step below the middle does not underflow.
THEOREM BisectionStaysInRange == Spec => []ProbesInRange
<1>1. IInv => ProbesInRange
  BY SizesFacts DEF IInv, TypeInv, RangeInv, ProbesInRange, Cent, Last
<1> QED
  BY <1>1, SearchInvariant, PTL

\* Markets that cross do not lose at the volume they are compared for.
THEOREM CrossedMarketsDoNotLose == Spec => []CrossingDoesNotLose
<1>1. ASSUME IInv PROVE CrossingDoesNotLose
  <2>1. SUFFICES ASSUME pc \in {"bracket", "ascend"}, TokenNeeded(pools[bid], Cent) > 0
                 PROVE  Proceeds(Cent) >= Cent
    BY DEF CrossingDoesNotLose
  <2> DEFINE b == pools[bid]
             in == TokenNeeded(b, Cent)
             out == TokenFor(pools[ask], Cent)
  <2>2. pools[ask] \in Pools /\ b \in Pools
    BY <1>1 DEF IInv, TypeInv
  <2>3. out > in
    BY <1>1, <2>1 DEF IInv, CrossInv, Crossed
  <2>4. b.weth \in Nat /\ b.token \in Nat /\ Cent \in Nat
    BY <2>2, SizesFacts, SearchAssumption
  <2>5. in \in Nat /\ WethFor(b, in) >= Cent
    BY <2>1, <2>4, AmountInPays DEF TokenNeeded, WethFor
  <2>6. out \in Nat
    BY <1>1, <2>4, OfferTypes DEF IInv, TypeInv
  <2> HIDE DEF b, in, out
  <2>7. WethFor(b, in) <= WethFor(b, out)
    BY <2>3, <2>4, <2>5, <2>6, AmountOutMonotone DEF WethFor
  <2>8. WethFor(b, in) \in Nat /\ WethFor(b, out) \in Nat
    BY <2>4, <2>5, <2>6, AmountOutFacts DEF WethFor
  <2>9. WethFor(b, out) >= Cent
    BY <2>4, <2>5, <2>7, <2>8
  <2> QED
    BY <2>9 DEF b, out, Proceeds
<1> QED
  BY <1>1, SearchInvariant, PTL

\* A crossed market that is kept is an arbitrage between two pools.
THEOREM KeptMarketsAreTwo == Spec => []KeptMarketsDiffer
<1>1. IInv => KeptMarketsDiffer
  BY DEF IInv
<1> QED
  BY <1>1, SearchInvariant, PTL

-----------------------------------------------------------------------------
\* Induction over the numbers, in the form of the least one.
LEMMA LeastNumber ==
    ASSUME NEW T, T \subseteq Nat, T # {}
    PROVE  \E x \in T : \A y \in T : x <= y
<1> DEFINE R == {p \in Nat \X Nat : p[1] < p[2]}
<1>1. IsWellFoundedOn(R, Nat)
  <2>1. OpToRel(<, Nat) = R
    BY DEF OpToRel
  <2> QED
    BY <2>1, NatLessThanWellFounded
<1>2. PICK x \in T : \A y \in T : ~(<<y, x>> \in R)
  <2> HIDE DEF R
  <2> QED
    BY <1>1, WFMin
<1>3. \A y \in T : ~(y < x)
  BY <1>2
<1> QED
  BY <1>3

\* A power of two, as the number of subsets.
LEMMA PowersOfTwo ==
    /\ 2^0 = 1
    /\ \A n \in Nat : 2^n \in Nat /\ 2^(n + 1) = 2 * 2^n
<1>1. ASSUME NEW n \in Nat
      PROVE  2^n \in Nat /\ 2^(n + 1) = 2 * 2^n
  <2> DEFINE S == 1 .. n
             T == SUBSET S
             U == {s \union {n + 1} : s \in T}
             f == [s \in T |-> s \union {n + 1}]
  <2>1. /\ IsFiniteSet(S) /\ Cardinality(S) = n
        /\ IsFiniteSet(1 .. n + 1) /\ Cardinality(1 .. n + 1) = n + 1
    BY FS_Interval
  <2>2. /\ IsFiniteSet(T) /\ Cardinality(T) = 2^n /\ 2^n \in Nat
        /\ Cardinality(SUBSET (1 .. n + 1)) = 2^(n + 1)
    BY <2>1, FS_SUBSET, FS_CardinalityType
  <2>3. \A s \in T : n + 1 \notin s
    OBVIOUS
  <2>4. f \in Bijection(T, U)
    <3>1. f \in [T -> U] /\ \A s \in T : f[s] = s \union {n + 1}
      OBVIOUS
    <3>2. \A u \in U : \E s \in T : f[s] = u
      OBVIOUS
    <3>3. ASSUME NEW s \in T, NEW t \in T, f[s] = f[t] PROVE s = t
      <4>1. s \union {n + 1} = t \union {n + 1} /\ n + 1 \notin s /\ n + 1 \notin t
        BY <2>3, <3>1, <3>3
      <4> QED
        BY <4>1
    <3> HIDE DEF f, T, U
    <3> QED
      BY <3>1, <3>2, <3>3 DEF Bijection, Injection, Surjection, IsInjective
  <2>5. IsFiniteSet(U) /\ Cardinality(U) = Cardinality(T)
    BY <2>2, <2>4, FS_Bijection DEF ExistsBijection
  <2>6. SUBSET (1 .. n + 1) = T \union U
    <3>1. 1 .. n + 1 = S \union {n + 1}
      OBVIOUS
    <3> HIDE DEF S
    <3>2. ASSUME NEW s \in SUBSET (S \union {n + 1}) PROVE s \in T \union U
      <4>1. CASE n + 1 \in s
        <5>1. s \ {n + 1} \in T /\ s = (s \ {n + 1}) \union {n + 1}
          BY <4>1
        <5> QED
          BY <5>1
      <4>2. CASE n + 1 \notin s
        BY <4>2
      <4> QED
        BY <4>1, <4>2
    <3>3. ASSUME NEW s \in T \union U PROVE s \in SUBSET (S \union {n + 1})
      OBVIOUS
    <3> QED
      BY <3>1, <3>2, <3>3
  <2>7. T \cap U = {}
    BY <2>3
  <2> HIDE DEF T, U
  <2>8. Cardinality(T \union U) = Cardinality(T) + Cardinality(U)
    <3>1. Cardinality(T \union U) = Cardinality(T) + Cardinality(U) - Cardinality(T \cap U)
      BY <2>2, <2>5, FS_Union
    <3>2. Cardinality(T \cap U) = 0
      BY <2>7, FS_EmptySet
    <3>3. Cardinality(T) \in Nat /\ Cardinality(U) \in Nat
      BY <2>2, <2>5, FS_CardinalityType
    <3> QED
      BY <3>1, <3>2, <3>3
  <2>9. Cardinality(SUBSET (1 .. n + 1)) = 2^n + 2^n
    BY <2>2, <2>5, <2>6, <2>8
  <2> HIDE DEF S
  <2> QED
    BY <2>2, <2>9
<1> QED
  BY <1>1

\* Two powers are ordered as their exponents are, and each is above its exponent.
LEMMA PowersGrow ==
    ASSUME NEW n \in Nat
    PROVE  /\ 2^n >= n + 1
           /\ \A m \in Nat : m >= n => 2^m >= 2^n
<1> DEFINE p(k) == 2^k
<1>1. p(0) = 1 /\ \A k \in Nat : p(k) \in Nat /\ p(k + 1) = 2 * p(k)
  BY PowersOfTwo
<1> HIDE DEF p
<1>2. ASSUME NEW T, T = {k \in Nat : ~(p(k) >= k + 1)} PROVE T = {}
  <2> SUFFICES ASSUME T # {} PROVE FALSE
    OBVIOUS
  <2>1. PICK x \in T : \A y \in T : x <= y
    BY <1>2, LeastNumber
  <2>2. x \in Nat /\ x # 0
    BY <1>1, <1>2
  <2>3. x - 1 \in Nat /\ x - 1 \notin T
    BY <2>1, <2>2
  <2>4. p(x - 1) >= x /\ p(x) = 2 * p(x - 1) /\ p(x - 1) \in Nat
    BY <1>1, <1>2, <2>2, <2>3
  <2> QED
    BY <1>2, <2>2, <2>4
<1>3. ASSUME NEW T, T = {m \in Nat : m >= n /\ ~(p(m) >= p(n))} PROVE T = {}
  <2> SUFFICES ASSUME T # {} PROVE FALSE
    OBVIOUS
  <2>1. PICK x \in T : \A y \in T : x <= y
    BY <1>3, LeastNumber
  <2>2. x \in Nat /\ x > n
    BY <1>1, <1>3
  <2>3. x - 1 \in Nat /\ x - 1 \notin T
    BY <2>1, <2>2
  <2>4. p(x - 1) >= p(n) /\ p(x) = 2 * p(x - 1) /\ p(x - 1) \in Nat /\ p(n) \in Nat
    BY <1>1, <1>3, <2>2, <2>3
  <2> QED
    BY <1>3, <2>4
<1>4. p(n) >= n + 1 /\ \A m \in Nat : m >= n => p(m) >= p(n)
  BY <1>2, <1>3
<1> QED
  BY <1>4 DEF p

LEMMA LogFacts ==
    ASSUME NEW n \in Nat
    PROVE  Log2(n) \in Nat /\ 2^Log2(n) >= n
<1> DEFINE p(k) == 2^k
           T == {k \in Nat : p(k) >= n}
<1>1. p(0) = 1 /\ \A k \in Nat : p(k) \in Nat
  BY PowersOfTwo
<1>2. n \in T
  <2>1. p(n) >= n + 1 /\ p(n) \in Nat
    BY <1>1, PowersGrow
  <2> HIDE DEF p
  <2> QED
    BY <2>1
<1>3. PICK x \in T : \A y \in T : x <= y
  BY <1>2, LeastNumber
<1>4. x \in 0 .. n /\ p(x) >= n /\ (x = 0 \/ p(x - 1) < n)
  <2> HIDE DEF p
  <2>1. x \in 0 .. n /\ p(x) >= n
    BY <1>2, <1>3
  <2>2. ASSUME x # 0 PROVE p(x - 1) < n
    <3>1. x - 1 \in Nat /\ x - 1 \notin T
      BY <1>3, <2>1, <2>2
    <3> QED
      BY <1>1, <3>1
  <2> QED
    BY <2>1, <2>2
<1>5. \E k \in 0 .. n : 2^k >= n /\ (k = 0 \/ 2^(k - 1) < n)
  BY <1>4
<1> DEFINE P(k) == 2^k >= n /\ (k = 0 \/ 2^(k - 1) < n)
<1>6. Log2(n) = CHOOSE k \in 0 .. n : P(k)
  BY DEF Log2
<1>7. \E k \in 0 .. n : P(k)
  BY <1>5
<1>8. Log2(n) \in 0 .. n /\ P(Log2(n))
  <2> HIDE DEF P
  <2> QED
    BY <1>6, <1>7, Zenon
<1>9. 2^Log2(n) >= n
  BY <1>8, Zenon
<1>10. \A k \in 0 .. n : k \in Nat
  OBVIOUS
<1> QED
  BY <1>8, <1>9, <1>10, Zenon

\* What the bisection keeps: the middle is the middle, and the width between its ends,
\* less one, has been halved by every turn.
HalvedInv ==
    /\ pc \in {"compare", "bracket"} => iterations = 0
    /\ pc = "ascend" =>
          /\ mid = Middle(low, high)
          /\ (high - low - 1) * 2^iterations <= Width - 1

\* One turn, in either direction.
LEMMA TurnHalves ==
    ASSUME IInv, HalvedInv, pc = "ascend", Count,
           NEW l \in Nat, NEW h \in Nat,
           (l = mid /\ h = high) \/ (l = low /\ h = mid)
    PROVE  (h - l - 1) * 2^iterations' <= Width - 1
<1> DEFINE p == 2^iterations
<1>1. /\ low \in Nat /\ mid \in Nat /\ high \in Nat /\ low <= high
      /\ iterations \in Nat /\ mid = (low + high) \div 2
      /\ (high - low - 1) * p <= Width - 1
  BY SearchAssumption DEF IInv, TypeInv, RangeInv, HalvedInv, Middle
<1>2. p \in Nat /\ 2^(iterations + 1) = 2 * p
  BY <1>1, PowersOfTwo
<1>3. Width \in Int
  BY SizesFacts DEF Width, Cent, Last
<1> HIDE DEF p
<1>4. 2 * (h - l - 1) <= high - low - 1 /\ h - l - 1 <= high - low - 1
  BY <1>1
<1> DEFINE new == h - l - 1
           old == high - low - 1
<1>5. new \in Int /\ old \in Int /\ 2 * new <= old /\ new <= old /\ old * p <= Width - 1
  BY <1>1, <1>4
<1> HIDE DEF new, old
<1>6. ASSUME NEW a \in Int, NEW b \in Int, NEW q \in Nat, a <= b
      PROVE  a * q <= b * q
  BY <1>6
<1>7. CASE iterations' = iterations + 1
  <2>1. (2 * new) * p <= old * p
    BY <1>2, <1>5, <1>6
  <2>2. new * (2 * p) = (2 * new) * p
    BY <1>2, <1>5
  <2>3. new * (2 * p) <= Width - 1
    BY <1>2, <1>3, <1>5, <2>1, <2>2
  <2> QED
    BY <1>2, <1>7, <2>3 DEF new
<1>8. CASE iterations' = iterations
  <2>1. new * p <= Width - 1
    BY <1>2, <1>3, <1>5, <1>6
  <2> QED
    BY <1>8, <2>1 DEF new, p
<1> QED
  BY <1>7, <1>8 DEF Count

LEMMA HalvedStep ==
    ASSUME IInv, HalvedInv, [Next]_vars
    PROVE  HalvedInv'
<1>1. low \in Nat /\ mid \in Nat /\ high \in Nat
  BY DEF IInv, TypeInv
<1>2. CASE Compare
  BY <1>2 DEF Compare, HalvedInv
<1>3. CASE Bracket
  BY <1>3 DEF Bracket, HalvedInv
<1>4. CASE EndBracket
  <2>1. iterations = 0 /\ 2^0 = 1
    BY <1>4, PowersOfTwo DEF EndBracket, HalvedInv
  <2>2. /\ pc' = "ascend" /\ mid' = Middle(low, high)
        /\ UNCHANGED <<low, high, iterations>>
    BY <1>1, <1>4, MiddleFacts DEF EndBracket, IInv, TypeInv, RangeInv
  <2>3. high - low <= Width
    BY <1>1, SizesFacts DEF IInv, RangeInv, Width, Cent, Last
  <2>4. Width \in Int
    BY SizesFacts DEF Width, Cent, Last
  <2>5. (high - low - 1) * 1 <= Width - 1
    BY <1>1, <2>3, <2>4
  <2> QED
    BY <2>1, <2>2, <2>5 DEF HalvedInv
<1>5. CASE MoveUp
  <2>1. pc = "ascend" /\ pc' = pc /\ low' = mid /\ high' = high /\ mid' = Middle(mid, high) /\ Count
    BY <1>5 DEF MoveUp
  <2>2. (high' - low' - 1) * 2^iterations' <= Width - 1
    BY <1>1, <2>1, TurnHalves
  <2> QED
    BY <2>1, <2>2 DEF HalvedInv
<1>6. CASE MoveDown
  <2>1. pc = "ascend" /\ pc' = pc /\ high' = mid /\ low' = low /\ mid' = Middle(low, mid) /\ Count
    BY <1>6 DEF MoveDown
  <2>2. (high' - low' - 1) * 2^iterations' <= Width - 1
    BY <1>1, <2>1, TurnHalves
  <2> QED
    BY <2>1, <2>2 DEF HalvedInv
<1>7. CASE Finish
  BY <1>7 DEF Finish, HalvedInv
<1>8. CASE UNCHANGED vars
  BY <1>8 DEF vars, HalvedInv
<1> QED
  BY <1>2, <1>3, <1>4, <1>5, <1>6, <1>7, <1>8 DEF Next

\* After as many turns as the widest interval of the test sizes has bits, no volume is
\* left between the two ends, for any test sizes and any pools.
THEOREM BisectionHalves == Spec => []IntervalIsHalved
<1>1. Init => HalvedInv
  BY DEF Init, HalvedInv
<1>2. ASSUME IInv, HalvedInv PROVE IntervalIsHalved
  <2> SUFFICES ASSUME pc = "ascend", iterations >= Log2(Width)
               PROVE  high - low <= 1
    BY DEF IntervalIsHalved
  <2> DEFINE p == 2^iterations
  <2>1. low \in Nat /\ high \in Nat /\ iterations \in Nat /\ (high - low - 1) * p <= Width - 1
    BY <1>2, SearchAssumption DEF IInv, TypeInv, HalvedInv
  <2>2. Width \in Nat
    <3>1. Cent <= Last
      BY SizesFacts
    <3> QED
      BY <3>1, SizesFacts DEF Width, Cent, Last
  <2>3. p \in Nat /\ p >= Width /\ p >= 1
    <3>1. Log2(Width) \in Nat /\ 2^Log2(Width) >= Width /\ 2^Log2(Width) \in Nat
      BY <2>2, LogFacts, PowersOfTwo
    <3>2. p >= 2^Log2(Width) /\ p >= iterations + 1 /\ p \in Nat
      BY <2>1, <3>1, PowersGrow, PowersOfTwo
    <3> HIDE DEF p
    <3> QED
      BY <2>1, <2>2, <3>1, <3>2
  <2> HIDE DEF p
  <2>4. SUFFICES ASSUME high - low >= 2 PROVE FALSE
    BY <2>1
  <2>5. (high - low - 1) * p >= p
    <3>1. PICK k \in Nat : high - low - 1 = k + 1
      BY <2>1, <2>4
    <3>2. k * p >= 0 /\ (k + 1) * p = k * p + p
      BY <2>3
    <3> QED
      BY <2>3, <3>1, <3>2
  <2>6. (high - low - 1) * p \in Int
    BY <2>1, <2>3
  <2> QED
    BY <2>1, <2>2, <2>3, <2>5, <2>6
<1>3. IInv /\ HalvedInv /\ [Next]_vars => HalvedInv'
  BY HalvedStep
<1> QED
  BY <1>1, <1>2, <1>3, SearchInvariant, PTL DEF Spec

-----------------------------------------------------------------------------
\* The loop has turned once since its interval closed: nothing is between the ends, the
\* middle is at the lower one, and the slope there is what it was in the last turn.
StuckInv ==
    iterations > Log2(Width) =>
        /\ pc = "ascend"
        /\ low = mid /\ ~Converged
        /\ \/ Rising /\ Middle(mid, high) = mid
           \/ ~Rising /\ Falling /\ high = mid

LEMMA LogOfWidth == Log2(Width) \in Nat
<1>1. Width \in Nat
  <2>1. Cent <= Last
    BY SizesFacts
  <2> QED
    BY <2>1, SizesFacts DEF Width, Cent, Last
<1> QED
  BY <1>1, LogFacts

\* When the interval is closed the middle is at its lower end.
LEMMA ClosedInterval ==
    ASSUME IInv, HalvedInv, IntervalIsHalved, pc = "ascend", iterations >= Log2(Width)
    PROVE  low = mid /\ Middle(low, mid) = mid /\ Middle(mid, high) = mid
<1>1. /\ low \in Nat /\ high \in Nat /\ low <= high
      /\ high - low <= 1 /\ mid = Middle(low, high)
  BY DEF IInv, TypeInv, RangeInv, HalvedInv, IntervalIsHalved
<1> QED
  BY <1>1 DEF Middle

\* The profits are those of the pools, which do not change.
LEMMA SameProfits ==
    ASSUME UNCHANGED <<pools, ask, bid>>, NEW v
    PROVE  OrderProfit(v)' = OrderProfit(v)
  BY DEF OrderProfit, Proceeds

LEMMA StuckStep ==
    ASSUME IInv, HalvedInv, IntervalIsHalved, StuckInv, [Next]_vars
    PROVE  /\ StuckInv'
           /\ iterations > Log2(Width) =>
                  UNCHANGED <<pc, low, mid, high, profit, volume, kept>>
<1> DEFINE L == Log2(Width)
<1>1. /\ L \in Nat /\ L' = L /\ iterations \in Nat
      /\ low \in Nat /\ mid \in Nat /\ high \in Nat
  <2>1. Log2(Width)' = Log2(Width)
    BY DEF Log2, Width
  <2> QED
    BY <2>1, LogOfWidth, SearchAssumption DEF IInv, TypeInv
<1> HIDE DEF L
<1>2. CASE Compare \/ Bracket \/ EndBracket
  <2>1. iterations = 0 /\ iterations' = 0
    BY <1>2 DEF HalvedInv, Compare, Bracket, EndBracket
  <2> QED
    BY <1>1, <2>1 DEF StuckInv, L
<1>3. ASSUME MoveUp \/ MoveDown
      PROVE  /\ pc = "ascend" /\ pc' = "ascend" /\ ~Converged /\ (Rising \/ Falling)
             /\ iterations' > L => iterations >= L
             /\ iterations > L => iterations' > L
             /\ UNCHANGED <<pools, ask, bid, profit, volume, kept>>
  BY <1>1, <1>3 DEF MoveUp, MoveDown, Count
<1>4. ASSUME MoveUp, iterations >= L
      PROVE  UNCHANGED <<pc, low, mid, high, profit, volume, kept>>
  <2>1. low = mid /\ Middle(mid, high) = mid
    BY <1>3, <1>4, ClosedInterval DEF L
  <2> QED
    BY <1>4, <2>1 DEF MoveUp
<1>5. ASSUME MoveDown, iterations >= L
      PROVE  low' = mid' /\ mid' = mid /\ high' = mid' /\ low' = low
  <2>1. low = mid /\ Middle(low, mid) = mid
    BY <1>3, <1>5, ClosedInterval DEF L
  <2> QED
    BY <1>5, <2>1 DEF MoveDown
<1>6. CASE MoveUp
  <2>1. SUFFICES ASSUME iterations' > L
                 PROVE  StuckInv' /\ UNCHANGED <<pc, low, mid, high, profit, volume, kept>>
    BY <1>3, <1>6 DEF StuckInv, L
  <2>2. UNCHANGED <<pools, ask, bid, pc, low, mid, high, profit, volume, kept>>
    BY <1>3, <1>4, <1>6, <2>1
  <2>3. low = mid /\ Middle(mid, high) = mid
    BY <1>3, <1>6, <2>1, ClosedInterval DEF L
  <2>4. Converged' = Converged /\ Rising' = Rising
    BY <2>2, SameProfits DEF Converged, Rising
  <2>5. ~Converged /\ Rising /\ pc = "ascend"
    BY <1>6 DEF MoveUp
  <2> QED
    BY <2>2, <2>3, <2>4, <2>5 DEF StuckInv
<1>7. CASE MoveDown
  <2>1. SUFFICES ASSUME iterations' > L
                 PROVE  /\ StuckInv'
                        /\ iterations > L => UNCHANGED <<pc, low, mid, high, profit, volume, kept>>
    BY <1>3, <1>7 DEF StuckInv, L
  <2>2. /\ low' = mid' /\ mid' = mid /\ high' = mid' /\ low' = low
        /\ UNCHANGED <<pools, ask, bid, pc, profit, volume, kept>>
    BY <1>3, <1>5, <1>7, <2>1
  <2>3. ~Rising /\ Falling /\ pc = "ascend"
    BY <1>7 DEF MoveDown
  <2>4. Rising' = Rising /\ Falling' = Falling
    BY <2>2, SameProfits DEF Rising, Falling
  <2>5. ~Converged'
    <3>1. Converged' => OrderProfit(mid) > OrderProfit(mid)
      BY <2>2, SameProfits DEF Converged
    <3>2. OrderProfit(mid) \in Nat
      BY <1>1, ProfitTypes DEF IInv
    <3> QED
      BY <3>1, <3>2
  <2>6. iterations > L => high = mid
    BY <2>3 DEF StuckInv, L
  <2> QED
    BY <2>2, <2>3, <2>4, <2>5, <2>6 DEF StuckInv
<1>8. CASE Finish
  <2>1. ~(iterations > L) /\ iterations' = iterations
    BY <1>8 DEF Finish, StuckInv, L
  <2> QED
    BY <1>1, <2>1 DEF StuckInv, L
<1>9. CASE UNCHANGED vars
  <2>1. UNCHANGED <<pools, pc, ask, bid, low, mid, high, iterations, profit, volume, kept>>
    BY <1>9 DEF vars
  <2>2. Rising' = Rising /\ Falling' = Falling /\ Converged' = Converged
    BY <2>1, SameProfits DEF Rising, Falling, Converged
  <2> QED
    BY <1>1, <2>1, <2>2 DEF StuckInv, L
<1> QED
  BY <1>2, <1>6, <1>7, <1>8, <1>9 DEF Next

\* A bisection that has not ended one turn after its interval closed never ends, for any
\* pools, test sizes, steps and precisions: what the turns of the loop (arbitrage.rs:112)
\* compare stays the same, and no break is taken.
THEOREM BisectionEndsInTimeOrNever == Spec => EndsInTimeOrNever
<1>1. Init => HalvedInv /\ StuckInv
  <2>1. Init => HalvedInv /\ iterations = 0
    BY DEF Init, HalvedInv
  <2> QED
    BY <2>1, LogOfWidth DEF StuckInv
<1>2. IInv /\ HalvedInv /\ [Next]_vars => HalvedInv'
  BY HalvedStep
<1>3. IInv /\ HalvedInv /\ IntervalIsHalved /\ StuckInv /\ [Next]_vars
      => /\ StuckInv'
         /\ [iterations > Log2(Width) => UNCHANGED <<pc, low, mid, high, profit, volume, kept>>]_vars
  BY StuckStep
<1> QED
  BY <1>1, <1>2, <1>3, SearchInvariant, BisectionHalves, PTL DEF Spec, EndsInTimeOrNever
=============================================================================

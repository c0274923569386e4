--------------------------- MODULE PricingProofs ----------------------------
(***************************************************************************)
(* Proofs about the prices of pools (UniswapPool) and of the markets with  *)
(* a rate (ExchangeRate), for all reserves, rates and amounts.             *)
(***************************************************************************)
EXTENDS UniswapPool, ExchangeRate, WellFoundedInduction, TLAPS

LEMMA DivisionFacts ==
    ASSUME NEW n \in Nat, NEW d \in Nat \ {0}
    PROVE  /\ n \div d \in Nat
           /\ (n \div d) * d <= n
           /\ n < (n \div d + 1) * d
  OBVIOUS

LEMMA DivisionLeast ==
    ASSUME NEW n \in Nat, NEW d \in Nat \ {0}, NEW q \in Nat, q * d <= n
    PROVE  q <= n \div d
  OBVIOUS

LEMMA ProductNat ==
    ASSUME NEW a \in Nat, NEW b \in Nat
    PROVE  a * b \in Nat
  OBVIOUS

LEMMA ProductMonotone ==
    ASSUME NEW a \in Nat, NEW b \in Nat, NEW c \in Nat, a <= b
    PROVE  a * c <= b * c
  OBVIOUS

LEMMA FeeFacts == Charged \in Nat /\ Charged > 0 /\ Whole \in Nat /\ Whole > Charged
  BY DEF Charged, Whole

\* The quotient of get_amount_out and its two cases of 0.
LEMMA GuardedQuotient ==
    ASSUME NEW n \in Nat, NEW d \in Nat, NEW q,
           q = IF n = 0 \/ d = 0 THEN 0 ELSE n \div d
    PROVE  /\ q \in Nat
           /\ q * d <= n
           /\ \A r \in Nat : r * d <= n /\ d > 0 => r <= q
<1>1. CASE n = 0 \/ d = 0
  BY <1>1
<1>2. CASE ~(n = 0 \/ d = 0)
  BY <1>2, DivisionFacts, DivisionLeast
<1> QED
  BY <1>1, <1>2

\* What get_amount_out returns: a natural number that satisfies the inequality of
\* the constant product, and no larger one does.
LEMMA AmountOutFacts ==
    ASSUME NEW ri \in Nat, NEW ro \in Nat, NEW a \in Nat
    PROVE  /\ AmountOut(ri, ro, a) \in Nat
           /\ AmountOut(ri, ro, a) * (ri * Whole + a * Charged) <= a * Charged * ro
           /\ \A r \in Nat : /\ r * (ri * Whole + a * Charged) <= a * Charged * ro
                             /\ ri * Whole + a * Charged > 0
                             => r <= AmountOut(ri, ro, a)
<1> DEFINE n == a * Charged * ro
           d == ri * Whole + a * Charged
           q == AmountOut(ri, ro, a)
<1>1. n \in Nat /\ d \in Nat
  <2>1. a * Charged \in Nat /\ ri * Whole \in Nat
    BY DEF Charged, Whole
  <2> QED
    BY <2>1, ProductNat
<1>2. q = IF n = 0 \/ d = 0 THEN 0 ELSE n \div d
  BY DEF AmountOut
<1>3. q \in Nat /\ q * d <= n /\ \A r \in Nat : r * d <= n /\ d > 0 => r <= q
  <2> HIDE DEF n, d, q
  <2> QED
    BY <1>1, <1>2, GuardedQuotient
<1> QED
  BY <1>3, Zenon

\* A pool is never asked for more than it holds, and never drained: the swap that
\* sell_tokens encodes leaves something in every pool that has both reserves.
THEOREM PoolIsNotDrained ==
    ASSUME NEW ri \in Nat, NEW ro \in Nat, NEW a \in Nat
    PROVE  /\ AmountOut(ri, ro, a) <= ro
           /\ ri > 0 /\ ro > 0 => AmountOut(ri, ro, a) < ro
<1> DEFINE q == AmountOut(ri, ro, a)
<1>1. q \in Nat /\ q * (ri * Whole + a * Charged) <= a * Charged * ro
  BY AmountOutFacts
<1>2. CASE a = 0
  BY <1>2, FeeFacts DEF AmountOut
<1>3. CASE a > 0
  <2> HIDE DEF q
  <2>1. q * (ri * Whole) + q * (a * Charged) <= (a * Charged) * ro
    BY <1>1 DEF Charged, Whole
  <2>2. q * (ri * Whole) \in Nat
    BY <1>1, ProductNat DEF Charged, Whole
  <2>3. q * (a * Charged) <= (a * Charged) * ro
    BY <1>1, <2>1, <2>2 DEF Charged, Whole
  <2>4. q <= ro
    BY <1>1, <1>3, <2>3 DEF Charged, Whole
  <2>5. ASSUME ri > 0, ro > 0, q = ro
        PROVE  FALSE
    BY <1>1, <1>3, <2>1, <2>5 DEF Charged, Whole
  <2> QED
    BY <1>1, <2>4, <2>5 DEF q
<1> QED
  BY <1>2, <1>3

\* More in, not less out.
LEMMA AmountOutMonotone ==
    ASSUME NEW ri \in Nat, NEW ro \in Nat, NEW a \in Nat, NEW b \in Nat, a <= b
    PROVE  AmountOut(ri, ro, a) <= AmountOut(ri, ro, b)
<1> DEFINE q == AmountOut(ri, ro, a)
<1>1. q \in Nat /\ q * (ri * Whole + a * Charged) <= a * Charged * ro /\ q <= ro
  BY AmountOutFacts, PoolIsNotDrained
<1>2. CASE b = 0
  BY <1>1, <1>2
<1>3. CASE b > 0
  <2> HIDE DEF q
  <2>1. PICK c \in Nat : b = a + c
    BY a <= b, b - a \in Nat
  <2>2. q * (c * Charged) <= ro * (c * Charged)
    BY <1>1, <2>1, ProductMonotone DEF Charged, Whole
  <2>3. q * (ri * Whole + b * Charged) = q * (ri * Whole + a * Charged) + q * (c * Charged)
    BY <1>1, <2>1 DEF Charged, Whole
  <2>4. b * Charged * ro = a * Charged * ro + ro * (c * Charged)
    BY <2>1 DEF Charged, Whole
  <2>5. q * (ri * Whole + b * Charged) <= b * Charged * ro
    BY <1>1, <2>1, <2>2, <2>3, <2>4 DEF Charged, Whole
  <2>6. ri * Whole + b * Charged > 0
    BY <1>3 DEF Charged, Whole
  <2> QED
    BY <1>1, <2>5, <2>6, AmountOutFacts, Zenon DEF q
<1> QED
  BY <1>2, <1>3

\* get_amount_in asks for enough: when it asks for anything, the pool gives at
\* least the wanted amount for what it asks.
THEOREM AmountInPays ==
    ASSUME NEW ri \in Nat, NEW ro \in Nat, NEW x \in Nat, AmountIn(ri, ro, x) > 0
    PROVE  /\ AmountIn(ri, ro, x) \in Nat
           /\ AmountOut(ri, ro, AmountIn(ri, ro, x)) >= x
<1> DEFINE n == ri * x * Whole
           d == (ro - x) * Charged
           in == AmountIn(ri, ro, x)
<1>1. ~(ro < x \/ n = 0 \/ d = 0) /\ in = n \div d + 1
  BY DEF AmountIn
<1>2. n \in Nat /\ d \in Nat \ {0}
  BY <1>1, ProductNat DEF Charged, Whole
<1> HIDE DEF n, d
<1>3. in \in Nat /\ in > 0 /\ n < in * d
  BY <1>1, <1>2, DivisionFacts
<1> HIDE DEF in
<1>4. ri * x * Whole <= in * ((ro - x) * Charged)
  BY <1>3, <1>2 DEF n, d
<1>5. x * (ri * Whole + in * Charged) <= in * Charged * ro
  BY <1>3, <1>4 DEF Charged, Whole
<1>6. ri * Whole + in * Charged > 0
  BY <1>3 DEF Charged, Whole
<1>7. x <= AmountOut(ri, ro, in)
  BY <1>3, <1>5, <1>6, AmountOutFacts, Zenon
<1>8. AmountOut(ri, ro, in) \in Nat
  BY <1>3, AmountOutFacts
<1> QED
  BY <1>3, <1>7, <1>8 DEF in

\* And for no more than one unit too many: for two less the pool does not give the
\* wanted amount.
THEOREM AmountInIsTight ==
    ASSUME NEW ri \in Nat, NEW ro \in Nat, NEW x \in Nat, AmountIn(ri, ro, x) > 1
    PROVE  AmountOut(ri, ro, AmountIn(ri, ro, x) - 2) < x
<1> DEFINE n == ri * x * Whole
           d == (ro - x) * Charged
           in == AmountIn(ri, ro, x)
           less == in - 2
           out == AmountOut(ri, ro, less)
<1>1. ~(ro < x \/ n = 0 \/ d = 0) /\ in = n \div d + 1
  BY DEF AmountIn
<1>2. n \in Nat /\ d \in Nat \ {0}
  BY <1>1, ProductNat DEF Charged, Whole
<1> HIDE DEF n, d
<1>3. in - 1 \in Nat /\ (in - 1) * d <= n /\ less \in Nat /\ in > 1
  BY <1>1, <1>2, DivisionFacts
<1> HIDE DEF in
<1>4. (in - 1) * d = less * d + d /\ less * d \in Nat
  <2>1. in \in Nat
    BY <1>1, <1>2, DivisionFacts DEF in
  <2>2. in - 1 = less + 1 /\ less \in Nat
    BY <1>3, <2>1
  <2> HIDE DEF less
  <2>3. (less + 1) * d = less * d + d /\ less * d \in Nat
    BY <1>2, <2>2, ProductNat
  <2> QED
    BY <2>2, <2>3
<1> HIDE DEF less
<1>5. less * d < n
  BY <1>2, <1>3, <1>4
<1>6. out \in Nat /\ out * (ri * Whole + less * Charged) <= less * Charged * ro
  BY <1>3, AmountOutFacts, Zenon
<1> HIDE DEF out
<1>7. ASSUME out >= x PROVE FALSE
  <2>1. ri * Whole + less * Charged \in Nat
    BY <1>3 DEF Charged, Whole
  <2>2. x * (ri * Whole + less * Charged) <= out * (ri * Whole + less * Charged)
    BY <1>6, <1>7, <2>1, ProductMonotone
  <2>3. /\ x * (ri * Whole + less * Charged) \in Nat
        /\ out * (ri * Whole + less * Charged) \in Nat
        /\ less * Charged * ro \in Nat
    BY <1>3, <1>6, <2>1, ProductNat DEF Charged
  <2>4. x * (ri * Whole + less * Charged) <= less * Charged * ro
    BY <1>6, <2>2, <2>3
  <2>5. ri * x * Whole <= less * ((ro - x) * Charged)
    BY <1>3, <2>4 DEF Charged, Whole
  <2> QED
    BY <1>2, <1>4, <1>5, <2>5 DEF n, d
<1> QED
  BY <1>6, <1>7 DEF out, less, in

\* Buying from a pool and selling back to it at the same reserves never pays.
LEMMA RoundTripNeverPays ==
    ASSUME NEW p \in Pool, NEW v \in Nat
    PROVE  WethFor(p, TokenFor(p, v)) <= v
<1> DEFINE t == TokenFor(p, v)
           w == WethFor(p, t)
<1>1. p.weth \in Nat /\ p.token \in Nat
  BY DEF Pool
<1>2. t \in Nat /\ t * (p.weth * Whole + v * Charged) <= v * Charged * p.token
  BY <1>1, AmountOutFacts, Zenon DEF TokenFor
<1> HIDE DEF t
<1>3. w \in Nat /\ w * (p.token * Whole + t * Charged) <= t * Charged * p.weth
  BY <1>1, <1>2, AmountOutFacts, Zenon DEF WethFor
<1>6. w <= p.weth
  BY <1>1, <1>2, PoolIsNotDrained, Zenon DEF WethFor
<1>4. CASE p.token = 0
  <2>1. t * (p.weth * Whole + v * Charged) <= 0
    BY <1>2, <1>4 DEF Charged, Whole
  <2>2. t = 0 \/ p.weth = 0
    BY <1>1, <1>2, <2>1 DEF Charged, Whole
  <2>3. t = 0 => w = 0
    BY <1>1, <1>4 DEF WethFor, AmountOut, Charged, Whole
  <2> QED
    BY <1>3, <1>6, <2>2, <2>3 DEF t
<1>5. CASE p.token > 0
  <2> HIDE DEF w
  <2>1. t * p.weth * Whole <= v * Charged * p.token
    BY <1>1, <1>2 DEF Charged, Whole
  <2>2. w * p.token * Whole <= t * Charged * p.weth
    BY <1>1, <1>2, <1>3 DEF Charged, Whole
  <2>3. w * p.token * Whole * Whole <= v * Charged * p.token * Charged
    BY <1>1, <1>2, <1>3, <2>1, <2>2 DEF Charged, Whole
  <2>4. w <= v
    BY <1>1, <1>3, <1>5, <2>3 DEF Charged, Whole
  <2> QED
    BY <2>4 DEF t, w
<1> QED
  BY <1>1, <1>4, <1>5

-----------------------------------------------------------------------------
\* The functions of the cETH market "are essentially inverse operations"
\* (compound.rs:84): what is asked for buys exactly the cETH wanted, and changing to
\* cETH and back never gains (get_tokens_out, get_tokens_in).
THEOREM ExchangeNeverGains ==
    ASSUME NEW rate \in Rate, NEW eth \in Nat, NEW ceth \in Nat
    PROVE  /\ CethFor(rate, EthNeeded(rate, ceth)) = ceth
           /\ EthFor(rate, CethFor(rate, eth)) <= eth
<1>1. rate \in Nat \ {0}
  BY DEF Rate
<1>2. (ceth * rate) \div rate = ceth
  BY <1>1
<1>3. (eth \div rate) * rate <= eth
  BY <1>1, DivisionFacts
<1> QED
  BY <1>2, <1>3 DEF CethFor, EthFor, EthNeeded

\* Unlike get_tokens_in of a pool (AmountInPays), that of the cETH market rounds down
\* (compound.rs:103): the cETH it asks for gives less than the ETH wanted, by less
\* than the rate, unless the amount is a multiple of the rate.
THEOREM CethNeededFallsShort ==
    ASSUME NEW rate \in Rate, NEW eth \in Nat
    PROVE  /\ EthFor(rate, CethNeeded(rate, eth)) <= eth
           /\ eth < EthFor(rate, CethNeeded(rate, eth)) + rate
           /\ EthFor(rate, CethNeeded(rate, eth)) = eth <=> \E n \in Nat : eth = n * rate
<1> DEFINE q == eth \div rate
<1>1. rate \in Nat \ {0} /\ q \in Nat /\ q * rate <= eth /\ eth < (q + 1) * rate
  BY DivisionFacts DEF Rate
<1> HIDE DEF q
<1>2. (q + 1) * rate = q * rate + rate
  BY <1>1
<1>3. ASSUME NEW n \in Nat, eth = n * rate
      PROVE  q * rate = eth
  <2>1. q <= n /\ n < q + 1
    BY <1>1, <1>3
  <2> QED
    BY <1>1, <1>3, <2>1
<1>4. q * rate = eth <=> \E n \in Nat : eth = n * rate
  BY <1>1, <1>3
<1> QED
  BY <1>1, <1>2, <1>4 DEF EthFor, CethNeeded, q

-----------------------------------------------------------------------------
LEMMA LeastNatural ==
    ASSUME NEW T, T \subseteq Nat, T # {}
    PROVE  \E m \in T : \A k \in T : m <= k
<1> DEFINE R == {ss \in Nat \X Nat : ss[1] < ss[2]}
<1>1. IsWellFoundedOn(R, Nat)
  BY NatLessThanWellFounded DEF OpToRel
<1>2. \A k, m \in Nat : k < m => <<k, m>> \in R
  OBVIOUS
<1> HIDE DEF R
<1>3. \E m \in T : \A k \in T : ~ (<<k, m>> \in R)
  BY <1>1, WFMin, Zenon
<1>4. ASSUME NEW k \in T, NEW m \in T, ~ (<<k, m>> \in R)
      PROVE  m <= k
  <2>1. k \in Nat /\ m \in Nat
    OBVIOUS
  <2>2. ~ (k < m)
    BY <1>2, <1>4, <2>1
  <2> QED
    BY <2>1, <2>2
<1> QED
  BY <1>3, <1>4, Zenon

\* A loop over a list that keeps the first of the least values finds one.
LEMMA FirstLeast ==
    ASSUME NEW n \in Nat \ {0}, NEW f \in [1 .. n -> Nat]
    PROVE  \E x \in 1 .. n : /\ \A y \in 1 .. n : f[x] <= f[y]
                             /\ \A y \in 1 .. x - 1 : f[x] < f[y]
<1> DEFINE V == {f[y] : y \in 1 .. n}
<1>1. V \subseteq Nat /\ V # {}
  BY 1 \in 1 .. n
<1>2. PICK m \in V : \A k \in V : m <= k
  <2> HIDE DEF V
  <2> QED
    BY <1>1, LeastNatural
<1> DEFINE X == {y \in 1 .. n : f[y] = m}
<1>3. X \subseteq Nat /\ X # {}
  BY <1>2
<1>4. PICK x \in X : \A k \in X : x <= k
  <2> HIDE DEF X
  <2> QED
    BY <1>3, LeastNatural
<1>5. x \in 1 .. n /\ \A y \in 1 .. n : f[x] <= f[y]
  BY <1>2, <1>4
<1>6. ASSUME NEW y \in 1 .. x - 1
      PROVE  f[x] < f[y]
  <2>1. y \in 1 .. n /\ f[y] \in Nat /\ f[x] \in Nat /\ f[x] <= f[y]
    BY <1>5
  <2>2. f[y] # f[x]
    BY <1>4, <2>1
  <2> QED
    BY <2>1, <2>2
<1> QED
  BY <1>5, <1>6

LEMMA PriceBounds ==
    ASSUME NEW m \in Nat, NEW p \in [weth : 0 .. m, token : 0 .. m], NEW v \in Nat
    PROVE  /\ TokenFor(p, v) \in 0 .. m
           /\ WethFor(p, v) \in 0 .. m
           /\ TokenNeeded(p, v) \in Nat
<1>1. p.weth \in Nat /\ p.token \in Nat /\ p.weth <= m /\ p.token <= m
  OBVIOUS
<1>2. TokenFor(p, v) \in Nat /\ TokenFor(p, v) <= p.token
  BY <1>1, AmountOutFacts, PoolIsNotDrained, Zenon DEF TokenFor
<1>3. WethFor(p, v) \in Nat /\ WethFor(p, v) <= p.weth
  BY <1>1, AmountOutFacts, PoolIsNotDrained, Zenon DEF WethFor
<1>4. TokenNeeded(p, v) \in Nat
  <2>1. ASSUME NEW n \in Nat, NEW d \in Nat, d # 0
        PROVE  n \div d + 1 \in Nat
    BY <2>1
  <2>2. CASE p.weth < v
    BY <2>2 DEF TokenNeeded, AmountIn
  <2>3. CASE ~(p.weth < v)
    <3> DEFINE n == p.token * v * Whole
               d == (p.weth - v) * Charged
    <3>1. n \in Nat /\ d \in Nat
      BY <1>1, <2>3, ProductNat DEF Charged, Whole
    <3>2. TokenNeeded(p, v) = IF n = 0 \/ d = 0 THEN 0 ELSE n \div d + 1
      BY <2>3 DEF TokenNeeded, AmountIn
    <3> HIDE DEF n, d
    <3> QED
      BY <2>1, <3>1, <3>2
  <2> QED
    BY <2>2, <2>3
<1> QED
  BY <1>1, <1>2, <1>3, <1>4

\* best_ask_market and best_bid_market return one of the markets.
LEMMA BestMarketsExist ==
    ASSUME NEW n \in Nat \ {0}, NEW m \in Nat, NEW v \in Nat,
           NEW pools \in [1 .. n -> [weth : 0 .. m, token : 0 .. m]]
    PROVE  /\ BestAsk(pools, v) \in 1 .. n /\ BestBid(pools, v) \in 1 .. n
           /\ \A j \in 1 .. n :
                  TokenNeeded(pools[j], v) >= TokenNeeded(pools[BestBid(pools, v)], v)
<1> DEFINE offer == [j \in 1 .. n |-> m - TokenFor(pools[j], v)]
           bids  == [j \in 1 .. n |-> TokenNeeded(pools[j], v)]
<1>1. \A j \in 1 .. n : /\ TokenFor(pools[j], v) \in 0 .. m
                       /\ TokenNeeded(pools[j], v) \in Nat
  BY PriceBounds
<1>2. n \in Nat \ {0} /\ m \in Nat
  OBVIOUS
<1>2a. \A j \in 1 .. n : /\ TokenFor(pools[j], v) \in Nat
                        /\ m - TokenFor(pools[j], v) \in Nat
                        /\ TokenNeeded(pools[j], v) \in Nat
  <2>1. ASSUME NEW x \in 0 .. m
        PROVE  x \in Nat /\ m - x \in Nat
    OBVIOUS
  <2> QED
    BY <1>1, <2>1, Zenon
<1>3. offer \in [1 .. n -> Nat] /\ bids \in [1 .. n -> Nat]
  BY <1>2a, Zenon
<1>4. PICK a \in 1 .. n : /\ \A y \in 1 .. n : offer[a] <= offer[y]
                         /\ \A y \in 1 .. a - 1 : offer[a] < offer[y]
  <2> HIDE DEF offer
  <2> QED
    BY <1>2, <1>3, FirstLeast
<1>5. PICK b \in 1 .. n : /\ \A y \in 1 .. n : bids[b] <= bids[y]
                         /\ \A y \in 1 .. b - 1 : bids[b] < bids[y]
  <2> HIDE DEF bids
  <2> QED
    BY <1>2, <1>3, FirstLeast
<1>6. /\ \A j \in DOMAIN pools : TokenFor(pools[j], v) <= TokenFor(pools[a], v)
      /\ \A j \in 1 .. a - 1 : TokenFor(pools[j], v) < TokenFor(pools[a], v)
  <2>1. ASSUME NEW j \in 1 .. n
        PROVE  /\ offer[a] <= offer[j] => TokenFor(pools[j], v) <= TokenFor(pools[a], v)
               /\ offer[a] < offer[j] => TokenFor(pools[j], v) < TokenFor(pools[a], v)
    <3>1. ASSUME NEW x \in Nat, NEW y \in Nat
          PROVE  (m - x <= m - y => y <= x) /\ (m - x < m - y => y < x)
      OBVIOUS
    <3>2. offer[a] = m - TokenFor(pools[a], v) /\ offer[j] = m - TokenFor(pools[j], v)
      OBVIOUS
    <3> QED
      BY <1>2a, <3>1, <3>2, Zenon
  <2>2. DOMAIN pools = 1 .. n /\ 1 .. a - 1 \subseteq 1 .. n
    BY <1>2
  <2> HIDE DEF offer
  <2> QED
    BY <1>4, <2>1, <2>2
<1>7. /\ \A j \in DOMAIN pools : TokenNeeded(pools[j], v) >= TokenNeeded(pools[b], v)
      /\ \A j \in 1 .. b - 1 : TokenNeeded(pools[j], v) > TokenNeeded(pools[b], v)
  <2>1. ASSUME NEW j \in 1 .. n
        PROVE  /\ bids[b] <= bids[j] => TokenNeeded(pools[j], v) >= TokenNeeded(pools[b], v)
               /\ bids[b] < bids[j] => TokenNeeded(pools[j], v) > TokenNeeded(pools[b], v)
    BY <1>1
  <2>2. DOMAIN pools = 1 .. n /\ 1 .. b - 1 \subseteq 1 .. n
    BY <1>2
  <2> HIDE DEF bids
  <2> QED
    BY <1>5, <2>1, <2>2
<1>8. a \in DOMAIN pools /\ b \in DOMAIN pools
  OBVIOUS
<1>9. BestAsk(pools, v) \in DOMAIN pools
  BY <1>6, <1>8, Zenon DEF BestAsk
<1>10. /\ BestBid(pools, v) \in DOMAIN pools
       /\ \A j \in DOMAIN pools :
              TokenNeeded(pools[j], v) >= TokenNeeded(pools[BestBid(pools, v)], v)
  BY <1>7, <1>8, Zenon DEF BestBid
<1>11. DOMAIN pools = 1 .. n
  OBVIOUS
<1> QED
  BY <1>9, <1>10, <1>11, Zenon

\* A pool that cannot pay the amount asks for no tokens (uniswap.rs:97-100), and where
\* there is one best_bid_market returns a pool that asks for none: the minimum takes
\* "cannot" for "cheapest" (markets.rs:129-138).
THEOREM ThinPoolWinsBid ==
    ASSUME NEW n \in Nat \ {0}, NEW m \in Nat, NEW v \in Nat,
           NEW pools \in [1 .. n -> [weth : 0 .. m, token : 0 .. m]],
           NEW thin \in 1 .. n, pools[thin].weth < v
    PROVE  /\ TokenNeeded(pools[thin], v) = 0
           /\ TokenNeeded(pools[BestBid(pools, v)], v) = 0
<1> DEFINE b == BestBid(pools, v)
<1>1. TokenNeeded(pools[thin], v) = 0
  BY DEF TokenNeeded, AmountIn
<1>2. b \in 1 .. n /\ TokenNeeded(pools[thin], v) >= TokenNeeded(pools[b], v)
  BY BestMarketsExist, Zenon
<1>3. TokenNeeded(pools[b], v) \in Nat
  BY <1>2, PriceBounds
<1> HIDE DEF b
<1> QED
  BY <1>1, <1>2, <1>3 DEF b
=============================================================================

------------------------ MODULE ArbitrageTradeProofs ------------------------
(***************************************************************************)
(* Proofs about ArbitrageTrade, for all edges, pools, volumes, balances,   *)
(* orders of others and movements of the owner.                            *)
(***************************************************************************)
EXTENDS ArbitrageTrade, PricingProofs

\* A pool accepts the swap that get_amount_out priced at its reserves: the two
\* divisions of the client round so that the product of the reserves does not fall.
THEOREM PricedSwapIsAccepted ==
    ASSUME NEW ri \in Nat, NEW ro \in Nat, NEW a \in Nat, ri > 0, AmountOut(ri, ro, a) > 0
    PROVE  CanSwap(ri, ro, a, AmountOut(ri, ro, a))
<1> DEFINE q == AmountOut(ri, ro, a)
           d == ri * Whole + a * Charged
<1>1. q \in Nat /\ q > 0 /\ q * d <= a * Charged * ro /\ q <= ro
  BY AmountOutFacts, PoolIsNotDrained
<1>2. d \in Nat
  BY DEF Charged, Whole
<1>3. a > 0 /\ ro > 0
  <2>1. a = 0 \/ ro = 0 => a * Charged * ro = 0
    BY DEF Charged
  <2>2. a = 0 \/ ro = 0 => q = 0
    BY <2>1 DEF AmountOut
  <2> QED
    BY <1>1, <2>2
<1>4. d > 0
  BY <1>3 DEF Charged, Whole
<1>5. d * (ro - q) >= ri * Whole * ro
  <2> HIDE DEF q
  <2>1. d * (ro - q) = d * ro - q * d
    BY <1>1, <1>2
  <2>2. d * ro = ri * Whole * ro + a * Charged * ro
    BY DEF Charged, Whole
  <2>3. d * ro \in Nat /\ q * d \in Nat /\ a * Charged * ro \in Nat /\ ri * Whole * ro \in Nat
    BY <1>1, <1>2, ProductNat DEF Charged, Whole
  <2> HIDE DEF d
  <2> QED
    BY <1>1, <2>1, <2>2, <2>3
<1>6. q < ro
  BY <1>3, PoolIsNotDrained
<1> QED
  BY <1>1, <1>3, <1>5, <1>6 DEF CanSwap

\* A pool accepts a swap exactly if what it asks for is no more than get_amount_out
\* gives at the reserves of that moment: a trade sized at older reserves goes through
\* as long as the price has not fallen, and one unit above the price is refused.
THEOREM SwapIsAcceptedAtItsPrice ==
    ASSUME NEW ri \in Nat, NEW ro \in Nat, NEW a \in Nat, NEW q \in Nat, ri > 0, q > 0
    PROVE  CanSwap(ri, ro, a, q) <=> q <= AmountOut(ri, ro, a)
<1> DEFINE d == ri * Whole + a * Charged
           n == a * Charged * ro
           most == AmountOut(ri, ro, a)
<1>1. most \in Nat /\ most * d <= n /\ \A r \in Nat : r * d <= n /\ d > 0 => r <= most
  BY AmountOutFacts, Zenon
<1>2. d \in Nat /\ d > 0 /\ n \in Nat
  <2>1. ri * Whole \in Nat /\ ri * Whole > 0 /\ a * Charged \in Nat
    BY DEF Charged, Whole
  <2> QED
    BY <2>1, ProductNat
<1>3. d * (ro - q) = d * ro - q * d
  BY <1>2
<1>4. d * ro = ri * Whole * ro + n /\ ri * Whole * ro \in Nat
  BY ProductNat DEF Charged, Whole
<1>5. d * (ro - q) >= ri * Whole * ro <=> q * d <= n
  <2>1. d * ro \in Nat /\ q * d \in Nat
    BY <1>2, ProductNat
  <2> HIDE DEF d, n
  <2> QED
    BY <1>2, <1>3, <1>4, <2>1
<1>6. ASSUME CanSwap(ri, ro, a, q) PROVE q <= most
  <2>1. d * (ro - q) >= ri * Whole * ro
    BY <1>6 DEF CanSwap
  <2> HIDE DEF d, n, most
  <2> QED
    BY <1>1, <1>2, <1>5, <2>1
<1>7. ASSUME q <= most PROVE CanSwap(ri, ro, a, q)
  <2>1. q * d <= most * d
    BY <1>1, <1>2, <1>7, ProductMonotone
  <2>2. q * d <= n
    <3> HIDE DEF d, n, most
    <3>1. q * d \in Nat /\ most * d \in Nat
      BY <1>1, <1>2, ProductNat
    <3> QED
      BY <1>1, <1>2, <2>1, <3>1
  <2>3. a > 0 /\ ro > 0
    <3>1. a = 0 \/ ro = 0 => a * Charged * ro = 0
      BY DEF Charged
    <3>2. a = 0 \/ ro = 0 => most = 0
      BY <3>1 DEF AmountOut
    <3> QED
      BY <1>1, <1>7, <3>2
  <2>4. most < ro
    BY <2>3, PoolIsNotDrained
  <2>5. q < ro
    <3> HIDE DEF most
    <3> QED
      BY <1>1, <1>7, <2>4
  <2>6. d * (ro - q) >= ri * Whole * ro
    BY <1>5, <2>2
  <2> QED
    BY <2>3, <2>5, <2>6 DEF CanSwap
<1> QED
  BY <1>6, <1>7

LEMMA PoolPrices ==
    ASSUME NEW p \in Reserves, NEW v \in Nat
    PROVE  /\ TokenFor(p, v) \in Nat /\ WethFor(p, v) \in Nat
           /\ TokenFor(p, v) <= p.token /\ WethFor(p, v) <= p.weth
           /\ TokenFor(p, v) > 0 => CanSwap(p.weth, p.token, v, TokenFor(p, v))
           /\ WethFor(p, v) > 0 => CanSwap(p.token, p.weth, v, WethFor(p, v))
<1>1. p.weth \in Nat /\ p.token \in Nat /\ (p.weth = 0 <=> p.token = 0)
  BY DEF Reserves, Pool
<1>2. /\ TokenFor(p, v) \in Nat /\ TokenFor(p, v) <= p.token
      /\ WethFor(p, v) \in Nat /\ WethFor(p, v) <= p.weth
  BY <1>1, AmountOutFacts, PoolIsNotDrained, Zenon DEF TokenFor, WethFor
<1>3. ASSUME TokenFor(p, v) > 0
      PROVE  CanSwap(p.weth, p.token, v, TokenFor(p, v))
  <2>1. p.weth > 0
    BY <1>1, <1>2, <1>3
  <2> QED
    BY <1>1, <1>3, <2>1, PricedSwapIsAccepted, Zenon DEF TokenFor
<1>4. ASSUME WethFor(p, v) > 0
      PROVE  CanSwap(p.token, p.weth, v, WethFor(p, v))
  <2>1. p.token > 0
    BY <1>1, <1>2, <1>4
  <2> QED
    BY <1>1, <1>4, <2>1, PricedSwapIsAccepted, Zenon DEF WethFor
<1> QED
  BY <1>2, <1>3, <1>4

LEMMA EdgeMarkets ==
    ASSUME NEW c \in [1 .. 2 -> Reserves], NEW v \in Nat
    PROVE  BestAsk(c, v) \in 1 .. 2 /\ BestBid(c, v) \in 1 .. 2
<1> DEFINE m == c[1].weth + c[1].token + c[2].weth + c[2].token
<1>1. \A i \in 1 .. 2 : c[i] \in [weth : Nat, token : Nat] /\ c[i].weth \in Nat /\ c[i].token \in Nat
  BY DEF Reserves, Pool
<1>2. m \in Nat
  BY <1>1
<1>3. \A i \in 1 .. 2 : c[i].weth <= m /\ c[i].token <= m
  BY <1>1
<1> HIDE DEF m
<1>4. c \in [1 .. 2 -> [weth : 0 .. m, token : 0 .. m]]
  BY <1>1, <1>2, <1>3
<1>5. 2 \in Nat \ {0}
  OBVIOUS
<1> QED
  BY <1>2, <1>4, <1>5, BestMarketsExist, Zenon

LEMMA PaymentFacts ==
    ASSUME NEW profit \in Nat
    PROVE  Payment(profit) \in Nat /\ Payment(profit) <= profit
  BY DEF Payment

\* take_crossed_market makes a plan from the cache.
LEMMA PlanTypes ==
    ASSUME cache \in [Edges -> [1 .. 2 -> Reserves]], ethSeen \in Nat,
           NEW e \in Edges, NEW v \in Volumes
    PROVE  /\ PlanFor(e, v) \in Plan
           /\ PlanFor(e, v).gas = 0
           /\ Kept(e, v) => FromCache(PlanFor(e, v))
<1> DEFINE ask == BestAsk(cache[e], Cent)
           bid == BestBid(cache[e], Cent)
           inter == TokenFor(cache[e][ask], v)
           out == WethFor(cache[e][bid], inter)
           profit == OrderProfit(v, out)
<1>1. v \in Nat /\ Cent \in Nat /\ MinProfit \in Nat
  BY TradeAssumption
<1>2. ask \in 1 .. 2 /\ bid \in 1 .. 2
  BY <1>1, EdgeMarkets
<1> HIDE DEF ask, bid
<1>3. inter \in Nat
  BY <1>1, <1>2, PoolPrices
<1> HIDE DEF inter
<1>4. out \in Nat
  BY <1>2, <1>3, PoolPrices
<1> HIDE DEF out
<1>5. profit \in Nat /\ (profit > 0 => profit = out - v)
  BY <1>1, <1>4 DEF OrderProfit
<1> HIDE DEF profit
<1>6. PlanFor(e, v) = [edge |-> e, ask |-> ask, bid |-> bid, volume |-> v, profit |-> profit,
         inter |-> inter, out |-> out, payment |-> Payment(profit),
         withWeth |-> ethSeen < Payment(profit), gas |-> 0]
  BY Zenon DEF PlanFor, ask, bid, inter, out, profit
<1>7. PlanFor(e, v) \in Plan
  BY <1>1, <1>2, <1>3, <1>4, <1>5, <1>6, PaymentFacts DEF Plan
<1>8. ASSUME Kept(e, v)
      PROVE  FromCache(PlanFor(e, v))
  <2>1. profit > MinProfit
    BY <1>6, <1>8 DEF Kept
  <2>2. profit = out - v
    BY <1>1, <1>5, <2>1
  <2>3. inter = TokenFor(cache[e][ask], v) /\ out = WethFor(cache[e][bid], inter)
    BY DEF inter, out
  <2> QED
    BY <1>6, <2>1, <2>2, <2>3 DEF FromCache
<1> QED
  BY <1>6, <1>7, <1>8

\* What a plan made from the cache says: two different pools, and a gain.
LEMMA PlanFacts ==
    ASSUME cache \in [Edges -> [1 .. 2 -> Reserves]], NEW p \in Plan, FromCache(p)
    PROVE  /\ p.ask # p.bid
           /\ p.inter > 0
           /\ p.out = p.volume + p.profit
           /\ p.profit > MinProfit
           /\ p.payment = Payment(p.profit) /\ p.payment <= p.profit
           /\ CanSwap(cache[p.edge][p.ask].weth, cache[p.edge][p.ask].token, p.volume, p.inter)
           /\ CanSwap(cache[p.edge][p.bid].token, cache[p.edge][p.bid].weth, p.inter, p.out)
<1>1. /\ p.edge \in Edges /\ p.ask \in 1 .. 2 /\ p.bid \in 1 .. 2
      /\ p.volume \in Nat /\ p.profit \in Nat /\ p.inter \in Nat /\ p.out \in Nat
      /\ MinProfit \in Nat
  BY TradeAssumption DEF Plan
<1>2. /\ p.inter = TokenFor(cache[p.edge][p.ask], p.volume)
      /\ p.out = WethFor(cache[p.edge][p.bid], p.inter)
      /\ p.profit = p.out - p.volume
      /\ p.profit > MinProfit
      /\ p.payment = Payment(p.profit)
  BY DEF FromCache
<1>3. cache[p.edge][p.ask] \in Reserves /\ cache[p.edge][p.bid] \in Reserves
  BY <1>1
<1>4. p.out = p.volume + p.profit /\ p.out > 0
  BY <1>1, <1>2
<1>5. p.inter > 0
  <2>1. WethFor(cache[p.edge][p.bid], 0) = 0
    BY <1>3 DEF WethFor, AmountOut, Charged, Reserves, Pool
  <2> QED
    BY <1>1, <1>2, <1>4, <2>1
<1>6. p.ask # p.bid
  <2>1. ASSUME p.ask = p.bid
        PROVE  p.out <= p.volume
    BY <1>1, <1>2, <1>3, <2>1, RoundTripNeverPays DEF Reserves
  <2> QED
    BY <1>1, <1>2, <1>4, <2>1
<1>7. /\ CanSwap(cache[p.edge][p.ask].weth, cache[p.edge][p.ask].token, p.volume, p.inter)
      /\ CanSwap(cache[p.edge][p.bid].token, cache[p.edge][p.bid].weth, p.inter, p.out)
  BY <1>1, <1>2, <1>3, <1>4, <1>5, PoolPrices
<1> QED
  BY <1>1, <1>2, <1>4, <1>5, <1>6, <1>7, PaymentFacts

-----------------------------------------------------------------------------
\* The steps of a transaction: what they leave in the world.
LEMMA BuyUpdate ==
    ASSUME NEW w \in WorldType, NEW e \in Edges, NEW k \in 1 .. 2, NEW new \in Reserves,
           NEW n \in Nat
    PROVE  [w EXCEPT !.pools[e][k] = new, !.sent = n] \in WorldType
  BY DEF WorldType

LEMMA SellUpdate ==
    ASSUME NEW w \in WorldType, NEW e \in Edges, NEW k \in 1 .. 2, NEW new \in Reserves,
           NEW n \in Nat, NEW m \in Nat
    PROVE  [w EXCEPT !.pools[e][k] = new, !.sent = n, !.weth = m] \in WorldType
  BY DEF WorldType

LEMMA FundsUpdates ==
    ASSUME NEW w \in WorldType, NEW m \in Nat, NEW n \in Nat
    PROVE  /\ [w EXCEPT !.weth = m, !.sent = n] \in WorldType
           /\ [w EXCEPT !.weth = m] \in WorldType
           /\ [w EXCEPT !.eth = m] \in WorldType
           /\ [w EXCEPT !.weth = m, !.eth = n] \in WorldType
  BY DEF WorldType

LEMMA WorldFields ==
    ASSUME NEW w \in WorldType
    PROVE  /\ w.pools \in [Edges -> [1 .. 2 -> Reserves]] /\ w.sent \in Nat
           /\ w.weth \in Nat /\ w.eth \in Nat /\ w.coinbase \in Nat
  BY DEF WorldType

LEMMA PlanFields ==
    ASSUME NEW p \in Plan
    PROVE  /\ p.edge \in Edges /\ p.ask \in 1 .. 2 /\ p.bid \in 1 .. 2
           /\ p.volume \in Nat /\ p.profit \in Nat /\ p.inter \in Nat /\ p.out \in Nat
           /\ p.payment \in Nat /\ p.withWeth \in BOOLEAN /\ p.gas \in Nat
  BY DEF Plan

LEMMA TransferredWorld ==
    ASSUME NEW w \in WorldType, NEW p \in Plan, CanTransfer(w, p)
    PROVE  LET u == Transferred(w, p)
           IN  /\ u \in WorldType
               /\ u.weth = w.weth - p.volume /\ u.eth = w.eth /\ u.coinbase = w.coinbase
               /\ u.sent = p.volume /\ u.pools = w.pools
<1>1. w.weth - p.volume \in Nat /\ p.volume \in Nat
  BY WorldFields, PlanFields DEF CanTransfer
<1>2. Transferred(w, p) \in WorldType
  <2> DEFINE rest == w.weth - p.volume
  <2>1. Transferred(w, p) = [w EXCEPT !.weth = rest, !.sent = p.volume]
    BY DEF Transferred
  <2> HIDE DEF rest
  <2>2. rest \in Nat
    BY <1>1 DEF rest
  <2>3. [w EXCEPT !.weth = rest, !.sent = p.volume] \in WorldType
    BY <1>1, <2>2, FundsUpdates, Zenon
  <2> QED
    BY <2>1, <2>3, Zenon
<1> QED
  BY <1>2 DEF Transferred, WorldType

LEMMA SwappedReserves ==
    ASSUME NEW in \in Nat, NEW out \in Nat, NEW ri \in Nat, NEW ro \in Nat,
           CanSwap(ri, ro, in, out)
    PROVE  /\ [weth |-> ri + in, token |-> ro - out] \in Reserves
           /\ [weth |-> ro - out, token |-> ri + in] \in Reserves
<1>1. ri + in \in Nat /\ ro - out \in Nat /\ ri + in # 0 /\ ro - out # 0
  BY DEF CanSwap
<1> QED
  BY <1>1 DEF Reserves, Pool

LEMMA BoughtWorld ==
    ASSUME NEW w \in WorldType, NEW p \in Plan, CanBuy(w, p)
    PROVE  LET u == Bought(w, p)
           IN  /\ u \in WorldType
               /\ u.weth = w.weth /\ u.eth = w.eth /\ u.coinbase = w.coinbase
               /\ u.sent = p.inter
               /\ p.ask # p.bid => u.pools[p.edge][p.bid] = w.pools[p.edge][p.bid]
<1> DEFINE pool == w.pools[p.edge][p.ask]
           new == [weth |-> pool.weth + w.sent, token |-> pool.token - p.inter]
<1>1. pool \in Reserves /\ pool.weth \in Nat /\ pool.token \in Nat
  BY WorldFields, PlanFields DEF Reserves, Pool
<1>2. new \in Reserves
  BY <1>1, WorldFields, PlanFields, SwappedReserves DEF CanBuy
<1>3. Bought(w, p) = [w EXCEPT !.pools[p.edge][p.ask] = new, !.sent = p.inter]
  BY DEF Bought
<1> HIDE DEF new
<1>4. Bought(w, p) \in WorldType
  <2>1. p.edge \in Edges /\ p.ask \in 1 .. 2 /\ p.inter \in Nat
    BY PlanFields
  <2>2. [w EXCEPT !.pools[p.edge][p.ask] = new, !.sent = p.inter] \in WorldType
    BY <1>2, <2>1, BuyUpdate
  <2> QED
    BY <1>3, <2>2, Zenon
<1> QED
  BY <1>3, <1>4, WorldFields, PlanFields DEF WorldType

LEMMA SoldWorld ==
    ASSUME NEW w \in WorldType, NEW p \in Plan, CanSell(w, p)
    PROVE  LET u == Sold(w, p)
           IN  /\ u \in WorldType
               /\ u.weth = w.weth + p.out /\ u.eth = w.eth /\ u.coinbase = w.coinbase
<1> DEFINE pool == w.pools[p.edge][p.bid]
           new == [weth |-> pool.weth - p.out, token |-> pool.token + w.sent]
           sum == w.weth + p.out
<1>1. pool \in Reserves /\ pool.weth \in Nat /\ pool.token \in Nat
  BY WorldFields, PlanFields DEF Reserves, Pool
<1>2. new \in Reserves
  BY <1>1, WorldFields, PlanFields, SwappedReserves DEF CanSell
<1>3. Sold(w, p) = [w EXCEPT !.pools[p.edge][p.bid] = new, !.sent = 0, !.weth = sum]
  BY DEF Sold
<1>4. sum \in Nat /\ 0 \in Nat
  BY WorldFields, PlanFields
<1> HIDE DEF new, sum
<1>5. Sold(w, p) \in WorldType
  <2>1. p.edge \in Edges /\ p.bid \in 1 .. 2
    BY PlanFields
  <2>2. [w EXCEPT !.pools[p.edge][p.bid] = new, !.sent = 0, !.weth = sum] \in WorldType
    BY <1>2, <1>4, <2>1, SellUpdate
  <2> QED
    BY <1>3, <2>2, Zenon
<1>6. Sold(w, p).weth = sum /\ Sold(w, p).eth = w.eth /\ Sold(w, p).coinbase = w.coinbase
  BY <1>3 DEF WorldType
<1> QED
  BY <1>5, <1>6 DEF sum

\* pay_miner moves the payment from the executor to the coinbase.
LEMMA PaidWorld ==
    ASSUME NEW w \in WorldType, NEW p \in Plan, CanUnwrap(w, p), CanPay(Unwrapped(w, p), p)
    PROVE  LET u == Paid(Unwrapped(w, p), p)
           IN  /\ u \in WorldType
               /\ u.weth + u.eth = w.weth + w.eth - p.payment
               /\ u.coinbase = w.coinbase + p.payment
<1> DEFINE v == Unwrapped(w, p)
<1>1. /\ v \in WorldType
      /\ v.weth + v.eth = w.weth + w.eth
      /\ v.coinbase = w.coinbase
  <2>1. CASE Unwraps(p)
    <3>1. w.weth - p.payment \in Nat /\ w.eth + p.payment \in Nat
      BY <2>1, WorldFields, PlanFields DEF CanUnwrap
    <3>2. v = [w EXCEPT !.weth = w.weth - p.payment, !.eth = w.eth + p.payment]
      BY <2>1 DEF Unwrapped
    <3> HIDE DEF v
    <3>3. v \in WorldType
      BY <3>1, <3>2 DEF WorldType
    <3>4. v.weth = w.weth - p.payment /\ v.eth = w.eth + p.payment /\ v.coinbase = w.coinbase
      BY <3>2 DEF WorldType
    <3> QED
      BY <3>3, <3>4, WorldFields, PlanFields
  <2>2. CASE ~Unwraps(p)
    BY <2>2 DEF Unwrapped
  <2> QED
    BY <2>1, <2>2
<1>2. v.eth - p.payment \in Nat /\ v.coinbase + p.payment \in Nat
  BY <1>1, WorldFields, PlanFields DEF CanPay
<1> HIDE DEF v
<1> DEFINE u == Paid(v, p)
<1>3. u = [v EXCEPT !.eth = v.eth - p.payment, !.coinbase = v.coinbase + p.payment]
  BY DEF Paid
<1> HIDE DEF u
<1>4. u \in WorldType
  BY <1>1, <1>2, <1>3 DEF WorldType
<1>5. u.weth = v.weth /\ u.eth = v.eth - p.payment /\ u.coinbase = v.coinbase + p.payment
  BY <1>1, <1>3 DEF WorldType
<1>6. u.weth + u.eth = w.weth + w.eth - p.payment /\ u.coinbase = w.coinbase + p.payment
  <2>1. v.weth \in Nat /\ v.eth \in Nat /\ w.weth \in Nat /\ w.eth \in Nat /\ p.payment \in Nat
    BY <1>1, WorldFields, PlanFields
  <2> QED
    BY <1>1, <1>5, <2>1
<1> QED
  BY <1>4, <1>6 DEF u, v

\* A pool makes a swap exactly if its price has not fallen below what is asked;
\* an empty one makes none.
LEMMA PoolAccepts ==
    ASSUME NEW r \in Reserves, NEW a \in Nat, NEW q \in Nat, q > 0
    PROVE  /\ CanSwap(r.weth, r.token, a, q) <=> ~(TokenFor(r, a) < q)
           /\ CanSwap(r.token, r.weth, a, q) <=> ~(WethFor(r, a) < q)
<1>1. r.weth \in Nat /\ r.token \in Nat /\ (r.weth = 0 <=> r.token = 0)
  BY DEF Reserves, Pool
<1>2. CASE r.weth = 0
  <2>1. r.token = 0
    BY <1>1, <1>2
  <2>2. AmountOut(0, 0, a) = 0 /\ ~CanSwap(0, 0, a, q)
    BY DEF AmountOut, CanSwap, Charged
  <2> QED
    BY <1>2, <2>1, <2>2 DEF TokenFor, WethFor
<1>3. CASE r.weth # 0
  <2>1. r.weth > 0 /\ r.token > 0
    BY <1>1, <1>3
  <2>2. /\ CanSwap(r.weth, r.token, a, q) <=> q <= AmountOut(r.weth, r.token, a)
        /\ CanSwap(r.token, r.weth, a, q) <=> q <= AmountOut(r.token, r.weth, a)
    BY <1>1, <2>1, SwapIsAcceptedAtItsPrice, Zenon
  <2>3. AmountOut(r.weth, r.token, a) \in Nat /\ AmountOut(r.token, r.weth, a) \in Nat
    BY <1>1, AmountOutFacts
  <2> QED
    BY <2>2, <2>3 DEF TokenFor, WethFor
<1> QED
  BY <1>2, <1>3

\* The checks of a transaction, one after the other: all pass exactly if the pools
\* still give what its plan asks for and the funds that it counts on are there.
LEMMA PlanPasses ==
    ASSUME cache \in [Edges -> [1 .. 2 -> Reserves]], NEW w \in WorldType, NEW p \in Plan,
           FromCache(p)
    PROVE  Runs(w, p) <=> ~Cause(w, p)
<1> DEFINE sent   == Transferred(w, p)
           bought == Bought(sent, p)
           sold   == Sold(bought, p)
           ask    == w.pools[p.edge][p.ask]
           bid    == w.pools[p.edge][p.bid]
<1>1. /\ p.ask # p.bid /\ p.inter > 0 /\ p.out > 0
      /\ p.out = p.volume + p.profit
      /\ p.payment <= p.profit
  <2>1. p.profit > MinProfit /\ MinProfit \in Nat /\ p.profit \in Nat /\ p.volume \in Nat
    BY PlanFacts, PlanFields, TradeAssumption
  <2> QED
    BY <2>1, PlanFacts
<1>2. /\ w.weth \in Nat /\ w.eth \in Nat
      /\ p.volume \in Nat /\ p.payment \in Nat /\ p.profit \in Nat /\ p.withWeth \in BOOLEAN
      /\ p.inter \in Nat /\ p.out \in Nat
      /\ ask \in Reserves /\ bid \in Reserves
  BY WorldFields, PlanFields
<1>3. /\ CanSwap(ask.weth, ask.token, p.volume, p.inter) <=> ~(TokenFor(ask, p.volume) < p.inter)
      /\ CanSwap(bid.token, bid.weth, p.inter, p.out) <=> ~(WethFor(bid, p.inter) < p.out)
  BY <1>1, <1>2, PoolAccepts
<1>4. CanTransfer(w, p) <=> ~(w.weth < p.volume)
  BY <1>2 DEF CanTransfer
<1>5. ASSUME CanTransfer(w, p)
      PROVE  /\ sent \in WorldType /\ sent.weth = w.weth - p.volume /\ sent.eth = w.eth
             /\ sent.pools = w.pools
             /\ CanBuy(sent, p) <=> ~(TokenFor(ask, p.volume) < p.inter)
  BY <1>3, <1>5, TransferredWorld DEF CanBuy
<1> HIDE DEF sent
<1>6. ASSUME CanTransfer(w, p), CanBuy(sent, p)
      PROVE  /\ bought \in WorldType /\ bought.weth = sent.weth /\ bought.eth = sent.eth
             /\ CanSell(bought, p) <=> ~(WethFor(bid, p.inter) < p.out)
  <2>1. /\ bought \in WorldType /\ bought.weth = sent.weth /\ bought.eth = sent.eth
        /\ bought.sent = p.inter
        /\ bought.pools[p.edge][p.bid] = sent.pools[p.edge][p.bid]
    BY <1>1, <1>5, <1>6, BoughtWorld
  <2> HIDE DEF bought
  <2> QED
    BY <1>3, <1>5, <1>6, <2>1 DEF CanSell
<1> HIDE DEF bought
<1>7. ASSUME CanTransfer(w, p), CanBuy(sent, p), CanSell(bought, p)
      PROVE  /\ CanUnwrap(sold, p)
             /\ CanPay(Unwrapped(sold, p), p) <=> ~(~p.withWeth /\ w.eth < p.payment)
  <2>1. sold \in WorldType /\ sold.weth = bought.weth + p.out /\ sold.eth = bought.eth
    BY <1>6, <1>7, SoldWorld
  <2> HIDE DEF sold
  <2>2. sold.weth = w.weth + p.profit /\ sold.eth = w.eth
    BY <1>1, <1>2, <1>5, <1>6, <1>7, <2>1
  <2>3. CanUnwrap(sold, p)
    BY <1>1, <1>2, <2>2 DEF CanUnwrap
  <2>4. CASE Unwraps(p)
    BY <1>2, <2>1, <2>2, <2>3, <2>4 DEF CanPay, Unwrapped, Unwraps, WorldType
  <2>5. CASE ~Unwraps(p)
    BY <1>2, <2>1, <2>2, <2>3, <2>5 DEF CanPay, Unwrapped, Unwraps
  <2> QED
    BY <2>3, <2>4, <2>5
<1>8. Runs(w, p) <=> /\ CanTransfer(w, p) /\ CanBuy(sent, p) /\ CanSell(bought, p)
                     /\ CanUnwrap(sold, p) /\ CanPay(Unwrapped(sold, p), p)
  BY DEF Runs, sent, bought
<1>9. Cause(w, p) <=> \/ TokenFor(ask, p.volume) < p.inter
                      \/ WethFor(bid, p.inter) < p.out
                      \/ w.weth < p.volume
                      \/ ~p.withWeth /\ w.eth < p.payment
  BY DEF Cause
<1> HIDE DEF ask, bid, sold
<1> QED
  BY <1>4, <1>5, <1>6, <1>7, <1>8, <1>9, Zenon

-----------------------------------------------------------------------------
\* Movements of the owner and orders of others keep the types, and what the
\* executor has earned.
EarnedKept == /\ world' \in WorldType
         /\ world'.coinbase = world.coinbase
         /\ world'.weth + world'.eth - owned' = world.weth + world.eth - owned
         /\ owned' \in Int /\ moves' \in 0 .. MaxMoves /\ orders' \in 0 .. MaxOrders
         /\ tx = NoTx /\ tx' = NoTx

LEMMA MoveStep ==
    ASSUME TypeOK, NEW m \in Nat, NEW n \in Nat, NEW change \in Int,
           m + n = world.weth + world.eth + change,
           Move([world EXCEPT !.weth = m, !.eth = n], change)
    PROVE  EarnedKept
<1> DEFINE u == [world EXCEPT !.weth = m, !.eth = n]
<1>1. world \in WorldType /\ owned \in Int /\ moves \in 0 .. MaxMoves /\ orders \in 0 .. MaxOrders
  BY DEF TypeOK
<1>2. u \in WorldType
  BY <1>1, FundsUpdates, Zenon
<1>3. u.weth = m /\ u.eth = n /\ u.coinbase = world.coinbase
  BY <1>1 DEF WorldType
<1> HIDE DEF u
<1>4. /\ world' = u /\ owned' = owned + change /\ orders' = orders
      /\ tx = NoTx /\ tx' = NoTx
      /\ moves < MaxMoves /\ moves' = moves + 1
  BY DEF Move, u
<1>5. moves' \in 0 .. MaxMoves
  BY <1>1, <1>4, ExecutorAssumption
<1>6. world.weth \in Nat /\ world.eth \in Nat
  BY <1>1, WorldFields
<1>7. world'.weth + world'.eth - owned' = world.weth + world.eth - owned
  <2>1. world'.weth = m /\ world'.eth = n
    BY <1>3, <1>4, Zenon
  <2>2. owned' = owned + change /\ owned \in Int
    BY <1>1, <1>4
  <2> QED
    BY <1>6, <2>1, <2>2
<1> QED
  BY <1>1, <1>2, <1>3, <1>4, <1>5, <1>7 DEF EarnedKept

LEMMA OrderStep ==
    ASSUME TypeOK, NEW e \in Edges, NEW i \in 1 .. 2, NEW pool \in Reserves,
           Order(e, i, pool)
    PROVE  EarnedKept
<1> DEFINE u == [world EXCEPT !.pools[e][i] = pool]
<1>1. world \in WorldType /\ owned \in Int /\ moves \in 0 .. MaxMoves /\ orders \in 0 .. MaxOrders
  BY DEF TypeOK
<1>2. u \in WorldType
  BY <1>1 DEF WorldType
<1>3. u.weth = world.weth /\ u.eth = world.eth /\ u.coinbase = world.coinbase
  BY <1>1 DEF WorldType
<1> HIDE DEF u
<1>4. /\ world' = u /\ owned' = owned /\ moves' = moves
      /\ tx = NoTx /\ tx' = NoTx
      /\ orders < MaxOrders /\ orders' = orders + 1
  BY DEF Order, u
<1>5. orders' \in 0 .. MaxOrders
  BY <1>1, <1>4, ExecutorAssumption
<1> QED
  BY <1>1, <1>2, <1>3, <1>4, <1>5 DEF EarnedKept

LEMMA OthersStep ==
    ASSUME TypeOK, Others
    PROVE  EarnedKept
<1>1. world \in WorldType /\ owned \in Int
  BY DEF TypeOK
<1>2. world.weth \in Nat /\ world.eth \in Nat /\ world.pools \in [Edges -> [1 .. 2 -> Reserves]]
  BY <1>1, WorldFields
<1>3. Transfers \subseteq Nat /\ Orders \subseteq Nat \ {0}
  BY ExecutorAssumption
<1>4. world = [world EXCEPT !.weth = world.weth] /\ world = [world EXCEPT !.eth = world.eth]
  BY <1>1 DEF WorldType
<1>5. ASSUME NEW n \in Transfers, DepositWeth(n)
      PROVE  EarnedKept
  <2>1. [world EXCEPT !.weth = @ + n] = [world EXCEPT !.weth = world.weth + n, !.eth = world.eth]
    BY <1>1 DEF WorldType
  <2>3. Move([world EXCEPT !.weth = world.weth + n, !.eth = world.eth], n)
    BY <1>5, <2>1, Zenon DEF DepositWeth
  <2>4. world.weth + n \in Nat /\ world.eth \in Nat /\ n \in Int
    BY <1>2, <1>3
  <2>5. (world.weth + n) + (world.eth) = world.weth + world.eth + n
    BY <1>2, <1>3
  <2> QED
    BY <2>3, <2>4, <2>5, MoveStep, Zenon
<1>6. ASSUME NEW n \in Transfers, DepositEth(n)
      PROVE  EarnedKept
  <2>1. [world EXCEPT !.eth = @ + n] = [world EXCEPT !.weth = world.weth, !.eth = world.eth + n]
    BY <1>1 DEF WorldType
  <2>3. Move([world EXCEPT !.weth = world.weth, !.eth = world.eth + n], n)
    BY <1>6, <2>1, Zenon DEF DepositEth
  <2>4. world.weth \in Nat /\ world.eth + n \in Nat /\ n \in Int
    BY <1>2, <1>3
  <2>5. (world.weth) + (world.eth + n) = world.weth + world.eth + n
    BY <1>2, <1>3
  <2> QED
    BY <2>3, <2>4, <2>5, MoveStep, Zenon
<1>7. ASSUME NEW n \in Transfers, WithdrawWeth(n)
      PROVE  EarnedKept
  <2>1. [world EXCEPT !.weth = @ - n] = [world EXCEPT !.weth = world.weth - n, !.eth = world.eth]
    BY <1>1 DEF WorldType
  <2>2. world.weth - n \in Nat /\ -n \in Int
    BY <1>2, <1>3, <1>7 DEF WithdrawWeth
  <2>3. Move([world EXCEPT !.weth = world.weth - n, !.eth = world.eth], -n)
    BY <1>7, <2>1, Zenon DEF WithdrawWeth
  <2>4. world.weth - n \in Nat /\ world.eth \in Nat /\ -n \in Int
    BY <1>2, <1>3, <2>2
  <2>5. (world.weth - n) + (world.eth) = world.weth + world.eth + (-n)
    BY <1>2, <1>3
  <2> QED
    BY <2>3, <2>4, <2>5, MoveStep, Zenon
<1>8. ASSUME NEW n \in Transfers, WithdrawEth(n)
      PROVE  EarnedKept
  <2>1. [world EXCEPT !.eth = @ - n] = [world EXCEPT !.weth = world.weth, !.eth = world.eth - n]
    BY <1>1 DEF WorldType
  <2>2. world.eth - n \in Nat /\ -n \in Int
    BY <1>2, <1>3, <1>8 DEF WithdrawEth
  <2>3. Move([world EXCEPT !.weth = world.weth, !.eth = world.eth - n], -n)
    BY <1>8, <2>1, Zenon DEF WithdrawEth
  <2>4. world.weth \in Nat /\ world.eth - n \in Nat /\ -n \in Int
    BY <1>2, <1>3, <2>2
  <2>5. (world.weth) + (world.eth - n) = world.weth + world.eth + (-n)
    BY <1>2, <1>3
  <2> QED
    BY <2>3, <2>4, <2>5, MoveStep, Zenon
<1>9. ASSUME NEW n \in Transfers, EthToWeth(n)
      PROVE  EarnedKept
  <2>1. [world EXCEPT !.eth = @ - n, !.weth = @ + n]
          = [world EXCEPT !.weth = world.weth + n, !.eth = world.eth - n]
    BY <1>1 DEF WorldType
  <2>2. world.eth - n \in Nat
    BY <1>2, <1>3, <1>9 DEF EthToWeth
  <2>3. Move([world EXCEPT !.weth = world.weth + n, !.eth = world.eth - n], 0)
    BY <1>9, <2>1, Zenon DEF EthToWeth
  <2>4. world.weth + n \in Nat /\ world.eth - n \in Nat /\ 0 \in Int
    BY <1>2, <1>3, <2>2
  <2>5. (world.weth + n) + (world.eth - n) = world.weth + world.eth + 0
    BY <1>2, <1>3
  <2> QED
    BY <2>3, <2>4, <2>5, MoveStep, Zenon
<1>10. ASSUME NEW n \in Transfers, WethToEth(n)
      PROVE  EarnedKept
  <2>1. [world EXCEPT !.weth = @ - n, !.eth = @ + n]
          = [world EXCEPT !.weth = world.weth - n, !.eth = world.eth + n]
    BY <1>1 DEF WorldType
  <2>2. world.weth - n \in Nat
    BY <1>2, <1>3, <1>10 DEF WethToEth
  <2>3. Move([world EXCEPT !.weth = world.weth - n, !.eth = world.eth + n], 0)
    BY <1>10, <2>1, Zenon DEF WethToEth
  <2>4. world.weth - n \in Nat /\ world.eth + n \in Nat /\ 0 \in Int
    BY <1>2, <1>3, <2>2
  <2>5. (world.weth - n) + (world.eth + n) = world.weth + world.eth + 0
    BY <1>2, <1>3
  <2> QED
    BY <2>3, <2>4, <2>5, MoveStep, Zenon
<1>11. ASSUME NEW e \in Edges, NEW i \in 1 .. 2, NEW n \in Orders, OrderToken(e, i, n)
      PROVE  EarnedKept
  <2> DEFINE p == world.pools[e][i]
  <2>1. p \in Reserves /\ p.weth \in Nat /\ p.token \in Nat
    BY <1>2 DEF Reserves, Pool
  <2>2. TokenFor(p, n) > 0
    BY <1>11 DEF OrderToken
  <2>3. CanSwap(p.weth, p.token, n, TokenFor(p, n)) /\ TokenFor(p, n) \in Nat
    BY <1>3, <2>1, <2>2, PoolPrices
  <2>4. [weth |-> p.weth + n, token |-> p.token - TokenFor(p, n)] \in Reserves
    BY <1>3, <2>1, <2>3, SwappedReserves
  <2> QED
    BY <1>11, <2>4, OrderStep DEF OrderToken
<1>12. ASSUME NEW e \in Edges, NEW i \in 1 .. 2, NEW n \in Orders, OrderWeth(e, i, n)
      PROVE  EarnedKept
  <2> DEFINE p == world.pools[e][i]
  <2>1. p \in Reserves /\ p.weth \in Nat /\ p.token \in Nat
    BY <1>2 DEF Reserves, Pool
  <2>2. WethFor(p, n) > 0
    BY <1>12 DEF OrderWeth
  <2>3. CanSwap(p.token, p.weth, n, WethFor(p, n)) /\ WethFor(p, n) \in Nat
    BY <1>3, <2>1, <2>2, PoolPrices
  <2>4. [weth |-> p.weth - WethFor(p, n), token |-> p.token + n] \in Reserves
    BY <1>3, <2>1, <2>3, SwappedReserves
  <2> QED
    BY <1>12, <2>4, OrderStep DEF OrderWeth
<1> QED
  BY <1>5, <1>6, <1>7, <1>8, <1>9, <1>10, <1>11, <1>12, Zenon DEF Others

-----------------------------------------------------------------------------
IInv == TypeOK /\ PlanInv /\ TxInv

LEMMA TxFields ==
    ASSUME TypeOK, tx # NoTx
    PROVE  /\ tx.step \in {"transfer", "buy", "sell", "pay"}
           /\ tx.plan \in Plan /\ tx.before \in WorldType
           /\ tx \in [step : {"transfer", "buy", "sell", "pay"}, plan : Plan, before : WorldType]
  BY DEF TypeOK

LEMMA RunningTx ==
    ASSUME NEW s \in {"transfer", "buy", "sell", "pay"}, NEW p \in Plan, NEW w \in WorldType
    PROVE  LET t == [step |-> s, plan |-> p, before |-> w]
           IN  /\ t \in [step : {"transfer", "buy", "sell", "pay"}, plan : Plan, before : WorldType]
               /\ t # NoTx
<1> DEFINE t == [step |-> s, plan |-> p, before |-> w]
<1>1. t.step # NoTx.step
  BY DEF NoTx
<1> QED
  BY <1>1

\* The transaction goes on to its next step.
LEMMA TxAdvances ==
    ASSUME TypeOK, NEW s \in {"transfer", "buy", "sell", "pay"}, tx.step # "none"
    PROVE  LET t == [tx EXCEPT !.step = s]
           IN  /\ tx # NoTx
               /\ t \in [step : {"transfer", "buy", "sell", "pay"}, plan : Plan, before : WorldType]
               /\ t # NoTx /\ t.step = s /\ t.plan = tx.plan /\ t.before = tx.before
<1>1. tx # NoTx
  BY DEF NoTx
<1>2. tx \in [step : {"transfer", "buy", "sell", "pay"}, plan : Plan, before : WorldType]
  BY <1>1, TxFields
<1> DEFINE t == [tx EXCEPT !.step = s]
<1>3. t \in [step : {"transfer", "buy", "sell", "pay"}, plan : Plan, before : WorldType]
  BY <1>2
<1>4. t.step = s /\ t.plan = tx.plan /\ t.before = tx.before
  BY <1>2
<1>5. t # NoTx
  BY <1>4 DEF NoTx
<1> QED
  BY <1>1, <1>3, <1>4, <1>5

LEMMA GasFacts ==
    ASSUME NEW p \in Plan, p.gas >= 90
    PROVE  EstimatedGas(p) \in Nat /\ GasPrice(p) \in Nat
           /\ EstimatedGas(p) * GasPrice(p) \in Nat
<1>1. p.gas \in Nat /\ p.payment \in Nat
  BY PlanFields
<1>2. EstimatedGas(p) \in Nat
  BY <1>1 DEF EstimatedGas
<1>3. (p.gas \div 90) * 100 \in Nat \ {0}
  BY <1>1
<1>4. GasPrice(p) \in Nat
  BY <1>1, <1>3, DivisionFacts DEF GasPrice
<1> QED
  BY <1>2, <1>4, ProductNat

LEMMA InitInvariant == Init => IInv
<1> SUFFICES ASSUME Init PROVE IInv
  OBVIOUS
<1>1. world \in [pools : [Edges -> InitPools], sent : {0}, weth : Funds, eth : Funds, coinbase : {0}]
  BY DEF Init, ExecutorInit
<1>2. InitPools \subseteq [1 .. 2 -> Reserves] /\ Funds \subseteq Nat
  BY ExecutorAssumption
<1>3. /\ world.pools \in [Edges -> InitPools] /\ world.sent = 0
      /\ world.weth \in Nat /\ world.eth \in Nat /\ world.coinbase = 0
  BY <1>1, <1>2
<1>4. world.pools \in [Edges -> [1 .. 2 -> Reserves]]
  BY <1>2, <1>3
<1>5. world \in WorldType
  BY <1>1, <1>3, <1>4 DEF WorldType
<1>6. owned \in Int
  BY <1>3 DEF Init, ExecutorInit
<1>7. TypeOK
  BY <1>4, <1>5, <1>6, ExecutorAssumption DEF Init, ExecutorInit, TypeOK
<1>8. PlanInv /\ TxInv
  BY DEF Init, ExecutorInit, PlanInv, TxInv
<1> QED
  BY <1>7, <1>8 DEF IInv

\* A step of the generator that leaves the cache alone and gives each plan that is
\* held afterwards, and the plan of the bundle, the properties of a plan.
LEMMA GeneratorStep ==
    ASSUME IInv, UNCHANGED <<executorVars, gasPaid>>, tx = NoTx,
           cache' \in [Edges -> [1 .. 2 -> Reserves]], ethSeen' \in Nat,
           pc' \in {"update", "balance", "evaluate", "estimate", "offered", "included"},
           plans' \subseteq Plan, offer' \subseteq Plan,
           PlanInv'
    PROVE  IInv'
<1>1. world' = world /\ owned' = owned /\ moves' = moves /\ orders' = orders /\ tx' = tx
  BY DEF executorVars
<1>2. TypeOK'
  BY <1>1 DEF IInv, TypeOK
<1>3. TxInv'
  BY <1>1 DEF TxInv
<1> QED
  BY <1>2, <1>3 DEF IInv

LEMMA GenerateInvariant ==
    ASSUME IInv, Generate
    PROVE  IInv'
<1>1. TypeOK /\ PlanInv /\ TxInv
  BY DEF IInv
<1>2. /\ cache \in [Edges -> [1 .. 2 -> Reserves]] /\ ethSeen \in Nat
      /\ plans \subseteq Plan /\ offer \subseteq Plan /\ world \in WorldType
  BY <1>1 DEF TypeOK
<1>3. pc \in {"update", "balance", "evaluate", "estimate"} => tx = NoTx /\ offer = {}
  BY <1>1 DEF TxInv, PlanInv
<1>4. pc # "estimate" => plans = {}
  BY <1>1 DEF PlanInv
<1>5. ASSUME NEW S \in SUBSET (Edges \X (1 .. 2)), UpdateMarkets(S)
      PROVE  IInv'
  <2>1. cache' \in [Edges -> [1 .. 2 -> Reserves]]
    BY <1>2, <1>5, WorldFields DEF UpdateMarkets
  <2>2. pc = "update" /\ plans' = {} /\ offer' = {} /\ pc' = "balance" /\ ethSeen' = ethSeen
    BY <1>3, <1>4, <1>5 DEF UpdateMarkets
  <2>3. PlanInv'
    BY <2>2 DEF PlanInv
  <2>4. UNCHANGED <<executorVars, gasPaid>> /\ tx = NoTx
    BY <1>5 DEF UpdateMarkets
  <2> QED
    BY <1>2, <2>1, <2>2, <2>3, <2>4, GeneratorStep
<1>6. ASSUME ReadBalance
      PROVE  IInv'
  <2>1. /\ pc = "balance" /\ plans' = {} /\ offer' = {} /\ pc' = "evaluate" /\ cache' = cache
        /\ ethSeen' = world.eth
    BY <1>3, <1>4, <1>6 DEF ReadBalance
  <2>2. PlanInv'
    BY <2>1 DEF PlanInv
  <2>3. UNCHANGED <<executorVars, gasPaid>> /\ tx = NoTx /\ ethSeen' \in Nat
    BY <1>2, <1>3, <1>6, <2>1, WorldFields DEF ReadBalance
  <2> QED
    BY <1>2, <2>1, <2>2, <2>3, GeneratorStep
<1>7. ASSUME NEW volume \in [Edges -> Volumes], Evaluate(volume)
      PROVE  IInv'
  <2>1. /\ pc = "evaluate" /\ offer' = {} /\ pc' = "estimate" /\ cache' = cache
        /\ ethSeen' = ethSeen
        /\ plans' = {PlanFor(e, volume[e]) : e \in {d \in Edges : Kept(d, volume[d])}}
    BY <1>3, <1>7 DEF Evaluate
  <2>2. \A p \in plans' : p \in Plan /\ p.gas = 0 /\ FromCache(p)
    <3> SUFFICES ASSUME NEW e \in Edges, Kept(e, volume[e])
                 PROVE  /\ PlanFor(e, volume[e]) \in Plan
                        /\ PlanFor(e, volume[e]).gas = 0
                        /\ FromCache(PlanFor(e, volume[e]))
      BY <2>1, Zenon
    <3>1. volume[e] \in Volumes
      BY <1>7
    <3> QED
      BY <1>2, <3>1, PlanTypes
  <2>3. \A p \in plans' : FromCache(p)'
    BY <2>1, <2>2 DEF FromCache
  <2>4. PlanInv'
    BY <2>1, <2>2, <2>3 DEF PlanInv
  <2>5. UNCHANGED <<executorVars, gasPaid>> /\ tx = NoTx
    BY <1>3, <1>7 DEF Evaluate
  <2>6. plans' \subseteq Plan
    BY <2>2
  <2> QED
    BY <1>2, <2>1, <2>4, <2>5, <2>6, GeneratorStep
<1>8. ASSUME NEW p \in plans, NEW gas \in GasEstimates, Estimate(p, gas)
      PROVE  IInv'
  <2> DEFINE q == [p EXCEPT !.gas = gas]
  <2>1. p \in Plan /\ gas \in Nat /\ gas >= 90
    BY <1>2, TradeAssumption
  <2>2. q \in Plan /\ q.gas = gas
    BY <2>1 DEF Plan
  <2>3. /\ q.edge = p.edge /\ q.ask = p.ask /\ q.bid = p.bid /\ q.volume = p.volume
        /\ q.profit = p.profit /\ q.inter = p.inter /\ q.out = p.out /\ q.payment = p.payment
    BY <2>1 DEF Plan
  <2>4. FromCache(q)
    BY <1>1, <2>3 DEF PlanInv, FromCache
  <2> HIDE DEF q
  <2>5. /\ pc = "estimate" /\ pc' = pc /\ offer' = offer /\ cache' = cache /\ ethSeen' = ethSeen
        /\ plans' = (plans \ {p}) \union {q}
    BY <1>8 DEF Estimate, q
  <2>6. \A r \in plans' \union offer' : FromCache(r)'
    BY <1>1, <2>4, <2>5 DEF PlanInv, FromCache
  <2>7. \A r \in plans' : r \in Plan /\ (r.gas > 0 => r.gas >= 90)
    BY <1>1, <1>2, <2>1, <2>2, <2>5 DEF PlanInv
  <2>8. offer' = {}
    BY <1>3, <2>5
  <2>9. PlanInv'
    BY <2>5, <2>6, <2>7, <2>8 DEF PlanInv
  <2>10. UNCHANGED <<executorVars, gasPaid>> /\ tx = NoTx
    BY <1>3, <1>8 DEF Estimate
  <2>11. plans' \subseteq Plan
    BY <2>7
  <2> QED
    BY <1>2, <2>5, <2>8, <2>9, <2>10, <2>11, GeneratorStep
<1>9. ASSUME NEW p \in plans, EstimateFails(p)
      PROVE  IInv'
  <2>1. /\ pc = "estimate" /\ pc' = pc /\ offer' = offer /\ cache' = cache /\ ethSeen' = ethSeen
        /\ plans' = plans \ {p}
    BY <1>9 DEF EstimateFails
  <2>2. PlanInv'
    BY <1>1, <2>1 DEF PlanInv, FromCache
  <2>3. UNCHANGED <<executorVars, gasPaid>> /\ tx = NoTx
    BY <1>3, <1>9 DEF EstimateFails
  <2> QED
    BY <1>2, <2>1, <2>2, <2>3, GeneratorStep
<1>10. ASSUME NEW p \in plans, NEW lowest \in LowPrices, Offer(p, lowest)
       PROVE  IInv'
  <2>1. /\ pc = "estimate" /\ pc' = "offered" /\ offer' = {p} /\ cache' = cache
        /\ ethSeen' = ethSeen /\ plans' = {} /\ p.gas > 0
    BY <1>10 DEF Offer
  <2>2. PlanInv'
    BY <1>1, <2>1 DEF PlanInv, FromCache
  <2>3. UNCHANGED <<executorVars, gasPaid>> /\ tx = NoTx
    BY <1>3, <1>10, <2>1 DEF Offer
  <2> QED
    BY <1>2, <2>1, <2>2, <2>3, GeneratorStep
<1>11. ASSUME NEW lowest \in LowPrices, OfferNone(lowest)
       PROVE  IInv'
  <2>1. /\ pc = "estimate" /\ pc' = "update" /\ offer' = {} /\ cache' = cache
        /\ ethSeen' = ethSeen /\ plans' = {}
    BY <1>3, <1>11 DEF OfferNone
  <2>2. PlanInv'
    BY <2>1 DEF PlanInv
  <2>3. UNCHANGED <<executorVars, gasPaid>> /\ tx = NoTx
    BY <1>3, <1>11, <2>1 DEF OfferNone
  <2> QED
    BY <1>2, <2>1, <2>2, <2>3, GeneratorStep
<1> QED
  BY <1>5, <1>6, <1>7, <1>8, <1>9, <1>10, <1>11, Zenon DEF Generate

\* A step of the chain that leaves the generator alone.
LEMMA ChainStep ==
    ASSUME IInv, UNCHANGED generatorVars, world' \in WorldType, owned' \in Int,
           moves' \in 0 .. MaxMoves, orders' \in 0 .. MaxOrders,
           \/ tx' = NoTx
           \/ tx' \in [step : {"transfer", "buy", "sell", "pay"}, plan : Plan, before : WorldType],
           TxInv'
    PROVE  IInv'
<1>1. /\ pc' = pc /\ cache' = cache /\ ethSeen' = ethSeen /\ plans' = plans /\ offer' = offer
      /\ gasPaid' = gasPaid
  BY DEF generatorVars
<1>2. TypeOK'
  BY <1>1 DEF IInv, TypeOK
<1>3. PlanInv'
  BY <1>1 DEF IInv, PlanInv, FromCache
<1> QED
  BY <1>2, <1>3 DEF IInv

\* The end of a transaction: the iteration is over.
LEMMA EndStep ==
    ASSUME IInv, UNCHANGED <<owned, moves, orders, cache, ethSeen, plans>>,
           world' \in WorldType, gasPaid' \in Nat, tx' = NoTx,
           offer' = {}, pc' = "update", pc \in {"offered", "included"}
    PROVE  IInv'
<1>1. plans = {}
  BY DEF IInv, PlanInv
<1>2. TypeOK'
  BY DEF IInv, TypeOK
<1>3. PlanInv'
  BY <1>1 DEF PlanInv
<1> QED
  BY <1>2, <1>3 DEF IInv, TxInv

LEMMA ChainInvariant ==
    ASSUME IInv, Chain
    PROVE  IInv'
<1>1. TypeOK /\ PlanInv /\ TxInv
  BY DEF IInv
<1>2. /\ world \in WorldType /\ owned \in Int /\ moves \in 0 .. MaxMoves
      /\ orders \in 0 .. MaxOrders /\ gasPaid \in Nat /\ offer \subseteq Plan /\ plans \subseteq Plan
      /\ cache \in [Edges -> [1 .. 2 -> Reserves]] /\ ethSeen \in Nat
  BY <1>1 DEF TypeOK
<1>3. ASSUME NEW p \in offer, Include(p)
      PROVE  IInv'
  <2>1. /\ tx = NoTx /\ tx' = [step |-> "transfer", plan |-> p, before |-> world]
        /\ world' = world /\ owned' = owned /\ moves' = moves /\ orders' = orders
        /\ pc = "offered" /\ pc' = "included" /\ cache' = cache /\ ethSeen' = ethSeen
        /\ plans' = plans /\ offer' = offer /\ gasPaid' = gasPaid
    BY <1>3 DEF Include, Begin
  <2>2. tx' \in [step : {"transfer", "buy", "sell", "pay"}, plan : Plan, before : WorldType]
    BY <1>2, <2>1, RunningTx
  <2>3. TypeOK'
    BY <1>1, <2>1, <2>2 DEF TypeOK
  <2>4. PlanInv'
    BY <1>1, <2>1 DEF PlanInv, FromCache
  <2>5. TxInv'
    BY <2>1 DEF TxInv
  <2> QED
    BY <2>3, <2>4, <2>5 DEF IInv
<1>4. ASSUME NotIncluded
      PROVE  IInv'
  <2>1. /\ pc = "offered" /\ pc' = "update" /\ offer' = {}
        /\ UNCHANGED <<owned, moves, orders, cache, ethSeen, plans, world, tx, gasPaid>>
    BY <1>4 DEF NotIncluded, executorVars
  <2>2. tx = NoTx
    BY <1>1, <2>1 DEF TxInv
  <2> QED
    BY <1>2, <2>1, <2>2, EndStep
<1>5. ASSUME Transfer, UNCHANGED generatorVars
      PROVE  IInv'
  <2>1. /\ tx.step = "transfer" /\ CanTransfer(world, tx.plan)
        /\ world' = Transferred(world, tx.plan) /\ tx' = [tx EXCEPT !.step = "buy"]
        /\ UNCHANGED <<owned, moves, orders>>
    BY <1>5 DEF Transfer
  <2>2. /\ tx # NoTx /\ tx' # NoTx /\ tx'.step = "buy" /\ tx'.plan = tx.plan
        /\ tx'.before = tx.before
        /\ tx' \in [step : {"transfer", "buy", "sell", "pay"}, plan : Plan, before : WorldType]
    BY <1>1, <2>1, TxAdvances
  <2>3. world' \in WorldType
    BY <1>1, <1>2, <2>1, <2>2, TxFields, TransferredWorld
  <2>4. TxInv'
    BY <1>1, <1>5, <2>1, <2>2 DEF TxInv, generatorVars
  <2> QED
    BY <1>2, <1>5, <2>1, <2>2, <2>3, <2>4, ChainStep
<1>6. ASSUME Buy, UNCHANGED generatorVars
      PROVE  IInv'
  <2>1. /\ tx.step = "buy" /\ CanBuy(world, tx.plan)
        /\ world' = Bought(world, tx.plan) /\ tx' = [tx EXCEPT !.step = "sell"]
        /\ UNCHANGED <<owned, moves, orders>>
    BY <1>6 DEF Buy
  <2>2. /\ tx # NoTx /\ tx' # NoTx /\ tx'.step = "sell" /\ tx'.plan = tx.plan
        /\ tx'.before = tx.before
        /\ tx' \in [step : {"transfer", "buy", "sell", "pay"}, plan : Plan, before : WorldType]
    BY <1>1, <2>1, TxAdvances
  <2>3. world' \in WorldType
    BY <1>1, <1>2, <2>1, <2>2, TxFields, BoughtWorld
  <2>4. TxInv'
    BY <1>1, <1>6, <2>1, <2>2 DEF TxInv, generatorVars
  <2> QED
    BY <1>2, <1>6, <2>1, <2>2, <2>3, <2>4, ChainStep
<1>7. ASSUME Sell, UNCHANGED generatorVars
      PROVE  IInv'
  <2>1. /\ tx.step = "sell" /\ CanSell(world, tx.plan)
        /\ world' = Sold(world, tx.plan) /\ tx' = [tx EXCEPT !.step = "pay"]
        /\ UNCHANGED <<owned, moves, orders>>
    BY <1>7 DEF Sell
  <2>2. /\ tx # NoTx /\ tx' # NoTx /\ tx'.step = "pay" /\ tx'.plan = tx.plan
        /\ tx'.before = tx.before
        /\ tx' \in [step : {"transfer", "buy", "sell", "pay"}, plan : Plan, before : WorldType]
    BY <1>1, <2>1, TxAdvances
  <2>3. world' \in WorldType
    BY <1>1, <1>2, <2>1, <2>2, TxFields, SoldWorld
  <2>4. TxInv'
    BY <1>1, <1>7, <2>1, <2>2 DEF TxInv, generatorVars
  <2> QED
    BY <1>2, <1>7, <2>1, <2>2, <2>3, <2>4, ChainStep
<1>8. ASSUME Succeed
      PROVE  IInv'
  <2>1. /\ tx.step = "pay" /\ tx # NoTx
        /\ CanUnwrap(world, tx.plan) /\ CanPay(Unwrapped(world, tx.plan), tx.plan)
        /\ world' = Paid(Unwrapped(world, tx.plan), tx.plan) /\ tx' = NoTx
        /\ UNCHANGED <<owned, moves, orders, cache, ethSeen, plans>>
        /\ gasPaid' = gasPaid + EstimatedGas(tx.plan) * GasPrice(tx.plan)
        /\ offer' = {} /\ pc' = "update"
    BY <1>8 DEF Succeed, PayMiner, NoTx
  <2>2. tx.plan \in Plan /\ pc = "included" /\ tx.plan.gas >= 90
    BY <1>1, <2>1, TxFields DEF TxInv, PlanInv
  <2>3. world' \in WorldType
    BY <1>2, <2>1, <2>2, PaidWorld
  <2>4. gasPaid' \in Nat
    BY <1>2, <2>1, <2>2, GasFacts
  <2> QED
    BY <2>1, <2>2, <2>3, <2>4, EndStep
<1>9. ASSUME Fail
      PROVE  IInv'
  <2>1. /\ tx # NoTx /\ world' = tx.before /\ tx' = NoTx
        /\ UNCHANGED <<owned, moves, orders, cache, ethSeen, plans, gasPaid>>
        /\ offer' = {} /\ pc' = "update"
    BY <1>9 DEF Fail, Revert, Fails, NoTx
  <2>2. pc = "included" /\ world' \in WorldType
    BY <1>1, <2>1, TxFields DEF TxInv
  <2> QED
    BY <1>2, <2>1, <2>2, EndStep
<1>10. ASSUME Others, UNCHANGED generatorVars
       PROVE  IInv'
  <2>1. EarnedKept
    BY <1>1, <1>10, OthersStep
  <2>2. TxInv'
    BY <2>1 DEF EarnedKept, TxInv
  <2> QED
    BY <1>10, <2>1, <2>2, ChainStep DEF EarnedKept
<1> QED
  BY <1>3, <1>4, <1>5, <1>6, <1>7, <1>8, <1>9, <1>10, Zenon DEF Chain, Run

LEMMA NextInvariant == IInv /\ [Next]_vars => IInv'
<1> SUFFICES ASSUME IInv, [Next]_vars PROVE IInv'
  OBVIOUS
<1>1. CASE Generate
  BY <1>1, GenerateInvariant
<1>2. CASE Chain
  BY <1>2, ChainInvariant
<1>3. CASE UNCHANGED vars
  <2>1. UNCHANGED <<world, owned, moves, orders, tx>> /\ UNCHANGED generatorVars
    BY <1>3 DEF vars, executorVars
  <2>2. TxInv'
    BY <2>1 DEF IInv, TxInv, generatorVars
  <2> QED
    BY <2>1, <2>2, ChainStep DEF IInv, TypeOK
<1> QED
  BY <1>1, <1>2, <1>3 DEF Next

LEMMA TradeInvariant == Spec => []IInv
<1> QED
  BY InitInvariant, NextInvariant, PTL DEF Spec

\* Type correctness of generator, executor and world.
THEOREM TradeTypeCorrect == Spec => []TypeOK
<1>1. IInv => TypeOK
  BY DEF IInv
<1> QED
  BY <1>1, TradeInvariant, PTL

\* Whatever happens between the reading of the pools and the inclusion, a plan runs
\* exactly if the pools of its edge still give what it asks for and the WETH and the
\* ETH it counts on are there: estimate (utilities.rs) and execution (Multicall.sol)
\* of the amounts that uniswap.rs computes never fail by themselves.
THEOREM FailuresHaveCauses == Spec => []FailureHasCause
<1>1. ASSUME IInv
      PROVE  FailureHasCause
  <2>1. TypeOK /\ PlanInv /\ TxInv /\ cache \in [Edges -> [1 .. 2 -> Reserves]]
    BY <1>1 DEF IInv, TypeOK
  <2>2. ASSUME NEW p \in plans \union offer, tx = NoTx
        PROVE  Runs(world, p) <=> ~Cause(world, p)
    <3>1. world \in WorldType /\ p \in Plan /\ FromCache(p)
      BY <2>1 DEF TypeOK, PlanInv
    <3> QED
      BY <2>1, <3>1, PlanPasses
  <2>3. ASSUME tx # NoTx, Fails, ~Cause(tx.before, tx.plan)
        PROVE  FALSE
    <3>1. tx.before \in WorldType /\ tx.plan \in Plan /\ FromCache(tx.plan)
      BY <2>1, <2>3, TxFields DEF TxInv, PlanInv
    <3> DEFINE b == tx.before
               p == tx.plan
               sent == Transferred(b, p)
               bought == Bought(sent, p)
               sold == Sold(bought, p)
    <3>2. /\ CanTransfer(b, p)
          /\ CanBuy(sent, p)
          /\ CanSell(bought, p)
          /\ CanUnwrap(sold, p)
          /\ CanPay(Unwrapped(sold, p), p)
      BY <2>1, <2>3, <3>1, PlanPasses DEF Runs
    <3>3. /\ tx.step = "transfer" => world = b
          /\ tx.step = "buy" => world = sent
          /\ tx.step = "sell" => world = bought
          /\ tx.step = "pay" => world = sold
      BY <2>1, <2>3 DEF TxInv
    <3> HIDE DEF b, p, sent, bought, sold
    <3>4. /\ tx.step = "transfer" => CanTransfer(world, p)
          /\ tx.step = "buy" => CanBuy(world, p)
          /\ tx.step = "sell" => CanSell(world, p)
          /\ tx.step = "pay" => CanUnwrap(world, p) /\ CanPay(Unwrapped(world, p), p)
      BY <3>2, <3>3
    <3> QED
      BY <2>3, <3>4 DEF Fails, p
  <2> QED
    BY <2>2, <2>3 DEF FailureHasCause
<1> QED
  BY <1>1, TradeInvariant, PTL

-----------------------------------------------------------------------------
\* A step that others see nothing of, or that keeps what was earned and paid.
LEMMA Stutters ==
    ASSUME Visible'.weth + Visible'.eth - owned' = Visible.weth + Visible.eth - owned,
           Visible'.coinbase = Visible.coinbase
    PROVE  UNCHANGED <<Earned, Visible.coinbase>>
  BY DEF Earned

\* The transaction that is through has gained the profit of its plan and paid the
\* miner's share of it.
LEMMA SucceedTrades ==
    ASSUME IInv, Succeed
    PROVE  Atomic!Trade
<1> DEFINE b == tx.before
           p == tx.plan
           sent == Transferred(b, p)
           bought == Bought(sent, p)
           sold == Sold(bought, p)
           end == Paid(Unwrapped(sold, p), p)
<1>1. /\ tx.step = "pay" /\ tx # NoTx
      /\ CanUnwrap(world, p) /\ CanPay(Unwrapped(world, p), p)
      /\ world' = Paid(Unwrapped(world, p), p) /\ tx' = NoTx
      /\ owned' = owned
  BY DEF Succeed, PayMiner, NoTx
<1>2. /\ b \in WorldType /\ p \in Plan /\ FromCache(p)
      /\ cache \in [Edges -> [1 .. 2 -> Reserves]] /\ owned \in Int
  BY <1>1, TxFields DEF IInv, TypeOK, TxInv, PlanInv
<1>3. /\ CanTransfer(b, p) /\ CanBuy(sent, p) /\ CanSell(bought, p)
      /\ world = sold
  BY <1>1 DEF IInv, TxInv
<1>4. /\ p.out = p.volume + p.profit /\ p.profit > MinProfit
      /\ p.payment = Payment(p.profit)
  BY <1>2, PlanFacts
<1>5. /\ p.volume \in Nat /\ p.profit \in Nat /\ p.out \in Nat /\ p.payment \in Nat
      /\ MinProfit \in Nat
  BY <1>2, PlanFields, TradeAssumption
<1>6. /\ Visible = b /\ Visible' = end
  BY <1>1, <1>3 DEF Visible
<1>7. CanUnwrap(sold, p) /\ CanPay(Unwrapped(sold, p), p)
  BY <1>1, <1>3
<1> HIDE DEF b, p
<1>8. sent \in WorldType /\ sent.weth = b.weth - p.volume /\ sent.eth = b.eth
      /\ sent.coinbase = b.coinbase
  BY <1>2, <1>3, TransferredWorld
<1> HIDE DEF sent
<1>9. bought \in WorldType /\ bought.weth = sent.weth /\ bought.eth = sent.eth
      /\ bought.coinbase = sent.coinbase
  BY <1>2, <1>3, <1>8, BoughtWorld
<1> HIDE DEF bought
<1>10. sold \in WorldType /\ sold.weth = bought.weth + p.out /\ sold.eth = bought.eth
       /\ sold.coinbase = bought.coinbase
  BY <1>2, <1>3, <1>9, SoldWorld
<1> HIDE DEF sold
<1>11. end \in WorldType /\ end.weth + end.eth = sold.weth + sold.eth - p.payment
       /\ end.coinbase = sold.coinbase + p.payment
  BY <1>2, <1>7, <1>10, PaidWorld
<1> HIDE DEF end
<1>12. /\ b.weth \in Nat /\ b.eth \in Nat /\ b.coinbase \in Nat
       /\ end.weth \in Nat /\ end.eth \in Nat /\ end.coinbase \in Nat
  BY <1>2, <1>11, WorldFields
<1>13. /\ end.weth + end.eth = b.weth + b.eth + p.profit - p.payment
       /\ end.coinbase = b.coinbase + p.payment
  BY <1>4, <1>5, <1>8, <1>9, <1>10, <1>11, <1>12
<1> DEFINE gain == (Earned' + Visible'.coinbase) - (Earned + Visible.coinbase)
<1>14. Earned = b.weth + b.eth - owned /\ Earned' = end.weth + end.eth - owned
  BY <1>1, <1>6 DEF Earned
<1>15. gain = p.profit
  <2>1. gain = ((end.weth + end.eth - owned) + end.coinbase) - ((b.weth + b.eth - owned) + b.coinbase)
    BY <1>6, <1>14, Zenon
  <2> QED
    BY <1>2, <1>5, <1>12, <1>13, <2>1
<1> HIDE DEF gain
<1>16. gain > MinProfit /\ Visible'.coinbase = Visible.coinbase + Atomic!Share(gain)
  BY <1>4, <1>6, <1>13, <1>15 DEF Payment, Atomic!Share
<1> QED
  BY <1>16 DEF Atomic!Trade, gain

LEMMA EveryStepMaps ==
    ASSUME IInv, [Next]_vars
    PROVE  [Atomic!Next]_<<Earned, Visible.coinbase>>
<1>1. ASSUME UNCHANGED executorVars
      PROVE  UNCHANGED <<Earned, Visible.coinbase>>
  BY <1>1 DEF executorVars, Earned, Visible
<1>2. ASSUME Generate
      PROVE  UNCHANGED executorVars
  BY <1>2 DEF Generate, UpdateMarkets, ReadBalance, Evaluate, Estimate, EstimateFails, Offer,
              OfferNone
<1>3. ASSUME NEW p \in offer, Include(p)
      PROVE  UNCHANGED <<Earned, Visible.coinbase>>
  <2>1. tx = NoTx /\ tx'.before = world /\ tx'.step = "transfer" /\ world' = world /\ owned' = owned
    BY <1>3 DEF Include, Begin
  <2>2. tx' # NoTx
    BY <2>1 DEF NoTx
  <2> QED
    BY <2>1, <2>2 DEF Earned, Visible
<1>4. ASSUME Run
      PROVE  UNCHANGED <<Earned, Visible.coinbase>>
  <2>1. PICK s \in {"transfer", "buy", "sell", "pay"} : tx' = [tx EXCEPT !.step = s]
    BY <1>4 DEF Run, Transfer, Buy, Sell
  <2>2. tx.step # "none" /\ owned' = owned
    BY <1>4 DEF Run, Transfer, Buy, Sell
  <2>3. tx # NoTx /\ tx' # NoTx /\ tx'.before = tx.before
    BY <2>1, <2>2, TxAdvances DEF IInv
  <2> QED
    BY <2>2, <2>3 DEF Earned, Visible
<1>5. ASSUME Fail
      PROVE  UNCHANGED <<Earned, Visible.coinbase>>
  <2>1. tx # NoTx /\ world' = tx.before /\ tx' = NoTx /\ owned' = owned
    BY <1>5 DEF Fail, Revert, Fails, NoTx
  <2> QED
    BY <2>1 DEF Earned, Visible
<1>6. ASSUME Others
      PROVE  UNCHANGED <<Earned, Visible.coinbase>>
  <2>1. EarnedKept
    BY <1>6, OthersStep DEF IInv
  <2> QED
    BY <2>1, Stutters DEF EarnedKept, Visible
<1>7. ASSUME Chain
      PROVE  Atomic!Next \/ UNCHANGED <<Earned, Visible.coinbase>>
  <2>1. ASSUME NotIncluded
        PROVE  UNCHANGED executorVars
    BY <2>1 DEF NotIncluded
  <2> QED
    BY <1>1, <1>3, <1>4, <1>5, <1>6, <1>7, <2>1, SucceedTrades DEF Chain, Atomic!Next
<1>8. ASSUME UNCHANGED vars
      PROVE  UNCHANGED executorVars
  BY <1>8 DEF vars
<1> QED
  BY <1>1, <1>2, <1>7, <1>8 DEF Next

\* The generator, the executor and everything around them implement the abstract
\* trade: gains come all at once, each above the minimal profit, with exactly the
\* producer's share paid (take_crossed_market in arbitrage.rs, adMulticall and
\* pay_miner in Multicall.sol).
THEOREM TradesAreAtomic == Spec => ImplementsAtomicTrade
<1>1. Init => Atomic!Init
  <2> SUFFICES ASSUME Init PROVE Atomic!Init
    OBVIOUS
  <2>1. world \in WorldType /\ tx = NoTx /\ owned = world.weth + world.eth
    BY InitInvariant DEF IInv, TypeOK, Init, ExecutorInit
  <2>2. world.coinbase = 0
    BY DEF Init, ExecutorInit
  <2>3. world.weth \in Nat /\ world.eth \in Nat
    BY <2>1, WorldFields
  <2> QED
    BY <2>1, <2>2, <2>3 DEF Atomic!Init, Earned, Visible
<1>2. IInv /\ [Next]_vars => [Atomic!Next]_<<Earned, Visible.coinbase>>
  BY EveryStepMaps
<1> QED
  BY <1>1, <1>2, TradeInvariant, PTL DEF Spec, ImplementsAtomicTrade, Atomic!Spec
=============================================================================

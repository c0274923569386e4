--------------------------- MODULE CrossedMarkets ---------------------------
(***************************************************************************)
(* The evaluation of one edge of the market graph (arbitrage.rs): the body *)
(* of the closure in evaluate_markets, with order_profit and               *)
(* optimize_volume.                                                        *)
(*                                                                         *)
(* The edge joins WETH and a token and has two pools or more.  The best    *)
(* one to buy the token from and the best one to sell it to are compared   *)
(* for a small volume; if they cross, the volume is searched, first over a *)
(* list of test sizes and then by bisection, and the result is kept if it  *)
(* pays.                                                                   *)
(***************************************************************************)
EXTENDS UniswapPool

CONSTANTS
    NumMarkets,    \* how many pools the edge has
    MaxReserve,    \* the largest U256
    Pools,         \* the pools an edge is made of in this instance
    Sizes,         \* test_sizes
    Step,          \* step: how far from the middle the slope is taken
    Precision,     \* precision
    MinProfit,     \* FINNEY: a crossed market must pay more than this
    MaxIterations  \* bound: where the count of the bisections stops counting

ASSUME SearchAssumption ==
    /\ NumMarkets \in Nat
    /\ NumMarkets >= 2
    /\ MaxReserve \in Nat
    /\ Pools \subseteq [weth : 0 .. MaxReserve, token : 0 .. MaxReserve]
    /\ Sizes \in Seq(Nat)
    /\ Len(Sizes) > 3
    /\ \A i, j \in 1 .. Len(Sizes) : i < j => Sizes[i] < Sizes[j]
    /\ Step \in Nat
    /\ Step < Sizes[1]
    /\ Precision \in Nat
    /\ MinProfit \in Nat
    /\ MaxIterations \in Nat

VARIABLES
    pools,       \* the markets of the edge
    pc,          \* "compare", "bracket", "ascend" or "done"
    ask, bid,    \* the markets to buy from and to sell to
    i,           \* the test size that is compared with the one before it
    low, mid, high,
    iterations,  \* history: how often the interval was halved
    profit, volume,
    kept         \* was the crossed market pushed?

vars == <<pools, pc, ask, bid, i, low, mid, high, iterations, profit, volume, kept>>

\* cent, the volume the markets are compared for, is also the first test size.
Cent == Sizes[1]

Proceeds(v) == WethFor(pools[bid], TokenFor(pools[ask], v))

OrderProfit(v) == IF v < Proceeds(v) THEN Proceeds(v) - v ELSE 0

Init ==
    /\ pools \in [1 .. NumMarkets -> Pools]
    /\ pc = "compare"
    /\ ask = 1
    /\ bid = 1
    /\ i = 2
    /\ low = Sizes[1]
    /\ mid = Sizes[1]
    /\ high = Sizes[3]
    /\ iterations = 0
    /\ profit = 0
    /\ volume = 0
    /\ kept = FALSE

\* Mutant of Crossed: what the two pools give for the amount is compared.
CrossedByAmountsOut(a, b) == TokenFor(pools[a], Cent) > TokenFor(pools[b], Cent)

\* The markets cross if buying gives more tokens than selling needs.
Crossed(a, b) == TokenFor(pools[a], Cent) > TokenNeeded(pools[b], Cent)

Compare ==
    /\ pc = "compare"
    /\ ask' = BestAsk(pools, Cent)
    /\ bid' = BestBid(pools, Cent)
    /\ pc' = IF Crossed(ask', bid') THEN "bracket" ELSE "done"
    /\ UNCHANGED <<pools, i, low, mid, high, iterations, profit, volume, kept>>

\* Mutant of Grows: the loop runs to the last test size.
GrowsToLast == i <= Len(Sizes) - 1 /\ OrderProfit(Sizes[i]) > OrderProfit(Sizes[i - 1])

\* The test sizes are tried in turn while the profit still grows; the last one
\* only ever is an upper end.
Grows == i <= Len(Sizes) - 2 /\ OrderProfit(Sizes[i]) > OrderProfit(Sizes[i - 1])

Bracket ==
    /\ pc = "bracket"
    /\ Grows
    /\ low' = Sizes[i - 1]
    /\ high' = Sizes[i + 1]
    /\ i' = i + 1
    /\ UNCHANGED <<pools, pc, ask, bid, mid, iterations, profit, volume, kept>>

\* Mutant of Middle: the sum is not halved.
Sum(a, b) == a + b

Middle(a, b) == (a + b) \div 2

EndBracket ==
    /\ pc = "bracket"
    /\ ~Grows
    /\ mid' = Middle(high, low)
    /\ pc' = "ascend"
    /\ UNCHANGED <<pools, ask, bid, i, low, high, iterations, profit, volume, kept>>

\* The profits at the two ends differ, by less than the precision.
Converged ==
    \/ OrderProfit(high) > OrderProfit(low) /\ OrderProfit(high) - OrderProfit(low) < Precision
    \/ OrderProfit(low) > OrderProfit(high) /\ OrderProfit(low) - OrderProfit(high) < Precision

Rising  == OrderProfit(mid) < OrderProfit(mid + Step)
Falling == OrderProfit(mid) < OrderProfit(mid - Step)

Count == iterations' = IF iterations < MaxIterations THEN iterations + 1 ELSE iterations

\* Mutant of MoveUp: low = mid is left out.
MoveMiddleOnly ==
    /\ pc = "ascend"
    /\ ~Converged
    /\ Rising
    /\ mid' = Middle(mid, high)
    /\ Count
    /\ UNCHANGED <<pools, pc, ask, bid, i, low, high, profit, volume, kept>>

MoveUp ==
    /\ pc = "ascend"
    /\ ~Converged
    /\ Rising
    /\ low' = mid
    /\ mid' = Middle(mid, high)
    /\ Count
    /\ UNCHANGED <<pools, pc, ask, bid, i, high, profit, volume, kept>>

MoveDown ==
    /\ pc = "ascend"
    /\ ~Converged
    /\ ~Rising
    /\ Falling
    /\ high' = mid
    /\ mid' = Middle(low, mid)
    /\ Count
    /\ UNCHANGED <<pools, pc, ask, bid, i, low, profit, volume, kept>>

\* The interval is small enough or no step pays: the market is kept if it does.
Finish ==
    /\ pc = "ascend"
    /\ Converged \/ (~Rising /\ ~Falling)
    /\ profit' = OrderProfit(mid)
    /\ volume' = mid
    /\ kept' = (profit' > MinProfit)
    /\ pc' = "done"
    /\ UNCHANGED <<pools, ask, bid, i, low, mid, high, iterations>>

Next == Compare \/ Bracket \/ EndBracket \/ MoveUp \/ MoveDown \/ Finish

Spec == Init /\ [][Next]_vars

FairSpec == Spec /\ WF_vars(Next)

-----------------------------------------------------------------------------
TypeOK ==
    /\ pools \in [1 .. NumMarkets -> Pools]
    /\ pc \in {"compare", "bracket", "ascend", "done"}
    /\ ask \in DOMAIN pools /\ bid \in DOMAIN pools
    /\ i \in 2 .. Len(Sizes) - 1
    /\ low \in Nat /\ mid \in Nat /\ high \in Nat
    /\ iterations \in 0 .. MaxIterations
    /\ profit \in Nat /\ volume \in Nat
    /\ kept \in BOOLEAN

\* The bisection stays between its ends and the ends between the test sizes, so
\* the volume below the middle is never negative (U256 would panic) and the
\* result is a volume the list allows: never the last size.
ProbesInRange ==
    pc = "ascend" =>
        /\ Sizes[1] <= low /\ low <= mid /\ mid <= high /\ high <= Sizes[Len(Sizes) - 1]
        /\ mid - Step > 0

\* Markets that cross do not lose at the volume they are compared for: what is
\* bought sells for at least that volume, the two roundings included, unless the
\* selling market asked for nothing since it cannot pay the volume at all.
CrossingDoesNotLose ==
    pc \in {"bracket", "ascend"} /\ TokenNeeded(pools[bid], Cent) > 0 => Proceeds(Cent) >= Cent

\* A crossed market that is kept buys from one pool and sells to another.
KeptMarketsDiffer == kept => ask # bid

Log2(n) == CHOOSE k \in 0 .. n : 2^k >= n /\ (k = 0 \/ 2^(k - 1) < n)

\* The width of the widest interval the test sizes can give.
Width == Sizes[Len(Sizes) - 1] - Sizes[1]

\* The interval is halved by every turn of the loop: after as many turns as the
\* widest interval has bits, no volume is left between its ends.
IntervalIsHalved == pc = "ascend" /\ iterations >= Log2(Width) => high - low <= 1

\* A bisection ends within a turn of that, or never: from then on the turns of the loop
\* change neither the interval nor the middle, so none of its breaks is taken any more.
EndsInTimeOrNever ==
    [][iterations > Log2(Width) => UNCHANGED <<pc, low, mid, high, profit, volume, kept>>]_vars

\* "Binary could take as many as 256 iterations, and much less than that in the
\* bounded search space" (arbitrage.rs:95).
AtMost256Iterations == iterations <= 256
=============================================================================

--------------------------- MODULE ArbitrageTrade ---------------------------
(***************************************************************************)
(* From crossed markets to a transaction (arbitrage.rs, generate() and     *)
(* take_crossed_market(); utilities.rs, generate_contract_transaction();   *)
(* flashbots.rs, the score of a bundle), composed with the executor        *)
(* contract and the world of module Executor.                              *)
(*                                                                         *)
(* The pools were read at some earlier time, the balances of the executor  *)
(* are read next, each gas estimate runs on the world of its own moment,   *)
(* and the bundle is included after that or not at all.  Between any two   *)
(* of these other traders and the owner may act.                           *)
(***************************************************************************)
EXTENDS Executor, BundleScore

CONSTANTS
    Volumes,       \* volumes that optimize_volume may return in this instance
    Cent,          \* the volume the markets of an edge are compared for
    MinProfit,     \* FINNEY: a crossed market must pay more than this
    GasEstimates,  \* answers of eth_estimateGas in this instance
    LowPrices      \* gas_price.low in this instance

ASSUME TradeAssumption ==
    /\ Volumes \subseteq Nat \ {0}
    /\ Cent \in Nat \ {0}
    /\ MinProfit \in Nat
    /\ GasEstimates \subseteq Nat
    /\ \A gas \in GasEstimates : gas >= 90
    /\ LowPrices \subseteq Nat

VARIABLES
    pc,       \* "update", "balance", "evaluate", "estimate", "offered" or "included"
    cache,    \* the reserves in the market graph
    ethSeen,  \* eth_balance
    plans,    \* crossed markets with their transactions; gas is 0 until estimated
    offer,    \* the plan of the bundle, in a set of at most one
    gasPaid   \* history: what the sender's account paid for gas

generatorVars == <<pc, cache, ethSeen, plans, offer, gasPaid>>
vars == <<executorVars, generatorVars>>

-----------------------------------------------------------------------------
OrderProfit(volume, out) == IF volume < out THEN out - volume ELSE 0

\* Mutant of PlanFor: the miner is given a share of the proceeds.
PlanForShareOfProceeds(e, v) ==
    LET ask    == BestAsk(cache[e], Cent)
        bid    == BestBid(cache[e], Cent)
        inter  == TokenFor(cache[e][ask], v)
        out    == WethFor(cache[e][bid], inter)
    IN  [edge |-> e, ask |-> ask, bid |-> bid, volume |-> v, profit |-> OrderProfit(v, out),
         inter |-> inter, out |-> out, payment |-> Payment(out),
         withWeth |-> ethSeen < Payment(out), gas |-> 0]

\* take_crossed_market: what the cached pools give for the volume is what the
\* swaps will ask for.
PlanFor(e, v) ==
    LET ask    == BestAsk(cache[e], Cent)
        bid    == BestBid(cache[e], Cent)
        inter  == TokenFor(cache[e][ask], v)
        out    == WethFor(cache[e][bid], inter)
        profit == OrderProfit(v, out)
    IN  [edge |-> e, ask |-> ask, bid |-> bid, volume |-> v, profit |-> profit,
         inter |-> inter, out |-> out, payment |-> Payment(profit),
         withWeth |-> ethSeen < Payment(profit), gas |-> 0]

\* evaluate_markets keeps an edge that crosses and pays at the volume it found.
Kept(e, v) ==
    /\ TokenFor(cache[e][BestAsk(cache[e], Cent)], Cent)
         > TokenNeeded(cache[e][BestBid(cache[e], Cent)], Cent)
    /\ PlanFor(e, v).profit > MinProfit

-----------------------------------------------------------------------------
Init ==
    /\ ExecutorInit
    /\ pc = "update"
    /\ cache = world.pools
    /\ ethSeen = 0
    /\ plans = {}
    /\ offer = {}
    /\ gasPaid = 0

\* The markets in S are read again; the others keep what an earlier update read.
UpdateMarkets(S) ==
    /\ pc = "update"
    /\ tx = NoTx
    /\ cache' = [e \in Edges |-> [i \in 1 .. 2 |->
                    IF <<e, i>> \in S THEN world.pools[e][i] ELSE cache[e][i]]]
    /\ pc' = "balance"
    /\ UNCHANGED <<executorVars, ethSeen, plans, offer, gasPaid>>

\* balanceOf(eth) of the executor; the other balances that are read decide nothing.
ReadBalance ==
    /\ pc = "balance"
    /\ ethSeen' = world.eth
    /\ pc' = "evaluate"
    /\ UNCHANGED <<executorVars, cache, plans, offer, gasPaid>>

Evaluate(volume) ==
    /\ pc = "evaluate"
    /\ plans' = {PlanFor(e, volume[e]) : e \in {d \in Edges : Kept(d, volume[d])}}
    /\ pc' = "estimate"
    /\ UNCHANGED <<executorVars, cache, ethSeen, offer, gasPaid>>

\* eth_estimateGas of one of the transactions, which are all asked for at once.
Estimate(p, gas) ==
    /\ pc = "estimate"
    /\ p.gas = 0
    /\ Runs(world, p)
    /\ plans' = (plans \ {p}) \union {[p EXCEPT !.gas = gas]}
    /\ UNCHANGED <<executorVars, pc, cache, ethSeen, offer, gasPaid>>

\* The estimate answers with an error, because the trade does not run or because the
\* request failed: no transaction is made of the plan.
EstimateFails(p) ==
    /\ pc = "estimate"
    /\ p.gas = 0
    /\ plans' = plans \ {p}
    /\ UNCHANGED <<executorVars, pc, cache, ethSeen, offer, gasPaid>>

\* join_all of the estimates has returned: a bundle of the first, if it pays more
\* per gas than the pool of transactions, or none.  How the first is arrived at is
\* the subject of module Opportunities.
Offer(p, low) ==
    /\ pc = "estimate"
    /\ \A q \in plans : q.gas > 0
    /\ IsFirstOf(p, plans)
    /\ EffectiveGas(p) > low
    /\ offer' = {p}
    /\ plans' = {}
    /\ pc' = "offered"
    /\ UNCHANGED <<executorVars, cache, ethSeen, gasPaid>>

OfferNone(low) ==
    /\ pc = "estimate"
    /\ \A q \in plans : q.gas > 0
    /\ plans = {} \/ \E q \in plans : IsFirstOf(q, plans) /\ EffectiveGas(q) <= low
    /\ plans' = {}
    /\ pc' = "update"
    /\ UNCHANGED <<executorVars, cache, ethSeen, offer, gasPaid>>

-----------------------------------------------------------------------------
\* The next block includes the bundle, or none of it.
Include(p) ==
    /\ pc = "offered"
    /\ Begin(p)
    /\ pc' = "included"
    /\ UNCHANGED <<cache, ethSeen, plans, offer, gasPaid>>

NotIncluded ==
    /\ pc = "offered"
    /\ offer' = {}
    /\ pc' = "update"
    /\ UNCHANGED <<executorVars, cache, ethSeen, plans, gasPaid>>

Run == (Transfer \/ Buy \/ Sell) /\ UNCHANGED generatorVars

\* The sender's account pays the gas price of the transaction for its gas.
Succeed ==
    /\ PayMiner
    /\ gasPaid' = gasPaid + EstimatedGas(tx.plan) * GasPrice(tx.plan)
    /\ offer' = {}
    /\ pc' = "update"
    /\ UNCHANGED <<cache, ethSeen, plans>>

\* A relay includes no bundle with a transaction that is reverted.
Fail ==
    /\ Revert
    /\ offer' = {}
    /\ pc' = "update"
    /\ UNCHANGED <<cache, ethSeen, plans, gasPaid>>

Generate ==
    \/ \E S \in SUBSET (Edges \X (1 .. 2)) : UpdateMarkets(S)
    \/ ReadBalance
    \/ \E volume \in [Edges -> Volumes] : Evaluate(volume)
    \/ \E p \in plans, gas \in GasEstimates : Estimate(p, gas)
    \/ \E p \in plans : EstimateFails(p)
    \/ \E p \in plans, low \in LowPrices : Offer(p, low)
    \/ \E low \in LowPrices : OfferNone(low)

Chain ==
    \/ \E p \in offer : Include(p)
    \/ NotIncluded
    \/ Run
    \/ Succeed
    \/ Fail
    \/ Others /\ UNCHANGED generatorVars

Next == Generate \/ Chain

Spec == Init /\ [][Next]_vars

-----------------------------------------------------------------------------
WorldType ==
    [pools : [Edges -> [1 .. 2 -> Reserves]], sent : Nat, weth : Nat, eth : Nat, coinbase : Nat]

TypeOK ==
    /\ world \in WorldType
    /\ owned \in Int
    /\ moves \in 0 .. MaxMoves
    /\ orders \in 0 .. MaxOrders
    /\ tx = NoTx \/ tx \in [step : {"transfer", "buy", "sell", "pay"}, plan : Plan, before : WorldType]
    /\ pc \in {"update", "balance", "evaluate", "estimate", "offered", "included"}
    /\ cache \in [Edges -> [1 .. 2 -> Reserves]]
    /\ ethSeen \in Nat
    /\ plans \subseteq Plan
    /\ offer \subseteq Plan
    /\ gasPaid \in Nat

\* The world as the other transactions see it: while one runs, the one it started from.
Visible == IF tx = NoTx THEN world ELSE tx.before

\* Whatever other traders and the owner do between the reading of the pools, the
\* balances, the estimate and the inclusion, the executor gains from its
\* transactions all at once or not at all, as the evaluation counted, and the block
\* producer is given its share of the gain and no more.
Earned == Visible.weth + Visible.eth - owned

Atomic == INSTANCE AtomicTrade WITH earned <- Earned, paid <- Visible.coinbase

ImplementsAtomicTrade == Atomic!Spec

\* What makes a plan fail: a pool of its edge now gives less than the plan asks it
\* for, there is too little WETH for the volume (no flash loan is taken), or the ETH
\* is gone that was there when the payment was to be taken from it.
Cause(w, p) ==
    \/ TokenFor(w.pools[p.edge][p.ask], p.volume) < p.inter
    \/ WethFor(w.pools[p.edge][p.bid], p.inter) < p.out
    \/ w.weth < p.volume
    \/ ~p.withWeth /\ w.eth < p.payment

\* A plan runs exactly if none of these holds: amounts that were rounded in the
\* client pass the contracts' checks, a pool that moved in the plan's favour does no
\* harm, what the first pool pays out suffices for the second, and WETH always
\* covers a payment that is taken from it.  A transaction that fails halfway had a
\* cause in the block it began in.
FailureHasCause ==
    /\ \A p \in plans \union offer : tx = NoTx => (Runs(world, p) <=> ~Cause(world, p))
    /\ tx # NoTx /\ Fails => Cause(tx.before, tx.plan)

\* The inductive invariant behind the two: every plan that is still held was made
\* from the reserves in the cache, and the transaction that runs has made exactly
\* the steps before the next one.
FromCache(p) ==
    /\ p.inter = TokenFor(cache[p.edge][p.ask], p.volume)
    /\ p.out = WethFor(cache[p.edge][p.bid], p.inter)
    /\ p.profit = p.out - p.volume
    /\ p.profit > MinProfit
    /\ p.payment = Payment(p.profit)

PlanInv ==
    /\ \A p \in plans \union offer : FromCache(p)
    /\ \A p \in plans : p.gas > 0 => p.gas >= 90
    /\ \A p \in offer : p.gas >= 90
    /\ pc # "estimate" => plans = {}
    /\ pc \notin {"offered", "included"} => offer = {}

TxInv ==
    tx # NoTx =>
        LET b == tx.before
            p == tx.plan
        IN  /\ pc = "included"
            /\ p \in offer
            /\ tx.step = "transfer" => world = b
            /\ tx.step # "transfer" => CanTransfer(b, p)
            /\ tx.step \in {"sell", "pay"} => CanBuy(Transferred(b, p), p)
            /\ tx.step = "pay" => CanSell(Bought(Transferred(b, p), p), p)
            /\ tx.step = "buy" => world = Transferred(b, p)
            /\ tx.step = "sell" => world = Bought(Transferred(b, p), p)
            /\ tx.step = "pay" => world = Sold(Bought(Transferred(b, p), p), p)

\* "construct a profitable flashbots bundle for each block" (src/README.md:4-5): after
\* the gas is paid for, the transactions have left a gain.
ProfitableBundle == Earned >= gasPaid
=============================================================================

---------------------------- MODULE Opportunities ----------------------------
(***************************************************************************)
(* From all edges of the market graph to the one transaction of a bundle   *)
(* (arbitrage.rs, evaluate_markets() and generate()), against the gas      *)
(* prices that were read at the start of the iteration (gas.rs).           *)
(*                                                                         *)
(* The edges are evaluated by parallel workers, which push what they keep  *)
(* in the order they finish; the gas estimates of the transactions are     *)
(* asked for all at once and answered in any order.  What the evaluation   *)
(* of an edge finds and what the client answers for its transaction are    *)
(* data here: modules CrossedMarkets and ArbitrageTrade are about them.    *)
(***************************************************************************)
EXTENDS BundleScore, Sequences, FiniteSets

CONSTANTS
    Edges,         \* the edges of the market graph at the origin token
    Profits,       \* the profits of optimal volumes in this instance
    MinProfit,     \* FINNEY: a crossed market must pay more than this
    GasEstimates,  \* answers of eth_estimateGas in this instance
    Pending,       \* the transactions that may be pending in the client
    Prices,        \* gas prices of pending transactions in this instance
    Limit          \* 250: how many of the highest gas prices are looked at

ASSUME OpportunitiesAssumption ==
    /\ IsFiniteSet(Edges)
    /\ Profits \subseteq Nat
    /\ MinProfit \in Nat
    /\ GasEstimates \subseteq Nat
    /\ \A gas \in GasEstimates : gas >= 90
    /\ IsFiniteSet(Pending)
    /\ Prices \subseteq Nat
    /\ Limit \in Nat \ {0}

VARIABLES
    pc,        \* "prices", "fallback", "evaluate", "estimate" or "done"
    markets,   \* per edge: its number of markets, which is 1 or more
    pool,      \* the gas prices of the pending transactions, as they were read
    gasPrice,  \* GasPrice
    todo,      \* edges that no worker has evaluated yet
    found,     \* per edge: the profit its evaluation has found, or 0
    estimate,  \* per edge: the gas estimated for its transaction, 0 if that failed
    kept,      \* crossed_markets: the edges kept, in the order they were pushed
    sorted,    \* sorted_crossed_markets
    waiting,   \* indices of sorted whose estimate has not been answered
    gas,       \* per index of sorted: the estimate, 0 if it failed
    offer      \* the transaction of the bundle, in a set of at most one

vars == <<markets, pc, pool, gasPrice, todo, found, estimate, kept, sorted, waiting, gas, offer>>

-----------------------------------------------------------------------------
GasPrices == [ludicrous : Nat, high : Nat, medium : Nat, low : Nat]

Smaller(m, n) == IF m < n THEN m ELSE n

\* All elements of S in one order.
Orders(S) == {order \in [1 .. Cardinality(S) -> S] : \A x \in S : \E i \in DOMAIN order : order[i] = x}

Pools == UNION {[S -> Prices] : S \in SUBSET Pending}

\* The order of the pending transactions after sort and reverse.
Descending(content, order) ==
    \A i, j \in DOMAIN order : i < j => content[order[i]] >= content[order[j]]

\* Mutant of Remaining: one more.
RemainingOneMore(order) == Smaller(Limit + 1, Len(order))

\* How many of that order remain after truncate.
Remaining(order) == Smaller(Limit, Len(order))

PricesFrom(content, order) ==
    LET n == Remaining(order)
    IN  [ludicrous |-> 3 * content[order[1]], high |-> content[order[1]],
         medium |-> content[order[n \div 2 + 1]], low |-> content[order[n]]]

\* Pairs with fewer than two markets are left out before any work is done.
Evaluated == {e \in Edges : markets[e] >= 2}

NoPrice == [ludicrous |-> 0, high |-> 0, medium |-> 0, low |-> 0]

Init ==
    /\ markets \in [Edges -> 1 .. 2]
    /\ pc = "prices"
    /\ pool = <<>>
    /\ gasPrice = NoPrice
    /\ todo = {}
    /\ found = [e \in Edges |-> 0]
    /\ estimate = [e \in Edges |-> 0]
    /\ kept = <<>>
    /\ sorted = <<>>
    /\ waiting = {}
    /\ gas = <<>>
    /\ offer = {}

-----------------------------------------------------------------------------
BeginEvaluation ==
    /\ todo' = Evaluated
    /\ pc' = "evaluate"
    /\ UNCHANGED <<markets, found, estimate, kept, sorted, waiting, gas, offer>>

\* txpool_content was answered with some transactions.
ReadPool(content, order) ==
    /\ pc = "prices"
    /\ DOMAIN content # {}
    /\ Descending(content, order)
    /\ pool' = content
    /\ gasPrice' = PricesFrom(content, order)
    /\ BeginEvaluation

\* It was answered with none, or with an error.
NoPool ==
    /\ pc = "prices"
    /\ pc' = "fallback"
    /\ UNCHANGED <<markets, pool, gasPrice, todo, found, estimate, kept, sorted, waiting, gas, offer>>

\* eth_gasPrice instead.
ReadEstimate(price) ==
    /\ pc = "fallback"
    /\ gasPrice' = [ludicrous |-> price + price, high |-> price + 4,
                    medium |-> price + 2, low |-> price]
    /\ UNCHANGED pool
    /\ BeginEvaluation

\* A worker evaluates an edge and pushes what it keeps under the mutex.
EvaluateEdge(e, profit) ==
    /\ pc = "evaluate"
    /\ e \in todo
    /\ todo' = todo \ {e}
    /\ found' = [found EXCEPT ![e] = profit]
    /\ kept' = IF profit > MinProfit THEN Append(kept, e) ELSE kept
    /\ UNCHANGED <<markets, pc, pool, gasPrice, estimate, sorted, waiting, gas, offer>>

\* Mutant of ByProfit: lowest profit first.
ByProfitAscending(order) ==
    \A i, j \in DOMAIN order :
        i < j => LET p == found[kept[order[i]]]
                     q == found[kept[order[j]]]
                 IN  p < q \/ (p = q /\ order[i] < order[j])

\* The order of a stable sort by profit, highest first, as indices of kept.
ByProfit(order) ==
    \A i, j \in DOMAIN order :
        i < j => LET p == found[kept[order[i]]]
                     q == found[kept[order[j]]]
                 IN  p > q \/ (p = q /\ order[i] < order[j])

\* All workers are done: the crossed markets are sorted, and the gas estimates of
\* their transactions are asked for.
SortKept(order) ==
    /\ pc = "evaluate"
    /\ todo = {}
    /\ ByProfit(order)
    /\ sorted' = [i \in 1 .. Len(kept) |-> kept[order[i]]]
    /\ waiting' = 1 .. Len(kept)
    /\ gas' = [i \in 1 .. Len(kept) |-> 0]
    /\ pc' = "estimate"
    /\ UNCHANGED <<markets, pool, gasPrice, todo, found, estimate, kept, offer>>

\* Mutant of Answer: answers are collected in the order in which they arrive.
AnswerInOrderOfArrival(i, answer) ==
    /\ pc = "estimate"
    /\ i \in waiting
    /\ waiting' = waiting \ {i}
    /\ gas' = Append(gas, answer)
    /\ estimate' = [estimate EXCEPT ![sorted[i]] = answer]
    /\ UNCHANGED <<markets, pc, pool, gasPrice, todo, found, kept, sorted, offer>>

\* join_all keeps each answer at the index of its request; 0 if the estimate failed.
Answer(i, answer) ==
    /\ pc = "estimate"
    /\ i \in waiting
    /\ waiting' = waiting \ {i}
    /\ gas' = [gas EXCEPT ![i] = answer]
    /\ estimate' = [estimate EXCEPT ![sorted[i]] = answer]
    /\ UNCHANGED <<markets, pc, pool, gasPrice, todo, found, kept, sorted, offer>>

-----------------------------------------------------------------------------
Transaction(e, gasOf) ==
    [edge |-> e, profit |-> found[e], payment |-> Payment(found[e]), gas |-> gasOf]

\* crossed_market_results: the indices whose estimate did not fail.
Results == {i \in DOMAIN sorted : gas[i] > 0}

\* The first after a stable sort by payment per gas, highest first.
ChosenFrom(i) ==
    LET Ratio(j) == PaymentPerGas(Transaction(sorted[j], gas[j]))
    IN  \A j \in Results : Ratio(i) > Ratio(j) \/ (Ratio(i) = Ratio(j) /\ i <= j)

Decide(chosen) ==
    /\ pc = "estimate"
    /\ waiting = {}
    /\ offer' = chosen
    /\ pc' = "done"
    /\ UNCHANGED <<markets, pool, gasPrice, todo, found, estimate, kept, sorted, waiting, gas>>

Offer(i) ==
    LET p == Transaction(sorted[i], gas[i])
    IN  /\ ChosenFrom(i)
        /\ EffectiveGas(p) > gasPrice.low
        /\ Decide({p})

OfferNone ==
    /\ \/ Results = {}
       \/ \E i \in Results :
              /\ ChosenFrom(i)
              /\ EffectiveGas(Transaction(sorted[i], gas[i])) <= gasPrice.low
    /\ Decide({})

\* The next iteration starts from nothing: the markets and the pool have moved on.
NextIteration ==
    /\ pc = "done"
    /\ pc' = "prices"
    /\ pool' = <<>>
    /\ gasPrice' = NoPrice
    /\ found' = [e \in Edges |-> 0]
    /\ estimate' = [e \in Edges |-> 0]
    /\ kept' = <<>>
    /\ sorted' = <<>>
    /\ gas' = <<>>
    /\ offer' = {}
    /\ UNCHANGED <<markets, todo, waiting>>

Next ==
    \/ \E content \in Pools : \E order \in Orders(DOMAIN content) : ReadPool(content, order)
    \/ NoPool
    \/ \E price \in Prices : ReadEstimate(price)
    \/ \E e \in todo, profit \in Profits : EvaluateEdge(e, profit)
    \/ \E order \in Orders(DOMAIN kept) : SortKept(order)
    \/ \E i \in waiting, answer \in GasEstimates \union {0} : Answer(i, answer)
    \/ \E i \in Results : Offer(i)
    \/ OfferNone
    \/ NextIteration

Spec == Init /\ [][Next]_vars

-----------------------------------------------------------------------------
TypeOK ==
    /\ pc \in {"prices", "fallback", "evaluate", "estimate", "done"}
    /\ markets \in [Edges -> 1 .. 2]
    /\ pool \in Pools
    /\ gasPrice \in GasPrices
    /\ todo \subseteq Edges
    /\ found \in [Edges -> Profits \union {0}]
    /\ estimate \in [Edges -> GasEstimates \union {0}]
    /\ kept \in Seq(Edges)
    /\ sorted \in Seq(Edges)
    /\ waiting \subseteq DOMAIN sorted
    /\ gas \in [DOMAIN sorted -> GasEstimates \union {0}]
    /\ \A p \in offer : p \in [edge : Edges, profit : Nat, payment : Nat, gas : GasEstimates]

\* The transactions of all edges that can be evaluated, pay and run: what a search
\* without workers, indices and sorts would choose from.
Candidates ==
    {Transaction(e, estimate[e]) :
        e \in {d \in Edges : markets[d] >= 2 /\ found[d] > MinProfit /\ estimate[d] > 0}}

\* Whatever the order in which workers push, and estimates fail or are answered, the
\* transaction offered is one that exists, with its own profit and gas, the best of
\* all candidates in payment per gas and of those in profit; there is none only if a
\* best one does not pay more than the pool.  The index that joins transactions with
\* crossed markets through two sorts and a filter (arbitrage.rs:475-503) is right.
ChoiceIsBest ==
    pc = "done" =>
        /\ \A p \in offer : IsFirstOf(p, Candidates) /\ EffectiveGas(p) > gasPrice.low
        /\ offer = {} => \/ Candidates = {}
                         \/ \E p \in Candidates : /\ IsFirstOf(p, Candidates)
                                                  /\ EffectiveGas(p) <= gasPrice.low

\* The price to beat is that of the last of the Limit highest pending transactions
\* (gas.rs:42-47): fewer than Limit of the pool pay as much as what is offered.
OutbidsAllButLimit ==
    \A p \in offer : Cardinality({t \in DOMAIN pool : pool[t] >= EffectiveGas(p)}) < Limit

\* The inductive invariant behind the two: kept and sorted list the same edges, each
\* once, an estimate is at the index of its edge, and the price read is one that
\* fewer than Limit are above.
KeptInv ==
    /\ todo \subseteq Evaluated
    /\ \A i, j \in DOMAIN kept : kept[i] = kept[j] => i = j
    /\ \A i \in DOMAIN kept : kept[i] \in Evaluated \ todo /\ found[kept[i]] > MinProfit
    /\ \A e \in Evaluated \ todo :
           found[e] > MinProfit => \E i \in DOMAIN kept : kept[i] = e
    /\ pc \in {"prices", "fallback"} => kept = <<>> /\ \A e \in Edges : found[e] = 0

SortedInv ==
    /\ \A i, j \in DOMAIN sorted :
           i < j => found[sorted[i]] >= found[sorted[j]] /\ sorted[i] # sorted[j]
    /\ \A i \in DOMAIN sorted : gas[i] = estimate[sorted[i]]
    /\ pc \in {"estimate", "done"} =>
           /\ todo = {}
           /\ \A e \in Edges : (\E i \in DOMAIN kept : kept[i] = e)
                                <=> (\E i \in DOMAIN sorted : sorted[i] = e)
    /\ pc \notin {"estimate", "done"} =>
           /\ sorted = <<>> /\ gas = <<>> /\ waiting = {}
           /\ \A e \in Edges : estimate[e] = 0

PoolInv ==
    /\ Cardinality({t \in DOMAIN pool : pool[t] > gasPrice.low}) < Limit
    /\ pc \in {"prices", "fallback"} => pool = <<>>

ChoiceInv ==
    /\ pc # "done" => offer = {}
    /\ pc = "done" => waiting = {}
    /\ ChoiceIsBest
=============================================================================

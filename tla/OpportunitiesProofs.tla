------------------------- MODULE OpportunitiesProofs -------------------------
(***************************************************************************)
(* Proofs about Opportunities, for any number of edges, any profits, gas   *)
(* estimates and pending transactions, and any Limit.                      *)
(***************************************************************************)
EXTENDS Opportunities, FiniteSetTheorems, SequenceTheorems, TLAPS

OfferType == [edge : Edges, profit : Nat, payment : Nat, gas : GasEstimates]

LEMMA FoundNat == TypeOK => \A e \in Edges : found[e] \in Nat
<1> SUFFICES ASSUME TypeOK, NEW e \in Edges PROVE found[e] \in Nat
  OBVIOUS
<1>1. Profits \subseteq Nat
  BY OpportunitiesAssumption
<1>2. found \in [Edges -> Profits \union {0}]
  BY DEF TypeOK
<1>3. found[e] \in Profits \/ found[e] = 0
  BY <1>2
<1>4. 0 \in Nat
  OBVIOUS
<1> QED
  BY <1>1, <1>3, <1>4, Zenon

\* A transaction that was estimated has a score.
LEMMA Score ==
    ASSUME TypeOK, NEW e \in Edges, NEW g \in GasEstimates
    PROVE  /\ Transaction(e, g) \in OfferType
           /\ Transaction(e, g).profit = found[e]
           /\ EffectiveGas(Transaction(e, g)) \in Nat
<1> DEFINE p == Transaction(e, g)
<1>1. found[e] \in Nat
  BY FoundNat
<1>2. Payment(found[e]) \in Nat
  BY <1>1 DEF Payment
<1>3. p.profit = found[e] /\ p.payment = Payment(found[e]) /\ p.gas = g /\ p.edge = e
  BY DEF Transaction
<1>4. p \in OfferType
  BY <1>1, <1>2 DEF Transaction, OfferType
<1>5. g \in Nat /\ g >= 90
  BY OpportunitiesAssumption
<1>6. EstimatedGas(p) \in Nat \ {0}
  BY <1>3, <1>5 DEF EstimatedGas
<1>7. (g \div 90) * 100 \in Nat \ {0}
  BY <1>5
<1>8. GasPrice(p) \in Nat
  BY <1>2, <1>3, <1>7 DEF GasPrice
<1>9. p.payment + EstimatedGas(p) * GasPrice(p) \in Nat
  BY <1>2, <1>3, <1>6, <1>8
<1>10. EffectiveGas(p) \in Nat
  BY <1>6, <1>9 DEF EffectiveGas
<1> QED
  BY <1>3, <1>4, <1>10

\* The prices are prices of the pool, and fewer than Limit are above the low one.
LEMMA PoolPrices ==
    ASSUME NEW content \in Pools, DOMAIN content # {},
           NEW order \in Orders(DOMAIN content), Descending(content, order)
    PROVE  /\ PricesFrom(content, order) \in GasPrices
           /\ Cardinality({t \in DOMAIN content :
                  content[t] > PricesFrom(content, order).low}) < Limit
<1> DEFINE S == DOMAIN content
           m == Cardinality(S)
           n == Smaller(Limit, m)
           T == {t \in S : content[t] > content[order[n]]}
           f == [i \in 1 .. (n - 1) |-> order[i]]
           I == {order[i] : i \in 1 .. (n - 1)}
<1>1. S \in SUBSET Pending /\ content \in [S -> Prices]
  BY DEF Pools
<1>2. IsFiniteSet(S) /\ m \in Nat /\ m > 0
  BY <1>1, OpportunitiesAssumption, FS_Subset, FS_CardinalityType, FS_EmptySet
<1>3. order \in [1 .. m -> S] /\ \A x \in S : \E i \in 1 .. m : order[i] = x
  BY DEF Orders
<1>4. Len(order) = m
  <2>1. DOMAIN order = 1 .. m /\ order \in Seq(S)
    BY <1>2, <1>3, SeqDef
  <2> QED
    BY <2>1, <1>2, LenProperties
<1>5. n \in 1 .. m /\ n <= Limit /\ n \div 2 + 1 \in 1 .. m /\ 1 \in 1 .. m
  BY <1>2, OpportunitiesAssumption DEF Smaller
<1>6. PricesFrom(content, order) =
        [ludicrous |-> 3 * content[order[1]], high |-> content[order[1]],
         medium |-> content[order[n \div 2 + 1]], low |-> content[order[n]]]
  BY <1>4 DEF PricesFrom, Remaining
<1>7. \A i \in 1 .. m : content[order[i]] \in Nat
  BY <1>1, <1>3, OpportunitiesAssumption
<1>8. PricesFrom(content, order) \in GasPrices
  BY <1>5, <1>6, <1>7 DEF GasPrices
<1>9. T \subseteq I
  <2> SUFFICES ASSUME NEW t \in T PROVE t \in I
    OBVIOUS
  <2>1. PICK i \in 1 .. m : order[i] = t
    BY <1>3
  <2>2. content[order[i]] > content[order[n]]
    BY <2>1
  <2>3. ~(n < i) /\ i # n
    BY <1>3, <1>5, <1>7, <2>2 DEF Descending
  <2>4. i \in 1 .. (n - 1)
    BY <1>5, <2>3
  <2> QED
    BY <2>1, <2>4
<1>10. f \in Surjection(1 .. (n - 1), I)
  BY DEF Surjection
<1>11. IsFiniteSet(1 .. (n - 1)) /\ Cardinality(1 .. (n - 1)) = n - 1
  <2>1. 1 \in Int /\ n - 1 \in Int
    BY <1>5
  <2>2. /\ IsFiniteSet(1 .. (n - 1))
        /\ Cardinality(1 .. (n - 1)) = IF 1 > n - 1 THEN 0 ELSE (n - 1) - 1 + 1
    BY <2>1, FS_Interval
  <2> QED
    BY <1>5, <2>2
<1> HIDE DEF I, f, T
<1>12. IsFiniteSet(I) /\ Cardinality(I) <= n - 1
  BY <1>10, <1>11, FS_Surjection
<1>13. Cardinality(T) <= Cardinality(I) /\ Cardinality(T) \in Nat /\ Cardinality(I) \in Nat
  BY <1>9, <1>12, FS_Subset, FS_CardinalityType
<1>14. Cardinality(T) < Limit
  BY <1>5, <1>12, <1>13, OpportunitiesAssumption
<1>15. PricesFrom(content, order).low = content[order[n]]
  BY <1>6
<1> QED
  BY <1>8, <1>14, <1>15 DEF T

\* A sort by profit lists the kept edges once each, highest profit first.
LEMMA SortLists ==
    ASSUME TypeOK, KeptInv, NEW order \in Orders(DOMAIN kept), SortKept(order)
    PROVE  /\ sorted' \in Seq(Edges)
           /\ DOMAIN sorted' = 1 .. Len(kept)
           /\ \A i, j \in DOMAIN sorted' :
                  i < j => found[sorted'[i]] >= found[sorted'[j]] /\ sorted'[i] # sorted'[j]
           /\ \A e \in Edges : (\E i \in DOMAIN kept : kept[i] = e)
                                <=> (\E i \in DOMAIN sorted' : sorted'[i] = e)
<1> DEFINE n == Len(kept)
<1>0. sorted' = [i \in 1 .. n |-> kept[order[i]]]
  BY DEF SortKept
<1>1. n \in Nat /\ DOMAIN kept = 1 .. n /\ kept \in [1 .. n -> Edges]
  BY LenProperties DEF TypeOK
<1>2. Cardinality(1 .. n) = n
  <2>1. 1 \in Int /\ n \in Int
    BY <1>1
  <2>2. Cardinality(1 .. n) = IF 1 > n THEN 0 ELSE n - 1 + 1
    BY <2>1, FS_Interval
  <2> QED
    BY <1>1, <2>2
<1>3. order \in [1 .. n -> 1 .. n] /\ \A x \in 1 .. n : \E i \in 1 .. n : order[i] = x
  BY <1>1, <1>2 DEF Orders
<1>4. \A e \in Edges : found[e] \in Nat
  BY FoundNat
<1>5. sorted' \in [1 .. n -> Edges]
  BY <1>0, <1>1, <1>3
<1>6. sorted' \in Seq(Edges) /\ DOMAIN sorted' = 1 .. n
  BY <1>1, <1>5, SeqDef
<1>7. ASSUME NEW i \in 1 .. n, NEW j \in 1 .. n, i < j
      PROVE  found[sorted'[i]] >= found[sorted'[j]] /\ sorted'[i] # sorted'[j]
  <2>1. /\ order[i] \in 1 .. n /\ order[j] \in 1 .. n
        /\ sorted'[i] = kept[order[i]] /\ sorted'[j] = kept[order[j]]
        /\ sorted'[i] \in Edges /\ sorted'[j] \in Edges
    BY <1>0, <1>3, <1>5
  <2>2. \/ found[sorted'[i]] > found[sorted'[j]]
        \/ found[sorted'[i]] = found[sorted'[j]] /\ order[i] < order[j]
    <3>1. \/ found[kept[order[i]]] > found[kept[order[j]]]
          \/ found[kept[order[i]]] = found[kept[order[j]]] /\ order[i] < order[j]
      BY <1>3, <1>7 DEF ByProfit, SortKept
    <3> QED
      BY <2>1, <3>1, Zenon
  <2>3. found[sorted'[i]] >= found[sorted'[j]]
    BY <1>4, <2>1, <2>2
  <2>4. order[i] # order[j]
    BY <1>4, <2>1, <2>2
  <2> QED
    BY <1>1, <2>1, <2>3, <2>4 DEF KeptInv
<1>8. \A e \in Edges : (\E i \in 1 .. n : kept[i] = e) <=> (\E i \in 1 .. n : sorted'[i] = e)
  BY <1>0, <1>3
<1> QED
  BY <1>1, <1>6, <1>7, <1>8

-----------------------------------------------------------------------------
IInv == TypeOK /\ KeptInv /\ SortedInv /\ PoolInv /\ ChoiceInv

\* Before the estimates are asked for, no list but kept holds anything.
Unsorted == sorted = <<>> /\ gas = <<>> /\ waiting = {} /\ offer = {}

LEMMA EmptyLists ==
    /\ <<>> \in Seq(Edges)
    /\ DOMAIN <<>> = {}
    /\ \A S : <<>> \in [{} -> S]
OBVIOUS

LEMMA InitInv == Init => IInv
<1> SUFFICES ASSUME Init PROVE IInv
  OBVIOUS
<1>1. pool \in Pools /\ DOMAIN pool = {}
  BY EmptyLists DEF Init, Pools
<1>2. TypeOK
  BY <1>1, EmptyLists DEF Init, TypeOK, NoPrice, GasPrices
<1>3. KeptInv
  BY EmptyLists, OpportunitiesAssumption DEF Init, KeptInv, Evaluated
<1>4. SortedInv
  BY EmptyLists DEF Init, SortedInv
<1>5. PoolInv
  <2>1. {t \in DOMAIN pool : pool[t] > gasPrice.low} = {}
    BY <1>1
  <2> QED
    BY <2>1, FS_EmptySet, OpportunitiesAssumption DEF Init, PoolInv
<1>6. ChoiceInv
  BY DEF Init, ChoiceInv, ChoiceIsBest
<1> QED
  BY <1>2, <1>3, <1>4, <1>5, <1>6 DEF IInv

\* What the two reads of the gas price have in common.
LEMMA BeginStep ==
    ASSUME IInv, BeginEvaluation, pc \in {"prices", "fallback"},
           gasPrice' \in GasPrices, pool' \in Pools,
           Cardinality({t \in DOMAIN pool' : pool'[t] > gasPrice'.low}) < Limit
    PROVE  IInv'
<1>1. TypeOK'
  BY DEF IInv, TypeOK, BeginEvaluation, Evaluated
<1>2. KeptInv'
  BY EmptyLists, OpportunitiesAssumption
     DEF IInv, TypeOK, KeptInv, BeginEvaluation, Evaluated
<1>3. SortedInv'
  BY DEF IInv, SortedInv, BeginEvaluation
<1>4. PoolInv'
  BY DEF PoolInv, BeginEvaluation
<1>5. ChoiceInv'
  BY DEF IInv, ChoiceInv, ChoiceIsBest, BeginEvaluation
<1> QED
  BY <1>1, <1>2, <1>3, <1>4, <1>5 DEF IInv

LEMMA ReadPoolStep ==
    ASSUME IInv, NEW content \in Pools, NEW order \in Orders(DOMAIN content),
           ReadPool(content, order)
    PROVE  IInv'
<1>1. pc = "prices" /\ DOMAIN content # {} /\ Descending(content, order) /\ pool' = content
      /\ gasPrice' = PricesFrom(content, order) /\ BeginEvaluation
  BY DEF ReadPool
<1>2. /\ gasPrice' \in GasPrices
      /\ Cardinality({t \in DOMAIN pool' : pool'[t] > gasPrice'.low}) < Limit
  BY <1>1, PoolPrices
<1> QED
  BY <1>1, <1>2, BeginStep

LEMMA NoPoolStep ==
    ASSUME IInv, NoPool
    PROVE  IInv'
<1>1. pc = "prices" /\ pc' = "fallback" /\ UNCHANGED <<markets, pool, gasPrice, todo, found,
          estimate, kept, sorted, waiting, gas, offer>>
  BY DEF NoPool
<1>2. TypeOK'
  BY <1>1 DEF IInv, TypeOK
<1>3. KeptInv'
  BY <1>1 DEF IInv, KeptInv, Evaluated
<1>4. SortedInv'
  BY <1>1 DEF IInv, SortedInv
<1>5. PoolInv'
  BY <1>1 DEF IInv, PoolInv
<1>6. ChoiceInv'
  BY <1>1 DEF IInv, ChoiceInv, ChoiceIsBest
<1> QED
  BY <1>2, <1>3, <1>4, <1>5, <1>6 DEF IInv

LEMMA ReadEstimateStep ==
    ASSUME IInv, NEW price \in Prices, ReadEstimate(price)
    PROVE  IInv'
<1>1. pc = "fallback" /\ BeginEvaluation /\ pool' = pool
      /\ gasPrice' = [ludicrous |-> price + price, high |-> price + 4,
                      medium |-> price + 2, low |-> price]
  BY DEF ReadEstimate
<1>2. price \in Nat
  BY OpportunitiesAssumption
<1>3. gasPrice' \in GasPrices
  BY <1>1, <1>2 DEF GasPrices
<1>4. pool = <<>> /\ pool \in Pools
  BY <1>1 DEF IInv, PoolInv, TypeOK
<1>5. {t \in DOMAIN pool' : pool'[t] > gasPrice'.low} = {}
  BY <1>1, <1>4, EmptyLists
<1>6. Cardinality({t \in DOMAIN pool' : pool'[t] > gasPrice'.low}) < Limit
  BY <1>5, FS_EmptySet, OpportunitiesAssumption
<1> QED
  BY <1>1, <1>3, <1>4, <1>6, BeginStep

LEMMA EvaluateEdgeStep ==
    ASSUME IInv, NEW e \in todo, NEW profit \in Profits, EvaluateEdge(e, profit)
    PROVE  IInv'
<1>1. /\ pc = "evaluate" /\ todo' = todo \ {e}
      /\ found' = [found EXCEPT ![e] = profit]
      /\ kept' = IF profit > MinProfit THEN Append(kept, e) ELSE kept
      /\ UNCHANGED <<markets, pc, pool, gasPrice, estimate, sorted, waiting, gas, offer>>
  BY DEF EvaluateEdge
<1>2. /\ kept \in Seq(Edges) /\ found \in [Edges -> Profits \union {0}]
      /\ todo \subseteq Edges /\ e \in Edges
  BY DEF IInv, TypeOK
<1>3. /\ found' \in [Edges -> Profits \union {0}] /\ found'[e] = profit
      /\ \A d \in Edges \ {e} : found'[d] = found[d]
  BY <1>1, <1>2
<1>4. /\ Append(kept, e) \in Seq(Edges)
      /\ DOMAIN Append(kept, e) = DOMAIN kept \union {Len(kept) + 1}
      /\ Append(kept, e)[Len(kept) + 1] = e
      /\ \A i \in DOMAIN kept : Append(kept, e)[i] = kept[i] /\ i # Len(kept) + 1
  <2>1. Len(kept) \in Nat /\ DOMAIN kept = 1 .. Len(kept)
    BY <1>2, LenProperties
  <2> QED
    BY <1>2, <2>1, AppendProperties
<1>5. TypeOK'
  BY <1>1, <1>2, <1>3, <1>4 DEF IInv, TypeOK
<1>6. KeptInv'
  <2>1. Evaluated' = Evaluated
    BY <1>1 DEF Evaluated
  <2>2. e \notin Evaluated \ todo /\ Evaluated \subseteq Edges
    BY DEF Evaluated
  <2>3. \A i \in DOMAIN kept : kept[i] # e /\ kept[i] \in Edges
    BY <1>2, <2>2 DEF IInv, KeptInv
  <2>4. \A i \in DOMAIN kept : kept[i] \in Evaluated \ todo' /\ found'[kept[i]] > MinProfit
    BY <1>1, <1>3, <2>3 DEF IInv, KeptInv
  <2>5. \A d \in Evaluated \ todo : found'[d] > MinProfit => \E i \in DOMAIN kept : kept[i] = d
    BY <1>3, <2>2 DEF IInv, KeptInv
  <2>6. CASE profit > MinProfit
    <3>1. kept' = Append(kept, e)
      BY <1>1, <2>6
    <3>2. e \in Evaluated
      BY DEF IInv, KeptInv
    <3> QED
      BY <1>1, <1>3, <1>4, <2>1, <2>2, <2>3, <2>4, <2>5, <2>6, <3>1, <3>2 DEF IInv, KeptInv
  <2>7. CASE ~(profit > MinProfit)
    BY <1>1, <1>3, <2>1, <2>2, <2>4, <2>5, <2>7 DEF IInv, KeptInv
  <2> QED
    BY <2>6, <2>7
<1>7. SortedInv'
  BY <1>1, EmptyLists DEF IInv, SortedInv
<1>8. PoolInv'
  BY <1>1 DEF IInv, PoolInv
<1>9. ChoiceInv'
  BY <1>1 DEF IInv, ChoiceInv, ChoiceIsBest
<1> QED
  BY <1>5, <1>6, <1>7, <1>8, <1>9 DEF IInv

LEMMA SortKeptStep ==
    ASSUME IInv, NEW order \in Orders(DOMAIN kept), SortKept(order)
    PROVE  IInv'
<1>1. /\ pc = "evaluate" /\ todo = {} /\ ByProfit(order)
      /\ sorted' = [i \in 1 .. Len(kept) |-> kept[order[i]]]
      /\ waiting' = 1 .. Len(kept)
      /\ gas' = [i \in 1 .. Len(kept) |-> 0]
      /\ pc' = "estimate"
      /\ UNCHANGED <<markets, pool, gasPrice, todo, found, estimate, kept, offer>>
  BY DEF SortKept
<1>2. /\ sorted' \in Seq(Edges)
      /\ DOMAIN sorted' = 1 .. Len(kept)
      /\ \A i, j \in DOMAIN sorted' :
             i < j => found[sorted'[i]] >= found[sorted'[j]] /\ sorted'[i] # sorted'[j]
      /\ \A e \in Edges : (\E i \in DOMAIN kept : kept[i] = e)
                            <=> (\E i \in DOMAIN sorted' : sorted'[i] = e)
  <2>1. TypeOK /\ KeptInv
    BY DEF IInv
  <2> QED
    BY <1>1, <2>1, SortLists
<1>3. gas' \in [DOMAIN sorted' -> GasEstimates \union {0}]
  BY <1>1, <1>2
<1>4. TypeOK'
  BY <1>1, <1>2, <1>3 DEF IInv, TypeOK
<1>5. KeptInv'
  BY <1>1 DEF IInv, KeptInv, Evaluated
<1>6. SortedInv'
  <2>1. \A i \in DOMAIN sorted' : sorted'[i] \in Edges
    BY <1>2
  <2>2. \A e \in Edges : estimate[e] = 0
    BY <1>1 DEF IInv, SortedInv
  <2>3. \A i \in DOMAIN sorted' : gas'[i] = estimate'[sorted'[i]]
    BY <1>1, <1>2, <2>1, <2>2
  <2> QED
    BY <1>1, <1>2, <2>3 DEF SortedInv
<1>7. PoolInv'
  BY <1>1 DEF IInv, PoolInv
<1>8. ChoiceInv'
  BY <1>1 DEF IInv, ChoiceInv, ChoiceIsBest
<1> QED
  BY <1>4, <1>5, <1>6, <1>7, <1>8 DEF IInv

LEMMA AnswerStep ==
    ASSUME IInv, NEW i \in waiting, NEW answer \in GasEstimates \union {0}, Answer(i, answer)
    PROVE  IInv'
<1>1. /\ pc = "estimate" /\ waiting' = waiting \ {i}
      /\ gas' = [gas EXCEPT ![i] = answer]
      /\ estimate' = [estimate EXCEPT ![sorted[i]] = answer]
      /\ UNCHANGED <<markets, pc, pool, gasPrice, todo, found, kept, sorted, offer>>
  BY DEF Answer
<1>2. /\ i \in DOMAIN sorted /\ sorted \in Seq(Edges)
      /\ gas \in [DOMAIN sorted -> GasEstimates \union {0}]
      /\ estimate \in [Edges -> GasEstimates \union {0}]
  BY DEF IInv, TypeOK
<1>3. DOMAIN sorted \subseteq Nat /\ \A j \in DOMAIN sorted : sorted[j] \in Edges
  BY <1>2
<1>4. TypeOK'
  BY <1>1, <1>2, <1>3 DEF IInv, TypeOK
<1>5. KeptInv'
  BY <1>1 DEF IInv, KeptInv, Evaluated
<1>6. SortedInv'
  <2>1. ASSUME NEW j \in DOMAIN sorted PROVE gas'[j] = estimate'[sorted[j]]
    <3>1. CASE j = i
      BY <1>1, <1>2, <1>3, <3>1
    <3>2. CASE j # i
      <4>1. sorted[j] # sorted[i]
        BY <1>2, <1>3, <3>2 DEF IInv, SortedInv
      <4> QED
        BY <1>1, <1>2, <1>3, <3>2, <4>1 DEF IInv, SortedInv
    <3> QED
      BY <3>1, <3>2
  <2> QED
    BY <1>1, <2>1 DEF IInv, SortedInv
<1>7. PoolInv'
  BY <1>1 DEF IInv, PoolInv
<1>8. ChoiceInv'
  BY <1>1 DEF IInv, ChoiceInv, ChoiceIsBest
<1> QED
  BY <1>4, <1>5, <1>6, <1>7, <1>8 DEF IInv

\* The candidates are the results: the two sorts and the index lose none.
LEMMA CandidatesAreResults ==
    ASSUME IInv, pc = "estimate"
    PROVE  Candidates = {Transaction(sorted[i], gas[i]) : i \in Results}
<1>1. /\ todo = {} /\ Evaluated \subseteq Edges
      /\ \A i \in DOMAIN sorted : sorted[i] \in Edges /\ gas[i] = estimate[sorted[i]]
      /\ \A e \in Edges : (\E i \in DOMAIN kept : kept[i] = e)
                            <=> (\E i \in DOMAIN sorted : sorted[i] = e)
  BY DEF IInv, SortedInv, TypeOK, Evaluated
<1>2. \A e \in Edges : (e \in Evaluated /\ found[e] > MinProfit)
                        <=> \E i \in DOMAIN sorted : sorted[i] = e
  BY <1>1 DEF IInv, KeptInv
<1>3. ASSUME NEW i \in Results PROVE Transaction(sorted[i], gas[i]) \in Candidates
  <2>1. /\ sorted[i] \in Evaluated /\ found[sorted[i]] > MinProfit
        /\ estimate[sorted[i]] > 0 /\ gas[i] = estimate[sorted[i]]
    BY <1>1, <1>2 DEF Results
  <2> QED
    BY <2>1 DEF Candidates, Evaluated
<1>4. ASSUME NEW e \in Evaluated, found[e] > MinProfit, estimate[e] > 0
      PROVE  \E i \in Results : Transaction(e, estimate[e]) = Transaction(sorted[i], gas[i])
  <2>1. PICK i \in DOMAIN sorted : sorted[i] = e
    BY <1>1, <1>2, <1>4
  <2>2. gas[i] = estimate[e] /\ i \in Results
    BY <1>1, <1>4, <2>1 DEF Results
  <2> QED
    BY <2>1, <2>2
<1> QED
  BY <1>3, <1>4 DEF Candidates, Evaluated

\* The index chosen holds a best candidate.
LEMMA ChosenIsFirst ==
    ASSUME IInv, pc = "estimate", NEW i \in Results, ChosenFrom(i)
    PROVE  IsFirstOf(Transaction(sorted[i], gas[i]), Candidates)
<1> DEFINE p(j) == Transaction(sorted[j], gas[j])
<1>1. Candidates = {p(j) : j \in Results}
  BY CandidatesAreResults
<1>2. Results \subseteq DOMAIN sorted /\ DOMAIN sorted \subseteq Nat
  BY DEF Results, IInv, TypeOK
<1>3. \A j \in DOMAIN sorted : found[sorted[j]] \in Nat /\ p(j).profit = found[sorted[j]]
  BY FoundNat DEF IInv, TypeOK, Transaction
<1>4. ASSUME NEW j \in Results
      PROVE  \/ PaymentPerGas(p(i)) > PaymentPerGas(p(j))
             \/ /\ PaymentPerGas(p(i)) = PaymentPerGas(p(j))
                /\ p(i).profit >= p(j).profit
  <2>1. \/ PaymentPerGas(p(i)) > PaymentPerGas(p(j))
        \/ PaymentPerGas(p(i)) = PaymentPerGas(p(j)) /\ i <= j
    BY DEF ChosenFrom
  <2>2. i <= j => found[sorted[i]] >= found[sorted[j]]
    <3>1. CASE i = j
      BY <1>2, <1>3, <3>1
    <3>2. CASE i # j
      BY <1>2, <3>2 DEF IInv, SortedInv
    <3> QED
      BY <3>1, <3>2
  <2>3. p(i).profit = found[sorted[i]] /\ p(j).profit = found[sorted[j]]
    BY <1>2, <1>3
  <2> HIDE DEF p
  <2> QED
    BY <2>1, <2>2, <2>3, Zenon
<1> HIDE DEF p
<1>5. p(i) \in Candidates
  BY <1>1
<1>6. IsFirstOf(p(i), Candidates)
  <2>1. ASSUME NEW q \in Candidates
        PROVE  \/ PaymentPerGas(p(i)) > PaymentPerGas(q)
               \/ PaymentPerGas(p(i)) = PaymentPerGas(q) /\ p(i).profit >= q.profit
    <3>1. PICK j \in Results : q = p(j)
      BY <1>1
    <3> QED
      BY <1>4, <3>1, Zenon
  <2> QED
    BY <1>5, <2>1, Zenon DEF IsFirstOf
<1> QED
  BY <1>6 DEF p

\* The two ends of a search: an index that is chosen, or no offer.
LEMMA DecideStep ==
    ASSUME IInv, NEW chosen, Decide(chosen), chosen \subseteq OfferType,
           \A p \in chosen : IsFirstOf(p, Candidates) /\ EffectiveGas(p) > gasPrice.low,
           chosen = {} => \/ Candidates = {}
                          \/ \E p \in Candidates : /\ IsFirstOf(p, Candidates)
                                                   /\ EffectiveGas(p) <= gasPrice.low
    PROVE  IInv'
<1>1. /\ pc = "estimate" /\ pc' = "done" /\ offer' = chosen
      /\ UNCHANGED <<markets, pool, gasPrice, todo, found, estimate, kept, sorted, waiting, gas>>
  BY DEF Decide
<1>2. Candidates' = Candidates
  BY <1>1 DEF Candidates, Evaluated, Transaction
<1>3. TypeOK'
  BY <1>1 DEF IInv, TypeOK, OfferType
<1>4. KeptInv'
  BY <1>1 DEF IInv, KeptInv, Evaluated
<1>5. SortedInv'
  BY <1>1 DEF IInv, SortedInv
<1>6. PoolInv'
  BY <1>1 DEF IInv, PoolInv
<1>7. ChoiceInv'
  BY <1>1, <1>2 DEF ChoiceInv, ChoiceIsBest, Decide
<1> QED
  BY <1>3, <1>4, <1>5, <1>6, <1>7 DEF IInv

LEMMA ResultType ==
    ASSUME IInv, NEW i \in Results
    PROVE  sorted[i] \in Edges /\ gas[i] \in GasEstimates
<1>1. i \in DOMAIN sorted /\ gas[i] > 0
  BY DEF Results
<1>2. gas[i] \in GasEstimates \/ gas[i] = 0
  BY <1>1 DEF IInv, TypeOK
<1> QED
  BY <1>1, <1>2 DEF IInv, TypeOK

LEMMA OfferStep ==
    ASSUME IInv, NEW i \in Results, Offer(i)
    PROVE  IInv'
<1> DEFINE p == Transaction(sorted[i], gas[i])
<1>1. ChosenFrom(i) /\ EffectiveGas(p) > gasPrice.low /\ Decide({p})
  BY DEF Offer
<1>2. p \in OfferType
  BY ResultType, Score DEF IInv
<1>3. IsFirstOf(p, Candidates)
  BY <1>1, ChosenIsFirst DEF Decide
<1> HIDE DEF p
<1> QED
  BY <1>1, <1>2, <1>3, DecideStep

LEMMA OfferNoneStep ==
    ASSUME IInv, OfferNone
    PROVE  IInv'
<1>1. Decide({}) /\ pc = "estimate"
  BY DEF OfferNone, Decide
<1>2. CASE Results = {}
  <2>1. Candidates = {}
    BY <1>1, <1>2, CandidatesAreResults
  <2> QED
    BY <1>1, <2>1, DecideStep
<1>3. CASE Results # {}
  <2>1. PICK i \in Results : /\ ChosenFrom(i)
                             /\ EffectiveGas(Transaction(sorted[i], gas[i])) <= gasPrice.low
    BY <1>3 DEF OfferNone
  <2>2. IsFirstOf(Transaction(sorted[i], gas[i]), Candidates)
    BY <1>1, <2>1, ChosenIsFirst
  <2>3. Transaction(sorted[i], gas[i]) \in Candidates
    BY <2>2 DEF IsFirstOf
  <2> QED
    BY <1>1, <2>1, <2>2, <2>3, DecideStep
<1> QED
  BY <1>2, <1>3

LEMMA NextIterationStep ==
    ASSUME IInv, NextIteration
    PROVE  IInv'
<1>1. /\ pc = "done" /\ pc' = "prices" /\ pool' = <<>> /\ gasPrice' = NoPrice
      /\ found' = [e \in Edges |-> 0] /\ estimate' = [e \in Edges |-> 0]
      /\ kept' = <<>> /\ sorted' = <<>> /\ gas' = <<>> /\ offer' = {}
      /\ UNCHANGED <<markets, todo, waiting>>
  BY DEF NextIteration
<1>2. todo = {} /\ waiting = {}
  BY <1>1 DEF IInv, SortedInv, ChoiceInv
<1>3. pool' \in Pools /\ DOMAIN pool' = {}
  BY <1>1, EmptyLists DEF Pools
<1>4. TypeOK'
  BY <1>1, <1>2, <1>3, EmptyLists DEF IInv, TypeOK, NoPrice, GasPrices
<1>5. KeptInv'
  BY <1>1, <1>2, EmptyLists, OpportunitiesAssumption DEF KeptInv, Evaluated
<1>6. SortedInv'
  BY <1>1, <1>2, EmptyLists DEF SortedInv
<1>7. PoolInv'
  <2>1. {t \in DOMAIN pool' : pool'[t] > gasPrice'.low} = {}
    BY <1>3
  <2> QED
    BY <1>1, <2>1, FS_EmptySet, OpportunitiesAssumption DEF PoolInv
<1>8. ChoiceInv'
  BY <1>1 DEF ChoiceInv, ChoiceIsBest
<1> QED
  BY <1>4, <1>5, <1>6, <1>7, <1>8 DEF IInv

LEMMA Stutter ==
    ASSUME IInv, UNCHANGED vars
    PROVE  IInv'
<1> USE DEF vars
<1>1. TypeOK'
  BY DEF IInv, TypeOK
<1>2. KeptInv'
  BY DEF IInv, KeptInv, Evaluated
<1>3. SortedInv'
  BY DEF IInv, SortedInv
<1>4. PoolInv'
  BY DEF IInv, PoolInv
<1>5. Candidates' = Candidates
  BY DEF Candidates, Evaluated, Transaction
<1>6. ChoiceInv'
  BY <1>5 DEF IInv, ChoiceInv, ChoiceIsBest
<1> QED
  BY <1>1, <1>2, <1>3, <1>4, <1>6 DEF IInv

\* The state of a search, through workers, sorts and estimates.
THEOREM SearchInvariant == Spec => []IInv
<1>1. IInv /\ [Next]_vars => IInv'
  <2> SUFFICES ASSUME IInv, [Next]_vars PROVE IInv'
    OBVIOUS
  <2>1. CASE \E content \in Pools : \E order \in Orders(DOMAIN content) : ReadPool(content, order)
    BY <2>1, ReadPoolStep
  <2>2. CASE NoPool
    BY <2>2, NoPoolStep
  <2>3. CASE \E price \in Prices : ReadEstimate(price)
    BY <2>3, ReadEstimateStep
  <2>4. CASE \E e \in todo, profit \in Profits : EvaluateEdge(e, profit)
    BY <2>4, EvaluateEdgeStep
  <2>5. CASE \E order \in Orders(DOMAIN kept) : SortKept(order)
    BY <2>5, SortKeptStep
  <2>6. CASE \E i \in waiting, answer \in GasEstimates \union {0} : Answer(i, answer)
    BY <2>6, AnswerStep
  <2>7. CASE \E i \in Results : Offer(i)
    BY <2>7, OfferStep
  <2>8. CASE OfferNone
    BY <2>8, OfferNoneStep
  <2>9. CASE NextIteration
    BY <2>9, NextIterationStep
  <2>10. CASE UNCHANGED vars
    BY <2>10, Stutter
  <2> QED
    BY <2>1, <2>2, <2>3, <2>4, <2>5, <2>6, <2>7, <2>8, <2>9, <2>10 DEF Next
<1> QED
  BY <1>1, InitInv, PTL DEF Spec

\* Type correctness of the search over all edges.
THEOREM OpportunitiesTypeCorrect == Spec => []TypeOK
<1>1. IInv => TypeOK
  BY DEF IInv
<1> QED
  BY <1>1, SearchInvariant, PTL

\* For any number of edges, and whatever the order in which workers push and
\* estimates are answered or fail, the transaction offered is a best candidate.
THEOREM BestIsChosen == Spec => []ChoiceIsBest
<1>1. IInv => ChoiceIsBest
  BY DEF IInv, ChoiceInv
<1> QED
  BY <1>1, SearchInvariant, PTL

\* For any pool and any Limit, fewer than Limit pending transactions pay as much as
\* the transaction offered.
THEOREM OfferOutbids == Spec => []OutbidsAllButLimit
<1>1. IInv => OutbidsAllButLimit
  <2> SUFFICES ASSUME IInv, NEW p \in offer
               PROVE  Cardinality({t \in DOMAIN pool : pool[t] >= EffectiveGas(p)}) < Limit
    BY DEF OutbidsAllButLimit
  <2> DEFINE S == {t \in DOMAIN pool : pool[t] >= EffectiveGas(p)}
             T == {t \in DOMAIN pool : pool[t] > gasPrice.low}
  <2>1. pc = "done" /\ EffectiveGas(p) > gasPrice.low /\ IsFirstOf(p, Candidates)
    BY DEF IInv, ChoiceInv, ChoiceIsBest
  <2>2. PICK e \in Edges : p = Transaction(e, estimate[e]) /\ estimate[e] > 0
    BY <2>1 DEF IsFirstOf, Candidates, Evaluated
  <2>3. estimate[e] \in GasEstimates
    <3>1. estimate[e] \in GasEstimates \/ estimate[e] = 0
      BY DEF IInv, TypeOK
    <3> QED
      BY <2>2, <3>1
  <2>4. EffectiveGas(p) \in Nat
    BY <2>2, <2>3, Score DEF IInv
  <2>5. gasPrice.low \in Nat
    BY DEF IInv, TypeOK, GasPrices
  <2>6. PICK U \in SUBSET Pending : pool \in [U -> Prices]
    BY DEF IInv, TypeOK, Pools
  <2>7. \A t \in DOMAIN pool : pool[t] \in Nat
    BY <2>6, OpportunitiesAssumption
  <2>8. S \subseteq T /\ T \subseteq U
    BY <2>1, <2>4, <2>5, <2>6, <2>7
  <2>9. IsFiniteSet(U)
    BY <2>6, FS_Subset, OpportunitiesAssumption
  <2>10. Cardinality(T) < Limit
    BY DEF IInv, PoolInv
  <2> HIDE DEF S, T
  <2>11. IsFiniteSet(T) /\ Cardinality(S) <= Cardinality(T)
    BY <2>8, <2>9, FS_Subset
  <2>12. Cardinality(S) \in Nat /\ Cardinality(T) \in Nat /\ Limit \in Nat
    BY <2>8, <2>11, FS_Subset, FS_CardinalityType, OpportunitiesAssumption
  <2>13. Cardinality(S) < Limit
    BY <2>10, <2>11, <2>12
  <2> QED
    BY <2>13 DEF S
<1> QED
  BY <1>1, SearchInvariant, PTL
=============================================================================

------------------------ MODULE PairDiscoveryProofs ------------------------
(***************************************************************************)
(* Theorems about PairDiscovery, for any number of factories and pairs and *)
(* any size and number of batches.                                         *)
(***************************************************************************)
EXTENDS PairDiscovery, FiniteSetTheorems, SequenceTheorems, TLAPS

\* A batch starts at a multiple of the size; the next one starts where it ends.
LEMMA BatchStart ==
    ASSUME NEW n \in Nat, NEW k \in 1 .. n, k <= BatchSize * BatchLimit
    PROVE  /\ ((k - 1) \div BatchSize) * BatchSize \in Batches(n)
           /\ ((k - 1) \div BatchSize) * BatchSize < k
           /\ k <= ((k - 1) \div BatchSize) * BatchSize + BatchSize
<1> DEFINE q == (k - 1) \div BatchSize
           r == (k - 1) % BatchSize
<1>1. BatchSize \in Nat /\ BatchSize > 0 /\ BatchLimit \in Nat /\ BatchLimit > 0
      BY DiscoveryAssumption
<1>2. q \in Nat /\ r \in 0 .. BatchSize - 1 /\ k - 1 = BatchSize * q + r
      BY <1>1
<1>3. BatchSize * q = q * BatchSize
      BY <1>1, <1>2
<1> HIDE DEF q, r
<1>4. q * BatchSize < k /\ k <= q * BatchSize + BatchSize
      BY <1>1, <1>2, <1>3
<1>5. q < BatchLimit
  <2>1. SUFFICES ASSUME q >= BatchLimit PROVE FALSE
        BY <1>1, <1>2
  <2>2. BatchSize * q >= BatchSize * BatchLimit
        BY <1>1, <1>2, <2>1
  <2> QED BY <2>2, <1>1, <1>2
<1>6. q \in 0 .. BatchLimit - 1
      BY <1>1, <1>2, <1>5
<1>7. q * BatchSize \in Batches(n)
      BY <1>4, <1>6, <1>1, <1>2 DEF Batches, Starts
<1> QED BY <1>4, <1>7 DEF q

\* The ranges of two batches do not overlap.
LEMMA OneBatch ==
    ASSUME NEW s \in Starts, NEW t \in Starts, NEW k \in Nat,
           s < k, k <= s + BatchSize, t < k, k <= t + BatchSize
    PROVE  s = t
<1>1. BatchSize \in Nat /\ BatchSize > 0
  BY DiscoveryAssumption
<1>2. PICK a \in 0 .. BatchLimit - 1 : s = a * BatchSize
  BY DEF Starts
<1>3. PICK b \in 0 .. BatchLimit - 1 : t = b * BatchSize
  BY DEF Starts
<1>4. a \in Nat /\ b \in Nat
  BY DiscoveryAssumption
<1>5. ASSUME NEW x \in Nat, NEW y \in Nat, x < y
      PROVE  x * BatchSize + BatchSize <= y * BatchSize
  <2>1. y = x + 1 + (y - x - 1) /\ y - x - 1 \in Nat
    BY <1>5
  <2>2. ASSUME NEW z \in Nat
        PROVE  (x + 1 + z) * BatchSize = x * BatchSize + BatchSize + z * BatchSize
               /\ z * BatchSize >= 0
    BY <1>1, <1>5
  <2> QED
    BY <2>1, <2>2, <1>1, <1>5
<1>6. ~(a < b)
  BY <1>1, <1>2, <1>3, <1>4, <1>5
<1>7. ~(b < a)
  BY <1>1, <1>2, <1>3, <1>4, <1>5
<1> QED
  BY <1>2, <1>3, <1>4, <1>6, <1>7

\* Every pair that a factory has when it is counted, as far as the batches reach,
\* is in the range of one of them, and of one only: what get_uniswappy_markets asks
\* for has neither a hole nor an overlap, wherever the count falls in a batch.
THEOREM BatchesPartition ==
    ASSUME NEW n \in Nat, NEW k \in 1 .. n, k <= BatchSize * BatchLimit
    PROVE  /\ \E s \in Batches(n) : s < k /\ k <= s + BatchSize
           /\ \A s, t \in Batches(n) :
                 (s < k /\ k <= s + BatchSize) /\ (t < k /\ k <= t + BatchSize) => s = t
<1>1. \E s \in Batches(n) : s < k /\ k <= s + BatchSize
  BY BatchStart
<1>2. Batches(n) \subseteq Starts /\ k \in Nat
  BY DEF Batches
<1> QED
  BY <1>1, <1>2, OneBatch

-----------------------------------------------------------------------------
\* The lists of the factories after a pair is created: one of them is longer by it.
LEMMA ListsGrow ==
    ASSUME TypeOK, NEW f \in Factory, NEW t \in Edge, CreatePair(f, t)
    PROVE  /\ factories' \in [Factory -> Seq(Pair)]
           /\ created' = created + 1 /\ created \in Nat
           /\ \A g \in Factory : /\ DOMAIN factories[g] = 1 .. Len(factories[g])
                                 /\ Len(factories[g]) \in Nat
                                 /\ Len(factories[g]) <= Len(factories'[g])
           /\ \A g \in Factory : \A k \in DOMAIN factories[g] :
                  k \in DOMAIN factories'[g] /\ factories'[g][k] = factories[g][k]
           /\ \A g \in Factory : \A k \in DOMAIN factories'[g] \ DOMAIN factories[g] :
                  g = f /\ k = Len(factories[f]) + 1 /\ factories'[g][k].number = created + 1
<1> DEFINE new == [number |-> created + 1, tokens |-> t]
           longer == Append(factories[f], new)
<1>1. created \in Nat /\ factories \in [Factory -> Seq(Pair)] /\ new \in Pair
  <2>1. created \in Nat /\ factories \in [Factory -> Seq(Pair)] /\ created + 1 \in Nat
    BY DEF TypeOK
  <2> QED
    BY <2>1 DEF Pair
<1>2. factories' = [factories EXCEPT ![f] = longer] /\ created' = created + 1
  BY DEF CreatePair
<1>6. new.number = created + 1
  OBVIOUS
<1> HIDE DEF new
<1>3. /\ factories[f] \in Seq(Pair) /\ longer \in Seq(Pair)
      /\ Len(factories[f]) \in Nat /\ Len(longer) = Len(factories[f]) + 1
      /\ DOMAIN factories[f] = 1 .. Len(factories[f]) /\ DOMAIN longer = 1 .. Len(longer)
      /\ \A k \in 1 .. Len(factories[f]) : longer[k] = factories[f][k]
      /\ longer[Len(factories[f]) + 1] = new
  BY <1>1, AppendProperties
<1> HIDE DEF longer
<1>4. factories' \in [Factory -> Seq(Pair)]
  BY <1>1, <1>2, <1>3
<1>5. ASSUME NEW g \in Factory
      PROVE  /\ DOMAIN factories[g] = 1 .. Len(factories[g])
             /\ Len(factories[g]) \in Nat
             /\ Len(factories[g]) <= Len(factories'[g])
             /\ \A k \in DOMAIN factories[g] :
                    k \in DOMAIN factories'[g] /\ factories'[g][k] = factories[g][k]
             /\ \A k \in DOMAIN factories'[g] \ DOMAIN factories[g] :
                    g = f /\ k = Len(factories[f]) + 1 /\ factories'[g][k].number = created + 1
  <2>1. CASE g = f
    <3>1. factories'[g] = longer
      BY <1>1, <1>2, <2>1
    <3>2. /\ Len(factories[f]) <= Len(longer)
          /\ \A k \in 1 .. Len(longer) : k \in 1 .. Len(factories[f]) \/ k = Len(factories[f]) + 1
          /\ \A k \in 1 .. Len(factories[f]) : k \in 1 .. Len(longer)
      BY <1>3
    <3> QED
      BY <1>3, <1>6, <2>1, <3>1, <3>2, Zenon
  <2>2. CASE g # f
    <3>1. factories'[g] = factories[g] /\ factories[g] \in Seq(Pair)
      BY <1>1, <1>2, <2>2
    <3> QED
      BY <3>1
  <2> QED
    BY <2>1, <2>2
<1> QED
  BY <1>1, <1>2, <1>4, <1>5

\* And after one is taken away.
LEMMA ListsShrink ==
    ASSUME TypeOK, NEW f \in Factory, TakePair(f)
    PROVE  /\ factories' \in [Factory -> Seq(Pair)]
           /\ reorgs' \in Nat /\ reorgs' # 0
           /\ \A g \in Factory : \A k \in DOMAIN factories'[g] :
                  k \in DOMAIN factories[g] /\ factories'[g][k] = factories[g][k]
<1>1. factories[f] \in Seq(Pair) /\ factories[f] # <<>> /\ factories \in [Factory -> Seq(Pair)]
  BY DEF TypeOK, TakePair
<1> DEFINE n == Len(factories[f]) - 1
           shorter == SubSeq(factories[f], 1, n)
<1>2. n \in Nat /\ Len(factories[f]) \in Nat /\ DOMAIN factories[f] = 1 .. Len(factories[f])
  BY <1>1
<1>3. /\ shorter \in Seq(Pair)
      /\ \A k \in DOMAIN shorter : k \in DOMAIN factories[f] /\ shorter[k] = factories[f][k]
  BY <1>1, <1>2
<1>4. factories' = [factories EXCEPT ![f] = shorter]
  BY DEF TakePair
<1> HIDE DEF shorter
<1>5. ASSUME NEW g \in Factory, NEW k \in DOMAIN factories'[g]
      PROVE  k \in DOMAIN factories[g] /\ factories'[g][k] = factories[g][k]
  BY <1>1, <1>3, <1>4, <1>5
<1> QED
  BY <1>1, <1>3, <1>4, <1>5 DEF TypeOK, TakePair

\* The two other markets.
LEMMA OtherMarkets ==
    /\ WethEth \in Pair /\ CethEth \in Pair /\ WethEth # CethEth
    /\ WethEth.number = 0 /\ CethEth.number = 0
<1>1. ASSUME NEW a, NEW b, a # b PROVE Cardinality({a, b}) = 2
  <2>1. IsFiniteSet({a}) /\ Cardinality({a}) = 1
    BY FS_Singleton
  <2>2. Cardinality({a} \union {b}) = Cardinality({a}) + 1
    BY <1>1, <2>1, FS_AddElement
  <2>3. {a} \union {b} = {a, b}
    OBVIOUS
  <2> QED
    BY <2>1, <2>2, <2>3
<1>2. {Eth, Weth} \in Edge /\ {Eth, Ceth} \in Edge /\ {Eth, Weth} # {Eth, Ceth}
  <2>1. {Eth, Weth} \subseteq Tradable \union {Ceth} /\ {Eth, Ceth} \subseteq Tradable \union {Ceth}
    BY DEF Tradable
  <2> QED
    BY <1>1, <2>1, DiscoveryAssumption DEF Edge
<1> QED
  BY <1>2 DEF WethEth, CethEth, Pair

\* What a market that is pushed does to a graph.
LEMMA PushFacts ==
    ASSUME NEW g, DOMAIN g \subseteq Edge, \A e \in DOMAIN g : g[e] \in Seq(Pair),
           NEW m \in Pair, NEW h, h = Push(g, m)
    PROVE  /\ DOMAIN h \subseteq Edge /\ \A e \in DOMAIN h : h[e] \in Seq(Pair)
           /\ MarketsOf(h) = MarketsOf(g) \union {m}
           /\ EachOnce(g) /\ m \notin MarketsOf(g) => EachOnce(h)
<1> DEFINE t == m.tokens
           old == IF t \in DOMAIN g THEN g[t] ELSE <<>>
           w == WithEdge(g, t)
<1>1. t \in Edge
  BY DEF Pair
<1>2. /\ w = [e \in DOMAIN g \union {t} |-> IF e \in DOMAIN g THEN g[e] ELSE <<>>]
      /\ h = [w EXCEPT ![t] = Append(@, m)]
  BY DEF WithEdge, Push
<1> HIDE DEF w, t
<1>3. /\ DOMAIN h = DOMAIN g \union {t}
      /\ h[t] = Append(old, m)
      /\ \A e \in DOMAIN h \ {t} : e \in DOMAIN g /\ h[e] = g[e]
  BY <1>2
<1>4. old \in Seq(Pair) /\ (t \notin DOMAIN g => old = <<>>) /\ (t \in DOMAIN g => old = g[t])
  BY EmptySeq
<1> HIDE DEF old
<1>5. /\ h[t] \in Seq(Pair) /\ Len(h[t]) = Len(old) + 1 /\ Len(old) \in Nat
      /\ h[t][Len(old) + 1] = m
      /\ DOMAIN old = 1 .. Len(old) /\ DOMAIN h[t] = 1 .. Len(old) + 1
      /\ \A n \in 1 .. Len(old) : h[t][n] = old[n]
  BY <1>3, <1>4, AppendProperties
<1>6. DOMAIN h \subseteq Edge /\ \A e \in DOMAIN h : h[e] \in Seq(Pair)
  BY <1>1, <1>3, <1>5
<1>7. MarketsOf(h) \subseteq MarketsOf(g) \union {m}
  <2> SUFFICES ASSUME NEW e \in DOMAIN h, NEW n \in DOMAIN h[e], h[e][n] # m
               PROVE  h[e][n] \in MarketsOf(g)
    BY DEF MarketsOf
  <2>1. CASE e # t
    BY <1>3, <2>1 DEF MarketsOf
  <2>2. CASE e = t
    <3>1. n \in 1 .. Len(old) /\ h[e][n] = old[n]
      BY <1>5, <2>2
    <3>2. t \in DOMAIN g
      BY <1>4, <3>1
    <3> QED
      BY <1>4, <1>5, <3>1, <3>2 DEF MarketsOf
  <2> QED
    BY <2>1, <2>2
<1>8. m \in MarketsOf(h)
  <2>1. t \in DOMAIN h /\ Len(old) + 1 \in DOMAIN h[t]
    BY <1>3, <1>5
  <2> QED
    BY <1>5, <2>1 DEF MarketsOf
<1>9. MarketsOf(g) \subseteq MarketsOf(h)
  <2> SUFFICES ASSUME NEW e \in DOMAIN g, NEW n \in DOMAIN g[e]
               PROVE  g[e][n] \in MarketsOf(h)
    BY DEF MarketsOf
  <2>1. e \in DOMAIN h
    BY <1>3
  <2>2. n \in DOMAIN h[e] /\ h[e][n] = g[e][n]
    <3>1. CASE e # t
      BY <1>3, <1>6, <2>1, <3>1
    <3>2. CASE e = t
      BY <1>4, <1>5, <3>2
    <3> QED
      BY <3>1, <3>2
  <2> QED
    BY <2>1, <2>2 DEF MarketsOf
<1>10. ASSUME EachOnce(g), m \notin MarketsOf(g) PROVE EachOnce(h)
  <2> SUFFICES ASSUME NEW e \in DOMAIN h, NEW n \in DOMAIN h[e]
               PROVE  /\ h[e][n].tokens = e
                      /\ \A k \in DOMAIN h[e] : h[e][k] = h[e][n] => k = n
    BY DEF EachOnce
  <2>1. CASE e # t
    BY <1>3, <1>10, <2>1 DEF EachOnce
  <2>2. CASE e = t
    <3>1. ASSUME NEW k \in 1 .. Len(old)
          PROVE  /\ h[t][k] # m /\ h[t][k].tokens = t
                 /\ \A l \in 1 .. Len(old) : h[t][l] = h[t][k] => l = k
      <4>1. t \in DOMAIN g /\ old = g[t]
        BY <1>4, <3>1
      <4>2. g[t][k] \in MarketsOf(g)
        BY <1>5, <4>1 DEF MarketsOf
      <4> QED
        BY <1>5, <1>10, <4>1, <4>2 DEF EachOnce
    <3>2. \A k \in DOMAIN h[t] : k \in 1 .. Len(old) \/ k = Len(old) + 1
      BY <1>5
    <3>3. m.tokens = t
      BY DEF t
    <3> QED
      BY <1>5, <2>2, <3>1, <3>2, <3>3
  <2> QED
    BY <2>1, <2>2
<1> QED
  BY <1>6, <1>7, <1>8, <1>9, <1>10

-----------------------------------------------------------------------------
LEMMA TypesStep ==
    ASSUME TypeOK, StagesInv, [Next]_vars
    PROVE  TypeOK'
<1> USE DEF TypeOK, factoryVars
<1>1. ASSUME NEW f \in Factory, NEW t \in Edge, CreatePair(f, t)
      PROVE  TypeOK'
  <2>1. factories' \in [Factory -> Seq(Pair)] /\ created' \in Nat
    BY <1>1, ListsGrow
  <2> QED
    BY <1>1, <2>1 DEF CreatePair
<1>2. ASSUME NEW f \in Factory, TakePair(f)
      PROVE  TypeOK'
  <2>1. factories' \in [Factory -> Seq(Pair)] /\ reorgs' \in Nat
    BY <1>2, ListsShrink
  <2> QED
    BY <1>2, <2>1 DEF TakePair
<1>3. CASE CountPairs
  <2>1. /\ current \in Factory /\ factories[current] \in Seq(Pair)
        /\ present' = [present EXCEPT ![current] = {factories[current][k] : k \in DOMAIN factories[current]}]
        /\ asked' \subseteq Starts
    BY <1>3 DEF CountPairs, Batches
  <2>2. {factories[current][k] : k \in DOMAIN factories[current]} \subseteq Pair
    BY <2>1
  <2>3. present' \in [Factory -> SUBSET Pair]
    BY <2>1, <2>2
  <2> QED
    BY <1>3, <2>1, <2>3 DEF CountPairs
<1>4. ASSUME NEW start \in asked, AnswerBatch(start)
      PROVE  TypeOK'
  <2>1. current \in Factory /\ factories[current] \in Seq(Pair)
    BY <1>4 DEF AnswerBatch, StagesInv
  <2>2. \A p \in PairsOf(factories[current], start) : p \in Pair
    BY <2>1 DEF PairsOf
  <2>3. \A m \in found' : m.market \in Pair
    BY <1>4, <2>2 DEF AnswerBatch
  <2> QED
    BY <1>4, <2>3 DEF AnswerBatch
<1>5. CASE QueryFails
  BY <1>5 DEF QueryFails
<1>6. CASE NextFactory
  <2>1. current \in Factory
    BY <1>6 DEF NextFactory, StagesInv
  <2>2. current' \in 1 .. NumFactories + 1
    BY <1>6, <2>1, DiscoveryAssumption DEF NextFactory, Factory
  <2> QED
    BY <1>6, <2>2 DEF NextFactory
<1>7. ASSUME NEW m \in found, Insert(m)
      PROVE  TypeOK'
  <2>1. m.market \in Pair /\ graph' = Push(graph, m.market)
    BY <1>7 DEF Insert
  <2>2. DOMAIN graph' \subseteq Edge /\ \A e \in DOMAIN graph' : graph'[e] \in Seq(Pair)
    BY <2>1, PushFacts
  <2> QED
    BY <1>7, <2>2 DEF Insert
<1>8. CASE InsertOthers
  <2> DEFINE g == Push(graph, WethEth)
  <2>1. DOMAIN g \subseteq Edge /\ \A e \in DOMAIN g : g[e] \in Seq(Pair)
    BY OtherMarkets, PushFacts
  <2>2. graph' = Push(g, CethEth)
    BY <1>8 DEF InsertOthers
  <2> HIDE DEF g
  <2>3. DOMAIN graph' \subseteq Edge /\ \A e \in DOMAIN graph' : graph'[e] \in Seq(Pair)
    BY <2>1, <2>2, OtherMarkets, PushFacts
  <2> QED
    BY <1>8, <2>3 DEF InsertOthers
<1>9. CASE UNCHANGED vars
  BY <1>9 DEF vars
<1> QED
  BY <1>1, <1>2, <1>3, <1>4, <1>5, <1>6, <1>7, <1>8, <1>9 DEF Next

LEMMA StagesStep ==
    ASSUME TypeOK, StagesInv, [Next]_vars
    PROVE  StagesInv'
<1> USE DEF StagesInv, factoryVars
<1>1. ASSUME NEW f \in Factory, NEW t \in Edge, CreatePair(f, t)
      PROVE  StagesInv'
  BY <1>1 DEF CreatePair
<1>2. ASSUME NEW f \in Factory, TakePair(f)
      PROVE  StagesInv'
  BY <1>2 DEF TakePair
<1>3. CASE CountPairs
  BY <1>3 DEF CountPairs
<1>4. ASSUME NEW start \in asked, AnswerBatch(start)
      PROVE  StagesInv'
  BY <1>4 DEF AnswerBatch
<1>5. CASE QueryFails
  BY <1>5 DEF QueryFails
<1>6. CASE NextFactory
  BY <1>6 DEF NextFactory
<1>7. ASSUME NEW m \in found, Insert(m)
      PROVE  StagesInv'
  BY <1>7 DEF Insert
<1>8. CASE InsertOthers
  BY <1>8 DEF InsertOthers
<1>9. CASE UNCHANGED vars
  BY <1>9 DEF vars
<1> QED
  BY <1>1, <1>2, <1>3, <1>4, <1>5, <1>6, <1>7, <1>8, <1>9 DEF Next

LEMMA RangesStep ==
    ASSUME TypeOK, StagesInv, RangesAreAccepted, [Next]_vars
    PROVE  RangesAreAccepted'
<1> USE DEF RangesAreAccepted, factoryVars
<1>1. ASSUME NEW f \in Factory, NEW t \in Edge, CreatePair(f, t)
      PROVE  RangesAreAccepted'
  <2> SUFFICES ASSUME pc = "query", reorgs = 0, NEW start \in asked
               PROVE  start <= Len(factories'[current])
    BY <1>1 DEF CreatePair
  <2>1. current \in Factory /\ start \in Starts
    BY DEF StagesInv, TypeOK
  <2>2. /\ Len(factories[current]) \in Nat /\ Len(factories[current]) <= Len(factories'[current])
        /\ factories'[current] \in Seq(Pair)
    BY <1>1, <2>1, ListsGrow
  <2>3. start \in Int
    BY <2>1, DiscoveryAssumption DEF Starts
  <2>4. start <= Len(factories[current]) /\ Len(factories'[current]) \in Nat
    BY <2>2
  <2> QED
    BY <2>2, <2>3, <2>4
<1>2. ASSUME NEW f \in Factory, TakePair(f)
      PROVE  RangesAreAccepted'
  BY <1>2, ListsShrink
<1>3. CASE CountPairs
  BY <1>3 DEF CountPairs, Batches
<1>4. ASSUME NEW start \in asked, AnswerBatch(start)
      PROVE  RangesAreAccepted'
  BY <1>4 DEF AnswerBatch
<1>5. CASE QueryFails
  BY <1>5 DEF QueryFails
<1>6. CASE NextFactory
  BY <1>6 DEF NextFactory
<1>7. ASSUME NEW m \in found, Insert(m)
      PROVE  RangesAreAccepted'
  BY <1>7 DEF Insert
<1>8. CASE InsertOthers
  BY <1>8 DEF InsertOthers
<1>9. CASE UNCHANGED vars
  BY <1>9 DEF vars
<1> QED
  BY <1>1, <1>2, <1>3, <1>4, <1>5, <1>6, <1>7, <1>8, <1>9 DEF Next

LEMMA NumbersStep ==
    ASSUME TypeOK, NumbersInv, [Next]_vars
    PROVE  NumbersInv'
<1> USE DEF factoryVars
<1>1. ASSUME NEW f \in Factory, NEW t \in Edge, CreatePair(f, t)
      PROVE  NumbersInv'
  <2>1. /\ created' = created + 1 /\ created \in Nat
        /\ \A g \in Factory : \A k \in DOMAIN factories'[g] :
               \/ k \in DOMAIN factories[g] /\ factories'[g][k] = factories[g][k]
               \/ g = f /\ k = Len(factories[f]) + 1 /\ factories'[g][k].number = created + 1
    BY <1>1, ListsGrow
  <2>2. \A g \in Factory : \A k \in DOMAIN factories[g] :
            factories[g][k].number \in 1 .. created /\ factories[g][k].number # created + 1
    BY <2>1 DEF NumbersInv
  <2>3. \A g \in Factory : \A k \in DOMAIN factories'[g] : factories'[g][k].number \in 1 .. created'
    BY <2>1, <2>2
  <2>4. ASSUME NEW g \in Factory, NEW h \in Factory,
               NEW k \in DOMAIN factories'[g], NEW n \in DOMAIN factories'[h],
               factories'[g][k].number = factories'[h][n].number
        PROVE  g = h /\ k = n
    BY <2>1, <2>2, <2>4 DEF NumbersInv
  <2>5. ASSUME NEW g \in Factory, NEW p \in present'[g] PROVE p.number <= created'
    <3>1. p \in present[g] /\ present[g] \subseteq Pair
      BY <1>1, <2>5 DEF CreatePair, TypeOK
    <3>2. p.number \in Nat /\ p.number <= created
      BY <3>1 DEF Pair, NumbersInv
    <3> QED
      BY <2>1, <3>2
  <2> QED
    BY <2>3, <2>4, <2>5 DEF NumbersInv
<1>2. ASSUME NEW f \in Factory, TakePair(f)
      PROVE  NumbersInv'
  <2>1. \A g \in Factory : \A k \in DOMAIN factories'[g] :
            k \in DOMAIN factories[g] /\ factories'[g][k] = factories[g][k]
    BY <1>2, ListsShrink
  <2>2. created' = created /\ present' = present
    BY <1>2 DEF TakePair
  <2> QED
    BY <2>1, <2>2 DEF NumbersInv
<1>3. CASE CountPairs
  <2>1. /\ current \in Factory /\ factories' = factories /\ created' = created
        /\ present' = [present EXCEPT ![current] = {factories[current][k] : k \in DOMAIN factories[current]}]
        /\ created \in Nat
    BY <1>3 DEF CountPairs, TypeOK
  <2>2. ASSUME NEW g \in Factory, NEW p \in present'[g] PROVE p.number <= created
    <3>1. CASE g = current
      <4>1. PICK k \in DOMAIN factories[current] : p = factories[current][k]
        BY <2>1, <2>2, <3>1 DEF TypeOK
      <4>2. p.number \in 1 .. created
        BY <2>1, <4>1 DEF NumbersInv
      <4> QED
        BY <2>1, <4>2
    <3>2. CASE g # current
      BY <2>1, <2>2, <3>2 DEF NumbersInv, TypeOK
    <3> QED
      BY <3>1, <3>2
  <2> QED
    BY <2>1, <2>2 DEF NumbersInv
<1>4. ASSUME NEW start \in asked, AnswerBatch(start)
      PROVE  NumbersInv'
  BY <1>4 DEF AnswerBatch, NumbersInv
<1>5. CASE QueryFails
  BY <1>5 DEF QueryFails, NumbersInv
<1>6. CASE NextFactory
  BY <1>6 DEF NextFactory, NumbersInv
<1>7. ASSUME NEW m \in found, Insert(m)
      PROVE  NumbersInv'
  BY <1>7 DEF Insert, NumbersInv
<1>8. CASE InsertOthers
  BY <1>8 DEF InsertOthers, NumbersInv
<1>9. CASE UNCHANGED vars
  BY <1>9 DEF vars, NumbersInv
<1> QED
  BY <1>1, <1>2, <1>3, <1>4, <1>5, <1>6, <1>7, <1>8, <1>9 DEF Next

LEMMA NoMarkets == MarketsOf(<<>>) = {} /\ EachOnce(<<>>)
  BY DEF MarketsOf, EachOnce

LEMMA FoundStep ==
    ASSUME TypeOK, NumbersInv, StagesInv, FoundInv, [Next]_vars
    PROVE  FoundInv'
<1> USE DEF factoryVars
<1>1. ASSUME NEW f \in Factory, NEW t \in Edge, CreatePair(f, t)
      PROVE  FoundInv'
  <2> SUFFICES ASSUME reorgs = 0, NEW m \in found
               PROVE  /\ \E g \in Factory, start \in Starts : \E k \in DOMAIN factories'[g] :
                             InRangeOf(m, g, start, k)'
                      /\ m.market \notin MarketsOf(graph)
    BY <1>1 DEF CreatePair, FoundInv
  <2>1. /\ m.market \notin MarketsOf(graph)
        /\ \E g \in Factory, start \in Starts : \E k \in DOMAIN factories[g] : InRangeOf(m, g, start, k)
    BY DEF FoundInv
  <2>2. PICK g \in Factory, start \in Starts : \E k \in DOMAIN factories[g] : InRangeOf(m, g, start, k)
    BY <2>1
  <2>3. PICK k \in DOMAIN factories[g] : InRangeOf(m, g, start, k)
    BY <2>2
  <2>4. k \in DOMAIN factories'[g] /\ factories'[g][k] = factories[g][k]
    BY <1>1, ListsGrow
  <2>5. InRangeOf(m, g, start, k)'
    BY <2>3, <2>4 DEF InRangeOf
  <2> QED
    BY <2>1, <2>4, <2>5
<1>2. ASSUME NEW f \in Factory, TakePair(f)
      PROVE  FoundInv'
  BY <1>2, ListsShrink DEF FoundInv
<1>3. CASE CountPairs
  BY <1>3 DEF CountPairs, FoundInv, InRangeOf
<1>4. ASSUME NEW start \in asked, AnswerBatch(start)
      PROVE  FoundInv'
  <2> DEFINE new == {[batch |-> <<current, start>>, market |-> p] :
                        p \in {q \in PairsOf(factories[current], start) : Allowed(q)}}
  <2>1. /\ current \in Factory /\ start \in Starts /\ graph = <<>>
        /\ found' = found \union new
        /\ UNCHANGED <<factories, reorgs, graph>>
    BY <1>4 DEF AnswerBatch, StagesInv, TypeOK
  <2>2. ASSUME NEW m \in new
        PROVE  \E k \in DOMAIN factories[current] : InRangeOf(m, current, start, k)
    BY DEF PairsOf, InRangeOf
  <2> HIDE DEF new
  <2>3. \A m \in found' : m.market \notin MarketsOf(graph')
    BY <2>1, NoMarkets
  <2> QED
    BY <2>1, <2>2, <2>3 DEF FoundInv, InRangeOf
<1>5. CASE QueryFails
  BY <1>5 DEF QueryFails, FoundInv, InRangeOf
<1>6. CASE NextFactory
  BY <1>6 DEF NextFactory, FoundInv, InRangeOf
<1>7. ASSUME NEW m \in found, Insert(m)
      PROVE  FoundInv'
  <2> SUFFICES ASSUME reorgs = 0, NEW l \in found, l # m
               PROVE  /\ \E g \in Factory, start \in Starts : \E k \in DOMAIN factories[g] :
                             InRangeOf(l, g, start, k)
                      /\ l.market \notin MarketsOf(graph')
    BY <1>7 DEF Insert, FoundInv, InRangeOf
  <2>1. MarketsOf(graph') = MarketsOf(graph) \union {m.market}
    BY <1>7, PushFacts DEF Insert, TypeOK
  <2>2. l.market # m.market
    <3>1. PICK f \in Factory, s \in Starts : \E k \in DOMAIN factories[f] : InRangeOf(l, f, s, k)
      BY DEF FoundInv
    <3>2. PICK k \in DOMAIN factories[f] : InRangeOf(l, f, s, k)
      BY <3>1
    <3>3. PICK g \in Factory, t \in Starts : \E n \in DOMAIN factories[g] : InRangeOf(m, g, t, n)
      BY DEF FoundInv
    <3>4. PICK n \in DOMAIN factories[g] : InRangeOf(m, g, t, n)
      BY <3>3
    <3>5. SUFFICES ASSUME l.market = m.market PROVE FALSE
      OBVIOUS
    <3>6. factories[f][k] = factories[g][n]
      BY <3>2, <3>4, <3>5 DEF InRangeOf
    <3>7. f = g /\ k = n
      BY <3>6 DEF NumbersInv
    <3>8. k \in Nat
      BY DEF TypeOK
    <3>9. s = t
      BY <3>2, <3>4, <3>7, <3>8, OneBatch DEF InRangeOf
    <3> QED
      BY <3>2, <3>4, <3>7, <3>9 DEF InRangeOf
  <2> QED
    BY <2>1, <2>2 DEF FoundInv
<1>8. CASE InsertOthers
  BY <1>8 DEF InsertOthers, FoundInv
<1>9. CASE UNCHANGED vars
  BY <1>9 DEF vars, FoundInv, InRangeOf
<1> QED
  BY <1>1, <1>2, <1>3, <1>4, <1>5, <1>6, <1>7, <1>8, <1>9 DEF Next

LEMMA GraphStep ==
    ASSUME TypeOK, NumbersInv, StagesInv, FoundInv, GraphInv, [Next]_vars
    PROVE  GraphInv'
<1> USE DEF factoryVars
<1>1. ASSUME graph = <<>>, graph' = graph, pc' # "done"
      PROVE  GraphInv'
  BY <1>1, NoMarkets DEF GraphInv
<1>2. ASSUME NEW f \in Factory, NEW t \in Edge, CreatePair(f, t)
      PROVE  GraphInv'
  BY <1>1, <1>2 DEF CreatePair, StagesInv
<1>3. ASSUME NEW f \in Factory, TakePair(f)
      PROVE  GraphInv'
  BY <1>1, <1>3 DEF TakePair, StagesInv
<1>4. CASE CountPairs
  BY <1>1, <1>4 DEF CountPairs, StagesInv
<1>5. ASSUME NEW start \in asked, AnswerBatch(start)
      PROVE  GraphInv'
  BY <1>1, <1>5 DEF AnswerBatch, StagesInv
<1>6. CASE QueryFails
  BY <1>1, <1>6 DEF QueryFails, StagesInv
<1>7. CASE NextFactory
  BY <1>1, <1>7 DEF NextFactory, StagesInv
<1>8. ASSUME NEW m \in found, Insert(m)
      PROVE  GraphInv'
  <2> SUFFICES ASSUME reorgs = 0
               PROVE  EachOnce(graph') /\ MarketsOf(graph') \subseteq AllowedPairs /\ pc' # "done"
    BY <1>8 DEF Insert, GraphInv, AllowedPairs
  <2>1. m.market \in AllowedPairs /\ m.market \notin MarketsOf(graph)
    BY DEF FoundInv, InRangeOf, AllowedPairs
  <2>2. EachOnce(graph) /\ MarketsOf(graph) \subseteq AllowedPairs /\ pc' # "done"
    BY <1>8 DEF Insert, GraphInv
  <2>3. graph' = Push(graph, m.market) /\ m.market \in Pair
    BY <1>8 DEF Insert, TypeOK
  <2>4. /\ MarketsOf(graph') = MarketsOf(graph) \union {m.market}
        /\ EachOnce(graph')
    BY <2>1, <2>2, <2>3, PushFacts DEF TypeOK
  <2> QED
    BY <2>1, <2>2, <2>4
<1>9. CASE InsertOthers
  <2> DEFINE g == Push(graph, WethEth)
  <2> SUFFICES ASSUME reorgs = 0
               PROVE  /\ EachOnce(graph') /\ {WethEth, CethEth} \subseteq MarketsOf(graph')
                      /\ MarketsOf(graph') \subseteq AllowedPairs \union {WethEth, CethEth}
    BY <1>9 DEF InsertOthers, GraphInv, AllowedPairs
  <2>1. EachOnce(graph) /\ MarketsOf(graph) \subseteq AllowedPairs
    BY <1>9 DEF InsertOthers, GraphInv
  <2>2. \A p \in AllowedPairs : p.number # 0
    BY DEF NumbersInv, AllowedPairs, TypeOK
  <2>3. WethEth \notin MarketsOf(graph) /\ CethEth \notin MarketsOf(graph) \union {WethEth}
    BY <2>1, <2>2, OtherMarkets
  <2>4. /\ DOMAIN g \subseteq Edge /\ \A e \in DOMAIN g : g[e] \in Seq(Pair)
        /\ MarketsOf(g) = MarketsOf(graph) \union {WethEth}
        /\ EachOnce(g)
    BY <2>1, <2>3, OtherMarkets, PushFacts DEF TypeOK
  <2>5. graph' = Push(g, CethEth)
    BY <1>9 DEF InsertOthers
  <2> HIDE DEF g
  <2>6. /\ MarketsOf(graph') = MarketsOf(g) \union {CethEth}
        /\ EachOnce(graph')
    BY <2>3, <2>4, <2>5, OtherMarkets, PushFacts
  <2> QED
    BY <2>1, <2>4, <2>6
<1>10. CASE UNCHANGED vars
  BY <1>10 DEF vars, GraphInv, AllowedPairs
<1> QED
  BY <1>2, <1>3, <1>4, <1>5, <1>6, <1>7, <1>8, <1>9, <1>10 DEF Next

LEMMA NothingLostStep ==
    ASSUME TypeOK, NumbersInv, StagesInv, NothingLost, [Next]_vars
    PROVE  NothingLost'
<1> USE DEF factoryVars
<1>1. ASSUME NEW f \in Factory, NEW t \in Edge, CreatePair(f, t)
      PROVE  NothingLost'
  <2> SUFFICES ASSUME reorgs = 0, NEW g \in Factory, NEW k \in DOMAIN factories'[g], Due(g, k)'
               PROVE  \/ factories'[g][k] \in MarketsOf(graph)
                      \/ \E m \in found : m.market = factories'[g][k]
                      \/ g = current /\ \E start \in asked : start < k /\ k <= start + BatchSize
    BY <1>1 DEF CreatePair, NothingLost
  <2>1. factories'[g][k] \in present[g]
    BY <1>1 DEF Due, CreatePair
  <2>2. factories'[g][k].number \in Nat /\ factories'[g][k].number <= created
    BY <2>1 DEF NumbersInv, TypeOK, Pair
  <2>3. k \in DOMAIN factories[g] /\ factories'[g][k] = factories[g][k]
    BY <1>1, <2>2, ListsGrow
  <2>4. Due(g, k)
    BY <1>1, <2>3 DEF Due, CreatePair
  <2> QED
    BY <2>3, <2>4 DEF NothingLost
<1>2. ASSUME NEW f \in Factory, TakePair(f)
      PROVE  NothingLost'
  BY <1>2, ListsShrink DEF NothingLost
<1>3. CASE CountPairs
  <2> SUFFICES ASSUME reorgs = 0, NEW f \in Factory, NEW k \in DOMAIN factories[f], Due(f, k)'
               PROVE  \/ factories[f][k] \in MarketsOf(graph)
                      \/ \E m \in found : m.market = factories[f][k]
                      \/ f = current /\ \E start \in asked' : start < k /\ k <= start + BatchSize
    BY <1>3 DEF CountPairs, NothingLost
  <2>1. asked' = Batches(Len(factories[current])) /\ factories' = factories
    BY <1>3 DEF CountPairs
  <2>2. CASE f = current
    <3>1. Len(factories[f]) \in Nat /\ k \in 1 .. Len(factories[f])
      BY DEF TypeOK
    <3>2. k <= BatchSize * BatchLimit
      BY DEF Due
    <3> QED
      BY <2>1, <2>2, <3>1, <3>2, BatchStart
  <2>3. CASE f # current
    <3>1. Due(f, k)
      BY <1>3, <2>3 DEF CountPairs, Due, TypeOK
    <3> QED
      BY <2>3, <3>1 DEF NothingLost
  <2> QED
    BY <2>2, <2>3
<1>4. ASSUME NEW start \in asked, AnswerBatch(start)
      PROVE  NothingLost'
  <2> DEFINE new == {[batch |-> <<current, start>>, market |-> p] :
                        p \in {q \in PairsOf(factories[current], start) : Allowed(q)}}
  <2>1. found' = found \union new /\ asked' = asked \ {start}
        /\ UNCHANGED <<factories, reorgs, current, graph, present>>
    BY <1>4 DEF AnswerBatch
  <2>2. ASSUME NEW k \in DOMAIN factories[current], Due(current, k), start < k, k <= start + BatchSize
        PROVE  \E m \in new : m.market = factories[current][k]
    <3> DEFINE p == factories[current][k]
    <3>1. p \in PairsOf(factories[current], start) /\ Allowed(p)
      BY <2>2 DEF PairsOf, Due
    <3>2. [batch |-> <<current, start>>, market |-> p] \in new
      BY <3>1
    <3> QED
      BY <3>2
  <2> HIDE DEF new
  <2> QED
    BY <2>1, <2>2 DEF NothingLost, Due
<1>5. CASE QueryFails
  BY <1>5 DEF QueryFails, NothingLost, Due
<1>6. CASE NextFactory
  BY <1>6 DEF NextFactory, NothingLost, Due
<1>7. ASSUME NEW m \in found, Insert(m)
      PROVE  NothingLost'
  <2>1. MarketsOf(graph') = MarketsOf(graph) \union {m.market}
    BY <1>7, PushFacts DEF Insert, TypeOK
  <2> QED
    BY <1>7, <2>1 DEF Insert, NothingLost, Due
<1>8. CASE InsertOthers
  <2> DEFINE g == Push(graph, WethEth)
  <2>1. /\ DOMAIN g \subseteq Edge /\ \A e \in DOMAIN g : g[e] \in Seq(Pair)
        /\ MarketsOf(g) = MarketsOf(graph) \union {WethEth}
    BY OtherMarkets, PushFacts DEF TypeOK
  <2>2. graph' = Push(g, CethEth) /\ found = {} /\ asked = {}
    BY <1>8 DEF InsertOthers, StagesInv
  <2> HIDE DEF g
  <2>3. MarketsOf(graph) \subseteq MarketsOf(graph')
    BY <2>1, <2>2, OtherMarkets, PushFacts
  <2> QED
    BY <1>8, <2>2, <2>3 DEF InsertOthers, NothingLost, Due
<1>9. CASE UNCHANGED vars
  BY <1>9 DEF vars, NothingLost, Due
<1> QED
  BY <1>1, <1>2, <1>3, <1>4, <1>5, <1>6, <1>7, <1>8, <1>9 DEF Next

-----------------------------------------------------------------------------
LEMMA DiscoveryStarts ==
    ASSUME Init
    PROVE  TypeOK /\ RangesAreAccepted /\ DiscoveryInv
<1> USE DEF Init
<1>1. TypeOK
  <2>1. factories \in [Factory -> Seq(Pair)] /\ current \in 1 .. NumFactories + 1
    BY DiscoveryAssumption, EmptySeq
  <2>2. present \in [Factory -> SUBSET Pair] /\ DOMAIN graph = {}
    OBVIOUS
  <2> QED
    BY <2>1, <2>2 DEF TypeOK
<1>2. NumbersInv /\ StagesInv
  BY DEF NumbersInv, StagesInv
<1>3. FoundInv /\ GraphInv /\ NothingLost /\ RangesAreAccepted
  BY NoMarkets DEF FoundInv, GraphInv, NothingLost, RangesAreAccepted
<1> QED
  BY <1>1, <1>2, <1>3 DEF DiscoveryInv

LEMMA DiscoveryInvariant == Spec => [](TypeOK /\ RangesAreAccepted /\ DiscoveryInv)
<1>1. Init => TypeOK /\ RangesAreAccepted /\ DiscoveryInv
  BY DiscoveryStarts
<1>2. TypeOK /\ RangesAreAccepted /\ DiscoveryInv /\ [Next]_vars
          => TypeOK' /\ RangesAreAccepted' /\ DiscoveryInv'
  BY TypesStep, RangesStep, NumbersStep, StagesStep, FoundStep, GraphStep, NothingLostStep
     DEF DiscoveryInv
<1> QED
  BY <1>1, <1>2, PTL DEF Spec

\* Type correctness of the listing and of the graph.
THEOREM DiscoveryTypeCorrect == Spec => []TypeOK
  BY DiscoveryInvariant, PTL

\* No batch is refused by the query contract unless a reorganisation takes pairs
\* away, however many pairs are created between the count and the answers.
THEOREM RangesAccepted == Spec => []RangesAreAccepted
  BY DiscoveryInvariant, PTL

\* The graph that MarketGraph::new returns has every pair that is due, the two other
\* markets, and nothing else, each on its edge and once, for any number of factories and
\* pairs and any order of creations, answers and workers.
THEOREM GraphCompletes == Spec => []GraphIsComplete
<1>1. DiscoveryInv => GraphIsComplete
  BY DEF DiscoveryInv, StagesInv, GraphInv, NothingLost, GraphIsComplete
<1> QED
  BY <1>1, DiscoveryInvariant, PTL
=============================================================================

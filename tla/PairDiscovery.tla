--------------------------- MODULE PairDiscovery ---------------------------
(***************************************************************************)
(* The discovery of the pairs of every factory at startup (uniswap.rs,     *)
(* get_all_markets, get_uniswappy_markets and its batches, with the query  *)
(* contract UniswapFlashQuery.sol) and the construction of the market      *)
(* graph from them (markets.rs, MarketGraph::new).                         *)
(*                                                                         *)
(* The number of pairs is asked once per factory; the batches cut from it  *)
(* are asked for concurrently, and each is answered from the list that the *)
(* factory has at that moment.  Pairs are created meanwhile, and a         *)
(* reorganisation can take the last ones away again.                       *)
(***************************************************************************)
EXTENDS Integers, Sequences, FiniteSets

CONSTANTS
    Weth, Eth, Ceth,    \* the tokens of the two markets that are no pairs
    Others,             \* other tokens
    Blacklisted,        \* BLACKLISTED_TOKENS
    BadPools,           \* BLACKLISTED_POOLS, by the number of the pair
    NumFactories,       \* how many factories there are
    BatchSize,          \* UNISWAP_BATCH_SIZE
    BatchLimit,         \* BATCH_COUNT_LIMIT
    MaxPairs,           \* bound: pairs created in a behaviour
    MaxReorgs           \* bound: pairs that a reorganisation takes away

ASSUME DiscoveryAssumption ==
    /\ Weth # Eth /\ Eth # Ceth /\ Weth # Ceth
    /\ {Weth, Eth, Ceth} \intersect Others = {}
    /\ Blacklisted \subseteq Others
    /\ BadPools \subseteq Nat
    /\ NumFactories \in Nat
    /\ BatchSize \in Nat \ {0}
    /\ BatchLimit \in Nat \ {0}
    /\ MaxPairs \in Nat
    /\ MaxReorgs \in Nat

VARIABLES
    factories,   \* the list of pairs of each factory
    created,     \* number of pairs ever created; also the number of the last one
    reorgs,      \* how many of them were taken away again
    pc,          \* "count", "query", "insert", "done" or "exited"
    current,     \* the factory that is asked
    asked,       \* starts of the batches that are not answered
    found,       \* the markets of each answered batch
    graph,       \* the markets on each edge, in their order
    present      \* history: the pairs each factory had when it was counted

factoryVars == <<factories, created, reorgs>>
vars == <<factoryVars, pc, current, asked, found, graph, present>>

Factory == 1 .. NumFactories

Tradable == {Weth, Eth} \union Others

\* An edge of the undirected graph; a pair trades the two tokens of one.
Edge == {e \in SUBSET (Tradable \union {Ceth}) : Cardinality(e) = 2}

Pair == [number : Nat, tokens : Edge]

\* The two markets of the graph that are no pairs.
WethEth == [number |-> 0, tokens |-> {Eth, Weth}]
CethEth == [number |-> 0, tokens |-> {Eth, Ceth}]

Init ==
    /\ factories = [f \in Factory |-> <<>>]
    /\ created = 0
    /\ reorgs = 0
    /\ pc = "count"
    /\ current = 1
    /\ asked = {}
    /\ found = {}
    /\ graph = << >>
    /\ present = [f \in Factory |-> {}]

-----------------------------------------------------------------------------
\* Anyone creates the one pair of a factory for two tokens.
CreatePair(f, tokens) ==
    /\ pc \in {"count", "query"}
    /\ created < MaxPairs
    /\ \A k \in DOMAIN factories[f] : factories[f][k].tokens # tokens
    /\ created' = created + 1
    /\ factories' = [factories EXCEPT ![f] =
                        Append(@, [number |-> created + 1, tokens |-> tokens])]
    /\ UNCHANGED <<reorgs, pc, current, asked, found, graph, present>>

\* A reorganisation takes the last pair of a factory away.
TakePair(f) ==
    /\ pc \in {"count", "query"}
    /\ reorgs < MaxReorgs
    /\ factories[f] # <<>>
    /\ reorgs' = reorgs + 1
    /\ factories' = [factories EXCEPT ![f] = SubSeq(@, 1, Len(@) - 1)]
    /\ UNCHANGED <<created, pc, current, asked, found, graph, present>>

-----------------------------------------------------------------------------
\* Where a batch may start.
Starts == {k * BatchSize : k \in 0 .. BatchLimit - 1}

\* Mutant of Batches: batches are asked for up to the limit, whatever the count.
AllBatches(numPairs) == Starts

\* Mutant of Batches: one batch more than the limit.
BatchesPastLimit(numPairs) ==
    {start \in Starts \union {BatchLimit * BatchSize} : start <= numPairs}

\* A batch follows as long as the count is not below the end of the one before.
Batches(numPairs) == {start \in Starts : start <= numPairs}

\* allPairsLength of the factory in turn; then the batches are asked for.
CountPairs ==
    /\ pc = "count"
    /\ current \in Factory
    /\ asked' = Batches(Len(factories[current]))
    /\ present' = [present EXCEPT ![current] =
                      {factories[current][k] : k \in DOMAIN factories[current]}]
    /\ pc' = "query"
    /\ UNCHANGED <<factoryVars, current, found, graph>>

\* getPairsByIndexRange: the pairs from start on, as many as fit or as there are.
PairsOf(pairs, start) ==
    {pairs[k] : k \in {n \in DOMAIN pairs : start < n /\ n <= start + BatchSize}}

Allowed(p) == p.tokens \intersect Blacklisted = {} /\ p.number \notin BadPools

\* The answer to a batch: the pairs that are not blacklisted become markets.
AnswerBatch(start) ==
    /\ pc = "query"
    /\ start \in asked
    /\ start <= Len(factories[current])
    /\ asked' = asked \ {start}
    /\ found' = found \union
          {[batch |-> <<current, start>>, market |-> p] :
              p \in {q \in PairsOf(factories[current], start) : Allowed(q)}}
    /\ UNCHANGED <<factoryVars, pc, current, graph, present>>

\* require(_stop >= _start) of the query contract fails, or the request does, and
\* the unwrap() of its result ends the process.
QueryFails ==
    /\ pc \in {"count", "query"}
    /\ pc' = "exited"
    /\ UNCHANGED <<factoryVars, current, asked, found, graph, present>>

\* join_all of the batches has returned: the next factory, one after the other.
NextFactory ==
    /\ pc = "query"
    /\ asked = {}
    /\ current' = current + 1
    /\ pc' = IF current < NumFactories THEN "count" ELSE "insert"
    /\ UNCHANGED <<factoryVars, asked, found, graph, present>>

-----------------------------------------------------------------------------
\* Mutant of WithEdge: add_edge replaces the markets of an edge that exists.
WithNewEdge(g, e) ==
    [edge \in DOMAIN g \union {e} |-> IF edge = e THEN <<>> ELSE g[edge]]

\* The edge is added if the graph has none between the two tokens.
WithEdge(g, e) ==
    [edge \in DOMAIN g \union {e} |-> IF edge \in DOMAIN g THEN g[edge] ELSE <<>>]

Push(g, market) == [WithEdge(g, market.tokens) EXCEPT ![market.tokens] = Append(@, market)]

\* One of the parallel workers has the lock on the graph and adds its market.
Insert(m) ==
    /\ pc = "insert"
    /\ m \in found
    /\ found' = found \ {m}
    /\ graph' = Push(graph, m.market)
    /\ UNCHANGED <<factoryVars, pc, current, asked, present>>

\* collect() has returned: WETH <-> ETH and cETH <-> ETH come last.
InsertOthers ==
    /\ pc = "insert"
    /\ found = {}
    /\ graph' = Push(Push(graph, WethEth), CethEth)
    /\ pc' = "done"
    /\ UNCHANGED <<factoryVars, current, asked, found, present>>

Next ==
    \/ \E f \in Factory, t \in {e \in Edge : e \subseteq Tradable} : CreatePair(f, t)
    \/ \E f \in Factory : TakePair(f)
    \/ CountPairs
    \/ \E start \in asked : AnswerBatch(start)
    \/ QueryFails
    \/ NextFactory
    \/ \E m \in found : Insert(m)
    \/ InsertOthers

Spec == Init /\ [][Next]_vars

-----------------------------------------------------------------------------
TypeOK ==
    /\ factories \in [Factory -> Seq(Pair)]
    /\ created \in Nat
    /\ reorgs \in Nat
    /\ pc \in {"count", "query", "insert", "done", "exited"}
    /\ current \in 1 .. NumFactories + 1
    /\ asked \subseteq Starts
    /\ \A m \in found : m.market \in Pair
    /\ DOMAIN graph \subseteq Edge
    /\ \A e \in DOMAIN graph : graph[e] \in Seq(Pair)
    /\ present \in [Factory -> SUBSET Pair]

\* The markets of a graph.
MarketsOf(g) == UNION {{g[e][n] : n \in DOMAIN g[e]} : e \in DOMAIN g}

\* A graph has each of its markets on the edge of its tokens, and once.
EachOnce(g) ==
    \A e \in DOMAIN g : \A n \in DOMAIN g[e] :
        /\ g[e][n].tokens = e
        /\ \A k \in DOMAIN g[e] : g[e][k] = g[e][n] => k = n

\* The pairs of the factories that are not blacklisted.
AllowedPairs ==
    UNION {{factories[f][k] : k \in {n \in DOMAIN factories[f] : Allowed(factories[f][n])}} : f \in Factory}

\* Of these, what a factory had when it was counted and the batches reach.
Due(f, k) == /\ factories[f][k] \in present[f]
             /\ k <= BatchSize * BatchLimit
             /\ Allowed(factories[f][k])

\* Whatever pairs are created between the count, the answers and the insertions,
\* and in whatever order those come, a pair that its factory had when it was
\* counted, that the batches reach and that is not blacklisted is in the graph;
\* so is each of the two other markets; nothing else is in the graph but pairs of
\* the factories that are not blacklisted; and all of it is on the edge of its tokens,
\* once.
GraphIsComplete ==
    pc = "done" /\ reorgs = 0 =>
        /\ \A f \in Factory : \A k \in DOMAIN factories[f] :
              Due(f, k) => factories[f][k] \in MarketsOf(graph)
        /\ {WethEth, CethEth} \subseteq MarketsOf(graph)
        /\ MarketsOf(graph) \subseteq AllowedPairs \union {WethEth, CethEth}
        /\ EachOnce(graph)

\* Only a reorganisation makes the query contract refuse a batch: no range that is
\* asked for starts beyond the list of the factory, the last one included, which
\* may be empty.
RangesAreAccepted ==
    pc = "query" /\ reorgs = 0 => \A start \in asked : start <= Len(factories[current])

\* The inductive invariant behind GraphIsComplete.  No two pairs are the same one.
NumbersInv ==
    /\ \A f \in Factory : \A k \in DOMAIN factories[f] : factories[f][k].number \in 1 .. created
    /\ \A f, g \in Factory : \A k \in DOMAIN factories[f], n \in DOMAIN factories[g] :
           factories[f][k].number = factories[g][n].number => f = g /\ k = n
    /\ \A f \in Factory : \A p \in present[f] : p.number <= created

StagesInv ==
    /\ pc = "query" => current \in Factory
    /\ pc \in {"count", "query"} => graph = << >>
    /\ pc \in {"insert", "done"} => asked = {}
    /\ pc = "done" => found = {}

\* A market that was found is the pair of its place, which is in the range of its batch.
InRangeOf(m, f, start, k) ==
    /\ start < k /\ k <= start + BatchSize
    /\ Allowed(factories[f][k])
    /\ m = [batch |-> <<f, start>>, market |-> factories[f][k]]

FoundInv ==
    reorgs = 0 => \A m \in found :
        /\ \E f \in Factory, start \in Starts : \E k \in DOMAIN factories[f] : InRangeOf(m, f, start, k)
        /\ m.market \notin MarketsOf(graph)

GraphInv ==
    reorgs = 0 =>
        /\ EachOnce(graph)
        /\ MarketsOf(graph) \subseteq AllowedPairs \union IF pc = "done" THEN {WethEth, CethEth} ELSE {}
        /\ pc = "done" => {WethEth, CethEth} \subseteq MarketsOf(graph)

\* What is due is in the graph, or was found, or is in a batch that is not answered.
NothingLost ==
    reorgs = 0 => \A f \in Factory : \A k \in DOMAIN factories[f] :
        Due(f, k) => \/ factories[f][k] \in MarketsOf(graph)
                     \/ \E m \in found : m.market = factories[f][k]
                     \/ f = current /\ \E start \in asked : start < k /\ k <= start + BatchSize

DiscoveryInv == NumbersInv /\ StagesInv /\ FoundInv /\ GraphInv /\ NothingLost
=============================================================================

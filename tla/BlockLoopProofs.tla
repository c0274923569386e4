-------------------------- MODULE BlockLoopProofs --------------------------
(***************************************************************************)
(* Proofs about BlockLoop and, at the end, about QuietNode: a search lacks *)
(* at most the block that is queued, and the loop implements AtomicView.   *)
(* For any sets of markets and any bounds.                                 *)
(***************************************************************************)
EXTENDS QuietNode, SequenceTheorems, TLAPS

\* What a new head does to the chain: the first k blocks stay, one follows.
LEMMA NewHeadShape ==
    ASSUME NodeTypeOK, NEW k \in 1 .. Len(chain), NEW S \in SUBSET Pairs, NewHead(k, S)
    PROVE  /\ chain' \in Seq(Block)
           /\ Len(chain') = k + 1
           /\ \A i \in 1 .. k : chain'[i] = chain[i]
           /\ chain'[k + 1] = NewBlock(mined + 1, chain[k], S)
           /\ NewBlock(mined + 1, chain[k], S) \in Block
           /\ mined' = mined + 1
           /\ drafts' = drafts
<1> DEFINE b == NewBlock(mined + 1, chain[k], S)
           s == SubSeq(chain, 1, k)
<1>1. \A i \in 1 .. Len(chain) : chain[i] \in Block
  BY DEF NodeTypeOK
<1>2. b \in Block
  BY <1>1 DEF NodeTypeOK, NewBlock, Block, Markets
<1>3. s \in Seq(Block) /\ Len(s) = k /\ \A i \in 1 .. k : s[i] = chain[i]
  BY <1>1, SubSeqProperties DEF NodeTypeOK
<1>4. chain' = Append(s, b) /\ mined' = mined + 1 /\ drafts' = drafts
  BY DEF NewHead
<1> HIDE DEF b, s
<1>5. /\ Append(s, b) \in Seq(Block)
      /\ Len(Append(s, b)) = k + 1
      /\ \A i \in 1 .. k : Append(s, b)[i] = s[i]
      /\ Append(s, b)[k + 1] = b
  BY <1>2, <1>3, AppendProperties
<1> QED
  BY <1>2, <1>3, <1>4, <1>5 DEF b

LEMMA TypeInit == Init => TypeOK
<1> SUFFICES ASSUME Init PROVE TypeOK
  OBVIOUS
<1>1. Genesis \in Block
  BY DEF Genesis, Block, Markets
<1>2. <<Genesis>> \in Seq(Block) /\ Len(<<Genesis>>) = 1
  BY <1>1
<1>3. chain = <<Genesis>> /\ mined = 0 /\ drafts = <<>> /\ syncing = FALSE /\ syncs = 0
  BY DEF Init, NodeInit
<1>4. chain \in Seq(Block) /\ Len(chain) = 1
  BY <1>2, <1>3, Zenon
<1>5. syncing \in BOOLEAN
  BY <1>3, Zenon
<1>6. NodeTypeOK
  BY <1>3, <1>4, <1>5 DEF NodeTypeOK
<1> QED
  BY <1>6 DEF Init, TypeOK, NoInfo, NewCache, Unread, Markets

LEMMA TypeStep == TypeOK /\ [Next]_vars => TypeOK'
<1> SUFFICES ASSUME TypeOK, [Next]_vars PROVE TypeOK'
  OBVIOUS
<1> USE DEF TypeOK
<1>0. NodeTypeOK /\ Tip \in Block
  BY DEF NodeTypeOK, Tip
<1>1. CASE \E k \in 1 .. Len(chain), S \in SUBSET Pairs : Import(k, S)
  <2>1. PICK k \in 1 .. Len(chain), S \in SUBSET Pairs : Import(k, S)
    BY <1>1
  <2>2. NewHead(k, S)
    BY <2>1 DEF Import
  <2>3. chain' \in Seq(Block) /\ Len(chain') = k + 1 /\ mined' = mined + 1
    BY <1>0, <2>2, NewHeadShape
  <2>4. syncing' = syncing /\ syncs' = syncs /\ drafts' = drafts
    BY <2>2 DEF NewHead
  <2>5. NodeTypeOK'
    BY <2>3, <2>4, <1>0 DEF NodeTypeOK
  <2>6. headers' \in Nat /\ announced' \in Nat
    BY <2>1, <2>3, <1>0 DEF Import, NodeTypeOK
  <2> QED
    BY <2>1, <2>5, <2>6 DEF Import
<1>2. CASE NodeSyncs
  <2>0. /\ chain' = chain /\ mined' = mined /\ drafts' = drafts
        /\ syncs' = syncs \/ syncs' = syncs + 1
        /\ syncing' = TRUE \/ syncing' = FALSE
    BY <1>2 DEF NodeSyncs, FallBehind, CatchUp
  <2>1. NodeTypeOK'
    <3>1. syncing' \in BOOLEAN
      BY <2>0, Zenon
    <3> QED
      BY <2>0, <3>1, <1>0 DEF NodeTypeOK
  <2> QED
    BY <1>2, <2>1 DEF NodeSyncs, botVars
<1> DEFINE NodeSame == UNCHANGED nodeVars
<1>3. NodeSame => NodeTypeOK'
  BY DEF nodeVars, NodeTypeOK
<1>4. CASE StreamEnds
  BY <1>4, <1>3 DEF StreamEnds
<1>5. CASE RequestFails
  BY <1>5, <1>3 DEF RequestFails
<1>6. CASE Restart
  BY <1>6, <1>3 DEF Restart, StartProcess, NoInfo, NewCache, Unread, Markets
<1>7. CASE NextHeader
  BY <1>7, <1>3 DEF NextHeader, HeaderReady, NoInfo
<1>8. CASE AnswerBlock
  <2>1. Len(chain) - 1 \in Nat
    BY <1>0 DEF NodeTypeOK
  <2> QED
    BY <1>8, <1>3, <2>1 DEF AnswerBlock, Answer, Requests
<1>9. CASE AnswerLogs
  BY <1>9, <1>3, <1>0 DEF AnswerLogs, Answer, Requests, Block
<1>10. CASE AnswerSyncing
  BY <1>10, <1>3, <1>0 DEF AnswerSyncing, Answer, Requests, NodeTypeOK
<1>11. CASE SkipBlock
  BY <1>11, <1>3 DEF SkipBlock, Markets
<1>12. CASE StartUpdate
  BY <1>12, <1>3 DEF StartUpdate, Delta, Markets
<1>13. CASE \E m \in Markets : UpdateMarket(m)
  <2>1. PICK m \in Markets : UpdateMarket(m)
    BY <1>13
  <2>2. NodeTypeOK' /\ cache' \in [Markets -> Int]
    <3>1. CASE m \in Pairs /\ ReadReserves(m)
      BY <3>1, <1>3, <1>0 DEF ReadReserves, Block
    <3>2. CASE m \in Accruing /\ ReadRate(m)
      <4>1. UNCHANGED <<chain, mined, syncing, syncs>> /\ drafts' = Append(drafts, Tip.id)
        BY <3>2 DEF ReadRate, Draft
      <4>2. Tip.id \in Nat
        BY <1>0 DEF Block
      <4>3. drafts' \in Seq(Nat)
        BY <4>1, <4>2, <1>0 DEF NodeTypeOK
      <4>4. NodeTypeOK'
        BY <4>1, <4>3, <1>0 DEF NodeTypeOK
      <4>5. Len(drafts') \in Int
        BY <4>3
      <4> QED
        BY <3>2, <4>4, <4>5 DEF ReadRate
    <3>3. CASE m \in Static /\ UNCHANGED <<nodeVars, cache>>
      BY <3>3, <1>3
    <3> QED
      BY <2>1, <3>1, <3>2, <3>3 DEF UpdateMarket
  <2> QED
    BY <2>1, <2>2 DEF UpdateMarket
<1>14. CASE StartSearch
  BY <1>14, <1>3 DEF StartSearch
<1>15. CASE EndSearch \/ SearchHangs
  BY <1>15, <1>3 DEF EndSearch, SearchHangs
<1>16. CASE UNCHANGED vars
  <2>1. NodeTypeOK'
    BY <1>16, <1>3 DEF vars
  <2> QED
    BY <1>16, <2>1 DEF vars, botVars
<1> QED
  BY <1>1, <1>2, <1>4, <1>5, <1>6, <1>7, <1>8, <1>9, <1>10, <1>11, <1>12, <1>13,
     <1>14, <1>15, <1>16 DEF Next, Environment, Bot

\* Every variable keeps its type, whatever the client answers and when.
THEOREM TypeCorrect == Spec => []TypeOK
<1> QED
  BY TypeInit, TypeStep, PTL DEF Spec

-----------------------------------------------------------------------------
LEMMA BlockTypes ==
    ASSUME NodeTypeOK
    PROVE  \A i \in 1 .. Len(chain) :
               /\ chain[i].id \in Nat
               /\ chain[i].logs \in SUBSET Pairs
               /\ \A m \in Pairs : chain[i].state[m] \in Nat
<1>1. \A i \in 1 .. Len(chain) : chain[i] \in Block
  BY DEF NodeTypeOK
<1> QED
  BY <1>1 DEF Block

\* The new block: a fresh id, and a state that differs from that of its parent
\* in the pairs that its logs name.
LEMMA NewHeadBlock ==
    ASSUME NodeTypeOK, NEW k \in 1 .. Len(chain), NEW S \in SUBSET Pairs, NewHead(k, S)
    PROVE  /\ Len(chain') = k + 1
           /\ \A i \in 1 .. k : chain'[i] = chain[i]
           /\ chain'[k + 1].id = mined + 1
           /\ chain'[k + 1].logs = S
           /\ \A m \in Pairs :
                 chain'[k + 1].state[m] =
                    IF m \in S THEN mined + 1 ELSE chain[k].state[m]
           /\ mined' = mined + 1
<1>1. chain'[k + 1] = NewBlock(mined + 1, chain[k], S)
  BY NewHeadShape
<1>2. /\ chain'[k + 1].id = mined + 1
      /\ chain'[k + 1].logs = S
      /\ \A m \in Pairs :
            chain'[k + 1].state[m] = IF m \in S THEN mined + 1 ELSE chain[k].state[m]
  BY <1>1 DEF NewBlock
<1> QED
  BY <1>2, NewHeadShape

LEMMA ChainInit == Init => ChainInv
<1> SUFFICES ASSUME Init PROVE ChainInv
  OBVIOUS
<1>1. chain = <<Genesis>> /\ mined = 0
  BY DEF Init, NodeInit
<1>2. Len(chain) = 1 /\ chain[1] = Genesis
  BY <1>1
<1>3. Genesis.id = 0 /\ \A m \in Pairs : Genesis.state[m] = 0
  BY DEF Genesis
<1> QED
  BY <1>1, <1>2, <1>3 DEF ChainInv, Tip

LEMMA ChainStep ==
    ASSUME NodeTypeOK, ChainInv,
           NEW k \in 1 .. Len(chain), NEW S \in SUBSET Pairs, NewHead(k, S)
    PROVE  ChainInv'
<1> DEFINE n == k + 1
<1>1. /\ Len(chain') = n
      /\ \A i \in 1 .. k : chain'[i] = chain[i]
      /\ chain'[n].id = mined + 1
      /\ chain'[n].logs = S
      /\ \A m \in Pairs :
            chain'[n].state[m] = IF m \in S THEN mined + 1 ELSE chain[k].state[m]
      /\ mined' = mined + 1
  BY NewHeadBlock
<1>2. /\ mined \in Nat /\ k \in Nat /\ k <= Len(chain) /\ Len(chain) \in Nat
      /\ n \in Nat /\ k < n
  BY DEF NodeTypeOK
<1>3. \A i \in 1 .. n : i \in 1 .. k \/ i = n
  BY <1>2
<1>4. \A i \in 1 .. k :
         /\ i \in 1 .. Len(chain)
         /\ chain[i].id \in Nat
         /\ \A m \in Pairs : chain[i].state[m] \in Nat
  BY <1>2, BlockTypes
<1> HIDE DEF n
<1>5. \A i \in 1 .. n : chain'[i].id <= mined + 1
  <2>1. \A i \in 1 .. k : chain[i].id <= mined /\ chain[i].id \in Nat
    BY <1>4 DEF ChainInv
  <2> QED
    BY <1>1, <1>2, <1>3, <2>1
<1>6. \A i \in 1 .. n, m \in Pairs : chain'[i].state[m] <= mined + 1
  <2>1. \A i \in 1 .. k, m \in Pairs :
           chain[i].state[m] <= mined /\ chain[i].state[m] \in Nat
    BY <1>4 DEF ChainInv
  <2>2. ASSUME NEW m \in Pairs PROVE chain'[n].state[m] <= mined + 1
    <3>1. chain[k].state[m] <= mined /\ chain[k].state[m] \in Nat
      BY <1>2, <2>1
    <3>2. chain'[n].state[m] = mined + 1 \/ chain'[n].state[m] = chain[k].state[m]
      BY <1>1
    <3> QED
      BY <1>2, <3>1, <3>2
  <2>3. ASSUME NEW i \in 1 .. k, NEW m \in Pairs PROVE chain'[i].state[m] <= mined + 1
    <3>1. chain'[i].state[m] = chain[i].state[m]
      BY <1>1
    <3> QED
      BY <1>2, <2>1, <3>1
  <2>4. ASSUME NEW i \in 1 .. n, NEW m \in Pairs PROVE chain'[i].state[m] <= mined + 1
    BY <1>3, <2>2, <2>3
  <2> QED
    BY <2>4
<1>7. Tip'.id = mined'
  BY <1>1 DEF Tip
<1>8. ASSUME NEW i \in 1 .. n, NEW j \in 1 .. n, NEW m \in Pairs
      PROVE  /\ i <= j => chain'[i].state[m] <= chain'[j].state[m]
             /\ chain'[i].state[m] = chain'[j].id =>
                   chain'[j].id = 0 \/ m \in chain'[j].logs
             /\ chain'[j].state[m] = chain'[i].id => chain'[i].state[m] = chain'[i].id
  <2>1. CASE i \in 1 .. k /\ j \in 1 .. k
    BY <2>1, <1>1, <1>4 DEF ChainInv
  <2>2. CASE i = n /\ j = n
    BY <2>2, <1>1, <1>2, <1>4 DEF ChainInv
  <2>3. CASE i \in 1 .. k /\ j = n
    <3>1. chain'[i] = chain[i] /\ chain[i].id <= mined /\ chain[i].state[m] <= mined
      BY <2>3, <1>1, <1>4 DEF ChainInv
    <3>2. /\ chain[i].state[m] <= chain[k].state[m]
          /\ chain[k].state[m] = chain[i].id => chain[i].state[m] = chain[i].id
      BY <2>3, <1>2, <1>4 DEF ChainInv
    <3> QED
      BY <2>3, <3>1, <3>2, <1>1, <1>2, <1>4
  <2>4. CASE i = n /\ j \in 1 .. k
    <3>1. chain'[j] = chain[j] /\ chain[j].id <= mined /\ chain[j].state[m] <= mined
      BY <2>4, <1>1, <1>4 DEF ChainInv
    <3>2. chain[k].state[m] = chain[j].id => chain[j].id = 0 \/ m \in chain[j].logs
      BY <2>4, <1>2, <1>4 DEF ChainInv
    <3>3. j < n
      BY <2>4, <1>2
    <3> QED
      BY <2>4, <3>1, <3>2, <3>3, <1>1, <1>2, <1>4
  <2> QED
    BY <2>1, <2>2, <2>3, <2>4, <1>3
<1> QED
  BY <1>1, <1>5, <1>6, <1>7, <1>8 DEF ChainInv

-----------------------------------------------------------------------------
\* What holds of the pairs and the chain; the rates come after.
PairsInv == ChainInv /\ InfoInv /\ CacheInv

LEMMA InvInit == Init => LoopInv
<1> SUFFICES ASSUME Init PROVE LoopInv
  OBVIOUS
<1>1. ChainInv
  BY ChainInit
<1>2. Len(chain) = 1 /\ chain[1] = Genesis /\ mined = 0
  BY DEF Init, NodeInit
<1>3. Genesis.id = 0 /\ \A m \in Pairs : Genesis.state[m] = 0
  BY DEF Genesis
<1>4. InfoInv
  BY <1>2 DEF Init, InfoInv, NoInfo
<1>5. \A m \in Markets : cache[m] = 0 \/ cache[m] = -1
  BY DEF Init, NewCache, Unread
<1>6. \A m \in Static : cache[m] = 0
  BY DEF Init, NewCache, Markets
<1>7. CacheInv
  BY <1>2, <1>3, <1>5, <1>6 DEF Init, CacheInv, Settled, Markets
<1>8. \A m \in Accruing : cache[m] = Unread
  BY MarketsAssumption DEF Init, NewCache, Markets
<1>9. RateInv
  BY <1>8 DEF Init, NodeInit, RateInv
<1> QED
  BY <1>1, <1>4, <1>7, <1>9 DEF LoopInv

\* A new head leaves the cache as it is and asks for nothing new of it.
LEMMA ImportStep ==
    ASSUME TypeOK, LoopInv, NEW k \in 1 .. Len(chain), NEW S \in SUBSET Pairs, Import(k, S)
    PROVE  PairsInv'
<1>1. NodeTypeOK /\ NewHead(k, S) /\ ChainInv /\ InfoInv /\ CacheInv
  BY DEF TypeOK, LoopInv, Import
<1>2. ChainInv'
  BY <1>1, ChainStep
<1>3. /\ Len(chain') = k + 1
      /\ \A i \in 1 .. k : chain'[i] = chain[i] /\ i \in 1 .. Len(chain)
      /\ chain'[k + 1].id = mined + 1
      /\ \A m \in Pairs : \/ chain'[k + 1].state[m] = mined + 1
                          \/ chain'[k + 1].state[m] = chain[k].state[m]
      /\ mined' = mined + 1
  <2>1. Len(chain) \in Nat
    BY <1>1 DEF NodeTypeOK
  <2> QED
    BY <1>1, <2>1, NewHeadBlock
<1>4. mined \in Nat /\ k \in Nat /\ k >= 1
  BY <1>1 DEF NodeTypeOK
<1>5. UNCHANGED <<pc, fullUpdate, info, pending, cache, applied, reread>>
  BY DEF Import
<1>6. InfoInv'
  <2>1. info.id \in Nat /\ info.id <= mined
    BY <1>1 DEF TypeOK, InfoInv
  <2>2. ASSUME "logs" \in info.answered, NEW i \in 1 .. k + 1, NEW m \in Pairs,
               chain'[i].state[m] = info.id
        PROVE  info.id = 0 \/ m \in info.logs
    <3>1. CASE i \in 1 .. k
      BY <3>1, <2>2, <1>1, <1>3 DEF InfoInv
    <3>2. CASE i = k + 1
      <4>1. chain[k].state[m] = info.id
        BY <3>2, <2>1, <2>2, <1>3, <1>4
      <4> QED
        BY <4>1, <2>2, <1>1 DEF InfoInv
    <3> QED
      BY <3>1, <3>2, <1>4
  <2> QED
    BY <2>1, <2>2, <1>3, <1>4, <1>5 DEF InfoInv
<1>7. CacheInv'
  <2>1. applied' \subseteq 0 .. mined'
    BY <1>1, <1>3, <1>4, <1>5 DEF CacheInv
  <2>2. \A m \in Pairs : cache[m] \in Int /\ cache[m] <= mined
    BY <1>1 DEF CacheInv, TypeOK, Markets
  <2>3. ASSUME NEW m \in Pairs, NEW i \in 1 .. k + 1, NEW j \in 1 .. k + 1,
               chain'[i].id = cache[m], i <= j
        PROVE  cache[m] <= chain'[j].state[m]
    <3>1. i \in 1 .. k
      BY <2>2, <2>3, <1>3, <1>4
    <3>2. CASE j \in 1 .. k
      BY <3>1, <3>2, <2>3, <1>1, <1>3 DEF CacheInv
    <3>3. CASE j = k + 1
      <4>1. cache[m] <= chain[k].state[m]
        BY <3>1, <2>3, <1>1, <1>3 DEF CacheInv
      <4>2. \/ chain'[j].state[m] = mined + 1
            \/ chain'[j].state[m] = chain[k].state[m]
        BY <3>3, <1>3
      <4> QED
        BY <4>1, <4>2, <2>2, <1>4
    <3> QED
      BY <3>2, <3>3, <1>4
  <2>4. ASSUME NEW m \in Pairs, Settled(m), NEW i \in 1 .. k + 1,
               chain'[i].state[m] \in applied
        PROVE  chain'[i].state[m] <= cache[m]
    <3>1. CASE i \in 1 .. k
      BY <3>1, <2>4, <1>1, <1>3 DEF CacheInv
    <3>2. CASE i = k + 1
      <4>1. chain'[i].state[m] = chain[k].state[m]
        BY <3>2, <2>4, <1>1, <1>3, <1>4 DEF CacheInv
      <4> QED
        BY <4>1, <2>4, <1>1 DEF CacheInv
    <3> QED
      BY <3>1, <3>2, <1>4
  <2>5. \A m \in Markets : Settled(m)' <=> Settled(m)
    BY <1>5 DEF Settled
  <2>6. ASSUME NEW m \in Pairs
        PROVE  cache[m] <= mined + 1
    <3>1. cache[m] \in Int /\ cache[m] <= mined
      BY <2>2
    <3> QED
      BY <3>1, <1>4
  <2>7. \A m \in Markets : Settled(m) => cache[m] >= 0 /\ m \in reread
    BY <1>1 DEF CacheInv
  <2>8. (\A m \in Static : cache[m] = 0) /\ (pc # "update" => pending = {})
    BY <1>1 DEF CacheInv
  <2> QED
    BY <2>1, <2>3, <2>4, <2>5, <2>6, <2>7, <2>8, <1>3, <1>5 DEF CacheInv, Markets
<1> QED
  BY <1>2, <1>6, <1>7 DEF PairsInv

\* What the update of one market does: a pair gets the state of the head, cETH the
\* number of a new draft on top of the head, WETH nothing.
LEMMA UpdateReads ==
    ASSUME TypeOK, LoopInv, NEW x \in Markets, UpdateMarket(x)
    PROVE  /\ UNCHANGED <<chain, mined, syncing, syncs, pc, headers, fullUpdate, info, applied>>
           /\ \A m \in Markets \ {x} : cache'[m] = cache[m]
           /\ x \in Pairs => cache'[x] = Tip.state[x] /\ drafts' = drafts
           /\ x \in Accruing => /\ drafts' = Append(drafts, Tip.id)
                               /\ cache'[x] = Len(drafts')
           /\ x \in Static => cache'[x] = 0 /\ drafts' = drafts
           /\ cache'[x] >= 0
<1> USE DEF TypeOK
<1>0. x \in Pairs \/ x \in Accruing \/ x \in Static
  BY DEF Markets
<1>1. UNCHANGED <<pc, headers, fullUpdate, info, applied>>
  BY DEF UpdateMarket
<1>2. CASE x \in Pairs
  <2>1. ReadReserves(x)
    BY <1>2, MarketsAssumption DEF UpdateMarket
  <2>2. Len(chain) \in 1 .. Len(chain)
    BY DEF NodeTypeOK
  <2>3. Tip.state[x] \in Nat
    BY <1>2, <2>2, BlockTypes DEF Tip
  <2> QED
    BY <1>1, <1>2, <2>1, <2>3, MarketsAssumption DEF ReadReserves, nodeVars
<1>3. CASE x \in Accruing
  <2>1. ReadRate(x)
    BY <1>3, MarketsAssumption DEF UpdateMarket
  <2>2. Tip.id \in Nat /\ drafts \in Seq(Nat)
    <3>1. Len(chain) \in 1 .. Len(chain) /\ NodeTypeOK
      BY DEF NodeTypeOK
    <3> QED
      BY <3>1, BlockTypes DEF Tip, NodeTypeOK
  <2>3. drafts' = Append(drafts, Tip.id) /\ Len(drafts') \in Nat
    BY <2>1, <2>2 DEF ReadRate, Draft
  <2> QED
    BY <1>1, <1>3, <2>1, <2>3, MarketsAssumption DEF ReadRate, Draft
<1>4. CASE x \in Static
  <2>1. UNCHANGED <<nodeVars, cache>>
    BY <1>4, MarketsAssumption DEF UpdateMarket
  <2> QED
    BY <1>1, <1>4, <2>1, MarketsAssumption DEF nodeVars, LoopInv, CacheInv
<1> QED
  BY <1>0, <1>2, <1>3, <1>4

\* One market is read: what a pair reads shows every change of the chain.
LEMMA UpdateStep ==
    ASSUME TypeOK, LoopInv, NEW x \in Markets, UpdateMarket(x)
    PROVE  PairsInv'
<1>1. NodeTypeOK /\ ChainInv /\ InfoInv /\ CacheInv
  BY DEF TypeOK, LoopInv
<1>2. UNCHANGED <<chain, mined, pc, fullUpdate, info, applied>>
  BY UpdateReads
<1>3. ChainInv' /\ InfoInv'
  BY <1>1, <1>2 DEF ChainInv, InfoInv, Tip
<1>4. /\ \A m \in Markets \ {x} : cache'[m] = cache[m]
      /\ \A m \in Pairs \ {x} : cache'[m] = cache[m]
  BY UpdateReads DEF Markets
<1>5. Len(chain) \in 1 .. Len(chain) /\ Len(chain) \in Nat
  BY <1>1 DEF NodeTypeOK
<1>6. /\ x \in Pairs => cache'[x] = Tip.state[x]
      /\ x \in Static => cache'[x] = 0
      /\ cache'[x] >= 0
  BY UpdateReads
<1>7. ASSUME x \in Pairs
      PROVE
      /\ Tip.state[x] \in Nat
      /\ Tip.state[x] <= mined
      /\ \A i \in 1 .. Len(chain) : chain[i].state[x] <= Tip.state[x]
      /\ \A i \in 1 .. Len(chain) :
            Tip.state[x] = chain[i].id => chain[i].state[x] = chain[i].id
  <2>1. \A i \in 1 .. Len(chain) : i <= Len(chain)
    BY <1>5
  <2> QED
    BY <1>1, <1>5, <1>7, <2>1, BlockTypes DEF Tip, ChainInv
<1>8. CacheInv'
  <2>1. applied' \subseteq 0 .. mined'
    BY <1>1, <1>2 DEF CacheInv
  <2>2. \A m \in Static : cache'[m] = 0
    BY <1>1, <1>4, <1>6 DEF CacheInv, Markets
  <2>3. \A m \in Pairs : cache'[m] <= mined
    BY <1>1, <1>4, <1>6, <1>7 DEF CacheInv
  <2>4. ASSUME NEW m \in Pairs, NEW i \in 1 .. Len(chain), NEW j \in 1 .. Len(chain),
               chain[i].id = cache'[m], i <= j
        PROVE  cache'[m] <= chain[j].state[m]
    <3>1. CASE m = x
      <4>1. chain[i].state[x] = chain[i].id
        BY <3>1, <2>4, <1>6, <1>7
      <4>2. chain[i].state[x] <= chain[j].state[x]
        BY <3>1, <2>4, <1>1 DEF ChainInv
      <4> QED
        BY <3>1, <4>1, <4>2, <2>4
    <3>2. CASE m # x
      BY <3>2, <2>4, <1>1, <1>4 DEF CacheInv
    <3> QED
      BY <3>1, <3>2
  <2>5. ASSUME NEW m \in Markets, Settled(m)'
        PROVE  /\ cache'[m] >= 0
               /\ m \in reread'
               /\ m \in Pairs => \A i \in 1 .. Len(chain) :
                     chain[i].state[m] \in applied => chain[i].state[m] <= cache'[m]
    <3>1. CASE m = x
      <4>1. x \in reread'
        BY DEF UpdateMarket
      <4> QED
        BY <3>1, <4>1, <1>6, <1>7
    <3>2. CASE m # x
      <4>1. Settled(m) /\ reread \subseteq reread'
        BY <3>2, <2>5, <1>2 DEF Settled, UpdateMarket
      <4> QED
        BY <3>2, <4>1, <1>1, <1>4 DEF CacheInv
    <3> QED
      BY <3>1, <3>2
  <2>6. pc' = "update"
    BY <1>2 DEF UpdateMarket
  <2> QED
    BY <2>1, <2>2, <2>3, <2>4, <2>5, <2>6, <1>2 DEF CacheInv, Markets
<1> QED
  BY <1>3, <1>8 DEF PairsInv

\* The logs of a block are handed to an update: the pairs they do not name
\* have not been changed by that block.
LEMMA StartUpdateStep ==
    ASSUME TypeOK, LoopInv, StartUpdate
    PROVE  PairsInv'
<1>1. NodeTypeOK /\ ChainInv /\ InfoInv /\ CacheInv
  BY DEF TypeOK, LoopInv
<1>2. UNCHANGED <<chain, mined, fullUpdate, info, cache, reread>>
  BY DEF StartUpdate, nodeVars
<1>3. ChainInv' /\ InfoInv'
  BY <1>1, <1>2 DEF ChainInv, InfoInv, Tip
<1>4. /\ pc = "info" /\ pc' = "update"
      /\ "logs" \in info.answered
      /\ applied' = applied \union {info.id}
      /\ pending' = IF fullUpdate THEN Markets ELSE Delta(info.logs)
      /\ pending = {}
  BY <1>1 DEF StartUpdate, Joined, Requests, CacheInv
<1>5. info.id \in Nat /\ info.id <= mined
  BY <1>1 DEF TypeOK, InfoInv
<1>6. applied' \subseteq 0 .. mined
  <2>1. info.id \in 0 .. mined
    BY <1>1, <1>5 DEF NodeTypeOK
  <2> QED
    BY <2>1, <1>1, <1>4 DEF CacheInv
<1>7. ASSUME NEW m \in Markets, Settled(m)'
      PROVE  /\ cache[m] >= 0
             /\ m \in reread
             /\ m \in Pairs => \A i \in 1 .. Len(chain) :
                   chain[i].state[m] \in applied' => chain[i].state[m] <= cache[m]
  <2>1. Settled(m) /\ m \notin info.logs
    BY <1>7, <1>4, <1>2 DEF Settled, Delta
  <2>2. ASSUME m \in Pairs, NEW i \in 1 .. Len(chain), chain[i].state[m] = info.id
        PROVE  chain[i].state[m] <= cache[m]
    BY <2>1, <2>2, <1>1, <1>4 DEF InfoInv, CacheInv
  <2> QED
    BY <2>1, <2>2, <1>1, <1>4 DEF CacheInv
<1>8. CacheInv'
  BY <1>1, <1>2, <1>4, <1>6, <1>7 DEF CacheInv, Markets
<1> QED
  BY <1>3, <1>8 DEF PairsInv

LEMMA AnswerLogsStep ==
    ASSUME TypeOK, LoopInv, AnswerLogs
    PROVE  PairsInv'
<1>1. NodeTypeOK /\ ChainInv /\ InfoInv /\ CacheInv
  BY DEF TypeOK, LoopInv
<1>2. UNCHANGED <<chain, mined, pc, fullUpdate, pending, cache, applied, reread>>
  BY DEF AnswerLogs, Answer, nodeVars
<1>3. ChainInv' /\ CacheInv'
  BY <1>1, <1>2 DEF ChainInv, CacheInv, Settled, Tip
<1>4. info'.id = Tip.id /\ info'.logs = Tip.logs
  BY DEF AnswerLogs, Answer, TypeOK
<1>5. Len(chain) \in 1 .. Len(chain)
  BY <1>1 DEF NodeTypeOK
<1>6. Tip.id <= mined
  BY <1>1, <1>5 DEF ChainInv, Tip
<1>7. \A i \in 1 .. Len(chain), m \in Pairs :
         chain[i].state[m] = Tip.id => Tip.id = 0 \/ m \in Tip.logs
  BY <1>1, <1>5 DEF ChainInv, Tip
<1>8. InfoInv'
  BY <1>2, <1>4, <1>6, <1>7 DEF InfoInv
<1> QED
  BY <1>3, <1>8 DEF PairsInv

LEMMA PairsStep == TypeOK /\ LoopInv /\ [Next]_vars => PairsInv'
<1> SUFFICES ASSUME TypeOK, LoopInv, [Next]_vars PROVE PairsInv'
  OBVIOUS
<1>0. NodeTypeOK /\ ChainInv /\ InfoInv /\ CacheInv
  BY DEF TypeOK, LoopInv
<1>1. CASE \E k \in 1 .. Len(chain), S \in SUBSET Pairs : Import(k, S)
  BY <1>1, ImportStep
\* The chain and its ids stay as they are in every other step.
<1>2. ASSUME UNCHANGED <<chain, mined>>
      PROVE  ChainInv'
  BY <1>0, <1>2 DEF ChainInv, Tip
<1>3. ASSUME UNCHANGED <<chain, mined, info>>
      PROVE  InfoInv'
  BY <1>0, <1>3 DEF InfoInv
<1>4. ASSUME UNCHANGED <<chain, mined, cache, applied, reread>>, pending' = {},
             \A m \in Markets : Settled(m)' => Settled(m)
      PROVE  CacheInv'
  BY <1>0, <1>4 DEF CacheInv, Markets
<1>5. CASE NodeSyncs
  <2>1. UNCHANGED <<chain, mined, botVars>>
    BY <1>5 DEF NodeSyncs, FallBehind, CatchUp
  <2>2. CacheInv'
    BY <2>1, <1>0 DEF botVars, CacheInv, Settled
  <2>3. InfoInv'
    BY <2>1, <1>3 DEF botVars
  <2> QED
    BY <2>1, <2>2, <2>3, <1>2 DEF PairsInv
<1>6. CASE StreamEnds
  <2>1. UNCHANGED <<chain, mined, info, cache, applied, reread>> /\ pending' = {}
    BY <1>6, <1>0 DEF StreamEnds, nodeVars, CacheInv
  <2>2. \A m \in Markets : ~Settled(m)'
    BY <1>6 DEF StreamEnds, Settled
  <2> QED
    BY <2>1, <2>2, <1>2, <1>3, <1>4 DEF PairsInv
<1>7. CASE RequestFails
  <2>1. UNCHANGED <<chain, mined, info, cache, applied, reread>> /\ pending' = {}
    BY <1>7 DEF RequestFails, nodeVars
  <2>2. \A m \in Markets : ~Settled(m)'
    BY <1>7 DEF RequestFails, Settled
  <2> QED
    BY <2>1, <2>2, <1>2, <1>3, <1>4 DEF PairsInv
<1>8. CASE Restart
  <2>1. UNCHANGED <<chain, mined>>
    BY <1>8 DEF Restart, nodeVars
  <2>2. /\ pc' = "wait" /\ fullUpdate' = TRUE /\ info' = NoInfo
        /\ pending' = {} /\ cache' = NewCache /\ applied' = {}
    BY <1>8 DEF Restart, StartProcess
  <2>3. mined \in Nat
    BY <1>0 DEF NodeTypeOK
  <2>4. InfoInv'
    BY <2>1, <2>2, <2>3 DEF InfoInv, NoInfo
  <2>5. \A m \in Markets : ~Settled(m)'
    BY <2>2 DEF Settled
  <2>6. \A m \in Markets : cache'[m] = IF m \in Static THEN 0 ELSE -1
    BY <2>2 DEF NewCache, Unread
  <2>7. /\ \A m \in Static : cache'[m] = 0
        /\ \A m \in Pairs : cache'[m] <= mined
    BY <2>3, <2>6 DEF Markets
  <2>8. ASSUME NEW m \in Pairs, NEW i \in 1 .. Len(chain), NEW j \in 1 .. Len(chain),
               chain[i].id = cache'[m]
        PROVE  cache'[m] <= chain[j].state[m]
    <3>1. chain[i].id \in Nat /\ chain[j].state[m] \in Nat
      BY <1>0, BlockTypes
    <3> QED
      BY <3>1, <2>6, <2>8 DEF Markets
  <2>9. CacheInv'
    BY <2>1, <2>2, <2>5, <2>7, <2>8 DEF CacheInv, Markets
  <2> QED
    BY <2>1, <2>4, <2>9, <1>2 DEF PairsInv
<1>9. CASE NextHeader
  <2>1. UNCHANGED <<chain, mined, fullUpdate, cache, applied, reread, pending>>
    BY <1>9 DEF NextHeader, nodeVars
  <2>2. pc = "wait" /\ pc' = "info" /\ info' = NoInfo /\ pending = {}
    BY <1>9, <1>0 DEF NextHeader, CacheInv
  <2>3. mined \in Nat
    BY <1>0 DEF NodeTypeOK
  <2>4. InfoInv'
    BY <2>1, <2>2, <2>3 DEF InfoInv, NoInfo
  <2>5. \A m \in Markets : Settled(m)' => Settled(m)
    BY <2>1, <2>2 DEF Settled
  <2> QED
    BY <2>1, <2>2, <2>4, <2>5, <1>2, <1>4 DEF PairsInv
<1>10. CASE AnswerBlock \/ AnswerSyncing
  <2>1. UNCHANGED <<chain, mined, pc, fullUpdate, cache, applied, reread, pending>>
    BY <1>10 DEF AnswerBlock, AnswerSyncing, Answer, nodeVars
  <2>2. /\ info'.id = info.id /\ info'.logs = info.logs
        /\ "logs" \in info'.answered => "logs" \in info.answered
    BY <1>10 DEF AnswerBlock, AnswerSyncing, Answer, TypeOK
  <2>3. InfoInv'
    BY <2>1, <2>2, <1>0 DEF InfoInv
  <2>4. CacheInv'
    BY <2>1, <1>0 DEF CacheInv, Settled
  <2> QED
    BY <2>1, <2>3, <2>4, <1>2 DEF PairsInv
<1>11. CASE AnswerLogs
  BY <1>11, AnswerLogsStep
<1>12. CASE SkipBlock
  <2>1. /\ UNCHANGED <<chain, mined, info, cache, applied>>
        /\ pc' = "wait" /\ fullUpdate' = TRUE /\ pending' = {}
    BY <1>12, <1>0 DEF SkipBlock, nodeVars, CacheInv
  <2>2. \A m \in Markets : ~Settled(m)'
    BY <2>1 DEF Settled
  <2>3. CacheInv'
    BY <2>1, <2>2, <1>0 DEF CacheInv, Markets
  <2> QED
    BY <2>1, <2>3, <1>2, <1>3 DEF PairsInv
<1>13. CASE StartUpdate
  BY <1>13, StartUpdateStep
<1>14. CASE \E m \in Markets : UpdateMarket(m)
  BY <1>14, UpdateStep
<1>15. CASE StartSearch
  <2>1. /\ UNCHANGED <<chain, mined, info, cache, applied, reread>>
        /\ pc = "update" /\ pc' = "search" /\ pending = {} /\ pending' = {}
    BY <1>15 DEF StartSearch, AllUpdated, nodeVars
  <2>2. \A m \in Markets : Settled(m)' => Settled(m)
    BY <2>1 DEF Settled
  <2> QED
    BY <2>1, <2>2, <1>2, <1>3, <1>4 DEF PairsInv
<1>16. CASE EndSearch \/ SearchHangs
  <2>1. /\ UNCHANGED <<chain, mined, info, cache, applied, reread>>
        /\ pc = "search" /\ pending = {} /\ pending' = {}
    BY <1>16, <1>0 DEF EndSearch, SearchHangs, nodeVars, CacheInv
  <2>2. \A m \in Markets : Settled(m)' => Settled(m)
    BY <2>1 DEF Settled
  <2> QED
    BY <2>1, <2>2, <1>2, <1>3, <1>4 DEF PairsInv
<1>17. CASE UNCHANGED vars
  <2>1. UNCHANGED <<chain, mined, info, pc, fullUpdate, cache, applied, reread, pending>>
    BY <1>17 DEF vars, nodeVars, botVars
  <2>2. CacheInv'
    BY <2>1, <1>0 DEF CacheInv, Settled
  <2> QED
    BY <2>1, <2>2, <1>2, <1>3 DEF PairsInv
<1> QED
  BY <1>1, <1>5, <1>6, <1>7, <1>8, <1>9, <1>10, <1>11, <1>12, <1>13, <1>14, <1>15,
     <1>16, <1>17 DEF Next, Environment, Bot

-----------------------------------------------------------------------------
\* A rate once read is the number of a draft, which stays on top of its block.
LEMMA RateStep == TypeOK /\ LoopInv /\ [Next]_vars => RateInv'
<1> SUFFICES ASSUME TypeOK, LoopInv, [Next]_vars PROVE RateInv'
  OBVIOUS
<1>0. /\ NodeTypeOK /\ RateInv /\ mined \in Nat /\ Tip.id = mined
      /\ drafts \in Seq(Nat) /\ Len(drafts) \in Nat
      /\ info.id \in Nat /\ info.id <= mined
  BY DEF TypeOK, NodeTypeOK, LoopInv, ChainInv, InfoInv
<1>1. \A i \in 1 .. Len(drafts) : drafts[i] \in Nat /\ drafts[i] <= mined
  BY <1>0 DEF RateInv
\* No rate is read; an iteration that has rates keeps its logs and its updates.
<1>2. ASSUME UNCHANGED <<drafts, cache>>, mined' \in Nat, mined' >= mined,
             pc' \in {"update", "search", "hung"} =>
                \/ pc \in {"update", "search", "hung"} /\ UNCHANGED <<info, pending>>
                \/ Accruing \subseteq pending'
      PROVE  RateInv'
  <2>1. \A i \in 1 .. Len(drafts) : drafts[i] <= mined'
    BY <1>0, <1>1, <1>2
  <2>2. \A m \in Accruing : cache[m] \in {Unread} \union 1 .. Len(drafts)
    BY <1>0 DEF RateInv
  <2>3. ASSUME pc' \in {"update", "search", "hung"}, NEW m \in Accruing \ pending'
        PROVE  RateSince(m, info.id)'
    <3>1. pc \in {"update", "search", "hung"} /\ UNCHANGED <<info, pending>>
      BY <1>2, <2>3
    <3> QED
      BY <1>0, <1>2, <2>3, <3>1 DEF RateInv, RateSince
  <2> QED
    BY <1>2, <2>1, <2>2, <2>3 DEF RateInv
<1>3. CASE \E k \in 1 .. Len(chain), S \in SUBSET Pairs : Import(k, S)
  <2>1. PICK k \in 1 .. Len(chain), S \in SUBSET Pairs : Import(k, S)
    BY <1>3
  <2>2. mined' = mined + 1 /\ drafts' = drafts /\ UNCHANGED <<pc, info, pending, cache>>
    BY <2>1 DEF Import, NewHead
  <2> QED
    BY <1>0, <1>2, <2>2
<1>4. CASE NodeSyncs
  BY <1>0, <1>2, <1>4 DEF NodeSyncs, FallBehind, CatchUp, botVars
<1>5. CASE \/ StreamEnds \/ RequestFails \/ NextHeader \/ SkipBlock
           \/ AnswerBlock \/ AnswerLogs \/ AnswerSyncing
  <2>1. UNCHANGED <<nodeVars, cache>> /\ pc' \in {"wait", "info", "exited"}
    BY <1>5 DEF StreamEnds, RequestFails, NextHeader, SkipBlock,
       AnswerBlock, AnswerLogs, AnswerSyncing, Answer
  <2> QED
    BY <1>0, <1>2, <2>1 DEF nodeVars
<1>6. CASE Restart
  <2>1. UNCHANGED nodeVars /\ cache' = NewCache /\ pc' = "wait"
    BY <1>6 DEF Restart, StartProcess
  <2>2. \A m \in Accruing : cache'[m] = Unread
    BY <2>1, MarketsAssumption DEF NewCache, Markets
  <2> QED
    BY <1>0, <2>1, <2>2 DEF RateInv, nodeVars
<1>7. CASE StartUpdate
  <2>1. UNCHANGED <<nodeVars, cache>> /\ Accruing \subseteq pending'
    BY <1>7 DEF StartUpdate, Delta, Markets
  <2> QED
    BY <1>0, <1>2, <2>1 DEF nodeVars
<1>8. CASE StartSearch \/ SearchHangs
  <2>1. /\ UNCHANGED <<nodeVars, cache, info, pending>>
        /\ pc \in {"update", "search"}
    BY <1>8 DEF StartSearch, SearchHangs
  <2> QED
    BY <1>0, <1>2, <2>1 DEF nodeVars
<1>9. CASE EndSearch
  <2>1. UNCHANGED <<nodeVars, cache>> /\ pc' = "wait"
    BY <1>9 DEF EndSearch
  <2> QED
    BY <1>0, <1>2, <2>1 DEF nodeVars
<1>10. CASE \E m \in Markets : UpdateMarket(m)
  <2>1. PICK x \in Markets : UpdateMarket(x)
    BY <1>10
  <2>2. /\ UNCHANGED <<mined, pc, info>> /\ pc = "update"
        /\ pending' = pending \ {x}
        /\ \A m \in Accruing \ {x} : cache'[m] = cache[m]
    BY <2>1, UpdateReads DEF UpdateMarket, Markets
  <2>3. CASE x \notin Accruing
    <3>1. drafts' = drafts
      BY <2>1, <2>3, UpdateReads DEF Markets
    <3> QED
      BY <1>0, <2>2, <2>3, <3>1 DEF RateInv, RateSince
  <2>4. CASE x \in Accruing
    <3>1. drafts' = Append(drafts, mined) /\ cache'[x] = Len(drafts')
      BY <1>0, <2>1, <2>4, UpdateReads
    <3>2. /\ Len(drafts') = Len(drafts) + 1
          /\ drafts'[Len(drafts) + 1] = mined
          /\ \A i \in 1 .. Len(drafts) : drafts'[i] = drafts[i]
      BY <1>0, <3>1
    <3>3. \A i \in 1 .. Len(drafts') : drafts'[i] <= mined
      BY <1>0, <1>1, <3>2
    <3>4. \A m \in Accruing : cache'[m] \in {Unread} \union 1 .. Len(drafts')
      BY <1>0, <2>2, <3>1, <3>2 DEF RateInv
    <3>5. ASSUME NEW m \in Accruing \ pending'
          PROVE  RateSince(m, info.id)'
      <4>1. CASE m = x
        BY <1>0, <2>2, <3>1, <3>2, <4>1 DEF RateSince, Unread
      <4>2. CASE m # x
        <5>1. RateSince(m, info.id) /\ cache'[m] = cache[m] /\ cache[m] \in 1 .. Len(drafts)
          BY <1>0, <2>2, <3>5, <4>2 DEF RateInv, RateSince
        <5> QED
          BY <2>2, <3>2, <5>1 DEF RateSince
      <4> QED
        BY <4>1, <4>2
    <3> QED
      BY <2>2, <3>3, <3>4, <3>5 DEF RateInv
  <2> QED
    BY <2>3, <2>4
<1>11. CASE UNCHANGED vars
  BY <1>0, <1>2, <1>11 DEF vars, nodeVars, botVars
<1> QED
  BY <1>3, <1>4, <1>5, <1>6, <1>7, <1>8, <1>9, <1>10, <1>11 DEF Next, Environment, Bot

LEMMA InvStep == TypeOK /\ LoopInv /\ [Next]_vars => LoopInv'
  BY PairsStep, RateStep DEF LoopInv, PairsInv

\* The inductive invariant: along the chain the states of a pair only grow, the cache of
\* a settled pair shows every applied block, and a rate is read after the logs.
THEOREM LoopInvariant == Spec => []LoopInv
<1> QED
  BY TypeInit, TypeStep, InvInit, InvStep, PTL DEF Spec

\* While search() runs, a pair is stale only if the block that changed it last was
\* never handed to an update, or if the block it was read from is no longer in the
\* chain, and the rate of cETH is not older than the logs that were used: the loop
\* loses nothing that it was told about.
THEOREM StaleOnlyWhenMissed == Spec => []StaleOnlyIfMissed
<1>1. ASSUME TypeOK, LoopInv, pc = "search", NEW m \in Pairs, Stale(m),
             Tip.state[m] \in applied
      PROVE  Orphaned(cache[m])
  <2>1. NodeTypeOK /\ CacheInv /\ Len(chain) \in 1 .. Len(chain)
    BY <1>1 DEF TypeOK, LoopInv, NodeTypeOK
  <2>2. Settled(m) /\ m \in Markets
    BY <2>1, <1>1 DEF Settled, CacheInv, Markets
  <2>3. Tip.state[m] <= cache[m] /\ Tip.state[m] \in Nat /\ cache[m] \in Int
    BY <2>1, <2>2, <1>1, BlockTypes DEF CacheInv, Tip, TypeOK
  <2>4. Tip.state[m] < cache[m]
    BY <2>3, <1>1 DEF Stale
  <2>5. ASSUME NEW i \in 1 .. Len(chain), chain[i].id = cache[m]
        PROVE  FALSE
    <3>1. i <= Len(chain)
      BY <2>1
    <3>2. cache[m] <= Tip.state[m]
      BY <3>1, <2>1, <2>5 DEF CacheInv, Tip
    <3> QED
      BY <3>2, <2>3, <2>4
  <2> QED
    BY <2>5 DEF Orphaned
<1>2. ASSUME LoopInv, pc = "search", NEW m \in Accruing
      PROVE  RateSince(m, info.id)
  BY <1>2 DEF LoopInv, RateInv, CacheInv
<1>3. TypeOK /\ LoopInv => StaleOnlyIfMissed
  BY <1>1, <1>2 DEF StaleOnlyIfMissed
<1> QED
  BY <1>3, TypeCorrect, LoopInvariant, PTL

\* search() never runs on a market that was not read since the process started
\* and since the client last reported that it is syncing.
THEOREM RereadBeforeSearch == Spec => []RereadSinceSync
<1>1. ASSUME TypeOK, LoopInv, pc = "search"
      PROVE  reread = Markets
  <2>1. \A m \in Markets : Settled(m)
    BY <1>1 DEF Settled, LoopInv, CacheInv
  <2> QED
    BY <2>1, <1>1 DEF LoopInv, CacheInv, TypeOK
<1>2. TypeOK /\ LoopInv => RereadSinceSync
  BY <1>1 DEF RereadSinceSync
<1> QED
  BY <1>2, TypeCorrect, LoopInvariant, PTL

\* The queue holds a header, or the head it announced, or a later one, is still to be
\* asked about or was asked about last.
HeadsInv ==
    /\ announced <= mined
    /\ \/ headers > 0
       \/ pc = "exited"
       \/ pc = "info" /\ "logs" \notin info.answered
       \/ info.id >= announced

LEMMA HeadsInit == Init => HeadsInv
  BY DEF Init, NodeInit, NoInfo, HeadsInv

LEMMA HeadsStep == TypeOK /\ LoopInv /\ HeadsInv /\ [Next]_vars => HeadsInv'
<1> SUFFICES ASSUME TypeOK, LoopInv, HeadsInv, [Next]_vars PROVE HeadsInv'
  OBVIOUS
<1>1. /\ NodeTypeOK /\ mined \in Nat /\ announced \in Nat /\ headers \in Nat
      /\ info.id \in Nat /\ Tip.id = mined
  BY DEF TypeOK, NodeTypeOK, LoopInv, ChainInv
\* Neither the chain nor what was announced changes, and what is asked is not less.
<1>2. ASSUME UNCHANGED <<mined, announced>>,
             \/ headers' > 0
             \/ pc' = "exited"
             \/ pc' = "info" /\ "logs" \notin info'.answered
             \/ info'.id >= announced
      PROVE  HeadsInv'
  BY <1>2 DEF HeadsInv
<1>3. CASE \E k \in 1 .. Len(chain), S \in SUBSET Pairs : Import(k, S)
  <2>1. PICK k \in 1 .. Len(chain), S \in SUBSET Pairs : Import(k, S)
    BY <1>3
  <2>2. mined' = mined + 1
    BY <2>1 DEF Import, NewHead
  <2>4. /\ UNCHANGED <<pc, info>>
        /\ \/ headers' = headers /\ announced' = announced
           \/ headers' = headers + 1 /\ announced' = mined'
    BY <2>1 DEF Import
  <2> QED
    BY <1>1, <2>2, <2>4 DEF HeadsInv
<1>4. CASE NodeSyncs
  BY <1>2, <1>4 DEF NodeSyncs, FallBehind, CatchUp, botVars, HeadsInv
<1>5. CASE StreamEnds \/ RequestFails
  BY <1>2, <1>5 DEF StreamEnds, RequestFails, nodeVars
<1>6. CASE Restart
  <2>1. announced' = 0 /\ info' = NoInfo /\ UNCHANGED mined
    BY <1>6 DEF Restart, StartProcess, nodeVars
  <2> QED
    BY <1>1, <2>1 DEF HeadsInv, NoInfo
<1>7. CASE NextHeader
  BY <1>2, <1>7 DEF NextHeader, NoInfo, nodeVars
<1>8. CASE AnswerBlock \/ AnswerSyncing
  <2>1. /\ UNCHANGED <<nodeVars, pc, headers, announced>> /\ pc = "info"
        /\ info'.id = info.id
        /\ "logs" \in info'.answered <=> "logs" \in info.answered
    BY <1>8 DEF AnswerBlock, AnswerSyncing, Answer, TypeOK
  <2> QED
    BY <1>2, <2>1 DEF HeadsInv, nodeVars
<1>9. CASE AnswerLogs
  <2>1. UNCHANGED <<nodeVars, announced>> /\ info'.id = Tip.id
    BY <1>9 DEF AnswerLogs, Answer, TypeOK
  <2> QED
    BY <1>1, <1>2, <2>1 DEF HeadsInv, nodeVars
<1>10. CASE SkipBlock \/ StartUpdate
  <2>1. /\ UNCHANGED <<nodeVars, headers, info, announced>>
        /\ pc = "info" /\ "logs" \in info.answered
    BY <1>10 DEF SkipBlock, StartUpdate, Joined, Requests
  <2> QED
    BY <1>2, <2>1 DEF HeadsInv, nodeVars
<1>11. CASE (\E m \in Markets : UpdateMarket(m)) \/ StartSearch \/ EndSearch \/ SearchHangs
  <2>1. /\ UNCHANGED <<mined, headers, info, announced>>
        /\ pc \in {"update", "search"}
    BY <1>11, UpdateReads DEF UpdateMarket, StartSearch, EndSearch, SearchHangs, nodeVars
  <2> QED
    BY <1>2, <2>1 DEF HeadsInv
<1>12. CASE UNCHANGED vars
  BY <1>2, <1>12 DEF vars, nodeVars, botVars, HeadsInv
<1> QED
  BY <1>3, <1>4, <1>5, <1>6, <1>7, <1>8, <1>9, <1>10, <1>11, <1>12
     DEF Next, Environment, Bot

\* The loop (lib.rs:279) waits with an empty queue only if its last iteration asked the
\* client at the last head that was announced to it, or later: the part of
\* EveryHeadServed that does not depend on fairness, for any chain, reorganisations,
\* failures and restarts.
THEOREM HeadsAreNotForgotten == Spec => []NoHeadIsForgotten
<1>1. TypeOK /\ HeadsInv => NoHeadIsForgotten
  BY DEF TypeOK, HeadsInv, NoHeadIsForgotten
<1> QED
  BY <1>1, TypeCorrect, LoopInvariant, HeadsInit, HeadsStep, PTL DEF Spec

-----------------------------------------------------------------------------
LEMMA QuietIsSpec == QuietSpec => Spec
<1>1. [QuietNext]_vars /\ TypeOK => [Next]_vars
  <2> SUFFICES ASSUME [QuietNext]_vars, TypeOK PROVE [Next]_vars
    OBVIOUS
  <2>1. CASE \E S \in SUBSET Pairs : QuietImport(S)
    <3>1. PICK S \in SUBSET Pairs : Import(Len(chain), S)
      BY <2>1 DEF QuietImport
    <3>2. Len(chain) \in 1 .. Len(chain)
      BY DEF TypeOK, NodeTypeOK
    <3> QED
      BY <3>1, <3>2 DEF Next, Environment
  <2> QED
    BY <2>1 DEF QuietNext, Next, Environment
<1> QED
  BY <1>1, TypeInit, TypeStep, PTL DEF QuietSpec, Spec

\* What a block does on top of the head: the head becomes the parent, and a pair that
\* was not stale is so only if the block names it and its parent has what the graph has.
LEMMA QuietImportShape ==
    ASSUME TypeOK, LoopInv, NEW S \in SUBSET Pairs, QuietImport(S)
    PROVE  /\ headers = 0
           /\ headers' = IF pc = "exited" THEN 0 ELSE 1
           /\ mined' = mined + 1 /\ mined \in Nat
           /\ Parent' = Tip /\ Tip.id = mined
           /\ UNCHANGED <<pc, fullUpdate, info, pending, cache, drafts>>
           /\ \A m \in Pairs : Stale(m)' => Stale(m) \/ pc = "exited" \/ Announced(m)'
<1>1. NodeTypeOK /\ Len(chain) \in 1 .. Len(chain) /\ NewHead(Len(chain), S)
  BY DEF TypeOK, NodeTypeOK, QuietImport, Import
<1>2. UNCHANGED <<pc, fullUpdate, info, pending, cache>> /\ headers = 0
  BY DEF QuietImport, Import
<1>3. headers' = IF pc = "exited" THEN 0 ELSE 1
  BY DEF QuietImport, Import
<1>4. /\ Len(chain') = Len(chain) + 1
      /\ chain'[Len(chain)] = chain[Len(chain)]
      /\ chain'[Len(chain) + 1].logs = S
      /\ \A m \in Pairs :
            chain'[Len(chain) + 1].state[m] =
               IF m \in S THEN mined + 1 ELSE chain[Len(chain)].state[m]
      /\ mined' = mined + 1 /\ drafts' = drafts
  BY <1>1, NewHeadBlock, NewHeadShape
<1>5. Tip' = chain'[Len(chain) + 1] /\ Parent' = Tip
  <2>1. Len(chain) \in Nat /\ Len(chain) + 1 # 1 /\ Len(chain) + 1 - 1 = Len(chain)
    BY <1>1
  <2> QED
    BY <1>4, <2>1 DEF Tip, Parent
<1>6. ASSUME NEW m \in Pairs, Stale(m)', ~Stale(m), pc # "exited"
      PROVE  Announced(m)'
  <2>1. cache'[m] = Tip.state[m] /\ cache'[m] # Tip'.state[m]
    BY <1>2, <1>6 DEF Stale
  <2>2. m \in S
    BY <2>1, <1>4, <1>5 DEF Tip
  <2>3. headers' > 0 /\ m \in Tip'.logs /\ cache'[m] = Parent'.state[m]
    BY <2>1, <2>2, <1>3, <1>4, <1>5, <1>6
  <2> QED
    BY <2>3 DEF Announced
<1>7. Tip.id = mined /\ mined \in Nat
  BY <1>1 DEF LoopInv, ChainInv, NodeTypeOK
<1> QED
  BY <1>2, <1>3, <1>4, <1>5, <1>6, <1>7

LEMMA QuietImportStep ==
    ASSUME TypeOK, LoopInv, QuietInv, NEW S \in SUBSET Pairs, QuietImport(S)
    PROVE  QuietInv'
<1>1. /\ headers = 0
      /\ headers' = IF pc = "exited" THEN 0 ELSE 1
      /\ mined' = mined + 1 /\ mined \in Nat
      /\ Parent' = Tip /\ Tip.id = mined
      /\ UNCHANGED <<pc, fullUpdate, info, pending, cache>>
      /\ \A m \in Pairs : Stale(m)' => Stale(m) \/ pc = "exited" \/ Announced(m)'
  BY QuietImportShape
<1>2. \A m \in Pairs : ~Announced(m)
  BY <1>1 DEF Announced
<1>3. headers' \in {0, 1} /\ (headers' > 0 => Parent'.id = mined' - 1)
  BY <1>1
<1>4. pc = "info" => "logs" \in info.answered
  BY DEF QuietImport
<1>5. info.id \in Nat
  BY DEF TypeOK
<1>6. pc # "exited" /\ info.id >= mined - headers => info.id >= mined' - headers'
  BY <1>1, <1>5
<1>7. ASSUME pc = "wait", ~fullUpdate, NEW m \in Pairs, Stale(m)'
      PROVE  Announced(m)'
  BY <1>1, <1>2, <1>7 DEF QuietInv
<1>8. ASSUME pc = "info"
      PROVE  /\ info.id >= mined' - headers'
             /\ ~fullUpdate => \A m \in Pairs : Stale(m)' => m \in info.logs \/ Announced(m)'
  BY <1>1, <1>2, <1>4, <1>6, <1>8 DEF QuietInv
<1>9. ASSUME pc \in {"update", "search", "hung"}
      PROVE  /\ info.id >= mined' - headers'
             /\ \A m \in Pairs : Stale(m)' => m \in pending \/ Announced(m)'
  BY <1>1, <1>2, <1>6, <1>9 DEF QuietInv
<1> QED
  BY <1>1, <1>3, <1>4, <1>7, <1>8, <1>9 DEF QuietInv

LEMMA QuietInvInit == Init => QuietInv
  BY DEF Init, QuietInv

LEMMA QuietInvStep ==
    ASSUME TypeOK, LoopInv, QuietInv, [QuietNext]_vars
    PROVE  QuietInv'
<1>0. mined \in Nat /\ headers \in {0, 1} /\ Tip.id = mined
  BY DEF TypeOK, NodeTypeOK, QuietInv, LoopInv, ChainInv
\* The chain and the graph do not change in most steps.
<1>A. ASSUME UNCHANGED <<chain, mined, cache, headers>>
      PROVE  /\ UNCHANGED <<Tip, Parent>>
             /\ \A m \in Pairs : Stale(m)' = Stale(m) /\ Announced(m)' = Announced(m)
  BY <1>A DEF Tip, Parent, Stale, Announced
<1>1. CASE \E S \in SUBSET Pairs : QuietImport(S)
  BY <1>1, QuietImportStep
<1>2. CASE NodeSyncs \/ UNCHANGED vars
  <2>1. UNCHANGED <<chain, mined, cache, headers, pc, fullUpdate, info, pending>>
    BY <1>2 DEF NodeSyncs, FallBehind, CatchUp, botVars, vars, nodeVars
  <2> QED
    BY <2>1, <1>A DEF QuietInv
<1>3. CASE StreamEnds \/ RequestFails
  <2>1. headers' = 0 /\ pc' = "exited"
    BY <1>3 DEF StreamEnds, RequestFails
  <2> QED
    BY <2>1 DEF QuietInv
<1>4. CASE Restart
  <2>1. headers' = 0 /\ pc' = "wait" /\ fullUpdate' = TRUE
    BY <1>4 DEF Restart, StartProcess
  <2> QED
    BY <2>1 DEF QuietInv
<1>5. CASE NextHeader
  <2>1. /\ UNCHANGED <<chain, mined, cache, fullUpdate>> /\ pc = "wait" /\ pc' = "info"
        /\ info' = NoInfo /\ headers' = 0
    BY <1>0, <1>5 DEF NextHeader, HeaderReady, nodeVars
  <2>2. ~fullUpdate => \A m \in Pairs : Stale(m)' => m \in Tip'.logs
    BY <2>1 DEF QuietInv, Stale, Announced, Tip
  <2> QED
    BY <2>1, <2>2 DEF QuietInv, NoInfo
<1>6. CASE AnswerBlock \/ AnswerSyncing
  <2>1. UNCHANGED <<chain, mined, cache, headers, fullUpdate, pc>> /\ pc = "info"
    BY <1>6 DEF AnswerBlock, AnswerSyncing, Answer, nodeVars
  <2>2. /\ info'.logs = info.logs /\ info'.id = info.id
        /\ "logs" \in info'.answered <=> "logs" \in info.answered
    BY <1>6 DEF AnswerBlock, AnswerSyncing, Answer, TypeOK
  <2> QED
    BY <2>1, <2>2, <1>A DEF QuietInv
<1>7. CASE AnswerLogs
  <2>1. /\ UNCHANGED <<chain, mined, cache, headers, fullUpdate, pc>> /\ pc = "info"
        /\ "logs" \notin info.answered
    BY <1>7 DEF AnswerLogs, Answer, nodeVars
  <2>2. info'.logs = Tip.logs /\ info'.id = mined /\ "logs" \in info'.answered
    BY <1>0, <1>7 DEF AnswerLogs, Answer, TypeOK
  <2>3. headers = 0 /\ (~fullUpdate => \A m \in Pairs : Stale(m) => m \in Tip.logs)
    BY <2>1 DEF QuietInv
  <2> QED
    BY <1>0, <2>1, <2>2, <2>3, <1>A DEF QuietInv
<1>8. CASE SkipBlock
  <2>1. UNCHANGED <<chain, mined, cache, headers>> /\ pc' = "wait" /\ fullUpdate' = TRUE
    BY <1>8 DEF SkipBlock, nodeVars
  <2> QED
    BY <2>1, <1>A DEF QuietInv
<1>9. CASE StartUpdate
  <2>1. /\ UNCHANGED <<chain, mined, cache, headers, info>> /\ pc = "info" /\ pc' = "update"
        /\ "logs" \in info.answered
    BY <1>9 DEF StartUpdate, Joined, Requests, nodeVars
  <2>2. \A m \in Pairs : fullUpdate \/ m \in info.logs => m \in pending'
    BY <1>9 DEF StartUpdate, Delta, Markets
  <2>3. \A m \in Pairs : Stale(m) => m \in pending' \/ Announced(m)
    BY <2>1, <2>2 DEF QuietInv
  <2>4. info.id >= mined - headers
    BY <2>1 DEF QuietInv
  <2> QED
    BY <2>1, <2>3, <2>4, <1>A DEF QuietInv
<1>10. CASE \E m \in Markets : UpdateMarket(m)
  <2>1. PICK x \in Markets : UpdateMarket(x)
    BY <1>10
  <2>2. /\ UNCHANGED <<chain, mined, headers, info, pc>> /\ pc = "update"
        /\ pending' = pending \ {x}
        /\ \A m \in Pairs \ {x} : cache'[m] = cache[m]
        /\ x \in Pairs => cache'[x] = Tip.state[x]
    BY <2>1, UpdateReads DEF UpdateMarket, Markets
  <2>3. UNCHANGED <<Tip, Parent>>
    BY <2>2 DEF Tip, Parent
  <2>4. ASSUME NEW m \in Pairs, Stale(m)'
        PROVE  m \in pending' \/ Announced(m)'
    <3>1. m # x
      BY <2>2, <2>3, <2>4 DEF Stale
    <3>2. Stale(m) /\ (Announced(m) => Announced(m)')
      BY <2>2, <2>3, <2>4, <3>1 DEF Stale, Announced
    <3> QED
      BY <2>2, <3>1, <3>2 DEF QuietInv
  <2> QED
    BY <2>2, <2>3, <2>4 DEF QuietInv
<1>11. CASE StartSearch \/ SearchHangs
  <2>1. /\ UNCHANGED <<chain, mined, cache, headers, info, pending>>
        /\ pc \in {"update", "search"} /\ pc' \in {"search", "hung"}
    BY <1>11 DEF StartSearch, SearchHangs, nodeVars
  <2> QED
    BY <2>1, <1>A DEF QuietInv
<1>12. CASE EndSearch
  <2>1. UNCHANGED <<chain, mined, cache, headers>> /\ pc = "search" /\ pc' = "wait"
    BY <1>12 DEF EndSearch, nodeVars
  <2>2. pending = {}
    BY <2>1 DEF LoopInv, CacheInv
  <2> QED
    BY <2>1, <2>2, <1>A DEF QuietInv
<1> QED
  BY <1>1, <1>2, <1>3, <1>4, <1>5, <1>6, <1>7, <1>8, <1>9, <1>10, <1>11, <1>12
     DEF QuietNext, Bot

\* What the graph lacks is named by what the loop still has to do.
THEOREM QuietInvariant == QuietSpec => [](TypeOK /\ LoopInv /\ QuietInv)
<1>1. QuietSpec => []TypeOK /\ []LoopInv
  BY QuietIsSpec, TypeCorrect, LoopInvariant, PTL
<1> QED
  BY <1>1, QuietInvInit, QuietInvStep, PTL DEF QuietSpec

\* Once all updates have returned, every market is known as it was at the head or, if a
\* header waits, one block before.
LEMMA AllUpdatedView ==
    ASSUME TypeOK, LoopInv, QuietInv, pc \in {"update", "search", "hung"}, pending = {}
    PROVE  /\ headers \in {0, 1}
           /\ \A m \in Pairs : cache[m] = Tip.state[m] \/ Announced(m)
           /\ \A m \in Accruing :
                 /\ cache[m] # Unread /\ drafts[cache[m]] \in Nat
                 /\ drafts[cache[m]] <= Tip.id
                 /\ headers = 0 => drafts[cache[m]] = Tip.id
                 /\ headers = 1 => drafts[cache[m]] \in {Parent.id, Tip.id}
           /\ \A m \in Static : cache[m] = 0
<1>1. /\ mined \in Nat /\ headers \in {0, 1} /\ Tip.id = mined
      /\ drafts \in Seq(Nat) /\ info.id \in Nat /\ info.id >= mined - headers
      /\ headers > 0 => Parent.id = mined - 1
  BY DEF TypeOK, NodeTypeOK, QuietInv, LoopInv, ChainInv
<1>2. \A m \in Pairs : cache[m] = Tip.state[m] \/ Announced(m)
  BY DEF QuietInv, Stale
<1>3. ASSUME NEW m \in Accruing
      PROVE  /\ cache[m] # Unread /\ drafts[cache[m]] \in Nat
             /\ drafts[cache[m]] <= mined /\ drafts[cache[m]] >= mined - headers
  <2>1. cache[m] # Unread /\ drafts[cache[m]] >= info.id /\ cache[m] \in 1 .. Len(drafts)
    BY DEF LoopInv, RateInv, RateSince
  <2>2. drafts[cache[m]] \in Nat /\ drafts[cache[m]] <= mined
    BY <1>1, <2>1 DEF LoopInv, RateInv
  <2> QED
    BY <1>1, <2>1, <2>2
<1>4. \A m \in Static : cache[m] = 0
  BY DEF LoopInv, CacheInv
<1> QED
  BY <1>1, <1>2, <1>3, <1>4

\* A search lacks at most the block whose header is queued; the next update of the
\* loop reads what that block changed.
THEOREM QuietSearchLacksOneBlock == QuietSpec => []LacksAtMostTheNextBlock
<1>1. ASSUME TypeOK, LoopInv, QuietInv, pc = "search"
      PROVE  LacksAtMostTheNextBlock
  <2>1. pending = {}
    BY <1>1 DEF LoopInv, CacheInv
  <2>2. mined \in Nat /\ Tip.id = mined /\ (headers > 0 => Parent.id = mined - 1)
    BY <1>1 DEF TypeOK, NodeTypeOK, LoopInv, ChainInv, QuietInv
  <2> QED
    BY <1>1, <2>1, <2>2, AllUpdatedView DEF LacksAtMostTheNextBlock, Stale, RateSince
<1>2. TypeOK /\ LoopInv /\ QuietInv => LacksAtMostTheNextBlock
  BY <1>1 DEF LacksAtMostTheNextBlock
<1> QED
  BY <1>2, QuietInvariant, PTL

-----------------------------------------------------------------------------
ViewsTyped ==
    /\ StateAt(Tip) \in Abstract!View
    /\ StateAt(Parent) \in Abstract!View
    /\ GraphView \in Abstract!View

LEMMA ViewTypes == TypeOK /\ LoopInv => ViewsTyped
<1> SUFFICES ASSUME TypeOK, LoopInv PROVE ViewsTyped
  OBVIOUS
<1>1. \A i \in 1 .. Len(chain) : StateAt(chain[i]) \in Abstract!View
  <2>1. \A i \in 1 .. Len(chain) :
           chain[i].id \in Nat /\ \A m \in Pairs : chain[i].state[m] \in Nat
    BY BlockTypes DEF TypeOK
  <2> QED
    BY <2>1 DEF StateAt, Abstract!View
<1>2. GraphView \in Abstract!View
  <2>1. ASSUME NEW m \in Accruing, cache[m] # Unread
        PROVE  drafts[cache[m]] \in Int
    <3>1. cache[m] \in 1 .. Len(drafts) /\ drafts \in Seq(Nat)
      BY <2>1 DEF LoopInv, RateInv, TypeOK, NodeTypeOK
    <3> QED
      BY <3>1
  <2> QED
    BY <2>1 DEF GraphView, Abstract!View, TypeOK
<1>3. Len(chain) \in Nat /\ Len(chain) > 0 /\ Len(chain) \in 1 .. Len(chain)
  BY DEF TypeOK, NodeTypeOK
<1>4. StateAt(Tip) \in Abstract!View
  BY <1>1, <1>3 DEF Tip
<1>5. StateAt(Parent) \in Abstract!View
  <2>1. CASE Len(chain) = 1
    BY <1>1, <2>1 DEF Parent
  <2>2. CASE Len(chain) # 1
    <3> DEFINE n == Len(chain)
    <3>1. n \in Nat /\ n > 0 /\ n # 1
      BY <1>3, <2>2
    <3> HIDE DEF n
    <3>2. n - 1 \in 1 .. n
      BY <3>1
    <3> QED
      BY <1>1, <2>2, <3>2 DEF Parent, n
  <2> QED
    BY <2>1, <2>2
<1> QED
  BY <1>2, <1>4, <1>5 DEF ViewsTyped

\* Once all updates have returned, the view is as AllUpdatedView says.
LEMMA GraphIsRecent ==
    ASSUME TypeOK, LoopInv, QuietInv, pc \in {"update", "search", "hung"}, pending = {}
    PROVE  /\ \A m \in Markets : GraphView[m] \in {StateAt(Parent)[m], StateAt(Tip)[m]}
           /\ headers = 0 => GraphView = StateAt(Tip)
<1>1. ASSUME NEW m \in Markets
      PROVE  /\ GraphView[m] \in {StateAt(Parent)[m], StateAt(Tip)[m]}
             /\ headers = 0 => GraphView[m] = StateAt(Tip)[m]
  <2>1. CASE m \in Pairs
    <3>1. GraphView[m] = cache[m]
      BY <2>1, MarketsAssumption DEF GraphView, Markets
    <3>2. StateAt(Tip)[m] = Tip.state[m] /\ StateAt(Parent)[m] = Parent.state[m]
      BY <1>1, <2>1 DEF StateAt
    <3> QED
      BY <2>1, <3>1, <3>2, AllUpdatedView DEF Announced
  <2>2. CASE m \in Accruing
    <3>1. GraphView[m] = drafts[cache[m]]
      BY <1>1, <2>2, AllUpdatedView DEF GraphView
    <3>2. StateAt(Tip)[m] = Tip.id /\ StateAt(Parent)[m] = Parent.id
      BY <1>1, <2>2, MarketsAssumption DEF StateAt
    <3> QED
      BY <2>2, <3>1, <3>2, AllUpdatedView
  <2>3. CASE m \in Static
    <3>1. GraphView[m] = cache[m]
      BY <1>1, <2>3, MarketsAssumption DEF GraphView
    <3>2. StateAt(Tip)[m] = 0
      BY <1>1, <2>3, MarketsAssumption DEF StateAt
    <3> QED
      BY <2>3, <3>1, <3>2, AllUpdatedView
  <2> QED
    BY <1>1, <2>1, <2>2, <2>3 DEF Markets
<1>2. ASSUME headers = 0 PROVE GraphView = StateAt(Tip)
  BY <1>1, <1>2 DEF GraphView, StateAt
<1> QED
  BY <1>1, <1>2

\* A step of the loop is a block (Change), a change of the graph (Refresh), the begin
\* or the end of a search, or it does not show.
LEMMA RefinementStep ==
    ASSUME TypeOK, LoopInv, QuietInv, ViewsTyped, ViewsTyped', [QuietNext]_vars
    PROVE  [Abstract!Next]_(Abstract!vars)
<1> USE DEF Abstract!Next, Abstract!vars
<1>0. /\ StateAt(Tip)' \in Abstract!View
      /\ GraphView' \in Abstract!View
  BY DEF ViewsTyped
\* The chain is what the abstract specification sees of it.
<1>1. ASSUME UNCHANGED chain
      PROVE  UNCHANGED <<StateAt(Tip), StateAt(Parent)>>
  BY <1>1 DEF StateAt, Tip, Parent
<1>2. ASSUME UNCHANGED <<cache, drafts>>
      PROVE  UNCHANGED GraphView
  BY <1>2 DEF GraphView
<1>3. pc # "update" => pending = {}
  BY DEF LoopInv, CacheInv
<1>4. CASE \E S \in SUBSET Pairs : QuietImport(S)
  <2>1. headers = 0 /\ Parent' = Tip /\ UNCHANGED <<pc, cache, drafts>>
    BY <1>4, QuietImportShape
  <2>2. StateAt(Parent)' = StateAt(Tip)
    BY <2>1 DEF StateAt
  <2>3. pc \in {"search", "hung"} => GraphView = StateAt(Tip)
    BY <1>3, <2>1, GraphIsRecent
  <2>4. UNCHANGED GraphView
    BY <1>2, <2>1
  <2> QED
    BY <1>0, <2>1, <2>2, <2>3, <2>4 DEF Abstract!Change
<1>5. CASE StartSearch
  <2>1. /\ UNCHANGED <<chain, cache, drafts>>
        /\ pc = "update" /\ pc' = "search" /\ pending = {}
    BY <1>5 DEF StartSearch, AllUpdated, nodeVars
  <2>2. \A m \in Markets : GraphView[m] \in {StateAt(Parent)[m], StateAt(Tip)[m]}
    BY <2>1, GraphIsRecent
  <2>3. UNCHANGED <<StateAt(Tip), StateAt(Parent), GraphView>>
    BY <1>1, <1>2, <2>1
  <2> QED
    BY <2>1, <2>2, <2>3 DEF Abstract!Begin
<1>6. CASE EndSearch \/ (RequestFails /\ pc = "search")
  <2>1. UNCHANGED <<chain, cache, drafts>> /\ pc = "search" /\ pc' \in {"wait", "exited"}
    BY <1>6 DEF EndSearch, RequestFails, nodeVars
  <2>2. UNCHANGED <<StateAt(Tip), StateAt(Parent), GraphView>>
    BY <1>1, <1>2, <2>1
  <2> QED
    BY <2>1, <2>2 DEF Abstract!End
<1>7. CASE Restart \/ \E m \in Markets : UpdateMarket(m)
  <2>1. UNCHANGED chain /\ pc \notin {"search", "hung"} /\ pc' \notin {"search", "hung"}
    <3>1. CASE Restart
      BY <3>1 DEF Restart, StartProcess, nodeVars
    <3>2. CASE \E m \in Markets : UpdateMarket(m)
      <4>1. UNCHANGED <<chain, pc>>
        BY <3>2, UpdateReads
      <4> QED
        BY <3>2, <4>1 DEF UpdateMarket
    <3> QED
      BY <1>7, <3>1, <3>2
  <2>2. UNCHANGED <<StateAt(Tip), StateAt(Parent)>>
    BY <1>1, <2>1
  <2> QED
    BY <1>0, <2>1, <2>2 DEF Abstract!Refresh
<1>8. CASE \/ StreamEnds
           \/ RequestFails /\ pc # "search"
           \/ NextHeader
           \/ AnswerBlock \/ AnswerLogs \/ AnswerSyncing
           \/ SkipBlock
           \/ StartUpdate
  <2>1. /\ UNCHANGED <<chain, cache, drafts>>
        /\ pc \notin {"search", "hung"} /\ pc' \notin {"search", "hung"}
    BY <1>8 DEF StreamEnds, RequestFails, NextHeader, AnswerBlock, AnswerLogs,
       AnswerSyncing, Answer, SkipBlock, StartUpdate, nodeVars
  <2>2. UNCHANGED <<StateAt(Tip), StateAt(Parent), GraphView>>
    BY <1>1, <1>2, <2>1
  <2> QED
    BY <2>1, <2>2
<1>9. CASE NodeSyncs \/ SearchHangs \/ UNCHANGED vars
  <2>1. /\ UNCHANGED <<chain, cache, drafts>>
        /\ pc' \in {"search", "hung"} <=> pc \in {"search", "hung"}
    BY <1>9 DEF NodeSyncs, FallBehind, CatchUp, SearchHangs, botVars, vars, nodeVars
  <2>2. UNCHANGED <<StateAt(Tip), StateAt(Parent), GraphView>>
    BY <1>1, <1>2, <2>1
  <2> QED
    BY <2>1, <2>2
<1> QED
  BY <1>4, <1>5, <1>6, <1>7, <1>8, <1>9 DEF QuietNext, Bot

\* The loop with its full and delta updates implements the abstract view: a search
\* sees every market as it was at the head or one block before, and its view stays.
THEOREM QuietRefinement == QuietSpec => ImplementsAtomicView
<1>1. Init => Abstract!Init
  <2> SUFFICES ASSUME Init PROVE Abstract!Init
    OBVIOUS
  <2>1. ViewsTyped /\ pc = "wait" /\ Len(chain) = 1
    BY TypeInit, InvInit, ViewTypes DEF Init, NodeInit
  <2>2. Parent = Tip
    BY <2>1 DEF Parent, Tip
  <2> QED
    BY <2>1, <2>2 DEF Abstract!Init, ViewsTyped
<1>2. TypeOK /\ LoopInv => ViewsTyped
  BY ViewTypes
<1> QED
  BY <1>1, <1>2, QuietInvariant, RefinementStep, PTL
     DEF QuietSpec, ImplementsAtomicView, Abstract!Spec
=============================================================================

------------------------------ MODULE EthNode ------------------------------
(***************************************************************************)
(* The Ethereum client behind the bundle generator's WebSocket, as far as  *)
(* src/src uses it: a chain that grows and is reorganised, the logs of     *)
(* each block, the state every market had after each block, and whether    *)
(* the client says that it is syncing.  The client is external: nothing    *)
(* here is code of the repository.                                         *)
(*                                                                         *)
(* A block is a record of its id (its hash), the pairs for which it holds  *)
(* an event log, and the state of every pair after it.  The state of a     *)
(* pair is the id of the block that changed it last, so two states of a    *)
(* pair are equal iff its reserves are.                                    *)
(*                                                                         *)
(* A call at the pending block is answered from a draft: the block that    *)
(* the client would put on top of its head with the transactions it has at *)
(* that moment.  Two answers need not come from the same draft, and no     *)
(* draft need ever become a block, so each answer is a draft of its own.   *)
(***************************************************************************)
EXTENDS Integers, Sequences

CONSTANTS
    Pairs,      \* Uniswap-like pairs: a change of their reserves emits a log
    Accruing,   \* markets whose rate moves with every block, without a log (cETH):
                \* it is read at the pending block
    Static,     \* markets whose rate never changes (WETH <-> ETH)
    MaxBlocks,  \* bound: blocks mined in a behaviour
    MaxReorg,   \* bound: blocks a new head may replace
    MaxSyncs    \* bound: how often the client falls behind

Markets == Pairs \union Accruing \union Static

ASSUME MarketsAssumption ==
    /\ Pairs \intersect Accruing = {}
    /\ Pairs \intersect Static = {}
    /\ Accruing \intersect Static = {}

ASSUME BoundsAssumption ==
    /\ MaxBlocks \in Nat
    /\ MaxReorg \in Nat
    /\ MaxSyncs \in Nat

VARIABLES
    chain,    \* the canonical chain, the genesis block first
    mined,    \* number of blocks ever mined; also the id of the last one
    drafts,   \* the drafts that answers were given from: the id of the block each
              \* one was on top of
    syncing,  \* does the client answer eth_syncing with a progress report?
    syncs     \* how often it fell behind

nodeVars == <<chain, mined, drafts, syncing, syncs>>

Block == [id : Nat, logs : SUBSET Pairs, state : [Pairs -> Nat]]

Tip == chain[Len(chain)]

Genesis == [id |-> 0, logs |-> {}, state |-> [m \in Pairs |-> 0]]

\* The block with this id that changes the pairs in S on top of base.
NewBlock(id, base, S) ==
    [id    |-> id,
     logs  |-> S,
     state |-> [m \in Pairs |-> IF m \in S THEN id ELSE base.state[m]]]

NodeInit ==
    /\ chain = <<Genesis>>
    /\ mined = 0
    /\ drafts = <<>>
    /\ syncing = FALSE
    /\ syncs = 0

\* A block that changes the pairs in S becomes the head on top of block k of
\* the chain: k = Len(chain) extends it, a smaller k is a reorganisation.
NewHead(k, S) ==
    /\ mined < MaxBlocks
    /\ k >= Len(chain) - MaxReorg
    /\ mined' = mined + 1
    /\ chain' = Append(SubSeq(chain, 1, k), NewBlock(mined + 1, chain[k], S))
    /\ UNCHANGED <<drafts, syncing, syncs>>

\* A call at the pending block is answered.
Draft ==
    /\ drafts' = Append(drafts, Tip.id)
    /\ UNCHANGED <<chain, mined, syncing, syncs>>

FallBehind ==
    /\ ~syncing
    /\ syncs < MaxSyncs
    /\ syncing' = TRUE
    /\ syncs' = syncs + 1
    /\ UNCHANGED <<chain, mined, drafts>>

CatchUp ==
    /\ syncing
    /\ syncing' = FALSE
    /\ UNCHANGED <<chain, mined, drafts, syncs>>

NodeTypeOK ==
    /\ chain \in Seq(Block)
    /\ Len(chain) > 0
    /\ mined \in Nat
    /\ drafts \in Seq(Nat)
    /\ syncing \in BOOLEAN
    /\ syncs \in Nat
=============================================================================

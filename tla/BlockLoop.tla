----------------------------- MODULE BlockLoop -----------------------------
(***************************************************************************)
(* The main loop of the bundle generator (lib.rs, loop_blocks) and the     *)
(* cache of market states it keeps in the market graph (markets.rs,        *)
(* update_all and update_delta; update() of each market).                  *)
(*                                                                         *)
(* One iteration takes a header from the subscription, asks the client     *)
(* concurrently for the latest block, its logs and its sync state, waits   *)
(* for all of them (join!), then re-reads all markets or only those the    *)
(* logs name, concurrently again (join_all), and searches.  The client     *)
(* answers each request from the head it has at that moment, and the chain *)
(* moves between any two answers.                                          *)
(***************************************************************************)
EXTENDS EthNode

CONSTANT MaxRestarts   \* bound: how often the supervisor starts the process again

ASSUME RestartsAssumption == MaxRestarts \in Nat

VARIABLES
    pc,          \* "wait", "info", "update", "search", "hung" or "exited"
    headers,     \* headers delivered by the subscription and not yet taken
    announced,   \* history: id of the last block whose header was delivered
    fullUpdate,  \* full_update
    info,        \* the BlockInfo being gathered
    pending,     \* markets whose update() has not returned in this iteration
    cache,       \* the state of each market in the graph: a pair's on the chain, and
                 \* the number of the draft that the rate of cETH was read from
    applied,     \* history: ids of the blocks whose logs were handed to an update
    reread,      \* history: markets read since the client last reported syncing
    restarts     \* how often the process was started again

botVars == <<pc, headers, announced, fullUpdate, info, pending, cache, applied, reread, restarts>>
vars == <<nodeVars, botVars>>

Requests == {"block", "logs", "syncing"}

\* A pair starts with zero reserves and cETH with a zero rate, which no answer of
\* the client gives; the rate of WETH is a constant of the code.
Unread == -1
NewCache == [m \in Markets |-> IF m \in Static THEN 0 ELSE Unread]

NoInfo == [answered |-> {}, number |-> 0, id |-> 0, logs |-> {}, syncing |-> FALSE]

\* Mutant of Delta: the comparison with always_update is left out.
DeltaOfLogsOnly(logs) == logs

\* update_delta: the markets whose delta_contracts() are in the logs, and those
\* that list the executor and are updated in every block.
Delta(logs) == logs \union Accruing

StartProcess ==
    /\ pc' = "wait"
    /\ headers' = 0
    /\ announced' = 0
    /\ fullUpdate' = TRUE
    /\ info' = NoInfo
    /\ pending' = {}
    /\ cache' = NewCache
    /\ applied' = {}
    /\ reread' = Static

Init ==
    /\ NodeInit
    /\ pc = "wait"
    /\ headers = 0
    /\ announced = 0
    /\ fullUpdate = TRUE
    /\ info = NoInfo
    /\ pending = {}
    /\ cache = NewCache
    /\ applied = {}
    /\ reread = Static
    /\ restarts = 0

-----------------------------------------------------------------------------
\* The client gets a new head and announces it to the subscriber, if there is
\* one; a client that is catching up imports blocks without announcing them.
Import(k, S) ==
    /\ NewHead(k, S)
    /\ IF syncing \/ pc = "exited"
         THEN UNCHANGED <<headers, announced>>
         ELSE headers' = headers + 1 /\ announced' = mined'
    /\ UNCHANGED <<pc, fullUpdate, info, pending, cache, applied, reread, restarts>>

NodeSyncs ==
    /\ FallBehind \/ CatchUp
    /\ UNCHANGED botVars

-----------------------------------------------------------------------------
\* Mutant of HeaderReady: an iteration starts without a header.
NoHeaderNeeded == TRUE

HeaderReady == headers > 0

\* while block_subscription.next().await.is_some(): the header itself is dropped.
NextHeader ==
    /\ pc = "wait"
    /\ HeaderReady
    /\ pc' = "info"
    /\ headers' = headers - 1
    /\ info' = NoInfo
    /\ UNCHANGED <<nodeVars, fullUpdate, pending, cache, applied, reread, restarts, announced>>

\* next() is None: the loop ends and the process with it.
StreamEnds ==
    /\ pc = "wait"
    /\ pc' = "exited"
    /\ headers' = 0
    /\ UNCHANGED <<nodeVars, fullUpdate, info, pending, cache, applied, reread, restarts, announced>>

\* The client answers one of the requests of BlockInfo::new, at its head now.
Answer(r, reply) ==
    /\ pc = "info"
    /\ r \notin info.answered
    /\ info' = [reply EXCEPT !.answered = info.answered \union {r}]
    /\ UNCHANGED <<nodeVars, pc, headers, fullUpdate, pending, cache, applied, reread,
                   restarts, announced>>

AnswerBlock   == Answer("block", [info EXCEPT !.number = Len(chain) - 1])
AnswerLogs    == Answer("logs", [info EXCEPT !.id = Tip.id, !.logs = Tip.logs])
AnswerSyncing == Answer("syncing", [info EXCEPT !.syncing = syncing])

\* Mutant of Joined: the logs are not awaited.
JoinedWithoutLogs == {"block", "syncing"} \subseteq info.answered

\* Mutant of Joined: information about a block that is no longer the head is
\* not used.
JoinedAtHead == info.answered = Requests /\ info.id = Tip.id

\* join! returns once all the requests are answered.
Joined == info.answered = Requests

\* Mutant of SkipBlock: full_update = true is left out.
SkipBlockKeepsMode ==
    /\ pc = "info"
    /\ Joined
    /\ info.syncing
    /\ pc' = "wait"
    /\ reread' = Static
    /\ UNCHANGED <<nodeVars, headers, fullUpdate, info, pending, cache, applied, restarts, announced>>

\* Mutant of SkipBlock: the headers that were delivered meanwhile are skipped too.
SkipQueue ==
    /\ pc = "info"
    /\ Joined
    /\ info.syncing
    /\ pc' = "wait"
    /\ headers' = 0
    /\ fullUpdate' = TRUE
    /\ reread' = Static
    /\ UNCHANGED <<nodeVars, info, pending, cache, applied, restarts, announced>>

\* SyncState::Syncing: nothing is searched, and the next update is a full one.
SkipBlock ==
    /\ pc = "info"
    /\ Joined
    /\ info.syncing
    /\ pc' = "wait"
    /\ fullUpdate' = TRUE
    /\ reread' = Static
    /\ UNCHANGED <<nodeVars, headers, info, pending, cache, applied, restarts, announced>>

\* SyncState::NotSyncing: update_all or update_delta pushes its updates.
StartUpdate ==
    /\ pc = "info"
    /\ Joined
    /\ ~info.syncing
    /\ pc' = "update"
    /\ pending' = IF fullUpdate THEN Markets ELSE Delta(info.logs)
    /\ applied' = applied \union {info.id}
    /\ UNCHANGED <<nodeVars, headers, fullUpdate, info, cache, reread, restarts, announced>>

\* A pair reads its reserves after the latest block.
ReadReserves(m) ==
    /\ cache' = [cache EXCEPT ![m] = Tip.state[m]]
    /\ UNCHANGED nodeVars

\* cETH reads its rate in the pending block, a state that no block need ever have.
ReadRate(m) ==
    /\ Draft
    /\ cache' = [cache EXCEPT ![m] = Len(drafts')]

\* update() of one market returns; that of WETH reads nothing.
UpdateMarket(m) ==
    /\ pc = "update"
    /\ m \in pending
    /\ pending' = pending \ {m}
    /\ \/ m \in Pairs    /\ ReadReserves(m)
       \/ m \in Accruing /\ ReadRate(m)
       \/ m \in Static   /\ UNCHANGED <<nodeVars, cache>>
    /\ reread' = reread \union {m}
    /\ UNCHANGED <<pc, headers, fullUpdate, info, applied, restarts, announced>>

\* Mutant of AllUpdated: join_all is not awaited.
NoUpdateAwaited == TRUE

AllUpdated == pending = {}

\* join_all has returned: search() runs on the cache as it is.
StartSearch ==
    /\ pc = "update"
    /\ AllUpdated
    /\ pc' = "search"
    /\ UNCHANGED <<nodeVars, headers, fullUpdate, info, pending, cache, applied, reread,
                   restarts, announced>>

\* search() returns, Ok(()) on every path.
EndSearch ==
    /\ pc = "search"
    /\ pc' = "wait"
    /\ fullUpdate' = FALSE
    /\ UNCHANGED <<nodeVars, headers, info, pending, cache, applied, reread, restarts, announced>>

\* search() does not return: the bisection that generate runs never leaves its loop
\* for some pools (CrossedMarkets says for which).  The process neither ends nor
\* takes another header.
SearchHangs ==
    /\ pc = "search"
    /\ pc' = "hung"
    /\ UNCHANGED <<nodeVars, headers, fullUpdate, info, pending, cache, applied, reread,
                   restarts, announced>>

\* A request fails.  BlockInfo::new returns the error and main panics, every
\* other caller unwraps it: the process ends, its subscription with it.  (A
\* failed request for the block or the logs is ignored while the client syncs,
\* which is SkipBlock: it does not use the answers.)
RequestFails ==
    /\ pc \in {"info", "update", "search"}
    /\ pc' = "exited"
    /\ headers' = 0
    /\ pending' = {}
    /\ UNCHANGED <<nodeVars, fullUpdate, info, cache, applied, reread, restarts, announced>>

\* The supervisor (systemd) starts the process again, with nothing kept.
Restart ==
    /\ pc = "exited"
    /\ restarts < MaxRestarts
    /\ restarts' = restarts + 1
    /\ StartProcess
    /\ UNCHANGED nodeVars

-----------------------------------------------------------------------------
Environment ==
    \/ \E k \in 1 .. Len(chain), S \in SUBSET Pairs : Import(k, S)
    \/ NodeSyncs
    \/ StreamEnds
    \/ SearchHangs
    \/ RequestFails
    \/ Restart

\* What the process does when nothing fails and every search returns.
Bot ==
    \/ NextHeader
    \/ AnswerBlock
    \/ AnswerLogs
    \/ AnswerSyncing
    \/ SkipBlock
    \/ StartUpdate
    \/ \E m \in Markets : UpdateMarket(m)
    \/ StartSearch
    \/ EndSearch

Next == Environment \/ Bot

Spec == Init /\ [][Next]_vars

\* The client answers every request and the async runtime polls every future
\* that is ready, so a step of the process that stays possible is taken.  That a
\* search returns is not part of it: SearchHangs may come before EndSearch.
FairSpec == Spec /\ WF_vars(Bot)

-----------------------------------------------------------------------------
TypeOK ==
    /\ NodeTypeOK
    /\ pc \in {"wait", "info", "update", "search", "hung", "exited"}
    /\ headers \in Nat
    /\ announced \in Nat
    /\ fullUpdate \in BOOLEAN
    /\ info \in [answered : SUBSET Requests, number : Nat, id : Nat,
                 logs : SUBSET Pairs, syncing : BOOLEAN]
    /\ pending \subseteq Markets
    /\ cache \in [Markets -> Int]
    /\ applied \subseteq Nat
    /\ reread \subseteq Markets
    /\ restarts \in Nat

\* The graph does not have the reserves that a pair has on the chain.
Stale(m) == cache[m] # Tip.state[m]

\* The rate of a market is that of a draft on top of block id or of a later one.
RateSince(m, id) == cache[m] # Unread /\ drafts[cache[m]] >= id

\* No block of the chain has this id any more.
Orphaned(id) == \A i \in 1 .. Len(chain) : chain[i].id # id

\* While search() runs, a pair is stale only because the block that changed it
\* last was never handed to an update (it came too late, or no iteration ever
\* asked for its logs), or because the block it was read from was reorganised
\* away: full and delta updates, whatever order their requests are answered in,
\* lose nothing that the loop was told about.  The rate of cETH, which no log
\* announces, is never older than the block whose logs were used.
StaleOnlyIfMissed ==
    pc = "search" =>
        /\ \A m \in Pairs : Stale(m) => Tip.state[m] \notin applied \/ Orphaned(cache[m])
        /\ \A m \in Accruing : RateSince(m, info.id)

\* search() never runs on a market that was not read since the process started
\* and since the client last reported that it is syncing: the full update a
\* skipped block asks for is neither forgotten nor cut short.
RereadSinceSync == pc = "search" => reread = Markets

\* The inductive invariant behind StaleOnlyIfMissed and RereadSinceSync.  A market
\* is settled when no full update is due and its own update, if any, has returned.
Settled(m) ==
    /\ pc # "exited"
    /\ pc \in {"wait", "info"} => ~fullUpdate
    /\ m \notin pending

\* Along the chain the states of a pair only grow, and each is the id of the
\* block that changed it.
ChainInv ==
    /\ Tip.id = mined
    /\ \A i \in 1 .. Len(chain) : chain[i].id <= mined
    /\ \A i \in 1 .. Len(chain), m \in Pairs : chain[i].state[m] <= mined
    /\ \A i, j \in 1 .. Len(chain), m \in Pairs :
          /\ i <= j => chain[i].state[m] <= chain[j].state[m]
          /\ chain[i].state[m] = chain[j].id =>
                chain[j].id = 0 \/ m \in chain[j].logs
          /\ chain[j].state[m] = chain[i].id => chain[i].state[m] = chain[i].id

\* The logs at hand name every pair that their block changed.
InfoInv ==
    /\ info.id <= mined
    /\ "logs" \in info.answered =>
          \A i \in 1 .. Len(chain), m \in Pairs :
              chain[i].state[m] = info.id => info.id = 0 \/ m \in info.logs

CacheInv ==
    /\ applied \subseteq 0 .. mined
    /\ \A m \in Static : cache[m] = 0
    /\ \A m \in Pairs : cache[m] <= mined
    /\ \A m \in Pairs, i, j \in 1 .. Len(chain) :
          chain[i].id = cache[m] /\ i <= j => cache[m] <= chain[j].state[m]
    /\ \A m \in Pairs, i \in 1 .. Len(chain) :
          Settled(m) /\ chain[i].state[m] \in applied => chain[i].state[m] <= cache[m]
    /\ \A m \in Markets : Settled(m) => cache[m] >= 0 /\ m \in reread
    /\ pc # "update" => pending = {}

\* The client drafts on top of its head, and in an iteration the rate is read after
\* the logs.
RateInv ==
    /\ \A i \in 1 .. Len(drafts) : drafts[i] <= mined
    /\ \A m \in Accruing : cache[m] \in {Unread} \union 1 .. Len(drafts)
    /\ pc \in {"update", "search", "hung"} =>
          \A m \in Accruing \ pending : RateSince(m, info.id)

LoopInv == ChainInv /\ InfoInv /\ CacheInv /\ RateInv

\* The loop waits with an empty queue only if the last head that was announced, or a
\* later one, is what its last iteration asked the client about: no header is taken
\* without a request after it, and none that comes meanwhile is dropped.
NoHeadIsForgotten == pc = "wait" /\ headers = 0 => info.id >= announced

\* Every head that is announced to the loop is dealt with: an iteration that
\* starts from it or from a later one gets to its search, or is skipped since
\* the client is syncing, or the process ends, or it hangs in the search of an
\* earlier head.
EveryHeadServed ==
    \A b \in 1 .. MaxBlocks :
        (headers > 0 /\ Tip.id = b) ~>
            \/ pc \in {"exited", "hung"}
            \/ pc = "search" /\ info.id >= b
            \/ pc = "wait" /\ info.syncing /\ info.id >= b
=============================================================================

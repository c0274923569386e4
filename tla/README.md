# A TLA+ model of mev-bundle-generator

This directory models the bundle generator of this repository in TLA+, checks the
models with TLC on small instances, and proves the theorems that matter most with
TLAPS. Paths such as `lib.rs` are relative to `src/src/`.

## The system

The program (`main.rs`, `lib.rs`) watches the Ethereum chain through the WebSocket of a
client. For every new block it brings a graph of token markets up to date, looks for two
pools that price a token differently, sizes a trade against them, wraps the trade into
one transaction to the operator's executor contract, and offers it to two relays as a
bundle for the next block. Nothing is persisted: every failed request ends the process
and the supervisor starts it again.

| Part | State | Operations | Talks to |
|---|---|---|---|
| Main loop (`lib.rs`) | `full_update`, the `BlockInfo` of the iteration | `loop_blocks`, `BlockInfo::new`, `search` | client (subscription, requests), market graph, generators, relays |
| Market graph (`markets.rs`) | edges of markets, each with its cached reserves or rate | `new`, `update_all`, `update_delta`, `best_bid_market`, `best_ask_market` | main loop, markets |
| Markets (`uniswap.rs`, `compound.rs`, `weth_token.rs`) | reserves, exchange rate | `update`, `get_tokens_in`, `get_tokens_out`, `sell_tokens`, pair discovery | client, evaluation |
| Evaluation (`arbitrage.rs`) | crossed markets of the block | `evaluate_markets`, `order_profit`, `optimize_volume` | market graph |
| Transaction building (`arbitrage.rs`, `utilities.rs`, `gas.rs`, `evm.rs`) | — | `take_crossed_market`, `generate`, `generate_contract_transaction`, `encode_parameters` | client (gas estimate, balances) |
| Submission (`lib.rs`, `flashbots.rs`, `wallet.rs`) | best bundle, best score | simulate, `Bundle::submit`, `sign_transactions`, `nonce` | relays, client |
| Gas prices (`gas.rs`) | prices of the iteration | `GasPrice::new` | client (transaction pool) |
| Executor contract (`contracts/Valorem/Multicall.sol`) | gas-token count, owner's balances | `adMulticall`, `pay_miner`, `mint`, `free`, `withdraw` | pools, WETH, miner |
| Ape bank (`contracts/ApeBankV3.sol`) | balances on record, `numCalls`, deposits per user | `deposit`, `withdraw`, `flashApe`, `skimExcessBalances` | depositors, treasury, borrowers |

### What is hard about it

* **Concurrency inside an iteration.** `BlockInfo::new` joins three requests and the
  updates of all markets are joined too. The client answers each from the head it has
  at that moment, so one iteration can mix the number, the logs and the states of
  several blocks.
* **The chain moves on its own**: several blocks per iteration, reorganisations, a client
  that falls behind.
* **Delta updates**: the cache is correct only if every change is named by some logs that
  were handed to an update.
* **Two submissions at once**, each reading the nonce by itself, relays that answer late
  or never, and a restart that forgets what was offered.
* **Parallel workers and joined answers**: what they push and return is put into two sorts
  and a filter, and found again by index.
* **Calls out of the bank** in the middle of an operation whose copy of the state is written
  back at its end.
* **Integer arithmetic**: divisions that round, subtractions that would underflow, a
  bisection without a bound on its loop, sentinel zeros that mean "cannot pay".

`hazards` in `PROJECT.json` lists each of these at its line, with the properties that
watch it.

### What makes the parts correct

* Loop and cache: the cache a search uses lacks only what the client never told the loop;
  nothing is searched before everything was read; every announced head is dealt with, as
  long as every search returns.
* Submission: never two of our bundles in one block; the best bundle that passed is the
  one sent; nothing is sent in simulation mode; a search whose generators have answered
  ends. That they answer is not guaranteed: their bisection can hang.
* Evaluation: the search stays inside its volumes; markets that cross do not lose at the
  volume they are compared for; what is kept is an arbitrage between two pools.
* Choice: the transaction offered is the best that there is, with its own profit and gas,
  and outbids the pool up to the threshold.
* Discovery: every pair that was counted and is allowed is on its edge, once.
* Calldata: the contract makes the calls that were encoded, and no others.
* Trade: the executor gains all at once what the evaluation counted, or nothing changes;
  a plan fails only because something it rests on changed.
* Bank: operations take effect one at a time, a loan leaves at least what was on record,
  and what is deposited can be withdrawn.

## Modules

| Module | What it is | Code |
|---|---|---|
| `EthNode` | the client: chain, logs, states of the pairs, drafts of the pending block, syncing (external) | used by `lib.rs`, `markets.rs` |
| `BlockLoop` | main loop and cache of market states, composed with `EthNode` | `lib.rs` `loop_blocks`, `BlockInfo::new`; `markets.rs` `update_all`, `update_delta`; `update` of each market; `main.rs` |
| `AtomicView` | abstract: a search has a view that stands still, each market as it is at the head or was one block before | — |
| `QuietNode` | `BlockLoop` with a chain that is only extended, the next block after the logs of the last; refines `AtomicView` | as `BlockLoop` |
| `BundleSubmission` | simulation, choice and submission of bundles, with relays, chain, restarts | `lib.rs` `search`; `flashbots.rs` `submit`; `wallet.rs`; `utilities.rs` `nonce` |
| `UniswapPool` | the two price functions, and the best market to buy from and to sell to | `uniswap.rs`, `markets.rs` |
| `CrossedMarkets` | evaluation of one edge: crossing, bracket, bisection | `arbitrage.rs` `evaluate_markets`, `order_profit`, `optimize_volume` |
| `PairDiscovery` | listing of the pairs of all factories, construction of the graph | `uniswap.rs`, `markets.rs` `MarketGraph::new`, `UniswapFlashQuery.sol` |
| `Calldata` | encoding of a trade and its decoding by the contract | `evm.rs`, `Multicall.sol` `ostium`, `adMulticall`, `build_call` |
| `AtomicTrade` | abstract: a trade gains all at once and pays the producer its share | — |
| `Executor` | the contract at work: the calls of a trade, `pay_miner`, revert, movements of the owner, other traders | `Multicall.sol`, `uniswap.rs` |
| `BundleScore` | what a transaction pays, its gas price, the score of a bundle, the order of transactions | `arbitrage.rs` `take_crossed_market`, `generate`; `utilities.rs`; `flashbots.rs` `score` |
| `ArbitrageTrade` | from the crossed markets to the included bundle, composed with `Executor`; refines `AtomicTrade` | `arbitrage.rs` `take_crossed_market`, `generate`; `utilities.rs`; `flashbots.rs` |
| `Opportunities` | all edges: parallel evaluation, sorts, answers of the estimates, choice; the gas prices of the pool | `arbitrage.rs` `evaluate_markets`, `generate`; `gas.rs` |
| `ExchangeRate` | the price functions of the cETH and WETH markets | `compound.rs`, `weth_token.rs` |
| `AtomicBank` | abstract: a bank whose operations are one step each and which keeps the deposits | — |
| `ApeBank` | deposits, withdrawals, skimming and loans, nested within one another; refines `AtomicBank` | `ApeBankV3.sol` |
| `*Proofs` | theorems about the module they are named after; `BlockLoopProofs` also about `QuietNode`, `PricingProofs` about `UniswapPool` and `ExchangeRate`, `ContractProofs` about `Calldata` and `ApeBank` | — |
| `MC*` | the instances that TLC checks | — |

In every module an action is one handler, one answer of a concurrent request, or one
call of a transaction, and its guard is the condition under which the code gets there.
`pc` is the place in the code where the process waits. A variable marked `history` in
its comment is read by no action's guard; it exists to state a property. Definitions
marked "Mutant of" are plausible mistakes in the definition that follows them; no
action uses them. `PROJECT.json` maps every other definition to its lines.

### State and actions, part by part

**BlockLoop.** `headers` is what the subscription has delivered and `next()` has not
taken. `info` collects the three answers of `join!`; `AnswerBlock`, `AnswerLogs` and
`AnswerSyncing` happen in any order, each at the client's head of that moment.
`StartUpdate` is the choice between `update_all` and `update_delta`, with `pending`
the updates in flight, `UpdateMarket` the return of one of them. The state of a pair is the
id of the block that changed it last, so that two states are equal exactly if the reserves
are; `Unread` is the zero an `update` has not replaced. A pair reads its reserves after the
latest block (`ReadReserves`). cETH reads its rate at `BlockNumber::Pending`
(`compound.rs:54`): `ReadRate` makes a draft of the next block, with a rate of its own, and
`drafts` keeps which block each draft was on top of. No block need ever have that rate, so
no property compares it with the chain; they say what block it was read on top of. The
program never evaluates the one edge of cETH. `SearchHangs` is a search that never returns,
because the bisection below it has no exit for some pools (`arbitrage.rs:112-138`);
`CrossedMarkets` says for which, here it may be any. The process then neither ends nor
takes another header. `SkipBlock`
is the `Syncing` arm. The gas price, a fourth field of `BlockInfo`, decides nothing in the
loop; it is read in `Opportunities`.

**QuietNode and AtomicView.** `QuietImport` lets a block come after the client gave the logs
of the one announced last, so also between those logs, the updates and the search: the view
that `AtomicView` promises may mix the head with its parent. `previous` is the state at the
parent, `view` what the graph holds, and cETH counts as what drafts on top of a block give.

**BundleSubmission.** `GeneratorHangs` is the same hang as `SearchHangs`, seen from `search`.
In simulation mode signed transactions still go to the simulation relay, with
`eth_callBundle`; it is asked in both modes and offers nothing to a block. `submits[r]` is one
of the two concurrent `submit` futures; `Sign`
reads the nonce as `utilities::nonce` does, `Post` is the answer of the relay, and
`AnswerLost` is an answer that never comes after the relay took the bundle: the
`unwrap()` ends the process. `Mine` may include any valid set of the bundles on offer
and one other transaction of the account. The chain of this module is not reorganised:
with a nonce that goes back, two bundles of different blocks could be included again.

**CrossedMarkets.** One edge, any number of pools, `compare` – `bracket` – `ascend`.
A pool that is asked for more than it has answers 0, as in the code. `iterations` counts
the turns of the loop up to a cap and is there only to state that it ends.

**PairDiscovery.** `asked` are the batches in flight; each is answered from the list its
factory has at that moment. `Insert` is one worker with the lock on the graph.

**Calldata.** A word is a number and a field a range of its bits, given by its unit and
range; TLC's instance has narrow fields, the proofs hold for any widths that keep the
order and the gaps of the real ones. The argument words include some that look like
headers. The contract's `index` is the only thing that says where a call begins.

**Executor and ArbitrageTrade.** `world` is what a transaction acts on; the steps of a
transaction are operators on it, used both by the actions `Transfer`, `Buy`, `Sell` and
`PayMiner` and by `Runs`, the client's estimate on the world of its own moment. `tx`
holds the world to return to, and `Revert` does. `cache` is the state of the pools the
evaluation worked on: `UpdateMarkets(S)` re-reads any part of it, so that what is stale
is chosen freely (`BlockLoop` says what can be). Between any two steps of the generator
the owner and other traders act. Tokens are plain ERC20 tokens: a pool
receives what is transferred to it, without a fee. The volume is any of a set, since what
`optimize_volume` returns is the subject of `CrossedMarkets`. Of the balances that
`generate` reads only that of ETH decides anything: `ape` (`arbitrage.rs:333-337`) is
computed and never used, so there is no flash loan. The header names desired block 0 and
does not burn gas tokens, so `timekeeping` passes and `calculate_burn` is 0. `gasPaid`
prices the gas at the estimate.

**Opportunities.** What the evaluation of an edge finds and what the client answers for
its transaction are chosen freely when a worker or an answer comes (`EvaluateEdge`,
`Answer`) and kept in `found` and `estimate`, which no guard reads except as the data of
the edge: they say what a search without workers, indices and sorts would choose from
(`Candidates`). `kept` is the vector under the mutex, `sorted` the vector after the sort,
`gas` the vector that `join_all` returns, and the filter and the second sort are in
`Results` and `ChosenFrom`. Both sorts are stable. `ReadPool` is one answer of
`txpool_content` with its sort, reverse and truncate.

**ApeBank.** A deposit, the withdrawal of a token and the skimming of a token call only
tokens, which call nobody, and are one step. The withdrawal and skimming of ETH and a
loan call others: they are a step up to the call and a step after it, with a frame of
`frames` between, which holds `cachedBankState` and the bank to go back to. While a
frame is open any operation of the bank may begin and end, `Send` is what a borrower
returns, and `Revert` undoes the innermost operation with all that was done within it.
`Visible` is the bank as anyone sees it who is not called by it. What is sent to the bank
beside a deposit is not on record until a loan or a skimming of that asset ends, and is
lent to nobody until then; the properties promise nothing about it.

## What the runs check

| Run | Question | Bounds, and why they are enough |
|---|---|---|
| `block_loop` | What can a search miss, whatever the order of blocks, answers, updates, failures and restarts? Is every announced head dealt with unless a search hangs? | 3 blocks, a reorganisation of 1, 1 sync, 1 restart, one market of each kind. Three blocks let one arrive before, within and after an iteration. |
| `quiet_node` | If blocks only extend the chain, one per iteration, do the delta updates lose anything? | 3 blocks, 2 pairs, 2 syncs, 1 restart: blocks before, between and after the updates of one iteration, an update of one pair and not of the other, full updates again after a sync or a restart. |
| `bundle_submission` | Can a block get two of our bundles? Is the best one that passed sent? Does simulation mode send nothing? Does a search end once the generators have answered? | 2 relays as in the code, 2 generators (the program registers one; the choice is written for several), 2 scores, 2 blocks: a block within an iteration and one after it. |
| `crossed_markets` | Does the search stay in range, halve its interval, and keep only an arbitrage between two pools? | 3 pools out of 37, all reserves below 2^11; empty, thin and ordinary ones; the head of the list of test sizes in its ratios (10^16 wei is 10), counted up to 20 turns, of which 9 halve the widest interval to one. |
| `pair_discovery` | Do concurrent batches and workers lose or double a pair? | 2 factories, batches of 2, up to 2 batches, 4 pairs, 1 reorganisation: counts below, at and above the end of a batch. |
| `calldata` | Does the contract make the calls that were encoded, and stop only at assertions among them? | 2 calls with up to 2 argument words, one of which is a valid header; two values per field. |
| `arbitrage_trade` | From reading to inclusion, can a trade lose, half happen or fail by itself? | 2 edges of 2 pools, one crossing widely, one narrowly the other way, one with an empty pool; executor with too little or enough of either currency; one order of another trader and one movement of the owner, anywhere. |
| `opportunities` | Does the choice depend on the order of workers and answers? Does it outbid the pool? | 4 edges, each with one market or more; profits and estimates that tie in payment per gas and in profit; up to 3 pending transactions of which 2 are looked at: pools below, at and above the limit. |
| `ape_bank` | Can an operation within another make the bank forget or lose a deposit? | 2 depositors, WETH and one other token in units of 2, gifts of half a unit, 32 bits cut to one (2 units), 3 operations that end, one within another. Three let a deposit be followed by a loan or a withdrawal with another operation inside. |
| `bundle_submission_failed`, `crossed_markets_ends`, `arbitrage_profit` | one statement of the repository each, which the code does not meet | see below |

`CHECK_DEADLOCK FALSE` stands where the system stops: the evaluation, the discovery and a
transaction end; the loop and the submission wait for a block that the bound does not
let come, or have ended and used up their restarts; the bank has used up its calls.

### The properties

* `StaleOnlyIfMissed`: in a search, a pair is stale only if the loop was never given
  the logs of the block that changed it, or the block it was read at was reorganised
  away. The cache loses nothing the loop was told. The rate of cETH was read in a draft
  no older than the logs at hand.
* `RereadSinceSync`: no search before everything was read since the start and since the
  last reported sync. `LoopInv` is the inductive invariant behind both.
* `EveryHeadServed`: a header in the queue is followed by an iteration, the end of
  the process, or a search that hangs. `NoHeadIsForgotten` is its safety half: the loop waits on an empty queue only
  if its last iteration asked about the last announced head or a later one (`announced`, a
  history variable), after syncs and reorganisations too.
* `LacksAtMostTheNextBlock`: in `QuietNode` all that a search can lack is the one block
  that overtook its logs, and the header of that block waits in the queue, so that the next
  iteration reads what it changed; the rate of cETH is of a draft on top of that block or its
  parent. The full updates, the deltas of one block each and the markets that are updated
  without logs add up, whatever order the requests are answered in.
  `ImplementsAtomicView`: no search begins on a market older than the parent of the head, no
  update moves the view while it runs, and a block overtakes it only if it began at the head.
* `OneBundlePerBlock`: the two submissions, the searches from one block, the restarts and
  the bundles of a former process never put two transactions into one block.
* `BestPassedIsSubmitted`, `SimulateOnly`. `SubmissionEnds`: once the generators have answered,
  the simulations and the submission come to an end. `SearchAdvances`: a search has a
  number of steps left at most (`StepsLeft`), known when it begins, and each of its steps
  lowers it: nothing is asked for twice, whatever fails meanwhile.
* `ProbesInRange`, `IntervalIsHalved`, `CrossingDoesNotLose`, `KeptMarketsDiffer`.
  `EndsInTimeOrNever`: a bisection that is not over one turn after the logarithm of its width
  is stuck; no turn changes anything from then on. It says exactly which runs hang.
* `GraphIsComplete`: every pair that was counted, that the batches reach and that is allowed
  is in the graph, each market on its edge and once, and nothing else is. `RangesAreAccepted`:
  without reorganisations the query contract refuses no range.
* `MakesTheTrade`: the contract makes the calls of the trade and no other, and is stopped
  before the last only at an assertion among them, never at another word that looks like one.
  `SettingsArrive`. What an assertion compares is wrong in the code (below), and no property
  takes it for right.
* `FailureHasCause`: a plan runs exactly if the pools of its edge still give what it asks
  them for and the WETH and ETH it counts on are there. Rounding never makes it fail, nor
  does a pool that moved in its favour, and the WETH after the sale always covers a payment
  taken from it; a transaction that fails halfway had one of the causes when it began.
* `ImplementsAtomicTrade`: the executor's balances, as other transactions see them, change
  by trades only all at once, by the profit that the evaluation counted on a possibly
  stale cache, above the minimum, less exactly the miner's share.
* `ChoiceIsBest`: whatever order the workers push in and however the estimates are answered,
  the transaction offered is first among all candidates, with its own profit and gas; there
  is none only if there is no candidate or a first one does not pay enough. An edge with one
  market, whose trade would unwrap a missing percentage (`arbitrage.rs:329`), is never one.
* `OutbidsAllButLimit`: fewer than `Limit` transactions of the pool pay as much as what is offered.
* `ImplementsAtomicBank`: whatever is called within an operation, the operations take effect
  one at a time and as a whole, and a loan leaves at least what was on record.
* `DepositsAreThere`: what is deposited is covered by what is on record, and that by what the
  bank has, in whole units of each token. `TotalsAreSums`: the totals behind it are the sums
  of the users' deposits. `EveryDepositCanBeWithdrawn`: whoever has deposited passes all checks
  of a withdrawal of all of it, whenever no operation is under way.

### Fairness

`EveryHeadServed` assumes weak fairness of the steps of the process (`Bot`), and
`SubmissionEnds` of those of a search (`Search`). Both are justified by the runtime: a future
that is ready is polled, and the client and the relays answer a request or fail it. The
fairness does not say that a search returns or that a generator answers, which the code
does not guarantee (`crossed_markets_ends`): `SearchHangs` and `GeneratorHangs` may come
instead, and the properties name that outcome or begin after it. No
fairness is assumed of blocks, failures, restarts or the supervisor, nor of any single
action of the process: it may end at any request, and may never be started again.

### What the code does not keep

The first three are runs in which TLC finds the counterexample, the next two are theorems
about what the code does; `findings` in `PROJECT.json` quotes the lines.

* `bundle_submission_failed`: a bundle whose simulation failed is submitted when no other
  passes, which with the one generator is every failed simulation (`lib.rs:181`).
* `crossed_markets_ends`: the bisection hangs when the middle cannot move any more. TLC's
  small pools show it; so do pools of real size: with an ask of 12901523175787995332608
  WETH-wei and 519406328995477585920 token units, and a bid of 2618213852754594496512 and
  86744386069060255744, the code is stuck after 66 turns at
  `low = mid = 39999999999999999999`, `high = 4 * 10^19`.
* `arbitrage_profit`: the gas price is computed from the payment the call already makes:
  a trade costs 1.8 times its profit (`utilities.rs:120`).
* `ThinPoolWinsBid`: a pool that cannot pay asks for 0 tokens and wins the bid
  (`markets.rs:134`). The crossing is then always seen, and the search finds nothing or a
  worse pair of pools than there is.
* `PassedAssertionsAreCeilings`: a balance assertion passes if the balance is at most the
  expected one (`Multicall.sol:261` and `269`). No market builds one yet.

Met while modelling, and not given a run: a block that arrives within an iteration is
skipped by the delta updates although the comment at `lib.rs:314` says that deltas suffice
(`StaleOnlyIfMissed` allows exactly this); the bisection takes the plateau of profit 0 for
a maximum (`arbitrage.rs:134`); the pairs of a factory beyond 250 * 250 are never listed
(`uniswap.rs:206`, against the comment at 175); the callback repays ETH with the arguments
of `transfer_ether` exchanged (`Multicall.sol:66`); the rate of cETH is used without its
scale of 10^18 (`compound.rs:46` and `88`).

## What is proved

Assumptions are those named in the modules (`*Assumption`): sizes and bounds are natural
numbers, sets are disjoint, fields follow one another, test sizes grow and the step is
below the first of them, an estimate is at least 90. All theorems hold for every value of
the constants that meets them.

* **`BlockLoopProofs`** — `TypeCorrect`, `LoopInvariant`, `StaleOnlyWhenMissed`,
  `RereadBeforeSearch`, `HeadsAreNotForgotten`, and for `QuietNode` `QuietInvariant`,
  `QuietSearchLacksOneBlock`, `QuietRefinement`. The property of the search is not inductive: it needs that at
  every earlier point a market is *settled* (no full update due, its own update
  returned) or will be updated, that ids along the chain never repeat, and that the
  logs at hand belong to a block whose changes are in them. `LoopInv` says this, in parts.
  `HeadsInv` says where the last announced head is at each place in the loop: in the queue, to
  be asked about in this iteration, or asked about. `RateInv` says of what draft the rate of
  cETH is at each place. `QuietInv` says for
  each place in the loop what names the changes the cache lacks: the header that waits, the
  logs at hand, or the pending updates. The refinement maps every step
  of the loop to a step of `AtomicView` or a stutter.
* **`BundleSubmissionProofs`** — `NoBlockTakesTwo`, `BestIsSubmitted`,
  `NothingIsSentInSimulation`, `SearchesAdvance`, `SubmissionTypeCorrect`, for any relays and
  generators.
  `NonceInv`: what can still be included in the next block is signed with the nonce at the
  head. It needs that bundles for past blocks are gone and that an iteration's number is
  never ahead of the chain.
  `ChoiceInv`: the best bundle so far is the first of the best among those simulated so far
  that passed, and the submission is never begun in simulation mode. `ProgressInv`: the
  simulations do not pass the end of the bundles, and both submissions start from nothing; with
  it every step lowers `StepsLeft`.
* **`PricingProofs`** — facts of the integer divisions, from `\div` up:
  `PoolIsNotDrained`, `AmountOutMonotone`, `AmountInPays` and `AmountInIsTight` (the roundings
  of the two price functions never undershoot, and ask for at most one unit too many), `RoundTripNeverPays`, `BestMarketsExist`, `ThinPoolWinsBid`;
  of the cETH market `ExchangeNeverGains` and `CethNeededFallsShort`.
* **`CrossedMarketsProofs`** — `SearchTypeCorrect`, `BisectionStaysInRange`,
  `CrossedMarketsDoNotLose`, `KeptMarketsAreTwo`, `BisectionHalves`,
  `BisectionEndsInTimeOrNever`, for any pools and test sizes. `HalvedInv`: the middle is the middle, and every turn has halved the width less one.
  Powers of two are numbers of subsets there, and a least counterexample stands for induction.
  `StuckInv`: an interval of width one with its middle at the lower end sees the same profits
  in every turn, so that the branch taken once is taken for ever.
* **`PairDiscoveryProofs`** — `BatchesPartition`, `RangesAccepted`, `GraphCompletes`,
  `DiscoveryTypeCorrect`, for any factories, pairs and batches. `DiscoveryInv`: what is due is in
  the graph, was found, or is in a batch that is not answered (`NothingLost`); a market that was
  found is the pair of its place, and is not in the graph yet (`FoundInv`). With
  `BatchesPartition` no two batches find the same pair, so no worker inserts it twice.
* **`ContractProofs`** — of the calldata `HeaderArrives`, `CallHeaderArrives` (fields of any
  width do not run into one another), `CallsArrive`, `HeaderIsKept`, `CalldataTypeCorrect`,
  `PassedAssertionsAreCeilings`. `Layout` says how the calls lie in the array, `Position` that
  the contract's index is at the beginning of one of them; neither is inductive without the
  other. Of the bank `BankTypeCorrect`, `DepositsStay`, `TotalsStaySums`,
  `DepositsCanBeWithdrawn` and `BankIsAtomic`, for any users and tokens and for operations nested to any depth.
  `BankInv` need only speak of the outermost operation: it ends only if none within it has
  (`NoneSince`), so `Underway` says what is known as long as the count of calls is that of its
  copy, and a revert within it restores the bank that this was known of. `SumsInv`: the totals
  of the bank, and of those that operations may be reverted to, are sums of shares, and shares of tokens are whole units; a sum is
  the one function on sets of users that grows by a user's share with the user (`OneSum`: a
  least set on which two differ does not exist), and no share is above it. With `BankInv` that is
  all that a withdrawal checks. The refinement maps the end of the outermost
  operation to a step of `AtomicBank` and everything else within it to a stutter.
* **`ArbitrageTradeProofs`** — `PricedSwapIsAccepted` (a pool accepts each swap that
  `get_amount_out` priced at its reserves), `SwapIsAcceptedAtItsPrice` (it accepts one that was
  priced elsewhere exactly if it asks for no more than the price), `TradeTypeCorrect`, `FailuresHaveCauses`,
  `TradesAreAtomic`. `PlanInv` ties every plan held to the cache it was made from; the
  cache is not read again while a plan is held. `TxInv` says that the world is the one the
  transaction started from after exactly the steps it has made. With `SwapIsAcceptedAtItsPrice`
  and `RoundTripNeverPays` (the two pools of a plan differ, so that the first swap leaves the
  second pool alone) each check passes exactly if its cause is absent; the refinement adds up the balances over the steps.
* **`OpportunitiesProofs`** — `SearchInvariant`, `OpportunitiesTypeCorrect`, `BestIsChosen`,
  `OfferOutbids`, for any edges, pools and limits. `KeptInv` says that `kept` lists each
  evaluated edge above the minimum once, `SortedInv` that `sorted` lists the same edges and
  has each estimate at the index of its edge, `PoolInv` that fewer than `Limit` transactions
  are above the threshold. The step of the choice goes from the first in an order of
  indices to the first among the candidates.

Only model-checked: the two liveness properties `EveryHeadServed` and `SubmissionEnds`; fairness
and `ENABLED` are out of reach of the prover. Their safety halves, `NoHeadIsForgotten` and
`SearchAdvances`, are proved.

## What is not modelled, and why

* The flash-loan callback of the executor: the program builds no loan (`arbitrage.rs:333-337`
  computes `ape` and does not use it), and the callback as it is written repays no ETH.
* The gas tokens of the executor (`mint`, `free`, `calculate_burn`): the program never sets the
  burn flag (`arbitrage.rs:354`); a desired block other than 0: it never names one.
* Of the Ape bank, the refunds of gas (native contracts, GST2 and CHI, and their prices)
  and the nomination of a treasury: they change neither deposits nor loans, except that a
  borrower who burns must return more.
* Several origin tokens: `ORIGIN_TOKENS` holds WETH alone.
* cETH and WETH in the evaluation: their edges have one market each and are left out by it.
  Nothing is said about how the rate of cETH, which is of a pending block, differs from what
  the next block has. Their updates are in `BlockLoop`, their calls in `Calldata`, their prices in `ExchangeRate`.
* Signatures, JSON, hashing, logging, units, the address book: no state.
* `sushiswap.rs`, `Router::get_price_wei`, the multicall factory: not used by the loop.
* Amounts are unbounded naturals: reserves are below 2^112 and no product of the price
  functions reaches 2^256.

## Plan

Done, in this order: `EthNode`, `BlockLoop`, `AtomicView`, `QuietNode` (the loop comes
first, everything else works on what it leaves in the cache); `BundleSubmission`;
`UniswapPool`, `CrossedMarkets`; `PairDiscovery`; `Calldata`; `Executor`, `AtomicTrade`,
`ArbitrageTrade`, with `BundleScore`; `Opportunities`; `AtomicBank`, `ApeBank`; `ExchangeRate`.

Left, if the program comes to use them:

1. `GasTokens`: `mint`, `free`, `freeCost`, `calculate_burn` within `pay_miner`; after any sequence
   the counter is the number of slots set, and they are the first ones.
2. The callback of the executor as a borrower of `ApeBank`.

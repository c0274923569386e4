------------------------------ MODULE Executor ------------------------------
(***************************************************************************)
(* The executor contract (Multicall.sol) and the world it acts on: the     *)
(* pools of some edges WETH -- token, other traders, and the owner.        *)
(*                                                                         *)
(* An arbitrage transaction is three calls (a transfer of WETH to the      *)
(* first pool, a swap there to the second pool, a swap there back to the   *)
(* executor) and pay_miner.  A call that fails reverts the transaction.    *)
(* What the transaction does is written as steps on the world, a record,   *)
(* since the client runs the same steps when it estimates the gas.         *)
(*                                                                         *)
(* The headers that take_crossed_market builds name no desired block and   *)
(* burn no gas tokens: timekeeping() always passes and calculate_burn() is *)
(* 0.  The encoding of the calls is the subject of module Calldata.        *)
(***************************************************************************)
EXTENDS UniswapPool

CONSTANTS
    Edges,      \* the edges WETH -- token
    InitPools,  \* the pairs of pools an edge has in this instance
    Funds,      \* the WETH or ETH the executor starts with in this instance
    Transfers,  \* the amounts the owner moves
    Orders,     \* the amounts that other traders sell
    MaxMoves,   \* bound: movements of the owner
    MaxOrders   \* bound: orders of other traders

\* The reserves of a pool: both tokens are there, or none before the first deposit.
Reserves == {p \in Pool : p.weth = 0 <=> p.token = 0}

ASSUME ExecutorAssumption ==
    /\ InitPools \subseteq [1 .. 2 -> Reserves]
    /\ Funds \subseteq Nat
    /\ Transfers \subseteq Nat \ {0}
    /\ Orders \subseteq Nat \ {0}
    /\ MaxMoves \in Nat
    /\ MaxOrders \in Nat

VARIABLES
    world,    \* the pools, the executor's balances, what coinbases were given
    owned,    \* history: what the owner put into the executor, less what it took
    moves,    \* count of the owner's movements
    orders,   \* count of the traders' orders
    tx        \* the transaction that runs: its next step, its plan, and the
              \* world to return to if it is reverted

executorVars == <<world, owned, moves, orders, tx>>

\* A plan: buy on the pool ask of the edge, sell on the pool bid.
Plan == [edge : Edges, ask : 1 .. 2, bid : 1 .. 2, volume : Nat, profit : Nat,
         inter : Nat, out : Nat, payment : Nat, withWeth : BOOLEAN, gas : Nat]

NoTx == [step |-> "none"]

-----------------------------------------------------------------------------
\* swap() of a pool: it gives out, which leaves something, for what it was sent,
\* and the product of the reserves, less the fee, must not fall.
CanSwap(reserveIn, reserveOut, in, out) ==
    /\ in > 0
    /\ out > 0
    /\ out < reserveOut
    /\ (reserveIn * Whole + in * Charged) * (reserveOut - out) >= reserveIn * Whole * reserveOut

\* Mutant of CanTransfer: the success of the call is not looked at.
AlwaysTransfers(w, p) == TRUE

\* to_first_market: WETH from the executor to the first pool.
CanTransfer(w, p) == p.volume <= w.weth

Transferred(w, p) == [w EXCEPT !.weth = @ - p.volume, !.sent = p.volume]

\* The swap on the first pool, whose recipient is the second one.
CanBuy(w, p) ==
    LET pool == w.pools[p.edge][p.ask] IN CanSwap(pool.weth, pool.token, w.sent, p.inter)

Bought(w, p) ==
    LET pool == w.pools[p.edge][p.ask]
    IN  [w EXCEPT !.pools[p.edge][p.ask] =
                        [weth |-> pool.weth + w.sent, token |-> pool.token - p.inter],
                  !.sent = p.inter]

\* The swap on the second pool, whose recipient is the executor.
CanSell(w, p) ==
    LET pool == w.pools[p.edge][p.bid] IN CanSwap(pool.token, pool.weth, w.sent, p.out)

Sold(w, p) ==
    LET pool == w.pools[p.edge][p.bid]
    IN  [w EXCEPT !.pools[p.edge][p.bid] =
                        [weth |-> pool.weth - p.out, token |-> pool.token + w.sent],
                  !.sent = 0,
                  !.weth = @ + p.out]

\* pay_miner: WETH is turned into ETH if the header says so.
Unwraps(p) == p.payment > 0 /\ p.withWeth

CanUnwrap(w, p) == Unwraps(p) => p.payment <= w.weth

Unwrapped(w, p) ==
    IF Unwraps(p) THEN [w EXCEPT !.weth = @ - p.payment, !.eth = @ + p.payment] ELSE w

\* pay_miner: ETH goes to the coinbase if there is something to pay.
CanPay(w, p) == p.payment <= w.eth

Paid(w, p) == [w EXCEPT !.eth = @ - p.payment, !.coinbase = @ + p.payment]

\* The client's answer to eth_estimateGas: does the transaction run on the world?
Runs(w, p) ==
    LET bought == Bought(Transferred(w, p), p)
        sold   == Sold(bought, p)
    IN  /\ CanTransfer(w, p)
        /\ CanBuy(Transferred(w, p), p)
        /\ CanSell(bought, p)
        /\ CanUnwrap(sold, p)
        /\ CanPay(Unwrapped(sold, p), p)

-----------------------------------------------------------------------------
ExecutorInit ==
    /\ world \in [pools : [Edges -> InitPools], sent : {0}, weth : Funds, eth : Funds,
                  coinbase : {0}]
    /\ owned = world.weth + world.eth
    /\ moves = 0
    /\ orders = 0
    /\ tx = NoTx

Begin(p) ==
    /\ tx = NoTx
    /\ tx' = [step |-> "transfer", plan |-> p, before |-> world]
    /\ UNCHANGED <<world, owned, moves, orders>>

Transfer ==
    /\ tx.step = "transfer"
    /\ CanTransfer(world, tx.plan)
    /\ world' = Transferred(world, tx.plan)
    /\ tx' = [tx EXCEPT !.step = "buy"]
    /\ UNCHANGED <<owned, moves, orders>>

Buy ==
    /\ tx.step = "buy"
    /\ CanBuy(world, tx.plan)
    /\ world' = Bought(world, tx.plan)
    /\ tx' = [tx EXCEPT !.step = "sell"]
    /\ UNCHANGED <<owned, moves, orders>>

Sell ==
    /\ tx.step = "sell"
    /\ CanSell(world, tx.plan)
    /\ world' = Sold(world, tx.plan)
    /\ tx' = [tx EXCEPT !.step = "pay"]
    /\ UNCHANGED <<owned, moves, orders>>

PayMiner ==
    /\ tx.step = "pay"
    /\ CanUnwrap(world, tx.plan)
    /\ CanPay(Unwrapped(world, tx.plan), tx.plan)
    /\ world' = Paid(Unwrapped(world, tx.plan), tx.plan)
    /\ tx' = NoTx
    /\ UNCHANGED <<owned, moves, orders>>

\* The step that comes next cannot be made.
Fails ==
    \/ tx.step = "transfer" /\ ~CanTransfer(world, tx.plan)
    \/ tx.step = "buy" /\ ~CanBuy(world, tx.plan)
    \/ tx.step = "sell" /\ ~CanSell(world, tx.plan)
    \/ tx.step = "pay" /\ ~(CanUnwrap(world, tx.plan) /\ CanPay(Unwrapped(world, tx.plan), tx.plan))

Revert ==
    /\ Fails
    /\ world' = tx.before
    /\ tx' = NoTx
    /\ UNCHANGED <<owned, moves, orders>>

-----------------------------------------------------------------------------
\* The owner's operations, each a transaction of its own.
Move(w, change) ==
    /\ tx = NoTx
    /\ moves < MaxMoves
    /\ moves' = moves + 1
    /\ world' = w
    /\ owned' = owned + change
    /\ UNCHANGED <<orders, tx>>

\* deposit(token, amount) and withdraw(token, amount), for WETH and for ETH.
DepositWeth(n)  == Move([world EXCEPT !.weth = @ + n], n)
DepositEth(n)   == Move([world EXCEPT !.eth = @ + n], n)
WithdrawWeth(n) == n <= world.weth /\ Move([world EXCEPT !.weth = @ - n], -n)
WithdrawEth(n)  == n <= world.eth /\ Move([world EXCEPT !.eth = @ - n], -n)

\* eth_to_weth(amount) and weth_to_eth(amount).
EthToWeth(n) == n <= world.eth /\ Move([world EXCEPT !.eth = @ - n, !.weth = @ + n], 0)
WethToEth(n) == n <= world.weth /\ Move([world EXCEPT !.weth = @ - n, !.eth = @ + n], 0)

\* Another trader's swap, through a router that asks for all the pool gives.
Order(e, i, pool) ==
    /\ tx = NoTx
    /\ orders < MaxOrders
    /\ orders' = orders + 1
    /\ world' = [world EXCEPT !.pools[e][i] = pool]
    /\ UNCHANGED <<owned, moves, tx>>

OrderToken(e, i, n) ==
    LET p == world.pools[e][i] IN
    /\ TokenFor(p, n) > 0
    /\ Order(e, i, [weth |-> p.weth + n, token |-> p.token - TokenFor(p, n)])

OrderWeth(e, i, n) ==
    LET p == world.pools[e][i] IN
    /\ WethFor(p, n) > 0
    /\ Order(e, i, [weth |-> p.weth - WethFor(p, n), token |-> p.token + n])

Others ==
    \/ \E n \in Transfers : DepositWeth(n) \/ DepositEth(n)
    \/ \E n \in Transfers : WithdrawWeth(n) \/ WithdrawEth(n)
    \/ \E n \in Transfers : EthToWeth(n) \/ WethToEth(n)
    \/ \E e \in Edges, i \in 1 .. 2, n \in Orders : OrderToken(e, i, n) \/ OrderWeth(e, i, n)
=============================================================================

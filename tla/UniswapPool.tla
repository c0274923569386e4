---------------------------- MODULE UniswapPool ----------------------------
(***************************************************************************)
(* The pricing of Uniswap V2 like pools (uniswap.rs, get_amount_out and    *)
(* get_amount_in) and the choice of the best market of an edge (markets.rs,*)
(* best_ask_market and best_bid_market).                                   *)
(*                                                                         *)
(* A pool of the edge WETH -- token is a record of its two reserves.       *)
(* Amounts are natural numbers; the instances stay far below the 256 bits  *)
(* of the code.                                                            *)
(***************************************************************************)
EXTENDS Integers, Sequences

\* The fee of the pools is 3 per mille of what goes in.
Whole   == 1000
Charged == 997

\* Mutant of AmountOut: the quotient is rounded up.
AmountOutRoundedUp(reserveIn, reserveOut, amountIn) ==
    LET numerator == amountIn * Charged * reserveOut
        denominator == reserveIn * Whole + amountIn * Charged
    IN  IF numerator = 0 \/ denominator = 0 THEN 0 ELSE numerator \div denominator + 1

\* get_amount_out: 0 when nothing goes in or nothing is there.
AmountOut(reserveIn, reserveOut, amountIn) ==
    LET numerator == amountIn * Charged * reserveOut
        denominator == reserveIn * Whole + amountIn * Charged
    IN  IF numerator = 0 \/ denominator = 0 THEN 0 ELSE numerator \div denominator

\* get_amount_in: 0 when the pool cannot pay amountOut.
AmountIn(reserveIn, reserveOut, amountOut) ==
    LET numerator == reserveIn * amountOut * Whole
        denominator == (reserveOut - amountOut) * Charged
    IN  IF reserveOut < amountOut \/ numerator = 0 \/ denominator = 0 THEN 0
        ELSE numerator \div denominator + 1

Pool == [weth : Nat, token : Nat]

\* Mutant of WethFor: the reserves are swapped.
WethForSwapped(p, token) == AmountOut(p.weth, p.token, token)

\* get_tokens_out of a pool for WETH and for the token, get_tokens_in for WETH out.
TokenFor(p, weth)  == AmountOut(p.weth, p.token, weth)
WethFor(p, token)  == AmountOut(p.token, p.weth, token)
TokenNeeded(p, weth) == AmountIn(p.token, p.weth, weth)

\* best_ask_market: the first of the pools that give the most tokens.
BestAsk(pools, weth) ==
    CHOOSE i \in DOMAIN pools :
        /\ \A j \in DOMAIN pools : TokenFor(pools[j], weth) <= TokenFor(pools[i], weth)
        /\ \A j \in 1 .. i - 1 : TokenFor(pools[j], weth) < TokenFor(pools[i], weth)

\* best_bid_market: the first of the pools that ask for the least tokens.
BestBid(pools, weth) ==
    CHOOSE i \in DOMAIN pools :
        /\ \A j \in DOMAIN pools : TokenNeeded(pools[j], weth) >= TokenNeeded(pools[i], weth)
        /\ \A j \in 1 .. i - 1 : TokenNeeded(pools[j], weth) > TokenNeeded(pools[i], weth)
=============================================================================

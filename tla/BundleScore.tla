----------------------------- MODULE BundleScore -----------------------------
(***************************************************************************)
(* What a transaction pays and how it compares with others (arbitrage.rs,  *)
(* take_crossed_market() and the end of generate(); utilities.rs, the gas  *)
(* price; flashbots.rs, the score of a bundle of one transaction).         *)
(*                                                                         *)
(* A transaction p has the fields profit, payment (to the miner) and gas   *)
(* (the answer of eth_estimateGas); divisions are those of integers.       *)
(***************************************************************************)
EXTENDS Naturals

\* The share of the miner, miner_reward_percentage() of both markets.
Payment(profit) == (profit * 99) \div 100

EstimatedGas(p) == (p.gas * 90) \div 100

GasPrice(p) == p.payment \div ((p.gas \div 90) * 100)

\* effective_gas: what the miner gets, over the estimated gas.
EffectiveGas(p) == (p.payment + EstimatedGas(p) * GasPrice(p)) \div EstimatedGas(p)

PaymentPerGas(p) == p.payment \div EstimatedGas(p)

\* First in the order of payment per gas, and of profit where that is equal.
IsFirstOf(p, S) ==
    /\ p \in S
    /\ \A q \in S : \/ PaymentPerGas(p) > PaymentPerGas(q)
                    \/ PaymentPerGas(p) = PaymentPerGas(q) /\ p.profit >= q.profit
=============================================================================

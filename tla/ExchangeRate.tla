---------------------------- MODULE ExchangeRate ----------------------------
(***************************************************************************)
(* The pricing of the two markets that are not pools: ETH -- cETH at the   *)
(* rate that was read last (compound.rs), and ETH -- WETH one to one       *)
(* (weth_token.rs).  The code divides by the rate as it was read, so a     *)
(* rate of 0, which is what it is before the first update, stops the       *)
(* program; all definitions are for a rate above 0.                        *)
(***************************************************************************)
EXTENDS Naturals

Rate == Nat \ {0}

\* get_tokens_out of the cETH market, for ETH and for cETH.
CethFor(rate, eth) == eth \div rate
EthFor(rate, ceth) == ceth * rate

\* get_tokens_in of the cETH market, for cETH out and for ETH out.
EthNeeded(rate, ceth) == ceth * rate
CethNeeded(rate, eth) == eth \div rate

\* get_tokens_out and get_tokens_in of the WETH market.
Wrapped(amount) == amount
=============================================================================

-------------------------- MODULE MCArbitrageTrade --------------------------
(***************************************************************************)
(* The instances of ArbitrageTrade that TLC checks.  As in MCCrossedMarkets*)
(* the unit is a finney over ten; a gas estimate is one or two times the   *)
(* 90 units that the gas price is computed from.                           *)
(***************************************************************************)
EXTENDS ArbitrageTrade

\* A wide crossing, a narrow one the other way round, and a pool that is empty.
MCInitPools ==
    { <<[weth |-> 400, token |-> 900], [weth |-> 900, token |-> 400]>>,
      <<[weth |-> 700, token |-> 300], [weth |-> 500, token |-> 350]>>,
      <<[weth |-> 0, token |-> 0], [weth |-> 500, token |-> 500]>> }
=============================================================================

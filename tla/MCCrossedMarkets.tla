-------------------------- MODULE MCCrossedMarkets --------------------------
(***************************************************************************)
(* The instances of CrossedMarkets that TLC checks.  Volumes and reserves  *)
(* are scaled down so that products stay below 2^31: the first test size   *)
(* is 10 instead of 10^16 wei, and the sizes have the ratios of the code.  *)
(***************************************************************************)
EXTENDS CrossedMarkets

\* The head of the list of test sizes, in units of a finney.
MCSizes == <<10, 100, 200, 300, 400>>

\* Pools that are empty, too thin for the smallest volume, and ordinary ones.
MCPools ==
    {[weth |-> 0, token |-> 0]} \union
    [weth : {8, 40, 200, 367, 900, 1325}, token : {9, 60, 300, 446, 552, 1000}]
=============================================================================

-------------------------- MODULE MCPairDiscovery --------------------------
(***************************************************************************)
(* The instance of PairDiscovery that TLC checks: batches of two instead   *)
(* of 250, and at most two of them.                                        *)
(***************************************************************************)
EXTENDS PairDiscovery
=============================================================================

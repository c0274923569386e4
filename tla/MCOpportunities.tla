--------------------------- MODULE MCOpportunities ---------------------------
(***************************************************************************)
(* The instance of Opportunities that TLC checks.  Profits and gas are     *)
(* chosen so that payments per gas tie between different profits, between  *)
(* different estimates, and against the prices of the pool.                *)
(***************************************************************************)
EXTENDS Opportunities, TLC

Symmetry == Permutations(Edges) \union Permutations(Pending)
=============================================================================

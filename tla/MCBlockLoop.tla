---------------------------- MODULE MCBlockLoop ----------------------------
(***************************************************************************)
(* The instance of BlockLoop that TLC checks: one pair, cETH and WETH, so  *)
(* one market of each kind.  Markets do not act on each other.             *)
(***************************************************************************)
EXTENDS BlockLoop
=============================================================================

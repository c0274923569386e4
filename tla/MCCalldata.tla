----------------------------- MODULE MCCalldata -----------------------------
(***************************************************************************)
(* The instance of Calldata that TLC checks: every field has the order and *)
(* the alignment it has in the code, and one or two bits.                  *)
(***************************************************************************)
EXTENDS Calldata
=============================================================================

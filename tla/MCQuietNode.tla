---------------------------- MODULE MCQuietNode ----------------------------
(***************************************************************************)
(* The instance of QuietNode that TLC checks.                              *)
(***************************************************************************)
EXTENDS QuietNode
=============================================================================

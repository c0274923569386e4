------------------------- MODULE MCBundleSubmission -------------------------
(***************************************************************************)
(* The instances of BundleSubmission that TLC checks.                      *)
(***************************************************************************)
EXTENDS BundleSubmission
=============================================================================

---------------------------- MODULE MCUploadRing ----------------------------
(***************************************************************************)
(* UploadRing for TLC.  Sizes are in units of a quarter of the initial     *)
(* capacity; the constants are given in the configurations.                *)
(***************************************************************************)
EXTENDS UploadRing
=============================================================================

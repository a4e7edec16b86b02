-------------------------- MODULE MCUploadPipeline --------------------------
(***************************************************************************)
(* UploadPipeline for TLC: the constants are numbers, given in the .cfg     *)
(* files.                                                                   *)
(***************************************************************************)
EXTENDS UploadPipeline
=============================================================================

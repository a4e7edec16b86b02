-------------------------- MODULE MCImportSession --------------------------
(***************************************************************************)
(* Instances of ImportSession for TLC.  The state space is finite by the    *)
(* bounds on generations and batches and by the caps of the code.           *)
(***************************************************************************)
EXTENDS ImportSession
=============================================================================

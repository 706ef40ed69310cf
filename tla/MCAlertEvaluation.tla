-------------------------- MODULE MCAlertEvaluation --------------------------
(***************************************************************************)
(* AlertEvaluation for TLC: the constants are given in the .cfg files.     *)
(***************************************************************************)
EXTENDS AlertEvaluation
=============================================================================

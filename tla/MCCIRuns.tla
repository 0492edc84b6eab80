------------------------------ MODULE MCCIRuns ------------------------------
(***************************************************************************)
(* CIRuns for TLC.                                                          *)
(***************************************************************************)
EXTENDS CIRuns, TLC

ToolSymmetry == Permutations(Tools)
=============================================================================

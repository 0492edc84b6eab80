--------------------------- MODULE MCSessionFiles ---------------------------
(***************************************************************************)
(* SessionFiles for TLC.                                                    *)
(***************************************************************************)
EXTENDS SessionFiles, TLC

Symmetry == Permutations(Procs) \cup Permutations(PRs)
=============================================================================

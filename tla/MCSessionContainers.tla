------------------------- MODULE MCSessionContainers -------------------------
(***************************************************************************)
(* SessionContainers for TLC: processes and sessions are interchangeable.   *)
(***************************************************************************)
EXTENDS SessionContainers, TLC

Symmetry == Permutations(Procs) \cup Permutations(Sessions)
=============================================================================

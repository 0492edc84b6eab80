--------------------------- MODULE MCGatedActions ---------------------------
(***************************************************************************)
(* GatedActions for TLC.  Tickets are interchangeable, and in the runs with *)
(* more than one so are the processes.                                     *)
(***************************************************************************)
EXTENDS GatedActions, TLC

TicketSymmetry == Permutations(Tickets)
Symmetry == Permutations(Tickets) \cup Permutations(Procs)

AllActions == Actions
=============================================================================

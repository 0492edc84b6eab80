----------------------------- MODULE MCAuditLog -----------------------------
(***************************************************************************)
(* AuditLog for TLC.  The processes are interchangeable, as are sessions.   *)
(***************************************************************************)
EXTENDS AuditLog, TLC

Symmetry == Permutations(Procs) \cup Permutations(Sessions)
=============================================================================

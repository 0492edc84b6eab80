----------------------------- MODULE Workspace -----------------------------
(***************************************************************************)
(* The names the decision modules share.                                   *)
(***************************************************************************)
CONSTANTS
  Sessions,   \* the sessions of the workspace
  None        \* no session, no argument, no value

ASSUME NoneIsNoSession == None \notin Sessions
=============================================================================

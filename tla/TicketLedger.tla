---------------------------- MODULE TicketLedger ----------------------------
(***************************************************************************)
(* What an approval ticket promises (docs/policy_and_security.md, section 4)*)
(* with every operation taken as one atomic step: a ticket is issued once,  *)
(* the maintainer's last answer stands, and an approval is good for one     *)
(* execution, after which the ticket is spent.                             *)
(***************************************************************************)
EXTENDS Naturals

CONSTANT Tickets

VARIABLES
    state,      \* where each ticket is in its life
    approvals,  \* how many approvals the maintainer has given for each
    executions  \* how many executions each has paid for

ledger == <<state, approvals, executions>>

States == {"unissued", "pending", "approved", "rejected", "spent"}

Init ==
    /\ state = [t \in Tickets |-> "unissued"]
    /\ approvals = [t \in Tickets |-> 0]
    /\ executions = [t \in Tickets |-> 0]

Issue(t) ==
    /\ state[t] = "unissued"
    /\ state' = [state EXCEPT ![t] = "pending"]
    /\ UNCHANGED <<approvals, executions>>

\* A maintainer may approve any ticket, and a spent one once more.
Approve(t) ==
    /\ state[t] # "unissued"
    /\ state' = [state EXCEPT ![t] = "approved"]
    /\ approvals' = [approvals EXCEPT ![t] = @ + 1]
    /\ UNCHANGED executions

Reject(t) ==
    /\ state[t] # "unissued"
    /\ state' = [state EXCEPT ![t] = "rejected"]
    /\ UNCHANGED <<approvals, executions>>

Redeem(t) ==
    /\ state[t] = "approved"
    /\ state' = [state EXCEPT ![t] = "spent"]
    /\ executions' = [executions EXCEPT ![t] = @ + 1]
    /\ UNCHANGED approvals

Next == \E t \in Tickets : Issue(t) \/ Approve(t) \/ Reject(t) \/ Redeem(t)

Spec == Init /\ [][Next]_ledger
=============================================================================

--------------------------- MODULE ApprovalTickets ---------------------------
(***************************************************************************)
(* The approval tickets of approval.py: what one entry of                  *)
(* audit/approvals.json holds, and what the methods of ApprovalManager do   *)
(* to the dictionary of entries they have loaded.  The file itself, and the *)
(* processes that load it and write it back whole, are in GatedActions.     *)
(***************************************************************************)
EXTENDS Naturals

CONSTANTS
    Tickets,    \* ticket identifiers (uuid4: never handed out twice)
    Sessions,   \* session identifiers a caller may act for
    Targets,    \* target labels, "<owner>/<repo>:<branch>" and the like
    NoTicket,   \* the caller passes no approval_ticket_id
    NoSession,  \* the empty session identifier, which binds nothing
    TTL         \* DEFAULT_TTL_SECONDS, in ticks of the clock

ASSUME TTLAssumption == TTL \in Nat
ASSUME NoTicketAssumption == NoTicket \notin Tickets

\* The `action` strings the gated handlers of server.py put on a ticket.
Actions == {"git_push", "release_push", "launch_jenkins_ci",
            "create_pull_request", "edit_pull_request", "bloom_release"}

\* What a ticket is bound to.
Binding == [action : Actions, target : Targets, session : Sessions]

\* `stamp` is what is_approved measures the age from: resolved_at once the
\* maintainer has answered, created_at before that.  `consumed` stands for
\* a consumed_at that is not None.
Request == [status   : {"PENDING", "APPROVED", "REJECTED"},
            binding  : Binding,
            stamp    : Nat,
            consumed : BOOLEAN]

\* A key the dictionary does not have.
Absent == [status |-> "ABSENT"]

\* What _load_requests returns and _save_requests writes.
Requests == [Tickets -> Request \cup {Absent}]

NewRequest(b, now) ==
    [status |-> "PENDING", binding |-> b, stamp |-> now, consumed |-> FALSE]

\* A mutant of approve_request: consumed_at is not cleared.
ApprovedStillConsumed(r, now) ==
    [r EXCEPT !.status = "APPROVED", !.stamp = now]

\* Whatever the status was: a rejected or a consumed ticket may be approved.
ApprovedBy(r, now) ==
    [r EXCEPT !.status = "APPROVED", !.stamp = now, !.consumed = FALSE]

RejectedBy(r, now) == [r EXCEPT !.status = "REJECTED", !.stamp = now]

ConsumedOf(r) == [r EXCEPT !.consumed = TRUE]

\* A mutant of is_approved: consumed_at is not looked at.
UsableAgain(r) == r.status = "APPROVED"

\* A ticket that an execution may still spend, as is_approved sees it.
Usable(r) == r.status = "APPROVED" /\ ~r.consumed

\* A mutant of is_approved: the session is not compared.
MatchesAnySession(r, b) ==
    /\ r.binding.action = b.action
    /\ r.binding.target = b.target

Matches(r, b) ==
    /\ r.binding.action = b.action
    /\ r.binding.target = b.target
    /\ r.binding.session \in {NoSession, b.session}

\* A mutant of is_approved: an approval never expires.
FreshForever(r, now) == TRUE

Fresh(r, now) == now <= r.stamp + TTL

\* is_approved(ticket, action, target, session_id, allow_consumed), over the
\* dictionary `reqs` it has just loaded.
IsApproved(reqs, t, b, now, allowConsumed) ==
    /\ t # NoTicket
    /\ reqs[t].status = "APPROVED"
    /\ Usable(reqs[t]) \/ allowConsumed
    /\ Matches(reqs[t], b)
    /\ Fresh(reqs[t], now)
=============================================================================

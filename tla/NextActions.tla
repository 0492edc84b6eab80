---------------------------- MODULE NextActions ----------------------------
(***************************************************************************)
(* hub.py: the dashboard the hub agent reads (get_workspace_status) and    *)
(* the list of what to do next made from it (get_next_actions).            *)
(*                                                                         *)
(* A workspace is                                                          *)
(*   records   the session.json of each session: [status, url, ref], the   *)
(*             pull request by its URL and by its short name, either may   *)
(*             be missing;                                                 *)
(*   runs      the CI runs of each session, oldest first;                  *)
(*   tickets   the pending tickets, with their sessions;                   *)
(*   ready     the environment check passes;                               *)
(*   review, repos   what GitHub answers: the pull requests whose review   *)
(*             is asked for, and those of each repository asked about,     *)
(*             Missing when a query fails.                                 *)
(* The wording, links, branches and timelines of the dashboard are left    *)
(* out.                                                                    *)
(***************************************************************************)
EXTENDS Naturals, Sequences, FiniteSets, SequencesExt

CONSTANT Missing     \* a field without a value

Statuses == {"active", "investigating", "blocked", "needs_review", "ready_to_merge", "done"}
RunStatuses == {"PENDING", "RUNNING", "SUCCESS", "FAILURE", "UNSTABLE", "ABORTED", "CANCELLED"}

Failed == {"FAILURE", "UNSTABLE", "ABORTED"}
UnderWay == {"PENDING", "RUNNING"}

\* The pull requests of an answer of GitHub.
Offered(answer) == IF answer = Missing THEN {} ELSE {answer[i] : i \in DOMAIN answer}
IsAnswer(answer) == answer = Missing \/ answer \in Seq(Offered(answer))

\* What is found is finite, and a session, a ticket, a pull request and the missing
\* value are never the same thing.
IsWorkspace(workspace) ==
  LET sessions == DOMAIN workspace.records
      repos == workspace.repos
      offered == Offered(workspace.review)
                   \cup UNION {Offered(repos[i]) : i \in DOMAIN repos}
  IN /\ IsFiniteSet(sessions) /\ IsFiniteSet(workspace.tickets)
     /\ IsAnswer(workspace.review)
     /\ repos \in Seq({repos[i] : i \in DOMAIN repos})
     /\ \A i \in DOMAIN repos : IsAnswer(repos[i])
     /\ sessions \cap workspace.tickets = {}
     /\ offered \cap (sessions \cup workspace.tickets) = {}
     /\ Missing \notin sessions \cup workspace.tickets \cup offered
     /\ Missing \notin Statuses

-----------------------------------------------------------------------------
(* The dashboard *)

LatestRun(runs) == IF runs = <<>> THEN Missing ELSE runs[Len(runs)]

\* A record without a status counts as active.
Summary(workspace, s) ==
  LET record == workspace.records[s] IN
  [status |-> IF record.status = Missing THEN "active" ELSE record.status,
   run |-> LatestRun(workspace.runs[s]),
   url |-> record.url, ref |-> record.ref,
   approvals |-> {t \in workspace.tickets : t.session = s}]

GetWorkspaceStatus(workspace) ==
  [ready |-> workspace.ready,
   pending |-> workspace.tickets,
   sessions |-> [s \in DOMAIN workspace.records |-> Summary(workspace, s)]]

-----------------------------------------------------------------------------
(* The pull requests GitHub offers *)

\* What is added of an answer: the ones not seen yet, in its order.
AddUnseen(found, answer) ==
  LET added[n \in 0..Len(answer)] ==
        IF n = 0 THEN found
        ELSE LET acc == added[n - 1]
             IN IF \E i \in DOMAIN acc : acc[i].url = answer[n].url
                  THEN acc ELSE Append(acc, answer[n])
  IN IF answer = Missing THEN found ELSE added[Len(answer)]

\* No further repository is asked once there are enough.
QueryOpenPRs(review, repos, limit) ==
  LET asked[n \in 0..Len(repos)] ==
        IF n = 0 THEN AddUnseen(<<>>, review)
        ELSE LET acc == asked[n - 1]
             IN IF Len(acc) >= limit THEN acc ELSE AddUnseen(acc, repos[n])
      all == asked[Len(repos)]
  IN SubSeq(all, 1, IF Len(all) < limit THEN Len(all) ELSE limit)

-----------------------------------------------------------------------------
(* What to do next *)

Action(priority, about) == [priority |-> priority, about |-> about]

\* A mutant of PriorityOf: the status of the session speaks first.
PriorityByStatus(summary) ==
  CASE summary.status = "blocked" -> "P1_SESSION_BLOCKED"
    [] summary.status \in {"needs_review", "ready_to_merge"} -> "P2_SESSION_REVIEW"
    [] OTHER -> "P3_SESSION_IN_PROGRESS"

\* The last CI run speaks first, then the status of the session.
PriorityOf(summary) ==
  CASE summary.run \in Failed -> "P2_CI_FAILURE"
    [] summary.run = "SUCCESS" -> "P2_CI_SUCCESS"
    [] summary.run \in UnderWay -> "P3_CI_RUNNING"
    [] OTHER ->
         CASE summary.status = "blocked" -> "P1_SESSION_BLOCKED"
           [] summary.status \in {"needs_review", "ready_to_merge"} -> "P2_SESSION_REVIEW"
           [] OTHER -> "P3_SESSION_IN_PROGRESS"

EnvironmentActions(status) ==
  IF status.ready THEN <<>> ELSE <<Action("P0_ENVIRONMENT", Missing)>>

ApprovalActions(status) ==
  [i \in 1..Len(SetToSeq(status.pending)) |->
     Action("P1_APPROVAL_NEEDED", SetToSeq(status.pending)[i])]

SessionActions(status) ==
  LET open == SetToSeq({s \in DOMAIN status.sessions : status.sessions[s].status # "done"})
  IN [i \in DOMAIN open |-> Action(PriorityOf(status.sessions[open[i]]), open[i])]

\* A pull request is in hand when a session, done or not, has its URL or its
\* short name.
InHand(status, pr) ==
  \E s \in DOMAIN status.sessions :
     \/ status.sessions[s].url = pr.url
     \/ status.sessions[s].ref = pr.ref

TriageActions(status, found) ==
  LET new[n \in 0..Len(found)] ==
        IF n = 0 THEN <<>>
        ELSE IF InHand(status, found[n]) THEN new[n - 1]
        ELSE Append(new[n - 1], Action("P4_NEW_PR_TRIAGE", found[n]))
  IN new[Len(found)]

GetNextActions(workspace, limit) ==
  LET status == GetWorkspaceStatus(workspace)
      found == QueryOpenPRs(workspace.review, workspace.repos, limit)
  IN EnvironmentActions(status) \o ApprovalActions(status)
       \o SessionActions(status) \o TriageActions(status, found)

-----------------------------------------------------------------------------
(* Nobody is forgotten and nothing is said twice: the list has exactly one *)
(* entry for every session that is not done and for every pending ticket,  *)
(* none for a session that is done, at most `limit` pull requests, each    *)
(* once and none that a session already has; a session whose last CI run   *)
(* failed is never shown as progressing, waiting or fit for review.        *)
Covers(workspace, limit, actions) ==
  LET entries(about) == {i \in DOMAIN actions : actions[i].about = about}
      prs == {i \in DOMAIN actions : actions[i].priority = "P4_NEW_PR_TRIAGE"}
      one(set) == \E i \in set : set = {i}
      lastFailed(s) == LET r == workspace.runs[s] IN r # <<>> /\ r[Len(r)] \in Failed
  IN /\ \A s \in DOMAIN workspace.records :
          IF workspace.records[s].status = "done" THEN entries(s) = {}
            ELSE /\ one(entries(s))
                 /\ lastFailed(s) =>
                      \A i \in entries(s) : actions[i].priority = "P2_CI_FAILURE"
     /\ \A t \in workspace.tickets : one(entries(t))
     /\ \A i, j \in prs : i # j => actions[i].about.url # actions[j].about.url
     /\ \A i, j \in prs : i < j => j - i < limit
     /\ \A i \in prs, s \in DOMAIN workspace.records :
          /\ workspace.records[s].url # actions[i].about.url
          /\ workspace.records[s].ref # actions[i].about.ref
=============================================================================

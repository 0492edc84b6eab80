------------------------- MODULE ToolAuthorization -------------------------
(***************************************************************************)
(* Which tool calls of the gateway a caller may make, and on which session *)
(* they act: authorize_tool_call in auth.py, the wrapper that               *)
(* create_mcp_server puts around every tool, and the checks the CI tools   *)
(* make themselves on the run they were asked about.                       *)
(*                                                                         *)
(* A caller is [role, session]; a call is [tool, session, path, run]: the  *)
(* session_id argument (None when empty or absent), whose directory the    *)
(* repo_path argument lies in, and to whom the run belongs that            *)
(* job_url_or_id finds.                                                    *)
(***************************************************************************)
EXTENDS Workspace

Roles == {"admin", "hub", "session"}
NoCaller == [role |-> "none", session |-> None]

-----------------------------------------------------------------------------
(* The tools *)

HubAndAdminTools ==
  {"check_environment", "get_workspace_status", "get_next_actions", "list_sessions",
   "list_approval_requests", "scaffold_session_from_pr", "create_session",
   "prune_session", "start_session_container", "stop_session_container",
   "start_session_conversation", "generate_mcp_config", "get_session_launch_info"}
SessionMutationTools == {"git_push", "create_pull_request", "edit_pull_request"}
ReleaseMutationTools == {"push_release", "run_bloom_release"}
SharedTools ==
  {"log_status", "update_session_status", "get_ci_status", "get_ci_summary",
   "list_ci_runs", "find_restarted_ci", "launch_jenkins_ci", "cancel_ci_run",
   "get_maintainer_rules", "check_policy", "get_session_attach_info"}
OwnershipCheckTools ==
  {"update_session_status", "log_status", "exec_in_session", "stop_session_container",
   "prune_session", "launch_jenkins_ci", "find_restarted_ci", "get_ci_status",
   "list_ci_runs", "cancel_ci_run", "list_approval_requests"}
\* In no list: for the administrator only.
AdminTools == {"add_maintainer_rule", "respond_approval_request"}

Tools == HubAndAdminTools \cup SessionMutationTools \cup ReleaseMutationTools
           \cup SharedTools \cup AdminTools \cup {"exec_in_session"}

\* The tools without a session_id parameter, those with a repo_path, those
\* that find a run by job_url_or_id, and of these the ones that check it.
Sessionless ==
  {"check_policy", "list_sessions", "get_maintainer_rules", "add_maintainer_rule",
   "respond_approval_request", "get_ci_summary", "check_environment",
   "get_workspace_status", "get_next_actions"}
WithPath == {"git_push", "push_release", "create_session"}
WithRun == {"get_ci_status", "get_ci_summary", "cancel_ci_run"}

-----------------------------------------------------------------------------
(* authorize_tool_call *)

\* started: the sessions whose session.json says that the hub started them.
AuthorizeHub(call, started, policy) ==
  /\ call.tool \notin SessionMutationTools \cup ReleaseMutationTools
  /\ call.tool = "exec_in_session" => policy.hubExec
  /\ call.tool \in HubAndAdminTools \cup SharedTools \cup {"exec_in_session"}
  /\ (call.tool \in OwnershipCheckTools /\ call.session # None) => call.session \in started

\* A path below /workspace is one in the session's own directory.
AuthorizeSession(caller, call, policy) ==
  /\ caller.session # None
  /\ call.tool \notin HubAndAdminTools \cup {"exec_in_session"}
  /\ call.tool \in ReleaseMutationTools => policy.sessionRelease
  /\ call.tool \in SessionMutationTools \cup ReleaseMutationTools \cup SharedTools
  /\ call.tool \notin Sessionless => call.session \in {None, caller.session}
  /\ call.tool \in WithPath => call.path \in {None, caller.session}

AuthorizeToolCall(caller, call, started, policy) ==
  \/ caller.role = "admin"
  \/ caller.role = "hub" /\ AuthorizeHub(call, started, policy)
  \/ caller.role = "session" /\ AuthorizeSession(caller, call, policy)

-----------------------------------------------------------------------------
(* The wrapper and the tools *)

\* Without a token the caller is the administrator of a local server.
EffectiveCaller(caller, requireAuth) ==
  IF caller = NoCaller /\ ~requireAuth THEN [role |-> "admin", session |-> None]
    ELSE caller

\* The session_id the tool gets: a session's own one takes its place.
BoundSession(caller, call) ==
  IF call.tool \in Sessionless THEN None
    ELSE IF caller.role = "session" THEN caller.session ELSE call.session

\* A mutant of ForeignRun: the summary of a run is given to everyone.
ForeignRunButSummary(caller, call) ==
  /\ call.tool \in WithRun \ {"get_ci_summary"}
  /\ caller.role = "session"
  /\ call.run \in Sessions
  /\ call.run # caller.session

\* The tools' own check: the run found belongs to another session.
ForeignRun(caller, call) ==
  /\ call.tool \in WithRun
  /\ caller.role = "session"
  /\ call.run \in Sessions
  /\ call.run # caller.session

\* Whose session, run and checkout the call reads or changes.
SessionsTouched(caller, call) ==
  ({BoundSession(caller, call)}
     \cup (IF call.tool \in WithRun THEN {call.run} ELSE {})
     \cup (IF call.tool \in WithPath THEN {call.path} ELSE {})) \cap Sessions

\* What the gateway does with a call: refused, or done on these sessions.
Outcome(caller, call, started, policy, requireAuth) ==
  LET effective == EffectiveCaller(caller, requireAuth) IN
  IF \/ ~AuthorizeToolCall(effective, call, started, policy)
     \/ ForeignRun(effective, call)
    THEN [what |-> "refused", sessions |-> {}]
    ELSE [what |-> "done", sessions |-> SessionsTouched(effective, call)]
=============================================================================

--------------------------- MODULE AgentRequests ---------------------------
(***************************************************************************)
(* What an agent asks of the harness, and what the harness decides: a      *)
(* shell command or a file through the PreToolUse hook (HookRouting), a    *)
(* tool of the gateway (ToolAuthorization), a push (PushPolicy) and the    *)
(* hub's question what to do next (NextActions).                           *)
(*                                                                         *)
(* Every request loads session.json and policy.yaml anew, so a request     *)
(* brings along what it finds there, whatever happened before it.  A       *)
(* command is served in several steps: one or two hooks look at it (the    *)
(* agent's global one and the one of its directory), then the host shell   *)
(* runs what came out of them.                                             *)
(***************************************************************************)
EXTENDS HookRouting, ToolAuthorization, PushPolicy, ShellScan

CONSTANTS
  ShellCalls,    \* the commands agents issue, and where
  ReadCalls,     \* the files agents read, and where
  RecordSets,    \* session.json of the existing sessions, as a request finds it
  ToolRequests,  \* [caller, call, started, policy, requireAuth]
  PushRequests,  \* [session, push, scope, policy, ticket]
  RemoteUrls,    \* what the remotes of a checkout point to
  Workspaces,    \* what the hub's dashboard finds
  Limits,        \* the limits on the pull requests it asks for
  Missing,       \* a field without a value, in the dashboard
  Lines,         \* the lines the scanners read
  MaxHooks       \* how many hooks look at one command

\* A remote points to a repository or to nothing the harness knows, and the
\* repositories in a session's record are repositories.
ASSUME PushesAssumption ==
  /\ \A r \in DOMAIN RemoteUrls : RemoteUrls[r] \in Repositories \cup {None}
  /\ "fork" \in DOMAIN RemoteUrls
  /\ \A p \in PushRequests :
       /\ p.remote \in DOMAIN RemoteUrls
       /\ {p.scope.pr, p.scope.base, p.scope.headRepo} \subseteq Repositories \cup {None}

Hub == INSTANCE NextActions

\* Calls and commands have these fields, whatever some of them hold.  The
\* shell of Claude Code is in a directory that exists.
ASSUME CallsAssumption ==
  /\ \A call \in ShellCalls :
       /\ call \in [claude : BOOLEAN, inside : BOOLEAN, cwd : {call.cwd}, open : {call.open},
                   conversation : {call.conversation}, cmd : {call.cmd}]
       /\ call.cmd \in [segs : Seq(Seq(STRING)), live : BOOLEAN, quoted : BOOLEAN,
                       lines : {call.cmd.lines}, inner : {call.cmd.inner},
                       delim : {call.cmd.delim}, dir : {call.cmd.dir}]
       /\ call.cwd.rel # None
       /\ call.claude /\ call.cwd.base = "session" => Exists(call.cwd.rel)
  /\ \A records \in RecordSets : DOMAIN records \subseteq Sessions

\* The dashboard finds sessions, tickets and pull requests that are told apart.
ASSUME WorkspacesAssumption ==
  /\ \A w \in Workspaces : Hub!IsWorkspace(w)
  /\ Limits \subseteq Nat

\* Lines are made of the characters the scanners tell apart.
ASSUME LinesAssumption == Lines \subseteq Seq(Chars)

VARIABLES
  request,   \* the request being served, None between requests
  answer     \* what came of it, None while it is being served

vars == <<request, answer>>

Init == request = None /\ answer = None

Idle == request = None

Ask(req) == request' = req /\ answer' = None

Open(kind) == request # None /\ answer = None /\ request.kind = kind

Answer(ans) == answer' = ans /\ UNCHANGED request

\* The answer is delivered.
Finish == answer # None /\ request' = None /\ answer' = None

-----------------------------------------------------------------------------
(* A shell command.  now is the call as the hooks have left it, hooks the  *)
(* number of them that looked, explicit the session the agent's own hook   *)
(* was installed for.                                                      *)

AskCommand ==
  Idle /\ \E call \in ShellCalls, records \in RecordSets :
    \E explicit \in DOMAIN records \cup {None} :
      Ask([kind |-> "command", call |-> call, now |-> call, hooks |-> 0,
           records |-> records, explicit |-> explicit])

\* A further hook is the global one, installed for no session.
Hook ==
  /\ Open("command")
  /\ request.hooks < MaxHooks
  /\ \E onPath \in BOOLEAN :
       LET explicit == IF request.hooks = 0 THEN request.explicit ELSE None
           out == EvaluatePreToolUse(request.now, explicit, request.records, onPath)
       IN /\ request' = [request EXCEPT !.hooks = @ + 1, !.now.cmd = out.cmd,
                                        !.now.cwd = out.cwd]
          /\ answer' = IF out.verdict = "deny" THEN [what |-> "denied"] ELSE None

RunCommand ==
  /\ Open("command")
  /\ request.hooks > 0
  /\ Answer([what |-> "ran",
             ran |-> ShellRuns(request.now.cmd, request.now.cwd, request.records)])

AskRead ==
  Idle /\ \E call \in ReadCalls, records \in RecordSets :
    \E explicit \in DOMAIN records \cup {None} :
      Ask([kind |-> "read", call |-> call, records |-> records, explicit |-> explicit])

HookRead ==
  /\ Open("read")
  /\ Answer([what |-> EvaluateRead(request.call, request.explicit, request.records)])

-----------------------------------------------------------------------------
(* A tool of the gateway *)

AskTool == Idle /\ \E t \in ToolRequests : Ask([kind |-> "tool", tool |-> t])

ServeTool ==
  /\ Open("tool")
  /\ LET t == request.tool
     IN Answer(Outcome(t.caller, t.call, t.started, t.policy, t.requireAuth))

-----------------------------------------------------------------------------
(* A push *)

AskPush == Idle /\ \E p \in PushRequests : Ask([kind |-> "push", push |-> p])

Target(p) ==
  [session |-> p.session, branch |-> p.branch,
   repo |-> TargetRepository(p.scope, p.remote, p.branch, RemoteUrls)]

\* The ticket presented is approved for this very target.
TicketValid(p) ==
  /\ p.ticket # None
  /\ p.ticket.status = "APPROVED"
  /\ p.ticket.target = Target(p)

ServePush ==
  /\ Open("push")
  /\ LET p == request.push
         verdict == PushVerdict(p.scope, p.policy, p, Target(p).repo)
     IN \/ verdict = "denied" /\ Answer([what |-> "denied"])
        \/ verdict = "approval" /\ ~TicketValid(p) /\ Answer([what |-> "pending"])
        \/ /\ verdict = "direct" \/ (verdict = "approval" /\ TicketValid(p))
           /\ \E what \in {"pushed", "failed"} :
                Answer([what |-> what, target |-> Target(p), verdict |-> verdict])

\* check_policy: the same question, asked beforehand.
AskPolicy == Idle /\ \E p \in PushRequests : Ask([kind |-> "policy", push |-> p])

ServePolicy ==
  /\ Open("policy")
  /\ LET p == request.push IN
     \E action \in {"git_push", "create_pull_request", "other"} :
       Answer([what |-> CheckPolicy(p.policy,
                 [action |-> action, branch |-> p.branch, repo |-> Target(p).repo,
                  withLease |-> p.withLease, force |-> p.force]),
               action |-> action])

-----------------------------------------------------------------------------
(* What to do next, and the scanners *)

AskNext ==
  Idle /\ \E w \in Workspaces, limit \in Limits :
    Ask([kind |-> "next", workspace |-> w, limit |-> limit])

ServeNext ==
  /\ Open("next")
  /\ Answer([what |-> "list",
             actions |-> Hub!GetNextActions(request.workspace, request.limit)])

AskScan == Idle /\ \E line \in Lines : Ask([kind |-> "scan", line |-> line])

ServeScan ==
  /\ Open("scan")
  /\ Answer([what |-> "scanned", cuts |-> Cuts(request.line),
             live |-> ContainsShellSubstitution(request.line)])

Next ==
  \/ Finish
  \/ AskCommand \/ Hook \/ RunCommand
  \/ AskRead \/ HookRead
  \/ AskTool \/ ServeTool
  \/ AskPush \/ ServePush \/ AskPolicy \/ ServePolicy
  \/ AskNext \/ ServeNext
  \/ AskScan \/ ServeScan

Spec == Init /\ [][Next]_vars
-----------------------------------------------------------------------------
(* Properties *)

\* The session a command belongs to.
Owner == ResolveSession(request.call, request.explicit, request.records)

\* The directory the agent named, as the container has it.
AskedDir == ContainerWorkdir(request.call.cwd, Owner)

\* The command needs nothing but the harness itself.
HostControl(cmd) ==
  /\ ~cmd.live
  /\ \A i \in DOMAIN cmd.segs :
       /\ FirstExecutable(cmd.segs[i]) \in PassthroughBinaries \cup {None}
       /\ ~ForbiddenSegment(cmd.segs[i])

\* A command of a session that is let through ends in the sandbox of that
\* session and no other, in the directory the agent named, unless it only
\* talks to the harness.  What may instead fail to find its session is a
\* command of Claude Code given outside the session's directory, and an
\* rmah-session-exec the agent wrote itself.  (evaluate_pre_tool_use,
\* build_session_exec_command, session_exec_main)
RoutedOrHostControl ==
  (answer # None /\ request.kind = "command" /\ answer.what = "ran"
     /\ ~request.call.inside /\ Owner # None) =>
    LET ran == answer.ran IN
    CASE ran.where = "host" -> HostControl(ran.cmd)
      [] ran.where = "container" ->
           /\ ran.session = Owner
           /\ (request.call.cmd.inner = None
                 /\ (request.hooks = 1 \/ "EOF" \notin request.call.cmd.lines)) =>
                   ran.dir = AskedDir /\ ran.cmd = request.call.cmd
      [] ran.where = "nowhere" ->
           \/ request.call.cmd.inner # None
           \/ request.call.claude /\ ~InSession(request.call.cwd, request.records)

\* However many hooks look at a command, it is wrapped once and none refuses
\* what another wrapped.  A command with a line EOF of its own gets another
\* delimiter, which the next hook does not know (_is_single_heredoc_session_exec),
\* and is left out.
WrapsOnce ==
  (request # None /\ request.kind = "command" /\ "EOF" \notin request.call.cmd.lines) =>
    LET first == request.call.cmd
        now == request.now.cmd
    IN /\ \/ now = first
          \/ now.inner = first
          \/ now = [first EXCEPT !.segs = <<PathPrefix>> \o @]
       /\ (answer # None /\ answer.what = "denied") => request.hooks = 1

\* Words in front of a program that do not change which program runs.
WrapperPrefixes ==
  {<<"env", "-u", "HOME">>, <<"sudo", "-u", "ros">>, <<"timeout", "-k", "5", "10">>,
   <<"nice", "-n", "5">>, <<"nohup">>, <<"A=1", "env">>, <<"sudo", "nice", "-n", "5">>,
   <<"timeout", "10", "env", "A=1">>, <<"command", "-v">>}

\* A wrapper in front of a program (env, sudo, timeout, nice, nohup) changes
\* nothing in what the hook decides about the command.
\* (_first_executable_in_segment)
WrappersTransparent ==
  (request # None /\ request.kind = "command" /\ request.hooks = 0
     /\ request.call.cmd.segs # <<>>) =>
    LET call == request.call
        seg == call.cmd.segs[1]
        plain == EvaluatePreToolUse(call, request.explicit, request.records, TRUE)
    IN FirstExecutable(seg) = None \/
       \A prefix \in WrapperPrefixes :
         LET wrapped == EvaluatePreToolUse([call EXCEPT !.cmd.segs[1] = prefix \o seg],
                          request.explicit, request.records, TRUE)
         IN /\ wrapped.verdict = plain.verdict
            /\ wrapped.cwd = plain.cwd
            /\ call.cmd.inner = None => (wrapped.cmd.inner = None <=> plain.cmd.inner = None)

\* The two scanners agree with the shell: a line is cut exactly where the
\* shell would cut it and a substitution is reported exactly when the shell
\* would expand one.  (_split_top_level_segments, _contains_shell_substitution)
ScannersAgree ==
  (answer # None /\ request.kind = "scan" /\ Readable(request.line)) =>
    /\ answer.cuts = ShellCuts(request.line)
    /\ answer.live <=> ShellExpands(request.line)

\* Whatever a session's agent passes as arguments, a call the gateway carries
\* out touches no other session, its checkout or its CI runs.
\* (authorize_tool_call, its overrides, the checks of the CI tools)
OwnSessionOnly ==
  (answer # None /\ request.kind = "tool" /\ answer.what = "done"
     /\ request.tool.caller.role = "session") =>
    answer.sessions \subseteq {request.tool.caller.session}

\* A push that happens was one the maintainer's policy permits: never an odd
\* name, never a protected branch but of a contributor's fork, and without a
\* ticket only to a listed or own repository, on the session's own branch or
\* the maintainer's, in the session's own repositories.
\* (validate_git_push, perform_git_push)
PushGated ==
  (answer # None /\ request.kind = "push" /\ answer.what = "pushed") =>
    LET p == request.push
        repo == answer.target.repo
        base == IF p.scope.base # None THEN p.scope.base ELSE p.scope.pr
        fork == repo # None /\ repo.owner \notin StandardOwners \cup ({p.policy.user} \ {None})
        ownBranch == p.branch \in {p.scope.head} \cup p.policy.mine
        ownRepo == \/ repo = None \/ base = None \/ repo = base
                   \/ /\ repo.name = base.name
                      /\ repo.owner \in {p.scope.headOwner, p.policy.user}
        scoped == p.scope.pr # None \/ p.scope.head # None
    IN /\ p.branch \in p.policy.allowedBranches \ (Refspecs \cup OddPaths)
       /\ p.force => p.withLease \/ ~p.policy.requireLease
       /\ ~fork => p.branch \notin DistroBranches \cup p.policy.blockedBranches
       /\ fork => p.policy.forkApproval
       /\ (fork \/ (scoped /\ ~(ownBranch /\ ownRepo))) =>
            p.ticket # None /\ p.ticket.status = "APPROVED" /\ p.ticket.target = answer.target
       /\ ~fork => /\ repo # None
                   /\ repo \in p.policy.allowedRepos \/ repo.owner = p.policy.user

\* The hub's list has exactly one entry for every session that is not done
\* and for every pending ticket, and no pull request that is in hand.
\* (get_next_actions)
NextActionsCover ==
  (answer # None /\ request.kind = "next") =>
    Hub!Covers(request.workspace, request.limit, answer.actions)
=============================================================================

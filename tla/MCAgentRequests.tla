-------------------------- MODULE MCAgentRequests --------------------------
(* Small sets of requests for AgentRequests. *)
EXTENDS AgentRequests, SequencesExt

CONSTANTS s1, s2, c1, c2, hub1, none, missing

-----------------------------------------------------------------------------
(* Commands *)

Cmd(segs, live, quoted, lines) ==
  [segs |-> segs, live |-> live, quoted |-> quoted, lines |-> lines,
   inner |-> none, delim |-> none, dir |-> none]

Harness == "ros-maintainer-harness"
Segs ==
  {<<"colcon", "build">>, <<"docker", "ps">>, <<"ls">>, <<"true">>, <<"A=1">>,
   <<"env", "-u", "x", "podman">>, <<"timeout", "5", "rosdep">>, <<"agentapi">>,
   <<Harness, "-w", "x", "ci", "status">>, <<Harness, "approval", "approve">>,
   <<Harness, "--help">>, <<Harness, "session", "exec">>, <<Harness, "git-push">>,
   <<"rmah-session-exec", "-d", "x", "ls">>, <<"bloom-release">>,
   <<"catkin_prepare_release">>, <<"catkin_prepare_release", "--no-push">>,
   <<"gh", "auth", "token">>, <<"python3", "ci_for_pr.py">>}
FewSegs == {<<"colcon", "build">>, <<"docker", "ps">>, <<"export", "A=1">>, <<"ls">>,
            <<Harness, "ci", "status">>, <<Harness, "approval", "approve">>}

Typed ==
  LET inner == Cmd(<<<<"ls">>>>, FALSE, FALSE, {}) IN
  [segs |-> <<<<"rmah-session-exec">>>>, live |-> FALSE, quoted |-> TRUE, lines |-> {"EOF"},
   inner |-> inner, delim |-> "EOF", dir |-> none]

Commands ==
  {Cmd(<<seg>>, live, FALSE, {}) : seg \in Segs, live \in BOOLEAN}
    \cup {Cmd(<<seg>>, FALSE, TRUE, lines) : seg \in Segs, lines \in {{}, {"EOF"}}}
    \cup {Cmd(<<a, b>>, FALSE, quoted, {}) : a, b \in FewSegs, quoted \in BOOLEAN}
    \cup {Cmd(<<>>, FALSE, FALSE, {}), Typed,
          Cmd(<<<<"ls">>>>, TRUE, TRUE, {"EOF", "__EOF__"})}

Call(claude, inside, cwd, open, conv, cmd) ==
  [claude |-> claude, inside |-> inside, cwd |-> cwd, open |-> open,
   conversation |-> conv, cmd |-> cmd]

\* Where Claude Code's shell can be, and what the other agents name.
ClaudePlaces == {Dir("session", s1, Top), Dir("session", s1, "src"),
                 Dir("root", None, Top), Dir("outside", None, Top)}
OtherPlaces == {NoDir, Dir("session", s1, "gone"), Dir("container", None, Top),
                Dir("container", None, "src"), Dir("container", None, "gone")} \cup ClaudePlaces

MCShellCalls ==
  {Call(TRUE, FALSE, d, d, c, cmd) : d \in ClaudePlaces, c \in {c1}, cmd \in Commands}
    \cup {Call(FALSE, FALSE, d, o, c, cmd) :
            d \in OtherPlaces, o \in {NoDir, Dir("session", s2, Top)},
            c \in {c1, hub1}, cmd \in Commands}
    \cup {Call(FALSE, TRUE, Dir("container", None, "src"), NoDir, c1, cmd) : cmd \in Commands}

MCReadCalls ==
  {[claude |-> claude, inside |-> inside, cwd |-> d, open |-> NoDir, conversation |-> c1,
    file |-> [memory |-> m, up |-> u, harness |-> h, name |-> n]] :
     claude, inside, m, u, h \in BOOLEAN, d \in {NoDir, Dir("session", s1, "src")},
     n \in {"plain", "config", "transcript"}}

Ids(c, h) == [conversation |-> c, hub |-> h]
MCRecordSets ==
  {[s \in {} |-> none],
   [s \in {s1} |-> Ids(c1, hub1)],
   [s \in {s1, s2} |-> IF s = s1 THEN Ids(none, none) ELSE Ids(c1, hub1)],
   [s \in {s1, s2} |-> IF s = s1 THEN Ids(c2, hub1) ELSE Ids(hub1, none)]}

MCSubDirs == {"src"}

-----------------------------------------------------------------------------
(* Tool calls *)

MCToolRequests ==
  {[caller |-> c, call |-> [tool |-> t, session |-> a, path |-> p, run |-> r],
    started |-> {s2}, policy |-> [hubExec |-> h, sessionRelease |-> ~h], requireAuth |-> q] :
     c \in {NoCaller, [role |-> "admin", session |-> none], [role |-> "hub", session |-> none],
            [role |-> "session", session |-> s1]},
     t \in Tools, a \in {none, s1, s2}, p \in {none, s1, s2}, r \in {none, s1, s2},
     h, q \in BOOLEAN}

-----------------------------------------------------------------------------
(* Pushes *)

Repo(o, n) == [owner |-> o, name |-> n]
MCRepositories == {Repo("ros2", "rclcpp"), Repo("ros2", "rcl"), Repo("ros", "rclcpp"),
                   Repo("me", "rclcpp"), Repo("them", "rclcpp")}
MCBranches == {"rolling", "fix", "mine/fix", "a:b", "a..b", "release"}
MCDistroBranches == {"rolling"}
MCRefspecs == {"a:b"}
MCOddPaths == {"a..b"}
MCStandardOwners == {"ros2", "ros"}
MCRemoteUrls == [origin |-> Repo("ros2", "rclcpp"), fork |-> none,
                 other |-> Repo("ros2", "rcl"), them |-> Repo("them", "rclcpp"),
                 me |-> Repo("me", "rclcpp"), unlisted |-> Repo("ros", "rclcpp"),
                 unknown |-> none]

\* A policy: the default one, or one that differs in one respect.
DefaultPolicy ==
  [user |-> "me", mine |-> {"mine/fix"}, allowedBranches |-> MCBranches,
   blockedBranches |-> {}, requireLease |-> TRUE, forkApproval |-> TRUE,
   allowedRepos |-> {Repo("ros2", "rclcpp"), Repo("ros2", "rcl")}]
MCPolicies ==
  {DefaultPolicy,
   [DefaultPolicy EXCEPT !.user = none, !.mine = {}],
   [DefaultPolicy EXCEPT !.blockedBranches = {"release"}, !.requireLease = FALSE],
   [DefaultPolicy EXCEPT !.forkApproval = FALSE,
                         !.allowedRepos = @ \cup {Repo("them", "rclcpp")}],
   [DefaultPolicy EXCEPT !.allowedRepos = {}, !.allowedBranches = {"fix", "rolling"}]}

Scope(pr, base, head, owner, headRepo) ==
  [pr |-> pr, base |-> base, head |-> head, headOwner |-> owner, headRepo |-> headRepo]
MCScopes ==
  {Scope(none, none, none, none, none),
   Scope(Repo("ros2", "rclcpp"), none, "fix", none, none),
   Scope(Repo("ros2", "rclcpp"), Repo("ros2", "rclcpp"), "rolling", "them", Repo("them", "rclcpp")),
   Scope(none, none, "release", none, none)}

MCPushRequests ==
  {[session |-> s1, branch |-> b, remote |-> r, withLease |-> l, force |-> f,
    policy |-> p, scope |-> sc, ticket |-> t] :
     b \in MCBranches, r \in DOMAIN MCRemoteUrls, l, f \in BOOLEAN, p \in MCPolicies,
     sc \in MCScopes,
     t \in {none} \cup {[status |-> st, target |-> [session |-> s, branch |-> "rolling",
                                                   repo |-> Repo("them", "rclcpp")]] :
                          st \in {"PENDING", "APPROVED"}, s \in {s1, s2}}}

-----------------------------------------------------------------------------
(* Dashboards *)

PR(u, r) == [url |-> u, ref |-> r]
PRa == PR("u1", "r1")
PRb == PR("u2", "r2")
Rec(st, u, r) == [status |-> st, url |-> u, ref |-> r]
MCWorkspaces ==
  {[records |-> [s \in {s1, s2} |-> IF s = s1 THEN Rec(st, u, missing) ELSE Rec("done", missing, r)],
    runs |-> [s \in {s1, s2} |-> runs], tickets |-> tickets, ready |-> ready,
    review |-> review, repos |-> repos] :
     st \in (Hub!Statuses \cup {missing}), u \in {missing, "u1"}, r \in {missing, "r2"},
     runs \in ({<<>>, <<"FAILURE", "RUNNING">>} \cup {<<"SUCCESS", x>> : x \in Hub!RunStatuses}),
     tickets \in {{}, {[id |-> 1, session |-> s1], [id |-> 2, session |-> s2]}},
     ready \in BOOLEAN,
     review \in {missing, <<PRa>>, <<PRa, PRb>>},
     repos \in {<<>>, <<missing, <<PRb, PRa>>>>}}
MCLimits == {1, 3}

-----------------------------------------------------------------------------
(* Lines: every one up to this length *)

LineLength == 6
MCLines == UNION {[1..n -> Chars] : n \in 0..LineLength}
=============================================================================

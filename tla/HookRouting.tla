---------------------------- MODULE HookRouting ----------------------------
(***************************************************************************)
(* hooks.py: what the PreToolUse hook of an agent decides about a shell    *)
(* command or a file the agent wants to read, and what happens when the    *)
(* host shell then runs the command (session_exec_main in cli.py).         *)
(*                                                                         *)
(* A command is what the code tells apart in its text:                     *)
(*   segs    its segments, each a sequence of words (base names);          *)
(*   live    the shell would run a substitution inside it;                 *)
(*   quoted  it has a single quote or several lines;                       *)
(*   lines   those of its lines that read like a heredoc delimiter;        *)
(*   inner   the command it hands to the container, if the hook wrote it,  *)
(*   delim   with the delimiter of the heredoc, if it used one,            *)
(*   dir     and the directory after -d, if any.                           *)
(* How the segments and "live" are found in the text is ShellScan.         *)
(* A directory is [base, session, rel]: base is "none" (not given),        *)
(* "session" (below the directory of that session), "container"            *)
(* (/workspace), "root" (the workspace itself) or "outside"; rel is the    *)
(* part below.                                                             *)
(***************************************************************************)
EXTENDS Workspace, Naturals, Sequences

CONSTANT SubDirs     \* the directories that exist below every session directory

Top == ""
Dir(base, s, rel) == [base |-> base, session |-> s, rel |-> rel]
NoDir == Dir("none", None, Top)

-----------------------------------------------------------------------------
(* The words of a segment *)

\* Words that begin with a dash, and words like A=1.
Options == {"-u", "-g", "-C", "-S", "-k", "-s", "-n", "-i", "-w", "-d", "-v",
            "--no-push", "-h", "--help"}
Assignments == {"A=1", "PATH=~/.local/bin"}

\* The options of a wrapper that take the next word as their value.
ValueOptions ==
  [env |-> {"-u", "-C", "-S"},
   sudo |-> {"-u", "-g", "-C", "-h"},
   timeout |-> {"-k", "-s"},
   nice |-> {"-n"}]
Wrappers == DOMAIN ValueOptions
PlainWrappers == {"command", "nohup", "exec", "builtin", "time", "stdbuf", "ionice"}

\* A mutant of FirstExecutable: the value of an option passes for the program.
FirstWord(seg) ==
  LET skipped == Options \cup Assignments \cup Wrappers \cup PlainWrappers
      words == {i \in DOMAIN seg : seg[i] \notin skipped}
  IN IF words = {} THEN None
       ELSE seg[CHOOSE i \in words : \A j \in words : i <= j]

\* The first word at or after i that is no option.
PastOptions(seg, i) ==
  CHOOSE j \in i..(Len(seg) + 1) :
    /\ j = Len(seg) + 1 \/ seg[j] \notin Options
    /\ \A k \in i..(j - 1) : seg[k] \in Options

\* The word that is run, read from the i-th word on, a wrapper (or none) before it.
ExecutableFrom(seg) ==
  LET scan[p \in (1..(Len(seg) + 2)) \X (Wrappers \cup {"none"})] ==
        LET i == p[1]
            mode == p[2]
        IN IF i > Len(seg) THEN None
           ELSE IF seg[i] \in Assignments THEN scan[<<i + 1, mode>>]
           ELSE IF mode # "none" /\ seg[i] \in Options
             THEN scan[<<IF seg[i] \in ValueOptions[mode] /\ i < Len(seg)
                           THEN i + 2 ELSE i + 1, mode>>]
           ELSE IF mode = "timeout" THEN scan[<<i + 1, "none">>]
           ELSE IF seg[i] \in Wrappers THEN scan[<<i + 1, seg[i]>>]
           ELSE IF seg[i] \in PlainWrappers THEN scan[<<PastOptions(seg, i + 1), "none">>]
           ELSE seg[i]
  IN scan

\* The word a segment runs, wrappers and assignments skipped.
FirstExecutable(seg) == ExecutableFrom(seg)[<<1, "none">>]

Executables(cmd) == {FirstExecutable(cmd.segs[i]) : i \in DOMAIN cmd.segs} \ {None}

-----------------------------------------------------------------------------
(* The subcommand of the harness *)

\* The actions a session may use of each subcommand; {} admits them all.
AllowedSubcommands ==
  [session |-> {"exec", "status", "up", "down", "list", "devcontainer",
                "migrate-worktrees", None},
   ci |-> {"launch", "status", "summary", "cancel", "find-restarted", "list", None},
   release |-> {"push", "bloom", None},
   policy |-> {"show", "check", None},
   rules |-> {"show", "list", None},
   approval |-> {"list", "show", "status", None}]
WholeSubcommands == {"git-push", "create-pr", "edit-pr", "status", "next", "doctor", "audit"}

\* The words from the i-th on, up to "--", without options and their values.
SubcommandWords(seg) ==
  LET words[i \in 1..(Len(seg) + 2)] ==
        IF i > Len(seg) \/ (i \in DOMAIN seg /\ seg[i] = "--") THEN <<>>
        ELSE IF seg[i] \in {"-w", "-d"} THEN words[i + 2]
        ELSE IF seg[i] \in Options THEN words[i + 1]
        ELSE <<seg[i]>> \o words[i + 1]
  IN words

\* <<subcommand, action>> after the first harness word of the segment.
SubcommandTokens(seg) ==
  LET harness == CHOOSE i \in DOMAIN seg :
                   /\ seg[i] = "ros-maintainer-harness"
                   /\ \A j \in 1..(i - 1) : seg[j] # "ros-maintainer-harness"
      after == SubcommandWords(seg)[harness + 1] \o <<None, None>>
  IN <<after[1], after[2]>>

SubcommandAllowed(seg) ==
  LET sub == SubcommandTokens(seg)[1]
      action == SubcommandTokens(seg)[2]
  IN \/ sub = None
     \/ sub \in WholeSubcommands
     \/ sub \in DOMAIN AllowedSubcommands /\ action \in AllowedSubcommands[sub]

-----------------------------------------------------------------------------
(* What may stay on the host *)

ControlBinaries == {"ros-maintainer-harness", "rmah-session-exec", "agentapi"}
PassthroughBinaries == ControlBinaries \cup {"export", "true", "false"}

ASSUME NoneIsNoWord == None \notin PassthroughBinaries \cup {"EOF"}

\* One rmah-session-exec that reads the whole rest from <<'EOF' ... EOF.
SingleHeredocExec(cmd) == cmd.inner # None /\ cmd.delim = "EOF"

HostPassthrough(cmd) ==
  \/ SingleHeredocExec(cmd)
  \/ /\ ~cmd.live
     /\ \/ cmd.segs = <<>>
        \/ /\ Executables(cmd) \subseteq PassthroughBinaries
           /\ Executables(cmd) \cap ControlBinaries # {}

\* The one segment of a command that only talks to the container.
OnlyExec(cmd) ==
  /\ Len(cmd.segs) = 1
  /\ ~cmd.live
  /\ LET exe == FirstExecutable(cmd.segs[1]) IN
     \/ exe = "rmah-session-exec"
     \/ /\ exe = "ros-maintainer-harness"
        /\ SubcommandTokens(cmd.segs[1]) = <<"session", "exec">>

Mentions(seg, words) ==
  \E i \in 1..(Len(seg) + 1 - Len(words)) : SubSeq(seg, i, i + Len(words) - 1) = words

ForbiddenSegment(seg) ==
  LET exe == FirstExecutable(seg) IN
  \/ exe = "ros-maintainer-harness" /\ ~SubcommandAllowed(seg)
  \/ exe \in {"docker", "podman"}
  \/ exe \in {"bloom-release", "git-bloom-release"}
  \/ /\ exe = "catkin_prepare_release"
     /\ ~\E word \in {"--no-push", "-h", "--help"} : Mentions(seg, <<word>>)

ForbiddenSessionCommand(cmd) ==
  /\ cmd.segs # <<>>
  /\ ~SingleHeredocExec(cmd)
  /\ ~OnlyExec(cmd)
  /\ \/ cmd.live /\ FirstExecutable(cmd.segs[1]) = "ros-maintainer-harness"
     \/ \E i \in DOMAIN cmd.segs :
          \/ ForbiddenSegment(cmd.segs[i])
          \/ Mentions(cmd.segs[i], <<"ci_for_pr.py">>)
          \/ Mentions(cmd.segs[i], <<"gh", "auth", "token">>)

\* Builds and dependency installs outside every session.
ForbiddenHostCommand(cmd) ==
  /\ ~HostPassthrough(cmd)
  /\ Executables(cmd) \cap {"colcon", "rosdep"} # {}

\* A file is [memory, up, harness, name]: below a memory directory, with ".."
\* in its path, naming the harness, and its own name.
ForbiddenRead(file) ==
  /\ ~(file.memory /\ ~file.up /\ file.name = "plain")
  /\ file.harness \/ file.name \in {"config", "transcript"}

-----------------------------------------------------------------------------
(* Which session a call belongs to                                         *)
(* records[s] is the session.json of an existing session s: the ids of its *)
(* own conversation and of the hub's that started it.                      *)

InSession(dir, records) == dir.base = "session" /\ dir.session \in DOMAIN records

ResolveSession(call, explicit, records) ==
  LET own == {s \in DOMAIN records : records[s].conversation = call.conversation}
      matching == {s \in own : records[s].hub # call.conversation}
      hub == {s \in DOMAIN records : records[s].hub = call.conversation}
  IN CASE InSession(call.cwd, records) -> call.cwd.session
       [] ~InSession(call.cwd, records) /\ InSession(call.open, records) ->
            call.open.session
       [] ~InSession(call.cwd, records) /\ ~InSession(call.open, records) ->
            IF call.conversation # None /\ matching # {}
              THEN CHOOSE s \in matching : TRUE
            ELSE IF \/ call.conversation # None /\ hub # {}
                    \/ explicit \notin DOMAIN records
                    \/ call.cwd.base = "root" /\ call.cwd.rel = Top
              THEN None
            ELSE explicit

-----------------------------------------------------------------------------
(* Where the wrapped command runs *)

Exists(rel) == rel = Top \/ rel \in SubDirs

\* The directory inside the container, as the part below /workspace.
ContainerWorkdir(cwd, s) ==
  IF cwd.base = "container" \/ (cwd.base = "session" /\ cwd.session = s)
    THEN cwd.rel ELSE Top

\* A mutant of HostCwd: -d is forgotten where the directory does not exist.
HostCwdWithoutFlag(cwd, s) ==
  LET asked == cwd.base = "container" \/ (cwd.base = "session" /\ cwd.session = s)
  IN <<Dir("session", s, IF asked /\ Exists(cwd.rel) THEN cwd.rel ELSE Top), FALSE>>

\* The directory on the host and whether -d is needed.
HostCwd(cwd, s) ==
  LET asked == cwd.base = "container" \/ (cwd.base = "session" /\ cwd.session = s)
  IN IF asked /\ Exists(cwd.rel) THEN <<Dir("session", s, cwd.rel), FALSE>>
     ELSE <<Dir("session", s, Top), asked>>

\* A mutant of HeredocDelimiter: a delimiter no hook looks for.
RareDelimiter(lines) == IF "__EOF__" \notin lines THEN "__EOF__" ELSE "__RMAH_EOF__"

HeredocDelimiter(lines) ==
  CASE "EOF" \notin lines -> "EOF"
    [] "EOF" \in lines /\ "__EOF__" \notin lines -> "__EOF__"
    [] {"EOF", "__EOF__"} \subseteq lines -> "__RMAH_EOF__"

\* The command as it is handed to rmah-session-exec.  A heredoc whose
\* delimiter is not EOF is read line by line when it is looked at again.
SessionExecCommand(cmd, workdir, explicitWorkdir) ==
  LET delim == IF cmd.quoted THEN HeredocDelimiter(cmd.lines) ELSE None
      opened == delim \notin {None, "EOF"}
  IN [segs |-> <<<<"rmah-session-exec">>>> \o
               (IF opened THEN cmd.segs \o <<<<delim>>>> ELSE <<>>),
      live |-> opened /\ cmd.live,
      quoted |-> TRUE,
      lines |-> cmd.lines \cup ({delim} \ {None}),
      inner |-> cmd,
      delim |-> delim,
      dir |-> IF explicitWorkdir /\ workdir # Top THEN workdir ELSE None]

\* export PATH in front of a bare harness command that is not on the PATH.
PathPrefix == <<"export", "PATH=~/.local/bin">>
RewriteBareHarness(cmd, onPath) ==
  IF /\ ~onPath
     /\ "ros-maintainer-harness" \in Executables(cmd)
     /\ ~\E i \in DOMAIN cmd.segs :
          \/ Mentions(cmd.segs[i], <<"rmah-session-exec">>)
          \/ Mentions(cmd.segs[i], <<"session", "exec">>)
          \/ Mentions(cmd.segs[i], <<PathPrefix[2]>>)
    THEN [cmd EXCEPT !.segs = <<PathPrefix>> \o @]
    ELSE cmd

-----------------------------------------------------------------------------
(* The hook *)

Deny(call) == [verdict |-> "deny", cmd |-> call.cmd, cwd |-> call.cwd]

\* The response formats: Claude Code's has no place for the directory.
Allow(call, cmd, cwd) ==
  [verdict |-> "allow", cmd |-> cmd,
   cwd |-> IF call.claude THEN call.cwd ELSE cwd]

Wrap(call, s) ==
  LET workdir == ContainerWorkdir(call.cwd, s)
      host == HostCwd(call.cwd, s)
      elsewhere == call.claude /\ workdir # Top /\ call.cwd # host[1]
  IN Allow(call, SessionExecCommand(call.cmd, workdir, host[2] \/ elsewhere), host[1])

EvaluatePreToolUse(call, explicit, records, onPath) ==
  LET s == ResolveSession(call, explicit, records)
      sessionCwd == IF call.cwd.base = "container"
                      THEN IF s = None THEN Dir("root", None, Top) ELSE Dir("session", s, Top)
                      ELSE call.cwd
  IN CASE call.inside -> Allow(call, call.cmd, call.cwd)
       [] ~call.inside /\ s # None /\ ForbiddenSessionCommand(call.cmd) -> Deny(call)
       [] ~call.inside /\ ~(s # None /\ ForbiddenSessionCommand(call.cmd)) ->
            IF HostPassthrough(call.cmd)
              THEN Allow(call, RewriteBareHarness(call.cmd, onPath), sessionCwd)
            ELSE IF s # None THEN Wrap(call, s)
            ELSE IF ForbiddenHostCommand(call.cmd) THEN Deny(call)
            ELSE Allow(call, call.cmd, call.cwd)

EvaluateRead(call, explicit, records) ==
  IF /\ ~call.inside
     /\ ResolveSession(IF call.claude THEN call ELSE [call EXCEPT !.cwd = NoDir],
                       explicit, records) # None
     /\ ForbiddenRead(call.file)
    THEN "deny" ELSE "allow"

-----------------------------------------------------------------------------
(* The host shell runs what the hook let through *)

\* rmah-session-exec takes session and directory from where it is started,
\* unless -d names the directory.
SessionExec(cmd, cwd, records) ==
  IF ~InSession(cwd, records) \/ ~Exists(cwd.rel)
    THEN [where |-> "nowhere", session |-> None, dir |-> Top, cmd |-> cmd]
    ELSE [where |-> "container", session |-> cwd.session,
          dir |-> IF cmd.dir = None THEN cwd.rel ELSE cmd.dir, cmd |-> cmd.inner]

ShellRuns(cmd, cwd, records) ==
  IF cmd.inner # None THEN SessionExec(cmd, cwd, records)
    ELSE [where |-> "host", session |-> None, dir |-> cwd.rel, cmd |-> cmd]
=============================================================================

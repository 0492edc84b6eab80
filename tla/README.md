# TLA+ models of the ROS maintainer agent harness

The harness gives coding agents a gateway of tools for maintaining ROS packages.
Agents may read freely; what reaches the outside (pushes, pull requests, Jenkins
builds, releases) passes a policy, and where the policy says so an approval
ticket that a human maintainer answers. Everything is logged in a hash-chained
audit log. Agents work in containers that carry bearer tokens; a hook sends the
commands they type into these containers.

Source paths below are relative to `src/src/ros_maintainer_agent_harness/`, docs to
`src/docs/`.

## 1. Inventory

One fact shapes the whole system: **there is no server that owns the state.**
The HTTP gateway (`server.py`), a stdio gateway, its CI monitor thread, and every
command of the CLI (`cli.py`) run the same functions over the same files in the
workspace (`audit/`, `sessions/`) and in the private state directory of the user.
No lock is shared between processes; the locks there are (in `CITracker`) belong to
one object. Inside one gateway the synchronous tools run one after the other.

| Component | State | Operations | Hard behaviour |
|---|---|---|---|
| Approval tickets (`approval.py`) | `audit/approvals.json`: a dictionary, loaded and replaced whole | create, approve, reject, consume, `is_approved` | lost updates, re-approved and expired tickets |
| Gated remote actions (`server.py` `perform_*`, `cli.py`) | what the remote did | push, release push, CI launch, create/edit pull request, bloom release | check-then-act around a remote call, failures of the remote after it acted |
| Audit log (`audit.py`) and timelines (`timeline.py`) | `audit/audit.jsonl`, `sessions/<id>/timeline.md` | append a record linked to the last, verify, read; initialise and append to a timeline | read-last-then-append by several writers, torn lines, records from before chaining, sessions pruned meanwhile |
| Jenkins runs (`ci.py`) | `audit/ci_runs.json`; the queue and builds of Jenkins | launch behind a rate limit, query, cancel, background polling | predicted build numbers, queue items that become builds under another number, two trackers with a lock each, lost answers |
| Session and hub containers (`devcontainer.py`, `hub_container.py`, `hub.py`), token store (`auth.py`) | containers at the runtime, `tokens.json`, attach files with the port | start, stop, prune, converse, exec with automatic start | several files and the runtime changed one after the other, failures in between, concurrent starts and stops, port and session limits |
| Tool authorization (`auth.py` `authorize_tool_call`, the wrapper in `server.py`) | none | role, tool, arguments to a decision and the session it acts on | arguments that name another session, its path or its run |
| Policy engine (`config.py`) | `policy.yaml`, read only | push, pull request and CI decisions | precedence of lists, defaults, forks and the session's scope |
| Sessions, worktrees, metadata (`worktree.py`, `scaffolder.py`) | `sessions/<id>/`: `session.json`, `TASK.md`, checkouts and their entries in the shared repositories | create, scaffold, attach, update, migrate linked worktrees, prune | files rewritten in place by several processes, a swap of `.git` by two renames, half-made checkouts |
| Gateway service (`gateway.py`) | pid and metadata file, `credentials.env`, the workspace's `.env` | start, stop, restart, status, token-setup, migration of credentials | stale pids, crash between spawn and record, services that ignore SIGTERM, overlapping commands |
| Command hooks (`hooks.py`, `rmah-session-exec` in `cli.py`) | none | decide on a shell command or a file; wrap the command | quoting and wrappers, two hooks in a row, which session a command belongs to |
| Workspace status, next actions (`hub.py`) | none | read and rank | every part may be missing or fail |
| Git operations (`git_ops.py`), pull request harvester (`pr_harvester.py`), command runner (`runner.py`) | none of their own | wrap `git`, GitHub, subprocesses | outcomes of programs outside |
| Instructions, rules, tool templates, MCP configuration, workspace layout | generated text | write files | none over time |

Interaction: an agent's command passes the hook (`hooks.py`) and runs in its
session's container. A tool call is authorized (`auth.py`), the policy gives a
verdict (`config.py`) that depends on the session's metadata (`worktree.py`), a
ticket may be asked for (`approval.py`), the remote is acted upon (`git_ops.py`,
`ci.py`), the outcome is logged (`timeline.py`, which calls `audit.py`). A CI
launch also reads and appends to the run tracker, which the monitor thread polls.
Containers get their tokens from `auth.py` when started and lose them when stopped;
pruning a session stops its container and removes its checkouts and directory,
timeline included. The gateway service runs with the credentials that the commands
configured before it was started.

What makes each component correct:

* *Tickets*: nothing gated runs without an approval of the same action, target and
  session that had not expired; an approval pays for one execution; no answer is lost.
* *Audit*: the chain verifies; tampering shows; nothing appended disappears; every
  attempt is recorded.
* *CI*: never more builds than the rate limit allows; the tracker tells the truth
  about our own builds; no build is forgotten; no finished run stays active for ever.
* *Containers*: an owner has at most one accepted token; a running container can use
  its token and be attached to; a stopped one cannot call the gateway; revocation is
  final; limits on sessions and ports hold.
* *Authorization and policy*: what is done for a session's agent is done on that
  session only; a push that happens is one the policy and the session's scope permit,
  or one with a ticket for that very target.
* *Hooks*: a session's command ends in that session's container, unchanged, once
  wrapped, or is one of the host's control commands.
* *Files of a session*: staged work is never lost; what was recorded about a session
  is remembered; a checkout handed out is whole.
* *Gateway*: what runs is recorded and can be stopped; a stop ends it; no credential
  is lost, and the service has those that were configured.

## 2. Modules

| Module | Models |
|---|---|
| `ApprovalTickets` | one entry of `approvals.json` and what the methods of `ApprovalManager` do to it |
| `GatedActions` | the six handlers, the maintainer's answers, the file, any number of processes |
| `TicketLedger` | the abstract promise: atomic tickets, one execution per approval |
| `AuditLog` | both logs, the verifier, pruning, legacy records, torn lines |
| `CIRuns` | tracker, launch, queries, cancels, monitor, and Jenkins as far as they see it |
| `SessionContainers` | start, stop, prune and converse over tokens, attach state and the runtime |
| `Workspace` | the names that the decision modules share |
| `ShellScan` | the two scanners of a command line, and a reference of what the shell does |
| `HookRouting` | the decision of the hook on commands and file reads, the wrapping, the shortcut on the host |
| `ToolAuthorization` | the authorization of a tool call and the session the tool then acts on |
| `PushPolicy` | the policy's verdict on pushes and pull requests, and the scope of a session |
| `NextActions` | the dashboard and the list of next actions |
| `AgentRequests` | composes the five: requests of agents and what becomes of them |
| `SessionFiles` | `session.json`, `TASK.md`, the checkout and its entry: create, scaffold, attach, migrate, prune |
| `Gateway` | the service, its pid and metadata file, credentials and their migration |
| `MC*` | instances for TLC: symmetry, finite sets, inputs |
| `*Proofs` | theorems and proofs about the module of that name |

`GatedActions` extends `ApprovalTickets` and refines `TicketLedger` (through the mapping
`LedgerState`). `AgentRequests` extends the decision modules. The others are independent:
the files they model are.

**One convention everywhere.** A method that rewrites a file is two steps, the load
and the save (labels `...` and `...Save`); in between the process holds the copy it
has loaded (`buf`, or `loaded` in the work record) and any other process may take
steps. A method that only reads is one step. `os.replace` makes a save atomic; where
the code writes in place (`session.json`, `TASK.md`) the opening, which empties the file,
is a step of its own, and where two processes share a temporary name (`Gateway`), the
writing of the temporary file is. Each call of an outside program (docker, git,
Jenkins) is a step, whose outcomes are disjuncts. `pc` or `at` has the place of each
process in its function, `work`, `task` or `arg` its local variables. A crash drops both
and leaves the files. Variables that record history (`grants`, `effected`, `holder`,
`told`, `worked`, `given`, ...) are read by no guard.

### ApprovalTickets, GatedActions, TicketLedger

`file` is the dictionary of `approvals.json`; a key that is missing is `Absent`.
`Arrive` is the beginning of a handler up to its verdict: what the policy decides is
a nondeterministic choice among the verdicts that the handler can come to (`denied`,
`rejected`, `webUrl`, `gated`, `open`), since the policy is not the question here
(`AgentRequests` asks it). `Check` is `is_approved`; `CreateLoad`/`CreateSave` is
`create_request`; `Succeed`, `Fail` and `Raise` are the outcomes of the remote action;
`ConsumeLoad`/`ConsumeSave` is `consume_ticket`; `Log` is `timeline.log_action`;
`DecideLoad`/`DecideSave` is a maintainer's answer from the CLI or the tool. `Tick`
advances the clock by which tickets expire. Faults: `crash`, `lost` (the remote acted
and the caller is told it failed), `raised` (`launch_ci` throws).

### AuditLog

A digest is what it is a digest of: SHA-256 of `prev:payload` becomes the sequence
`prev` with the payload appended, so different inputs have different digests and the
chain is a growing sequence. `LogAction`, `LogStatus`, `Denial`, `PruneTool` and
`CreateSession` begin calls, and the steps of `init_timeline` (look, open with truncation,
write), the append to the timeline, the reading of the last hash and the append to
`audit.jsonl` follow. `RemoveSession` removes the directory in one step. An append may be
torn (`Tear`); the next append then lands on the same line, as `Written` says.
`Verifies` is `verify_audit_chain`, legacy lines included.

### CIRuns

One pull request, one Jenkins job. `builds` is what Jenkins has started in the order
of build numbers, ours and others'; `waiting` its queue; `runs` is `ci_runs.json`. A launch
refreshes the active runs, counts them, reads `nextBuildNumber` (`Predict`), triggers, waits
a few seconds for the queue item (`Await`) and records. `Fetch`, `CheckQueue`, `Rename`,
`Refetch`, `Update` are `fetch_build_status`, `_check_queued_build` and the updates of
the tracker by `job_url`. `Jenkins` starts, finishes and drops builds. `QueueHolds` says
whether a build may stay in the queue longer than a launch waits. Jenkins is assumed
to remember a queue item until the run is next polled.

### SessionContainers

`container` is what the runtime has under each owner's name, `tokens` the file
`tokens.json`, `attach` the port in the attach file. `Start` stands for `session up`,
the automatic start of `exec` and `start_hub_container`; the steps from `Status` to
`Run` follow `start_session_container` line by line, with the failure path `Undo`,
`UndoSave`, `Unattach`. The hub has no port to choose and no attach state, and issues
its token before its launch specification is validated. `Stop` and `Prune` revoke,
detach, remove, and remove the directory. `Exit` is a container that ends by itself. The
inspection of the siblings for the session limit is one step. Whether a launch
specification is valid, and whether a prompt is delivered, are choices.

### AgentRequests and the decision modules

Policy, hooks, authorization and the dashboard keep no state between requests: each
loads `policy.yaml` and `session.json` anew. A request therefore brings along what it
finds there, and is drawn from sets the instance gives. `AskCommand` brings a
command; each `Hook` lets one more hook look at it (an agent has a global hook and may have one
of its directory), and `RunCommand` is what the host shell does with what came out,
`session_exec_main` included. File reads, tool calls, pushes, the hub's question and lines for the scanners are
served in one step each, since nothing the code awaits lies within the decision.

`HookRouting` keeps of a command's text what the code tells apart: its segments as
words, whether the shell would run a substitution, quotes, lines that look like
a heredoc delimiter, and the command it wraps. `ShellScan` is where these come from: the two
loops over the characters of a line, as recursive functions over a quoting state, beside an
independent reference of the shell. `ToolAuthorization` has the lists of tools
by role, `authorize_tool_call` in the order of its rules, the override that puts the
token's session in the place of a missing argument, and the checks that the
CI tools make themselves on the run they were asked about. `PushPolicy` is
`validate_git_push`, `is_external_fork`, `is_repository_allowed` and the scope that
`perform_git_push` adds; patterns are the sets of names they match. `NextActions` is
`get_workspace_status` and `get_next_actions`, its sorts and limits included.

### SessionFiles

One session with one checkout. `stored` is what `json.loads` gives for
`session.json`, `task` the pull request in `TASK.md`, from which `Read` recovers it. `git` is
the checkout's `.git`: a link to the shared repository (older versions), a standalone directory,
half-made, absent. `entry` is the checkout's entry in the shared repository, `tmp` and `bak`
the directory and backup of each migrating process. A call (`CreateSession`,
`ScaffoldSessionFromPR`, `UpdateSessionStatus`, `StartSessionConversation`,
`RecordPullRequest`, `MigrateLegacyWorktrees`, `PruneSession`) is a list of file
operations, taken one by one. `CheckLegacy` to `CleanEntry` follow
`migrate_legacy_worktree_to_alternates`: build a standalone directory, copy the index, rename `.git` away,
rename the new one into its place, or undo, remove the backup, drop the entry.
`StageWork` is the agent's `git add`. `PruneAnother` is another session's prune, whose
`git worktree prune` removes entries of checkouts without `.git`.

### Gateway

`svc` are the services by pid, `pidFile` and `metaFile` what is recorded, `file` the
credentials in `.env`, in the state directory and in the workspace's part of it.
`Start`, `Stop`, `Restart`, `Status`, `TokenSetup` and `LoadWorkspaceEnv` begin commands;
`ReadEnv` to `DropEnv` is `migrate_workspace_credentials`, `ReadOwn` to `ReplaceOwn`
`save_state_credential`, `GetStatus` and `ForgetStale` `get_gateway_status`, `Spawn` to
`WaitReady` `start_gateway_service`, `Terminate` to `Unlink` `stop_gateway_service`. A service
may lose the port to another, end at any time, and ignore SIGTERM. `StateDirSet`
says whether `ROS_MAINTAINER_STATE_DIR` is set for the commands, which decides
the file that `get_credentials_file` names.

## 3. Runs

Every run gives all constants in its `.cfg`. Where calls are bounded deadlock is not
checked: a behaviour stops when its calls are used up. `decisions` can always ask
again and checks it.

| Run | Question | Bounds |
|---|---|---|
| `gated_serial` | With one process that does not die, does an approval pay once, is every effect audited, does the file implement the ledger? | 3 tickets, 2 sessions, 3 calls, 2 answers, clock 0..1 with TTL 0, lost answers |
| `gated_handlers` | With two processes that lose each other's updates and crash, does anything run unauthorized? | all six handlers, 2 tickets, a session and the unbound one, 2 calls, 1 answer, all faults |
| `audit_serial` | One writer: chain, tamper evidence, timelines, completeness | 2 sessions, 1 legacy line, 4 calls, crashes |
| `audit_concurrent` | Two writers: what survives forks, crashes and torn lines | 3 calls, 1 legacy line |
| `ci_serial` | Rate limit, truth and completeness of the tracker | 3 launches, 1 foreign build, 2 queries, Jenkins at times unreachable |
| `ci_monitor` | Do runs that are over leave the active set? | a tool and the monitor, 2 launches, lost answers, queue that holds |
| `sessions_serial` | One process: reachability, revocation, limits, ports | 2 sessions and the hub, 3 ports, limit 1, 4 operations; run fails, times out, containers exit |
| `sessions_concurrent` | Two processes: one accepted token per owner | 1 session and the hub, 3 operations, every fault |
| `decisions` | Where do commands end, on whom do tools act, which pushes happen, is the hub's list complete, do scanners and shell agree? | the sets of `MCAgentRequests`, up to 2 hooks, every line of up to 6 characters |
| `session_files` | Is staged work ever lost, a session forgotten, half a checkout handed out, an entry left over? | 2 processes, 3 calls, 1 crash, 2 pull requests |
| `gateway` | Is what runs recorded and ended by a stop, is a credential lost? | 2 terminals, 2 credentials, 2 services, 3 commands, 1 crash |
| `gateway_credentials` (violation) | Does the service have what token-setup stored? | as above, without `ROS_MAINTAINER_STATE_DIR` and crashes |

Why the bounds are enough. A lost update needs two processes and two operations; a
third operation shows what the lost one breaks. A ticket that is replayed, re-approved or
brought back needs one creation, one or two answers and two executions. One tick past a
TTL of 0 is the boundary of expiry (`now <= stamp + TTL` at equality and beyond). A chain
needs two records to link and a third to fork; one legacy line is where the writer and the verifier
still agree, two where they do not. A rate limit of 1 is reached by the first launch and
tested by the second; one foreign build is enough to shift a number. Three ports for two
sessions let the allocation choose, skip and run past what others hold. Two processes that
migrate and a third call that prunes or attaches meet in every order. The scanners' state
is a handful of flags, and six characters set, use and reset each of them, nested.
Two sessions tell one's own from another's, and policies that differ from the default in
one respect exercise each rule. Many of these properties are also proved for all sizes
(section 5); there the runs are a check on the models.

The violation run documents where the code departs from its docs. It is a finding in
`PROJECT.json`, with the line it contradicts: with no `ROS_MAINTAINER_STATE_DIR`, the
default, `token-setup` stores a credential in the workspace's part of the state
directory, and the service is started with the file of the state directory itself. With
`StateDirSet = TRUE` TLC finds no such behaviour.

Some properties hold only under conditions, which the hazards in `PROJECT.json` name.
Where the code goes wrong outside them, these constants reproduce it:

* `NoReplay`: `is_approved` and `consume_ticket` enclose the remote action without a lock,
  so two processes spend one approval twice (`policy_and_security.md` says a consumed ticket
  cannot be replayed). `MCGatedActions` with `Tickets = {t1, t2, t3}`, `Sessions = {s1}`,
  `Targets = {x}`, `TTL = 1`, `Procs = {g, h}`, `ActionsUsed = {"create_pull_request"}`,
  `Faults = {}`, `MaxCalls = 3`, `MaxDecisions = 1`, `MaxClock = 0`.
* `ChainVerifies`: two writers link to the same predecessor and the log never verifies
  again: `MCAuditLog` with `Procs = {g, h}`, `Sessions = {s1}`, `Legacy = 0`, `Faults = {}`,
  `MaxCalls = 3`. Reader and writer also disagree about the digest of a second
  legacy line, with no concurrency at all: `Procs = {g}`, `Legacy = 2`, `MaxCalls = 2`.
* `RateLimit`: a launch that is still queued is recorded under a predicted number; a
  foreign build that takes it decides the status, and one launch too many is let in:
  `MCCIRuns` with `Tools = {tool}`, `Monitors = {}`, `MaxActive = 1`, `QueueHolds = TRUE`,
  `Faults = {}`, `MaxLaunches = 2`, `MaxOthers = 1`, `MaxQueries = 1`.
* Every effect is recorded unless `launch_ci` raises after it triggered the build, and
  every attempt unless the session is pruned by another process while it is logged.
* `NoRunForgotten` and `StatusIsOwn` are claims about one thread: the monitor and the tools
  undo each other's saves. `StatusIsOwn` also needs a queue that answers in time.
* `RunningReachable`, `StopRevokes`, `RevokedForGood`, `WithinLimit` and `PortsDistinct`
  are checked for one process. With two, a lost update of `tokens.json` brings a revoked
  token back, and a second start that fails on the name revokes the token of the
  container that runs. `RunningReachable` also excludes a `docker rm` that fails.
* `SessionRemembered`, `HandedWhole` and `EntryUsed` are claims about calls that do not
  overlap and do not die: `session.json` is rewritten in place, and a torn one is
  read as `{}`, so that who started the session and its scope are forgotten; only the
  pull request comes back from `TASK.md`. A half-made checkout is returned to the next
  caller after a death, and a write or a `git init` that comes after a prune brings the
  session's directory back.
* `WorkKept` holds without such conditions, but counts the backup: after a death
  between the two renames of a migration, or when two migrations overlap, the work is only in
  `.git.legacy-bak-<pid>`, which nothing restores. A prune without `force` removes a dirty
  checkout all the same, though the tool's description asks for `force`
  (`server.py:2221`); `WorkKept` takes a prune as a request to remove the work.
* `ServiceManaged` is a claim about commands that do not overlap and do not die: two starts
  race between the look at the status and the spawn, a start that dies before it has
  written the pid leaves a service nobody can stop, and stale files are removed whatever they
  hold by then. `CredentialsKept` holds at any crash, for commands that do not overlap.
* A command with a line `EOF` of its own is wrapped with the delimiter `__EOF__`, which the
  second hook does not recognise, and is wrapped again (`tests/test_hooks.py:126` says not).
  `WrapsOnce` leaves it out.
* Of a command that Claude Code issues outside the session's directory, the wrapped
  form finds no session and ends with an error; `RoutedOrHostControl` names the case.
* A blocked session with a recorded CI run is not shown as blocked in the next actions,
  and an allow-listed repository of a third party is refused, not ticketed, when
  `require_approval_for_external_forks` is off. The models do the same.

Only `OneActiveToken`, `ExecutionAuthorized`, `LinksBack`, `RecordsKept` and `WorkKept`
hold under any interleaving of several processes; that is the essential result about
this code: what one save establishes holds always, what two files or two steps must agree on
holds for one process.

Each property of a passing run has a mutant, a defined variant of one operation with a
plausible slip (a dropped comparison, an off-by-one, a missing reset), under which TLC
finds it violated. They stand next to the definitions they vary, marked "A mutant of".

## 4. Fairness

Two runs use it, both weak fairness.

* `ci_monitor` (`FairSpec` of `CIRuns`). A thread that is in the middle of an
  operation goes on (its calls have timeouts); the monitor's loop polls for ever
  (`_monitor_loop` sleeps and repeats, and catches every exception); Jenkins starts what is in
  its queue and finishes what it has started. `Settles` says that a run whose build is over
  does not stay active in the tracker for ever, although saves are lost between the tool
  and the monitor.
* `gateway` (`Fairness` of `Gateway`). A command that runs goes on: the wait for the
  service to answer and the wait for it to end each have a deadline. Nothing
  is assumed of services: they may never come up and never obey SIGTERM. `StopEnds`
  says that a stop then ends the service it found.

No fairness is assumed of agents or of the maintainer: nobody has to call a tool, run a
command or answer a ticket.

## 5. Theorems

All are proved for any processes, sessions, tickets, faults and bounds, from the
`ASSUME`s of the modules, which say no more than that bounds are numbers, faults are
known ones, distinguished values are distinct, records have their fields, a checkout's
remotes are repositories and a dashboard's sessions, tickets and pull requests are told apart. Where a theorem has a hypothesis, it is one the code needs: section
3 says what happens without it. They are of four kinds.

* *One process* (`OneProcess`, `OneThread`, `Serial`, `OneWriter`): the state directory belongs to
  one gateway, whose tools run one after the other, and the maintainer's commands come in between.
* *A fault left out*, always one after which the code leaves the state the property forbids:
  a death between the two steps that must agree, a `docker rm` that fails, `launch_ci` raising after
  the trigger, an answer of Jenkins that is lost.
* *Room*: `EnoughPorts` (the ports outnumber two per session; the code scans 500 from 4100 up,
  `devcontainer.py:1406`), at most one legacy line in the log (`Legacy <= 1`), a queue that
  answers while it is asked (`QueueHolds = FALSE`).
* *Shape of an input* (`NoneIsNoRecord`, `ExecInOneWord`, `ProgramsFirst`), below.

### GatedActionsProofs

* `AuthInvariant`, `OnlyAuthorizedExecutions`, `TypeCorrect`. `ExecutionAuthorized` alone is not
  inductive: an old copy may be saved over the file. `AuthInv` adds that every entry of *every
  loaded copy*, not only of the file, has the binding its ticket was created with and, if approved,
  the instant of a real approval (`BackedIn`), and that a process about to save has a ticket
  (`Ready`). An update that is lost then brings back only entries that were once true.
* `EffectsAreRecorded`: when no process dies and `launch_ci` does not raise, whoever has touched a
  remote is on the way to `log_action` or has called it. Any number of processes.
* `SerialInvariant`, `SerialBookkeeping`, `NoReplaySerial`, `SerialImplementsLedger`. With one
  process that does not die the copy is the file, and a usable ticket counts as one approval
  not yet redeemed (`SerialInv`). Every step is then a step of `TicketLedger` or a stutter.

### AuditLogProofs

* `RecordsLinkBack`, `ChainVerifiesOneWriter`, `TypeCorrect`. `LinkInv` adds that what a process has
  read as the last hash is the genesis or the digest of a line that is in the log: lines are never
  removed, so it stays one. With one writer, at most one legacy line and no torn append it is the
  digest of the last line (`ChainInv`), and the verifier's fold, a recursive function, is
  unrolled by one line per append.
* `RecordsAreKept`: any writers, any faults. A torn append spoils itself and at most the next one, so
  lost and torn records are counted together line by line.
* `AlterationIsDetected`: any writers and faults. Where a log verifies, each chained line has the digest
  of the one before it, so altering or removing a line that is not the last leaves a link that does
  not fit. The last line can be removed unnoticed: nothing is kept outside the log.
* `TimelineIsKept`, `AttemptsAreRecorded`: one process. The truncation of `init_timeline` is only
  reached with no timeline there, and a call that is over has passed its append.

### CIRunsProofs

* `RunsAreNotForgotten`, `FinalStatusIsOwn`. With one thread, what a save replaces is what it has
  loaded (`LoadedIsCurrent`), so the records stay, and what they are about; a launch is recorded
  or has its thread on the way to record it.
  `FinalStatusIsOwn` does: then every record has the number of its own build (`RecordsRight`), Jenkins
  has every launch once (`QueueInv`, a launch begun is `Fresh` until it is triggered), a 404 is about
  a number that no record has, and what a thread is about to write is right for the
  number it writes it under (`WorkRight`). Nothing is said of the lists of runs to look at:
  a status fetched under a number is right for every record with that number, whatever was on the list.
* `TypeCorrect`: any threads and faults. Two of its parts are more than types. A thread that works on a run
  has one in the list it loaded (`WorkComplete`), though the monitor's save may have moved the number it looks
  under; and the number predicted for a launch is one Jenkins can still give, for a launch that is not over is
  not among the builds, which are at most one per launch and one per build of others (`LaunchInv`, `BuildsBound`).
* `RateLimitIsKept` needs the same and that no answer to a trigger is lost. A build that is open then has a
  record with an active status, under its own number, or is the one the thread is about to record
  (`OpenInv`): distinct builds have distinct records, so `get_active_runs_count` counts at
  least the builds that are open.

### SessionContainersProofs

* `TypeCorrect`, `TokenInvariant`, `OneToken`: any processes. `TokenInv` says that *every copy* of the
  token file has at most one active token per owner and knows none of an operation yet to begin. A
  save writes such a copy back with tokens revoked, or with one issued after the owner's others were
  revoked, so it does not matter how old the copy was.
* `RevokedStays`, `StoppedStays`, `PortsAreDistinct`, `LimitIsKept`, `RunningIsReachable`: one process.
  A copy is then the file, so what is revoked stays revoked; what an operation has told, removed or
  started is followed step by step to the state it leaves, the failure path included. Revocation and ports
  hold wherever the process dies; the others need the faults left out that the theorems name.

### ShellScanProofs

* `CutsAgree`, `SubstitutionsAgree`: for every line of any length. The scanners carry a quoting state
  from one character to the next, the reference jumps from lexeme to lexeme. An induction from the end of the
  line to its beginning shows that a lexeme begins exactly where the scanner is outside all quotes.
  The library's induction theorems take an operator as a parameter; here the sets are given instead, and the
  induction rests on `WFMin`: a set of numbers that is not empty has a least one (`Least`,
  `Induction`, `FromTheEnd`). That the recursive functions exist is a lemma as well (`Recursion`).

### AgentRequestsProofs

* `PushesArePermitted`, `SessionsStayApart`. A decision depends on its request alone, so the invariant is
  the properties with the fact that the push of a request is one of `PushRequests`; the work is in
  the case distinction over the policy's rules (a push is open, ticketed or refused) and over
  the tools and their overrides.
* `CommandsAreRouted`, `WrappedOnce`: any commands, any number of hooks. The invariant says what a hook leaves
  to the next: a command that is its own first form, has a PATH in front or is wrapped (`FormOf`) and that
  the next hook neither refuses nor wraps (`WrapInv`); one that stays on the host and may, or is started in its
  session's directory with what was asked (`RouteInv`). `NoneIsNoRecord` says that the value for "none" has no
  fields. `ExecInOneWord` is about a divergence in the code: a hook puts a PATH in front of a command of the
  harness unless its *text* has `session exec` (`hooks.py:645`), and exempts it from the checks if its
  *words* are `session`, `exec` (`hooks.py:530`). With an option in between, `session -w x exec ...`, the two differ,
  and what the first hook let through the second may refuse. The theorem assumes that the commands are
  not of that form; those of the run are not.
* `WrappersDoNotMatter`: any command, call and records, each of the prefixes of `WrapperPrefixes`. The
  program of a segment is found by a recursive reading (`ScanIs`). A prefix is read up to the segment's first
  word (`PrefixSkips`); from there on the reading is that of the segment alone (`ScanBehind`, by induction from
  its end), and which wrapper came before makes no difference (`AnyMode`) unless it is `timeout`, which takes a
  word. The words behind the harness's name move along (`WordsBehind`, `SameTokens`) and a prefix mentions
  nothing that is looked for (`SameMentions`), so every part of the decision is the same (`AlikeDecided`).
  `ProgramsFirst` says that a command's first segment does not begin with an option, not even after assignments:
  the code takes such a word for the program, and for the wrapper's option once there is a wrapper.
* `ScannersAreRight`: the theorems about `ShellScan`, for the lines that agents bring.
* `NothingIsForgotten`: any dashboards and limits. The two loops over GitHub's answers are recursive functions
  over the positions of a list; that they exist (`FoldExists`, from `Recursion`) and what every turn keeps
  (`FoldKeeps`) gives that URLs stay apart and the limit holds (`FoundOnce`, `TriageOnce`). The answer is four
  lists in a row, so where an entry stands says which list it is from (`FourLists`), and sessions and tickets
  are there once each because making a list of a finite set loses and repeats nothing (`SetToSeqIs`).

### SessionFilesProofs

* `WorkIsKept`: any processes, calls and crashes. `IInv` follows the one link file: it is `.git` or one
  process's backup (`LinkOnce`) and never written again; while it is `.git` no migration is between its
  renames, and a migration that holds it is the only one that is (`SwapsAlone`); a process about to
  remove the entry has removed the link (`EntryLast`); a copy made for the swap has the entry's work
  (`CopyCurrent`). So the work is with the link in the entry, with the process that has the link as its
  backup, or in a directory no step removes (`WorkSomewhere`).
* `HandedIsWhole`, `EntryIsUsed`, `SessionIsRemembered`: while calls have not overlapped and none has died,
  which the properties themselves say. The invariant gives, for each place of the one call, what
  is on disk by then.

### GatewayProofs

* `ServicesAreManaged`, `CredentialsAreKept`. `ServiceInv` says what the one command that runs knows of the
  services: after a SIGKILL and before a spawn nothing is alive, in between nothing but the service it is at
  (`InHand`). `CredentialInv` adds that a new value in any file is the newest given, and that before `.env` is
  emptied its credentials are in another file, or in the temporary file that becomes it
  (`NewIsNewest`, `Carried`).

### Only model-checked

* Liveness (`Settles`, `StopEnds`): TLAPS proves no liveness under fairness here.

## 6. Abstractions

* Digests are injective; tokens and ticket identifiers are never drawn twice.
* A save is atomic. The temporary file, however, has one name in `auth.py` and one per
  process in `ci.py`, so two writers can rename each other's unfinished file. `Gateway` has this
  for its credentials; in `SessionContainers` and `CIRuns` it is left out, and is a hazard.
* Removing a session directory and inspecting the siblings at a start are one step each.
  In `SessionFiles` another session's prune does not fall within a migration, and the
  agent does not stage while its checkout is migrated.
* Clocks are shared and do not go back. Expiry is in ticks. Process ids are not used again.
* The audit log does not model redaction, formatting or filters; tickets have no reason text.
* Policies, records, remotes and dashboards are inputs of `AgentRequests`, not files it writes;
  `SessionFiles` has the writing of `session.json`. A relative `repo_path`, which the
  gateway resolves against its own working directory, is outside the model.
* Of credentials, only those in files count: variables exported by the shell or in
  the environment of the command, and what else `.env` has, are left out. The admin token that a
  gateway issues when it first starts is left out, too.
* The pid file is written in one step.

## 7. What is not modelled

* Git operations, the pull request harvester and the command runner keep no state;
  what git, GitHub, Jenkins and docker answer is a choice of the models.
* The TCP bridge, the launchd service and the log file of the gateway; the redeployment of the
  hub; the launch specifications and their validation; the writable mode of shared
  repositories; attach.
* In `ci.py`: dry runs, gists and comments, child jobs, CI restarted from comments,
  reports and log excerpts.
* Generated text (instructions, rules, tool templates, MCP configuration, the hooks'
  configuration), the workspace layout, and the parsing and printing of the CLI: they have no
  behaviour over time, or are strings.

What would add most next: the temporary names of `tokens.json` and `ci_runs.json` as a
module over all whole-file stores; the hub's redeployment.

## 8. Running

    tlc -workers 2 -config sessions_serial.cfg MCSessionContainers.tla
    tlapm SessionContainersProofs.tla

`PROJECT.json` lists the module of each run, the source lines each definition models, the
finding, the hazards and the theorems.

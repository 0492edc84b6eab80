---------------------------- MODULE SessionFiles ----------------------------
(***************************************************************************)
(* The directory of one session (worktree.py): session.json and TASK.md,    *)
(* which every process rewrites in place, and the session's checkout of a    *)
(* shared repository, which older versions linked to the repository with     *)
(* `git worktree` and which is migrated in place to a standalone .git.       *)
(*                                                                         *)
(* The gateway and the commands of the CLI work on the directory with no     *)
(* lock.  A call is a chain of file operations, one action each; between     *)
(* two of them other processes act, and the process may die.                 *)
(***************************************************************************)
EXTENDS Naturals, Sequences

CONSTANTS
  Procs,       \* the processes that work on the session
  PRs,         \* pull requests
  None,        \* no value
  MaxCalls,    \* bound: how many calls are begun
  MaxCrashes   \* bound: how many processes die within a call

ASSUME NoneIsNoPR == None \notin PRs
ASSUME BoundsAssumption == MaxCalls \in Nat /\ MaxCrashes \in Nat

VARIABLES
  dir,      \* whether the session's directory exists
  stored,   \* what json.loads gives for session.json: nothing when it is absent or cut
  task,     \* the pull request TASK.md tells of
  git,      \* what `.git` of the checkout is
  entry,    \* the checkout's entry in the shared repository, .git/worktrees/<entry>
  tmp, bak, \* the .git.migrating-<pid> and the .git.legacy-bak-<pid> of each process
  at,       \* what each process does next
  arg,      \* the updates it does it with
  rest,     \* what it does after that
  seen,     \* the metadata it has read
  calls,    \* how many calls have been begun
  crashes,  \* how many processes have died
  \* what happened, for the properties:
  overlap,    \* two calls have been under way at once
  told,       \* the values given for the keys since the session was created
  scaffolded, \* whether TASK.md has been written whole since then
  worked,     \* the checkout has staged work nobody asked to remove
  handed      \* what `.git` was when attach_worktree last returned the checkout

disk == <<dir, stored, task, git, entry, tmp, bak>>
procs == <<at, arg, rest, seen, calls, crashes>>
history == <<overlap, told, scaffolded, worked, handed>>
vars == <<disk, procs, history>>

\* The keys of session.json that matter here: `pr` stands for pr_ref, pr_url,
\* pr_title and pr_author, `hub` for started_by_hub.
Keys == {"status", "pr", "hub"}
Values == [status : {"active", "investigating", "done", None}, pr : PRs \cup {None},
           hub : {"yes", "no", None}]
Given(status, pr, hub) == [status |-> status, pr |-> pr, hub |-> hub]
Nothing == Given(None, None, None)
Merge(meta, updates) == [k \in Keys |-> IF updates[k] # None THEN updates[k] ELSE meta[k]]

\* A mutant of the reading: TASK.md counts only without session.json.
ReadWithTaskAsLastResort ==
  [stored EXCEPT !.status = IF @ = None THEN "active" ELSE @,
                 !.pr = IF stored = Nothing THEN task ELSE @]

\* read_session_metadata: defaults, and the pull request of TASK.md when
\* session.json gives none.
Read == [stored EXCEPT !.status = IF @ = None THEN "active" ELSE @,
                       !.pr = IF @ = None THEN task ELSE @]

(***************************************************************************)
(* `.git`: "none" when there is no checkout, "absent" in one that has none,  *)
(* "half" before the first branch is checked out, "link" for the file of a   *)
(* linked worktree, "fresh" and "work" for a standalone directory whose      *)
(* index holds nothing staged, or the work staged so far.                    *)
(***************************************************************************)
GitStates == {"none", "absent", "half", "link", "fresh", "work"}
EntryStates == {"none", "fresh", "work"}

Idle(p) == at[p] = "idle"
Alone(p) == \A q \in Procs \ {p} : Idle(q)
MigrationStages == {"check", "build", "copy", "away", "into", "unbak", "clean"}
\* What a call may still have before it once it is under way
PlannedStages == {"layout", "read", "open", "write", "attach", "taskopen", "taskwrite",
                  "hubdir"}
Stages == {"idle", "init", "checkout", "remove", "forceremove", "rmtree", "shared"}
          \cup PlannedStages \cup MigrationStages
Steps == [stage : PlannedStages, with : Values]

Step(stage, updates) == [stage |-> stage, with |-> updates]
Do(stage) == <<Step(stage, Nothing)>>
\* write_session_metadata: mkdir and read, truncate, write
Write(updates) == <<Step("read", updates), Step("open", updates), Step("write", updates)>>
Status(s) == Given(s, None, None)
StartedBy(hub) == Given(None, None, hub)
PullRequest(pr) == Given(None, pr, None)

Goto(p, stage) == at' = [at EXCEPT ![p] = stage] /\ UNCHANGED <<arg, rest>>
\* The call ends, with its answer or by an exception.
Return(p) ==
  /\ at' = [at EXCEPT ![p] = "idle"]
  /\ arg' = [arg EXCEPT ![p] = Nothing]
  /\ rest' = [rest EXCEPT ![p] = <<>>]
Follow(p, steps) ==
  IF steps = <<>>
  THEN Return(p)
  ELSE /\ at' = [at EXCEPT ![p] = Head(steps).stage]
       /\ arg' = [arg EXCEPT ![p] = Head(steps).with]
       /\ rest' = [rest EXCEPT ![p] = Tail(steps)]
Advance(p) == Follow(p, rest[p])

\* Once a legacy session, whose checkout an older version linked, or none.
Init ==
  /\ dir \in BOOLEAN
  /\ git \in IF dir THEN {"none", "link"} ELSE {"none"}
  /\ entry \in IF git = "link" THEN {"fresh", "work"} ELSE {"none"}
  /\ stored = Nothing /\ task = None
  /\ tmp = [p \in Procs |-> "none"] /\ bak = [p \in Procs |-> "none"]
  /\ at = [p \in Procs |-> "idle"]
  /\ arg = [p \in Procs |-> Nothing]
  /\ rest = [p \in Procs |-> <<>>]
  /\ seen = [p \in Procs |-> Nothing]
  /\ calls = 0 /\ crashes = 0
  /\ overlap = FALSE /\ told = Nothing /\ scaffolded = FALSE
  /\ worked = (entry = "work") /\ handed = "none"

----------------------------------------------------------------------------
\* The calls

Begin(p) ==
  /\ Idle(p) /\ calls < MaxCalls
  /\ calls' = calls + 1
  /\ overlap' = (overlap \/ ~Alone(p))
  /\ UNCHANGED <<disk, seen, crashes, told, scaffolded, worked, handed>>

Created == Do("layout") \o Write(Status("active"))

CreateSession(p, hub, attach) ==
  /\ Begin(p)
  /\ Follow(p, Created \o Write(StartedBy(hub)) \o (IF attach THEN Do("attach") ELSE <<>>))

ScaffoldSessionFromPR(p, pr, hub) ==
  /\ Begin(p)
  /\ Follow(p, (IF dir THEN <<>> ELSE Created) \o Do("attach")
               \o <<Step("taskopen", Nothing), Step("taskwrite", PullRequest(pr))>>
               \o Write(Given("investigating", pr, None))
               \o Write(StartedBy(hub)))

UpdateSessionStatus(p) ==
  /\ Begin(p) /\ dir
  /\ Follow(p, Write(Status("done")))

\* A task conversation; the hub's calls also mark the session as the hub's.
StartSessionConversation(p, byHub) ==
  /\ Begin(p) /\ dir
  /\ Follow(p, Write(Status("investigating")) \o (IF byHub THEN Do("hubdir") ELSE <<>>))

\* create_pull_request, or check_draft_pull_request, found the session's own
\* pull request.
RecordPullRequest(p, pr) ==
  /\ Begin(p) /\ dir
  /\ Follow(p, Write(PullRequest(pr)))

\* start_session_container and exec_in_session_container
MigrateLegacyWorktrees(p) ==
  /\ Begin(p) /\ dir
  /\ Goto(p, "check")

PruneSession(p, force) ==
  /\ Begin(p) /\ dir
  /\ Goto(p, IF force THEN "forceremove" ELSE "remove")

\* `git worktree prune` drops an entry whose checkout has no `.git`.
Pruned == IF git \in {"none", "absent"} THEN "none" ELSE entry

\* The end of another session's prune, which prunes the entries of every
\* shared repository; it is taken not to fall within a migration here.
PruneAnother ==
  /\ \A p \in Procs : at[p] \notin MigrationStages
  /\ Pruned # entry
  /\ entry' = Pruned
  /\ UNCHANGED <<dir, stored, task, git, tmp, bak, procs, history>>

----------------------------------------------------------------------------
\* session.json and TASK.md

Layout(p) ==
  /\ at[p] = "layout"
  /\ dir' = TRUE
  /\ Advance(p)
  /\ UNCHANGED <<stored, task, git, entry, tmp, bak, seen, calls, crashes, history>>

\* A write makes the directory anew when it is gone.
ReadMetadata(p) ==
  /\ at[p] = "read"
  /\ dir' = TRUE
  /\ seen' = [seen EXCEPT ![p] = Read]
  /\ Advance(p)
  /\ UNCHANGED <<stored, task, git, entry, tmp, bak, calls, crashes, history>>

OpenMetadata(p) ==
  /\ at[p] = "open"
  /\ IF dir
     THEN stored' = Nothing /\ Advance(p) /\ UNCHANGED seen
     ELSE seen' = [seen EXCEPT ![p] = Nothing] /\ Return(p) /\ UNCHANGED stored
  /\ UNCHANGED <<dir, task, git, entry, tmp, bak, calls, crashes, history>>

\* What is in the file now was written by another process since it was
\* opened here: the shorter of two texts leaves the tail of the longer, and
\* the file is no JSON any more.  Nobody sees a text written to a removed file.
WriteMetadata(p) ==
  /\ at[p] = "write"
  /\ LET mine == Merge(seen[p], arg[p])
     IN  stored' \in IF ~dir THEN {stored}
                     ELSE IF stored = Nothing THEN {mine} ELSE {mine, Nothing}
  /\ told' = IF dir THEN Merge(told, arg[p]) ELSE told
  /\ seen' = [seen EXCEPT ![p] = Nothing]
  /\ Advance(p)
  /\ UNCHANGED <<dir, task, git, entry, tmp, bak, calls, crashes,
                 overlap, scaffolded, worked, handed>>

\* `sdir.is_dir()` before the mark of the hub
HubDirectory(p) ==
  /\ at[p] = "hubdir"
  /\ IF dir THEN Follow(p, Write(StartedBy("yes"))) ELSE Return(p)
  /\ UNCHANGED <<disk, seen, calls, crashes, history>>

OpenTask(p) ==
  /\ at[p] = "taskopen"
  /\ IF dir
     THEN task' = None /\ scaffolded' = FALSE /\ Advance(p)
     ELSE Return(p) /\ UNCHANGED <<task, scaffolded>>
  /\ UNCHANGED <<dir, stored, git, entry, tmp, bak, seen, calls, crashes,
                 overlap, told, worked, handed>>

WriteTask(p) ==
  /\ at[p] = "taskwrite"
  /\ IF dir
     THEN task' = arg[p].pr /\ scaffolded' = TRUE
     ELSE UNCHANGED <<task, scaffolded>>
  /\ Advance(p)
  /\ UNCHANGED <<dir, stored, git, entry, tmp, bak, seen, calls, crashes,
                 overlap, told, worked, handed>>

----------------------------------------------------------------------------
\* The checkout

\* attach_worktree: a directory that is there is returned as it is.  A ref
\* that cannot be resolved fails the call.
Attach(p) ==
  /\ at[p] = "attach"
  /\ \/ ~dir /\ Follow(p, Created \o Do("attach") \o rest[p]) /\ UNCHANGED handed
     \/ dir /\ git # "none" /\ handed' = git /\ Advance(p)
     \/ dir /\ git = "none" /\ UNCHANGED handed
        /\ (Goto(p, "init") \/ Return(p))
  /\ UNCHANGED <<disk, seen, calls, crashes, overlap, told, scaffolded, worked>>

\* mkdir and `git init`
AttachInit(p) ==
  /\ at[p] = "init"
  /\ \/ git' = (IF git \in {"none", "absent"} THEN "half" ELSE git) /\ dir' = TRUE /\ Goto(p, "checkout")
     \/ git \in {"none", "absent"} /\ git' = "none" /\ dir' = TRUE /\ Return(p)
  /\ UNCHANGED <<stored, task, entry, tmp, bak, seen, calls, crashes, history>>

\* A mutant: a failed checkout is left where it is.
AttachCheckoutLeavingIt(p) ==
  /\ at[p] = "checkout"
  /\ \/ /\ git \notin {"none", "absent"}
        /\ git' = IF git = "half" THEN "fresh" ELSE git
        /\ handed' = git'
        /\ Advance(p)
     \/ /\ git \in {"none", "absent", "half"}
        /\ Return(p)
        /\ UNCHANGED <<git, handed>>
  /\ UNCHANGED <<dir, stored, task, entry, tmp, bak, seen, calls, crashes,
                 overlap, told, scaffolded, worked>>

\* Remotes, refs and `git checkout -B`: a failure removes the directory.
AttachCheckout(p) ==
  /\ at[p] = "checkout"
  /\ \/ /\ git \notin {"none", "absent"}
        /\ git' = IF git = "half" THEN "fresh" ELSE git
        /\ handed' = git'
        /\ Advance(p)
     \/ /\ git \in {"none", "absent", "half"}
        /\ git' = "none"
        /\ Return(p)
        /\ UNCHANGED handed
  /\ UNCHANGED <<dir, stored, task, entry, tmp, bak, seen, calls, crashes,
                 overlap, told, scaffolded, worked>>

\* The session's agent edits and stages.  It waits for the calls that migrate.
StageWork ==
  /\ ~worked
  /\ \A p \in Procs : at[p] \notin MigrationStages
  /\ \/ git = "fresh" /\ git' = "work" /\ UNCHANGED entry
     \/ git = "link" /\ entry = "fresh" /\ entry' = "work" /\ UNCHANGED git
  /\ worked' = TRUE
  /\ UNCHANGED <<dir, stored, task, tmp, bak, procs, overlap, told, scaffolded, handed>>

(***************************************************************************)
(* migrate_legacy_worktree_to_alternates                                    *)
(***************************************************************************)
CheckLegacy(p) ==
  /\ at[p] = "check"
  /\ IF git = "link" /\ entry # "none" THEN Goto(p, "build") ELSE Advance(p)
  /\ UNCHANGED <<disk, seen, calls, crashes, history>>

Undo(p) == tmp' = [tmp EXCEPT ![p] = "none"]

\* `git init --bare`, alternates, remotes, refs and HEAD, in a new directory
\* or one of a process that had the same number.  `git init` makes the
\* directories that lead to it anew when they are gone.
BuildGit(p) ==
  /\ at[p] = "build"
  /\ \/ /\ tmp' = [tmp EXCEPT ![p] = "half"]
        /\ dir' = TRUE
        /\ git' = IF git = "none" THEN "absent" ELSE git
        /\ Goto(p, "copy")
     \/ Undo(p) /\ Return(p) /\ UNCHANGED <<dir, git>>
  /\ UNCHANGED <<stored, task, entry, bak, seen, calls, crashes, history>>

\* The index of the worktree, or one read from HEAD when there is none.
CopyIndex(p) ==
  /\ at[p] = "copy"
  /\ \/ /\ tmp[p] = "half"
        /\ tmp' = [tmp EXCEPT ![p] = IF entry = "work" THEN "work" ELSE "fresh"]
        /\ Goto(p, "away")
     \/ Undo(p) /\ Return(p)
  /\ UNCHANGED <<dir, stored, task, git, entry, bak, seen, calls, crashes, history>>

\* `.git` is renamed away, whatever it is by now.  A file left by a process
\* of the same number is removed, a directory cannot be.
MoveAway(p) ==
  /\ at[p] = "away"
  /\ IF git \in {"link", "half", "fresh", "work"} /\ bak[p] \in {"none", "link"}
     THEN /\ bak' = [bak EXCEPT ![p] = git] /\ git' = "absent"
          /\ Goto(p, "into") /\ UNCHANGED tmp
     ELSE Undo(p) /\ Return(p) /\ UNCHANGED <<git, bak>>
  /\ UNCHANGED <<dir, stored, task, entry, seen, calls, crashes, history>>

\* A mutant: the old `.git` is not put back.
MoveIntoOrGiveUp(p) ==
  /\ at[p] = "into"
  /\ \/ git = "absent" /\ tmp[p] # "none" /\ git' = tmp[p] /\ Goto(p, "unbak")
     \/ Return(p) /\ UNCHANGED git
  /\ Undo(p)
  /\ UNCHANGED <<dir, stored, task, entry, bak, seen, calls, crashes, history>>

\* The new directory takes its place; when that fails, the old one is put
\* back, unless another has appeared.
MoveInto(p) ==
  /\ at[p] = "into"
  /\ \/ /\ git = "absent" /\ tmp[p] # "none"
        /\ git' = tmp[p] /\ Undo(p) /\ Goto(p, "unbak") /\ UNCHANGED bak
     \/ /\ IF git = "absent" /\ bak[p] # "none"
           THEN git' = bak[p] /\ bak' = [bak EXCEPT ![p] = "none"]
           ELSE UNCHANGED <<git, bak>>
        /\ Undo(p) /\ Return(p)
  /\ UNCHANGED <<dir, stored, task, entry, seen, calls, crashes, history>>

\* A mutant: the backup is removed whatever it is.
RemoveBackupTree(p) ==
  /\ at[p] = "unbak"
  /\ bak' = [bak EXCEPT ![p] = "none"] /\ Goto(p, "clean")
  /\ UNCHANGED <<dir, stored, task, git, entry, tmp, seen, calls, crashes, history>>

\* A directory cannot be unlinked: the call ends with the entry still there.
RemoveBackup(p) ==
  /\ at[p] = "unbak"
  /\ IF bak[p] \in {"none", "link"}
     THEN bak' = [bak EXCEPT ![p] = "none"] /\ Goto(p, "clean")
     ELSE Return(p) /\ UNCHANGED bak
  /\ UNCHANGED <<dir, stored, task, git, entry, tmp, seen, calls, crashes, history>>

\* The entry in the shared repository is removed and pruned.
CleanEntry(p) ==
  /\ at[p] = "clean"
  /\ entry' = "none"
  /\ Advance(p)
  /\ UNCHANGED <<dir, stored, task, git, tmp, bak, seen, calls, crashes, history>>

(***************************************************************************)
(* prune_session                                                            *)
(***************************************************************************)
\* `git worktree remove`, which refuses staged work unless it is forced
UnlinkWorktree(p) ==
  /\ at[p] \in {"remove", "forceremove"}
  /\ IF git = "link" /\ (entry = "fresh" \/ at[p] = "forceremove")
     THEN git' = "none" /\ entry' = "none" /\ worked' = FALSE
     ELSE UNCHANGED <<git, entry, worked>>
  /\ Goto(p, "rmtree")
  /\ UNCHANGED <<dir, stored, task, tmp, bak, seen, calls, crashes,
                 overlap, told, scaffolded, handed>>

RemoveTree(p) ==
  /\ at[p] = "rmtree"
  /\ dir' = FALSE /\ stored' = Nothing /\ task' = None /\ git' = "none"
  /\ tmp' = [q \in Procs |-> "none"] /\ bak' = [q \in Procs |-> "none"]
  /\ told' = Nothing /\ scaffolded' = FALSE /\ worked' = FALSE
  /\ Goto(p, "shared")
  /\ UNCHANGED <<entry, seen, calls, crashes, overlap, handed>>

PruneShared(p) ==
  /\ at[p] = "shared"
  /\ entry' = Pruned
  /\ Advance(p)
  /\ UNCHANGED <<dir, stored, task, git, tmp, bak, seen, calls, crashes, history>>

----------------------------------------------------------------------------
\* A process dies within a call and is started again.
Crash(p) ==
  /\ ~Idle(p) /\ crashes < MaxCrashes
  /\ crashes' = crashes + 1
  /\ Return(p)
  /\ seen' = [seen EXCEPT ![p] = Nothing]
  /\ UNCHANGED <<disk, calls, history>>

Call(p) ==
  \/ \E hub \in {"yes", "no"} :
       \/ \E attach \in BOOLEAN : CreateSession(p, hub, attach)
       \/ \E pr \in PRs : ScaffoldSessionFromPR(p, pr, hub)
  \/ UpdateSessionStatus(p)
  \/ \E byHub \in BOOLEAN : StartSessionConversation(p, byHub)
  \/ \E pr \in PRs : RecordPullRequest(p, pr)
  \/ MigrateLegacyWorktrees(p)
  \/ \E force \in BOOLEAN : PruneSession(p, force)

FileStep(p) ==
  \/ Layout(p) \/ ReadMetadata(p) \/ OpenMetadata(p) \/ WriteMetadata(p)
  \/ HubDirectory(p) \/ OpenTask(p) \/ WriteTask(p)

CheckoutStep(p) ==
  \/ Attach(p) \/ AttachInit(p) \/ AttachCheckout(p)
  \/ CheckLegacy(p) \/ BuildGit(p) \/ CopyIndex(p) \/ MoveAway(p)
  \/ MoveInto(p) \/ RemoveBackup(p) \/ CleanEntry(p)
  \/ UnlinkWorktree(p) \/ RemoveTree(p) \/ PruneShared(p)

Next ==
  \/ \E p \in Procs : Call(p) \/ FileStep(p) \/ CheckoutStep(p) \/ Crash(p)
  \/ PruneAnother
  \/ StageWork

Spec == Init /\ [][Next]_vars

----------------------------------------------------------------------------
\* Properties

Calm == ~overlap /\ crashes = 0
Resting == \A p \in Procs : Idle(p)

\* What the session's agent has staged is in some git directory on the disk
\* -- the shared repository's entry, `.git`, or a directory a migration left
\* behind -- until the session is pruned, whatever migrations run at once, and
\* wherever they fail or die.  (migrate_legacy_worktree_to_alternates)
WorkKept ==
  worked => \/ git = "work" \/ entry = "work"
            \/ \E p \in Procs : tmp[p] = "work" \/ bak[p] = "work"

\* A session scaffolded from a pull request is known by one, even while
\* session.json is cut short or has lost its keys to another writer; and when
\* calls came one by one, session.json says what they said last.
\* (read_session_metadata, write_session_metadata)
SessionRemembered ==
  /\ scaffolded => Read.pr # None
  /\ Calm /\ Resting => /\ \A k \in Keys \ {"status"} : Read[k] = told[k]
                        /\ told.status # None => Read.status = told.status

\* attach_worktree returns a checkout with a branch checked out, although
\* earlier calls failed half-way, as long as none died or overlapped.
HandedWhole == Calm => handed \notin {"absent", "half"}

\* Between calls the shared repository has an entry exactly for a checkout
\* that uses it: a migration, failed or not, and a prune leave no entry behind
\* and no link without its entry.  (migrate_legacy_worktree_to_alternates,
\* prune_session)
EntryUsed == Calm /\ Resting => (entry # "none" <=> git = "link")
=============================================================================

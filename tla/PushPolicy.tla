----------------------------- MODULE PushPolicy -----------------------------
(***************************************************************************)
(* Which pushes and pull requests the policy lets through: config.py, and  *)
(* the scope perform_git_push adds for a session made from a pull request. *)
(*                                                                         *)
(* A repository is [owner, name].  The patterns of policy.yaml are the     *)
(* sets of branches and repositories they match.                           *)
(***************************************************************************)
EXTENDS Workspace

CONSTANTS
  Repositories,     \* the repositories a remote may name
  Branches,         \* the branch names an agent may ask for
  DistroBranches,   \* those DEFAULT_BLOCKED_BRANCH_PATTERNS matches
  Refspecs,         \* those with a colon or a leading dash
  OddPaths,         \* those with ".." or "//"
  StandardOwners    \* ros2, ros-tooling, ament, ros, osrf

ASSUME PushConstants ==
  /\ None \notin Repositories
  /\ None \notin Branches
  /\ \A r \in Repositories : r = [owner |-> r.owner, name |-> r.name] /\ r.owner # None
  /\ DistroBranches \subseteq Branches
  /\ Refspecs \subseteq Branches
  /\ OddPaths \subseteq Branches

IsBranchPushAllowed(policy, branch, allowDistro) ==
  /\ branch \notin Refspecs \cup OddPaths
  /\ ~allowDistro => branch \notin DistroBranches \cup policy.blockedBranches
  /\ branch \in policy.allowedBranches

\* The user of the policy is None when policy.yaml names none.
IsExternalFork(policy, repo) ==
  /\ repo # None
  /\ ~(policy.user # None /\ repo.owner = policy.user)
  /\ repo.owner \notin StandardOwners

\* "denied", "approval" or "direct".
ValidateGitPush(policy, branch, repo, withLease, force) ==
  LET external == IsExternalFork(policy, repo) IN
  IF \/ branch \in Refspecs
     \/ ~external /\ branch \in DistroBranches \cup policy.blockedBranches
     \/ ~IsBranchPushAllowed(policy, branch, external)
     \/ force /\ ~withLease /\ policy.requireLease
    THEN "denied"
  ELSE IF external
    THEN IF policy.forkApproval THEN "approval" ELSE "denied"
  ELSE IF \/ policy.allowedRepos = {}
          \/ repo = None
          \/ /\ repo \notin policy.allowedRepos
             /\ ~(policy.user # None /\ repo.owner = policy.user)
    THEN "denied"
    ELSE "direct"

ValidatePullRequest(policy, repo) ==
  IF repo \in policy.allowedRepos THEN "approval" ELSE "denied"

-----------------------------------------------------------------------------
(* The scope of a session: its record has the repository of its pr_ref and *)
(* its base_repo, the head_ref, the owner of the head repository and, for  *)
(* a fork, that repository.                                                *)

\* The remote the push goes to: the head branch of a fork is not pushed to
\* origin, and a missing remote of the fork is added.
TargetRepository(record, remote, branch, urls) ==
  LET fork == record.headRepo # None
      used == IF fork /\ remote = "origin" /\ branch = record.head THEN "fork" ELSE remote
  IN IF used = "fork" /\ fork /\ urls[used] = None THEN record.headRepo ELSE urls[used]

BaseRepository(record) == IF record.base # None THEN record.base ELSE record.pr

SessionRepositories(record, policy) ==
  LET base == BaseRepository(record) IN
  {base} \cup {[owner |-> o, name |-> base.name] :
                 o \in {record.headOwner, policy.user} \ {None}}

\* A mutant of OutOfScope: only the branch counts.
BranchOutOfScope(record, policy, branch, repo) ==
  /\ record.pr # None \/ record.head # None
  /\ branch # record.head /\ branch \notin policy.mine

\* mine: the branches that begin with the maintainer's name.
OutOfScope(record, policy, branch, repo) ==
  /\ record.pr # None \/ record.head # None
  /\ \/ branch # record.head /\ branch \notin policy.mine
     \/ /\ repo # None
        /\ BaseRepository(record) # None
        /\ repo \notin SessionRepositories(record, policy)

\* The verdict of perform_git_push before it looks at the ticket.
PushVerdict(record, policy, push, repo) ==
  LET verdict == ValidateGitPush(policy, push.branch, repo, push.withLease, push.force) IN
  IF verdict = "direct" /\ OutOfScope(record, policy, push.branch, repo)
    THEN "approval" ELSE verdict

-----------------------------------------------------------------------------
(* check_policy, the question an agent may ask before it acts *)

CheckPolicy(policy, ask) ==
  CASE ask.action = "git_push" ->
         ValidateGitPush(policy, ask.branch, ask.repo, ask.withLease, ask.force)
    [] ask.action = "create_pull_request" -> ValidatePullRequest(policy, ask.repo)
    [] OTHER -> "denied"
=============================================================================

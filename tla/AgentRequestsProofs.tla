------------------------ MODULE AgentRequestsProofs ------------------------
(***************************************************************************)
(* For every set of requests, policies and session records:                *)
(*                                                                         *)
(* PushGated and OwnSessionOnly.  Both are about the answer to the request *)
(* that is being served, so besides the two properties the proof only      *)
(* needs to know where a request of either kind came from.                 *)
(*                                                                         *)
(* WrapsOnce and RoutedOrHostControl.  Both are about what several hooks   *)
(* make of one command.  The invariant says what each of them leaves to    *)
(* the next: WrapInv, a command the next one neither refuses nor wraps;    *)
(* RouteInv, a command that stays on the host and may, or one that is      *)
(* started in its session's directory and hands over what was asked.       *)
(*                                                                         *)
(* WrappersTransparent.  The program of a segment is found by a recursive  *)
(* reading.  A prefix is read up to the segment's first word               *)
(* (PrefixSkips), and from there on the reading is the same (ScanBehind,   *)
(* AnyMode, WordsBehind); so every part of the decision is (AlikeDecided). *)
(*                                                                         *)
(* ScannersAgree, which is ShellScanProofs.                                *)
(*                                                                         *)
(* NextActionsCover.  The list is four lists, one after the other: where   *)
(* each entry stands follows from their lengths (FourLists), that each is  *)
(* there once from SetToSeq being a bijection (SetToSeqIs) and from the    *)
(* loops over GitHub's answers, which keep URLs apart (AddUnseenKeeps,     *)
(* TriageOnce).                                                            *)
(***************************************************************************)
EXTENDS AgentRequests, ShellScanProofs, SequenceTheorems, FiniteSetTheorems, TLAPS

\* The push being served is one of the pushes agents ask for.
PushKnown ==
  (request # None /\ request.kind = "push") => request.push \in PushRequests

IInv == PushKnown /\ PushGated /\ OwnSessionOnly

-----------------------------------------------------------------------------
(* The decisions themselves *)

\* The repository a push goes to is a known one or none.
LEMMA TargetKnown ==
  ASSUME NEW p \in PushRequests
  PROVE  /\ TargetRepository(p.scope, p.remote, p.branch, RemoteUrls)
              \in Repositories \cup {None}
         /\ Target(p).repo = TargetRepository(p.scope, p.remote, p.branch, RemoteUrls)
  BY PushesAssumption DEF TargetRepository, Target

\* What validate_git_push has made sure of when it does not deny a push.
LEMMA Validated ==
  ASSUME NEW policy, NEW branch, NEW repo \in Repositories \cup {None},
         NEW withLease, NEW force,
         ValidateGitPush(policy, branch, repo, withLease, force) # "denied"
  PROVE  /\ branch \in policy.allowedBranches \ (Refspecs \cup OddPaths)
         /\ force => withLease \/ ~policy.requireLease
         /\ ~IsExternalFork(policy, repo) =>
              /\ branch \notin DistroBranches \cup policy.blockedBranches
              /\ repo # None
              /\ repo \in policy.allowedRepos \/ repo.owner = policy.user
              /\ ValidateGitPush(policy, branch, repo, withLease, force) = "direct"
         /\ IsExternalFork(policy, repo) =>
              /\ policy.forkApproval
              /\ ValidateGitPush(policy, branch, repo, withLease, force) = "approval"
  BY DEF ValidateGitPush, IsBranchPushAllowed

\* A fork in the property's sense is one in the code's.
LEMMA ForkAgrees ==
  ASSUME NEW policy, NEW repo \in Repositories \cup {None}
  PROVE  (repo # None /\ repo.owner \notin StandardOwners \cup ({policy.user} \ {None}))
           <=> IsExternalFork(policy, repo)
  BY PushConstants DEF IsExternalFork

\* A push that is in scope is on the session's or the maintainer's branch and
\* goes to one of the session's repositories.
LEMMA InScope ==
  ASSUME NEW p \in PushRequests, NEW repo \in Repositories \cup {None},
         ~OutOfScope(p.scope, p.policy, p.branch, repo),
         p.scope.pr # None \/ p.scope.head # None,
         NEW base, base = IF p.scope.base # None THEN p.scope.base ELSE p.scope.pr
  PROVE  /\ p.branch \in {p.scope.head} \cup p.policy.mine
         /\ \/ repo = None \/ base = None \/ repo = base
            \/ /\ repo.name = base.name
               /\ repo.owner \in {p.scope.headOwner, p.policy.user}
<1>1. p.branch \in {p.scope.head} \cup p.policy.mine
  BY DEF OutOfScope
<1>2. base = BaseRepository(p.scope)
  BY DEF BaseRepository
<1>3. repo = None \/ base = None \/ repo \in SessionRepositories(p.scope, p.policy)
  BY <1>2 DEF OutOfScope
<1>4. ASSUME repo \in SessionRepositories(p.scope, p.policy), repo # base
      PROVE  /\ repo.name = base.name
             /\ repo.owner \in {p.scope.headOwner, p.policy.user}
  <2>1. PICK o \in {p.scope.headOwner, p.policy.user} \ {None} :
           repo = [owner |-> o, name |-> base.name]
    BY <1>2, <1>4 DEF SessionRepositories
  <2>2. QED
    BY <2>1
<1>5. QED
  BY <1>1, <1>3, <1>4

\* A session's call that the gateway carries out touches its own session only.
LEMMA OutcomeOwn ==
  ASSUME NEW caller, NEW call, NEW started, NEW policy, NEW requireAuth,
         caller.role = "session",
         Outcome(caller, call, started, policy, requireAuth).what = "done"
  PROVE  Outcome(caller, call, started, policy, requireAuth).sessions
           \subseteq {caller.session}
<1>1. caller # NoCaller
  BY DEF NoCaller
<1>2. EffectiveCaller(caller, requireAuth) = caller
  BY <1>1 DEF EffectiveCaller
<1>3. /\ AuthorizeToolCall(caller, call, started, policy)
      /\ ~ForeignRun(caller, call)
      /\ Outcome(caller, call, started, policy, requireAuth).sessions
           = SessionsTouched(caller, call)
  BY <1>2 DEF Outcome
<1>4. AuthorizeSession(caller, call, policy)
  BY <1>3 DEF AuthorizeToolCall
<1>5. SessionsTouched(caller, call) \subseteq {caller.session}
  BY <1>3, <1>4, NoneIsNoSession
  DEF SessionsTouched, BoundSession, ForeignRun, AuthorizeSession
<1>6. QED
  BY <1>3, <1>5

-----------------------------------------------------------------------------
(* The specification *)

\* A push that is carried out satisfies PushGated.
LEMMA ServePushGated ==
  ASSUME IInv, ServePush
  PROVE  IInv'
<1> DEFINE p == request.push
           repo == Target(p).repo
           verdict == PushVerdict(p.scope, p.policy, p, repo)
<1>1. request # None /\ answer = None /\ request.kind = "push" /\ request' = request
  BY DEF ServePush, Open, Answer
<1>2. p \in PushRequests
  BY <1>1 DEF IInv, PushKnown
<1>3. PushKnown'
  BY <1>1 DEF IInv, PushKnown
<1>4. OwnSessionOnly'
  BY <1>1 DEF OwnSessionOnly
<1>5. PushGated'
  <2> SUFFICES ASSUME answer' # None, answer'.what = "pushed"
               PROVE  PushGated'
    BY <1>1 DEF PushGated
  <2>1. /\ verdict = "direct" \/ (verdict = "approval" /\ TicketValid(p))
        /\ answer'.target = Target(p)
    BY <1>1 DEF ServePush, Answer
  <2>2. repo \in Repositories \cup {None}
    BY <1>2, TargetKnown
  <2>3. ValidateGitPush(p.policy, p.branch, repo, p.withLease, p.force) # "denied"
    BY <2>1 DEF PushVerdict
  <2>4. TicketValid(p) => /\ p.ticket # None
                          /\ p.ticket.status = "APPROVED"
                          /\ p.ticket.target = answer'.target
    BY <2>1 DEF TicketValid
  <2>5. IsExternalFork(p.policy, repo) => TicketValid(p)
    <3>1. CASE IsExternalFork(p.policy, repo)
      <4>1. ValidateGitPush(p.policy, p.branch, repo, p.withLease, p.force) = "approval"
        BY <2>2, <2>3, <3>1, Validated
      <4>2. verdict = "approval"
        BY <4>1 DEF PushVerdict
      <4>3. QED
        BY <2>1, <4>2
    <3>2. QED
      BY <3>1
  <2>6. OutOfScope(p.scope, p.policy, p.branch, repo) => TicketValid(p)
    BY <2>1 DEF PushVerdict
  <2>7. answer'.target.repo = repo
    BY <2>1
  <2>8. /\ p.branch \in p.policy.allowedBranches \ (Refspecs \cup OddPaths)
        /\ p.force => p.withLease \/ ~p.policy.requireLease
        /\ ~IsExternalFork(p.policy, repo) =>
             /\ p.branch \notin DistroBranches \cup p.policy.blockedBranches
             /\ repo # None
             /\ repo \in p.policy.allowedRepos \/ repo.owner = p.policy.user
        /\ IsExternalFork(p.policy, repo) => p.policy.forkApproval
    BY <2>2, <2>3, Validated
  <2>9. (repo # None /\ repo.owner \notin StandardOwners \cup ({p.policy.user} \ {None}))
          <=> IsExternalFork(p.policy, repo)
    BY <2>2, ForkAgrees
  <2> DEFINE base == IF p.scope.base # None THEN p.scope.base ELSE p.scope.pr
             ownBranch == p.branch \in {p.scope.head} \cup p.policy.mine
             ownRepo == \/ repo = None \/ base = None \/ repo = base
                        \/ /\ repo.name = base.name
                           /\ repo.owner \in {p.scope.headOwner, p.policy.user}
             scoped == p.scope.pr # None \/ p.scope.head # None
  <2>10. (scoped /\ ~(ownBranch /\ ownRepo)) =>
           OutOfScope(p.scope, p.policy, p.branch, repo)
    <3> HIDE DEF repo
    <3>1. ASSUME scoped, ~OutOfScope(p.scope, p.policy, p.branch, repo)
          PROVE  ownBranch /\ ownRepo
      BY <1>2, <2>2, <3>1, InScope
    <3>2. QED
      BY <3>1
  <2>11. request'.push = p
    BY <1>1
  <2>12. QED
    BY <2>4, <2>5, <2>6, <2>7, <2>8, <2>9, <2>10, <2>11 DEF PushGated
<1>6. QED
  BY <1>3, <1>4, <1>5 DEF IInv

\* A tool call that is carried out satisfies OwnSessionOnly.
LEMMA ServeToolOwn ==
  ASSUME IInv, ServeTool
  PROVE  IInv'
<1> DEFINE t == request.tool
<1>1. /\ request # None /\ request.kind = "tool" /\ request' = request
      /\ answer' = Outcome(t.caller, t.call, t.started, t.policy, t.requireAuth)
  BY DEF ServeTool, Open, Answer
<1>2. OwnSessionOnly'
  BY <1>1, OutcomeOwn DEF OwnSessionOnly
<1>3. QED
  BY <1>1, <1>2 DEF IInv, PushKnown, PushGated

\* Every step keeps the invariant.
LEMMA StepKeeps ==
  ASSUME IInv, [Next]_vars
  PROVE  IInv'
<1> USE DEF IInv, PushKnown, PushGated, OwnSessionOnly
<1>1. CASE Finish
  BY <1>1 DEF Finish
<1>2. CASE AskCommand
  BY <1>2 DEF AskCommand, Ask
<1>3. CASE Hook
  <2>1. \/ /\ request # None /\ request.kind = "command"
           /\ answer'.what \notin {"pushed", "done"}
        \/ answer' = None
    BY <1>3 DEF Hook, Open
  <2>2. (request' # None /\ request'.kind = "push") => request'.push \in PushRequests
    BY <1>3 DEF Hook, Open
  <2>3. QED
    BY <1>3, <2>1, <2>2 DEF Hook, Open
<1>4. CASE RunCommand
  BY <1>4 DEF RunCommand, Open, Answer
<1>5. CASE AskRead
  BY <1>5 DEF AskRead, Ask
<1>6. CASE HookRead
  BY <1>6 DEF HookRead, Open, Answer
<1>7. CASE AskTool
  BY <1>7 DEF AskTool, Ask
<1>8. CASE ServeTool
  BY <1>8, ServeToolOwn
<1>9. CASE AskPush
  BY <1>9 DEF AskPush, Ask
<1>10. CASE ServePush
  BY <1>10, ServePushGated
<1>11. CASE AskPolicy
  BY <1>11 DEF AskPolicy, Ask
<1>12. CASE ServePolicy
  BY <1>12 DEF ServePolicy, Open, Answer
<1>13. CASE AskNext
  BY <1>13 DEF AskNext, Ask
<1>14. CASE ServeNext
  BY <1>14 DEF ServeNext, Open, Answer
<1>15. CASE AskScan
  BY <1>15 DEF AskScan, Ask
<1>16. CASE ServeScan
  BY <1>16 DEF ServeScan, Open, Answer
<1>17. CASE UNCHANGED vars
  <2> HIDE DEF IInv, PushKnown, PushGated, OwnSessionOnly
  <2>1. request' = request /\ answer' = answer
    BY <1>17 DEF vars
  <2>2. PushKnown' = PushKnown
    BY <2>1 DEF PushKnown
  <2>3. PushGated' = PushGated
    BY <2>1 DEF PushGated
  <2>4. OwnSessionOnly' = OwnSessionOnly
    BY <2>1 DEF OwnSessionOnly
  <2>5. QED
    BY <2>2, <2>3, <2>4 DEF IInv
<1> HIDE DEF IInv, PushKnown, PushGated, OwnSessionOnly
<1>18. CASE Next
  BY <1>1, <1>2, <1>3, <1>4, <1>5, <1>6, <1>7, <1>8, <1>9, <1>10, <1>11, <1>12,
     <1>13, <1>14, <1>15, <1>16, <1>18 DEF Next
<1>19. QED
  BY <1>17, <1>18

\* The invariant holds from the start.
LEMMA InitHolds == Init => IInv
  BY DEF Init, IInv, PushKnown, PushGated, OwnSessionOnly

\* Every push that happens is one the policy permits, for every policy, every
\* session and every way of asking.  (validate_git_push, perform_git_push)
THEOREM PushesArePermitted == Spec => []PushGated
<1>1. IInv => PushGated
  BY DEF IInv
<1>2. QED
  BY <1>1, InitHolds, StepKeeps, PTL DEF Spec

\* No call of a session's agent touches another session, whatever its
\* arguments.  (authorize_tool_call)
THEOREM SessionsStayApart == Spec => []OwnSessionOnly
<1>1. IInv => OwnSessionOnly
  BY DEF IInv
<1>2. QED
  BY <1>1, InitHolds, StepKeeps, PTL DEF Spec

-----------------------------------------------------------------------------
(* The words of a segment: which of them is the program, and that a        *)
(* wrapper in front does not change it                                     *)

Modes == Wrappers \cup {"none"}

\* The place where the reading of a segment's words goes on, if it does.
Ends(seg, i, mode) ==
  \/ i > Len(seg)
  \/ /\ seg[i] \notin Assignments
     /\ mode = "none" \/ seg[i] \notin Options
     /\ mode # "timeout"
     /\ seg[i] \notin Wrappers \cup PlainWrappers

GoesOn(seg, i, mode) ==
  IF seg[i] \in Assignments THEN <<i + 1, mode>>
  ELSE IF mode # "none" /\ seg[i] \in Options
    THEN <<IF seg[i] \in ValueOptions[mode] /\ i < Len(seg) THEN i + 2 ELSE i + 1, mode>>
  ELSE IF mode = "timeout" THEN <<i + 1, "none">>
  ELSE IF seg[i] \in Wrappers THEN <<i + 1, seg[i]>>
  ELSE <<PastOptions(seg, i + 1), "none">>

\* PastOptions finds the first word that is no option, or the end.
LEMMA PastIs ==
  ASSUME NEW seg, Len(seg) \in Nat, NEW i \in 1..(Len(seg) + 1)
  PROVE  /\ PastOptions(seg, i) \in i..(Len(seg) + 1)
         /\ PastOptions(seg, i) = Len(seg) + 1 \/ seg[PastOptions(seg, i)] \notin Options
         /\ \A k \in i..(PastOptions(seg, i) - 1) : seg[k] \in Options
<1> DEFINE T == {j \in i..(Len(seg) + 1) : j = Len(seg) + 1 \/ seg[j] \notin Options}
<1>1. T \in SUBSET Nat /\ Len(seg) + 1 \in T
  OBVIOUS
<1>2. PICK j \in T : \A k \in T : j <= k
  <2> HIDE DEF T
  <2>1. QED
    BY <1>1, Least
<1>3. \A k \in i..(j - 1) : seg[k] \in Options
  <2>1. SUFFICES ASSUME NEW k \in i..(j - 1), seg[k] \notin Options PROVE FALSE
    OBVIOUS
  <2>2. k \in T /\ ~(j <= k)
    BY <1>2, <2>1
  <2>3. QED
    BY <1>2, <2>2
<1>4. QED
  BY <1>2, <1>3 DEF PastOptions

\* There is only one such word.
IsPast(seg, i, j) ==
  /\ j \in i..(Len(seg) + 1)
  /\ j = Len(seg) + 1 \/ seg[j] \notin Options
  /\ \A k \in i..(j - 1) : seg[k] \in Options

LEMMA PastOne ==
  ASSUME NEW seg, Len(seg) \in Nat, NEW i \in 1..(Len(seg) + 1), NEW j, IsPast(seg, i, j)
  PROVE  PastOptions(seg, i) = j
<1>0. /\ j \in i..(Len(seg) + 1)
      /\ j = Len(seg) + 1 \/ seg[j] \notin Options
      /\ \A k \in i..(j - 1) : seg[k] \in Options
  BY DEF IsPast
<1> DEFINE p == PastOptions(seg, i)
<1>1. /\ p \in i..(Len(seg) + 1)
      /\ p = Len(seg) + 1 \/ seg[p] \notin Options
      /\ \A k \in i..(p - 1) : seg[k] \in Options
  BY PastIs
<1> HIDE DEF p
<1>2. ~(p < j)
  <2>1. p < j => p \in i..(j - 1) /\ p # Len(seg) + 1
    BY <1>0, <1>1
  <2>2. QED
    BY <1>0, <1>1, <2>1
<1>3. ~(j < p)
  <2>1. j < p => j \in i..(p - 1) /\ j # Len(seg) + 1
    BY <1>0, <1>1
  <2>2. QED
    BY <1>0, <1>1, <2>1
<1>4. QED
  BY <1>0, <1>1, <1>2, <1>3 DEF p

\* Reading goes on behind the word that was read.
LEMMA GoesAhead ==
  ASSUME NEW S, NEW seg \in Seq(S), NEW i \in 1..(Len(seg) + 2), NEW mode \in Modes,
         ~Ends(seg, i, mode)
  PROVE  /\ i \in 1..Len(seg)
         /\ GoesOn(seg, i, mode)[1] \in (i + 1)..(Len(seg) + 1)
         /\ GoesOn(seg, i, mode)[2] \in Modes
         /\ GoesOn(seg, i, mode) = <<GoesOn(seg, i, mode)[1], GoesOn(seg, i, mode)[2]>>
<1>1. Len(seg) \in Nat /\ i \in 1..Len(seg) /\ i + 1 \in 1..(Len(seg) + 1)
  BY DEF Ends
<1>2. PastOptions(seg, i + 1) \in (i + 1)..(Len(seg) + 1)
  BY <1>1, PastIs
<1>3. "none" \in Modes
  BY DEF Modes
<1>4. CASE seg[i] \in Assignments
  BY <1>1, <1>4 DEF GoesOn
<1>5. CASE seg[i] \notin Assignments /\ mode # "none" /\ seg[i] \in Options
  <2> DEFINE n == IF seg[i] \in ValueOptions[mode] /\ i < Len(seg) THEN i + 2 ELSE i + 1
  <2>1. n \in (i + 1)..(Len(seg) + 1)
    BY <1>1
  <2>2. GoesOn(seg, i, mode) = <<n, mode>>
    BY <1>5 DEF GoesOn
  <2> HIDE DEF n
  <2>3. QED
    BY <1>1, <2>1, <2>2
<1>6. CASE seg[i] \notin Assignments /\ ~(mode # "none" /\ seg[i] \in Options)
           /\ mode = "timeout"
  BY <1>1, <1>3, <1>6 DEF GoesOn
<1>7. CASE seg[i] \notin Assignments /\ ~(mode # "none" /\ seg[i] \in Options)
           /\ mode # "timeout" /\ seg[i] \in Wrappers
  BY <1>1, <1>7 DEF GoesOn, Modes
<1>8. CASE seg[i] \notin Assignments /\ ~(mode # "none" /\ seg[i] \in Options)
           /\ mode # "timeout" /\ seg[i] \notin Wrappers
  BY <1>1, <1>2, <1>3, <1>8 DEF GoesOn
<1>9. QED
  BY <1>4, <1>5, <1>6, <1>7, <1>8

\* What is read from a place.
LEMMA ScanIs ==
  ASSUME NEW S, NEW seg \in Seq(S), NEW i \in 1..(Len(seg) + 2), NEW mode \in Modes
  PROVE  /\ ExecutableFrom(seg)[<<i, mode>>] \in S \cup {None}
         /\ ExecutableFrom(seg)[<<i, mode>>] =
              IF Ends(seg, i, mode) THEN IF i > Len(seg) THEN None ELSE seg[i]
                ELSE ExecutableFrom(seg)[GoesOn(seg, i, mode)]
<1> DEFINE D == (1..(Len(seg) + 2)) \X Modes
           V == S \cup {None}
           end(p) == IF p[1] > Len(seg) THEN None ELSE seg[p[1]]
           base == {p \in D : Ends(seg, p[1], p[2])}
           first == [p \in D |-> IF p \in base THEN end(p) ELSE None]
           next == [p \in D |-> IF p \in base THEN p ELSE GoesOn(seg, p[1], p[2])]
           step == [x \in D \X V |-> x[2]]
           rank == [p \in D |-> Len(seg) + 2 - p[1]]
           at(f, p) == IF p \in base THEN end(p) ELSE f[GoesOn(seg, p[1], p[2])]
<1>1. Len(seg) \in Nat /\ Len(seg) + 3 \in Nat /\ \A n \in 1..Len(seg) : seg[n] \in S
  OBVIOUS
<1>2. \A p \in D : p[1] \in 1..(Len(seg) + 2) /\ p[2] \in Modes /\ p = <<p[1], p[2]>>
  OBVIOUS
<1>3. ASSUME NEW p \in D, p \notin base
      PROVE  /\ GoesOn(seg, p[1], p[2]) \in D
             /\ GoesOn(seg, p[1], p[2])[1] > p[1]
             /\ GoesOn(seg, p[1], p[2])[1] \in 1..(Len(seg) + 1)
  <2> DEFINE g == GoesOn(seg, p[1], p[2])
  <2>1. /\ p[1] \in 1..Len(seg)
        /\ g[1] \in (p[1] + 1)..(Len(seg) + 1) /\ g[2] \in Modes /\ g = <<g[1], g[2]>>
    BY <1>2, <1>3, GoesAhead
  <2> HIDE DEF g
  <2>2. g[1] \in 1..(Len(seg) + 1) /\ g[1] > p[1] /\ g[1] \in 1..(Len(seg) + 2)
    BY <1>1, <2>1
  <2>3. g \in D
    BY <2>1, <2>2
  <2>4. QED
    BY <2>2, <2>3 DEF g
<1>4. \A p \in D : end(p) \in V
  BY <1>1, <1>2
<1> HIDE DEF base, end
<1>5. /\ first \in [D -> V] /\ next \in [D -> D]
      /\ step \in [D \X V -> V] /\ rank \in [D -> Nat]
  <2>1. first \in [D -> V]
    BY <1>4
  <2>2. next \in [D -> D]
    BY <1>3
  <2>3. step \in [D \X V -> V]
    OBVIOUS
  <2>4. rank \in [D -> Nat]
    BY <1>1
  <2>5. QED
    BY <2>1, <2>2, <2>3, <2>4
<1>6. \A p \in D : rank[p] < Len(seg) + 3 /\ (p \notin base => rank[next[p]] < rank[p])
  <2>1. SUFFICES ASSUME NEW p \in D
                 PROVE  rank[p] < Len(seg) + 3 /\ (p \notin base => rank[next[p]] < rank[p])
    OBVIOUS
  <2>2. rank[p] = Len(seg) + 2 - p[1] /\ rank[p] < Len(seg) + 3
    BY <1>1, <1>2
  <2>3. ASSUME p \notin base PROVE rank[next[p]] < rank[p]
    <3>1. next[p] = GoesOn(seg, p[1], p[2]) /\ next[p] \in D
      BY <1>3, <2>3
    <3>2. rank[next[p]] = Len(seg) + 2 - next[p][1]
      BY <3>1
    <3>3. next[p][1] > p[1] /\ next[p][1] \in Nat /\ p[1] \in Nat
      BY <1>2, <1>3, <2>3, <3>1
    <3> HIDE DEF rank, next
    <3>4. QED
      BY <1>1, <2>2, <3>2, <3>3
  <2>4. QED
    BY <2>2, <2>3
<1>7. PICK f \in [D -> V] : Solves(f, D, base, first, next, step)
  <2> HIDE DEF D, V, first, next, step, rank
  <2>1. Len(seg) + 3 \in Nat
    BY <1>1
  <2>2. QED
    BY <1>5, <1>6, <2>1, Recursion
<1>8. f = [p \in D |-> at(f, p)]
  <2>1. f = [p \in D |-> IF p \in base THEN first[p] ELSE step[<<p, f[next[p]]>>]]
    BY <1>7 DEF Solves
  <2>2. \A p \in D : (IF p \in base THEN first[p] ELSE step[<<p, f[next[p]]>>]) = at(f, p)
    <3>1. SUFFICES ASSUME NEW p \in D
                   PROVE (IF p \in base THEN first[p] ELSE step[<<p, f[next[p]]>>]) = at(f, p)
      OBVIOUS
    <3>2. CASE p \in base
      BY <3>2
    <3>3. CASE p \notin base
      <4>1. next[p] = GoesOn(seg, p[1], p[2]) /\ next[p] \in D
        BY <1>3, <3>3
      <4>2. f[next[p]] \in V /\ <<p, f[next[p]]>> \in D \X V
        BY <4>1
      <4>3. step[<<p, f[next[p]]>>] = f[next[p]]
        BY <4>2
      <4>4. QED
        BY <3>3, <4>1, <4>3
    <3>4. QED
      BY <3>2, <3>3
  <2> HIDE DEF D, base, first, step, next, at
  <2>3. QED
    BY <2>1, <2>2
<1> DEFINE body(g, p) ==
             LET n == p[1]
                 m == p[2]
             IN IF n > Len(seg) THEN None
                ELSE IF seg[n] \in Assignments THEN g[<<n + 1, m>>]
                ELSE IF m # "none" /\ seg[n] \in Options
                  THEN g[<<IF seg[n] \in ValueOptions[m] /\ n < Len(seg)
                             THEN n + 2 ELSE n + 1, m>>]
                ELSE IF m = "timeout" THEN g[<<n + 1, "none">>]
                ELSE IF seg[n] \in Wrappers THEN g[<<n + 1, seg[n]>>]
                ELSE IF seg[n] \in PlainWrappers THEN g[<<PastOptions(seg, n + 1), "none">>]
                ELSE seg[n]
           scan == CHOOSE g : g = [p \in D |-> body(g, p)]
<1>9. ASSUME NEW g, NEW p \in D
      PROVE  body(g, p) = at(g, p)
  <2> DEFINE n == p[1]
             m == p[2]
  <2>1. p \in base <=> Ends(seg, n, m)
    BY DEF base
  <2>2. CASE n > Len(seg)
    BY <2>1, <2>2 DEF Ends, end
  <2>3. CASE ~(n > Len(seg)) /\ seg[n] \in Assignments
    BY <2>1, <2>3 DEF Ends, GoesOn
  <2>4. CASE ~(n > Len(seg)) /\ seg[n] \notin Assignments /\ m # "none" /\ seg[n] \in Options
    BY <2>1, <2>4 DEF Ends, GoesOn
  <2>5. CASE ~(n > Len(seg)) /\ seg[n] \notin Assignments /\ ~(m # "none" /\ seg[n] \in Options)
    <3>1. CASE m = "timeout"
      BY <2>1, <2>5, <3>1 DEF Ends, GoesOn
    <3>2. CASE m # "timeout" /\ seg[n] \in Wrappers
      BY <2>1, <2>5, <3>2 DEF Ends, GoesOn
    <3>3. CASE m # "timeout" /\ seg[n] \notin Wrappers /\ seg[n] \in PlainWrappers
      BY <2>1, <2>5, <3>3 DEF Ends, GoesOn
    <3>4. CASE m # "timeout" /\ seg[n] \notin Wrappers /\ seg[n] \notin PlainWrappers
      BY <2>1, <2>5, <3>4 DEF Ends, end
    <3>5. QED
      BY <3>1, <3>2, <3>3, <3>4
  <2>6. QED
    BY <2>2, <2>3, <2>4, <2>5
<1>10. ExecutableFrom(seg) = scan
  BY DEF ExecutableFrom, Modes
<1>11. f = [p \in D |-> body(f, p)]
  <2> HIDE DEF D, body, at
  <2>1. QED
    BY <1>8, <1>9
<1>12. scan = [p \in D |-> body(scan, p)]
  <2> HIDE DEF D, body
  <2>1. QED
    BY <1>11, Zenon
<1> HIDE DEF scan
<1>13. \A p \in D : scan[p] = at(scan, p)
  <2> HIDE DEF D, body, at
  <2>1. QED
    BY <1>9, <1>12
<1> DEFINE T == {n \in Nat : \A m \in Modes : scan[<<n, m>>] \in V}
<1>14. ASSUME NEW n \in 1..(Len(seg) + 2), \A k \in (n + 1)..(Len(seg) + 2) : k \in T
       PROVE  n \in T
  <2>1. SUFFICES ASSUME NEW m \in Modes PROVE scan[<<n, m>>] \in V
    BY <1>1
  <2> DEFINE p == <<n, m>>
  <2>2. p \in D /\ p[1] = n /\ p[2] = m
    OBVIOUS
  <2>3. scan[p] = at(scan, p)
    <3> HIDE DEF at, D
    <3>1. QED
      BY <1>13, <2>2
  <2>4. CASE p \in base
    BY <1>4, <2>2, <2>3, <2>4
  <2>5. CASE p \notin base
    <3> DEFINE g == GoesOn(seg, n, m)
    <3>1. g[1] \in (n + 1)..(Len(seg) + 1) /\ g[2] \in Modes /\ g = <<g[1], g[2]>>
      BY <2>2, <2>5, GoesAhead DEF base
    <3> HIDE DEF g
    <3>2. g[1] \in (n + 1)..(Len(seg) + 2)
      BY <1>1, <3>1
    <3>3. g[1] \in T
      BY <1>14, <3>2
    <3>4. scan[g] \in V
      BY <3>1, <3>3
    <3>5. QED
      BY <2>2, <2>3, <2>5, <3>4 DEF g
  <2>6. QED
    BY <2>4, <2>5
<1>15. \A n \in 1..(Len(seg) + 2) : n \in T
  <2> HIDE DEF T
  <2>1. 1 \in Nat /\ Len(seg) + 2 \in Nat
    BY <1>1
  <2>2. QED
    BY <1>14, <2>1, FromTheEnd
<1>16. scan[<<i, mode>>] \in V
  BY <1>15
<1>17. <<i, mode>> \in D /\ (<<i, mode>> \in base <=> Ends(seg, i, mode))
  BY DEF base
<1>18. scan[<<i, mode>>] = IF Ends(seg, i, mode) THEN IF i > Len(seg) THEN None ELSE seg[i]
                             ELSE scan[GoesOn(seg, i, mode)]
  <2>1. scan[<<i, mode>>] = at(scan, <<i, mode>>)
    <3> HIDE DEF D, at
    <3>1. QED
      BY <1>13, <1>17
  <2>2. QED
    BY <1>17, <2>1 DEF end
<1>19. QED
  BY <1>10, <1>16, <1>18

\* Words put in front of a segment.
LEMMA Behind ==
  ASSUME NEW S, NEW prefix \in Seq(S), NEW seg \in Seq(S)
  PROVE  /\ prefix \o seg \in Seq(S) /\ Len(prefix \o seg) = Len(prefix) + Len(seg)
         /\ \A i \in 1..Len(prefix) : (prefix \o seg)[i] = prefix[i]
         /\ \A i \in 1..Len(seg) : (prefix \o seg)[Len(prefix) + i] = seg[i]
OBVIOUS

\* They do not change where the options behind them end.
LEMMA PastBehind ==
  ASSUME NEW S, NEW prefix \in Seq(S), NEW seg \in Seq(S), NEW i \in 1..(Len(seg) + 1)
  PROVE  PastOptions(prefix \o seg, Len(prefix) + i) = Len(prefix) + PastOptions(seg, i)
<1> DEFINE n == Len(prefix)
           whole == prefix \o seg
           j == PastOptions(seg, i)
<1>1. /\ n \in Nat /\ Len(seg) \in Nat /\ Len(whole) = n + Len(seg)
      /\ \A k \in 1..Len(seg) : whole[n + k] = seg[k]
  BY Behind
<1>2. /\ j \in i..(Len(seg) + 1)
      /\ j = Len(seg) + 1 \/ seg[j] \notin Options
      /\ \A k \in i..(j - 1) : seg[k] \in Options
  BY <1>1, PastIs
<1> HIDE DEF n, whole, j
<1>3. n + i \in 1..(Len(whole) + 1) /\ n + j \in (n + i)..(Len(whole) + 1) /\ Len(whole) \in Nat
  BY <1>1, <1>2
<1>4. n + j = Len(whole) + 1 \/ whole[n + j] \notin Options
  <2>1. CASE j = Len(seg) + 1
    BY <1>1, <2>1
  <2>2. CASE j # Len(seg) + 1
    <3>1. j \in 1..Len(seg) /\ seg[j] \notin Options
      BY <1>1, <1>2, <2>2
    <3>2. QED
      BY <1>1, <3>1
  <2>3. QED
    BY <2>1, <2>2
<1>5. \A k \in (n + i)..((n + j) - 1) : whole[k] \in Options
  <2>1. SUFFICES ASSUME NEW k \in (n + i)..((n + j) - 1) PROVE whole[k] \in Options
    OBVIOUS
  <2>2. k - n \in i..(j - 1) /\ k - n \in 1..Len(seg) /\ n + (k - n) = k
    BY <1>1, <1>2
  <2>3. whole[n + (k - n)] = seg[k - n]
    BY <1>1, <2>2
  <2>4. QED
    BY <1>2, <2>2, <2>3
<1>6. IsPast(whole, n + i, n + j)
  <2> DEFINE from == n + i
             to == n + j
  <2>1. /\ to \in from..(Len(whole) + 1)
        /\ to = Len(whole) + 1 \/ whole[to] \notin Options
        /\ \A k \in from..(to - 1) : whole[k] \in Options
    BY <1>3, <1>4, <1>5, Zenon
  <2> HIDE DEF from, to
  <2>2. IsPast(whole, from, to)
    BY <2>1 DEF IsPast
  <2>3. QED
    BY <2>2 DEF from, to
<1>7. PastOptions(whole, n + i) = n + j
  <2> DEFINE from == n + i
             to == n + j
  <2>1. from \in 1..(Len(whole) + 1) /\ Len(whole) \in Nat /\ IsPast(whole, from, to)
    BY <1>3, <1>6
  <2> HIDE DEF from, to
  <2>2. PastOptions(whole, from) = to
    BY <2>1, PastOne
  <2>3. QED
    BY <2>2 DEF from, to
<1>8. QED
  BY <1>7 DEF n, whole, j

\* Nor what is read from behind them.
LEMMA ScanBehind ==
  ASSUME NEW S, NEW prefix \in Seq(S), NEW seg \in Seq(S)
  PROVE  \A i \in 1..(Len(seg) + 2), mode \in Modes :
           ExecutableFrom(prefix \o seg)[<<Len(prefix) + i, mode>>]
             = ExecutableFrom(seg)[<<i, mode>>]
<1> DEFINE n == Len(prefix)
           whole == prefix \o seg
           there == ExecutableFrom(whole)
           here == ExecutableFrom(seg)
           T == {i \in Nat : \A m \in Modes : there[<<n + i, m>>] = here[<<i, m>>]}
<1>1. /\ n \in Nat /\ Len(seg) \in Nat /\ Len(whole) = n + Len(seg) /\ whole \in Seq(S)
      /\ \A k \in 1..Len(seg) : whole[n + k] = seg[k]
  BY Behind
<1>2. ASSUME NEW i \in 1..(Len(seg) + 2), \A k \in (i + 1)..(Len(seg) + 2) : k \in T
      PROVE  i \in T
  <2>1. SUFFICES ASSUME NEW m \in Modes PROVE there[<<n + i, m>>] = here[<<i, m>>]
    BY <1>1
  <2>2. /\ here[<<i, m>>] = IF Ends(seg, i, m) THEN IF i > Len(seg) THEN None ELSE seg[i]
                              ELSE here[GoesOn(seg, i, m)]
        /\ there[<<n + i, m>>] =
             IF Ends(whole, n + i, m) THEN IF n + i > Len(whole) THEN None ELSE whole[n + i]
               ELSE there[GoesOn(whole, n + i, m)]
    <3>1. n + i \in 1..(Len(whole) + 2)
      BY <1>1
    <3> HIDE DEF n, whole
    <3>2. QED
      BY <1>1, <3>1, ScanIs
  <2>3. n + i > Len(whole) <=> i > Len(seg)
    BY <1>1
  <2>4. ~(i > Len(seg)) => whole[n + i] = seg[i]
    BY <1>1
  <2>5. Ends(whole, n + i, m) <=> Ends(seg, i, m)
    <3> HIDE DEF n, whole
    <3>1. QED
      BY <2>3, <2>4 DEF Ends
  <2>6. CASE Ends(seg, i, m)
    <3> HIDE DEF n, whole, there, here
    <3>1. QED
      BY <2>2, <2>3, <2>4, <2>5, <2>6
  <2>7. CASE ~Ends(seg, i, m)
    <3> DEFINE g == GoesOn(seg, i, m)
    <3>1. /\ i \in 1..Len(seg) /\ g[1] \in (i + 1)..(Len(seg) + 1) /\ g[2] \in Modes
          /\ g = <<g[1], g[2]>>
      BY <2>7, GoesAhead
    <3>2. GoesOn(whole, n + i, m) = <<n + g[1], g[2]>>
      <4>1. whole[n + i] = seg[i] /\ (n + i < Len(whole) <=> i < Len(seg))
        BY <1>1, <3>1
      <4>2. PastOptions(whole, n + i + 1) = n + PastOptions(seg, i + 1)
        <5>1. i + 1 \in 1..(Len(seg) + 1) /\ n + i + 1 = n + (i + 1)
          BY <1>1, <3>1
        <5>2. QED
          BY <5>1, PastBehind
      <4>3. n + i + 1 = n + (i + 1) /\ n + i + 2 = n + (i + 2)
        BY <1>1
      <4> HIDE DEF n, whole
      <4>4. CASE seg[i] \in Assignments
        BY <4>1, <4>3, <4>4 DEF GoesOn
      <4>5. CASE seg[i] \notin Assignments /\ m # "none" /\ seg[i] \in Options
        <5>1. CASE seg[i] \in ValueOptions[m] /\ i < Len(seg)
          BY <4>1, <4>3, <4>5, <5>1 DEF GoesOn
        <5>2. CASE ~(seg[i] \in ValueOptions[m] /\ i < Len(seg))
          BY <4>1, <4>3, <4>5, <5>2 DEF GoesOn
        <5>3. QED
          BY <5>1, <5>2
      <4>6. CASE seg[i] \notin Assignments /\ ~(m # "none" /\ seg[i] \in Options)
        <5>1. CASE m = "timeout"
          BY <4>1, <4>3, <4>6, <5>1 DEF GoesOn
        <5>2. CASE m # "timeout" /\ seg[i] \in Wrappers
          BY <4>1, <4>3, <4>6, <5>2 DEF GoesOn
        <5>3. CASE m # "timeout" /\ seg[i] \notin Wrappers
          BY <4>1, <4>2, <4>6, <5>3 DEF GoesOn
        <5>4. QED
          BY <5>1, <5>2, <5>3
      <4>7. QED
        BY <4>4, <4>5, <4>6
    <3> HIDE DEF g
    <3>3. g[1] \in (i + 1)..(Len(seg) + 2)
      BY <1>1, <3>1
    <3>4. g[1] \in T
      BY <1>2, <3>3
    <3>5. there[<<n + g[1], g[2]>>] = here[g]
      BY <3>1, <3>4
    <3> HIDE DEF n, whole, there, here
    <3>6. QED
      BY <2>2, <2>5, <2>7, <3>2, <3>5 DEF g
  <2>8. QED
    BY <2>6, <2>7
<1>3. \A i \in 1..(Len(seg) + 2) : i \in T
  <2> HIDE DEF T
  <2>1. 1 \in Nat /\ Len(seg) + 2 \in Nat
    BY <1>1
  <2>2. QED
    BY <1>2, <2>1, FromTheEnd
<1>4. QED
  BY <1>3

\* A segment begins with a program, after assignments, and not with an option.
ProgramFirst(seg) ==
  \A i \in DOMAIN seg : seg[i] \in Options => \E j \in 1..(i - 1) : seg[j] \notin Assignments

\* Then the wrapper in front makes no difference, but for timeout, which takes a word.
LEMMA AnyMode ==
  ASSUME NEW S, NEW seg \in Seq(S), ProgramFirst(seg), NEW mode \in Modes, mode # "timeout"
  PROVE  ExecutableFrom(seg)[<<1, mode>>] = ExecutableFrom(seg)[<<1, "none">>]
<1> DEFINE scan == ExecutableFrom(seg)
           Leading(i) == \A j \in 1..(i - 1) : seg[j] \in Assignments
           T == {i \in Nat : Leading(i) => scan[<<i, mode>>] = scan[<<i, "none">>]}
<1>1. Len(seg) \in Nat /\ DOMAIN seg = 1..Len(seg) /\ "none" \in Modes
  BY DEF Modes
<1>2. ASSUME NEW i \in 1..(Len(seg) + 2), \A k \in (i + 1)..(Len(seg) + 2) : k \in T
      PROVE  i \in T
  <2>1. SUFFICES ASSUME Leading(i) PROVE scan[<<i, mode>>] = scan[<<i, "none">>]
    BY <1>1
  <2>2. /\ scan[<<i, mode>>] = IF Ends(seg, i, mode) THEN IF i > Len(seg) THEN None ELSE seg[i]
                                 ELSE scan[GoesOn(seg, i, mode)]
        /\ scan[<<i, "none">>] =
             IF Ends(seg, i, "none") THEN IF i > Len(seg) THEN None ELSE seg[i]
               ELSE scan[GoesOn(seg, i, "none")]
    BY <1>1, ScanIs
  <2>3. CASE i > Len(seg)
    <3>1. Ends(seg, i, mode) /\ Ends(seg, i, "none")
      BY <2>3 DEF Ends
    <3> HIDE DEF scan
    <3>2. QED
      BY <2>2, <2>3, <3>1
  <2>4. CASE ~(i > Len(seg)) /\ seg[i] \in Assignments
    <3>1. ~Ends(seg, i, mode) /\ ~Ends(seg, i, "none")
      BY <2>4 DEF Ends
    <3>2. GoesOn(seg, i, mode) = <<i + 1, mode>> /\ GoesOn(seg, i, "none") = <<i + 1, "none">>
      BY <2>4 DEF GoesOn
    <3>3. Leading(i + 1) /\ i + 1 \in (i + 1)..(Len(seg) + 2)
      BY <1>1, <2>1, <2>4
    <3>4. i + 1 \in T
      BY <1>2, <3>3
    <3>5. scan[<<i + 1, mode>>] = scan[<<i + 1, "none">>]
      BY <3>3, <3>4
    <3> HIDE DEF scan
    <3>6. QED
      BY <2>2, <3>1, <3>2, <3>5
  <2>5. CASE ~(i > Len(seg)) /\ seg[i] \notin Assignments
    <3>1. i \in DOMAIN seg /\ seg[i] \notin Options
      BY <1>1, <2>1, <2>5 DEF ProgramFirst
    <3>2. Ends(seg, i, mode) <=> Ends(seg, i, "none")
      BY <3>1 DEF Ends
    <3>3. GoesOn(seg, i, mode) = GoesOn(seg, i, "none")
      BY <2>5, <3>1 DEF GoesOn
    <3> HIDE DEF scan
    <3>4. QED
      BY <2>2, <3>2, <3>3
  <2>6. QED
    BY <2>3, <2>4, <2>5
<1>3. \A i \in 1..(Len(seg) + 2) : i \in T
  <2> HIDE DEF T
  <2>1. 1 \in Nat /\ Len(seg) + 2 \in Nat
    BY <1>1
  <2>2. QED
    BY <1>2, <2>1, FromTheEnd
<1>4. 1 \in T /\ Leading(1)
  <2>1. 1 \in 1..(Len(seg) + 2)
    BY <1>1
  <2>2. 1 \in T
    <3> HIDE DEF T
    <3>1. QED
      BY <1>3, <2>1
  <2>3. QED
    BY <2>2
<1>5. QED
  BY <1>4

\* One step of reading.
LEMMA ScanStepsTo ==
  ASSUME NEW S, NEW seg \in Seq(S), NEW i \in 1..Len(seg), NEW mode \in Modes,
         ~Ends(seg, i, mode)
  PROVE  ExecutableFrom(seg)[<<i, mode>>] = ExecutableFrom(seg)[GoesOn(seg, i, mode)]
<1>1. i \in 1..(Len(seg) + 2)
  OBVIOUS
<1>2. QED
  BY <1>1, ScanIs

\* What the words of the prefixes are.
LEMMA PrefixWords ==
  /\ Modes = {"env", "sudo", "timeout", "nice", "none"}
  /\ {"env", "sudo", "timeout", "nice"} \subseteq Wrappers \ (Options \cup Assignments)
  /\ {"nohup", "command"} \subseteq PlainWrappers \ (Wrappers \cup Options \cup Assignments)
  /\ {"10", "5"} \cap (Options \cup Assignments) = {}
  /\ {"-u", "-n", "-k", "-v"} \subseteq Options \ Assignments
  /\ "A=1" \in Assignments
  /\ "-u" \in ValueOptions["env"] /\ "-u" \in ValueOptions["sudo"]
  /\ "-k" \in ValueOptions["timeout"] /\ "-n" \in ValueOptions["nice"]
BY DEF Modes, Wrappers, PlainWrappers, Options, Assignments, ValueOptions

\* The words of the prefixes.
PrefixVocabulary ==
  {"env", "-u", "HOME", "sudo", "ros", "timeout", "-k", "5", "10", "nice", "-n", "nohup",
   "A=1", "command", "-v"}

LEMMA PrefixesAre ==
  ASSUME NEW prefix \in WrapperPrefixes
  PROVE  prefix \in Seq(PrefixVocabulary) /\ Len(prefix) > 0
<1>1. PICK p : p = prefix
  OBVIOUS
<1>2. SUFFICES p \in Seq(PrefixVocabulary) /\ Len(p) > 0
  BY <1>1
<1>3. CASE p = <<"env", "-u", "HOME">>
  BY <1>3 DEF PrefixVocabulary
<1>4. CASE p = <<"sudo", "-u", "ros">>
  BY <1>4 DEF PrefixVocabulary
<1>5. CASE p = <<"timeout", "-k", "5", "10">>
  BY <1>5 DEF PrefixVocabulary
<1>6. CASE p = <<"nice", "-n", "5">>
  BY <1>6 DEF PrefixVocabulary
<1>7. CASE p = <<"nohup">>
  BY <1>7 DEF PrefixVocabulary
<1>8. CASE p = <<"A=1", "env">>
  BY <1>8 DEF PrefixVocabulary
<1>9. CASE p = <<"sudo", "nice", "-n", "5">>
  BY <1>9 DEF PrefixVocabulary
<1>10. CASE p = <<"timeout", "10", "env", "A=1">>
  BY <1>10 DEF PrefixVocabulary
<1>11. CASE p = <<"command", "-v">>
  BY <1>11 DEF PrefixVocabulary
<1>12. QED
  BY <1>1, <1>3, <1>4, <1>5, <1>6, <1>7, <1>8, <1>9, <1>10, <1>11 DEF WrapperPrefixes

\* Reading a segment behind a prefix goes on at the segment's first word.
LEMMA PrefixSkips ==
  ASSUME NEW S, NEW seg \in Seq(S), seg # <<>>, seg[1] \notin Options, PrefixVocabulary \subseteq S,
         NEW prefix \in WrapperPrefixes
  PROVE  \E m \in Modes \ {"timeout"} :
           ExecutableFrom(prefix \o seg)[<<1, "none">>]
             = ExecutableFrom(prefix \o seg)[<<Len(prefix) + 1, m>>]
<1> DEFINE n == Len(prefix)
           whole == prefix \o seg
           scan == ExecutableFrom(whole)
           P(i, m) == scan[<<1, "none">>] = scan[<<i, m>>]
<1>1. prefix \in Seq(S) /\ n \in Nat /\ n > 0
  BY PrefixesAre
<1>2. /\ whole \in Seq(S) /\ Len(whole) = n + Len(seg) /\ Len(seg) \in Nat /\ Len(seg) > 0
      /\ \A i \in 1..n : whole[i] = prefix[i]
      /\ whole[n + 1] = seg[1]
  <2>1. Len(seg) \in Nat /\ Len(seg) > 0 /\ 1 \in 1..Len(seg)
    OBVIOUS
  <2>2. QED
    BY <1>1, <2>1, Behind
<1>3. ASSUME NEW i \in 1..n
      PROVE  whole \in Seq(S) /\ i \in 1..Len(whole) /\ i < Len(whole)
  BY <1>1, <1>2
<1> HIDE DEF n, whole
<1>4. ASSUME NEW i \in 1..n, NEW m \in Modes, P(i, m), ~Ends(whole, i, m),
             NEW j, NEW k, GoesOn(whole, i, m) = <<j, k>>
      PROVE  P(j, k)
  <2>1. whole \in Seq(S) /\ i \in 1..Len(whole)
    BY <1>3
  <2>2. ExecutableFrom(whole)[<<i, m>>] = ExecutableFrom(whole)[GoesOn(whole, i, m)]
    BY <1>4, <2>1, ScanStepsTo
  <2>3. QED
    BY <1>4, <2>2
<1>5. P(1, "none")
  OBVIOUS
<1>6. SUFFICES \E m \in Modes \ {"timeout"} : P(n + 1, m)
  BY DEF n, whole
<1> HIDE DEF P
<1>7. ASSUME NEW i \in 1..n, NEW m \in Modes, whole[i] \in Assignments, P(i, m)
      PROVE  P(i + 1, m)
  <2>1. ~Ends(whole, i, m) /\ GoesOn(whole, i, m) = <<i + 1, m>>
    BY <1>3, <1>7 DEF Ends, GoesOn
  <2>2. QED
    BY <1>4, <1>7, <2>1
<1>8. ASSUME NEW i \in 1..n, NEW m \in Modes \ {"none"}, P(i, m),
             whole[i] \in Options \ Assignments, whole[i] \in ValueOptions[m]
      PROVE  P(i + 2, m)
  <2>1. ~Ends(whole, i, m) /\ GoesOn(whole, i, m) = <<i + 2, m>>
    BY <1>3, <1>8 DEF Ends, GoesOn
  <2>2. QED
    BY <1>4, <1>8, <2>1
<1>9. ASSUME NEW i \in 1..n, whole[i] \notin Options \cup Assignments, P(i, "timeout")
      PROVE  P(i + 1, "none")
  <2>1. /\ ~Ends(whole, i, "timeout") /\ GoesOn(whole, i, "timeout") = <<i + 1, "none">>
        /\ "timeout" \in Modes
    BY <1>3, <1>9, PrefixWords DEF Ends, GoesOn
  <2>2. QED
    BY <1>4, <1>9, <2>1
<1>10. ASSUME NEW i \in 1..n, NEW m \in Modes \ {"timeout"}, P(i, m), NEW w, whole[i] = w,
              w \in Wrappers \ (Options \cup Assignments)
       PROVE  P(i + 1, w)
  <2>1. ~Ends(whole, i, m) /\ GoesOn(whole, i, m) = <<i + 1, w>>
    BY <1>3, <1>10 DEF Ends, GoesOn
  <2>2. QED
    BY <1>4, <1>10, <2>1
<1>11. ASSUME NEW i \in 1..n, P(i, "none"), NEW j, IsPast(whole, i + 1, j),
              whole[i] \in PlainWrappers \ (Wrappers \cup Options \cup Assignments)
       PROVE  P(j, "none")
  <2>1. ~Ends(whole, i, "none") /\ "none" \in Modes
    BY <1>3, <1>11, PrefixWords DEF Ends
  <2>2. i + 1 \in 1..(Len(whole) + 1) /\ Len(whole) \in Nat
    BY <1>1, <1>2
  <2>3. PastOptions(whole, i + 1) = j
    <3> DEFINE from == i + 1
    <3>1. from \in 1..(Len(whole) + 1) /\ IsPast(whole, from, j)
      BY <1>11, <2>2
    <3> HIDE DEF from
    <3>2. PastOptions(whole, from) = j
      BY <2>2, <3>1, PastOne
    <3>3. QED
      BY <3>2 DEF from
  <2>4. GoesOn(whole, i, "none") = <<j, "none">>
    BY <1>11, <2>3 DEF GoesOn
  <2>5. QED
    BY <1>4, <1>11, <2>1, <2>4
<1>12. CASE prefix = <<"env", "-u", "HOME">>
  <2>1. n = 3 /\ whole[1] = "env" /\ whole[2] = "-u" /\ whole[3] = "HOME"
    BY <1>2, <1>12 DEF n
  <2>2. P(2, "env")
    BY <1>10, <2>1, <1>5, PrefixWords
  <2>3. P(4, "env")
    BY <1>8, <2>1, <2>2, PrefixWords
  <2>4. QED
    BY <2>1, <2>3, PrefixWords
<1>13. CASE prefix = <<"sudo", "-u", "ros">>
  <2>1. n = 3 /\ whole[1] = "sudo" /\ whole[2] = "-u" /\ whole[3] = "ros"
    BY <1>2, <1>13 DEF n
  <2>2. P(2, "sudo")
    BY <1>10, <2>1, <1>5, PrefixWords
  <2>3. P(4, "sudo")
    BY <1>8, <2>1, <2>2, PrefixWords
  <2>4. QED
    BY <2>1, <2>3, PrefixWords
<1>14. CASE prefix = <<"timeout", "-k", "5", "10">>
  <2>1. n = 4 /\ whole[1] = "timeout" /\ whole[2] = "-k" /\ whole[3] = "5" /\ whole[4] = "10"
    BY <1>2, <1>14 DEF n
  <2>2. P(2, "timeout")
    BY <1>10, <2>1, <1>5, PrefixWords
  <2>3. P(4, "timeout")
    BY <1>8, <2>1, <2>2, PrefixWords
  <2>4. P(5, "none")
    BY <1>9, <2>1, <2>3, PrefixWords
  <2>5. QED
    BY <2>1, <2>4, PrefixWords
<1>15. CASE prefix = <<"nice", "-n", "5">>
  <2>1. n = 3 /\ whole[1] = "nice" /\ whole[2] = "-n" /\ whole[3] = "5"
    BY <1>2, <1>15 DEF n
  <2>2. P(2, "nice")
    BY <1>10, <2>1, <1>5, PrefixWords
  <2>3. P(4, "nice")
    BY <1>8, <2>1, <2>2, PrefixWords
  <2>4. QED
    BY <2>1, <2>3, PrefixWords
<1>16. CASE prefix = <<"nohup">>
  <2>1. n = 1 /\ whole[1] = "nohup"
    BY <1>2, <1>16 DEF n
  <2>2. IsPast(whole, 2, 2)
    BY <1>2, <2>1, PrefixWords DEF IsPast
  <2>3. P(2, "none")
    BY <1>11, <2>1, <1>5, <2>2, PrefixWords
  <2>4. QED
    BY <2>1, <2>3, PrefixWords
<1>17. CASE prefix = <<"A=1", "env">>
  <2>1. n = 2 /\ whole[1] = "A=1" /\ whole[2] = "env"
    BY <1>2, <1>17 DEF n
  <2>2. P(2, "none")
    BY <1>7, <2>1, <1>5, PrefixWords
  <2>3. P(3, "env")
    BY <1>10, <2>1, <2>2, PrefixWords
  <2>4. QED
    BY <2>1, <2>3, PrefixWords
<1>18. CASE prefix = <<"sudo", "nice", "-n", "5">>
  <2>1. n = 4 /\ whole[1] = "sudo" /\ whole[2] = "nice" /\ whole[3] = "-n" /\ whole[4] = "5"
    BY <1>2, <1>18 DEF n
  <2>2. P(2, "sudo")
    BY <1>10, <2>1, <1>5, PrefixWords
  <2>3. P(3, "nice")
    BY <1>10, <2>1, <2>2, PrefixWords
  <2>4. P(5, "nice")
    BY <1>8, <2>1, <2>3, PrefixWords
  <2>5. QED
    BY <2>1, <2>4, PrefixWords
<1>19. CASE prefix = <<"timeout", "10", "env", "A=1">>
  <2>1. n = 4 /\ whole[1] = "timeout" /\ whole[2] = "10" /\ whole[3] = "env" /\ whole[4] = "A=1"
    BY <1>2, <1>19 DEF n
  <2>2. P(2, "timeout")
    BY <1>10, <2>1, <1>5, PrefixWords
  <2>3. P(3, "none")
    BY <1>9, <2>1, <2>2, PrefixWords
  <2>4. P(4, "env")
    BY <1>10, <2>1, <2>3, PrefixWords
  <2>5. P(5, "env")
    BY <1>7, <2>1, <2>4, PrefixWords
  <2>6. QED
    BY <2>1, <2>5, PrefixWords
<1>20. CASE prefix = <<"command", "-v">>
  <2>1. n = 2 /\ whole[1] = "command" /\ whole[2] = "-v"
    BY <1>2, <1>20 DEF n
  <2>2. IsPast(whole, 2, 3)
    BY <1>2, <2>1, PrefixWords DEF IsPast
  <2>3. P(3, "none")
    BY <1>11, <2>1, <1>5, <2>2, PrefixWords
  <2>4. QED
    BY <2>1, <2>3, PrefixWords
<1>21. QED
  BY <1>12, <1>13, <1>14, <1>15, <1>16, <1>17, <1>18, <1>19, <1>20 DEF WrapperPrefixes

\* A prefix does not change which program a segment runs.
LEMMA SameProgram ==
  ASSUME NEW S, NEW seg \in Seq(S), seg # <<>>, ProgramFirst(seg), NEW prefix \in WrapperPrefixes
  PROVE  FirstExecutable(prefix \o seg) = FirstExecutable(seg)
<1> DEFINE T == S \cup PrefixVocabulary
<1>1. /\ seg \in Seq(T) /\ prefix \in Seq(T) /\ PrefixVocabulary \subseteq T
      /\ Len(seg) \in Nat /\ Len(seg) > 0 /\ DOMAIN seg = 1..Len(seg) /\ Len(prefix) \in Nat
  <2>1. seg \in Seq(T) /\ Len(seg) \in Nat /\ Len(seg) > 0 /\ DOMAIN seg = 1..Len(seg)
    OBVIOUS
  <2>2. prefix \in Seq(PrefixVocabulary)
    BY PrefixesAre
  <2>3. prefix \in Seq(T) /\ Len(prefix) \in Nat
    BY <2>2
  <2>4. QED
    BY <2>1, <2>3
<1>2. seg[1] \notin Options
  <2>1. 1 \in DOMAIN seg /\ 1..(1 - 1) = {}
    BY <1>1
  <2>2. QED
    BY <2>1 DEF ProgramFirst
<1> HIDE DEF T
<1>3. PICK m \in Modes \ {"timeout"} :
        ExecutableFrom(prefix \o seg)[<<1, "none">>]
          = ExecutableFrom(prefix \o seg)[<<Len(prefix) + 1, m>>]
  BY <1>1, <1>2, PrefixSkips
<1>4. ExecutableFrom(prefix \o seg)[<<Len(prefix) + 1, m>>] = ExecutableFrom(seg)[<<1, m>>]
  <2>1. 1 \in 1..(Len(seg) + 2) /\ m \in Modes
    BY <1>1
  <2>2. QED
    BY <1>1, <2>1, ScanBehind
<1>5. ExecutableFrom(seg)[<<1, m>>] = ExecutableFrom(seg)[<<1, "none">>]
  <2>1. m \in Modes /\ m # "timeout"
    OBVIOUS
  <2>2. QED
    BY <1>1, <2>1, AnyMode
<1>6. QED
  BY <1>3, <1>4, <1>5 DEF FirstExecutable

\* The program of a segment is one of its words.
LEMMA ProgramIsWord ==
  ASSUME NEW S, NEW seg \in Seq(S)
  PROVE  FirstExecutable(seg) \in {seg[i] : i \in DOMAIN seg} \cup {None}
<1> DEFINE W == {seg[i] : i \in DOMAIN seg}
<1>1. /\ seg \in Seq(W) /\ 1 \in 1..(Len(seg) + 2) /\ "none" \in Modes
  BY DEF Modes
<1> HIDE DEF W
<1>2. ExecutableFrom(seg)[<<1, "none">>] \in W \cup {None}
  BY <1>1, ScanIs
<1>3. QED
  BY <1>2 DEF FirstExecutable, W

-----------------------------------------------------------------------------
(* The words of a subcommand                                               *)

\* What SubcommandWords computes.
LEMMA WordsAre ==
  ASSUME NEW S, NEW seg \in Seq(S), NEW i \in 1..(Len(seg) + 2)
  PROVE  SubcommandWords(seg)[i] =
           IF i > Len(seg) \/ (i \in DOMAIN seg /\ seg[i] = "--") THEN <<>>
           ELSE IF seg[i] \in {"-w", "-d"} THEN SubcommandWords(seg)[i + 2]
           ELSE IF seg[i] \in Options THEN SubcommandWords(seg)[i + 1]
           ELSE <<seg[i]>> \o SubcommandWords(seg)[i + 1]
<1> DEFINE D == 1..(Len(seg) + 2)
           V == Seq(S)
           base == {n \in D : n > Len(seg) \/ (n \in DOMAIN seg /\ seg[n] = "--")}
           first == [n \in D |-> <<>>]
           next == [n \in D |-> IF n \in base THEN n
                                ELSE IF seg[n] \in {"-w", "-d"} THEN n + 2 ELSE n + 1]
           add(n, v) == IF seg[n] \in {"-w", "-d"} \cup Options THEN v ELSE <<seg[n]>> \o v
           step == [x \in D \X V |-> IF x[1] \in base THEN x[2] ELSE add(x[1], x[2])]
           rank == [n \in D |-> Len(seg) + 2 - n]
           body(f, n) ==
             IF n > Len(seg) \/ (n \in DOMAIN seg /\ seg[n] = "--") THEN <<>>
             ELSE IF seg[n] \in {"-w", "-d"} THEN f[n + 2]
             ELSE IF seg[n] \in Options THEN f[n + 1]
             ELSE <<seg[n]>> \o f[n + 1]
<1>1. /\ Len(seg) \in Nat /\ Len(seg) + 3 \in Nat /\ \A n \in 1..Len(seg) : seg[n] \in S
      /\ DOMAIN seg = 1..Len(seg)
  OBVIOUS
<1>2. \A n \in D : n \notin base => n \in 1..Len(seg) /\ n + 1 \in D /\ n + 2 \in D
  BY <1>1
<1>3. /\ first \in [D -> V] /\ next \in [D -> D]
      /\ step \in [D \X V -> V] /\ rank \in [D -> Nat]
  <2>1. first \in [D -> V]
    <3>1. <<>> \in V
      OBVIOUS
    <3>2. QED
      BY <3>1
  <2>2. next \in [D -> D]
    BY <1>2
  <2>3. step \in [D \X V -> V]
    <3>1. \A n \in D, v \in V : n \notin base => add(n, v) \in V
      <4>1. SUFFICES ASSUME NEW n \in D, NEW v \in V, n \notin base PROVE add(n, v) \in V
        OBVIOUS
      <4>2. seg[n] \in S
        BY <1>1, <1>2, <4>1
      <4>3. <<seg[n]>> \o v \in V
        BY <4>2
      <4>4. QED
        BY <4>3
    <3>2. \A x \in D \X V : x[1] \in D /\ x[2] \in V
      OBVIOUS
    <3> HIDE DEF D, V, base, add
    <3>3. \A x \in D \X V : (IF x[1] \in base THEN x[2] ELSE add(x[1], x[2])) \in V
      BY <3>1, <3>2
    <3>4. QED
      BY <3>3
  <2>4. rank \in [D -> Nat]
    BY <1>1
  <2>5. QED
    BY <2>1, <2>2, <2>3, <2>4
<1>4. \A n \in D : rank[n] < Len(seg) + 3 /\ (n \notin base => rank[next[n]] < rank[n])
  <2>1. SUFFICES ASSUME NEW n \in D
                 PROVE  rank[n] < Len(seg) + 3 /\ (n \notin base => rank[next[n]] < rank[n])
    OBVIOUS
  <2>2. rank[n] = Len(seg) + 2 - n /\ rank[n] < Len(seg) + 3 /\ n \in Nat
    BY <1>1
  <2>3. ASSUME n \notin base PROVE rank[next[n]] < rank[n]
    <3>1. next[n] \in D /\ next[n] > n
      BY <1>2, <2>3
    <3>2. rank[next[n]] = Len(seg) + 2 - next[n]
      BY <3>1
    <3> HIDE DEF rank, next
    <3>3. QED
      BY <1>1, <2>2, <3>1, <3>2
  <2>4. QED
    BY <2>2, <2>3
<1>5. PICK f \in [D -> V] : Solves(f, D, base, first, next, step)
  <2> HIDE DEF D, V, base, first, next, step, rank
  <2>1. Len(seg) + 3 \in Nat
    BY <1>1
  <2>2. QED
    BY <1>3, <1>4, <2>1, Recursion
<1>6. f = [n \in D |-> body(f, n)]
  <2>1. f = [n \in D |-> IF n \in base THEN first[n] ELSE step[<<n, f[next[n]]>>]]
    BY <1>5 DEF Solves
  <2>2. \A n \in D : (IF n \in base THEN first[n] ELSE step[<<n, f[next[n]]>>]) = body(f, n)
    <3>1. SUFFICES ASSUME NEW n \in D
                   PROVE (IF n \in base THEN first[n] ELSE step[<<n, f[next[n]]>>]) = body(f, n)
      OBVIOUS
    <3>2. CASE n \in base
      BY <3>2
    <3>3. CASE n \notin base
      <4>1. next[n] \in D /\ next[n] = IF seg[n] \in {"-w", "-d"} THEN n + 2 ELSE n + 1
        BY <1>2, <3>3
      <4>2. f[next[n]] \in V
        BY <4>1
      <4>3. step[<<n, f[next[n]]>>] = add(n, f[next[n]])
        <5> DEFINE v == f[next[n]]
        <5>1. v \in V
          BY <4>2
        <5> HIDE DEF v, D, V, base, add
        <5>2. step[<<n, v>>] = add(n, v)
          BY <3>3, <5>1
        <5>3. QED
          BY <5>2 DEF v
      <4>4. body(f, n) = add(n, f[next[n]])
        <5>1. ~(n > Len(seg) \/ (n \in DOMAIN seg /\ seg[n] = "--"))
          BY <3>3
        <5> HIDE DEF next
        <5>2. CASE seg[n] \in {"-w", "-d"}
          BY <4>1, <5>1, <5>2
        <5>3. CASE seg[n] \notin {"-w", "-d"}
          BY <4>1, <5>1, <5>3
        <5>4. QED
          BY <5>2, <5>3
      <4> HIDE DEF body, add, step, next, base
      <4>5. QED
        BY <3>3, <4>3, <4>4
    <3>4. QED
      BY <3>2, <3>3
  <2> HIDE DEF D, base, first, step, next, body
  <2>3. QED
    BY <2>1, <2>2
<1> DEFINE words == CHOOSE g : g = [n \in D |-> body(g, n)]
<1>7. SubcommandWords(seg) = words
  BY DEF SubcommandWords
<1>8. words = [n \in D |-> body(words, n)]
  <2> HIDE DEF D, body
  <2>1. QED
    BY <1>6, Zenon
<1> HIDE DEF words
<1>9. words[i] = body(words, i)
  <2> HIDE DEF body
  <2>1. QED
    BY <1>8
<1>10. QED
  BY <1>7, <1>9

\* Words in front of a segment do not change what is read behind them.
LEMMA WordsBehind ==
  ASSUME NEW S, NEW prefix \in Seq(S), NEW seg \in Seq(S)
  PROVE  \A i \in 1..(Len(seg) + 2) :
           SubcommandWords(prefix \o seg)[Len(prefix) + i] = SubcommandWords(seg)[i]
<1> DEFINE n == Len(prefix)
           whole == prefix \o seg
           there == SubcommandWords(whole)
           here == SubcommandWords(seg)
           T == {i \in Nat : there[n + i] = here[i]}
<1>1. /\ n \in Nat /\ Len(seg) \in Nat /\ Len(whole) = n + Len(seg) /\ whole \in Seq(S)
      /\ \A k \in 1..Len(seg) : whole[n + k] = seg[k]
      /\ DOMAIN whole = 1..Len(whole) /\ DOMAIN seg = 1..Len(seg)
  <2>1. /\ n \in Nat /\ Len(seg) \in Nat /\ Len(whole) = n + Len(seg) /\ whole \in Seq(S)
        /\ \A k \in 1..Len(seg) : whole[n + k] = seg[k]
    BY Behind
  <2> HIDE DEF whole
  <2>2. QED
    BY <2>1
<1>2. ASSUME NEW i \in 1..(Len(seg) + 2), \A k \in (i + 1)..(Len(seg) + 2) : k \in T
      PROVE  i \in T
  <2>1. here[i] =
           IF i > Len(seg) \/ (i \in DOMAIN seg /\ seg[i] = "--") THEN <<>>
           ELSE IF seg[i] \in {"-w", "-d"} THEN here[i + 2]
           ELSE IF seg[i] \in Options THEN here[i + 1]
           ELSE <<seg[i]>> \o here[i + 1]
    BY WordsAre
  <2> DEFINE at == n + i
  <2>2. at \in 1..(Len(whole) + 2) /\ (at > Len(whole) <=> i > Len(seg))
    BY <1>1
  <2>3. there[at] =
           IF at > Len(whole) \/ (at \in DOMAIN whole /\ whole[at] = "--") THEN <<>>
           ELSE IF whole[at] \in {"-w", "-d"} THEN there[at + 2]
           ELSE IF whole[at] \in Options THEN there[at + 1]
           ELSE <<whole[at]>> \o there[at + 1]
    <3> HIDE DEF at, whole
    <3>1. QED
      BY <1>1, <2>2, WordsAre
  <2>4. at + 1 = n + (i + 1) /\ at + 2 = n + (i + 2)
    BY <1>1
  <2>5. i \in Nat
    BY <1>1
  <2>6. CASE i > Len(seg)
    <3> HIDE DEF there, here, whole
    <3>1. there[at] = <<>> /\ here[i] = <<>>
      BY <2>1, <2>2, <2>3, <2>6
    <3>2. QED
      BY <2>5, <3>1
  <2>7. CASE ~(i > Len(seg))
    <3>1. /\ i \in 1..Len(seg) /\ whole[at] = seg[i] /\ i \in DOMAIN seg /\ at \in DOMAIN whole
          /\ i + 1 \in (i + 1)..(Len(seg) + 2) /\ i + 2 \in (i + 1)..(Len(seg) + 2)
      BY <1>1, <2>2, <2>7
    <3>2. i + 1 \in T /\ i + 2 \in T
      <4> HIDE DEF T
      <4>1. QED
        BY <1>2, <3>1
    <3>3. there[at + 1] = here[i + 1] /\ there[at + 2] = here[i + 2]
      BY <2>4, <3>2
    <3> HIDE DEF there, here, whole, at
    <3>4. there[at] = here[i]
      <4>1. CASE seg[i] = "--"
        BY <2>1, <2>2, <2>3, <3>1, <4>1
      <4>2. CASE seg[i] # "--" /\ seg[i] \in {"-w", "-d"}
        BY <2>1, <2>2, <2>3, <2>7, <3>1, <3>3, <4>2
      <4>3. CASE seg[i] # "--" /\ seg[i] \notin {"-w", "-d"} /\ seg[i] \in Options
        BY <2>1, <2>2, <2>3, <2>7, <3>1, <3>3, <4>3
      <4>4. CASE seg[i] # "--" /\ seg[i] \notin {"-w", "-d"} /\ seg[i] \notin Options
        BY <2>1, <2>2, <2>3, <2>7, <3>1, <3>3, <4>4
      <4>5. QED
        BY <4>1, <4>2, <4>3, <4>4
    <3>5. QED
      BY <2>5, <3>4 DEF at
  <2>8. QED
    BY <2>6, <2>7
<1>3. \A i \in 1..(Len(seg) + 2) : i \in T
  <2> HIDE DEF T
  <2>1. 1 \in Nat /\ Len(seg) + 2 \in Nat
    BY <1>1
  <2>2. QED
    BY <1>2, <2>1, FromTheEnd
<1>4. QED
  BY <1>3

\* The subcommand of a segment that names the harness is read behind that name.
LEMMA SameTokens ==
  ASSUME NEW S, NEW prefix \in Seq(S), NEW seg \in Seq(S),
         \A i \in 1..Len(prefix) : prefix[i] # "ros-maintainer-harness",
         NEW named \in DOMAIN seg, seg[named] = "ros-maintainer-harness"
  PROVE  SubcommandTokens(prefix \o seg) = SubcommandTokens(seg)
<1> DEFINE n == Len(prefix)
           whole == prefix \o seg
           First(s, i) == /\ s[i] = "ros-maintainer-harness"
                          /\ \A j \in 1..(i - 1) : s[j] # "ros-maintainer-harness"
           here == CHOOSE i \in DOMAIN seg : First(seg, i)
           there == CHOOSE i \in DOMAIN whole : First(whole, i)
<1>1. /\ n \in Nat /\ Len(seg) \in Nat /\ Len(whole) = n + Len(seg) /\ whole \in Seq(S)
      /\ \A k \in 1..n : whole[k] = prefix[k]
      /\ \A k \in 1..Len(seg) : whole[n + k] = seg[k]
      /\ DOMAIN whole = 1..Len(whole) /\ DOMAIN seg = 1..Len(seg)
  <2>1. /\ n \in Nat /\ Len(seg) \in Nat /\ Len(whole) = n + Len(seg) /\ whole \in Seq(S)
        /\ \A k \in 1..n : whole[k] = prefix[k]
        /\ \A k \in 1..Len(seg) : whole[n + k] = seg[k]
    BY Behind
  <2> HIDE DEF whole
  <2>2. QED
    BY <2>1
<1>2. here \in DOMAIN seg /\ First(seg, here)
  <2> DEFINE T == {i \in DOMAIN seg : seg[i] = "ros-maintainer-harness"}
  <2>1. T \in SUBSET Nat /\ T # {}
    BY <1>1
  <2>2. PICK i \in T : \A j \in T : i <= j
    <3> HIDE DEF T
    <3>1. QED
      BY <2>1, Least
  <2>3. ASSUME NEW j \in 1..(i - 1) PROVE seg[j] # "ros-maintainer-harness"
    <3>1. j \in DOMAIN seg /\ ~(i <= j)
      BY <1>1, <2>2, <2>3
    <3>2. QED
      BY <2>2, <3>1
  <2>4. i \in DOMAIN seg /\ First(seg, i)
    BY <2>2, <2>3
  <2> HIDE DEF First
  <2>5. QED
    BY <2>4, Zenon
<1> HIDE DEF whole, here, n
<1>3. n + here \in DOMAIN whole /\ First(whole, n + here)
  <2>1. here \in 1..Len(seg) /\ n + here \in DOMAIN whole /\ whole[n + here] = seg[here]
    BY <1>1, <1>2
  <2>2. ASSUME NEW j \in 1..((n + here) - 1) PROVE whole[j] # "ros-maintainer-harness"
    <3>1. CASE j <= n
      <4>1. j \in 1..n /\ whole[j] = prefix[j]
        BY <1>1, <3>1
      <4>2. QED
        BY <4>1 DEF n
    <3>2. CASE ~(j <= n)
      <4>1. j - n \in 1..(here - 1) /\ j - n \in 1..Len(seg) /\ n + (j - n) = j
        BY <1>1, <2>1, <3>2
      <4>2. whole[n + (j - n)] = seg[j - n]
        BY <1>1, <4>1
      <4>3. QED
        BY <1>2, <4>1, <4>2
    <3>3. QED
      BY <3>1, <3>2
  <2>3. QED
    BY <1>2, <2>1, <2>2
<1>4. there \in DOMAIN whole /\ First(whole, there)
  <2> HIDE DEF First
  <2>1. QED
    BY <1>3, Zenon
<1> HIDE DEF there
<1>5. there = n + here
  <2>1. there \in Nat /\ n + here \in Nat /\ there >= 1 /\ n + here >= 1
    BY <1>1, <1>3, <1>4
  <2> DEFINE at == n + here
  <2>2. First(whole, at) /\ at \in Nat /\ at >= 1
    BY <1>3, <2>1
  <2> HIDE DEF at
  <2>3. ~(there < at)
    <3>1. there < at => there \in 1..(at - 1)
      BY <2>1, <2>2
    <3>2. QED
      BY <1>4, <2>2, <3>1
  <2>4. ~(at < there)
    <3>1. at < there => at \in 1..(there - 1)
      BY <2>1, <2>2
    <3>2. QED
      BY <1>4, <2>2, <3>1
  <2>5. there = at
    BY <2>1, <2>2, <2>3, <2>4
  <2>6. QED
    BY <2>5 DEF at
<1>6. SubcommandWords(whole)[there + 1] = SubcommandWords(seg)[here + 1]
  <2>1. here + 1 \in 1..(Len(seg) + 2) /\ there + 1 = n + (here + 1)
    BY <1>1, <1>2, <1>5
  <2>2. SubcommandWords(whole)[n + (here + 1)] = SubcommandWords(seg)[here + 1]
    BY <2>1, WordsBehind DEF n, whole
  <2>3. QED
    BY <2>1, <2>2
<1> DEFINE tokens(words) == LET after == words \o <<None, None>> IN <<after[1], after[2]>>
<1>7. SubcommandTokens(seg) = tokens(SubcommandWords(seg)[here + 1])
  BY DEF SubcommandTokens, here
<1>8. SubcommandTokens(whole) = tokens(SubcommandWords(whole)[there + 1])
  BY DEF SubcommandTokens, there
<1>9. SubcommandTokens(whole) = SubcommandTokens(seg)
  <2> HIDE DEF tokens
  <2>1. QED
    BY <1>6, <1>7, <1>8
<1>10. QED
  BY <1>9 DEF whole

-----------------------------------------------------------------------------
(* What a segment mentions                                                 *)

Part(s, i, l) == SubSeq(s, i, i + (l - 1))

LEMMA PartIs ==
  ASSUME NEW S, NEW s \in Seq(S), NEW i \in Nat, NEW l \in Nat, i > 0, l > 0,
         i + (l - 1) <= Len(s)
  PROVE  /\ Part(s, i, l) \in Seq(S) /\ Len(Part(s, i, l)) = l
         /\ \A k \in 1..l : Part(s, i, l)[k] = s[i + (k - 1)]
<1> DEFINE to == i + (l - 1)
<1>1. i \in Int /\ to \in Int /\ to - i + 1 = l /\ i <= to /\ Len(s) \in Nat
  OBVIOUS
<1>2. \A j \in i..to : s[j] \in S
  BY <1>1
<1>3. \A k \in 1..l : i + k - 1 = i + (k - 1)
  OBVIOUS
<1> HIDE DEF to
<1>4. /\ SubSeq(s, i, to) \in Seq(S)
      /\ Len(SubSeq(s, i, to)) = to - i + 1
      /\ \A k \in 1..(to - i + 1) : SubSeq(s, i, to)[k] = s[i + k - 1]
  BY <1>1, <1>2, SubSeqProperties
<1>5. QED
  BY <1>1, <1>3, <1>4 DEF Part, to

\* A prefix mentions nothing that begins with another word.
LEMMA SameMentions ==
  ASSUME NEW S, NEW prefix \in Seq(S), NEW seg \in Seq(S), NEW words, Len(words) \in Nat,
         Len(words) > 0, \A i \in 1..Len(prefix) : prefix[i] # words[1]
  PROVE  Mentions(prefix \o seg, words) <=> Mentions(seg, words)
<1> DEFINE n == Len(prefix)
           whole == prefix \o seg
           l == Len(words)
<1>1. /\ n \in Nat /\ Len(seg) \in Nat /\ Len(whole) = n + Len(seg) /\ whole \in Seq(S)
      /\ \A k \in 1..n : whole[k] = prefix[k]
      /\ \A k \in 1..Len(seg) : whole[n + k] = seg[k]
  BY Behind
<1>2. \A s : Mentions(s, words) <=> \E i \in 1..(Len(s) + 1 - l) : Part(s, i, l) = words
  BY DEF Mentions, Part
<1> HIDE DEF whole, n, l
<1>3. l \in Nat /\ l > 0
  BY DEF l
<1>4. ASSUME NEW i \in 1..(Len(seg) + 1 - l)
      PROVE  /\ n + i \in 1..(Len(whole) + 1 - l)
             /\ Part(whole, n + i, l) = Part(seg, i, l)
  <2> DEFINE at == n + i
  <2>1. /\ at \in 1..(Len(whole) + 1 - l) /\ at \in Nat /\ at > 0 /\ at + (l - 1) <= Len(whole)
        /\ i \in Nat /\ i > 0 /\ i + (l - 1) <= Len(seg)
        /\ \A k \in 1..l : i + (k - 1) \in 1..Len(seg) /\ at + (k - 1) = n + (i + (k - 1))
    BY <1>1, <1>3
  <2> HIDE DEF at
  <2>2. /\ Part(whole, at, l) \in Seq(S) /\ Len(Part(whole, at, l)) = l
        /\ \A k \in 1..l : Part(whole, at, l)[k] = whole[at + (k - 1)]
    BY <1>1, <1>3, <2>1, PartIs
  <2>3. /\ Part(seg, i, l) \in Seq(S) /\ Len(Part(seg, i, l)) = l
        /\ \A k \in 1..l : Part(seg, i, l)[k] = seg[i + (k - 1)]
    BY <1>3, <2>1, PartIs
  <2>4. \A k \in 1..l : Part(whole, at, l)[k] = Part(seg, i, l)[k]
    <3>1. SUFFICES ASSUME NEW k \in 1..l PROVE Part(whole, at, l)[k] = Part(seg, i, l)[k]
      OBVIOUS
    <3> DEFINE j == i + (k - 1)
    <3>2. j \in 1..Len(seg) /\ at + (k - 1) = n + j
      BY <2>1
    <3>3. Part(whole, at, l)[k] = whole[n + j] /\ Part(seg, i, l)[k] = seg[j]
      BY <2>2, <2>3, <3>2
    <3> HIDE DEF j
    <3>4. QED
      BY <1>1, <3>2, <3>3
  <2> DEFINE a == Part(whole, at, l)
             b == Part(seg, i, l)
  <2>5. a \in Seq(S) /\ b \in Seq(S) /\ Len(a) = Len(b) /\ \A k \in 1..Len(a) : a[k] = b[k]
    BY <2>2, <2>3, <2>4
  <2> HIDE DEF a, b
  <2>6. a = b
    BY <2>5, SeqEqual
  <2>7. QED
    BY <2>1, <2>6 DEF a, b, at
<1>5. ASSUME NEW i \in 1..(Len(whole) + 1 - l), Part(whole, i, l) = words
      PROVE  i - n \in 1..(Len(seg) + 1 - l) /\ n + (i - n) = i
  <2>1. i \in Nat /\ i > 0 /\ i + (l - 1) <= Len(whole) /\ 1 \in 1..l /\ i + (1 - 1) = i
    BY <1>1, <1>3
  <2>2. /\ Part(whole, i, l) \in Seq(S) /\ Len(Part(whole, i, l)) = l
        /\ \A k \in 1..l : Part(whole, i, l)[k] = whole[i + (k - 1)]
    <3>1. i \in Nat /\ i > 0 /\ i + (l - 1) <= Len(whole) /\ whole \in Seq(S)
      BY <1>1, <2>1
    <3>2. QED
      BY <1>3, <3>1, PartIs
  <2>3. whole[i] = words[1]
    BY <1>5, <2>1, <2>2
  <2>4. ~(i \in 1..n)
    BY <1>1, <2>3 DEF n
  <2>5. QED
    BY <1>1, <1>3, <2>1, <2>4
<1>6. Mentions(whole, words) <=> Mentions(seg, words)
  <2>1. ASSUME Mentions(whole, words) PROVE Mentions(seg, words)
    <3>1. PICK i \in 1..(Len(whole) + 1 - l) : Part(whole, i, l) = words
      BY <1>2, <2>1
    <3> DEFINE j == i - n
    <3>2. j \in 1..(Len(seg) + 1 - l) /\ n + j = i
      BY <1>5, <3>1
    <3> HIDE DEF j
    <3>3. Part(seg, j, l) = words
      BY <1>4, <3>1, <3>2
    <3>4. QED
      BY <1>2, <3>2, <3>3
  <2>2. ASSUME Mentions(seg, words) PROVE Mentions(whole, words)
    <3>1. PICK i \in 1..(Len(seg) + 1 - l) : Part(seg, i, l) = words
      BY <1>2, <2>2
    <3>2. QED
      BY <1>2, <1>4, <3>1
  <2>3. QED
    BY <2>1, <2>2
<1>7. QED
  BY <1>6 DEF whole

-----------------------------------------------------------------------------
(* The hook.  A command is known by what the hooks have made of it: the    *)
(* agent's own, the same with a PATH in front, or wrapped.                 *)

\* None is neither a command nor an answer: it has no fields.
NoneIsNoRecord == DOMAIN None \cap {"inner", "what"} = {}

\* The text "session exec" is what the hook looks for before it puts a PATH in
\* front of a command, the words are what exempts the command from the checks.
\* The two agree unless options stand between the words.
ExecInOneWord ==
  \A call \in ShellCalls :
    LET cmd == call.cmd
    IN (Len(cmd.segs) = 1 /\ FirstExecutable(cmd.segs[1]) = "ros-maintainer-harness"
          /\ SubcommandTokens(cmd.segs[1]) = <<"session", "exec">>) =>
         Mentions(cmd.segs[1], <<"session", "exec">>)

Prefixed(cmd) == [cmd EXCEPT !.segs = <<PathPrefix>> \o @]

\* The segments of agents and of hooks.
Segments ==
  Seq(STRING) \cup {PathPrefix, <<"rmah-session-exec">>, <<"EOF">>, <<"__EOF__">>,
                   <<"__RMAH_EOF__">>, <<None>>}

\* A command with the fields the hook reads.
Shaped(cmd) ==
  cmd \in [segs : Seq(Segments), live : BOOLEAN, quoted : BOOLEAN, lines : {cmd.lines},
           inner : {cmd.inner}, delim : {cmd.delim}, dir : {cmd.dir}]

\* The program of the two segments the hook writes itself.
LEMMA OwnSegments ==
  ASSUME NEW seg \in {<<"rmah-session-exec">>, PathPrefix}
  PROVE  FirstExecutable(seg) = seg[1]
<1> DEFINE W == {"rmah-session-exec", "export", "PATH=~/.local/bin"}
<1>1. seg[1] \in {"rmah-session-exec", "export"} /\ Len(seg) \in {1, 2} /\ seg \in Seq(W)
  <2>1. CASE seg = <<"rmah-session-exec">>
    BY <2>1
  <2>2. CASE seg = <<"export", "PATH=~/.local/bin">>
    BY <2>2
  <2>3. QED
    BY <2>1, <2>2 DEF PathPrefix
<1> HIDE DEF W
<1>2. seg[1] \notin Assignments \cup Options \cup Wrappers \cup PlainWrappers
  BY <1>1 DEF Wrappers, ValueOptions, Assignments, Options, PlainWrappers
<1>3. Ends(seg, 1, "none") /\ ~(1 > Len(seg)) /\ 1 \in 1..(Len(seg) + 2) /\ "none" \in Modes
  BY <1>1, <1>2 DEF Ends, Modes
<1>4. ExecutableFrom(seg)[<<1, "none">>] = seg[1]
  BY <1>1, <1>3, ScanIs
<1>5. QED
  BY <1>4 DEF FirstExecutable

\* What a rewritten command keeps.
LEMMA PrefixedFields ==
  ASSUME NEW cmd, Shaped(cmd)
  PROVE  /\ Shaped(Prefixed(cmd))
         /\ Prefixed(cmd).segs = <<PathPrefix>> \o cmd.segs
         /\ Prefixed(cmd).live = cmd.live /\ Prefixed(cmd).lines = cmd.lines
         /\ Prefixed(cmd).inner = cmd.inner /\ Prefixed(cmd).delim = cmd.delim
         /\ Len(Prefixed(cmd).segs) = Len(cmd.segs) + 1
         /\ Prefixed(cmd).segs[1] = PathPrefix
         /\ DOMAIN Prefixed(cmd).segs = 1..(Len(cmd.segs) + 1)
         /\ \A i \in DOMAIN cmd.segs : Prefixed(cmd).segs[i + 1] = cmd.segs[i]
<1>1. cmd.segs \in Seq(Segments) /\ PathPrefix \in Segments
  BY DEF Shaped, Segments
<1>2. <<PathPrefix>> \o cmd.segs \in Seq(Segments)
  BY <1>1
<1>3. /\ Prefixed(cmd).segs = <<PathPrefix>> \o cmd.segs
      /\ Prefixed(cmd).live = cmd.live /\ Prefixed(cmd).lines = cmd.lines
      /\ Prefixed(cmd).inner = cmd.inner /\ Prefixed(cmd).delim = cmd.delim
      /\ Shaped(Prefixed(cmd))
  BY <1>2 DEF Prefixed, Shaped
<1> DEFINE segs == cmd.segs
<1>4. /\ Len(<<PathPrefix>> \o segs) = Len(segs) + 1
      /\ (<<PathPrefix>> \o segs)[1] = PathPrefix
      /\ DOMAIN (<<PathPrefix>> \o segs) = 1..(Len(segs) + 1)
      /\ \A i \in DOMAIN segs : (<<PathPrefix>> \o segs)[i + 1] = segs[i]
  <2>1. segs \in Seq(Segments) /\ PathPrefix \in Segments
    BY <1>1
  <2> HIDE DEF segs
  <2>2. QED
    BY <2>1
<1>5. QED
  BY <1>3, <1>4

\* RewriteBareHarness puts a PATH in front, or nothing.
LEMMA RewritesOnce ==
  ASSUME NEW cmd, NEW onPath
  PROVE  \/ RewriteBareHarness(cmd, onPath) = cmd
         \/ /\ RewriteBareHarness(cmd, onPath) = Prefixed(cmd)
            /\ "ros-maintainer-harness" \in Executables(cmd)
            /\ \A i \in DOMAIN cmd.segs : ~Mentions(cmd.segs[i], <<"session", "exec">>)
  BY DEF RewriteBareHarness, Prefixed

\* One word of a segment.
LEMMA OneWord ==
  ASSUME NEW S, NEW seg \in Seq(S), NEW i \in 1..Len(seg)
  PROVE  SubSeq(seg, i, i) = <<seg[i]>>
<1> DEFINE sub == SubSeq(seg, i, i)
           word == <<seg[i]>>
<1>1. sub \in Seq(S) /\ Len(sub) = 1 /\ sub[1] = seg[i]
  BY SubSeqProperties
<1>2. seg[i] \in S
  OBVIOUS
<1>3. word \in Seq(S) /\ Len(word) = 1 /\ word[1] = seg[i]
  BY <1>2
<1> HIDE DEF sub, word
<1>4. sub = word
  BY <1>1, <1>3, SeqEqual
<1>5. QED
  BY <1>4 DEF sub, word

\* A segment mentions the words it consists of, and the hook's own PATH.
LEMMA OwnMentions ==
  /\ Mentions(<<"rmah-session-exec">>, <<"rmah-session-exec">>)
  /\ Mentions(PathPrefix, <<PathPrefix[2]>>)
  /\ ~Mentions(PathPrefix, <<"ci_for_pr.py">>)
  /\ ~Mentions(PathPrefix, <<"gh", "auth", "token">>)
<1> DEFINE exec == <<"rmah-session-exec">>
<1>1. SubSeq(exec, 1, 1) = <<exec[1]>>
  <2>1. exec \in Seq({exec[1]}) /\ 1 \in 1..Len(exec)
    OBVIOUS
  <2> HIDE DEF exec
  <2>2. QED
    BY <2>1, OneWord
<1>2. Mentions(exec, exec)
  BY <1>1 DEF Mentions
<1>3. \A i \in 1..2 : SubSeq(PathPrefix, i, i) = <<PathPrefix[i]>>
  <2>1. PathPrefix \in Seq({PathPrefix[1], PathPrefix[2]}) /\ Len(PathPrefix) = 2
    BY DEF PathPrefix
  <2>2. QED
    BY <2>1, OneWord
<1>4. PathPrefix[1] = "export" /\ PathPrefix[2] = "PATH=~/.local/bin" /\ Len(PathPrefix) = 2
  BY DEF PathPrefix
<1>5. Mentions(PathPrefix, <<PathPrefix[2]>>)
  <2>1. \E i \in 1..(2 + 1 - 1) : SubSeq(PathPrefix, i, i) = <<PathPrefix[2]>>
    BY <1>3
  <2>2. QED
    BY <1>4, <2>1 DEF Mentions
<1>6. ~Mentions(PathPrefix, <<"ci_for_pr.py">>)
  <2>1. SUFFICES ASSUME NEW i \in 1..2, SubSeq(PathPrefix, i, i) = <<"ci_for_pr.py">>
                 PROVE  FALSE
    BY <1>4 DEF Mentions
  <2>2. PathPrefix[i] = "ci_for_pr.py"
    BY <1>3, <2>1
  <2>3. i = 1 \/ i = 2
    OBVIOUS
  <2>4. QED
    BY <1>4, <2>2, <2>3
<1>7. ~Mentions(PathPrefix, <<"gh", "auth", "token">>)
  BY <1>4 DEF Mentions
<1>8. QED
  BY <1>2, <1>5, <1>6, <1>7

\* A command with a PATH in front gets no second one, and stays on the host.
LEMMA PrefixedStays ==
  ASSUME NEW cmd, Shaped(cmd), NEW onPath
  PROVE  /\ RewriteBareHarness(Prefixed(cmd), onPath) = Prefixed(cmd)
         /\ HostPassthrough(cmd) /\ "ros-maintainer-harness" \in Executables(cmd)
              => HostPassthrough(Prefixed(cmd))
<1> DEFINE p == Prefixed(cmd)
<1>1. /\ p.segs[1] = PathPrefix /\ DOMAIN p.segs = 1..(Len(cmd.segs) + 1)
      /\ \A i \in DOMAIN cmd.segs : p.segs[i + 1] = cmd.segs[i]
      /\ p.live = cmd.live /\ p.inner = cmd.inner /\ p.delim = cmd.delim
  BY PrefixedFields
<1>2. Len(cmd.segs) \in Nat /\ DOMAIN cmd.segs = 1..Len(cmd.segs)
  BY DEF Shaped
<1> HIDE DEF p
<1>3. 1 \in DOMAIN p.segs
  BY <1>1, <1>2
<1>4. RewriteBareHarness(p, onPath) = p
  BY <1>1, <1>3, OwnMentions DEF RewriteBareHarness
<1>5. ASSUME HostPassthrough(cmd), "ros-maintainer-harness" \in Executables(cmd)
      PROVE  HostPassthrough(p)
  <2>1. CASE SingleHeredocExec(cmd)
    BY <1>1, <2>1 DEF HostPassthrough, SingleHeredocExec
  <2>2. CASE ~SingleHeredocExec(cmd)
    <3>1. cmd.segs # << >>
      BY <1>2, <1>5 DEF Executables
    <3>2. ~cmd.live /\ Executables(cmd) \subseteq PassthroughBinaries
      BY <1>5, <2>2, <3>1 DEF HostPassthrough
    <3>3. FirstExecutable(PathPrefix) = "export"
      BY OwnSegments DEF PathPrefix
    <3>4. \A i \in DOMAIN p.segs :
            FirstExecutable(p.segs[i]) \in {"export", None} \cup Executables(cmd)
      <4> TAKE i \in DOMAIN p.segs
      <4>1. i = 1 \/ \E j \in DOMAIN cmd.segs : i = j + 1
        <5>1. i \in 1..(Len(cmd.segs) + 1)
          BY <1>1
        <5>2. i = 1 \/ (i - 1 \in 1..Len(cmd.segs) /\ i = (i - 1) + 1)
          BY <1>2, <5>1
        <5>3. QED
          BY <1>2, <5>2
      <4>2. QED
        BY <1>1, <3>3, <4>1 DEF Executables
    <3>5. Executables(p) \subseteq PassthroughBinaries
      BY <3>2, <3>4 DEF Executables, PassthroughBinaries
    <3>6. "ros-maintainer-harness" \in Executables(p)
      <4>1. PICK i \in DOMAIN cmd.segs :
              FirstExecutable(cmd.segs[i]) = "ros-maintainer-harness"
        BY <1>5 DEF Executables
      <4>2. i + 1 \in DOMAIN p.segs /\ p.segs[i + 1] = cmd.segs[i]
        BY <1>1, <1>2
      <4>3. "ros-maintainer-harness" # None
        BY NoneIsNoWord DEF PassthroughBinaries, ControlBinaries
      <4>4. QED
        BY <4>1, <4>2, <4>3 DEF Executables
    <3>7. QED
      BY <1>1, <3>2, <3>5, <3>6 DEF HostPassthrough, ControlBinaries
  <2>3. QED
    BY <2>1, <2>2
<1>6. QED
  BY <1>4, <1>5 DEF p

\* What a command that passes to the host, and is not refused, consists of.
LEMMA HostSegments ==
  ASSUME NEW cmd, Shaped(cmd), HostPassthrough(cmd), cmd.inner = None,
         ~ForbiddenSessionCommand(cmd)
  PROVE  \A i \in DOMAIN cmd.segs : ~ForbiddenSegment(cmd.segs[i])
<1>1. CASE cmd.segs = << >>
  BY <1>1
<1>2. CASE cmd.segs # << >> /\ OnlyExec(cmd)
  <2>1. cmd.segs \in Seq(Segments) /\ Len(cmd.segs) = 1
    BY <1>2 DEF Shaped, OnlyExec
  <2>2. DOMAIN cmd.segs = {1}
    BY <2>1
  <2>3. CASE FirstExecutable(cmd.segs[1]) = "rmah-session-exec"
    BY <2>2, <2>3 DEF ForbiddenSegment
  <2>4. CASE /\ FirstExecutable(cmd.segs[1]) = "ros-maintainer-harness"
             /\ SubcommandTokens(cmd.segs[1]) = <<"session", "exec">>
    <3>1. SubcommandAllowed(cmd.segs[1])
      <4>1. SubcommandTokens(cmd.segs[1])[1] = "session"
            /\ SubcommandTokens(cmd.segs[1])[2] = "exec"
        BY <2>4
      <4>2. "session" \in DOMAIN AllowedSubcommands
            /\ "exec" \in AllowedSubcommands["session"]
        BY DEF AllowedSubcommands
      <4>3. QED
        BY <4>1, <4>2 DEF SubcommandAllowed
    <3>2. QED
      BY <2>2, <2>4, <3>1 DEF ForbiddenSegment
  <2>5. QED
    BY <1>2, <2>3, <2>4 DEF OnlyExec
<1>3. CASE cmd.segs # << >> /\ ~OnlyExec(cmd)
  BY <1>3 DEF ForbiddenSessionCommand, SingleHeredocExec
<1>4. QED
  BY <1>1, <1>2, <1>3

\* A PATH in front makes no segment a forbidden one.
LEMMA PrefixIsAllowed == ~ForbiddenSegment(PathPrefix)
<1>1. FirstExecutable(PathPrefix) = "export"
  BY OwnSegments DEF PathPrefix
<1>2. QED
  BY <1>1 DEF ForbiddenSegment

\* What was not refused is not refused with a PATH in front.
LEMMA PrefixedAllowed ==
  ASSUME NEW call \in ShellCalls, NEW cmd, cmd = call.cmd, Shaped(cmd), ExecInOneWord,
         HostPassthrough(cmd), ~ForbiddenSessionCommand(cmd),
         "ros-maintainer-harness" \in Executables(cmd),
         \A i \in DOMAIN cmd.segs : ~Mentions(cmd.segs[i], <<"session", "exec">>)
  PROVE  ~ForbiddenSessionCommand(Prefixed(cmd))
<1> DEFINE p == Prefixed(cmd)
<1>1. /\ p.segs[1] = PathPrefix /\ DOMAIN p.segs = 1..(Len(cmd.segs) + 1)
      /\ \A i \in DOMAIN cmd.segs : p.segs[i + 1] = cmd.segs[i]
      /\ p.live = cmd.live /\ p.inner = cmd.inner /\ p.delim = cmd.delim
  BY PrefixedFields
<1>2. Len(cmd.segs) \in Nat /\ DOMAIN cmd.segs = 1..Len(cmd.segs)
  BY DEF Shaped
<1> HIDE DEF p
<1>3. CASE SingleHeredocExec(cmd)
  BY <1>1, <1>3 DEF p, ForbiddenSessionCommand, SingleHeredocExec
<1>4. CASE ~SingleHeredocExec(cmd)
  <2>1. cmd.segs # << >>
    BY <1>2 DEF Executables
  <2>2. ~cmd.live
    BY <1>4, <2>1 DEF HostPassthrough
  <2>3. ~OnlyExec(cmd)
    <3>1. SUFFICES ASSUME OnlyExec(cmd) PROVE FALSE
      OBVIOUS
    <3>2. Len(cmd.segs) = 1 /\ DOMAIN cmd.segs = {1}
      BY <1>2, <3>1 DEF OnlyExec
    <3>3. FirstExecutable(cmd.segs[1]) = "ros-maintainer-harness"
      BY <3>2 DEF Executables
    <3>4. SubcommandTokens(cmd.segs[1]) = <<"session", "exec">>
      BY <3>1, <3>3 DEF OnlyExec
    <3>5. Mentions(cmd.segs[1], <<"session", "exec">>)
      BY <3>2, <3>3, <3>4 DEF ExecInOneWord
    <3>6. QED
      BY <3>2, <3>5
  <2>4. \A i \in DOMAIN cmd.segs :
          /\ ~ForbiddenSegment(cmd.segs[i])
          /\ ~Mentions(cmd.segs[i], <<"ci_for_pr.py">>)
          /\ ~Mentions(cmd.segs[i], <<"gh", "auth", "token">>)
    BY <1>4, <2>1, <2>3 DEF ForbiddenSessionCommand
  <2>5. \A i \in DOMAIN p.segs :
          /\ ~ForbiddenSegment(p.segs[i])
          /\ ~Mentions(p.segs[i], <<"ci_for_pr.py">>)
          /\ ~Mentions(p.segs[i], <<"gh", "auth", "token">>)
    <3> TAKE i \in DOMAIN p.segs
    <3>1. i = 1 \/ \E j \in DOMAIN cmd.segs : i = j + 1
      <4>1. i \in 1..(Len(cmd.segs) + 1)
        BY <1>1
      <4>2. i = 1 \/ (i - 1 \in 1..Len(cmd.segs) /\ i = (i - 1) + 1)
        BY <1>2, <4>1
      <4>3. QED
        BY <1>2, <4>2
    <3>2. QED
      BY <1>1, <2>4, <3>1, OwnMentions, PrefixIsAllowed
  <2>6. QED
    BY <1>1, <2>2, <2>5 DEF p, ForbiddenSessionCommand
<1>5. QED
  BY <1>3, <1>4

-----------------------------------------------------------------------------
(* What the hook decides                                                   *)

\* The session a call belongs to exists.
LEMMA SessionExists ==
  ASSUME NEW call, NEW explicit, NEW records
  PROVE  ResolveSession(call, explicit, records) \in DOMAIN records \cup {None}
<1> DEFINE own == {s \in DOMAIN records : records[s].conversation = call.conversation}
           matching == {s \in own : records[s].hub # call.conversation}
<1>1. matching # {} => (CHOOSE s \in matching : TRUE) \in DOMAIN records
  OBVIOUS
<1> HIDE DEF matching
<1>2. QED
  BY <1>1 DEF ResolveSession, InSession, matching

\* What a hook makes of a call's directory.
Moved(call, cwd, s) ==
  \/ cwd = call.cwd
  \/ s # None /\ cwd.base = "session" /\ cwd.session = s
  \/ s = None /\ call.cwd.base = "container" /\ cwd = Dir("root", None, Top)

\* A hook that looks later finds the same session, or none.
LEMMA SessionStays ==
  ASSUME NEW call, NEW later, NEW explicit, NEW records, None \notin DOMAIN records,
         later.open = call.open, later.conversation = call.conversation,
         Moved(call, later.cwd, ResolveSession(call, explicit, records))
  PROVE  ResolveSession(later, None, records)
           \in {None, ResolveSession(call, explicit, records)}
<1> DEFINE s == ResolveSession(call, explicit, records)
           own == {r \in DOMAIN records : records[r].conversation = call.conversation}
           matching == {r \in own : records[r].hub # call.conversation}
           match == CHOOSE r \in matching : TRUE
<1>1. s \in DOMAIN records \cup {None}
  BY SessionExists
<1>2. InSession(call.cwd, records) => s = call.cwd.session
  BY DEF ResolveSession
<1>3. ~InSession(call.cwd, records) /\ InSession(call.open, records) => s = call.open.session
  BY DEF ResolveSession
<1>4. ~InSession(call.cwd, records) /\ ~InSession(call.open, records)
        /\ call.conversation # None /\ matching # {} => s = match
  BY DEF ResolveSession
<1>5. /\ InSession(later.cwd, records) =>
           ResolveSession(later, None, records) = later.cwd.session
      /\ ~InSession(later.cwd, records) /\ InSession(call.open, records) =>
           ResolveSession(later, None, records) = call.open.session
      /\ ~InSession(later.cwd, records) /\ ~InSession(call.open, records)
           /\ call.conversation # None /\ matching # {} =>
           ResolveSession(later, None, records) = match
      /\ ~InSession(later.cwd, records) /\ ~InSession(call.open, records)
           /\ ~(call.conversation # None /\ matching # {}) =>
           ResolveSession(later, None, records) = None
  BY DEF ResolveSession
<1> HIDE DEF s, match, matching
<1>6. CASE later.cwd = call.cwd
  BY <1>2, <1>3, <1>4, <1>5, <1>6 DEF s
<1>7. CASE s # None /\ later.cwd.base = "session" /\ later.cwd.session = s
  BY <1>1, <1>5, <1>7 DEF s, InSession
<1>8. CASE s = None /\ call.cwd.base = "container" /\ later.cwd = Dir("root", None, Top)
  <2>1. ~InSession(call.cwd, records) /\ ~InSession(later.cwd, records)
    BY <1>8 DEF InSession, Dir
  <2>2. QED
    BY <1>3, <1>4, <1>5, <2>1 DEF s
<1>9. QED
  BY <1>6, <1>7, <1>8 DEF Moved, s

\* The decision, one case for each way through the hook.
LEMMA Decided ==
  ASSUME NEW call, NEW explicit, NEW records, NEW onPath, call.inside \in BOOLEAN,
         NEW s, s = ResolveSession(call, explicit, records),
         NEW out, out = EvaluatePreToolUse(call, explicit, records, onPath)
  PROVE  \/ call.inside /\ out = Allow(call, call.cmd, call.cwd)
         \/ /\ ~call.inside /\ s # None /\ ForbiddenSessionCommand(call.cmd)
            /\ out = Deny(call)
         \/ /\ ~call.inside /\ (s # None => ~ForbiddenSessionCommand(call.cmd))
            /\ \/ /\ HostPassthrough(call.cmd)
                  /\ out = Allow(call, RewriteBareHarness(call.cmd, onPath),
                                 IF call.cwd.base = "container"
                                   THEN IF s = None THEN Dir("root", None, Top)
                                        ELSE Dir("session", s, Top)
                                   ELSE call.cwd)
               \/ ~HostPassthrough(call.cmd) /\ s # None /\ out = Wrap(call, s)
               \/ /\ ~HostPassthrough(call.cmd) /\ s = None
                  /\ ForbiddenHostCommand(call.cmd) /\ out = Deny(call)
               \/ /\ ~HostPassthrough(call.cmd) /\ s = None
                  /\ ~ForbiddenHostCommand(call.cmd) /\ out = Allow(call, call.cmd, call.cwd)
<1> DEFINE bad == s # None /\ ForbiddenSessionCommand(call.cmd)
           sessionCwd == IF call.cwd.base = "container"
                           THEN IF s = None THEN Dir("root", None, Top)
                                ELSE Dir("session", s, Top)
                           ELSE call.cwd
<1>1. call.inside => out = Allow(call, call.cmd, call.cwd)
  BY DEF EvaluatePreToolUse
<1>2. ~call.inside /\ bad => out = Deny(call)
  BY DEF EvaluatePreToolUse
<1>3. ~call.inside /\ ~bad =>
        out = IF HostPassthrough(call.cmd)
                THEN Allow(call, RewriteBareHarness(call.cmd, onPath), sessionCwd)
              ELSE IF s # None THEN Wrap(call, s)
              ELSE IF ForbiddenHostCommand(call.cmd) THEN Deny(call)
              ELSE Allow(call, call.cmd, call.cwd)
  BY DEF EvaluatePreToolUse
<1> HIDE DEF sessionCwd
<1>4. QED
  <2> SUFFICES ASSUME ~call.inside, ~bad PROVE
        \/ HostPassthrough(call.cmd)
             /\ out = Allow(call, RewriteBareHarness(call.cmd, onPath), sessionCwd)
        \/ ~HostPassthrough(call.cmd) /\ s # None /\ out = Wrap(call, s)
        \/ ~HostPassthrough(call.cmd) /\ s = None
             /\ ForbiddenHostCommand(call.cmd) /\ out = Deny(call)
        \/ ~HostPassthrough(call.cmd) /\ s = None
             /\ ~ForbiddenHostCommand(call.cmd) /\ out = Allow(call, call.cmd, call.cwd)
    BY <1>1, <1>2 DEF sessionCwd
  <2>1. QED
    BY <1>3

\* What the hook wraps is wrapped for good: the next hook reads one
\* rmah-session-exec, which it neither refuses nor rewrites.
LEMMA WrappedStays ==
  ASSUME NEW cmd, NEW workdir, NEW flag, NEW onPath, Shaped(cmd),
         NEW w, w = SessionExecCommand(cmd, workdir, flag)
  PROVE  /\ w.inner = cmd
         /\ RewriteBareHarness(w, onPath) = w
         /\ "EOF" \notin cmd.lines /\ cmd # None =>
              HostPassthrough(w) /\ ~ForbiddenSessionCommand(w)
<1> DEFINE delim == IF cmd.quoted THEN HeredocDelimiter(cmd.lines) ELSE None
           opened == delim \notin {None, "EOF"}
           exec == <<"rmah-session-exec">>
           rest == IF opened THEN cmd.segs \o <<<<delim>>>> ELSE <<>>
<1>1. /\ w.segs = <<exec>> \o rest /\ w.live = (opened /\ cmd.live)
      /\ w.inner = cmd /\ w.delim = delim
  BY DEF SessionExecCommand
<1>2. RewriteBareHarness(w, onPath) = w
  <2> DEFINE S == Segments \cup {<<delim>>, exec}
  <2>1. cmd.segs \in Seq(S)
    BY DEF Shaped
  <2>2. rest \in Seq(S)
    <3>1. <<<<delim>>>> \in Seq(S)
      OBVIOUS
    <3> HIDE DEF S, delim
    <3>2. QED
      BY <2>1, <3>1
  <2>3. exec \in S
    OBVIOUS
  <2> HIDE DEF S, rest, exec
  <2>4. 1 \in DOMAIN w.segs /\ w.segs[1] = exec
    BY <1>1, <2>2, <2>3
  <2>5. QED
    BY <2>4, OwnMentions DEF RewriteBareHarness, exec
<1>3. ASSUME "EOF" \notin cmd.lines, cmd # None
      PROVE  HostPassthrough(w) /\ ~ForbiddenSessionCommand(w)
  <2>1. delim \in {None, "EOF"}
    BY <1>3 DEF HeredocDelimiter
  <2> HIDE DEF delim
  <2>2. w.segs = <<exec>> /\ ~w.live
    <3>1. ~opened /\ rest = <<>>
      BY <2>1
    <3>2. <<exec>> \o <<>> = <<exec>>
      <4>1. <<exec>> \in Seq({exec})
        OBVIOUS
      <4> HIDE DEF exec
      <4>2. QED
        BY <4>1, ConcatEmptySeq
    <3>3. QED
      BY <1>1, <3>1, <3>2
  <2>3. CASE delim = "EOF"
    BY <1>1, <1>3, <2>3 DEF HostPassthrough, ForbiddenSessionCommand, SingleHeredocExec
  <2>4. CASE delim = None
    <3>1. FirstExecutable(exec) = "rmah-session-exec"
      BY OwnSegments
    <3>2. DOMAIN w.segs = {1} /\ w.segs[1] = exec /\ Len(w.segs) = 1 /\ w.segs # <<>>
      BY <2>2
    <3> HIDE DEF exec
    <3>3. OnlyExec(w)
      BY <2>2, <3>1, <3>2 DEF OnlyExec
    <3>4. Executables(w) = {"rmah-session-exec"}
      <4>1. "rmah-session-exec" # None
        BY NoneIsNoWord DEF PassthroughBinaries, ControlBinaries
      <4>2. QED
        BY <3>1, <3>2, <4>1 DEF Executables
    <3>5. HostPassthrough(w)
      BY <2>2, <3>4 DEF HostPassthrough, PassthroughBinaries, ControlBinaries
    <3>6. QED
      BY <3>3, <3>5 DEF ForbiddenSessionCommand
  <2>5. QED
    BY <2>1, <2>3, <2>4
<1>4. QED
  BY <1>1, <1>2, <1>3

\* A wrapped command has the fields a hook reads.
LEMMA WrappedShaped ==
  ASSUME NEW cmd, NEW workdir, NEW flag, Shaped(cmd)
  PROVE  Shaped(SessionExecCommand(cmd, workdir, flag))
<1> DEFINE w == SessionExecCommand(cmd, workdir, flag)
           delim == IF cmd.quoted THEN HeredocDelimiter(cmd.lines) ELSE None
           opened == delim \notin {None, "EOF"}
           exec == <<"rmah-session-exec">>
           rest == IF opened THEN cmd.segs \o <<<<delim>>>> ELSE <<>>
<1>1. delim \in {None, "EOF", "__EOF__", "__RMAH_EOF__"}
  BY DEF HeredocDelimiter, Shaped
<1>2. cmd.segs \in Seq(Segments) /\ cmd.live \in BOOLEAN
  BY DEF Shaped
<1>3. exec \in Segments /\ <<delim>> \in Segments
  BY <1>1 DEF Segments
<1> HIDE DEF delim, exec
<1>4. <<exec>> \o rest \in Seq(Segments)
  BY <1>2, <1>3
<1>5. w = [segs |-> <<exec>> \o rest, live |-> opened /\ cmd.live, quoted |-> TRUE,
           lines |-> w.lines, inner |-> cmd, delim |-> delim, dir |-> w.dir]
  BY DEF SessionExecCommand, delim, exec
<1> DEFINE live == opened /\ cmd.live
           segs == <<exec>> \o rest
<1>6. live \in BOOLEAN /\ segs \in Seq(Segments)
  BY <1>2, <1>4
<1> HIDE DEF rest, opened
<1>7. /\ w.segs = segs /\ w.live = live /\ w.quoted = TRUE
      /\ w = [segs |-> segs, live |-> live, quoted |-> TRUE,
              lines |-> w.lines, inner |-> w.inner, delim |-> w.delim, dir |-> w.dir]
  BY <1>5
<1> HIDE DEF w, live, segs
<1>8. Shaped(w)
  BY <1>6, <1>7 DEF Shaped
<1>9. QED
  BY <1>8 DEF w

-----------------------------------------------------------------------------
(* The command being served                                                *)

\* What is known of a command being served: the fields of the call, of which
\* the hooks change the command and the directory, and nothing at first.
CommandInv ==
  (request # None /\ request.kind = "command") =>
    LET call == request.call
        now == request.now
    IN /\ request \in [kind : {"command"}, call : ShellCalls, now : {now}, hooks : Nat,
                       records : RecordSets, explicit : {request.explicit}]
       /\ now \in [claude : {call.claude}, inside : {call.inside}, cwd : {now.cwd},
                   open : {call.open}, conversation : {call.conversation}, cmd : {now.cmd}]
       /\ Shaped(now.cmd)
       /\ request.hooks = 0 => now = call /\ answer = None

\* The next hook lets the command through and has nothing to wrap.
Settled(call, records) ==
  LET s == ResolveSession(call, None, records) IN
  \/ call.inside
  \/ /\ s # None => ~ForbiddenSessionCommand(call.cmd)
     /\ HostPassthrough(call.cmd) \/ (s = None /\ ~ForbiddenHostCommand(call.cmd))

\* The agent's own command, the same with a PATH in front, or wrapped once.
FormOf(cmd, first) ==
  \/ cmd = first
  \/ cmd = Prefixed(first)
  \/ \E d, e : cmd = SessionExecCommand(first, d, e)

\* WrapsOnce, and that every hook after the first finds a settled command.
WrapInv ==
  (request # None /\ request.kind = "command" /\ "EOF" \notin request.call.cmd.lines) =>
    LET first == request.call.cmd
        now == request.now
    IN /\ FormOf(now.cmd, first)
       /\ request.hooks > 0 /\ answer = None => Settled(now, request.records)
       /\ answer # None /\ answer.what = "denied" => request.hooks = 1

\* What stays on the host is control of the harness.
OnHost(now) ==
  /\ now.cmd.inner = None
  /\ HostPassthrough(now.cmd)
  /\ \A i \in DOMAIN now.cmd.segs : ~ForbiddenSegment(now.cmd.segs[i])

\* What goes to the container is started where its session is found, and is
\* what the first hook made of it.
IntoContainer(call, now, s, exact) ==
  /\ now.cmd.inner # None
  /\ IF call.claude THEN now.cwd = call.cwd
       ELSE \/ now.cwd.base = "session" /\ now.cwd.session = s /\ Exists(now.cwd.rel)
            \/ call.cmd.inner # None /\ now.cwd = call.cwd /\ now.cwd.base # "container"
  /\ call.cmd.inner = None /\ exact =>
       now.cmd = Wrap(call, s).cmd /\ now.cwd = Wrap(call, s).cwd

\* Where the hooks leave the call of a session.
Placed(call, cwd, s) ==
  IF call.claude THEN cwd = call.cwd
    ELSE \/ cwd.base = "session" /\ cwd.session = s
         \/ cwd = call.cwd /\ cwd.base # "container"

RouteInv ==
  (request # None /\ request.kind = "command" /\ answer = None /\ request.hooks > 0
     /\ ~request.call.inside /\ Owner # None) =>
    /\ Placed(request.call, request.now.cwd, Owner)
    /\ \/ OnHost(request.now)
       \/ IntoContainer(request.call, request.now, Owner,
                        request.hooks = 1 \/ "EOF" \notin request.call.cmd.lines)

\* What a hook answers, with the harness on the PATH or not.
HookOut(onPath) ==
  EvaluatePreToolUse(request.now, IF request.hooks = 0 THEN request.explicit ELSE None,
                     request.records, onPath)

\* What it does with that.
HookMoves(onPath) ==
  /\ request'.now = [request.now EXCEPT !.cmd = HookOut(onPath).cmd, !.cwd = HookOut(onPath).cwd]
  /\ answer' = IF HookOut(onPath).verdict = "deny" THEN [what |-> "denied"] ELSE None

\* A hook changes the command and the directory, and counts itself.
LEMMA HookEffect ==
  ASSUME CommandInv, Hook
  PROVE  /\ request # None /\ answer = None /\ request.kind = "command"
         /\ request' # None => request'.kind = "command"
         /\ request'.call = request.call /\ request'.records = request.records
         /\ request'.explicit = request.explicit
         /\ request.hooks \in Nat /\ request'.hooks = request.hooks + 1
         /\ \E onPath \in BOOLEAN : HookMoves(onPath)
         /\ request' \in [kind : {"command"}, call : {request.call},
                          now : {request'.now}, hooks : Nat,
                          records : {request.records}, explicit : {request.explicit}]
<1>1. request # None /\ answer = None /\ request.kind = "command"
  BY DEF Hook, Open
<1>2. request \in [kind : {"command"}, call : {request.call}, now : {request.now}, hooks : Nat,
                   records : {request.records}, explicit : {request.explicit}]
  BY <1>1 DEF CommandInv
<1>3. \E onPath \in BOOLEAN :
        /\ request' = [request EXCEPT !.hooks = @ + 1, !.now.cmd = HookOut(onPath).cmd,
                                       !.now.cwd = HookOut(onPath).cwd]
        /\ answer' = IF HookOut(onPath).verdict = "deny" THEN [what |-> "denied"] ELSE None
  BY Zenon DEF Hook, HookOut
<1>4. PICK onPath \in BOOLEAN :
        /\ request' = [request EXCEPT !.hooks = @ + 1, !.now.cmd = HookOut(onPath).cmd,
                                       !.now.cwd = HookOut(onPath).cwd]
        /\ answer' = IF HookOut(onPath).verdict = "deny" THEN [what |-> "denied"] ELSE None
  BY <1>3, Zenon
<1> DEFINE out == HookOut(onPath)
<1>5. /\ request' = [request EXCEPT !.hooks = @ + 1, !.now.cmd = out.cmd, !.now.cwd = out.cwd]
      /\ answer' = IF out.verdict = "deny" THEN [what |-> "denied"] ELSE None
  BY <1>4, Zenon
<1> HIDE DEF out
<1>6. /\ request'.kind = "command" /\ request'.call = request.call
      /\ request'.records = request.records /\ request'.explicit = request.explicit
      /\ request.hooks \in Nat /\ request'.hooks = request.hooks + 1
      /\ request' = [kind |-> "command", call |-> request.call, now |-> request'.now,
                     hooks |-> request'.hooks, records |-> request.records,
                     explicit |-> request.explicit]
  BY <1>2, <1>5
<1>7. request'.now = [request.now EXCEPT !.cmd = out.cmd, !.cwd = out.cwd]
  BY <1>2, <1>5
<1>8. request' \in [kind : {"command"}, call : {request.call},
                    now : {request'.now}, hooks : Nat,
                    records : {request.records}, explicit : {request.explicit}]
  <2> DEFINE now == request'.now
             hooks == request'.hooks
  <2>1. hooks \in Nat
    BY <1>6
  <2> HIDE DEF now, hooks
  <2>2. request' = [kind |-> "command", call |-> request.call, now |-> now,
                    hooks |-> hooks, records |-> request.records,
                    explicit |-> request.explicit]
    BY <1>6 DEF now, hooks
  <2>3. request' \in [kind : {"command"}, call : {request.call}, now : {now}, hooks : Nat,
                      records : {request.records}, explicit : {request.explicit}]
    BY <2>1, <2>2
  <2>4. QED
    BY <2>3 DEF now
<1>9. HookMoves(onPath)
  BY <1>5, <1>7, Zenon DEF out, HookMoves
<1>10. QED
  BY <1>1, <1>6, <1>8, <1>9

\* How a hook leaves the command, one case for each way through it.
HookCase(now, s, out, denied) ==
  \/ /\ now.inside
     /\ out.cmd = now.cmd /\ out.cwd = now.cwd /\ ~denied
  \/ /\ ~now.inside
     /\ \/ s # None /\ ForbiddenSessionCommand(now.cmd)
        \/ ~HostPassthrough(now.cmd) /\ s = None /\ ForbiddenHostCommand(now.cmd)
     /\ out.cmd = now.cmd /\ out.cwd = now.cwd /\ denied
  \/ /\ ~now.inside /\ ~(s # None /\ ForbiddenSessionCommand(now.cmd))
     /\ HostPassthrough(now.cmd)
     /\ \E onPath \in BOOLEAN : out.cmd = RewriteBareHarness(now.cmd, onPath)
     /\ out.cwd = IF now.claude \/ now.cwd.base # "container" THEN now.cwd
                  ELSE IF s = None THEN Dir("root", None, Top) ELSE Dir("session", s, Top)
     /\ ~denied
  \/ /\ ~now.inside /\ ~(s # None /\ ForbiddenSessionCommand(now.cmd))
     /\ ~HostPassthrough(now.cmd) /\ s # None
     /\ out.cmd = Wrap(now, s).cmd /\ out.cwd = Wrap(now, s).cwd /\ ~denied
  \/ /\ ~now.inside /\ ~HostPassthrough(now.cmd) /\ s = None
     /\ ~ForbiddenHostCommand(now.cmd)
     /\ out.cmd = now.cmd /\ out.cwd = now.cwd /\ ~denied

\* The hook in terms of those cases.
LEMMA HookOutcome ==
  ASSUME CommandInv, Hook, NoneIsNoRecord,
         NEW s, s = ResolveSession(request.now,
                      IF request.hooks = 0 THEN request.explicit ELSE None, request.records)
  PROVE  /\ request'.now = [request.now EXCEPT !.cmd = request'.now.cmd,
                                               !.cwd = request'.now.cwd]
         /\ answer' = None \/ answer' = [what |-> "denied"]
         /\ HookCase(request.now, s, request'.now, answer' # None)
<1> DEFINE now == request.now
           call == request.call
           explicit == IF request.hooks = 0 THEN request.explicit ELSE None
<1>1. PICK onPath \in BOOLEAN : HookMoves(onPath)
  BY HookEffect
<1> DEFINE out == HookOut(onPath)
<1>2. request # None /\ request.kind = "command"
  BY HookEffect
<1>3. now \in [claude : {call.claude}, inside : {call.inside}, cwd : {now.cwd},
               open : {call.open}, conversation : {call.conversation}, cmd : {now.cmd}]
      /\ call.inside \in BOOLEAN /\ call.claude \in BOOLEAN
  BY <1>2, CallsAssumption DEF CommandInv
<1>4. /\ request'.now.cmd = out.cmd /\ request'.now.cwd = out.cwd
      /\ request'.now = [now EXCEPT !.cmd = request'.now.cmd, !.cwd = request'.now.cwd]
  <2> HIDE DEF out
  <2>1. request'.now = [now EXCEPT !.cmd = out.cmd, !.cwd = out.cwd]
    BY <1>1 DEF out, HookMoves
  <2>2. QED
    BY <1>3, <2>1
<1>5. now.inside \in BOOLEAN
  BY <1>3
<1>6. answer' = IF out.verdict = "deny" THEN [what |-> "denied"] ELSE None
  BY <1>1 DEF HookMoves
<1>7. [what |-> "denied"] # None
  BY DEF NoneIsNoRecord
<1> DEFINE sessionCwd == IF now.cwd.base = "container"
                           THEN IF s = None THEN Dir("root", None, Top)
                                ELSE Dir("session", s, Top)
                           ELSE now.cwd
<1>8. \/ now.inside /\ out = Allow(now, now.cmd, now.cwd)
      \/ ~now.inside /\ s # None /\ ForbiddenSessionCommand(now.cmd) /\ out = Deny(now)
      \/ /\ ~now.inside /\ ~(s # None /\ ForbiddenSessionCommand(now.cmd))
         /\ \/ /\ HostPassthrough(now.cmd)
               /\ out = Allow(now, RewriteBareHarness(now.cmd, onPath), sessionCwd)
            \/ ~HostPassthrough(now.cmd) /\ s # None /\ out = Wrap(now, s)
            \/ /\ ~HostPassthrough(now.cmd) /\ s = None
               /\ ForbiddenHostCommand(now.cmd) /\ out = Deny(now)
            \/ /\ ~HostPassthrough(now.cmd) /\ s = None
               /\ ~ForbiddenHostCommand(now.cmd) /\ out = Allow(now, now.cmd, now.cwd)
  BY <1>5, Decided DEF HookOut
<1> HIDE DEF out, now, sessionCwd
<1>9. HookCase(now, s, request'.now, answer' # None)
  <2>1. \A cmd, cwd : /\ Allow(now, cmd, cwd).verdict = "allow"
                     /\ Allow(now, cmd, cwd).cmd = cmd
                     /\ Allow(now, cmd, cwd).cwd = IF now.claude THEN now.cwd ELSE cwd
    BY DEF Allow
  <2>2. Deny(now).verdict = "deny" /\ Deny(now).cmd = now.cmd /\ Deny(now).cwd = now.cwd
    BY DEF Deny
  <2>3. Wrap(now, s).verdict = "allow"
    BY DEF Wrap, Allow
  <2>4. QED
    BY <1>4, <1>6, <1>7, <1>8, <2>1, <2>2, <2>3 DEF HookCase, sessionCwd
<1>10. QED
  BY <1>4, <1>6, <1>9 DEF now

\* An agent's call has the fields a hook reads.
LEMMA CallFields ==
  ASSUME NEW call \in ShellCalls
  PROVE  /\ Shaped(call.cmd)
         /\ call \in [claude : {call.claude}, inside : {call.inside}, cwd : {call.cwd},
                      open : {call.open}, conversation : {call.conversation},
                      cmd : {call.cmd}]
<1> DEFINE cmd == call.cmd
           segs == cmd.segs
<1>1. cmd \in [segs : Seq(Seq(STRING)), live : BOOLEAN, quoted : BOOLEAN,
               lines : {cmd.lines}, inner : {cmd.inner}, delim : {cmd.delim}, dir : {cmd.dir}]
      /\ call \in [claude : BOOLEAN, inside : BOOLEAN, cwd : {call.cwd}, open : {call.open},
                   conversation : {call.conversation}, cmd : {call.cmd}]
  BY CallsAssumption
<1>2. segs \in Seq(Segments)
  <2>1. segs \in Seq(Seq(STRING)) /\ Seq(STRING) \subseteq Segments
    BY <1>1 DEF Segments
  <2> HIDE DEF segs
  <2>2. QED
    BY <2>1
<1>3. Shaped(cmd)
  <2> HIDE DEF cmd
  <2>1. QED
    BY <1>1, <1>2 DEF Shaped
<1>4. QED
  BY <1>1, <1>3

\* The parts of a wrapped call.
LEMMA WrapParts ==
  ASSUME NEW call, NEW s
  PROVE  LET workdir == ContainerWorkdir(call.cwd, s)
             host == HostCwd(call.cwd, s)
             flag == host[2] \/ (call.claude /\ workdir # Top /\ call.cwd # host[1])
         IN /\ Wrap(call, s).cmd = SessionExecCommand(call.cmd, workdir, flag)
            /\ Wrap(call, s).cwd = IF call.claude THEN call.cwd ELSE host[1]
            /\ host[1].base = "session" /\ host[1].session = s /\ Exists(host[1].rel)
  BY DEF Wrap, Allow, HostCwd, Dir, Exists

\* A hook that does not refuse moves the call at most to its session.
LEMMA CaseMoves ==
  ASSUME NEW now, NEW s, NEW out, HookCase(now, s, out, FALSE)
  PROVE  Moved(now, out.cwd, s)
<1>1. CASE out.cwd = now.cwd
  BY <1>1 DEF Moved
<1>2. CASE s # None /\ out.cwd = Wrap(now, s).cwd
  BY <1>2, WrapParts DEF Moved
<1>3. CASE out.cwd = IF now.claude \/ now.cwd.base # "container" THEN now.cwd
                     ELSE IF s = None THEN Dir("root", None, Top) ELSE Dir("session", s, Top)
  BY <1>3 DEF Moved, Dir
<1>4. QED
  BY <1>1, <1>2, <1>3 DEF HookCase

\* A hook leaves a command with the fields the next one reads.
LEMMA CaseShaped ==
  ASSUME NEW now, NEW s, NEW out, NEW denied, HookCase(now, s, out, denied), Shaped(now.cmd)
  PROVE  Shaped(out.cmd)
<1>1. CASE out.cmd = now.cmd
  BY <1>1
<1>2. CASE \E onPath \in BOOLEAN : out.cmd = RewriteBareHarness(now.cmd, onPath)
  <2>1. out.cmd = now.cmd \/ out.cmd = Prefixed(now.cmd)
    BY <1>2, RewritesOnce
  <2>2. QED
    BY <2>1, PrefixedFields
<1>3. CASE out.cmd = Wrap(now, s).cmd
  <2>1. PICK d, e : out.cmd = SessionExecCommand(now.cmd, d, e)
    BY <1>3, WrapParts
  <2>2. QED
    BY <2>1, WrappedShaped
<1>4. QED
  BY <1>1, <1>2, <1>3 DEF HookCase

\* A hook keeps what is known of the command.
LEMMA HookKeepsCommand ==
  ASSUME CommandInv, Hook, NoneIsNoRecord
  PROVE  CommandInv'
<1> DEFINE s == ResolveSession(request.now,
                  IF request.hooks = 0 THEN request.explicit ELSE None, request.records)
           call == request.call
           now == request.now
<1>1. HookCase(now, s, request'.now, answer' # None)
      /\ request'.now = [now EXCEPT !.cmd = request'.now.cmd, !.cwd = request'.now.cwd]
  BY HookOutcome
<1>2. /\ request \in [kind : {"command"}, call : ShellCalls, now : {now}, hooks : Nat,
                      records : RecordSets, explicit : {request.explicit}]
      /\ now \in [claude : {call.claude}, inside : {call.inside}, cwd : {now.cwd},
                  open : {call.open}, conversation : {call.conversation}, cmd : {now.cmd}]
      /\ Shaped(now.cmd)
  BY HookEffect DEF CommandInv
<1>3. Shaped(request'.now.cmd)
  <2> HIDE DEF s, now
  <2>1. QED
    BY <1>1, <1>2, CaseShaped
<1>4. /\ request' \in [kind : {"command"}, call : {request.call}, now : {request'.now},
                       hooks : Nat, records : {request.records}, explicit : {request.explicit}]
      /\ request'.hooks = request.hooks + 1 /\ request.hooks \in Nat
      /\ request'.call = call /\ request'.explicit = request.explicit
  BY HookEffect
<1>5. request' \in [kind : {"command"}, call : ShellCalls, now : {request'.now}, hooks : Nat,
                    records : RecordSets, explicit : {request'.explicit}]
  BY <1>2, <1>4
<1>6. request'.now \in [claude : {call.claude}, inside : {call.inside},
                        cwd : {request'.now.cwd}, open : {call.open},
                        conversation : {call.conversation}, cmd : {request'.now.cmd}]
  <2> DEFINE cmd == request'.now.cmd
             cwd == request'.now.cwd
  <2>1. request'.now = [now EXCEPT !.cmd = cmd, !.cwd = cwd]
    BY <1>1
  <2> HIDE DEF cmd, cwd
  <2>2. request'.now \in [claude : {call.claude}, inside : {call.inside}, cwd : {cwd},
                          open : {call.open}, conversation : {call.conversation}, cmd : {cmd}]
    BY <1>2, <2>1
  <2>3. QED
    BY <2>2 DEF cmd, cwd
<1>7. request'.hooks # 0
  BY <1>4
<1>8. QED
  BY <1>3, <1>4, <1>5, <1>6, <1>7 DEF CommandInv

\* So does every other step.
LEMMA CommandStep ==
  ASSUME CommandInv, [Next]_vars, NoneIsNoRecord
  PROVE  CommandInv'
<1>1. CASE Finish
  BY <1>1 DEF Finish, CommandInv
<1>2. CASE AskCommand
  <2>1. PICK call \in ShellCalls, records \in RecordSets :
          \E explicit \in DOMAIN records \cup {None} :
            /\ request' = [kind |-> "command", call |-> call, now |-> call, hooks |-> 0,
                           records |-> records, explicit |-> explicit]
            /\ answer' = None
    BY <1>2 DEF AskCommand, Ask
  <2>2. QED
    BY <2>1, CallFields DEF CommandInv
<1>3. CASE Hook
  BY <1>3, HookKeepsCommand
<1>4. CASE RunCommand
  BY <1>4 DEF RunCommand, Open, Answer, CommandInv
<1>5. CASE \/ AskRead \/ AskTool \/ AskPush \/ AskPolicy \/ AskNext \/ AskScan
  BY <1>5 DEF AskRead, AskTool, AskPush, AskPolicy, AskNext, AskScan, Ask, CommandInv
<1>6. CASE \/ HookRead \/ ServeTool \/ ServePush \/ ServePolicy \/ ServeNext \/ ServeScan
  <2>1. request' = request /\ request.kind # "command"
    BY <1>6 DEF HookRead, ServeTool, ServePush, ServePolicy, ServeNext, ServeScan, Open, Answer
  <2>2. QED
    BY <2>1 DEF CommandInv
<1>7. CASE UNCHANGED vars
  <2>1. request' = request /\ answer' = answer
    BY <1>7 DEF vars
  <2>2. QED
    BY <2>1 DEF CommandInv
<1>8. QED
  BY <1>1, <1>2, <1>3, <1>4, <1>5, <1>6, <1>7 DEF Next

-----------------------------------------------------------------------------
(* Wrapped once                                                            *)

\* A command is not None.
LEMMA CommandIsSome ==
  ASSUME NEW cmd, Shaped(cmd), NoneIsNoRecord
  PROVE  cmd # None
<1>1. "inner" \in DOMAIN cmd
  BY DEF Shaped
<1>2. QED
  BY <1>1 DEF NoneIsNoRecord

\* A hook that lets a command through leaves a settled one.
LEMMA CaseSettles ==
  ASSUME NEW call \in ShellCalls, NEW first, first = call.cmd, "EOF" \notin first.lines,
         NoneIsNoRecord, ExecInOneWord, NEW now, NEW s, NEW out, NEW records,
         HookCase(now, s, out, FALSE),
         \/ now.cmd = first
         \/ /\ FormOf(now.cmd, first) /\ Settled(now, records)
            /\ s = ResolveSession(now, None, records)
  PROVE  /\ FormOf(out.cmd, first)
         /\ \/ now.inside
            \/ /\ s # None => ~ForbiddenSessionCommand(out.cmd)
               /\ HostPassthrough(out.cmd) \/ (s = None /\ ~ForbiddenHostCommand(out.cmd))
<1>1. Shaped(first) /\ first # None
  BY CallFields, CommandIsSome
<1>2. FormOf(now.cmd, first)
  BY DEF FormOf
<1>3. ASSUME NEW onPath \in BOOLEAN, out.cmd = RewriteBareHarness(now.cmd, onPath)
      PROVE  \/ out.cmd = now.cmd
             \/ /\ now.cmd = first /\ out.cmd = Prefixed(first)
                /\ "ros-maintainer-harness" \in Executables(first)
                /\ \A i \in DOMAIN first.segs : ~Mentions(first.segs[i], <<"session", "exec">>)
  <2>1. CASE now.cmd = first
    BY <1>3, <2>1, RewritesOnce
  <2>2. CASE now.cmd = Prefixed(first)
    BY <1>1, <1>3, <2>2, PrefixedStays
  <2>3. CASE \E d, e : now.cmd = SessionExecCommand(first, d, e)
    BY <1>1, <1>3, <2>3, WrappedStays
  <2>4. QED
    BY <1>2, <2>1, <2>2, <2>3 DEF FormOf
<1>4. CASE now.inside /\ out.cmd = now.cmd
  BY <1>2, <1>4
<1>5. CASE /\ ~now.inside /\ ~(s # None /\ ForbiddenSessionCommand(now.cmd))
           /\ HostPassthrough(now.cmd)
           /\ \E onPath \in BOOLEAN : out.cmd = RewriteBareHarness(now.cmd, onPath)
  <2>1. CASE out.cmd = now.cmd
    BY <1>2, <1>5, <2>1
  <2>2. CASE /\ now.cmd = first /\ out.cmd = Prefixed(first)
             /\ "ros-maintainer-harness" \in Executables(first)
             /\ \A i \in DOMAIN first.segs : ~Mentions(first.segs[i], <<"session", "exec">>)
    <3>1. HostPassthrough(out.cmd)
      BY <1>1, <1>5, <2>2, PrefixedStays
    <3>2. s # None => ~ForbiddenSessionCommand(out.cmd)
      BY <1>1, <1>5, <2>2, PrefixedAllowed
    <3>3. QED
      BY <2>2, <3>1, <3>2 DEF FormOf
  <2>3. QED
    BY <1>3, <1>5, <2>1, <2>2
<1>6. CASE /\ ~now.inside /\ ~HostPassthrough(now.cmd) /\ s # None
           /\ out.cmd = Wrap(now, s).cmd
  <2>1. now.cmd = first
    BY <1>6 DEF Settled
  <2>2. PICK d, e : out.cmd = SessionExecCommand(first, d, e)
    BY <1>6, <2>1, WrapParts
  <2>3. HostPassthrough(out.cmd) /\ ~ForbiddenSessionCommand(out.cmd)
    BY <1>1, <2>2, WrappedStays
  <2>4. QED
    BY <2>2, <2>3 DEF FormOf
<1>7. CASE /\ ~HostPassthrough(now.cmd) /\ s = None /\ ~ForbiddenHostCommand(now.cmd)
           /\ out.cmd = now.cmd
  BY <1>2, <1>7
<1>8. QED
  BY <1>4, <1>5, <1>6, <1>7 DEF HookCase

\* A hook wraps what none has wrapped, and refuses only what none has seen.
LEMMA HookWraps ==
  ASSUME CommandInv, WrapInv, Hook, NoneIsNoRecord, ExecInOneWord
  PROVE  WrapInv'
<1> DEFINE call == request.call
           first == call.cmd
           now == request.now
           s == ResolveSession(now, IF request.hooks = 0 THEN request.explicit ELSE None,
                               request.records)
           later == request'.now
<1>1. /\ request # None /\ answer = None /\ request.kind = "command"
      /\ request.hooks \in Nat /\ request'.hooks = request.hooks + 1
      /\ request'.call = call /\ request'.records = request.records
  BY HookEffect
<1>2. /\ HookCase(now, s, later, answer' # None)
      /\ answer' = None \/ answer' = [what |-> "denied"]
      /\ later = [now EXCEPT !.cmd = later.cmd, !.cwd = later.cwd]
  BY HookOutcome
<1>3. SUFFICES ASSUME "EOF" \notin first.lines
               PROVE  /\ FormOf(later.cmd, first)
                      /\ answer' = None => Settled(later, request.records)
                      /\ answer' # None => request.hooks = 0
  BY <1>1 DEF WrapInv
<1>4. /\ call \in ShellCalls /\ request.records \in RecordSets
      /\ now.open = call.open /\ now.conversation = call.conversation
      /\ now \in [claude : {call.claude}, inside : {call.inside}, cwd : {now.cwd},
                  open : {call.open}, conversation : {call.conversation}, cmd : {now.cmd}]
  BY <1>1 DEF CommandInv
<1>5. \/ now.cmd = first /\ request.hooks = 0
      \/ /\ request.hooks > 0 /\ FormOf(now.cmd, first) /\ Settled(now, request.records)
         /\ s = ResolveSession(now, None, request.records)
  <2>1. CASE request.hooks = 0
    BY <1>1, <2>1 DEF CommandInv
  <2>2. CASE request.hooks # 0
    BY <1>1, <1>3, <2>2 DEF WrapInv
  <2>3. QED
    BY <2>1, <2>2
<1>6. later.inside = now.inside /\ later.open = now.open
      /\ later.conversation = now.conversation
  <2> DEFINE cmd == later.cmd
             cwd == later.cwd
  <2>1. later = [now EXCEPT !.cmd = cmd, !.cwd = cwd]
    BY <1>2
  <2> HIDE DEF cmd, cwd, later
  <2>2. QED
    BY <1>4, <2>1
<1> HIDE DEF s, now, later
<1>7. CASE answer' = None
  <2>1. HookCase(now, s, later, FALSE)
    BY <1>2, <1>7
  <2>2. /\ FormOf(later.cmd, first)
        /\ \/ now.inside
           \/ /\ s # None => ~ForbiddenSessionCommand(later.cmd)
              /\ HostPassthrough(later.cmd) \/ (s = None /\ ~ForbiddenHostCommand(later.cmd))
    BY <1>3, <1>4, <1>5, <2>1, CaseSettles
  <2>3. None \notin DOMAIN request.records
    BY <1>4, CallsAssumption, NoneIsNoSession
  <2>4. ResolveSession(later, None, request.records) \in {None, s}
    BY <1>6, <2>1, <2>3, CaseMoves, SessionStays DEF s
  <2>5. Settled(later, request.records)
    BY <1>6, <2>2, <2>4 DEF Settled
  <2>6. QED
    BY <1>7, <2>2, <2>5
<1>8. CASE answer' # None
  <2>1. HookCase(now, s, later, TRUE)
    BY <1>2, <1>8
  <2>2. /\ later.cmd = now.cmd /\ ~now.inside
        /\ \/ s # None /\ ForbiddenSessionCommand(now.cmd)
           \/ ~HostPassthrough(now.cmd) /\ s = None /\ ForbiddenHostCommand(now.cmd)
    BY <2>1 DEF HookCase
  <2>3. now.cmd = first /\ request.hooks = 0
    BY <1>5, <2>2 DEF Settled
  <2>4. QED
    BY <1>8, <2>2, <2>3 DEF FormOf
<1>9. QED
  BY <1>7, <1>8

\* So does every other step.
LEMMA WrapStep ==
  ASSUME CommandInv, WrapInv, [Next]_vars, NoneIsNoRecord, ExecInOneWord
  PROVE  WrapInv'
<1>1. CASE Finish
  BY <1>1 DEF Finish, WrapInv
<1>2. CASE AskCommand
  <2>1. PICK call \in ShellCalls, records \in RecordSets :
          \E explicit \in DOMAIN records \cup {None} :
            /\ request' = [kind |-> "command", call |-> call, now |-> call, hooks |-> 0,
                           records |-> records, explicit |-> explicit]
            /\ answer' = None
    BY <1>2 DEF AskCommand, Ask
  <2>2. /\ request'.hooks = 0 /\ request'.now.cmd = request'.call.cmd /\ answer' = None
    BY <2>1
  <2>3. QED
    BY <2>2 DEF WrapInv, FormOf
<1>3. CASE Hook
  BY <1>3, HookWraps
<1>4. CASE RunCommand
  <2>1. /\ request' = request /\ request.hooks > 0 /\ answer = None /\ answer'.what = "ran"
    BY <1>4 DEF RunCommand, Open, Answer
  <2>2. QED
    BY <2>1 DEF WrapInv
<1>5. CASE \/ AskRead \/ AskTool \/ AskPush \/ AskPolicy \/ AskNext \/ AskScan
  BY <1>5 DEF AskRead, AskTool, AskPush, AskPolicy, AskNext, AskScan, Ask, WrapInv
<1>6. CASE \/ HookRead \/ ServeTool \/ ServePush \/ ServePolicy \/ ServeNext \/ ServeScan
  <2>1. request' = request /\ request.kind # "command"
    BY <1>6 DEF HookRead, ServeTool, ServePush, ServePolicy, ServeNext, ServeScan, Open, Answer
  <2>2. QED
    BY <2>1 DEF WrapInv
<1>7. CASE UNCHANGED vars
  <2>1. request' = request /\ answer' = answer
    BY <1>7 DEF vars
  <2>2. QED
    BY <2>1 DEF WrapInv
<1>8. QED
  BY <1>1, <1>2, <1>3, <1>4, <1>5, <1>6, <1>7 DEF Next

\* However many hooks look at a command, the first decides whether it is
\* wrapped or refused, provided that no option stands between the words of
\* "session exec": the hooks agree in which session the command belongs and
\* in which commands stay on the host.  (_rewrite_bare_harness_command,
\* _is_host_passthrough_command, _is_single_heredoc_session_exec)
THEOREM WrappedOnce ==
  NoneIsNoRecord /\ ExecInOneWord => (Spec => []WrapsOnce)
<1> SUFFICES ASSUME NoneIsNoRecord, ExecInOneWord
             PROVE  Spec => []WrapsOnce
  OBVIOUS
<1>1. Init => CommandInv /\ WrapInv
  BY DEF Init, CommandInv, WrapInv
<1>2. CommandInv /\ WrapInv /\ [Next]_vars => (CommandInv /\ WrapInv)'
  BY CommandStep, WrapStep
<1>3. CommandInv /\ WrapInv => WrapsOnce
  <2>1. ASSUME NEW first, NEW d, NEW e
        PROVE  SessionExecCommand(first, d, e).inner = first
    BY DEF SessionExecCommand
  <2>2. QED
    BY <2>1 DEF WrapInv, WrapsOnce, FormOf, Prefixed
<1>4. QED
  BY <1>1, <1>2, <1>3, PTL DEF Spec

-----------------------------------------------------------------------------
(* Routed to the session                                                   *)

\* Rewriting leaves what a command hands to the container, and adds no
\* forbidden segment.
LEMMA RewriteKeeps ==
  ASSUME NEW cmd, Shaped(cmd), HostPassthrough(cmd), NEW onPath,
         NEW later, later = RewriteBareHarness(cmd, onPath)
  PROVE  /\ later.inner = cmd.inner
         /\ HostPassthrough(later)
         /\ (\A i \in DOMAIN cmd.segs : ~ForbiddenSegment(cmd.segs[i])) =>
              \A i \in DOMAIN later.segs : ~ForbiddenSegment(later.segs[i])
<1>1. CASE later = cmd
  BY <1>1
<1>2. CASE later = Prefixed(cmd) /\ "ros-maintainer-harness" \in Executables(cmd)
  <2>1. /\ later.segs[1] = PathPrefix /\ DOMAIN later.segs = 1..(Len(cmd.segs) + 1)
        /\ \A i \in DOMAIN cmd.segs : later.segs[i + 1] = cmd.segs[i]
        /\ later.inner = cmd.inner
    BY <1>2, PrefixedFields
  <2>2. HostPassthrough(later)
    BY <1>2, PrefixedStays
  <2>3. Len(cmd.segs) \in Nat /\ DOMAIN cmd.segs = 1..Len(cmd.segs)
    BY DEF Shaped
  <2>4. ASSUME NEW i \in DOMAIN later.segs
        PROVE  i = 1 \/ \E j \in DOMAIN cmd.segs : i = j + 1
    <3>1. i = 1 \/ (i - 1 \in 1..Len(cmd.segs) /\ i = (i - 1) + 1)
      BY <2>1, <2>3
    <3>2. QED
      BY <2>3, <3>1
  <2>5. QED
    BY <2>1, <2>2, <2>4, PrefixIsAllowed
<1>3. QED
  BY <1>1, <1>2, RewritesOnce

\* A wrapped call goes into the container.
LEMMA WrapsInto ==
  ASSUME NEW call, NEW now, NEW s, NEW out, Shaped(now.cmd), NoneIsNoRecord,
         now.claude = call.claude, call.claude => now.cwd = call.cwd,
         out.cmd = Wrap(now, s).cmd, out.cwd = Wrap(now, s).cwd
  PROVE  /\ out.cmd.inner # None
         /\ IF call.claude THEN out.cwd = call.cwd
              ELSE out.cwd.base = "session" /\ out.cwd.session = s /\ Exists(out.cwd.rel)
<1>1. PICK d, e : out.cmd = SessionExecCommand(now.cmd, d, e)
  BY WrapParts
<1>2. out.cmd.inner = now.cmd
  BY <1>1 DEF SessionExecCommand
<1>3. QED
  BY <1>2, CommandIsSome, WrapParts

\* The first hook routes a session's command.
LEMMA FirstRoutes ==
  ASSUME NEW call \in ShellCalls, NEW s, s # None, ~call.inside, NoneIsNoRecord,
         NEW out, HookCase(call, s, out, FALSE), NEW exact
  PROVE  OnHost(out) \/ IntoContainer(call, out, s, exact)
<1>1. Shaped(call.cmd)
  BY CallFields
<1>2. CASE /\ ~ForbiddenSessionCommand(call.cmd) /\ HostPassthrough(call.cmd)
           /\ \E onPath \in BOOLEAN : out.cmd = RewriteBareHarness(call.cmd, onPath)
           /\ out.cwd = IF call.claude \/ call.cwd.base # "container" THEN call.cwd
                        ELSE Dir("session", s, Top)
  <2>1. CASE call.cmd.inner = None
    <3>1. \A i \in DOMAIN call.cmd.segs : ~ForbiddenSegment(call.cmd.segs[i])
      BY <1>1, <1>2, <2>1, HostSegments
    <3>2. OnHost(out)
      BY <1>1, <1>2, <2>1, <3>1, RewriteKeeps DEF OnHost
    <3>3. QED
      BY <3>2
  <2>2. CASE call.cmd.inner # None
    <3>1. out.cmd.inner # None
      BY <1>1, <1>2, <2>2, RewriteKeeps
    <3>2. QED
      BY <1>2, <2>2, <3>1 DEF IntoContainer, Dir, Exists
  <2>3. QED
    BY <2>1, <2>2
<1>3. CASE out.cmd = Wrap(call, s).cmd /\ out.cwd = Wrap(call, s).cwd
  BY <1>1, <1>3, WrapsInto DEF IntoContainer
<1>4. QED
  BY <1>2, <1>3 DEF HookCase

\* A later hook leaves it routed.
LEMMA LaterRoutes ==
  ASSUME NEW call \in ShellCalls, NEW s, s # None, ~call.inside, NoneIsNoRecord,
         NEW now, Shaped(now.cmd), now.inside = call.inside, now.claude = call.claude,
         NEW exact, exact => "EOF" \notin call.cmd.lines,
         OnHost(now) \/ IntoContainer(call, now, s, exact),
         NEW found \in {None, s}, NEW out, HookCase(now, found, out, FALSE)
  PROVE  OnHost(out) \/ IntoContainer(call, out, s, exact)
<1>1. CASE OnHost(now)
  <2>1. HostPassthrough(now.cmd) /\ now.cmd.inner = None
    BY <1>1 DEF OnHost
  <2>2. PICK onPath \in BOOLEAN : out.cmd = RewriteBareHarness(now.cmd, onPath)
    BY <2>1 DEF HookCase
  <2>3. OnHost(out)
    BY <1>1, <2>1, <2>2, RewriteKeeps DEF OnHost
  <2>4. QED
    BY <2>3
<1>2. CASE IntoContainer(call, now, s, exact)
  <2>1. call.cmd.inner = None /\ exact =>
          \A onPath : /\ HostPassthrough(now.cmd)
                      /\ RewriteBareHarness(now.cmd, onPath) = now.cmd
    <3> SUFFICES ASSUME call.cmd.inner = None, exact, NEW onPath
                 PROVE  /\ HostPassthrough(now.cmd)
                        /\ RewriteBareHarness(now.cmd, onPath) = now.cmd
      OBVIOUS
    <3>1. now.cmd = Wrap(call, s).cmd
      BY <1>2 DEF IntoContainer
    <3>2. PICK d, e : now.cmd = SessionExecCommand(call.cmd, d, e)
      BY <3>1, WrapParts
    <3>3. Shaped(call.cmd) /\ call.cmd # None
      BY CallFields, CommandIsSome
    <3>4. QED
      BY <3>2, <3>3, WrappedStays
  <2>2. CASE out.cmd = now.cmd /\ out.cwd = now.cwd
    BY <1>2, <2>2 DEF IntoContainer
  <2>3. CASE /\ HostPassthrough(now.cmd)
             /\ \E onPath \in BOOLEAN : out.cmd = RewriteBareHarness(now.cmd, onPath)
             /\ out.cwd = IF now.claude \/ now.cwd.base # "container" THEN now.cwd
                          ELSE IF found = None THEN Dir("root", None, Top)
                          ELSE Dir("session", found, Top)
    <3>1. now.claude \/ now.cwd.base # "container"
      BY <1>2 DEF IntoContainer
    <3>2. out.cwd = now.cwd /\ out.cmd.inner = now.cmd.inner
      BY <2>3, <3>1, RewriteKeeps
    <3>3. call.cmd.inner = None /\ exact => out.cmd = now.cmd
      BY <2>1, <2>3
    <3>4. QED
      BY <1>2, <3>2, <3>3 DEF IntoContainer
  <2>4. CASE /\ ~HostPassthrough(now.cmd) /\ found # None
             /\ out.cmd = Wrap(now, found).cmd /\ out.cwd = Wrap(now, found).cwd
    <3>1. ~(call.cmd.inner = None /\ exact)
      BY <2>1, <2>4
    <3>2. call.claude => now.cwd = call.cwd
      BY <1>2 DEF IntoContainer
    <3>3. found = s
      BY <2>4
    <3>4. /\ out.cmd.inner # None
          /\ IF call.claude THEN out.cwd = call.cwd
               ELSE out.cwd.base = "session" /\ out.cwd.session = s /\ Exists(out.cwd.rel)
      BY <2>4, <3>2, <3>3, WrapsInto
    <3>5. QED
      BY <3>1, <3>4 DEF IntoContainer
  <2>5. QED
    BY <2>2, <2>3, <2>4 DEF HookCase
<1>3. QED
  BY <1>1, <1>2

\* A hook places the call of a session, and no later one moves it elsewhere.
LEMMA CasePlaced ==
  ASSUME NEW call, NEW now, NEW own, own # None, ~call.inside,
         now.inside = call.inside, now.claude = call.claude,
         NEW s \in {None, own}, (now = call /\ s = own) \/ Placed(call, now.cwd, own),
         NEW out, HookCase(now, s, out, FALSE)
  PROVE  Placed(call, out.cwd, own)
<1>1. CASE out.cwd = now.cwd /\ Placed(call, now.cwd, own)
  BY <1>1
<1>2. CASE out.cwd = IF now.claude \/ now.cwd.base # "container" THEN now.cwd
                     ELSE IF s = None THEN Dir("root", None, Top) ELSE Dir("session", s, Top)
  <2>1. CASE now = call /\ s = own
    BY <1>2, <2>1 DEF Placed, Dir
  <2>2. CASE Placed(call, now.cwd, own)
    BY <1>2, <2>2 DEF Placed, Dir
  <2>3. QED
    BY <2>1, <2>2
<1>3. CASE s # None /\ out.cwd = Wrap(now, s).cwd
  BY <1>3, WrapParts DEF Placed
<1>4. CASE s = None /\ out.cwd = now.cwd
  BY <1>1, <1>4
<1>5. QED
  BY <1>2, <1>3, <1>4 DEF HookCase

\* Every hook leaves a session's command routed.
LEMMA HookRoutes ==
  ASSUME CommandInv, RouteInv, Hook, NoneIsNoRecord
  PROVE  RouteInv'
<1> DEFINE call == request.call
           now == request.now
           records == request.records
           s == ResolveSession(now, IF request.hooks = 0 THEN request.explicit ELSE None,
                               records)
           own == ResolveSession(call, request.explicit, records)
           later == request'.now
           exact == request'.hooks = 1 \/ "EOF" \notin call.cmd.lines
<1>1. /\ request # None /\ answer = None /\ request.kind = "command"
      /\ request.hooks \in Nat /\ request'.hooks = request.hooks + 1
      /\ request'.call = call /\ request'.records = records
      /\ request'.explicit = request.explicit
  BY HookEffect
<1>2. HookCase(now, s, later, answer' # None)
  BY HookOutcome
<1>3. Owner = own /\ Owner' = own
  BY <1>1 DEF Owner
<1>4. /\ call \in ShellCalls /\ records \in RecordSets /\ Shaped(now.cmd)
      /\ now.inside = call.inside /\ now.claude = call.claude
      /\ now.open = call.open /\ now.conversation = call.conversation
  BY <1>1 DEF CommandInv
<1> HIDE DEF s, now, later, own, records, call
<1>5. SUFFICES ASSUME answer' = None, ~call.inside, own # None
               PROVE  /\ Placed(call, later.cwd, own)
                      /\ OnHost(later) \/ IntoContainer(call, later, own, exact)
  BY <1>1, <1>3 DEF RouteInv, later
<1>6. HookCase(now, s, later, FALSE)
  BY <1>2, <1>5
<1>7. CASE request.hooks = 0
  <2>1. now = call /\ s = own
    BY <1>1, <1>7 DEF CommandInv, now, call, s, own
  <2> HIDE DEF exact
  <2>2. QED
    BY <1>4, <1>5, <1>6, <2>1, FirstRoutes, CasePlaced
<1>8. CASE request.hooks # 0
  <2> DEFINE before == request.hooks = 1 \/ "EOF" \notin call.cmd.lines
  <2>1. /\ Placed(call, now.cwd, own)
        /\ OnHost(now) \/ IntoContainer(call, now, own, before)
    BY <1>1, <1>3, <1>5, <1>8 DEF RouteInv, now, call
  <2>2. exact <=> "EOF" \notin call.cmd.lines
    BY <1>1, <1>8
  <2>3. exact => before
    BY <2>2
  <2> HIDE DEF exact, before
  <2>4. OnHost(now) \/ IntoContainer(call, now, own, exact)
    BY <2>1, <2>3 DEF IntoContainer
  <2>5. s \in {None, own}
    <3>1. s = ResolveSession(now, None, records)
      BY <1>8 DEF s
    <3>2. None \notin DOMAIN records
      BY <1>4, CallsAssumption, NoneIsNoSession
    <3>3. Moved(call, now.cwd, own)
      BY <1>5, <2>1 DEF Moved, Placed
    <3>4. QED
      BY <1>4, <3>1, <3>2, <3>3, SessionStays DEF own
  <2>6. QED
    BY <1>4, <1>5, <1>6, <2>1, <2>2, <2>4, <2>5, LaterRoutes, CasePlaced
<1>9. QED
  BY <1>7, <1>8

\* So does every other step.
LEMMA RouteStep ==
  ASSUME CommandInv, RouteInv, [Next]_vars, NoneIsNoRecord
  PROVE  RouteInv'
<1>1. CASE Finish
  BY <1>1 DEF Finish, RouteInv
<1>2. CASE AskCommand
  <2>1. request'.hooks = 0
    BY <1>2 DEF AskCommand, Ask
  <2>2. QED
    BY <2>1 DEF RouteInv
<1>3. CASE Hook
  BY <1>3, HookRoutes
<1>4. CASE RunCommand
  <2>1. request' = request /\ request.hooks > 0 /\ answer = None
    BY <1>4 DEF RunCommand, Open, Answer
  <2>2. QED
    BY <2>1 DEF RouteInv, Owner
<1>5. CASE \/ AskRead \/ AskTool \/ AskPush \/ AskPolicy \/ AskNext \/ AskScan
  BY <1>5 DEF AskRead, AskTool, AskPush, AskPolicy, AskNext, AskScan, Ask, RouteInv
<1>6. CASE \/ HookRead \/ ServeTool \/ ServePush \/ ServePolicy \/ ServeNext \/ ServeScan
  <2>1. request' = request /\ request.kind # "command"
    BY <1>6 DEF HookRead, ServeTool, ServePush, ServePolicy, ServeNext, ServeScan, Open, Answer
  <2>2. QED
    BY <2>1 DEF RouteInv
<1>7. CASE UNCHANGED vars
  <2>1. request' = request /\ answer' = answer
    BY <1>7 DEF vars
  <2>2. QED
    BY <2>1 DEF RouteInv, Owner
<1>8. QED
  BY <1>1, <1>2, <1>3, <1>4, <1>5, <1>6, <1>7 DEF Next

\* What is on the host is control of the harness.
LEMMA HostIsControl ==
  ASSUME NEW now, OnHost(now)
  PROVE  HostControl(now.cmd)
<1>1. /\ ~now.cmd.live
      /\ now.cmd.segs = <<>> \/ Executables(now.cmd) \subseteq PassthroughBinaries
  BY DEF OnHost, HostPassthrough, SingleHeredocExec
<1>2. \A i \in DOMAIN now.cmd.segs :
        FirstExecutable(now.cmd.segs[i]) \in PassthroughBinaries \cup {None}
  BY <1>1 DEF Executables
<1>3. QED
  BY <1>1, <1>2 DEF OnHost, HostControl

\* The directory a command wrapped for its session ends in.
LEMMA RunsWhereAsked ==
  ASSUME NEW call \in ShellCalls, NEW s, NEW records, NEW cmd, NEW cwd,
         cmd = Wrap(call, s).cmd, cwd = Wrap(call, s).cwd,
         InSession(cwd, records), cwd.session = s
  PROVE  /\ (IF cmd.dir = None THEN cwd.rel ELSE cmd.dir) = ContainerWorkdir(call.cwd, s)
         /\ cmd.inner = call.cmd
<1> DEFINE workdir == ContainerWorkdir(call.cwd, s)
           host == HostCwd(call.cwd, s)
           flag == host[2] \/ (call.claude /\ workdir # Top /\ call.cwd # host[1])
           asked == call.cwd.base = "container"
                      \/ (call.cwd.base = "session" /\ call.cwd.session = s)
<1>1. /\ cmd = SessionExecCommand(call.cmd, workdir, flag)
      /\ cwd = IF call.claude THEN call.cwd ELSE host[1]
  BY WrapParts
<1>2. cmd.dir = (IF flag /\ workdir # Top THEN workdir ELSE None) /\ cmd.inner = call.cmd
  BY <1>1 DEF SessionExecCommand
<1>3. workdir = (IF asked THEN call.cwd.rel ELSE Top) /\ call.cwd.rel # None
  BY CallsAssumption DEF ContainerWorkdir
<1>4. host = IF asked /\ Exists(call.cwd.rel) THEN <<Dir("session", s, call.cwd.rel), FALSE>>
             ELSE <<Dir("session", s, Top), asked>>
  BY DEF HostCwd
<1>5. host[1].rel = IF asked /\ Exists(call.cwd.rel) THEN call.cwd.rel ELSE Top
  BY <1>4 DEF Dir
<1>6. host[2] <=> (asked /\ ~Exists(call.cwd.rel))
  <2>1. asked \in BOOLEAN
    OBVIOUS
  <2>2. CASE asked /\ Exists(call.cwd.rel)
    BY <1>4, <2>2
  <2>3. CASE ~(asked /\ Exists(call.cwd.rel))
    <3>1. host = <<Dir("session", s, Top), asked>>
      BY <1>4, <2>3
    <3> HIDE DEF asked, host
    <3>2. host[2] = asked
      BY <3>1
    <3>3. QED
      BY <2>1, <2>3, <3>2
  <2>4. QED
    BY <2>2, <2>3
<1>7. CASE flag /\ workdir # Top
  <2>1. workdir # None
    BY <1>3, <1>7
  <2>2. QED
    BY <1>2, <1>7, <2>1
<1>8. CASE ~(flag /\ workdir # Top)
  <2>1. cmd.dir = None
    BY <1>2, <1>8
  <2>2. cwd.rel = workdir
    <3>1. CASE call.claude
      <4>1. asked
        BY <1>1, <3>1 DEF InSession
      <4>2. QED
        BY <1>1, <1>3, <3>1, <4>1
    <3>2. CASE ~call.claude
      <4>1. cwd = host[1]
        BY <1>1, <3>2
      <4> HIDE DEF host, asked, workdir
      <4>2. QED
        BY <1>3, <1>5, <1>6, <1>8, <4>1
    <3>3. QED
      BY <3>1, <3>2
  <2>3. QED
    BY <1>2, <2>1, <2>2
<1>9. QED
  BY <1>7, <1>8

\* The shell runs a routed command where it belongs.
LEMMA RunRoutes ==
  ASSUME CommandInv, RouteInv, RunCommand
  PROVE  RoutedOrHostControl'
<1> DEFINE call == request.call
           now == request.now
           records == request.records
           own == Owner
           exact == request.hooks = 1 \/ "EOF" \notin call.cmd.lines
           ran == ShellRuns(now.cmd, now.cwd, records)
<1>1. /\ request # None /\ answer = None /\ request.kind = "command" /\ request.hooks > 0
      /\ request' = request /\ answer' = [what |-> "ran", ran |-> ran]
  BY DEF RunCommand, Open, Answer
<1>2. call \in ShellCalls /\ records \in RecordSets
  BY <1>1 DEF CommandInv
<1>3. Owner' = own /\ AskedDir' = ContainerWorkdir(call.cwd, own) /\ answer'.ran = ran
  BY <1>1 DEF Owner, AskedDir
<1>4. SUFFICES ASSUME ~call.inside, own # None
               PROVE  \/ ran.where = "host" /\ HostControl(ran.cmd)
                      \/ /\ ran.where = "container" /\ ran.session = own
                         /\ call.cmd.inner = None /\ exact =>
                              /\ ran.dir = ContainerWorkdir(call.cwd, own)
                              /\ ran.cmd = call.cmd
                      \/ /\ ran.where = "nowhere"
                         /\ \/ call.cmd.inner # None
                            \/ call.claude /\ ~InSession(call.cwd, records)
  <2> HIDE DEF own, ran, call, records
  <2>1. CASE ran.where = "host" /\ HostControl(ran.cmd)
    BY <1>1, <1>3, <2>1 DEF RoutedOrHostControl, call, records
  <2>2. CASE /\ ran.where = "container" /\ ran.session = own
             /\ call.cmd.inner = None /\ exact =>
                  ran.dir = ContainerWorkdir(call.cwd, own) /\ ran.cmd = call.cmd
    BY <1>1, <1>3, <2>2 DEF RoutedOrHostControl, call, records
  <2>3. CASE /\ ran.where = "nowhere"
             /\ call.cmd.inner # None \/ (call.claude /\ ~InSession(call.cwd, records))
    BY <1>1, <1>3, <2>3 DEF RoutedOrHostControl, call, records
  <2>4. CASE call.inside \/ own = None
    BY <1>1, <1>3, <2>4 DEF RoutedOrHostControl, call
  <2>5. QED
    BY <2>1, <2>2, <2>3, <2>4
<1>5. OnHost(now) \/ IntoContainer(call, now, own, exact)
  BY <1>1, <1>4 DEF RouteInv
<1>6. own \in DOMAIN records \cup {None} /\ (InSession(call.cwd, records) => own = call.cwd.session)
  BY SessionExists DEF Owner, ResolveSession
<1> HIDE DEF own, now, call, records, exact
<1>7. CASE OnHost(now)
  <2>1. ran.where = "host" /\ ran.cmd = now.cmd
    BY <1>7 DEF OnHost, ShellRuns
  <2> HIDE DEF ran
  <2>2. QED
    BY <1>7, <2>1, HostIsControl
<1>8. CASE IntoContainer(call, now, own, exact)
  <2>1. ran = SessionExec(now.cmd, now.cwd, records)
    BY <1>8 DEF IntoContainer, ShellRuns
  <2>2. CASE ~InSession(now.cwd, records) \/ ~Exists(now.cwd.rel)
    <3>1. ran.where = "nowhere"
      BY <2>1, <2>2 DEF SessionExec
    <3>2. CASE call.claude
      <4>1. now.cwd = call.cwd
        BY <1>8, <3>2 DEF IntoContainer
      <4>2. ~InSession(call.cwd, records)
        BY <1>2, <2>2, <3>2, <4>1, CallsAssumption DEF InSession
      <4>3. QED
        BY <3>1, <3>2, <4>2
    <3>3. CASE ~call.claude
      <4>1. call.cmd.inner # None
        BY <1>4, <1>6, <1>8, <2>2, <3>3 DEF IntoContainer, InSession
      <4>2. QED
        BY <3>1, <4>1
    <3>4. QED
      BY <3>2, <3>3
  <2>3. CASE InSession(now.cwd, records) /\ Exists(now.cwd.rel)
    <3>1. /\ ran.where = "container" /\ ran.session = now.cwd.session
          /\ ran.dir = IF now.cmd.dir = None THEN now.cwd.rel ELSE now.cmd.dir
          /\ ran.cmd = now.cmd.inner
      BY <2>1, <2>3 DEF SessionExec
    <3>2. now.cwd.session = own
      BY <1>6, <1>8, <2>3 DEF IntoContainer
    <3>3. call.cmd.inner = None /\ exact =>
            /\ (IF now.cmd.dir = None THEN now.cwd.rel ELSE now.cmd.dir)
                 = ContainerWorkdir(call.cwd, own)
            /\ now.cmd.inner = call.cmd
      <4>1. SUFFICES ASSUME call.cmd.inner = None, exact
                     PROVE  now.cmd = Wrap(call, own).cmd /\ now.cwd = Wrap(call, own).cwd
        BY <1>2, <2>3, <3>2, RunsWhereAsked
      <4>2. QED
        BY <1>8, <4>1 DEF IntoContainer
    <3> HIDE DEF ran
    <3>4. QED
      BY <3>1, <3>2, <3>3
  <2>4. QED
    BY <2>2, <2>3
<1>9. QED
  BY <1>5, <1>7, <1>8

\* A command is only answered when it has run, or was refused.
LEMMA RoutedStep ==
  ASSUME CommandInv, RouteInv, RoutedOrHostControl, [Next]_vars
  PROVE  RoutedOrHostControl'
<1>1. CASE Finish
  BY <1>1 DEF Finish, RoutedOrHostControl
<1>2. CASE \/ AskCommand \/ AskRead \/ AskTool \/ AskPush \/ AskPolicy \/ AskNext \/ AskScan
  <2>1. answer' = None
    BY <1>2
    DEF AskCommand, AskRead, AskTool, AskPush, AskPolicy, AskNext, AskScan, Ask
  <2>2. QED
    BY <2>1 DEF RoutedOrHostControl
<1>3. CASE Hook
  <2>1. answer' = None \/ answer' = [what |-> "denied"]
    <3>1. PICK onPath \in BOOLEAN : HookMoves(onPath)
      BY <1>3, HookEffect
    <3>2. QED
      BY <3>1 DEF HookMoves
  <2>2. QED
    BY <2>1 DEF RoutedOrHostControl
<1>4. CASE RunCommand
  BY <1>4, RunRoutes
<1>5. CASE \/ HookRead \/ ServeTool \/ ServePush \/ ServePolicy \/ ServeNext \/ ServeScan
  <2>1. request' = request /\ request.kind # "command"
    BY <1>5 DEF HookRead, ServeTool, ServePush, ServePolicy, ServeNext, ServeScan, Open, Answer
  <2>2. QED
    BY <2>1 DEF RoutedOrHostControl
<1>6. CASE UNCHANGED vars
  <2>1. request' = request /\ answer' = answer
    BY <1>6 DEF vars
  <2>2. QED
    BY <2>1 DEF RoutedOrHostControl, Owner, AskedDir
<1>7. QED
  BY <1>1, <1>2, <1>3, <1>4, <1>5, <1>6 DEF Next

\* A command of a session ends in the sandbox of that session, in the
\* directory the agent named, or only talks to the harness, for every command,
\* every directory and however many hooks look at it.
\* (evaluate_pre_tool_use, build_session_exec_command, session_exec_main)
THEOREM CommandsAreRouted == NoneIsNoRecord => (Spec => []RoutedOrHostControl)
<1> SUFFICES ASSUME NoneIsNoRecord
             PROVE  Spec => []RoutedOrHostControl
  OBVIOUS
<1>1. Init => CommandInv /\ RouteInv /\ RoutedOrHostControl
  BY DEF Init, CommandInv, RouteInv, RoutedOrHostControl
<1>2. CommandInv /\ RouteInv /\ RoutedOrHostControl /\ [Next]_vars =>
        (CommandInv /\ RouteInv /\ RoutedOrHostControl)'
  BY CommandStep, RouteStep, RoutedStep
<1>3. QED
  BY <1>1, <1>2, PTL DEF Spec

-----------------------------------------------------------------------------
(* A wrapper in front changes nothing                                      *)

\* A segment does not begin with an option, not even after assignments: what
\* the shell would look for there is a program.  (An option in that place is
\* one of the wrapper's as soon as there is a wrapper.)
ProgramsFirst ==
  \A call \in ShellCalls : call.cmd.segs # <<>> => ProgramFirst(call.cmd.segs[1])

\* What is decided about a segment is decided about the same behind a prefix.
LEMMA SameSegment ==
  ASSUME NEW S, NEW seg \in Seq(S), seg # <<>>, ProgramFirst(seg), NEW prefix \in WrapperPrefixes
  PROVE  /\ FirstExecutable(prefix \o seg) = FirstExecutable(seg)
         /\ FirstExecutable(seg) = "ros-maintainer-harness" =>
              SubcommandTokens(prefix \o seg) = SubcommandTokens(seg)
         /\ ForbiddenSegment(prefix \o seg) <=> ForbiddenSegment(seg)
         /\ Mentions(prefix \o seg, <<"ci_for_pr.py">>) <=> Mentions(seg, <<"ci_for_pr.py">>)
         /\ Mentions(prefix \o seg, <<"gh", "auth", "token">>)
              <=> Mentions(seg, <<"gh", "auth", "token">>)
<1> DEFINE T == S \cup PrefixVocabulary
           whole == prefix \o seg
<1>1. seg \in Seq(T) /\ prefix \in Seq(T) /\ DOMAIN prefix = 1..Len(prefix)
      /\ \A i \in 1..Len(prefix) : prefix[i] \in PrefixVocabulary
  <2>1. prefix \in Seq(PrefixVocabulary)
    BY PrefixesAre
  <2>2. seg \in Seq(T)
    OBVIOUS
  <2>3. QED
    BY <2>1, <2>2
<1>2. FirstExecutable(whole) = FirstExecutable(seg)
  BY SameProgram
<1> HIDE DEF T
<1>3. ASSUME FirstExecutable(seg) = "ros-maintainer-harness"
      PROVE  SubcommandTokens(whole) = SubcommandTokens(seg)
  <2>1. "ros-maintainer-harness" # None
    BY NoneIsNoWord DEF PassthroughBinaries, ControlBinaries
  <2>2. PICK named \in DOMAIN seg : seg[named] = "ros-maintainer-harness"
    <3>1. FirstExecutable(seg) \in {seg[i] : i \in DOMAIN seg} \cup {None}
      BY ProgramIsWord
    <3>2. QED
      BY <1>3, <2>1, <3>1
  <2>3. \A i \in 1..Len(prefix) : prefix[i] # "ros-maintainer-harness"
    BY <1>1 DEF PrefixVocabulary
  <2>4. QED
    BY <1>1, <2>2, <2>3, SameTokens
<1>4. ASSUME NEW words, Len(words) \in Nat, Len(words) > 0, words[1] \notin PrefixVocabulary
      PROVE  Mentions(whole, words) <=> Mentions(seg, words)
  <2>1. \A i \in 1..Len(prefix) : prefix[i] # words[1]
    BY <1>1, <1>4
  <2>2. QED
    BY <1>1, <1>4, <2>1, SameMentions
<1> HIDE DEF whole
<1>5. ASSUME NEW w, w \notin PrefixVocabulary
      PROVE  Mentions(whole, <<w>>) <=> Mentions(seg, <<w>>)
  <2> DEFINE words == <<w>>
  <2>1. Len(words) \in Nat /\ Len(words) > 0 /\ words[1] \notin PrefixVocabulary
    BY <1>5
  <2> HIDE DEF words
  <2>2. Mentions(whole, words) <=> Mentions(seg, words)
    BY <1>4, <2>1
  <2>3. QED
    BY <2>2 DEF words
<1>6. /\ \A w \in {"--no-push", "-h", "--help"} : Mentions(whole, <<w>>) <=> Mentions(seg, <<w>>)
      /\ Mentions(whole, <<"ci_for_pr.py">>) <=> Mentions(seg, <<"ci_for_pr.py">>)
  <2>1. \A w \in {"--no-push", "-h", "--help", "ci_for_pr.py"} : w \notin PrefixVocabulary
    BY DEF PrefixVocabulary
  <2>2. QED
    BY <1>5, <2>1
<1>7. Mentions(whole, <<"gh", "auth", "token">>) <=> Mentions(seg, <<"gh", "auth", "token">>)
  <2> DEFINE words == <<"gh", "auth", "token">>
  <2>1. Len(words) \in Nat /\ Len(words) > 0 /\ words[1] \notin PrefixVocabulary
    BY DEF PrefixVocabulary
  <2> HIDE DEF words
  <2>2. Mentions(whole, words) <=> Mentions(seg, words)
    BY <1>4, <2>1
  <2>3. QED
    BY <2>2 DEF words
<1>8. FirstExecutable(seg) = "ros-maintainer-harness" =>
        (SubcommandAllowed(whole) <=> SubcommandAllowed(seg))
  BY <1>3 DEF SubcommandAllowed
<1>9. ForbiddenSegment(whole) <=> ForbiddenSegment(seg)
  BY <1>2, <1>6, <1>8 DEF ForbiddenSegment
<1>10. QED
  BY <1>2, <1>3, <1>6, <1>7, <1>9 DEF whole

\* Two commands that differ only in segments about which the same is decided.
Alike(cmd, other) ==
  /\ other.live = cmd.live /\ other.inner = cmd.inner /\ other.delim = cmd.delim
  /\ DOMAIN other.segs = DOMAIN cmd.segs /\ Len(other.segs) = Len(cmd.segs)
  /\ DOMAIN cmd.segs = 1..Len(cmd.segs) /\ Len(cmd.segs) \in Nat \ {0}
  /\ other.segs # <<>> /\ cmd.segs # <<>>
  /\ \A i \in DOMAIN cmd.segs :
       /\ FirstExecutable(other.segs[i]) = FirstExecutable(cmd.segs[i])
       /\ FirstExecutable(cmd.segs[i]) = "ros-maintainer-harness" =>
            SubcommandTokens(other.segs[i]) = SubcommandTokens(cmd.segs[i])
       /\ ForbiddenSegment(other.segs[i]) <=> ForbiddenSegment(cmd.segs[i])
       /\ Mentions(other.segs[i], <<"ci_for_pr.py">>)
            <=> Mentions(cmd.segs[i], <<"ci_for_pr.py">>)
       /\ Mentions(other.segs[i], <<"gh", "auth", "token">>)
            <=> Mentions(cmd.segs[i], <<"gh", "auth", "token">>)

\* The same is decided about the commands.
LEMMA AlikeDecided ==
  ASSUME NEW cmd, NEW other, Alike(cmd, other)
  PROVE  /\ HostPassthrough(other) <=> HostPassthrough(cmd)
         /\ ForbiddenSessionCommand(other) <=> ForbiddenSessionCommand(cmd)
         /\ ForbiddenHostCommand(other) <=> ForbiddenHostCommand(cmd)
<1>1. Executables(other) = Executables(cmd)
  <2>1. {FirstExecutable(other.segs[i]) : i \in DOMAIN other.segs}
          = {FirstExecutable(cmd.segs[i]) : i \in DOMAIN cmd.segs}
    BY DEF Alike
  <2>2. QED
    BY <2>1 DEF Executables
<1>2. SingleHeredocExec(other) <=> SingleHeredocExec(cmd)
  BY DEF Alike, SingleHeredocExec
<1>3. HostPassthrough(other) <=> HostPassthrough(cmd)
  BY <1>1, <1>2 DEF Alike, HostPassthrough
<1>4. ForbiddenHostCommand(other) <=> ForbiddenHostCommand(cmd)
  BY <1>1, <1>3 DEF ForbiddenHostCommand
<1>5. 1 \in DOMAIN cmd.segs
  BY DEF Alike
<1>6. OnlyExec(other) <=> OnlyExec(cmd)
  BY <1>5 DEF Alike, OnlyExec
<1>7. ForbiddenSessionCommand(other) <=> ForbiddenSessionCommand(cmd)
  BY <1>2, <1>5, <1>6 DEF Alike, ForbiddenSessionCommand
<1>8. QED
  BY <1>3, <1>4, <1>7

\* A command with a prefix in front of its first segment is such a command.
LEMMA BehindAlike ==
  ASSUME NEW call \in ShellCalls, ProgramsFirst, call.cmd.segs # <<>>,
         call.cmd.segs[1] # <<>>, NEW prefix \in WrapperPrefixes,
         NEW other, other = [call EXCEPT !.cmd.segs[1] = prefix \o call.cmd.segs[1]]
  PROVE  /\ Alike(call.cmd, other.cmd)
         /\ "inner" \in DOMAIN call.cmd /\ "inner" \in DOMAIN other.cmd
         /\ other.claude = call.claude /\ other.inside = call.inside
         /\ other.cwd = call.cwd /\ other.open = call.open
         /\ other.conversation = call.conversation
<1> DEFINE cmd == call.cmd
           segs == cmd.segs
           seg == segs[1]
           whole == prefix \o seg
           longer == [segs EXCEPT ![1] = whole]
           new == [cmd EXCEPT !.segs = longer]
<1>1. call \in [claude : BOOLEAN, inside : BOOLEAN, cwd : {call.cwd}, open : {call.open},
                conversation : {call.conversation}, cmd : {call.cmd}]
      /\ cmd \in [segs : Seq(Seq(STRING)), live : BOOLEAN, quoted : BOOLEAN,
                  lines : {cmd.lines}, inner : {cmd.inner}, delim : {cmd.delim}, dir : {cmd.dir}]
  BY CallsAssumption
<1>2. segs \in Seq(Seq(STRING)) /\ Len(segs) \in Nat \ {0} /\ DOMAIN segs = 1..Len(segs)
      /\ seg \in Seq(STRING) /\ ProgramFirst(seg)
  <2>1. segs \in Seq(Seq(STRING)) /\ segs # <<>>
    BY <1>1
  <2>2. ProgramFirst(seg)
    BY DEF ProgramsFirst
  <2> HIDE DEF segs
  <2>3. QED
    BY <2>1, <2>2
<1>3. other = [call EXCEPT !.cmd = new]
  OBVIOUS
<1> HIDE DEF new
<1>4. /\ other.cmd = new
      /\ other.claude = call.claude /\ other.inside = call.inside
      /\ other.cwd = call.cwd /\ other.open = call.open
      /\ other.conversation = call.conversation
  <2> HIDE DEF cmd
  <2>1. QED
    BY <1>1, <1>3
<1> HIDE DEF longer
<1>5. /\ new.segs = longer /\ new.live = cmd.live /\ new.inner = cmd.inner
      /\ new.delim = cmd.delim /\ "inner" \in DOMAIN cmd /\ "inner" \in DOMAIN new
  <2> HIDE DEF cmd, segs
  <2>1. QED
    BY <1>1 DEF new
<1> HIDE DEF segs, whole
<1>6. /\ DOMAIN longer = DOMAIN segs /\ longer[1] = whole
      /\ \A i \in DOMAIN segs : i # 1 => longer[i] = segs[i]
  BY <1>2 DEF longer
<1>7. longer # <<>> /\ Len(longer) = Len(segs)
  <2> DEFINE U == Seq(STRING) \cup {whole}
  <2>1. segs \in Seq(U) /\ whole \in U
    BY <1>2
  <2> HIDE DEF U
  <2>2. longer \in Seq(U) /\ Len(longer) = Len(segs)
    BY <1>2, <2>1 DEF longer
  <2>3. QED
    BY <1>2, <2>2
<1>8. /\ FirstExecutable(whole) = FirstExecutable(seg)
      /\ FirstExecutable(seg) = "ros-maintainer-harness" =>
           SubcommandTokens(whole) = SubcommandTokens(seg)
      /\ ForbiddenSegment(whole) <=> ForbiddenSegment(seg)
      /\ Mentions(whole, <<"ci_for_pr.py">>) <=> Mentions(seg, <<"ci_for_pr.py">>)
      /\ Mentions(whole, <<"gh", "auth", "token">>) <=> Mentions(seg, <<"gh", "auth", "token">>)
  <2>1. seg # <<>>
    BY DEF segs
  <2>2. QED
    BY <1>2, <2>1, SameSegment DEF whole
<1>9. \A i \in DOMAIN segs :
        /\ FirstExecutable(longer[i]) = FirstExecutable(segs[i])
        /\ FirstExecutable(segs[i]) = "ros-maintainer-harness" =>
             SubcommandTokens(longer[i]) = SubcommandTokens(segs[i])
        /\ ForbiddenSegment(longer[i]) <=> ForbiddenSegment(segs[i])
        /\ Mentions(longer[i], <<"ci_for_pr.py">>) <=> Mentions(segs[i], <<"ci_for_pr.py">>)
        /\ Mentions(longer[i], <<"gh", "auth", "token">>)
             <=> Mentions(segs[i], <<"gh", "auth", "token">>)
  BY <1>6, <1>8
<1>10. Alike(cmd, other.cmd)
  <2> HIDE DEF cmd
  <2>1. segs # <<>>
    BY DEF segs, cmd
  <2>2. QED
    BY <1>2, <1>4, <1>5, <1>6, <1>7, <1>9, <2>1 DEF Alike, segs
<1>11. QED
  BY <1>4, <1>5, <1>10

\* The parts of the decision: what it says of two calls that differ only so.
LEMMA AlikeAnswered ==
  ASSUME NEW call, NEW other, Alike(call.cmd, other.cmd), call.inside \in BOOLEAN,
         other.claude = call.claude, other.inside = call.inside, other.cwd = call.cwd,
         other.open = call.open, other.conversation = call.conversation,
         call.cmd # None, other.cmd # None, NEW explicit, NEW records, NEW onPath,
         \A cmd : RewriteBareHarness(cmd, onPath) = cmd,
         NEW plain, plain = EvaluatePreToolUse(call, explicit, records, onPath),
         NEW wrapped, wrapped = EvaluatePreToolUse(other, explicit, records, onPath)
  PROVE  /\ wrapped.verdict = plain.verdict
         /\ wrapped.cwd = plain.cwd
         /\ call.cmd.inner = None => (wrapped.cmd.inner = None <=> plain.cmd.inner = None)
<1> DEFINE Session(cwd, open, conversation) ==
             ResolveSession([cwd |-> cwd, open |-> open, conversation |-> conversation],
                            explicit, records)
           s == ResolveSession(call, explicit, records)
<1>1. ResolveSession(other, explicit, records) = s
  <2>1. \A c : ResolveSession(c, explicit, records) = Session(c.cwd, c.open, c.conversation)
    <3>1. SUFFICES ASSUME NEW c
                   PROVE ResolveSession(c, explicit, records)
                           = Session(c.cwd, c.open, c.conversation)
      OBVIOUS
    <3>2. QED
      BY DEF ResolveSession
  <2> HIDE DEF Session
  <2>2. QED
    BY <2>1
<1> HIDE DEF s
<1>2. /\ HostPassthrough(other.cmd) <=> HostPassthrough(call.cmd)
      /\ ForbiddenSessionCommand(other.cmd) <=> ForbiddenSessionCommand(call.cmd)
      /\ ForbiddenHostCommand(other.cmd) <=> ForbiddenHostCommand(call.cmd)
      /\ other.cmd.inner = call.cmd.inner
  <2>1. other.cmd.inner = call.cmd.inner
    BY DEF Alike
  <2>2. QED
    BY <2>1, AlikeDecided
<1>3. /\ RewriteBareHarness(call.cmd, onPath) = call.cmd
      /\ RewriteBareHarness(other.cmd, onPath) = other.cmd
  OBVIOUS
<1> DEFINE home == IF call.cwd.base = "container"
                     THEN IF s = None THEN Dir("root", None, Top) ELSE Dir("session", s, Top)
                     ELSE call.cwd
           Way(c, out) ==
             \/ call.inside /\ out = Allow(c, c.cmd, call.cwd)
             \/ /\ ~call.inside /\ s # None /\ ForbiddenSessionCommand(call.cmd)
                /\ out = Deny(c)
             \/ /\ ~call.inside /\ (s # None => ~ForbiddenSessionCommand(call.cmd))
                /\ \/ HostPassthrough(call.cmd) /\ out = Allow(c, c.cmd, home)
                   \/ ~HostPassthrough(call.cmd) /\ s # None /\ out = Wrap(c, s)
                   \/ /\ ~HostPassthrough(call.cmd) /\ s = None
                      /\ ForbiddenHostCommand(call.cmd) /\ out = Deny(c)
                   \/ /\ ~HostPassthrough(call.cmd) /\ s = None
                      /\ ~ForbiddenHostCommand(call.cmd) /\ out = Allow(c, c.cmd, call.cwd)
<1>4. Way(call, plain)
  <2>1. s = ResolveSession(call, explicit, records)
    BY DEF s
  <2>2. QED
    BY <1>3, <2>1, Decided
<1>5. Way(other, wrapped)
  <2>1. s = ResolveSession(other, explicit, records) /\ other.inside \in BOOLEAN
    BY <1>1
  <2>2. QED
    BY <1>2, <1>3, <2>1, Decided
<1> HIDE DEF home
<1> DEFINE Same == /\ wrapped.verdict = plain.verdict
                   /\ wrapped.cwd = plain.cwd
                   /\ call.cmd.inner = None =>
                        (wrapped.cmd.inner = None <=> plain.cmd.inner = None)
<1>6. ASSUME NEW cwd, plain = Allow(call, call.cmd, cwd), wrapped = Allow(other, other.cmd, cwd)
      PROVE  Same
  BY <1>2, <1>6 DEF Allow
<1>7. ASSUME plain = Deny(call), wrapped = Deny(other)
      PROVE  Same
  BY <1>2, <1>7 DEF Deny
<1>8. ASSUME plain = Wrap(call, s), wrapped = Wrap(other, s)
      PROVE  Same
  <2>1. ASSUME NEW c
        PROVE  /\ Wrap(c, s).verdict = "allow" /\ Wrap(c, s).cmd.inner = c.cmd
               /\ Wrap(c, s).cwd = IF c.claude THEN c.cwd ELSE HostCwd(c.cwd, s)[1]
    BY DEF Wrap, Allow, SessionExecCommand
  <2>2. /\ plain.verdict = "allow" /\ wrapped.verdict = "allow"
        /\ plain.cmd.inner = call.cmd /\ wrapped.cmd.inner = other.cmd
    BY <1>8, <2>1
  <2>3. wrapped.cwd = plain.cwd
    BY <1>8, <2>1
  <2>4. QED
    BY <2>2, <2>3
<1>9. SUFFICES Same
  OBVIOUS
<1> HIDE DEF Same
<1>10. CASE call.inside
  <2>1. plain = Allow(call, call.cmd, call.cwd) /\ wrapped = Allow(other, other.cmd, call.cwd)
    BY <1>4, <1>5, <1>10
  <2>2. QED
    BY <1>6, <2>1
<1>11. CASE ~call.inside /\ s # None /\ ForbiddenSessionCommand(call.cmd)
  <2>1. plain = Deny(call) /\ wrapped = Deny(other)
    BY <1>4, <1>5, <1>11
  <2>2. QED
    BY <1>7, <2>1
<1>12. CASE ~call.inside /\ (s # None => ~ForbiddenSessionCommand(call.cmd))
  <2>1. CASE HostPassthrough(call.cmd)
    <3>1. plain = Allow(call, call.cmd, home) /\ wrapped = Allow(other, other.cmd, home)
      BY <1>4, <1>5, <1>12, <2>1
    <3>2. QED
      BY <1>6, <3>1
  <2>2. CASE ~HostPassthrough(call.cmd) /\ s # None
    <3>1. plain = Wrap(call, s) /\ wrapped = Wrap(other, s)
      BY <1>4, <1>5, <1>12, <2>2
    <3>2. QED
      BY <1>8, <3>1
  <2>3. CASE ~HostPassthrough(call.cmd) /\ s = None /\ ForbiddenHostCommand(call.cmd)
    <3>1. plain = Deny(call) /\ wrapped = Deny(other)
      BY <1>4, <1>5, <1>12, <2>3
    <3>2. QED
      BY <1>7, <3>1
  <2>4. CASE ~HostPassthrough(call.cmd) /\ s = None /\ ~ForbiddenHostCommand(call.cmd)
    <3>1. plain = Allow(call, call.cmd, call.cwd) /\ wrapped = Allow(other, other.cmd, call.cwd)
      BY <1>4, <1>5, <1>12, <2>4
    <3>2. QED
      BY <1>6, <3>1
  <2>5. QED
    BY <2>1, <2>2, <2>3, <2>4
<1>13. QED
  BY <1>10, <1>11, <1>12

\* A segment without words runs nothing.
LEMMA EmptyRunsNothing == FirstExecutable(<<>>) = None
<1> DEFINE seg == <<>>
<1>1. seg \in Seq({None}) /\ Len(seg) = 0
  OBVIOUS
<1> HIDE DEF seg
<1>2. Ends(seg, 1, "none") /\ 1 \in 1..(Len(seg) + 2) /\ 1 > Len(seg) /\ "none" \in Modes
  BY <1>1 DEF Ends, Modes
<1>3. FirstExecutable(seg) = None
  BY <1>1, <1>2, ScanIs DEF FirstExecutable
<1>4. QED
  BY <1>3 DEF seg

\* A wrapper in front of a program makes no difference to what the hook decides
\* about the command, whatever the command, the call and the sessions.
\* (_first_executable_in_segment)
THEOREM WrappersDoNotMatter ==
  NoneIsNoRecord /\ ProgramsFirst => (Spec => []WrappersTransparent)
<1> SUFFICES ASSUME NoneIsNoRecord, ProgramsFirst
             PROVE  Spec => []WrappersTransparent
  OBVIOUS
<1>1. Init => CommandInv
  BY DEF Init, CommandInv
<1>2. CommandInv /\ [Next]_vars => CommandInv'
  BY CommandStep
<1>3. CommandInv => WrappersTransparent
  <2>1. SUFFICES ASSUME CommandInv, request # None, request.kind = "command",
                        request.call.cmd.segs # <<>>,
                        FirstExecutable(request.call.cmd.segs[1]) # None,
                        NEW prefix \in WrapperPrefixes
                 PROVE  LET call == request.call
                            plain == EvaluatePreToolUse(call, request.explicit,
                                       request.records, TRUE)
                            wrapped == EvaluatePreToolUse(
                              [call EXCEPT !.cmd.segs[1] = prefix \o call.cmd.segs[1]],
                              request.explicit, request.records, TRUE)
                        IN /\ wrapped.verdict = plain.verdict
                           /\ wrapped.cwd = plain.cwd
                           /\ call.cmd.inner = None =>
                                (wrapped.cmd.inner = None <=> plain.cmd.inner = None)
    BY Zenon DEF WrappersTransparent
  <2> DEFINE call == request.call
             seg == call.cmd.segs[1]
             other == [call EXCEPT !.cmd.segs[1] = prefix \o seg]
  <2>2. call \in ShellCalls /\ call.inside \in BOOLEAN
    <3>1. call \in ShellCalls
      BY <2>1 DEF CommandInv
    <3>2. QED
      BY <3>1, CallsAssumption
  <2>3. seg # <<>>
    BY <2>1, EmptyRunsNothing
  <2>4. call.cmd.segs # <<>>
    BY <2>1
  <2> HIDE DEF call
  <2>5. /\ Alike(call.cmd, other.cmd)
        /\ "inner" \in DOMAIN call.cmd /\ "inner" \in DOMAIN other.cmd
        /\ other.claude = call.claude /\ other.inside = call.inside
        /\ other.cwd = call.cwd /\ other.open = call.open
        /\ other.conversation = call.conversation
    BY <2>2, <2>3, <2>4, BehindAlike
  <2>6. call.cmd # None /\ other.cmd # None
    BY <2>5 DEF NoneIsNoRecord
  <2>7. PICK onPath : onPath = TRUE
    OBVIOUS
  <2>8. \A cmd : RewriteBareHarness(cmd, onPath) = cmd
    BY <2>7, Zenon DEF RewriteBareHarness
  <2> DEFINE plain == EvaluatePreToolUse(call, request.explicit, request.records, onPath)
             wrapped == EvaluatePreToolUse(other, request.explicit, request.records, onPath)
  <2>9. /\ wrapped.verdict = plain.verdict
        /\ wrapped.cwd = plain.cwd
        /\ call.cmd.inner = None => (wrapped.cmd.inner = None <=> plain.cmd.inner = None)
    <3> HIDE DEF other
    <3>1. QED
      BY <2>2, <2>5, <2>6, <2>8, AlikeAnswered
  <2>10. QED
    BY <2>7, <2>9, Zenon DEF call
<1>4. QED
  BY <1>1, <1>2, <1>3, PTL DEF Spec

-----------------------------------------------------------------------------
(* The scanners                                                            *)

\* Every request has a kind; the line being scanned is one of the lines.
ScanInv ==
  request # None => /\ "kind" \in DOMAIN request
                    /\ request.kind = "scan" => request.line \in Lines

\* Only AskScan brings a line, only ServeScan answers for it.
LEMMA ScanStep ==
  ASSUME ScanInv, ScannersAgree, [Next]_vars
  PROVE  ScanInv' /\ ScannersAgree'
<1>1. CASE Finish
  BY <1>1 DEF Finish, ScanInv, ScannersAgree
<1>2. CASE \/ AskCommand \/ AskRead \/ AskTool \/ AskPush \/ AskPolicy \/ AskNext \/ AskScan
  BY <1>2 DEF AskCommand, AskRead, AskTool, AskPush, AskPolicy, AskNext, AskScan, Ask,
              ScanInv, ScannersAgree
<1>3. CASE Hook
  <2>1. request # None /\ "kind" \in DOMAIN request /\ request.kind = "command"
    BY <1>3 DEF Hook, Open, ScanInv
  <2>2. \E cmd, cwd : request' = [request EXCEPT !.hooks = @ + 1, !.now.cmd = cmd, !.now.cwd = cwd]
    BY <1>3, Zenon DEF Hook
  <2>3. "kind" \in DOMAIN request' /\ request'.kind = "command"
    BY <2>1, <2>2
  <2>4. QED
    BY <2>3 DEF ScanInv, ScannersAgree
<1>4. CASE \/ RunCommand \/ HookRead \/ ServeTool \/ ServePush \/ ServePolicy \/ ServeNext
  <2>1. request' = request /\ request.kind # "scan"
    BY <1>4 DEF RunCommand, HookRead, ServeTool, ServePush, ServePolicy, ServeNext, Open, Answer
  <2>2. QED
    BY <2>1 DEF ScanInv, ScannersAgree
<1>5. CASE ServeScan
  <2> DEFINE line == request.line
  <2>1. /\ request # None /\ request.kind = "scan" /\ request' = request
        /\ answer' = [what |-> "scanned", cuts |-> Cuts(line),
                      live |-> ContainsShellSubstitution(line)]
    BY <1>5 DEF ServeScan, Open, Answer
  <2>2. line \in Seq(Chars)
    BY <2>1, LinesAssumption DEF ScanInv
  <2>3. Cuts(line) = ShellCuts(line) /\ (ContainsShellSubstitution(line) <=> ShellExpands(line))
    BY <2>2, CutsAgree, SubstitutionsAgree, Zenon
  <2>4. answer'.cuts = ShellCuts(line) /\ (answer'.live <=> ShellExpands(line))
    <3>1. answer'.cuts = Cuts(line) /\ answer'.live = ContainsShellSubstitution(line)
      BY <2>1
    <3> HIDE DEF line
    <3>2. QED
      BY <2>3, <3>1, Zenon
  <2>5. ScannersAgree'
    BY <2>1, <2>4, Zenon DEF ScannersAgree
  <2>6. ScanInv'
    BY <2>1 DEF ScanInv
  <2>7. QED
    BY <2>5, <2>6
<1>6. CASE UNCHANGED vars
  <2>1. request' = request /\ answer' = answer
    BY <1>6 DEF vars
  <2>2. QED
    BY <2>1, Zenon DEF ScanInv, ScannersAgree
<1>7. QED
  BY <1>1, <1>2, <1>3, <1>4, <1>5, <1>6 DEF Next

\* A line is cut and its substitutions are found as the shell would, for every
\* line of any length.  (_split_top_level_segments, _contains_shell_substitution)
THEOREM ScannersAreRight == Spec => []ScannersAgree
<1>1. Init => ScanInv /\ ScannersAgree
  BY DEF Init, ScanInv, ScannersAgree
<1>2. ScanInv /\ ScannersAgree /\ [Next]_vars => (ScanInv /\ ScannersAgree)'
  BY ScanStep
<1>3. QED
  BY <1>1, <1>2, PTL DEF Spec
-----------------------------------------------------------------------------
(* What to do next: a list that is gone through, a set made a list, lists *)
(* put together.                                                          *)

\* The finite sets and their sizes are the same in every module.
LEMMA SameFinite == ASSUME NEW S PROVE Hub!IsFiniteSet(S) <=> IsFiniteSet(S)
BY DEF Hub!IsFiniteSet, IsFiniteSet

\* (As above.)
LEMMA SameCard == ASSUME NEW S PROVE Hub!Cardinality(S) = Cardinality(S)
BY DEF Hub!Cardinality, Cardinality

\* A finite set as a list has each of its elements once.
LEMMA SetToSeqIs ==
  ASSUME NEW S, IsFiniteSet(S)
  PROVE  \E n \in Nat :
           /\ Hub!SetToSeq(S) \in [1..n -> S]
           /\ \A i, j \in 1..n : Hub!SetToSeq(S)[i] = Hub!SetToSeq(S)[j] => i = j
           /\ \A x \in S : \E i \in 1..n : Hub!SetToSeq(S)[i] = x
<1> DEFINE n == Cardinality(S)
           D == 1..n
           q == Hub!SetToSeq(S)
<1>1. n \in Nat /\ ExistsBijection(D, S)
  BY FS_CardinalityType
<1>2. q = CHOOSE f \in [D -> S] : Hub!IsInjective(f)
  BY SameCard DEF Hub!SetToSeq
<1>3. PICK b \in Bijection(D, S) : TRUE
  BY <1>1 DEF ExistsBijection
<1>4. b \in [D -> S] /\ Hub!IsInjective(b)
  BY <1>3 DEF Bijection, Injection, IsInjective, Hub!IsInjective
<1> HIDE DEF q, n
<1>5. q \in [D -> S] /\ Hub!IsInjective(q)
  BY <1>2, <1>4
<1>6. \A i, j \in D : q[i] = q[j] => i = j
  BY <1>5 DEF Hub!IsInjective
<1>7. q \in Injection(D, S)
  BY <1>5, <1>6 DEF Injection, IsInjective
<1>8. Cardinality(D) = Cardinality(S) /\ IsFiniteSet(D)
  <2>1. n \in Int /\ 1 \in Int /\ (1 > n => n = 0) /\ n - 1 + 1 = n
    BY <1>1
  <2>2. Cardinality(1..n) = n /\ IsFiniteSet(1..n)
    BY <2>1, FS_Interval
  <2>3. QED
    BY <2>2 DEF n
<1>9. q \in Surjection(D, S)
  BY <1>7, <1>8, FS_Injection
<1>10. \A x \in S : \E i \in D : q[i] = x
  BY <1>9 DEF Surjection
<1>11. QED
  BY <1>1, <1>5, <1>6, <1>10 DEF q

\* f[n] is what step has made of first after n elements of a list.
Accumulates(f, N, first, step) ==
  \A n \in 0..N : f[n] = IF n = 0 THEN first ELSE step[<<n, f[n - 1]>>]

\* A list that is gone through from its beginning: the value after n elements is
\* made of the one before.
LEMMA FoldExists ==
  ASSUME NEW N \in Nat, NEW V, NEW first \in V, NEW step \in [(1..N) \X V -> V]
  PROVE  \E f \in [0..N -> V] : Accumulates(f, N, first, step)
<1> DEFINE D == 0..N
           firsts == [n \in D |-> first]
           next == [n \in D |-> IF n = 0 THEN 0 ELSE n - 1]
           steps == [x \in D \X V |-> IF x[1] = 0 THEN first ELSE step[x]]
           rank == [n \in D |-> n]
<1>1. firsts \in [D -> V] /\ next \in [D -> D] /\ rank \in [D -> Nat] /\ N + 1 \in Nat
  OBVIOUS
<1>2. ASSUME NEW x \in D \X V
      PROVE  (IF x[1] = 0 THEN first ELSE step[x]) \in V
  <2>1. CASE x[1] = 0
    BY <2>1
  <2>2. CASE x[1] # 0
    <3>1. x[1] \in 1..N /\ x[2] \in V /\ x = <<x[1], x[2]>>
      BY <2>2
    <3>2. x \in (1..N) \X V
      BY <3>1
    <3>3. QED
      BY <2>2, <3>2
  <2>3. QED
    BY <2>1, <2>2
<1>3. steps \in [D \X V -> V]
  BY <1>2
<1>4. \A n \in D : rank[n] < N + 1 /\ (n \notin {0} => rank[next[n]] < rank[n])
  OBVIOUS
<1>5. PICK f \in [D -> V] : Solves(f, D, {0}, firsts, next, steps)
  <2> HIDE DEF D, firsts, next, steps, rank
  <2>1. QED
    BY <1>1, <1>3, <1>4, Recursion
<1>6. f = [n \in D |-> IF n \in {0} THEN firsts[n] ELSE steps[<<n, f[next[n]]>>]]
  BY <1>5 DEF Solves
<1>7. ASSUME NEW n \in D
      PROVE  f[n] = IF n = 0 THEN first ELSE step[<<n, f[n - 1]>>]
  <2>1. f[n] = IF n \in {0} THEN firsts[n] ELSE steps[<<n, f[next[n]]>>]
    BY <1>6
  <2>2. CASE n = 0
    BY <2>1, <2>2
  <2>3. CASE n # 0
    <3>1. next[n] = n - 1 /\ n - 1 \in D
      BY <2>3
    <3>2. f[n - 1] \in V /\ <<n, f[n - 1]>> \in D \X V
      BY <3>1
    <3>3. steps[<<n, f[n - 1]>>] = step[<<n, f[n - 1]>>]
      BY <2>3, <3>2
    <3>4. QED
      BY <2>1, <2>3, <3>1, <3>3
  <2>4. QED
    BY <2>2, <2>3
<1>8. QED
  BY <1>7 DEF Accumulates

\* Induction up to a number.
LEMMA UpTo ==
  ASSUME NEW N \in Nat, NEW G, 0 \in G, \A m \in 1..N : m - 1 \in G => m \in G
  PROVE  \A m \in 0..N : m \in G
<1> DEFINE S == {n \in Nat : n <= N => n \in G}
<1>1. 0 \in S
  OBVIOUS
<1>2. ASSUME NEW n \in Nat, n \in S PROVE n + 1 \in S
  <2>1. CASE n + 1 <= N
    <3>1. n + 1 \in 1..N /\ (n + 1) - 1 = n /\ n <= N
      BY <2>1
    <3>2. n \in G
      BY <1>2, <3>1
    <3>3. n + 1 \in G
      BY <3>1, <3>2
    <3>4. QED
      BY <3>3
  <2>2. CASE ~(n + 1 <= N)
    BY <2>2
  <2>3. QED
    BY <2>1, <2>2
<1>3. Nat \subseteq S
  <2> HIDE DEF S
  <2>1. QED
    BY <1>1, <1>2, Induction
<1>4. QED
  BY <1>3

\* What holds of the beginning and is kept by every step holds after each of them.
LEMMA FoldKeeps ==
  ASSUME NEW N \in Nat, NEW f, NEW V, f[0] \in V,
         \A n \in 1..N : f[n - 1] \in V => f[n] \in V
  PROVE  \A n \in 0..N : f[n] \in V
<1> DEFINE G == {n \in 0..N : f[n] \in V}
<1>1. 0 \in G
  OBVIOUS
<1>2. \A m \in 1..N : m - 1 \in G => m \in G
  OBVIOUS
<1>3. \A m \in 0..N : m \in G
  <2> HIDE DEF G
  <2>1. QED
    BY <1>1, <1>2, UpTo
<1>4. QED
  BY <1>3

\* No two elements of the list have the same URL.
Distinct(found) == \A i, j \in DOMAIN found : found[i].url = found[j].url => i = j

\* What GitHub answers is added without a URL appearing twice.
LEMMA AddUnseenKeeps ==
  ASSUME NEW S, NEW found \in Seq(S), Distinct(found), NEW got,
         Hub!IsAnswer(got), Hub!Offered(got) \subseteq S
  PROVE  Hub!AddUnseen(found, got) \in Seq(S) /\ Distinct(Hub!AddUnseen(found, got))
<1>1. CASE got = Missing
  BY <1>1 DEF Hub!AddUnseen
<1>2. CASE got # Missing
  <2> DEFINE N == Len(got)
             V == {q \in Seq(S) : Distinct(q)}
             seen(acc, n) == \E i \in DOMAIN acc : acc[i].url = got[n].url
             body(n, acc) == IF seen(acc, n) THEN acc ELSE Append(acc, got[n])
             added == CHOOSE g : g = [n \in 0..N |-> IF n = 0 THEN found ELSE body(n, g[n - 1])]
  <2>1. got \in Seq(Hub!Offered(got))
    BY <1>2 DEF Hub!IsAnswer
  <2>2. N \in Nat /\ \A n \in 1..N : got[n] \in S
    BY <2>1
  <2>3. ASSUME NEW n \in 1..N, NEW acc \in V
        PROVE  body(n, acc) \in V
    <3>1. CASE seen(acc, n)
      BY <3>1
    <3>2. CASE ~seen(acc, n)
      <4> DEFINE longer == Append(acc, got[n])
      <4>1. acc \in Seq(S) /\ got[n] \in S /\ Len(acc) \in Nat
        BY <2>2
      <4>2. /\ longer \in Seq(S) /\ DOMAIN acc = 1..Len(acc)
            /\ DOMAIN longer = 1..(Len(acc) + 1)
            /\ longer[Len(acc) + 1] = got[n]
            /\ \A i \in 1..Len(acc) : longer[i] = acc[i]
        BY <4>1
      <4> HIDE DEF longer
      <4>3. Distinct(longer)
        <5>1. SUFFICES ASSUME NEW i \in 1..(Len(acc) + 1), NEW j \in 1..(Len(acc) + 1),
                              longer[i].url = longer[j].url
                       PROVE  i = j
          BY <4>2 DEF Distinct
        <5>2. CASE i \in 1..Len(acc) /\ j \in 1..Len(acc)
          BY <4>2, <5>1, <5>2 DEF Distinct
        <5>3. CASE i = Len(acc) + 1 /\ j = Len(acc) + 1
          BY <5>3
        <5>4. CASE i \in 1..Len(acc) /\ j = Len(acc) + 1
          BY <3>2, <4>2, <5>1, <5>4
        <5>5. CASE j \in 1..Len(acc) /\ i = Len(acc) + 1
          BY <3>2, <4>2, <5>1, <5>5
        <5>6. QED
          BY <4>1, <5>2, <5>3, <5>4, <5>5
      <4>4. QED
        BY <3>2, <4>2, <4>3 DEF longer
    <3>3. QED
      BY <3>1, <3>2
  <2> DEFINE step == [x \in (1..N) \X V |-> body(x[1], x[2])]
  <2> HIDE DEF body, N, V
  <2>4. found \in V
    BY DEF V
  <2>5. step \in [(1..N) \X V -> V]
    BY <2>3
  <2>6. PICK f \in [0..N -> V] : Accumulates(f, N, found, step)
    <3> HIDE DEF step
    <3>1. N \in Nat
      BY <2>2
    <3>2. QED
      BY <3>1, <2>4, <2>5, FoldExists
  <2>7. \A n \in 0..N : n # 0 => n \in 1..N /\ n - 1 \in 0..N
    BY <2>2
  <2>8. \A n \in 0..N : f[n] = IF n = 0 THEN found ELSE body(n, f[n - 1])
    BY <2>6, <2>7 DEF Accumulates
  <2>9. f = [n \in 0..N |-> IF n = 0 THEN found ELSE body(n, f[n - 1])]
    BY <2>8
  <2>10. added = [n \in 0..N |-> IF n = 0 THEN found ELSE body(n, added[n - 1])]
    BY <2>9, Zenon
  <2>11. Hub!AddUnseen(found, got) = added[N]
    BY <1>2 DEF Hub!AddUnseen, body, N
  <2> HIDE DEF added
  <2>12. added[0] \in V
    BY <2>2, <2>4, <2>10
  <2>13. \A n \in 1..N : added[n] = body(n, added[n - 1])
    BY <2>2, <2>10
  <2>14. \A n \in 1..N : added[n - 1] \in V => added[n] \in V
    BY <2>3, <2>13
  <2>15. \A n \in 0..N : added[n] \in V
    <3>1. N \in Nat
      BY <2>2
    <3>2. QED
      BY <3>1, <2>12, <2>14, FoldKeeps, Zenon
  <2>16. QED
    BY <2>2, <2>11, <2>15 DEF V
<1>3. QED
  BY <1>1, <1>2

\* The pull requests GitHub offers at all.
Offers(w) ==
  Hub!Offered(w.review) \cup UNION {Hub!Offered(w.repos[i]) : i \in DOMAIN w.repos}

\* At most `limit` of them are found, each once.
LEMMA FoundOnce ==
  ASSUME NEW w, Hub!IsWorkspace(w), NEW limit \in Nat
  PROVE  /\ Hub!QueryOpenPRs(w.review, w.repos, limit) \in Seq(Offers(w))
         /\ Distinct(Hub!QueryOpenPRs(w.review, w.repos, limit))
         /\ Len(Hub!QueryOpenPRs(w.review, w.repos, limit)) <= limit
<1> DEFINE S == Offers(w)
           N == Len(w.repos)
           V == {q \in Seq(S) : Distinct(q)}
           first == Hub!AddUnseen(<<>>, w.review)
           body(n, acc) == IF Len(acc) >= limit THEN acc ELSE Hub!AddUnseen(acc, w.repos[n])
           asked == CHOOSE g : g = [n \in 0..N |-> IF n = 0 THEN first ELSE body(n, g[n - 1])]
           step == [x \in (1..N) \X V |-> body(x[1], x[2])]
           all == asked[N]
           m == IF Len(all) < limit THEN Len(all) ELSE limit
<1>1. Hub!IsAnswer(w.review) /\ Hub!Offered(w.review) \subseteq S
  BY DEF Hub!IsWorkspace, Offers
<1>2. N \in Nat
  BY DEF Hub!IsWorkspace
<1>3. \A n \in 1..N : Hub!IsAnswer(w.repos[n]) /\ Hub!Offered(w.repos[n]) \subseteq S
  <2>1. DOMAIN w.repos = 1..N
    BY DEF Hub!IsWorkspace
  <2>2. QED
    BY <2>1 DEF Hub!IsWorkspace, Offers
<1> HIDE DEF S, N
<1>4. first \in V
  <2>1. << >> \in Seq(S) /\ Distinct(<< >>)
    BY DEF Distinct
  <2>2. QED
    BY <1>1, <2>1, AddUnseenKeeps
<1>5. ASSUME NEW n \in 1..N, NEW acc \in V
      PROVE  body(n, acc) \in V
  BY <1>3, AddUnseenKeeps
<1> HIDE DEF first, body, V
<1>6. step \in [(1..N) \X V -> V]
  BY <1>5
<1>7. PICK f \in [0..N -> V] : Accumulates(f, N, first, step)
  <2> HIDE DEF step
  <2>1. QED
    BY <1>2, <1>4, <1>6, FoldExists
<1>8. \A n \in 0..N : n # 0 => n \in 1..N /\ n - 1 \in 0..N
  BY <1>2
<1>9. \A n \in 0..N : f[n] = IF n = 0 THEN first ELSE body(n, f[n - 1])
  BY <1>7, <1>8 DEF Accumulates
<1>10. f = [n \in 0..N |-> IF n = 0 THEN first ELSE body(n, f[n - 1])]
  BY <1>9
<1>11. asked = [n \in 0..N |-> IF n = 0 THEN first ELSE body(n, asked[n - 1])]
  BY <1>10, Zenon
<1>12. Hub!QueryOpenPRs(w.review, w.repos, limit) = SubSeq(all, 1, m)
  BY DEF Hub!QueryOpenPRs, body, first, N
<1> HIDE DEF asked
<1>13. asked[0] \in V
  BY <1>2, <1>4, <1>11
<1>14. \A n \in 1..N : asked[n] = body(n, asked[n - 1])
  BY <1>2, <1>11
<1>15. \A n \in 1..N : asked[n - 1] \in V => asked[n] \in V
  BY <1>5, <1>14
<1>16. all \in V
  <2>1. \A n \in 0..N : asked[n] \in V
    BY <1>2, <1>13, <1>15, FoldKeeps, Zenon
  <2>2. QED
    BY <1>2, <2>1
<1> HIDE DEF all
<1>17. all \in Seq(S) /\ Distinct(all) /\ m \in 0..Len(all) /\ m <= limit
  BY <1>16 DEF V
<1> HIDE DEF m
<1>18. /\ SubSeq(all, 1, m) \in Seq(S)
       /\ Len(SubSeq(all, 1, m)) = m
       /\ DOMAIN SubSeq(all, 1, m) = 1..m /\ DOMAIN all = 1..Len(all)
       /\ \A i \in 1..m : SubSeq(all, 1, m)[i] = all[i] /\ i \in 1..Len(all)
  BY <1>17
<1>19. Distinct(SubSeq(all, 1, m))
  BY <1>17, <1>18 DEF Distinct
<1>20. QED
  BY <1>12, <1>17, <1>18, <1>19 DEF S

\* The pull requests shown are found ones, each once and none in hand.
LEMMA TriageOnce ==
  ASSUME NEW status, NEW S, NEW found \in Seq(S), Distinct(found)
  PROVE  LET shown == Hub!TriageActions(status, found)
         IN /\ shown \in Seq({Hub!Action("P4_NEW_PR_TRIAGE", pr) : pr \in S})
            /\ Len(shown) <= Len(found)
            /\ \A i \in 1..Len(shown) : ~Hub!InHand(status, shown[i].about)
            /\ \A i, j \in 1..Len(shown) :
                 shown[i].about.url = shown[j].about.url => i = j
<1> DEFINE N == Len(found)
           A == {Hub!Action("P4_NEW_PR_TRIAGE", pr) : pr \in S}
           entry(n) == Hub!Action("P4_NEW_PR_TRIAGE", found[n])
           body(n, acc) == IF Hub!InHand(status, found[n]) THEN acc ELSE Append(acc, entry(n))
           new == CHOOSE g : g = [n \in 0..N |-> IF n = 0 THEN <<>> ELSE body(n, g[n - 1])]
           step == [x \in (1..N) \X Seq(A) |-> body(x[1], x[2])]
           Good(n) == /\ new[n] \in Seq(A) /\ Len(new[n]) <= n
                      /\ \A i \in 1..Len(new[n]) : \E k \in 1..n :
                           new[n][i] = entry(k) /\ ~Hub!InHand(status, found[k])
                      /\ \A i, j \in 1..Len(new[n]) :
                           new[n][i].about.url = new[n][j].about.url => i = j
           G == {n \in 0..N : Good(n)}
<1>1. N \in Nat /\ (\A n \in 1..N : found[n] \in S /\ entry(n) \in A) /\ DOMAIN found = 1..N
  OBVIOUS
<1>2. \A k : entry(k).about = found[k]
  BY DEF Hub!Action
<1> HIDE DEF entry, A
<1>3. \A n \in 1..N, acc \in Seq(A) : body(n, acc) \in Seq(A)
  BY <1>1
<1> HIDE DEF N, body
<1>4. step \in [(1..N) \X Seq(A) -> Seq(A)]
  BY <1>3
<1>5. << >> \in Seq(A)
  OBVIOUS
<1>6. PICK f \in [0..N -> Seq(A)] : Accumulates(f, N, << >>, step)
  <2> HIDE DEF step
  <2>1. QED
    BY <1>1, <1>4, <1>5, FoldExists
<1>7. \A n \in 0..N : n # 0 => n \in 1..N /\ n - 1 \in 0..N
  BY <1>1
<1>8. \A n \in 0..N : f[n] = IF n = 0 THEN <<>> ELSE body(n, f[n - 1])
  BY <1>6, <1>7 DEF Accumulates
<1>9. f = [n \in 0..N |-> IF n = 0 THEN <<>> ELSE body(n, f[n - 1])]
  BY <1>8
<1>10. new = [n \in 0..N |-> IF n = 0 THEN <<>> ELSE body(n, new[n - 1])]
  BY <1>9, Zenon
<1>11. Hub!TriageActions(status, found) = new[N]
  BY DEF Hub!TriageActions, body, entry, N
<1> HIDE DEF new
<1>12. 0 \in G
  <2>1. 0 \in 0..N /\ new[0] = << >>
    BY <1>1, <1>10
  <2>2. Len(new[0]) = 0 /\ 1..Len(new[0]) = {} /\ new[0] \in Seq(A)
    BY <1>5, <2>1
  <2>3. Good(0)
    BY <2>2
  <2>4. QED
    BY <2>1, <2>3
<1>13. ASSUME NEW n \in 1..N, n - 1 \in G
       PROVE  n \in G
  <2>1. new[n] = body(n, new[n - 1]) /\ n \in 0..N
    BY <1>1, <1>10
  <2>2. Good(n - 1)
    BY <1>13
  <2>3. CASE Hub!InHand(status, found[n])
    <3>1. new[n] = new[n - 1]
      BY <2>1, <2>3 DEF body
    <3>2. n - 1 <= n /\ \A k \in 1..(n - 1) : k \in 1..n
      BY <1>1
    <3>3. Good(n)
      BY <1>1, <2>2, <3>1, <3>2
    <3>4. QED
      BY <2>1, <3>3
  <2>4. CASE ~Hub!InHand(status, found[n])
    <3> DEFINE acc == new[n - 1]
               longer == new[n]
               m == Len(acc)
    <3>1. acc \in Seq(A) /\ entry(n) \in A /\ m \in Nat /\ m <= n - 1
      BY <1>1, <2>2
    <3>2. longer = Append(acc, entry(n))
      BY <2>1, <2>4 DEF body
    <3>3. /\ longer \in Seq(A) /\ Len(longer) = m + 1
          /\ longer[m + 1] = entry(n) /\ \A i \in 1..m : longer[i] = acc[i]
      BY <3>1, <3>2
    <3>4. \A i \in 1..m : \E k \in 1..(n - 1) :
             acc[i] = entry(k) /\ ~Hub!InHand(status, found[k])
      BY <2>2
    <3>5. \A i, j \in 1..m : acc[i].about.url = acc[j].about.url => i = j
      BY <2>2
    <3>6. m + 1 <= n /\ (\A k \in 1..(n - 1) : k \in 1..n /\ k # n) /\ n \in 1..n
      BY <1>1, <3>1
    <3> HIDE DEF acc, longer, m
    <3>7. \A i \in 1..(m + 1) : \E k \in 1..n :
             longer[i] = entry(k) /\ ~Hub!InHand(status, found[k])
      <4>1. SUFFICES ASSUME NEW i \in 1..(m + 1)
                     PROVE  \E k \in 1..n :
                              longer[i] = entry(k) /\ ~Hub!InHand(status, found[k])
        OBVIOUS
      <4>2. CASE i = m + 1
        BY <2>4, <3>3, <3>6, <4>2
      <4>3. CASE i # m + 1
        <5>1. i \in 1..m
          BY <3>1, <4>3
        <5>2. QED
          BY <3>3, <3>4, <3>6, <5>1
      <4>4. QED
        BY <4>2, <4>3
    <3>8. \A i \in 1..m : longer[i].about.url # longer[m + 1].about.url
      <4>1. SUFFICES ASSUME NEW i \in 1..m
                     PROVE  longer[i].about.url # longer[m + 1].about.url
        OBVIOUS
      <4>2. PICK k \in 1..(n - 1) : longer[i] = entry(k)
        BY <3>3, <3>4
      <4>3. k \in DOMAIN found /\ n \in DOMAIN found /\ k # n
        BY <1>1
      <4>4. found[k].url # found[n].url
        BY <4>3 DEF Distinct
      <4>5. QED
        BY <1>2, <3>3, <4>2, <4>4
    <3>9. \A i, j \in 1..(m + 1) : longer[i].about.url = longer[j].about.url => i = j
      <4>1. SUFFICES ASSUME NEW i \in 1..(m + 1), NEW j \in 1..(m + 1),
                            longer[i].about.url = longer[j].about.url
                     PROVE  i = j
        OBVIOUS
      <4>2. (i = m + 1 \/ i \in 1..m) /\ (j = m + 1 \/ j \in 1..m)
        BY <3>1
      <4>3. QED
        BY <3>3, <3>5, <3>8, <4>1, <4>2
    <3>10. Good(n)
      BY <3>3, <3>6, <3>7, <3>9 DEF longer
    <3>11. QED
      BY <2>1, <3>10
  <2>5. QED
    BY <2>3, <2>4
<1>14. Good(N)
  <2>1. \A n \in 0..N : n \in G
    <3> HIDE DEF G
    <3>1. N \in Nat /\ \A m \in 1..N : m - 1 \in G => m \in G
      BY <1>1, <1>13
    <3>2. QED
      BY <1>12, <3>1, UpTo
  <2>2. N \in G
    <3> HIDE DEF G
    <3>1. QED
      BY <1>1, <2>1
  <2> HIDE DEF Good
  <2>3. QED
    BY <2>2
<1>15. \A i \in 1..Len(new[N]) : ~Hub!InHand(status, new[N][i].about)
  BY <1>2, <1>14
<1>16. QED
  BY <1>11, <1>14, <1>15 DEF A, N

\* Where the elements of two lists stand in the one made of them.
LEMMA TwoLists ==
  ASSUME NEW X, NEW s \in Seq(X), NEW t \in Seq(X)
  PROVE  /\ s \o t \in Seq(X) /\ Len(s \o t) = Len(s) + Len(t)
         /\ \A i \in 1..Len(s) : (s \o t)[i] = s[i]
         /\ \A i \in 1..Len(t) : (s \o t)[Len(s) + i] = t[i]
OBVIOUS

\* all is made of four lists: where their elements stand in it.
Joined(all, e, a, q, t) ==
  LET le == Len(e)
      la == le + Len(a)
      lq == la + Len(q)
  IN /\ DOMAIN all = 1..(lq + Len(t))
     /\ \A i \in 1..Len(e) : all[i] = e[i]
     /\ \A i \in 1..Len(a) : all[le + i] = a[i]
     /\ \A i \in 1..Len(q) : all[la + i] = q[i]
     /\ \A i \in 1..Len(t) : all[lq + i] = t[i]
     /\ \A i \in DOMAIN all :
          \/ i \in 1..Len(e)
          \/ \E k \in 1..Len(a) : i = le + k
          \/ \E k \in 1..Len(q) : i = la + k
          \/ \E k \in 1..Len(t) : i = lq + k

\* Four lists, one after the other.
LEMMA FourLists ==
  ASSUME NEW X, NEW e \in Seq(X), NEW a \in Seq(X), NEW q \in Seq(X), NEW t \in Seq(X)
  PROVE  Joined(e \o a \o q \o t, e, a, q, t)
<1> DEFINE le == Len(e)
           la == le + Len(a)
           lq == la + Len(q)
           ea == e \o a
           eaq == ea \o q
           all == eaq \o t
<1>1. Len(e) \in Nat /\ Len(a) \in Nat /\ Len(q) \in Nat /\ Len(t) \in Nat
  OBVIOUS
<1>2. /\ ea \in Seq(X) /\ Len(ea) = la
      /\ \A i \in 1..Len(e) : ea[i] = e[i]
      /\ \A i \in 1..Len(a) : ea[le + i] = a[i]
  BY TwoLists
<1> HIDE DEF ea
<1>3. /\ eaq \in Seq(X) /\ Len(eaq) = lq
      /\ \A i \in 1..la : eaq[i] = ea[i]
      /\ \A i \in 1..Len(q) : eaq[la + i] = q[i]
  <2> HIDE DEF la
  <2>1. /\ eaq \in Seq(X) /\ Len(eaq) = Len(ea) + Len(q)
        /\ \A i \in 1..Len(ea) : eaq[i] = ea[i]
        /\ \A i \in 1..Len(q) : eaq[Len(ea) + i] = q[i]
    <3>1. ea \in Seq(X)
      BY <1>2
    <3>2. QED
      BY <3>1, TwoLists
  <2>2. QED
    BY <1>2, <2>1
<1> HIDE DEF eaq
<1>4. /\ all \in Seq(X) /\ Len(all) = lq + Len(t)
      /\ \A i \in 1..lq : all[i] = eaq[i]
      /\ \A i \in 1..Len(t) : all[lq + i] = t[i]
  <2> HIDE DEF la, lq
  <2>1. /\ all \in Seq(X) /\ Len(all) = Len(eaq) + Len(t)
        /\ \A i \in 1..Len(eaq) : all[i] = eaq[i]
        /\ \A i \in 1..Len(t) : all[Len(eaq) + i] = t[i]
    <3>1. eaq \in Seq(X)
      BY <1>3
    <3>2. QED
      BY <3>1, TwoLists
  <2>2. QED
    BY <1>3, <2>1
<1> HIDE DEF all
<1>5. DOMAIN all = 1..(lq + Len(t))
  BY <1>1, <1>4
<1>6. ASSUME NEW i \in Nat
      PROVE  /\ i \in 1..Len(e) => i \in 1..la /\ i \in 1..lq
             /\ i \in 1..Len(a) => le + i \in 1..la /\ le + i \in 1..lq
             /\ i \in 1..Len(q) => la + i \in 1..lq
  <2>1. i \in 1..Len(e) => i \in 1..la /\ i \in 1..lq
    BY <1>1
  <2>2. i \in 1..Len(a) => le + i \in 1..la /\ le + i \in 1..lq
    BY <1>1
  <2>3. i \in 1..Len(q) => la + i \in 1..lq
    BY <1>1
  <2>4. QED
    BY <2>1, <2>2, <2>3
<1>7. /\ \A i \in 1..Len(e) : all[i] = e[i]
      /\ \A i \in 1..Len(a) : all[le + i] = a[i]
      /\ \A i \in 1..Len(q) : all[la + i] = q[i]
      /\ \A i \in 1..Len(t) : all[lq + i] = t[i]
  <2> HIDE DEF le, la, lq
  <2>1. ASSUME NEW i \in 1..Len(e) PROVE all[i] = e[i]
    <3>1. i \in 1..la /\ i \in 1..lq
      BY <1>6
    <3>2. all[i] = eaq[i] /\ eaq[i] = ea[i] /\ ea[i] = e[i]
      BY <1>2, <1>3, <1>4, <3>1
    <3>3. QED
      BY <3>2
  <2>2. ASSUME NEW i \in 1..Len(a) PROVE all[le + i] = a[i]
    <3>1. le + i \in 1..la /\ le + i \in 1..lq
      BY <1>6
    <3>2. all[le + i] = eaq[le + i] /\ eaq[le + i] = ea[le + i] /\ ea[le + i] = a[i]
      BY <1>2, <1>3, <1>4, <3>1
    <3>3. QED
      BY <3>2
  <2>3. ASSUME NEW i \in 1..Len(q) PROVE all[la + i] = q[i]
    <3>1. la + i \in 1..lq
      BY <1>6
    <3>2. all[la + i] = eaq[la + i] /\ eaq[la + i] = q[i]
      BY <1>3, <1>4, <3>1
    <3>3. QED
      BY <3>2
  <2>4. QED
    BY <1>4, <2>1, <2>2, <2>3
<1>8. ASSUME NEW i \in 1..(lq + Len(t))
      PROVE  \/ i \in 1..Len(e)
             \/ \E k \in 1..Len(a) : i = le + k
             \/ \E k \in 1..Len(q) : i = la + k
             \/ \E k \in 1..Len(t) : i = lq + k
  <2>1. CASE i <= le
    BY <1>1, <2>1
  <2>2. CASE i > le /\ i <= la
    <3>1. i - le \in 1..Len(a) /\ i = le + (i - le)
      BY <1>1, <2>2
    <3>2. QED
      BY <3>1
  <2>3. CASE i > la /\ i <= lq
    <3>1. i - la \in 1..Len(q) /\ i = la + (i - la)
      BY <1>1, <2>3
    <3>2. QED
      BY <3>1
  <2>4. CASE i > lq
    <3>1. i - lq \in 1..Len(t) /\ i = lq + (i - lq)
      BY <1>1, <2>4
    <3>2. QED
      BY <3>1
  <2>5. i <= le \/ (i > le /\ i <= la) \/ (i > la /\ i <= lq) \/ i > lq
    BY <1>1
  <2>6. QED
    BY <2>1, <2>2, <2>3, <2>4, <2>5
<1>9. all = e \o a \o q \o t
  BY DEF all, eaq, ea
<1>10. Joined(all, e, a, q, t)
  <2>1. \A i \in DOMAIN all :
          \/ i \in 1..Len(e)
          \/ \E k \in 1..Len(a) : i = le + k
          \/ \E k \in 1..Len(q) : i = la + k
          \/ \E k \in 1..Len(t) : i = lq + k
    <3> HIDE DEF le, la, lq
    <3>1. QED
      BY <1>5, <1>8
  <2>2. QED
    BY <1>5, <1>7, <2>1, Zenon DEF Joined
<1>11. QED
  BY <1>9, <1>10

\* A session whose last run failed is shown as that, and a session is never
\* shown as a new pull request.
LEMMA PriorityIs ==
  ASSUME NEW summary
  PROVE  /\ Hub!PriorityOf(summary) # "P4_NEW_PR_TRIAGE"
         /\ summary.run \in Hub!Failed => Hub!PriorityOf(summary) = "P2_CI_FAILURE"
<1> DEFINE p == Hub!PriorityOf(summary)
           run == summary.run
           speaks == {"P1_SESSION_BLOCKED", "P2_SESSION_REVIEW", "P3_SESSION_IN_PROGRESS"}
<1>1. CASE run \in Hub!Failed
  <2>1. run # "SUCCESS" /\ run \notin Hub!UnderWay
    BY <1>1 DEF Hub!Failed, Hub!UnderWay
  <2>2. p = "P2_CI_FAILURE"
    BY <1>1, <2>1, Zenon DEF Hub!PriorityOf
  <2>3. QED
    BY <2>2
<1>2. CASE run = "SUCCESS"
  <2>1. run \notin Hub!Failed /\ run \notin Hub!UnderWay
    BY <1>2 DEF Hub!Failed, Hub!UnderWay
  <2>2. p = "P2_CI_SUCCESS"
    BY <1>2, <2>1, Zenon DEF Hub!PriorityOf
  <2>3. QED
    BY <2>1, <2>2
<1>3. CASE run \in Hub!UnderWay
  <2>1. run \notin Hub!Failed /\ run # "SUCCESS"
    BY <1>3 DEF Hub!Failed, Hub!UnderWay
  <2>2. p = "P3_CI_RUNNING"
    BY <1>3, <2>1, Zenon DEF Hub!PriorityOf
  <2>3. QED
    BY <2>1, <2>2
<1>4. CASE run \notin Hub!Failed /\ run # "SUCCESS" /\ run \notin Hub!UnderWay
  <2>1. summary.status = "blocked" => summary.status \notin {"needs_review", "ready_to_merge"}
    OBVIOUS
  <2>2. p = "P1_SESSION_BLOCKED" \/ p = "P2_SESSION_REVIEW" \/ p = "P3_SESSION_IN_PROGRESS"
    <3>1. CASE summary.status = "blocked"
      BY <1>4, <2>1, <3>1, Zenon DEF Hub!PriorityOf
    <3>2. CASE summary.status \in {"needs_review", "ready_to_merge"}
      BY <1>4, <2>1, <3>2, Zenon DEF Hub!PriorityOf
    <3>3. CASE summary.status # "blocked"
               /\ summary.status \notin {"needs_review", "ready_to_merge"}
      BY <1>4, <3>3, Zenon DEF Hub!PriorityOf
    <3>4. QED
      BY <3>1, <3>2, <3>3
  <2>3. QED
    BY <1>4, <2>2
<1>5. QED
  BY <1>1, <1>2, <1>3, <1>4

\* The list covers what the dashboard finds.
LEMMA ListCovers ==
  ASSUME NEW w, Hub!IsWorkspace(w), NEW limit \in Nat
  PROVE  Hub!Covers(w, limit, Hub!GetNextActions(w, limit))
<1> DEFINE records == w.records
           sessions == DOMAIN records
           tickets == w.tickets
           offers == Offers(w)
           status == Hub!GetWorkspaceStatus(w)
           open == {s \in sessions : records[s].status # "done"}
           found == Hub!QueryOpenPRs(w.review, w.repos, limit)
           P == {"P0_ENVIRONMENT", "P1_APPROVAL_NEEDED", "P4_NEW_PR_TRIAGE"}
                  \cup {Hub!PriorityOf(status.sessions[s]) : s \in sessions}
           Y == {Missing} \cup tickets \cup sessions \cup offers
           X == [priority : P, about : Y]
           e == Hub!EnvironmentActions(status)
           a == Hub!ApprovalActions(status)
           q == Hub!SessionActions(status)
           t == Hub!TriageActions(status, found)
           tk == Hub!SetToSeq(tickets)
           ss == Hub!SetToSeq(open)
<1>1. /\ IsFiniteSet(sessions) /\ IsFiniteSet(tickets)
      /\ sessions \cap tickets = {} /\ offers \cap (sessions \cup tickets) = {}
      /\ Missing \notin sessions \cup tickets \cup offers /\ Missing # "done"
  BY SameFinite DEF Hub!IsWorkspace, Offers, Hub!Statuses
<1>2. /\ DOMAIN status.sessions = sessions /\ status.pending = tickets
      /\ \A s \in sessions :
           /\ status.sessions[s].url = records[s].url
           /\ status.sessions[s].ref = records[s].ref
           /\ status.sessions[s].run = Hub!LatestRun(w.runs[s])
           /\ status.sessions[s].status =
                IF records[s].status = Missing THEN "active" ELSE records[s].status
  BY DEF Hub!GetWorkspaceStatus, Hub!Summary
<1>3. {s \in DOMAIN status.sessions : status.sessions[s].status # "done"} = open
  BY <1>1, <1>2
<1>4. IsFiniteSet(open)
  BY <1>1, FS_Subset
<1>5. \A p, x : Hub!Action(p, x).priority = p /\ Hub!Action(p, x).about = x
  BY DEF Hub!Action
<1>6. /\ \A p \in P, x \in Y : Hub!Action(p, x) \in X
      /\ Missing \in Y /\ tickets \subseteq Y /\ sessions \subseteq Y /\ offers \subseteq Y
      /\ {"P0_ENVIRONMENT", "P1_APPROVAL_NEEDED", "P4_NEW_PR_TRIAGE"} \subseteq P
      /\ \A s \in sessions : Hub!PriorityOf(status.sessions[s]) \in P
  <2>1. \A p \in P, x \in Y : Hub!Action(p, x) \in X
    <3> HIDE DEF P, Y
    <3>1. QED
      BY DEF Hub!Action
  <2>2. Missing \in Y /\ tickets \subseteq Y /\ sessions \subseteq Y /\ offers \subseteq Y
    OBVIOUS
  <2>3. \A s \in sessions : Hub!PriorityOf(status.sessions[s]) \in P
    OBVIOUS
  <2>4. QED
    BY <2>1, <2>2, <2>3
<1> HIDE DEF X, P, Y
<1>7. PICK na \in Nat : /\ tk \in [1..na -> tickets]
                        /\ \A i, j \in 1..na : tk[i] = tk[j] => i = j
                        /\ \A x \in tickets : \E i \in 1..na : tk[i] = x
  <2> HIDE DEF tickets
  <2>1. QED
    BY <1>1, SetToSeqIs
<1>8. PICK nq \in Nat : /\ ss \in [1..nq -> open]
                        /\ \A i, j \in 1..nq : ss[i] = ss[j] => i = j
                        /\ \A x \in open : \E i \in 1..nq : ss[i] = x
  <2> HIDE DEF open
  <2>1. QED
    BY <1>4, SetToSeqIs
<1>9. found \in Seq(offers) /\ Distinct(found) /\ Len(found) <= limit
  BY FoundOnce
<1> HIDE DEF records, tickets, offers, status, found, tk, ss
<1>10. /\ e \in Seq(X) /\ Len(e) \in Nat
       /\ \A i \in 1..Len(e) : e[i] = Hub!Action("P0_ENVIRONMENT", Missing)
  <2>1. Hub!Action("P0_ENVIRONMENT", Missing) \in X
    BY <1>6
  <2> HIDE DEF X
  <2>2. QED
    BY <2>1 DEF Hub!EnvironmentActions
<1>11. /\ a \in Seq(X) /\ Len(a) = na
       /\ \A i \in 1..na : a[i] = Hub!Action("P1_APPROVAL_NEEDED", tk[i])
  <2>1. DOMAIN tk = 1..na /\ Len(tk) = na
    BY <1>7
  <2>2. a = [i \in 1..na |-> Hub!Action("P1_APPROVAL_NEEDED", tk[i])]
    BY <1>2, <2>1 DEF Hub!ApprovalActions, tk
  <2>3. \A i \in 1..na : Hub!Action("P1_APPROVAL_NEEDED", tk[i]) \in X
    BY <1>6, <1>7
  <2> HIDE DEF X, a
  <2>4. QED
    BY <2>2, <2>3
<1>12. /\ q \in Seq(X) /\ Len(q) = nq
       /\ \A i \in 1..nq :
            q[i] = Hub!Action(Hub!PriorityOf(status.sessions[ss[i]]), ss[i])
  <2>1. DOMAIN ss = 1..nq
    BY <1>8
  <2>2. q = [i \in 1..nq |-> Hub!Action(Hub!PriorityOf(status.sessions[ss[i]]), ss[i])]
    BY <1>3, <2>1 DEF Hub!SessionActions, ss
  <2>3. \A i \in 1..nq : Hub!Action(Hub!PriorityOf(status.sessions[ss[i]]), ss[i]) \in X
    BY <1>6, <1>8 DEF open
  <2> HIDE DEF X, q
  <2>4. QED
    BY <2>2, <2>3
<1>13. /\ t \in Seq({Hub!Action("P4_NEW_PR_TRIAGE", pr) : pr \in offers})
       /\ Len(t) \in Nat /\ Len(t) <= limit
       /\ \A i \in 1..Len(t) : ~Hub!InHand(status, t[i].about)
       /\ \A i, j \in 1..Len(t) : t[i].about.url = t[j].about.url => i = j
  <2>1. /\ t \in Seq({Hub!Action("P4_NEW_PR_TRIAGE", pr) : pr \in offers})
        /\ Len(t) <= Len(found)
        /\ \A i \in 1..Len(t) : ~Hub!InHand(status, t[i].about)
        /\ \A i, j \in 1..Len(t) : t[i].about.url = t[j].about.url => i = j
    BY <1>9, TriageOnce
  <2>2. Len(t) \in Nat /\ Len(found) \in Nat
    BY <1>9, <2>1
  <2>3. QED
    BY <1>9, <2>1, <2>2
<1>14. \A i \in 1..Len(t) : t[i].about \in offers /\ t[i].priority = "P4_NEW_PR_TRIAGE"
  <2>1. ASSUME NEW i \in 1..Len(t)
        PROVE  t[i] \in {Hub!Action("P4_NEW_PR_TRIAGE", pr) : pr \in offers}
    BY <1>13
  <2>2. QED
    BY <1>5, <2>1
<1>15. t \in Seq(X)
  <2>1. {Hub!Action("P4_NEW_PR_TRIAGE", pr) : pr \in offers} \subseteq X
    BY <1>6
  <2> HIDE DEF X, t
  <2>2. QED
    BY <1>13, <2>1
<1> HIDE DEF e, a, q, t, X, open
<1> DEFINE le == Len(e)
           la == le + na
           lq == la + nq
           lt == Len(t)
           all == e \o a \o q \o t
<1>16. Hub!GetNextActions(w, limit) = all
  BY DEF Hub!GetNextActions, e, a, q, t, found, status
<1>17. /\ DOMAIN all = 1..(lq + lt)
       /\ \A i \in 1..le : all[i] = e[i]
       /\ \A i \in 1..na : all[le + i] = a[i]
       /\ \A i \in 1..nq : all[la + i] = q[i]
       /\ \A i \in 1..lt : all[lq + i] = t[i]
       /\ \A i \in DOMAIN all :
            \/ i \in 1..le
            \/ \E k \in 1..na : i = le + k
            \/ \E k \in 1..nq : i = la + k
            \/ \E k \in 1..lt : i = lq + k
  <2>1a. e \in Seq(X)
    BY <1>10
  <2>1b. a \in Seq(X)
    BY <1>11
  <2>1c. q \in Seq(X)
    BY <1>12
  <2>2. Len(a) = na /\ Len(q) = nq
    BY <1>11, <1>12
  <2>3. Joined(all, e, a, q, t)
    <3> HIDE DEF le, la, lq, lt
    <3>1. QED
      BY <1>15, <2>1a, <2>1b, <2>1c, FourLists
  <2>4. QED
    <3> HIDE DEF all
    <3>1. QED
      BY <2>2, <2>3, Zenon DEF Joined
<1> HIDE DEF all
<1>18. ASSUME NEW i \in 1..le
       PROVE  all[i].about = Missing /\ all[i].priority # "P4_NEW_PR_TRIAGE"
  BY <1>5, <1>10, <1>17
<1>19. ASSUME NEW k \in 1..na
       PROVE  /\ all[le + k].about = tk[k] /\ tk[k] \in tickets
              /\ all[le + k].priority # "P4_NEW_PR_TRIAGE"
  BY <1>5, <1>7, <1>11, <1>17
<1>20. ASSUME NEW k \in 1..nq
       PROVE  /\ all[la + k].about = ss[k] /\ ss[k] \in open
              /\ all[la + k].priority = Hub!PriorityOf(status.sessions[ss[k]])
              /\ all[la + k].priority # "P4_NEW_PR_TRIAGE"
  BY <1>5, <1>8, <1>12, <1>17, PriorityIs
<1>21. ASSUME NEW k \in 1..lt
       PROVE  /\ all[lq + k].about = t[k].about /\ all[lq + k].about \in offers
              /\ all[lq + k].priority = "P4_NEW_PR_TRIAGE"
  BY <1>14, <1>17
<1>22. le \in Nat /\ la \in Nat /\ lq \in Nat /\ lt \in Nat
  BY <1>10, <1>13
<1>23. open \subseteq sessions /\ \A s \in sessions : s \in open <=> records[s].status # "done"
  BY DEF open
<1>24. /\ \A k \in 1..na : le + k \in DOMAIN all
       /\ \A k \in 1..nq : la + k \in DOMAIN all
  <2>1. DOMAIN all = 1..(lq + lt)
    BY <1>17
  <2>2. /\ \A k \in 1..na : le + k \in 1..(lq + lt)
        /\ \A k \in 1..nq : la + k \in 1..(lq + lt)
    BY <1>22
  <2>3. QED
    <3> HIDE DEF le, la, lq, lt
    <3>1. QED
      BY <2>1, <2>2
<1> HIDE DEF le, la, lq, lt
\* Which entry is about what.
<1>25. ASSUME NEW s \in sessions, NEW i \in DOMAIN all, all[i].about = s
       PROVE  s \in open /\ \E k \in 1..nq : i = la + k /\ ss[k] = s
  <2>1. s \notin tickets /\ s \notin offers /\ s # Missing
    BY <1>1
  <2>2. ~(i \in 1..le)
    BY <1>18, <1>25, <2>1
  <2>3. ~(\E k \in 1..na : i = le + k)
    BY <1>19, <1>25, <2>1
  <2>4. ~(\E k \in 1..lt : i = lq + k)
    BY <1>21, <1>25, <2>1
  <2>5. PICK k \in 1..nq : i = la + k
    BY <1>17, <2>2, <2>3, <2>4
  <2>6. QED
    BY <1>20, <1>25, <2>5
<1>26. ASSUME NEW x \in tickets, NEW i \in DOMAIN all, all[i].about = x
       PROVE  \E k \in 1..na : i = le + k /\ tk[k] = x
  <2>1. x \notin sessions /\ x \notin offers /\ x # Missing
    BY <1>1
  <2>2. ~(i \in 1..le)
    BY <1>18, <1>26, <2>1
  <2>3. ~(\E k \in 1..nq : i = la + k)
    BY <1>20, <1>23, <1>26, <2>1
  <2>4. ~(\E k \in 1..lt : i = lq + k)
    BY <1>21, <1>26, <2>1
  <2>5. PICK k \in 1..na : i = le + k
    BY <1>17, <2>2, <2>3, <2>4
  <2>6. QED
    BY <1>19, <1>26, <2>5
<1>27. ASSUME NEW i \in DOMAIN all, all[i].priority = "P4_NEW_PR_TRIAGE"
       PROVE  \E k \in 1..lt : i = lq + k
  <2>1. ~(i \in 1..le)
    BY <1>18, <1>27
  <2>2. ~(\E k \in 1..na : i = le + k)
    BY <1>19, <1>27
  <2>3. ~(\E k \in 1..nq : i = la + k)
    BY <1>20, <1>27
  <2>4. QED
    BY <1>17, <2>1, <2>2, <2>3
<1> DEFINE entries(about) == {i \in DOMAIN all : all[i].about = about}
           prs == {i \in DOMAIN all : all[i].priority = "P4_NEW_PR_TRIAGE"}
           lastFailed(s) == LET r == w.runs[s] IN r # <<>> /\ r[Len(r)] \in Hub!Failed
<1>28. ASSUME NEW s \in sessions, records[s].status = "done"
       PROVE  entries(s) = {}
  BY <1>23, <1>25, <1>28
<1>29. ASSUME NEW s \in sessions, records[s].status # "done"
       PROVE  /\ \E i \in entries(s) : entries(s) = {i}
              /\ lastFailed(s) =>
                   \A i \in entries(s) : all[i].priority = "P2_CI_FAILURE"
  <2>1. PICK k \in 1..nq : ss[k] = s
    BY <1>8, <1>23, <1>29
  <2>2. la + k \in DOMAIN all /\ all[la + k].about = s
    BY <1>20, <1>24, <2>1
  <2>3. \A i \in DOMAIN all : all[i].about = s => i = la + k
    BY <1>8, <1>25, <2>1
  <2>4. entries(s) = {la + k}
    BY <2>2, <2>3
  <2>5. ASSUME lastFailed(s)
        PROVE  all[la + k].priority = "P2_CI_FAILURE"
    <3>1. status.sessions[s].run \in Hub!Failed
      BY <1>2, <2>5 DEF Hub!LatestRun
    <3>2. QED
      BY <1>20, <2>1, <3>1, PriorityIs
  <2>6. QED
    <3> HIDE DEF entries, lastFailed
    <3>1. QED
      BY <2>4, <2>5
<1>30. ASSUME NEW x \in tickets
       PROVE  \E i \in entries(x) : entries(x) = {i}
  <2>1. PICK k \in 1..na : tk[k] = x
    BY <1>7
  <2>2. le + k \in DOMAIN all /\ all[le + k].about = x
    BY <1>19, <1>24, <2>1
  <2>3. \A i \in DOMAIN all : all[i].about = x => i = le + k
    BY <1>7, <1>26, <2>1
  <2>4. entries(x) = {le + k}
    BY <2>2, <2>3
  <2>5. QED
    BY <2>4
<1>31. ASSUME NEW i \in prs, NEW j \in prs
       PROVE  /\ i # j => all[i].about.url # all[j].about.url
              /\ i < j => j - i < limit
  <2>1. PICK k \in 1..lt : i = lq + k
    BY <1>27
  <2>2. PICK l \in 1..lt : j = lq + l
    BY <1>27
  <2>3. k \in Nat /\ l \in Nat /\ 1 <= k /\ l <= lt /\ lt <= limit
    BY <1>13, <1>22 DEF lt
  <2>4. i < j => j - i < limit
    BY <1>22, <2>1, <2>2, <2>3
  <2>5. all[i].about = t[k].about /\ all[j].about = t[l].about
    BY <1>21, <2>1, <2>2
  <2>6. t[k].about.url = t[l].about.url => k = l
    BY <1>13, <2>1, <2>2 DEF lt
  <2>7. QED
    BY <2>1, <2>2, <2>4, <2>5, <2>6
<1>32. ASSUME NEW i \in prs, NEW s \in sessions
       PROVE  records[s].url # all[i].about.url /\ records[s].ref # all[i].about.ref
  <2>1. PICK k \in 1..lt : i = lq + k
    BY <1>27
  <2>2. ~Hub!InHand(status, all[i].about)
    BY <1>13, <1>21, <2>1 DEF lt
  <2>3. QED
    BY <1>2, <2>2 DEF Hub!InHand
<1>33. Hub!Covers(w, limit, all)
  <2>1. /\ \A s \in sessions :
             IF records[s].status = "done" THEN entries(s) = {}
               ELSE /\ \E i \in entries(s) : entries(s) = {i}
                    /\ lastFailed(s) =>
                         \A i \in entries(s) : all[i].priority = "P2_CI_FAILURE"
        /\ \A x \in tickets : \E i \in entries(x) : entries(x) = {i}
        /\ \A i, j \in prs : i # j => all[i].about.url # all[j].about.url
        /\ \A i, j \in prs : i < j => j - i < limit
        /\ \A i \in prs, s \in sessions :
             records[s].url # all[i].about.url /\ records[s].ref # all[i].about.ref
    <3> HIDE DEF entries, prs, lastFailed
    <3>1. QED
      BY <1>28, <1>29, <1>30, <1>31, <1>32
  <2>2. QED
    BY <2>1, Zenon DEF Hub!Covers, records, tickets
<1>34. QED
  BY <1>16, <1>33

\* What the hub asks is asked of a dashboard and with a limit.
NextKnown ==
  (request # None /\ request.kind = "next") =>
    request.workspace \in Workspaces /\ request.limit \in Limits

\* For any workspaces and limits the list get_next_actions returns has one entry for
\* every session that is not done and every pending ticket, and at most `limit` pull
\* requests that nobody has in hand.
THEOREM NothingIsForgotten == Spec => []NextActionsCover
<1> DEFINE Covering == NextKnown /\ NextActionsCover
<1>1. Init => Covering
  BY DEF Init, NextKnown, NextActionsCover
<1>2. ASSUME Covering, [Next]_vars
      PROVE  Covering'
  <2>1. CASE Finish
    BY <2>1 DEF Finish, NextKnown, NextActionsCover
  <2>2. CASE AskNext
    <3>1. PICK w \in Workspaces, limit \in Limits :
            Ask([kind |-> "next", workspace |-> w, limit |-> limit])
      BY <2>2 DEF AskNext
    <3>2. QED
      BY <3>1 DEF Ask, NextKnown, NextActionsCover
  <2>3. CASE ServeNext
    <3>1. /\ request # None /\ request.kind = "next" /\ request' = request
          /\ answer' = [what |-> "list",
                        actions |-> Hub!GetNextActions(request.workspace, request.limit)]
      BY <2>3 DEF ServeNext, Open, Answer
    <3>2. Hub!IsWorkspace(request.workspace) /\ request.limit \in Nat
      BY <1>2, <3>1, WorkspacesAssumption DEF NextKnown
    <3>3. Hub!Covers(request.workspace, request.limit, answer'.actions)
      BY <3>1, <3>2, ListCovers
    <3>4. QED
      BY <1>2, <3>1, <3>3 DEF NextKnown, NextActionsCover
  <2>4. CASE AskCommand \/ AskRead \/ AskTool \/ AskPush \/ AskPolicy \/ AskScan
    <3>1. request'.kind # "next"
      <4>1. CASE AskCommand
        BY <4>1 DEF AskCommand, Ask
      <4>2. CASE AskRead
        BY <4>2 DEF AskRead, Ask
      <4>3. CASE AskTool
        BY <4>3 DEF AskTool, Ask
      <4>4. CASE AskPush \/ AskPolicy
        BY <4>4 DEF AskPush, AskPolicy, Ask
      <4>5. CASE AskScan
        BY <4>5 DEF AskScan, Ask
      <4>6. QED
        BY <2>4, <4>1, <4>2, <4>3, <4>4, <4>5
    <3>2. QED
      BY <3>1 DEF NextKnown, NextActionsCover
  <2>5. CASE Hook
    <3>1. request.kind = "command" /\ request'.kind = request.kind
      BY <2>5 DEF Hook, Open
    <3>2. QED
      BY <3>1 DEF NextKnown, NextActionsCover
  <2>6. CASE \/ RunCommand \/ HookRead \/ ServeTool \/ ServePush \/ ServePolicy \/ ServeScan
    <3>1. request' = request /\ request.kind # "next"
      BY <2>6 DEF RunCommand, HookRead, ServeTool, ServePush, ServePolicy, ServeScan,
                  Open, Answer
    <3>2. QED
      BY <1>2, <3>1 DEF NextKnown, NextActionsCover
  <2>7. CASE UNCHANGED vars
    BY <1>2, <2>7 DEF vars, NextKnown, NextActionsCover
  <2>8. QED
    BY <1>2, <2>1, <2>2, <2>3, <2>4, <2>5, <2>6, <2>7 DEF Next
<1>3. Covering => NextActionsCover
  OBVIOUS
<1>4. QED
  BY <1>1, <1>2, <1>3, PTL DEF Spec
=============================================================================

---------------------------- MODULE GatedActions ----------------------------
(***************************************************************************)
(* The ticket-gated remote actions of server.py (perform_git_push and its   *)
(* five siblings) over the shared file audit/approvals.json.               *)
(*                                                                         *)
(* Every process of the harness -- the HTTP gateway, a stdio gateway, one   *)
(* run of the CLI -- executes the same handlers on the same file, with no   *)
(* lock between them.  A handler that changes the file loads the whole      *)
(* dictionary, changes its own entry and replaces the file: two steps here, *)
(* with everything the other processes do in between.  A handler that only  *)
(* reads it (is_approved) is one step.                                     *)
(***************************************************************************)
EXTENDS ApprovalTickets, Sequences, FiniteSets

CONSTANTS
    Procs,          \* the processes that run the handlers
    ActionsUsed,    \* the handlers that are called, a subset of Actions
    Faults,         \* what may go wrong: a subset of Faulty
    MaxCalls,       \* bound: how often agents call a handler
    MaxDecisions,   \* bound: how often the maintainer answers a ticket
    MaxClock        \* bound on the clock

\* A process dies; the remote side acts but the caller is told it failed (a
\* timeout); launch_ci raises.
Faulty == {"crash", "lost", "raised"}

ASSUME FaultsAssumption == Faults \subseteq Faulty
ASSUME ActionsAssumption == ActionsUsed \subseteq Actions
ASSUME BoundsAssumption ==
    MaxCalls \in Nat /\ MaxDecisions \in Nat /\ MaxClock \in Nat

VARIABLES
    file,       \* audit/approvals.json
    pc,         \* what each process does next
    buf,        \* the dictionary each process has loaded
    task,       \* the call, or the answer, each process is working on
    clock,      \* the wall clock, in ticks
    \* what happened, for the properties:
    calls,      \* how many calls agents have made
    issued,     \* the binding each ticket was created with
    grants,     \* the instants at which the maintainer approved each ticket
    answers,    \* how many answers the maintainer has given
    redeemed,   \* how many executions reported success under each ticket
    effected,   \* the calls the remote side has acted on
    audited     \* the calls whose outcome is in the audit log

procVars == <<pc, buf, task>>
history == <<issued, grants, answers, redeemed, effected>>
vars == <<file, pc, buf, task, clock, calls, issued, grants, answers,
          redeemed, effected, audited>>

Labels == {"idle", "check", "create", "createSave", "execute",
           "consume", "consumeSave", "log", "decideSave"}

\* No binding: the ticket was never created.
Unissued == [action |-> "NONE"]

\* What a process that is between calls is working on.
NoTask == [ticket |-> NoTicket]

\* A call: which one, what it asks for, the ticket it carries (once it has
\* created one, that ticket), whether it is a dry run, whether it needs a
\* ticket, and when the clock was last read for it.
Call == [id : 1 .. MaxCalls, binding : Binding, ticket : Tickets \cup {NoTicket},
         dry : BOOLEAN, gated : BOOLEAN, at : Nat]

\* An answer of the maintainer.
Answer == [ticket : Tickets, approve : BOOLEAN]

EmptyFile == [t \in Tickets |-> Absent]

Init ==
    /\ file = EmptyFile
    /\ pc = [p \in Procs |-> "idle"]
    /\ buf = [p \in Procs |-> EmptyFile]
    /\ task = [p \in Procs |-> NoTask]
    /\ clock = 0
    /\ calls = 0
    /\ issued = [t \in Tickets |-> Unissued]
    /\ grants = [t \in Tickets |-> <<>>]
    /\ answers = 0
    /\ redeemed = [t \in Tickets |-> 0]
    /\ effected = {}
    /\ audited = {}

-----------------------------------------------------------------------------
(* A call arrives.  Its handler looks at the policy first; `verdicts` is     *)
(* what that may come to: "denied", "rejected" and "webUrl" are logged and   *)
(* returned, "gated" asks for a ticket, "open" goes on without one.  A       *)
(* request that is turned away before anything is logged (an empty `reason`, *)
(* a malformed argument) changes nothing and is left out.                   *)

StartOf(verdict) == CASE verdict = "gated" -> "check"
                      [] verdict = "open" -> "execute"
                      [] OTHER -> "log"

Arrive(p, action, verdicts) ==
    /\ pc[p] = "idle"
    /\ action \in ActionsUsed
    /\ calls < MaxCalls
    /\ calls' = calls + 1
    /\ \E b \in Binding, t \in Tickets \cup {NoTicket}, dry \in BOOLEAN,
          verdict \in verdicts :
           /\ b.action = action
           /\ task' = [task EXCEPT ![p] =
                        [id |-> calls + 1, binding |-> b, ticket |-> t, dry |-> dry,
                         gated |-> verdict = "gated", at |-> clock]]
           /\ pc' = [pc EXCEPT ![p] = StartOf(verdict)]
    /\ UNCHANGED <<file, buf, clock, history, audited>>

\* perform_git_push: denied by validate_git_push; a ticket is needed for an
\* external fork and outside the session's own pull request.
GitPush(p) == Arrive(p, "git_push", {"denied", "gated", "open"})

\* A mutant of perform_push_release: policy may let it go without a ticket.
ReleasePushOpen(p) == Arrive(p, "release_push", {"denied", "rejected", "gated", "open"})

\* perform_push_release: the repository is not allowed, or the tag is not a
\* verified local tag; otherwise always a ticket.
ReleasePush(p) == Arrive(p, "release_push", {"denied", "rejected", "gated"})

\* perform_launch_jenkins_ci: a ticket is needed past the rate limit.
LaunchCI(p) == Arrive(p, "launch_jenkins_ci", {"gated", "open"})

\* perform_create_pull_request: by default only a compare URL is prepared.
CreatePullRequest(p) ==
    Arrive(p, "create_pull_request", {"denied", "webUrl", "gated", "open"})

\* perform_edit_pull_request.
EditPullRequest(p) == Arrive(p, "edit_pull_request", {"denied", "gated", "open"})

\* perform_run_bloom_release: always a ticket.
BloomRelease(p) == Arrive(p, "bloom_release", {"gated"})

Receive(p) ==
    \/ GitPush(p)
    \/ ReleasePush(p)
    \/ LaunchCI(p)
    \/ CreatePullRequest(p)
    \/ EditPullRequest(p)
    \/ BloomRelease(p)

-----------------------------------------------------------------------------
(* The ticket.                                                              *)

\* The is_approved call of every gated handler.
Check(p) ==
    /\ pc[p] = "check"
    /\ LET c == task[p]
       IN  pc' = [pc EXCEPT ![p] =
                   IF IsApproved(file, c.ticket, c.binding, clock, c.dry)
                   THEN "execute" ELSE "create"]
    /\ task' = [task EXCEPT ![p].at = clock]
    /\ UNCHANGED <<file, buf, clock, calls, history, audited>>

\* create_request: draws the identifier and the creation time, then loads.
CreateLoad(p) ==
    /\ pc[p] = "create"
    /\ buf' = [buf EXCEPT ![p] = file]
    /\ \E t \in Tickets :
           /\ issued[t] = Unissued
           /\ issued' = [issued EXCEPT ![t] = task[p].binding]
           /\ task' = [task EXCEPT ![p].ticket = t, ![p].at = clock]
    /\ pc' = [pc EXCEPT ![p] = "createSave"]
    /\ UNCHANGED <<file, clock, calls, grants, answers, redeemed, effected, audited>>

CreateSave(p) ==
    /\ pc[p] = "createSave"
    /\ file' = [buf[p] EXCEPT ![task[p].ticket] =
                 NewRequest(task[p].binding, task[p].at)]
    /\ buf' = [buf EXCEPT ![p] = EmptyFile]
    /\ pc' = [pc EXCEPT ![p] = "log"]
    /\ UNCHANGED <<task, clock, calls, history, audited>>

-----------------------------------------------------------------------------
(* The remote action.  A dry run goes through the same code and reaches no   *)
(* remote.                                                                  *)

\* The execution is reported to have succeeded.
Succeed(p) ==
    LET c == task[p]
        spent == c.gated /\ ~c.dry
    IN  /\ pc[p] = "execute"
        /\ pc' = [pc EXCEPT ![p] = IF spent THEN "consume" ELSE "log"]
        /\ effected' = IF c.dry THEN effected ELSE effected \cup {c.id}
        /\ redeemed' = IF spent THEN [redeemed EXCEPT ![c.ticket] = @ + 1]
                       ELSE redeemed
        /\ UNCHANGED <<file, buf, task, clock, calls, issued, grants, answers, audited>>

\* It is reported to have failed: the ticket is kept for a retry.  The remote
\* side may have acted all the same (git or bloom-release times out, the
\* answer of GitHub is lost).  launch_ci has no such path, and a dry run of
\* the pull-request handlers calls nothing that could fail.
FailTo(p, next) ==
    LET c == task[p]
    IN  /\ pc[p] = "execute"
        /\ c.binding.action # "launch_jenkins_ci"
        /\ ~(c.dry /\ c.binding.action \in {"create_pull_request", "edit_pull_request"})
        /\ pc' = [pc EXCEPT ![p] = next]
        /\ task' = [task EXCEPT ![p] = IF next = "idle" THEN NoTask ELSE @]
        /\ \/ effected' = effected
           \/ /\ "lost" \in Faults
              /\ ~c.dry
              /\ effected' = effected \cup {c.id}
        /\ UNCHANGED <<file, buf, clock, calls, issued, grants, answers, redeemed, audited>>

\* A mutant of the handlers: a failure is returned without being logged.
FailSilently(p) == FailTo(p, "idle")

Fail(p) == FailTo(p, "log")

\* launch_ci raises: before the build is triggered, or after (recording the
\* run or posting the comment fails).  Nothing catches it: the ticket is not
\* consumed and the call is not logged.
Raise(p) ==
    LET c == task[p]
    IN  /\ pc[p] = "execute"
        /\ c.binding.action = "launch_jenkins_ci"
        /\ "raised" \in Faults
        /\ \/ effected' = effected
           \/ ~c.dry /\ effected' = effected \cup {c.id}
        /\ pc' = [pc EXCEPT ![p] = "idle"]
        /\ task' = [task EXCEPT ![p] = NoTask]
        /\ UNCHANGED <<file, buf, clock, calls, issued, grants, answers, redeemed, audited>>

\* consume_ticket: a ticket that is gone is left alone.
ConsumeLoad(p) ==
    /\ pc[p] = "consume"
    /\ IF file[task[p].ticket] = Absent
       THEN /\ pc' = [pc EXCEPT ![p] = "log"]
            /\ UNCHANGED buf
       ELSE /\ pc' = [pc EXCEPT ![p] = "consumeSave"]
            /\ buf' = [buf EXCEPT ![p] = file]
    /\ UNCHANGED <<file, task, clock, calls, history, audited>>

ConsumeSave(p) ==
    /\ pc[p] = "consumeSave"
    /\ file' = [buf[p] EXCEPT ![task[p].ticket] = ConsumedOf(@)]
    /\ buf' = [buf EXCEPT ![p] = EmptyFile]
    /\ pc' = [pc EXCEPT ![p] = "log"]
    /\ UNCHANGED <<task, clock, calls, history, audited>>

\* timeline.log_action, and the handler returns.
Log(p) ==
    /\ pc[p] = "log"
    /\ audited' = audited \cup {task[p].id}
    /\ pc' = [pc EXCEPT ![p] = "idle"]
    /\ task' = [task EXCEPT ![p] = NoTask]
    /\ UNCHANGED <<file, buf, clock, calls, history>>

Execute(p) == Succeed(p) \/ Fail(p) \/ Raise(p)

Consume(p) == ConsumeLoad(p) \/ ConsumeSave(p)

-----------------------------------------------------------------------------
(* The maintainer answers a ticket, on the command line (`approval approve`, *)
(* `approval reject`) or with the respond_approval_request tool.  Neither    *)
(* looks at the status the ticket has.                                      *)

DecideLoad(p) ==
    /\ pc[p] = "idle"
    /\ answers < MaxDecisions
    /\ \E t \in Tickets, approve \in BOOLEAN :
           /\ file[t] # Absent
           /\ task' = [task EXCEPT ![p] = [ticket |-> t, approve |-> approve]]
    /\ buf' = [buf EXCEPT ![p] = file]
    /\ pc' = [pc EXCEPT ![p] = "decideSave"]
    /\ answers' = answers + 1
    /\ UNCHANGED <<file, clock, calls, issued, grants, redeemed, effected, audited>>

DecideSave(p) ==
    LET t == task[p].ticket
    IN  /\ pc[p] = "decideSave"
        /\ IF task[p].approve
           THEN /\ file' = [buf[p] EXCEPT ![t] = ApprovedBy(@, clock)]
                /\ grants' = [grants EXCEPT ![t] = Append(@, clock)]
           ELSE /\ file' = [buf[p] EXCEPT ![t] = RejectedBy(@, clock)]
                /\ UNCHANGED grants
        /\ buf' = [buf EXCEPT ![p] = EmptyFile]
        /\ pc' = [pc EXCEPT ![p] = "idle"]
        /\ task' = [task EXCEPT ![p] = NoTask]
        /\ UNCHANGED <<clock, calls, issued, answers, redeemed, effected, audited>>

-----------------------------------------------------------------------------
\* A process dies between two steps, or while the remote action is under way.
\* os.replace is atomic, so the file is what it was before the step or after.
Crash(p) ==
    /\ "crash" \in Faults
    /\ pc[p] # "idle"
    /\ \/ effected' = effected
       \/ /\ pc[p] = "execute"
          /\ ~task[p].dry
          /\ effected' = effected \cup {task[p].id}
    /\ pc' = [pc EXCEPT ![p] = "idle"]
    /\ task' = [task EXCEPT ![p] = NoTask]
    /\ buf' = [buf EXCEPT ![p] = EmptyFile]
    /\ UNCHANGED <<file, clock, calls, issued, grants, answers, redeemed, audited>>

Tick ==
    /\ clock < MaxClock
    /\ clock' = clock + 1
    /\ UNCHANGED <<file, procVars, calls, history, audited>>

Step(p) ==
    \/ Receive(p)
    \/ Check(p)
    \/ CreateLoad(p) \/ CreateSave(p)
    \/ Execute(p)
    \/ Consume(p)
    \/ Log(p)
    \/ DecideLoad(p) \/ DecideSave(p)
    \/ Crash(p)

Next == Tick \/ \E p \in Procs : Step(p)

Spec == Init /\ [][Next]_vars

-----------------------------------------------------------------------------
(* Properties.                                                              *)

\* The type invariant: the file and every loaded copy are dictionaries of
\* well-formed tickets, and a process works on a task of the kind its next
\* step expects.
TypeOK ==
    /\ file \in Requests
    /\ pc \in [Procs -> Labels]
    /\ buf \in [Procs -> Requests]
    /\ task \in [Procs -> Call \cup Answer \cup {NoTask}]
    /\ \A p \in Procs : pc[p] = "idle" => task[p] = NoTask
    /\ \A p \in Procs : pc[p] = "decideSave" => task[p] \in Answer
    /\ \A p \in Procs : pc[p] \notin {"idle", "decideSave"} => task[p] \in Call
    /\ clock \in Nat
    /\ calls \in 0 .. MaxCalls
    /\ issued \in [Tickets -> Binding \cup {Unissued}]
    /\ grants \in [Tickets -> Seq(Nat)]
    /\ answers \in 0 .. MaxDecisions
    /\ redeemed \in [Tickets -> Nat]
    /\ effected \subseteq 1 .. MaxCalls
    /\ audited \subseteq 1 .. MaxCalls

\* The maintainer approved ticket t for what call c asks, at most TTL before
\* the call was checked.
Covered(c) ==
    /\ c.ticket \in Tickets
    /\ issued[c.ticket].action = c.binding.action
    /\ issued[c.ticket].target = c.binding.target
    /\ issued[c.ticket].session \in {NoSession, c.binding.session}
    /\ \E i \in DOMAIN grants[c.ticket] :
           /\ grants[c.ticket][i] <= c.at
           /\ c.at <= grants[c.ticket][i] + TTL

\* Whatever the processes, their lost updates and their crashes do to the
\* file: a handler goes on to the remote action of a gated call only under a
\* ticket created for the same action, target and session, which the
\* maintainer approved less than a TTL before the check; and no release or
\* bloom run goes on without one.
ExecutionAuthorized ==
    \A p \in Procs :
        pc[p] = "execute" =>
            /\ task[p].gated => Covered(task[p])
            /\ task[p].binding.action \in {"release_push", "bloom_release"}
                  => task[p].gated

\* What makes it inductive.  Ready: only gated calls are checked; a process
\* about to save has a ticket, and an entry
\* for it in the copy it will write back.
Ready ==
    \A p \in Procs :
        /\ pc[p] = "check" => task[p].gated
        /\ pc[p] \in {"createSave", "consume", "consumeSave"} => task[p].ticket \in Tickets
        /\ pc[p] = "createSave" => /\ issued[task[p].ticket] = task[p].binding
                                  /\ task[p].at <= clock
        /\ pc[p] \in {"decideSave", "consumeSave"} => buf[p][task[p].ticket] # Absent

\* Every entry of a dictionary has the binding its ticket was created with,
\* and an APPROVED one carries the instant of an approval.
BackedIn(reqs) ==
    \A t \in Tickets :
        reqs[t] # Absent =>
            /\ issued[t] = reqs[t].binding
            /\ reqs[t].stamp <= clock
            /\ reqs[t].status = "APPROVED" =>
                  \E i \in DOMAIN grants[t] : grants[t][i] = reqs[t].stamp

Backed == BackedIn(file) /\ \A p \in Procs : BackedIn(buf[p])

\* The inductive invariant behind ExecutionAuthorized: lost updates bring old
\* entries back, but never one the maintainer did not approve.
AuthInv == TypeOK /\ Ready /\ Backed /\ ExecutionAuthorized

\* An approval pays for one execution: "marked consumed upon execution so it
\* cannot be replayed" (approval.py and docs/policy_and_security.md).
NoReplay == \A t \in Tickets : redeemed[t] <= Len(grants[t])

\* "Every attempt to interact with a remote system is recorded": once the
\* handler of a call that reached the remote has returned, the call is in the
\* audit log.
EveryEffectRecorded ==
    \A n \in effected :
        \/ n \in audited
        \/ \E p \in Procs :
              /\ pc[p] \in {"execute", "consume", "consumeSave", "log"}
              /\ task[p].id = n

\* Where a ticket is in its life: its entry in the file, except that it is
\* spent as soon as its execution has succeeded.
BeingSpent(t) ==
    \E p \in Procs : pc[p] \in {"consume", "consumeSave"} /\ task[p].ticket = t

LedgerState(t) ==
    CASE file[t].status = "ABSENT" -> "unissued"
      [] file[t].status = "PENDING" -> "pending"
      [] file[t].status = "REJECTED" -> "rejected"
      [] file[t].status = "APPROVED" ->
             IF file[t].consumed \/ BeingSpent(t) THEN "spent" ELSE "approved"

\* What makes NoReplay inductive when one process handles every call and does
\* not die: its copy is the file, a call goes on under a ticket that is still
\* usable, and every usable ticket stands for an approval not yet redeemed.
SerialInv ==
    /\ \A p \in Procs :
           /\ pc[p] \in {"createSave", "consumeSave", "decideSave"} => buf[p] = file
           /\ pc[p] = "createSave" => file[task[p].ticket] = Absent
           /\ pc[p] = "execute" /\ task[p].gated /\ ~task[p].dry
                 => Usable(file[task[p].ticket])
    /\ \A t \in Tickets :
           redeemed[t] + (IF Usable(file[t]) /\ ~BeingSpent(t) THEN 1 ELSE 0)
               <= Len(grants[t])

Ledger == INSTANCE TicketLedger WITH
              state <- [t \in Tickets |-> LedgerState(t)],
              approvals <- [t \in Tickets |-> Len(grants[t])],
              executions <- redeemed

\* The file implements the ledger of atomic tickets: no creation, answer or
\* consumption is lost or undone.
ImplementsLedger == Ledger!Spec
=============================================================================

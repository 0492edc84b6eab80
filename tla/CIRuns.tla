------------------------------- MODULE CIRuns -------------------------------
(***************************************************************************)
(* The Jenkins runs the harness launches and tracks (ci.py): the file       *)
(* audit/ci_runs.json of CITracker, the launch of a run behind the rate     *)
(* limit (perform_launch_jenkins_ci), the tools that query and cancel runs, *)
(* and the monitor thread that polls the active ones.                      *)
(*                                                                         *)
(* The tools of a gateway, its monitor and every command of the CLI have a  *)
(* CITracker, and so a lock, each of their own: between the load of one and *)
(* its save, another may save.  One pull request and one Jenkins job are    *)
(* modelled; Jenkins numbers the builds of the job as they leave its queue, *)
(* ours and those of others.                                               *)
(***************************************************************************)
EXTENDS Naturals, Sequences, FiniteSets

CONSTANTS
    Tools,          \* the threads that run tools or commands
    Monitors,       \* the threads that run CIMonitorService
    MaxActive,      \* max_concurrent_runs_per_pr
    QueueHolds,     \* a run may stay in the queue of Jenkins past the launch
    Faults,         \* what may go wrong: a subset of Faulty
    MaxLaunches,    \* bound: how many runs are launched
    MaxOthers,      \* bound: how many builds of the job others start
    MaxQueries      \* bound: how often a run is queried or cancelled

\* Jenkins cannot be reached; it queues the build but the answer is lost.
Faulty == {"unreachable", "lost"}

ASSUME FaultsAssumption == Faults \subseteq Faulty
ASSUME ThreadsAssumption == Tools \cap Monitors = {}
ASSUME BoundsAssumption ==
    /\ MaxActive \in Nat
    /\ MaxLaunches \in Nat
    /\ MaxOthers \in Nat
    /\ MaxQueries \in Nat
    /\ QueueHolds \in BOOLEAN

VARIABLES
    builds,     \* the builds Jenkins has started, in the order of their numbers
    waiting,    \* the launches in the queue of Jenkins
    dropped,    \* the launches cancelled while they were in the queue
    stopped,    \* the builds Jenkins was asked to stop
    runs,       \* ci_runs.json
    pc,         \* what each thread does next
    work,       \* what each thread is working on
    launches,   \* how many runs have been triggered
    queries,    \* how often runs have been queried or cancelled
    \* what happened, for the properties:
    open,       \* the launches the rate limit let through
    told        \* the milestones the monitor has logged

jenkins == <<builds, waiting, dropped, stopped>>
vars == <<builds, waiting, dropped, stopped, runs, pc, work, launches, queries,
          open, told>>

Threads == Tools \cup Monitors
Launches == 1 .. MaxLaunches
Numbers == 1 .. MaxLaunches + MaxOthers
Others == 0     \* the owner of a build the harness did not launch

\* What Jenkins reports of a build: FAILURE stands for UNSTABLE and ABORTED.
Results == {"SUCCESS", "FAILURE"}
Terminal == Results \cup {"CANCELLED"}
Active == {"PENDING", "QUEUED", "RUNNING"}
Statuses == Active \cup Terminal

\* Nothing was learnt about a build.
Unknown == "UNKNOWN"

Build == [owner : Launches \cup {Others}, status : {"RUNNING"} \cup Results]

\* A CIRunRecord: the launch it is about, which its gist and its queue item
\* tell, and the build number in its job_url.  A number may be one Jenkins
\* has not given yet.
Record == [launch : Launches, num : Numbers, status : Statuses]

\* What a thread works on: the runs still to be looked at, the one it looks
\* at, what it has learnt of it, the file it has loaded; for a launch, which
\* one, whether the rate limit let it through, and the number it is to have.
NoWork == [op |-> "none"]
NoRun == [launch |-> 1, num |-> 1, status |-> "PENDING"]

Started(op, todo) ==
    [op |-> op, todo |-> todo, seen |-> Unknown, num |-> 1, loaded |-> << >>,
     launch |-> 1, open |-> FALSE]

Work == [op : {"launch", "query", "cancel", "poll"}, todo : Seq(Record),
         seen : Statuses \cup {Unknown}, num : Numbers, loaded : Seq(Record),
         launch : Launches, open : BOOLEAN]

Labels == {"idle", "fetch", "queued", "rename", "renameSave", "refetch", "update",
           "updateSave", "tell", "stop", "count", "predict", "trigger", "await",
           "record", "recordSave"}

Init ==
    /\ builds = << >>
    /\ waiting = {}
    /\ dropped = {}
    /\ stopped = {}
    /\ runs = << >>
    /\ pc = [t \in Threads |-> "idle"]
    /\ work = [t \in Threads |-> NoWork]
    /\ launches = 0
    /\ queries = 0
    /\ open = {}
    /\ told = {}

-----------------------------------------------------------------------------
(* The tracker's list of records.                                           *)

\* The records with one of these statuses, in the order of the list.
With(rs, statuses) ==
    LET kept[n \in 0 .. Len(rs)] ==
            IF n = 0 THEN << >>
            ELSE IF rs[n].status \in statuses THEN Append(kept[n - 1], rs[n])
            ELSE kept[n - 1]
    IN  kept[Len(rs)]

\* A mutant of get_active_runs: a run in the queue does not count.
StartedRuns(rs) == With(rs, Active \ {"QUEUED"})

\* get_active_runs.
ActiveRuns(rs) == With(rs, Active)

\* get_active_runs_count, of the records of the one pull request.
ActiveCount(rs) == Cardinality({i \in DOMAIN rs : rs[i].status \in Active})

HasNumber(rs, n) == \E i \in DOMAIN rs : rs[i].num = n

\* get_run by job_url: the first record with that number.
FirstWith(rs, n) ==
    rs[CHOOSE i \in DOMAIN rs : rs[i].num = n /\ \A j \in 1 .. i - 1 : rs[j].num # n]

\* The last one, of those that update_run changes.
LastWith(rs, n) ==
    rs[CHOOSE i \in DOMAIN rs : rs[i].num = n /\ \A j \in i + 1 .. Len(rs) : rs[j].num # n]

\* update_run and update_run_status: every record with that number.
WithStatus(rs, n, status) ==
    [i \in DOMAIN rs |->
        IF rs[i].num = n THEN [rs[i] EXCEPT !.status = status] ELSE rs[i]]

\* update_run with a new_job_url and a new_build_num.
Renumbered(rs, n, k) ==
    [i \in DOMAIN rs |-> IF rs[i].num = n THEN [rs[i] EXCEPT !.num = k] ELSE rs[i]]

-----------------------------------------------------------------------------
(* Jenkins.                                                                 *)

NumberOf(l) == CHOOSE n \in DOMAIN builds : builds[n].owner = l
HasStarted(l) == \E n \in DOMAIN builds : builds[n].owner = l

\* A queued build starts, in whatever order Jenkins has executors for them.
Start(l) ==
    /\ l \in waiting
    /\ waiting' = waiting \ {l}
    /\ builds' = Append(builds, [owner |-> l, status |-> "RUNNING"])
    /\ UNCHANGED <<dropped, stopped, runs, pc, work, launches, queries, open, told>>

\* Somebody else's build of the same job starts.
StartOther ==
    /\ Cardinality({n \in DOMAIN builds : builds[n].owner = Others}) < MaxOthers
    /\ builds' = Append(builds, [owner |-> Others, status |-> "RUNNING"])
    /\ UNCHANGED <<waiting, dropped, stopped, runs, pc, work, launches, queries, open, told>>

Finish(n) ==
    /\ n \in DOMAIN builds
    /\ builds[n].status = "RUNNING"
    /\ \E result \in Results :
           /\ n \in stopped => result = "FAILURE"
           /\ builds' = [builds EXCEPT ![n].status = result]
    /\ UNCHANGED <<waiting, dropped, stopped, runs, pc, work, launches, queries, open, told>>

\* A build is cancelled on Jenkins while it is in the queue.
Drop(l) ==
    /\ QueueHolds
    /\ l \in waiting
    /\ waiting' = waiting \ {l}
    /\ dropped' = dropped \cup {l}
    /\ UNCHANGED <<builds, stopped, runs, pc, work, launches, queries, open, told>>

Jenkins ==
    \/ StartOther
    \/ \E l \in Launches : Start(l) \/ Drop(l)
    \/ \E n \in Numbers : Finish(n)
-----------------------------------------------------------------------------
(* A thread that looks at the runs in `todo`, one after the other.          *)

Become(t, label, w) ==
    /\ pc' = [pc EXCEPT ![t] = label]
    /\ work' = [work EXCEPT ![t] = IF label = "idle" THEN NoWork ELSE w]

AfterRuns(op, todo) == IF todo # << >> THEN "fetch"
                       ELSE IF op = "launch" THEN "count" ELSE "idle"

Advance(t) ==
    LET rest == Tail(work[t].todo)
    IN  Become(t, AfterRuns(work[t].op, rest),
               [work[t] EXCEPT !.todo = rest, !.seen = Unknown, !.num = 1, !.loaded = << >>])

Run(t) == Head(work[t].todo)

\* The status of the run is known: a query always writes it down, the poll
\* of the monitor and the refresh before a launch only if it is news.
Learn(t, status) ==
    IF work[t].op # "query" /\ status = Run(t).status
    THEN Advance(t)
    ELSE Become(t, "update", [work[t] EXCEPT !.seen = status, !.num = 1])

\* fetch_build_status, when Jenkins has a build with the number in job_url
\* and when it answers 404.
Fetch(t) ==
    /\ pc[t] = "fetch"
    /\ IF Run(t).num \in DOMAIN builds
       THEN Learn(t, builds[Run(t).num].status)
       ELSE Become(t, "queued", work[t])
    /\ UNCHANGED <<jenkins, runs, launches, queries, open, told>>

FetchFails(t) ==
    /\ "unreachable" \in Faults
    /\ pc[t] \in {"fetch", "queued", "refetch"}
    /\ Advance(t)
    /\ UNCHANGED <<jenkins, runs, launches, queries, open, told>>

\* _check_queued_build: by the queue item of the record with that number (or
\* its gist), or, when there is no such record, by the length of the queue.
CheckQueue(t) ==
    LET n == Run(t).num
        l == FirstWith(runs, n).launch
        nextNumber == Len(builds) + 1
    IN  /\ pc[t] = "queued"
        /\ IF ~HasNumber(runs, n)
           THEN IF waiting # {} /\ n \in nextNumber .. nextNumber + Cardinality(waiting) + 2
                THEN Learn(t, "QUEUED") ELSE Advance(t)
           ELSE IF l \in dropped THEN Learn(t, "CANCELLED")
           ELSE IF HasStarted(l) /\ NumberOf(l) # n
                THEN Become(t, "rename", [work[t] EXCEPT !.num = NumberOf(l)])
                ELSE Learn(t, "QUEUED")
        /\ UNCHANGED <<jenkins, runs, launches, queries, open, told>>

\* The build has started under another number: update_run moves the record.
Rename(t) ==
    /\ pc[t] = "rename"
    /\ IF HasNumber(runs, Run(t).num)
       THEN Become(t, "renameSave", [work[t] EXCEPT !.loaded = runs])
       ELSE Become(t, "refetch", work[t])
    /\ UNCHANGED <<jenkins, runs, launches, queries, open, told>>

RenameSave(t) ==
    /\ pc[t] = "renameSave"
    /\ runs' = Renumbered(work[t].loaded, Run(t).num, work[t].num)
    /\ Become(t, "refetch", [work[t] EXCEPT !.loaded = << >>])
    /\ UNCHANGED <<jenkins, launches, queries, open, told>>

\* and its status is fetched under the new number.
Refetch(t) ==
    /\ pc[t] = "refetch"
    /\ Learn(t, builds[work[t].num].status)
    /\ UNCHANGED <<jenkins, runs, launches, queries, open, told>>

\* update_run or update_run_status, by the job_url the run was loaded with:
\* the file is saved only if a record has it.
Update(t) ==
    /\ pc[t] = "update"
    /\ IF HasNumber(runs, Run(t).num)
       THEN Become(t, "updateSave", [work[t] EXCEPT !.loaded = runs])
       ELSE Advance(t)
    /\ UNCHANGED <<jenkins, runs, launches, queries, open, told>>

UpdateSave(t) ==
    /\ pc[t] = "updateSave"
    /\ runs' = WithStatus(work[t].loaded, Run(t).num, work[t].seen)
    /\ IF work[t].op = "poll" /\ work[t].seen \in Terminal
       THEN Become(t, "tell", work[t])
       ELSE Advance(t)
    /\ UNCHANGED <<jenkins, launches, queries, open, told>>

\* _record_milestone_and_audit, for the last record update_run has changed.
Tell(t) ==
    /\ pc[t] = "tell"
    /\ told' = told \cup {[LastWith(work[t].loaded, Run(t).num) EXCEPT !.status = work[t].seen]}
    /\ Advance(t)
    /\ UNCHANGED <<jenkins, runs, launches, queries, open>>

LookAtRuns(t) ==
    \/ Fetch(t) \/ FetchFails(t)
    \/ CheckQueue(t) \/ Rename(t) \/ RenameSave(t) \/ Refetch(t)
    \/ Update(t) \/ UpdateSave(t)
    \/ Tell(t)

-----------------------------------------------------------------------------
(* The operations.                                                          *)

\* poll_active_runs_once; when no run is active, there is nothing to do.
Poll(t) ==
    /\ t \in Monitors
    /\ pc[t] = "idle"
    /\ ActiveRuns(runs) # << >>
    /\ Become(t, "fetch", Started("poll", ActiveRuns(runs)))
    /\ UNCHANGED <<jenkins, runs, launches, queries, open, told>>

\* get_ci_status, with and without waiting, and get_ci_summary.
Query(t) ==
    /\ t \in Tools
    /\ pc[t] = "idle"
    /\ queries < MaxQueries
    /\ queries' = queries + 1
    /\ \E i \in DOMAIN runs : Become(t, "fetch", Started("query", <<runs[i]>>))
    /\ UNCHANGED <<jenkins, runs, launches, open, told>>

\* cancel_ci_run: Jenkins knows the build, or answers 404.
Cancel(t) ==
    /\ t \in Tools
    /\ pc[t] = "idle"
    /\ queries < MaxQueries
    /\ queries' = queries + 1
    /\ \E i \in DOMAIN runs : Become(t, "stop", Started("cancel", <<runs[i]>>))
    /\ UNCHANGED <<jenkins, runs, launches, open, told>>

StopBuild(t) ==
    LET n == Run(t).num
    IN  /\ pc[t] = "stop"
        /\ IF n \in DOMAIN builds
           THEN /\ stopped' = stopped \cup {n}
                /\ Become(t, "update", [work[t] EXCEPT !.seen = "CANCELLED"])
           ELSE /\ Become(t, "idle", NoWork)
                /\ UNCHANGED stopped
        /\ UNCHANGED <<builds, waiting, dropped, runs, launches, queries, open, told>>

\* perform_launch_jenkins_ci begins: refresh_active_runs_for_pr.
Launch(t) ==
    LET todo == ActiveRuns(runs)
    IN  /\ t \in Tools
        /\ pc[t] = "idle"
        /\ launches < MaxLaunches
        /\ launches' = launches + 1
        /\ Become(t, AfterRuns("launch", todo),
                  [Started("launch", todo) EXCEPT !.launch = launches + 1])
        /\ UNCHANGED <<jenkins, runs, queries, open, told>>

\* A mutant of validate_jenkins_ci: one run too many is let through.
AllowedPast(rs) == ActiveCount(rs) <= MaxActive

\* validate_jenkins_ci; the cooldown may refuse what the count allows.
Allowed(rs) == ActiveCount(rs) < MaxActive

\* The launch is let through, or goes on under an approved ticket, or ends
\* with a ticket asked for.
Count(t) ==
    /\ pc[t] = "count"
    /\ \/ /\ Allowed(runs)
          /\ Become(t, "predict", [work[t] EXCEPT !.open = TRUE])
       \/ Become(t, "predict", work[t])
       \/ Become(t, "idle", NoWork)
    /\ UNCHANGED <<jenkins, runs, launches, queries, open, told>>

\* A mutant of launch_ci: the number of the last build is taken for the next.
PredictLast(t) ==
    /\ pc[t] = "predict"
    /\ Become(t, "trigger", [work[t] EXCEPT !.num = Len(builds)])
    /\ UNCHANGED <<jenkins, runs, launches, queries, open, told>>

\* launch_ci: the next build number is read,
Predict(t) ==
    /\ pc[t] = "predict"
    /\ Become(t, "trigger", [work[t] EXCEPT !.num = Len(builds) + 1])
    /\ UNCHANGED <<jenkins, runs, launches, queries, open, told>>

\* the build is triggered,
Trigger(t) ==
    LET l == work[t].launch
    IN  /\ pc[t] = "trigger"
        /\ waiting' = waiting \cup {l}
        /\ open' = IF work[t].open THEN open \cup {l} ELSE open
        /\ \/ Become(t, "await", work[t])
           \/ "lost" \in Faults /\ Become(t, "idle", NoWork)
        /\ UNCHANGED <<builds, dropped, stopped, runs, launches, queries, told>>

\* A mutant of launch_ci: the predicted number is taken for the build's own.
AwaitNobody(t) ==
    /\ pc[t] = "await"
    /\ Become(t, "record", [work[t] EXCEPT !.seen = "PENDING"])
    /\ UNCHANGED <<jenkins, runs, launches, queries, open, told>>

\* the queue item is asked for the number the build has, for a few seconds,
Await(t) ==
    LET l == work[t].launch
    IN  /\ pc[t] = "await"
        /\ \/ /\ HasStarted(l)
              /\ Become(t, "record",
                        [work[t] EXCEPT !.num = NumberOf(l), !.seen = "PENDING"])
           \/ /\ QueueHolds
              /\ ~HasStarted(l)
              /\ Become(t, "record", [work[t] EXCEPT !.seen = "QUEUED"])
        /\ UNCHANGED <<jenkins, runs, launches, queries, open, told>>

\* and record_run loads the file and appends the record.
RecordRun(t) ==
    /\ pc[t] = "record"
    /\ Become(t, "recordSave", [work[t] EXCEPT !.loaded = runs])
    /\ UNCHANGED <<jenkins, runs, launches, queries, open, told>>

\* A mutant of record_run: the runs that have ended make room for the new one.
RecordSaveOverEnded(t) ==
    LET w == work[t]
    IN  /\ pc[t] = "recordSave"
        /\ runs' = Append(ActiveRuns(w.loaded),
                          [launch |-> w.launch, num |-> w.num, status |-> w.seen])
        /\ Become(t, "idle", NoWork)
        /\ UNCHANGED <<jenkins, launches, queries, open, told>>

RecordSave(t) ==
    LET w == work[t]
    IN  /\ pc[t] = "recordSave"
        /\ runs' = Append(w.loaded, [launch |-> w.launch, num |-> w.num, status |-> w.seen])
        /\ Become(t, "idle", NoWork)
        /\ UNCHANGED <<jenkins, launches, queries, open, told>>

LaunchRun(t) ==
    \/ Count(t) \/ Predict(t) \/ Trigger(t) \/ Await(t)
    \/ RecordRun(t) \/ RecordSave(t)

\* What a thread does once it has begun.
Proceed(t) == LookAtRuns(t) \/ StopBuild(t) \/ LaunchRun(t)

Step(t) == Poll(t) \/ Query(t) \/ Cancel(t) \/ Launch(t) \/ Proceed(t)

Next == Jenkins \/ \E t \in Threads : Step(t)

Spec == Init /\ [][Next]_vars

\* A thread that has begun goes on; the monitor thread polls for ever; Jenkins
\* starts what is in its queue and finishes what it has started.  Nobody has
\* to call a tool.
Fairness ==
    /\ \A t \in Threads : WF_vars(Proceed(t))
    /\ \A t \in Monitors : WF_vars(Poll(t))
    /\ \A l \in Launches : WF_vars(Start(l))
    /\ \A n \in Numbers : WF_vars(Finish(n))

FairSpec == Spec /\ Fairness

-----------------------------------------------------------------------------
(* Properties.                                                              *)

TypeOK ==
    /\ builds \in Seq(Build) /\ Len(builds) \in 0 .. MaxLaunches + MaxOthers
    /\ waiting \subseteq Launches
    /\ dropped \subseteq Launches
    /\ stopped \subseteq DOMAIN builds
    /\ runs \in Seq(Record)
    /\ pc \in [Threads -> Labels]
    /\ work \in [Threads -> Work \cup {NoWork}]
    /\ \A t \in Threads : (pc[t] = "idle") <=> (work[t] = NoWork)
    /\ launches \in 0 .. MaxLaunches
    /\ queries \in 0 .. MaxQueries
    /\ open \subseteq Launches
    /\ told \subseteq Record

\* Whether the build of a launch is over, and how.
Over(l) ==
    \/ l \in dropped
    \/ HasStarted(l) /\ builds[NumberOf(l)].status # "RUNNING"

UnderWay(l) == l \in waiting \/ (HasStarted(l) /\ ~Over(l) /\ NumberOf(l) \notin stopped)

\* "Maximum concurrent Jenkins builds allowed per PR": of the launches the
\* rate limit let through, never more are in the queue or running.
RateLimit == Cardinality({l \in open : UnderWay(l)}) <= MaxActive

\* What the tracker says of a run that ended is what became of its own build.
StatusIsOwn ==
    \A i \in DOMAIN runs :
        LET l == runs[i].launch
        IN  /\ runs[i].status \in Results =>
                   HasStarted(l) /\ builds[NumberOf(l)].status = runs[i].status
            /\ runs[i].status = "CANCELLED" =>
                   l \in dropped \/ (HasStarted(l) /\ NumberOf(l) \in stopped)

\* A build that was triggered is in the tracker, or on its way there.
NoRunForgotten ==
    \A l \in Launches :
        l \in waiting \/ HasStarted(l) \/ l \in dropped =>
            \/ \E i \in DOMAIN runs : runs[i].launch = l
            \/ \E t \in Threads : pc[t] \in {"await", "record", "recordSave"}
                                    /\ work[t].launch = l

\* A run whose build is over does not stay active in the tracker, where it
\* would count against the rate limit for ever.
Stale(l) ==
    Over(l) /\ \E i \in DOMAIN runs : runs[i].launch = l /\ runs[i].status \in Active

Settles == \A l \in Launches : Stale(l) ~> ~Stale(l)
=============================================================================

---------------------------- MODULE CIRunsProofs ----------------------------
(***************************************************************************)
(* What one thread's tracker keeps, for any number of launches, queries and *)
(* builds of others: no build that was triggered is forgotten               *)
(* (NoRunForgotten), and, when the queue answers in time, a final status is *)
(* the one of the own build (StatusIsOwn).  When no answer to a trigger is  *)
(* lost either, the tracker counts every build that is open, so the limit   *)
(* on them is kept (RateLimit).                                             *)
(*                                                                         *)
(* For any threads and faults, the state keeps its types (TypeOK): there    *)
(* this says that a thread always has the run it is about to look at, and   *)
(* that the number predicted for a build is one that Jenkins can come to.   *)
(***************************************************************************)
EXTENDS CIRuns, FiniteSetTheorems, WellFoundedInduction, Integers, TLAPS

\* Tools of one gateway run one after the other; the monitor is off.
OneThread == \A s, t \in Threads : s = t

(***************************************************************************)
(* Types, as far as the proofs need them.                                  *)
(***************************************************************************)

Rec == [launch : Launches, num : Nat, status : Statuses]

\* A record with these fields, whatever they hold.
Shaped(w) ==
    w \in [op : {w.op}, todo : {w.todo}, seen : {w.seen}, num : {w.num},
           loaded : {w.loaded}, launch : {w.launch}, open : {w.open}]

Launching == {"count", "predict", "trigger", "await", "record", "recordSave"}

\* What a thread works on fits the step it is at.
Fits(label, w) ==
    label # "idle" =>
        /\ Shaped(w)
        /\ w.num \in Nat
        /\ label \in Launching => w.op = "launch"
        /\ w.op = "launch" => w.launch \in Launches
        /\ label \in {"update", "updateSave", "record", "recordSave"} => w.seen \in Statuses
        /\ label \in {"rename", "renameSave", "refetch"} => w.num \in DOMAIN builds
        /\ label \in {"updateSave", "renameSave", "recordSave"} => w.loaded \in Seq(Rec)

ControlTyped ==
    /\ pc \in [Threads -> Labels]
    /\ work = [t \in Threads |-> work[t]]
    /\ \A t \in Threads : Fits(pc[t], work[t])

Typed ==
    /\ builds \in Seq(Build)
    /\ waiting \subseteq Launches
    /\ launches \in Nat
    /\ runs \in Seq(Rec)
    /\ ControlTyped

\* A thread that turns to a step with work that fits it stays typed.
LEMMA BecomeTyped ==
    ASSUME ControlTyped, NEW t \in Threads, NEW label \in Labels, NEW w, Become(t, label, w),
           builds' = builds, Fits(label, w)
    PROVE  /\ ControlTyped'
           /\ pc'[t] = label
           /\ label # "idle" => work'[t] = w
<1>1. /\ pc' = [pc EXCEPT ![t] = label]
      /\ work' = [work EXCEPT ![t] = IF label = "idle" THEN NoWork ELSE w]
  BY DEF Become
<1>2. pc'[t] = label /\ work'[t] = (IF label = "idle" THEN NoWork ELSE w)
  BY <1>1 DEF ControlTyped
<1>3. \A s \in Threads : s # t => pc'[s] = pc[s] /\ work'[s] = work[s]
  BY <1>1 DEF ControlTyped
<1>4. pc' \in [Threads -> Labels] /\ work' = [s \in Threads |-> work'[s]]
  BY <1>1 DEF ControlTyped
<1>5. \A s \in Threads : Fits(pc[s], work[s])
  BY DEF ControlTyped
<1>6. \A s \in Threads : Fits(pc[s], work[s])'
  <2> TAKE s \in Threads
  <2>1. CASE s = t
    BY <1>2, <2>1 DEF Fits
  <2>2. CASE s # t
    BY <1>3, <1>5, <2>2 DEF Fits
  <2>3. QED
    BY <2>1, <2>2
<1>7. QED
  BY <1>2, <1>4, <1>6 DEF ControlTyped

\* The next run, the count that follows a refresh, or the end.
LEMMA AdvanceTyped ==
    ASSUME ControlTyped, NEW t \in Threads, pc[t] # "idle", Advance(t), builds' = builds
    PROVE  /\ ControlTyped'
           /\ pc'[t] \in {"fetch", "count", "idle"}
           /\ pc'[t] # "idle" => work'[t].launch = work[t].launch /\ work'[t].op = work[t].op
           /\ pc'[t] = "count" => work[t].op = "launch"
<1> DEFINE rest == Tail(work[t].todo)
           w == [work[t] EXCEPT !.todo = rest, !.seen = Unknown, !.num = 1, !.loaded = << >>]
           label == AfterRuns(work[t].op, rest)
<1>1. Fits(pc[t], work[t])
  BY DEF ControlTyped
<1>2. Become(t, label, w)
  BY DEF Advance
<1>3. label \in {"fetch", "count", "idle"} /\ (label = "count" => work[t].op = "launch")
  BY DEF AfterRuns
<1>4. /\ Shaped(w) /\ w.num = 1 /\ w.launch = work[t].launch /\ w.op = work[t].op
      /\ work[t].op = "launch" => work[t].launch \in Launches
  BY <1>1 DEF Fits, Shaped
<1> HIDE DEF w, label
<1>5. Fits(label, w) /\ label \in Labels
  BY <1>3, <1>4 DEF Fits, Labels, Launching
<1>6. QED
  BY <1>2, <1>3, <1>4, <1>5, BecomeTyped

\* What is news is written down next; the rest of the runs comes otherwise.
LEMMA LearnTyped ==
    ASSUME ControlTyped, NEW t \in Threads, pc[t] # "idle", NEW status \in Statuses,
           Learn(t, status), builds' = builds
    PROVE  /\ ControlTyped'
           /\ pc'[t] \in {"fetch", "count", "idle", "update"}
           /\ pc'[t] # "idle" => work'[t].launch = work[t].launch /\ work'[t].op = work[t].op
           /\ pc'[t] = "count" => work[t].op = "launch"
           /\ pc'[t] = "update" => work'[t].seen = status /\ work'[t].todo = work[t].todo
<1>1. CASE Advance(t)
  BY <1>1, AdvanceTyped
<1>2. CASE Become(t, "update", [work[t] EXCEPT !.seen = status, !.num = 1])
  <2> DEFINE w == [work[t] EXCEPT !.seen = status, !.num = 1]
  <2>1. Fits(pc[t], work[t])
    BY DEF ControlTyped
  <2>2. /\ Shaped(w) /\ w.seen = status /\ w.num = 1
        /\ w.todo = work[t].todo /\ w.op = work[t].op
        /\ w.launch = work[t].launch
        /\ work[t].op = "launch" => work[t].launch \in Launches
    BY <2>1 DEF Fits, Shaped
  <2>3. Become(t, "update", w)
    BY <1>2
  <2> HIDE DEF w
  <2>4. Fits("update", w) /\ "update" \in Labels
    BY <2>2 DEF Fits, Labels, Launching
  <2>5. QED
    BY <2>2, <2>3, <2>4, BecomeTyped
<1>3. QED
  BY <1>1, <1>2 DEF Learn

(***************************************************************************)
(* The list of records.                                                    *)
(***************************************************************************)

\* The operations of update_run and update_run_status keep every record and
\* what it is about.
LEMMA WithStatusTyped ==
    ASSUME NEW rs \in Seq(Rec), NEW n, NEW status \in Statuses
    PROVE  /\ WithStatus(rs, n, status) \in Seq(Rec)
           /\ DOMAIN WithStatus(rs, n, status) = DOMAIN rs
           /\ \A i \in DOMAIN rs :
                /\ WithStatus(rs, n, status)[i].launch = rs[i].launch
                /\ WithStatus(rs, n, status)[i].num = rs[i].num
                /\ WithStatus(rs, n, status)[i].status =
                     IF rs[i].num = n THEN status ELSE rs[i].status
<1> DEFINE ws == WithStatus(rs, n, status)
<1>1. \A i \in DOMAIN rs : rs[i] \in Rec
  OBVIOUS
<1>2. /\ DOMAIN ws = DOMAIN rs
      /\ \A i \in DOMAIN rs :
           /\ ws[i] \in Rec
           /\ ws[i].launch = rs[i].launch /\ ws[i].num = rs[i].num
           /\ ws[i].status = IF rs[i].num = n THEN status ELSE rs[i].status
  BY <1>1 DEF WithStatus, Rec
<1>3. DOMAIN rs = 1 .. Len(rs) /\ Len(rs) \in Nat
  OBVIOUS
<1>4. ws \in [1 .. Len(rs) -> Rec]
  BY <1>2, <1>3 DEF WithStatus
<1>5. ws \in Seq(Rec)
  BY <1>3, <1>4
<1> HIDE DEF ws
<1>6. QED
  BY <1>2, <1>5 DEF ws

\* update_run with a new number keeps every record and its launch.
LEMMA RenumberedTyped ==
    ASSUME NEW rs \in Seq(Rec), NEW n, NEW k \in Nat
    PROVE  /\ Renumbered(rs, n, k) \in Seq(Rec)
           /\ DOMAIN Renumbered(rs, n, k) = DOMAIN rs
           /\ \A i \in DOMAIN rs : Renumbered(rs, n, k)[i].launch = rs[i].launch
<1> DEFINE rn == Renumbered(rs, n, k)
<1>1. \A i \in DOMAIN rs : rs[i] \in Rec
  OBVIOUS
<1>2. /\ DOMAIN rn = DOMAIN rs
      /\ \A i \in DOMAIN rs : rn[i] \in Rec /\ rn[i].launch = rs[i].launch
  BY <1>1 DEF Renumbered, Rec
<1>3. DOMAIN rs = 1 .. Len(rs) /\ Len(rs) \in Nat
  OBVIOUS
<1>4. rn \in [1 .. Len(rs) -> Rec]
  BY <1>2, <1>3 DEF Renumbered
<1>5. rn \in Seq(Rec)
  BY <1>3, <1>4
<1> HIDE DEF rn
<1>6. QED
  BY <1>2, <1>5 DEF rn

(***************************************************************************)
(* Every step is typed.                                                    *)
(***************************************************************************)

\* Jenkins only adds builds: what a thread knows stays known.
LEMMA JenkinsTyped ==
    ASSUME Typed, Jenkins
    PROVE  /\ Typed'
           /\ UNCHANGED <<runs, pc, work, launches, open, told>>
           /\ \A n \in DOMAIN builds :
                /\ n \in DOMAIN builds' /\ builds'[n].owner = builds[n].owner
                /\ builds[n].status \in Results => builds'[n].status = builds[n].status
<1>1. UNCHANGED <<runs, pc, work, launches, open, told>>
  BY DEF Jenkins, StartOther, Start, Drop, Finish
<1>2. /\ builds' \in Seq(Build) /\ waiting' \subseteq Launches
      /\ \A n \in DOMAIN builds :
           /\ n \in DOMAIN builds' /\ builds'[n].owner = builds[n].owner
           /\ builds[n].status \in Results => builds'[n].status = builds[n].status
  <2> USE DEF Typed
  <2>1. CASE \E n \in Numbers : Finish(n)
    <3>1. PICK n \in DOMAIN builds, result \in Results :
            /\ builds' = [builds EXCEPT ![n].status = result]
            /\ builds[n].status = "RUNNING" /\ waiting' = waiting
      BY <2>1 DEF Finish
    <3>2. builds[n] \in Build
      BY <3>1
    <3>3. [builds[n] EXCEPT !.status = result] \in Build
      BY <3>1, <3>2 DEF Build
    <3>4. QED
      BY <3>1, <3>2, <3>3 DEF Build, Results
  <2>2. CASE \E owner \in Launches \cup {Others} :
               builds' = Append(builds, [owner |-> owner, status |-> "RUNNING"])
    <3>1. PICK owner \in Launches \cup {Others} :
            builds' = Append(builds, [owner |-> owner, status |-> "RUNNING"])
      BY <2>2
    <3>2. [owner |-> owner, status |-> "RUNNING"] \in Build
      BY DEF Build
    <3>3. builds' \in Seq(Build) /\ \A n \in DOMAIN builds : n \in DOMAIN builds' /\ builds'[n] = builds[n]
      BY <3>1, <3>2
    <3>4. waiting' \subseteq Launches
      BY <2>2 DEF Jenkins, StartOther, Start, Drop, Finish
    <3>5. QED
      BY <3>3, <3>4
  <2>3. CASE builds' = builds
    BY <2>3 DEF Jenkins, StartOther, Start, Drop, Finish
  <2>4. QED
    BY <2>1, <2>2, <2>3 DEF Jenkins, StartOther, Start, Drop
<1>3. \A t \in Threads : Fits(pc[t], work[t])'
  BY <1>1, <1>2 DEF Typed, ControlTyped, Fits
<1>4. QED
  BY <1>1, <1>2, <1>3 DEF Typed, ControlTyped

\* The number of a launch that has started is the number of a build of it.
LEMMA HasStartedAt ==
    ASSUME NEW l, HasStarted(l)
    PROVE  NumberOf(l) \in DOMAIN builds /\ builds[NumberOf(l)].owner = l
BY DEF HasStarted, NumberOf

\* A thread that looks at runs.
LEMMA LookAtRunsTyped ==
    ASSUME Typed, NEW t \in Threads, LookAtRuns(t)
    PROVE  Typed'
<1>1. Fits(pc[t], work[t]) /\ ControlTyped
  BY DEF Typed, ControlTyped
<1>2. pc[t] # "idle"
  BY DEF LookAtRuns, Fetch, FetchFails, CheckQueue, Rename, RenameSave, Refetch, Update,
         UpdateSave, Tell
<1>3. /\ UNCHANGED <<builds, waiting, launches>>
  BY DEF LookAtRuns, Fetch, FetchFails, CheckQueue, Rename, RenameSave, Refetch, Update,
         UpdateSave, Tell, jenkins
<1>4. \A n \in DOMAIN builds : builds[n].status \in Statuses
  <2>1. \A n \in DOMAIN builds : builds[n] \in Build
    BY DEF Typed
  <2>2. QED
    BY <2>1 DEF Build, Statuses, Terminal, Active
<1>5. \A n \in DOMAIN builds : n \in Nat
  BY DEF Typed
<1>6. ControlTyped'
  <2>1. CASE Fetch(t)
    <3>1. CASE Run(t).num \in DOMAIN builds
      BY <1>1, <1>2, <1>3, <1>4, <2>1, <3>1, LearnTyped DEF Fetch
    <3>2. CASE Run(t).num \notin DOMAIN builds
      BY <1>1, <1>2, <1>3, <2>1, <3>2, BecomeTyped DEF Fetch, Fits, Labels, Launching
    <3>3. QED
      BY <3>1, <3>2
  <2>2. CASE FetchFails(t) \/ Tell(t)
    BY <1>1, <1>2, <1>3, <2>2, AdvanceTyped DEF FetchFails, Tell
  <2>3. CASE CheckQueue(t)
    <3>1. CASE \E status \in {"QUEUED", "CANCELLED"} : Learn(t, status)
      BY <1>1, <1>2, <1>3, <3>1, LearnTyped DEF Statuses, Terminal, Active
    <3>2. CASE Advance(t)
      BY <1>1, <1>2, <1>3, <3>2, AdvanceTyped
    <3>3. CASE \E l : HasStarted(l) /\ Become(t, "rename", [work[t] EXCEPT !.num = NumberOf(l)])
      <4>1. PICK l : HasStarted(l) /\ Become(t, "rename", [work[t] EXCEPT !.num = NumberOf(l)])
        BY <3>3
      <4>2. NumberOf(l) \in DOMAIN builds /\ NumberOf(l) \in Nat
        BY <1>5, <4>1, HasStartedAt
      <4>3. Fits("rename", [work[t] EXCEPT !.num = NumberOf(l)]) /\ "rename" \in Labels
        BY <1>1, <1>2, <4>2 DEF Fits, Shaped, Labels, Launching
      <4>4. QED
        BY <1>1, <1>3, <4>1, <4>3, BecomeTyped
    <3>4. QED
      BY <2>3, <3>1, <3>2, <3>3 DEF CheckQueue
  <2>4. CASE Rename(t)
    <3>1. Fits("renameSave", [work[t] EXCEPT !.loaded = runs]) /\ Fits("refetch", work[t])
      BY <1>1, <1>2, <2>4 DEF Rename, Typed, Fits, Shaped, Launching
    <3>2. QED
      BY <1>1, <1>3, <2>4, <3>1, BecomeTyped DEF Rename, Labels
  <2>5. CASE RenameSave(t)
    <3>1. Fits("refetch", [work[t] EXCEPT !.loaded = << >>])
      BY <1>1, <1>2, <2>5 DEF RenameSave, Fits, Shaped, Launching
    <3>2. QED
      BY <1>1, <1>3, <2>5, <3>1, BecomeTyped DEF RenameSave, Labels
  <2>6. CASE Refetch(t)
    BY <1>1, <1>2, <1>3, <1>4, <2>6, LearnTyped DEF Refetch, Fits
  <2>7. CASE Update(t)
    <3>1. CASE HasNumber(runs, Run(t).num)
      <4>1. Fits("updateSave", [work[t] EXCEPT !.loaded = runs])
        BY <1>1, <1>2, <2>7 DEF Update, Typed, Fits, Shaped, Launching
      <4>2. QED
        BY <1>1, <1>3, <2>7, <3>1, <4>1, BecomeTyped DEF Update, Labels
    <3>2. CASE ~HasNumber(runs, Run(t).num)
      BY <1>1, <1>2, <1>3, <2>7, <3>2, AdvanceTyped DEF Update
    <3>3. QED
      BY <3>1, <3>2
  <2>8. CASE UpdateSave(t)
    <3>1. Fits("tell", work[t])
      BY <1>1, <1>2 DEF Fits, Launching
    <3>2. CASE Become(t, "tell", work[t])
      BY <1>1, <1>3, <3>1, <3>2, BecomeTyped DEF Labels
    <3>3. CASE Advance(t)
      BY <1>1, <1>2, <1>3, <3>3, AdvanceTyped
    <3>4. QED
      BY <2>8, <3>2, <3>3 DEF UpdateSave
  <2>9. QED
    BY <2>1, <2>2, <2>3, <2>4, <2>5, <2>6, <2>7, <2>8 DEF LookAtRuns
<1>7. runs' \in Seq(Rec)
  <2>1. CASE RenameSave(t)
    <3>1. work[t].loaded \in Seq(Rec) /\ work[t].num \in Nat
      BY <1>1, <1>2, <2>1 DEF RenameSave, Fits
    <3>2. QED
      BY <2>1, <3>1, RenumberedTyped DEF RenameSave
  <2>2. CASE UpdateSave(t)
    <3>1. work[t].loaded \in Seq(Rec) /\ work[t].seen \in Statuses
      BY <1>1, <1>2, <2>2 DEF UpdateSave, Fits
    <3>2. QED
      BY <2>2, <3>1, WithStatusTyped DEF UpdateSave
  <2>3. CASE ~RenameSave(t) /\ ~UpdateSave(t)
    <3>1. runs' = runs
      BY <2>3 DEF LookAtRuns, Fetch, FetchFails, CheckQueue, Rename, Refetch, Update, Tell
    <3>2. QED
      BY <3>1 DEF Typed
  <2>4. QED
    BY <2>1, <2>2, <2>3
<1>8. QED
  BY <1>3, <1>6, <1>7 DEF Typed

\* A thread that begins, or goes on with a launch or a cancellation.
LEMMA StartedTyped ==
    ASSUME NEW op, NEW todo, op # "launch"
    PROVE  Fits("fetch", Started(op, todo)) /\ Fits("stop", Started(op, todo))
BY DEF Fits, Started, Shaped, Launching

\* Others, which is 0, is not a launch.
LEMMA LaunchesAreNumbers == \A l \in Launches : l \in Nat \ {0}
BY BoundsAssumption DEF Launches

\* poll, query, cancel and launch begin; a launch takes the next number.
LEMMA BeginTyped ==
    ASSUME Typed, NEW t \in Threads, Poll(t) \/ Query(t) \/ Cancel(t) \/ Launch(t)
    PROVE  /\ Typed'
           /\ UNCHANGED <<builds, waiting, dropped, stopped, runs, open, told>>
           /\ pc[t] = "idle" /\ pc'[t] \in {"fetch", "stop", "count"}
           /\ launches' \in {launches, launches + 1}
           /\ work'[t].op = "launch" \/ pc'[t] = "count" =>
                work'[t].op = "launch" /\ work'[t].launch = launches + 1 /\ launches' = launches + 1
           /\ pc'[t] = "stop" => work'[t].op = "cancel"
<1>1. UNCHANGED <<builds, waiting, dropped, stopped, runs, open, told>> /\ pc[t] = "idle"
  BY DEF Poll, Query, Cancel, Launch, jenkins
<1>2. ControlTyped /\ launches \in Nat
  BY DEF Typed
<1>3. CASE Launch(t)
  <2> DEFINE todo == ActiveRuns(runs)
             w == [Started("launch", todo) EXCEPT !.launch = launches + 1]
             label == AfterRuns("launch", todo)
  <2>1. label \in {"fetch", "count"}
    BY DEF AfterRuns
  <2>2. launches + 1 \in Launches /\ launches' = launches + 1
    BY <1>2, <1>3, BoundsAssumption DEF Launch, Launches
  <2>3. Shaped(w) /\ w.op = "launch" /\ w.launch = launches + 1 /\ w.num = 1
    BY DEF Started, Shaped
  <2>4. Become(t, label, w)
    BY <1>3 DEF Launch
  <2> HIDE DEF w, label
  <2>5. Fits(label, w) /\ label \in Labels
    BY <2>1, <2>2, <2>3 DEF Fits, Labels, Launching
  <2>6. ControlTyped' /\ pc'[t] = label /\ work'[t] = w
    BY <1>1, <1>2, <2>1, <2>4, <2>5, BecomeTyped
  <2>7. QED
    BY <1>1, <1>2, <2>1, <2>2, <2>3, <2>6 DEF Typed
<1>4. CASE Poll(t) \/ Query(t) \/ Cancel(t)
  <2>1. PICK label \in {"fetch", "stop"}, op \in {"poll", "query", "cancel"} :
          /\ \E todo : Become(t, label, Started(op, todo))
          /\ label = "stop" => op = "cancel"
    BY <1>4 DEF Poll, Query, Cancel
  <2>2. PICK todo : Become(t, label, Started(op, todo))
    BY <2>1
  <2>3. Fits(label, Started(op, todo)) /\ label \in Labels
    BY <2>1, StartedTyped DEF Labels
  <2>4. ControlTyped' /\ pc'[t] = label /\ work'[t] = Started(op, todo)
    BY <1>1, <1>2, <2>1, <2>2, <2>3, BecomeTyped
  <2>5. launches' = launches
    BY <1>4 DEF Poll, Query, Cancel
  <2>6. QED
    BY <1>1, <1>2, <2>1, <2>4, <2>5 DEF Typed, Started
<1>5. QED
  BY <1>3, <1>4

\* The steps of a launch and of a cancellation, and what they pass on.
LEMMA LaunchRunTyped ==
    ASSUME Typed, NEW t \in Threads, LaunchRun(t) \/ StopBuild(t)
    PROVE  Typed' /\ (pc'[t] # "idle" => work'[t].launch = work[t].launch)
<1>1. Fits(pc[t], work[t]) /\ ControlTyped
  BY DEF Typed, ControlTyped
<1>2. /\ pc[t] \in {"count", "predict", "trigger", "await", "record", "recordSave", "stop"}
      /\ UNCHANGED <<builds, launches>>
  BY DEF LaunchRun, StopBuild, Count, Predict, Trigger, Await, RecordRun, RecordSave, jenkins
<1>3. Fits("idle", NoWork)
  BY DEF Fits
<1>4. /\ ControlTyped'
      /\ pc'[t] # "idle" => work'[t].launch = work[t].launch
  <2>1. PICK label \in Labels :
          \E w : /\ Become(t, label, w) /\ Fits(label, w)
                 /\ label # "idle" => w.launch = work[t].launch
    <3>1. CASE Count(t)
      <4>1. /\ Fits("predict", [work[t] EXCEPT !.open = TRUE]) /\ Fits("predict", work[t])
            /\ [work[t] EXCEPT !.open = TRUE].launch = work[t].launch
        BY <1>1, <3>1 DEF Count, Fits, Shaped, Launching
      <4>2. QED
        BY <1>3, <3>1, <4>1 DEF Count, Labels
    <3>2. CASE Predict(t)
      <4>1. Len(builds) + 1 \in Nat
        BY DEF Typed
      <4>2. /\ Fits("trigger", [work[t] EXCEPT !.num = Len(builds) + 1])
            /\ [work[t] EXCEPT !.num = Len(builds) + 1].launch = work[t].launch
        BY <1>1, <3>2, <4>1 DEF Predict, Fits, Shaped, Launching
      <4>3. QED
        BY <3>2, <4>2 DEF Predict, Labels
    <3>3. CASE Trigger(t)
      <4>1. Fits("await", work[t])
        BY <1>1, <3>3 DEF Trigger, Fits, Launching
      <4>2. QED
        BY <1>3, <3>3, <4>1 DEF Trigger, Labels
    <3>4. CASE Await(t)
      <4> DEFINE l == work[t].launch
      <4>1. HasStarted(l) => NumberOf(l) \in Nat
        BY HasStartedAt DEF Typed
      <4>2. {"PENDING", "QUEUED"} \subseteq Statuses
        BY DEF Statuses, Active
      <4>3. /\ HasStarted(l) =>
                 /\ Fits("record", [work[t] EXCEPT !.num = NumberOf(l), !.seen = "PENDING"])
                 /\ [work[t] EXCEPT !.num = NumberOf(l), !.seen = "PENDING"].launch = l
            /\ Fits("record", [work[t] EXCEPT !.seen = "QUEUED"])
            /\ [work[t] EXCEPT !.seen = "QUEUED"].launch = l
        BY <1>1, <3>4, <4>1, <4>2 DEF Await, Fits, Shaped, Launching
      <4>4. QED
        BY <3>4, <4>3 DEF Await, Labels
    <3>5. CASE RecordRun(t)
      <4>1. /\ Fits("recordSave", [work[t] EXCEPT !.loaded = runs])
            /\ [work[t] EXCEPT !.loaded = runs].launch = work[t].launch
        BY <1>1, <3>5 DEF RecordRun, Fits, Shaped, Typed, Launching
      <4>2. QED
        BY <3>5, <4>1 DEF RecordRun, Labels
    <3>6. CASE RecordSave(t)
      BY <1>3, <3>6 DEF RecordSave, Labels
    <3>7. CASE StopBuild(t)
      <4>1. "CANCELLED" \in Statuses
        BY DEF Statuses, Terminal
      <4>2. /\ Fits("update", [work[t] EXCEPT !.seen = "CANCELLED"])
            /\ [work[t] EXCEPT !.seen = "CANCELLED"].launch = work[t].launch
        BY <1>1, <1>2, <4>1 DEF Fits, Shaped, Launching
      <4>3. QED
        BY <1>3, <3>7, <4>2 DEF StopBuild, Labels
    <3>8. QED
      BY <3>1, <3>2, <3>3, <3>4, <3>5, <3>6, <3>7 DEF LaunchRun
  <2>2. PICK w : Become(t, label, w) /\ Fits(label, w) /\ (label # "idle" => w.launch = work[t].launch)
    BY <2>1
  <2>3. QED
    BY <1>1, <1>2, <2>2, BecomeTyped
<1>5. waiting' \subseteq Launches
  BY <1>1, <1>2 DEF LaunchRun, StopBuild, Count, Predict, Trigger, Await, RecordRun, RecordSave,
                    jenkins, Typed, Fits, Launching
<1>6. runs' \in Seq(Rec)
  <2>1. CASE RecordSave(t)
    <3>1. work[t].loaded \in Seq(Rec) /\ work[t].launch \in Launches /\ work[t].num \in Nat
          /\ work[t].seen \in Statuses
      BY <1>1, <2>1 DEF RecordSave, Fits, Launching
    <3>2. [launch |-> work[t].launch, num |-> work[t].num, status |-> work[t].seen] \in Rec
      BY <3>1 DEF Rec
    <3>3. QED
      BY <2>1, <3>1, <3>2 DEF RecordSave
  <2>2. CASE ~RecordSave(t)
    <3>1. runs' = runs
      BY <2>2 DEF LaunchRun, StopBuild, Count, Predict, Trigger, Await, RecordRun
    <3>2. QED
      BY <3>1 DEF Typed
  <2>3. QED
    BY <2>1, <2>2
<1>7. QED
  BY <1>2, <1>4, <1>5, <1>6 DEF Typed

\* The program starts typed,
LEMMA InitTyped == Init => Typed
<1>1. << >> \in Seq(Build) /\ << >> \in Seq(Rec)
  OBVIOUS
<1>2. QED
  BY <1>1 DEF Init, Typed, ControlTyped, Fits, Labels

\* and every step keeps it so.
LEMMA StepTyped ==
    ASSUME Typed, [Next]_vars
    PROVE  Typed'
<1>1. CASE Jenkins
  BY <1>1, JenkinsTyped
<1>2. ASSUME NEW t \in Threads, Step(t) PROVE Typed'
  BY <1>2, LookAtRunsTyped, BeginTyped, LaunchRunTyped DEF Step, Proceed
<1>3. CASE UNCHANGED vars
  BY <1>3 DEF vars, Typed, ControlTyped, Fits
<1>4. QED
  BY <1>1, <1>2, <1>3 DEF Next

(***************************************************************************)
(* No run is forgotten: what a save writes was loaded from the file the     *)
(* save replaces, because nobody else saves in between.                    *)
(***************************************************************************)

Saving == {"updateSave", "renameSave", "recordSave"}

LoadedIsCurrent ==
    \A t \in Threads : pc[t] \in Saving => work[t].loaded = runs

RunsInv == Typed /\ LoadedIsCurrent /\ NoRunForgotten

\* Where a thread is after it has turned to a step.
LEMMA BecomeAt ==
    ASSUME ControlTyped, NEW t \in Threads, NEW label, NEW w, Become(t, label, w)
    PROVE  pc'[t] = label /\ (label # "idle" => work'[t] = w)
BY DEF Become, ControlTyped

\* No save follows at once on what was learnt.
LEMMA AfterLearn ==
    ASSUME ControlTyped, NEW t \in Threads, NEW status, Learn(t, status) \/ Advance(t)
    PROVE  pc'[t] \in {"fetch", "count", "idle", "update"}
<1>1. CASE Advance(t)
  BY <1>1, BecomeAt DEF Advance, AfterRuns
<1>2. CASE Become(t, "update", [work[t] EXCEPT !.seen = status, !.num = 1])
  BY <1>2, BecomeAt
<1>3. QED
  BY <1>1, <1>2 DEF Learn

\* A thread that is about to save has just loaded.
LEMMA LoadsBeforeSave ==
    ASSUME Typed, NEW t \in Threads, Step(t), pc'[t] \in Saving
    PROVE  work'[t].loaded = runs'
<1>1. ControlTyped /\ Fits(pc[t], work[t])
  BY DEF Typed, ControlTyped
<1>2. CASE \E label \in Labels \ (Saving \cup {"idle"}) : \E w : Become(t, label, w)
  BY <1>1, <1>2, BecomeAt
<1>3. CASE Become(t, "idle", NoWork)
  BY <1>1, <1>3, BecomeAt DEF Saving
<1>4. CASE Advance(t) \/ \E status : Learn(t, status)
  BY <1>1, <1>4, AfterLearn DEF Saving
<1>5. CASE Rename(t) \/ Update(t) \/ RecordRun(t)
  <2>1. CASE \E label \in Saving : Become(t, label, [work[t] EXCEPT !.loaded = runs])
    <3>1. pc[t] # "idle" /\ runs' = runs
      BY <1>5 DEF Rename, Update, RecordRun
    <3>2. [work[t] EXCEPT !.loaded = runs].loaded = runs
      BY <1>1, <3>1 DEF Fits, Shaped
    <3>3. PICK label \in Saving : Become(t, label, [work[t] EXCEPT !.loaded = runs])
      BY <2>1
    <3>4. work'[t] = [work[t] EXCEPT !.loaded = runs]
      BY <1>1, <3>3, BecomeAt DEF Saving
    <3>5. QED
      BY <3>1, <3>2, <3>4
  <2>2. QED
    BY <1>2, <1>4, <1>5, <2>1 DEF Rename, Update, RecordRun, Saving, Labels
<1>6. CASE LookAtRuns(t) /\ ~Rename(t) /\ ~Update(t)
  BY <1>2, <1>3, <1>4, <1>6 DEF LookAtRuns, Fetch, FetchFails, CheckQueue, RenameSave, Refetch,
                                UpdateSave, Tell, Saving, Labels
<1>7. CASE LaunchRun(t) /\ ~RecordRun(t)
  BY <1>2, <1>3, <1>7 DEF LaunchRun, Count, Predict, Trigger, Await, RecordSave, Saving, Labels
<1>8. CASE StopBuild(t)
  BY <1>2, <1>3, <1>8 DEF StopBuild, Saving, Labels
<1>9. CASE Poll(t) \/ Query(t) \/ Cancel(t) \/ Launch(t)
  BY <1>9, BeginTyped DEF Saving
<1>10. QED
  BY <1>5, <1>6, <1>7, <1>8, <1>9 DEF Step, Proceed, LaunchRun

\* Nobody but the thread itself can disturb what it has loaded.
LEMMA StaysCurrent ==
    ASSUME OneThread, Typed, LoadedIsCurrent, [Next]_vars
    PROVE  LoadedIsCurrent'
<1>1. CASE Jenkins
  BY <1>1 DEF Jenkins, StartOther, Start, Drop, Finish, LoadedIsCurrent
<1>2. CASE \E t \in Threads : Step(t)
  BY <1>2, LoadsBeforeSave DEF OneThread, LoadedIsCurrent
<1>3. CASE UNCHANGED vars
  BY <1>3 DEF vars, LoadedIsCurrent
<1>4. QED
  BY <1>1, <1>2, <1>3 DEF Next

\* What Jenkins does with the launches it has been given.
LEMMA JenkinsOwners ==
    ASSUME Typed, Jenkins, NEW l \in Launches
    PROVE  /\ (l \in waiting \/ HasStarted(l) \/ l \in dropped)'
                => (l \in waiting \/ HasStarted(l) \/ l \in dropped)
           /\ UNCHANGED <<runs, pc, work, launches>>
<1>1. UNCHANGED <<runs, pc, work, launches>>
  BY DEF Jenkins, StartOther, Start, Drop, Finish
<1>2. l # Others
  BY LaunchesAreNumbers DEF Others
<1>3. builds \in Seq(Build)
  BY DEF Typed
<1>4. CASE \E k \in Launches : Start(k)
  <2>1. PICK k \in Launches : Start(k)
    BY <1>4
  <2>2. HasStarted(l)' => HasStarted(l) \/ l = k
    BY <1>3, <2>1 DEF Start, HasStarted
  <2>3. QED
    BY <1>1, <2>1, <2>2 DEF Start
<1>5. CASE StartOther
  BY <1>1, <1>2, <1>3, <1>5 DEF StartOther, HasStarted
<1>6. CASE \E n \in Numbers : Finish(n)
  <2>1. PICK n \in Numbers : Finish(n)
    BY <1>6
  <2>2. \A k \in DOMAIN builds' : k \in DOMAIN builds /\ builds'[k].owner = builds[k].owner
    <3>1. \A k \in DOMAIN builds : builds[k] \in Build
      BY <1>3
    <3>2. QED
      BY <2>1, <3>1 DEF Finish, Build
  <2>3. QED
    BY <1>1, <2>1, <2>2 DEF Finish, HasStarted
<1>7. CASE \E k \in Launches : Drop(k)
  BY <1>1, <1>7 DEF Drop, HasStarted
<1>8. QED
  BY <1>4, <1>5, <1>6, <1>7 DEF Jenkins

\* Looking at runs keeps every record, and what it is about.
LEMMA LookAtRunsKeeps ==
    ASSUME Typed, LoadedIsCurrent, NEW t \in Threads, LookAtRuns(t)
    PROVE  DOMAIN runs' = DOMAIN runs /\ \A i \in DOMAIN runs : runs'[i].launch = runs[i].launch
<1>1. Fits(pc[t], work[t]) /\ runs \in Seq(Rec)
  BY DEF Typed, ControlTyped
<1>2. CASE RenameSave(t)
  <2>1. runs' = Renumbered(runs, Run(t).num, work[t].num) /\ work[t].num \in Nat
    BY <1>1, <1>2 DEF RenameSave, LoadedIsCurrent, Saving, Fits
  <2>2. QED
    BY <1>1, <2>1, RenumberedTyped
<1>3. CASE UpdateSave(t)
  <2>1. runs' = WithStatus(runs, Run(t).num, work[t].seen) /\ work[t].seen \in Statuses
    BY <1>1, <1>3 DEF UpdateSave, LoadedIsCurrent, Saving, Fits
  <2>2. QED
    BY <1>1, <2>1, WithStatusTyped
<1>4. CASE ~RenameSave(t) /\ ~UpdateSave(t)
  BY <1>4 DEF LookAtRuns, Fetch, FetchFails, CheckQueue, Rename, Refetch, Update, Tell
<1>5. QED
  BY <1>2, <1>3, <1>4

\* One case for each action: who was given to Jenkins is recorded or on the way.
LEMMA StepForgetsNoRun ==
    ASSUME OneThread, "lost" \notin Faults, RunsInv, [Next]_vars
    PROVE  NoRunForgotten'
<1> DEFINE Given(l) == l \in waiting \/ HasStarted(l) \/ l \in dropped
           Recorded(l) == \E i \in DOMAIN runs : runs[i].launch = l
           OnItsWay(l) == \E t \in Threads : pc[t] \in {"await", "record", "recordSave"}
                                               /\ work[t].launch = l
<1>1. Typed /\ ControlTyped /\ LoadedIsCurrent /\ \A l \in Launches : Given(l) => Recorded(l) \/ OnItsWay(l)
  BY DEF RunsInv, Typed, NoRunForgotten
<1>2. SUFFICES ASSUME NEW l \in Launches, Given(l)' PROVE Recorded(l)' \/ OnItsWay(l)'
  BY DEF NoRunForgotten
<1>3. CASE Jenkins
  BY <1>1, <1>2, <1>3, JenkinsOwners
<1>4. ASSUME NEW t \in Threads, LookAtRuns(t) PROVE Recorded(l)'
  <2>1. pc[t] \notin {"await", "record", "recordSave"} /\ (Given(l)' => Given(l))
    BY <1>4 DEF LookAtRuns, Fetch, FetchFails, CheckQueue, Rename, RenameSave, Refetch, Update,
                UpdateSave, Tell, jenkins, HasStarted
  <2>2. ~OnItsWay(l)
    BY <2>1 DEF OneThread
  <2>3. QED
    BY <1>1, <1>2, <1>4, <2>1, <2>2, LookAtRunsKeeps
<1>5. ASSUME NEW t \in Threads, Poll(t) \/ Query(t) \/ Cancel(t) \/ Launch(t) \/ StopBuild(t)
      PROVE  Recorded(l)'
  <2>1. /\ pc[t] \notin {"await", "record", "recordSave"}
        /\ (Given(l)' => Given(l)) /\ runs' = runs
    BY <1>5 DEF Poll, Query, Cancel, Launch, StopBuild, jenkins, HasStarted
  <2>2. ~OnItsWay(l)
    BY <2>1 DEF OneThread
  <2>3. QED
    BY <1>1, <1>2, <2>1, <2>2
<1>6. ASSUME NEW t \in Threads, LaunchRun(t) PROVE Recorded(l)' \/ OnItsWay(l)'
  <2>1. pc'[t] # "idle" => work'[t].launch = work[t].launch
    BY <1>1, <1>6, LaunchRunTyped
  <2>2. CASE Count(t) \/ Predict(t)
    <3>1. pc[t] \notin {"await", "record", "recordSave"} /\ Given(l) /\ runs' = runs
      BY <1>2, <2>2 DEF Count, Predict, jenkins, HasStarted
    <3>2. ~OnItsWay(l)
      BY <3>1 DEF OneThread
    <3>3. QED
      BY <1>1, <3>1, <3>2
  <2>3. CASE Trigger(t)
    <3>1. Become(t, "await", work[t]) /\ (Given(l) \/ l = work[t].launch) /\ runs' = runs
          /\ pc[t] = "trigger"
      BY <1>2, <2>3 DEF Trigger, HasStarted
    <3>2. pc'[t] = "await" /\ work'[t] = work[t]
      BY <1>1, <3>1, BecomeAt
    <3>3. ~OnItsWay(l)
      BY <3>1 DEF OneThread
    <3>4. QED
      BY <1>1, <3>1, <3>2, <3>3
  <2>4. CASE Await(t) \/ RecordRun(t)
    <3>1. pc[t] \in {"await", "record"} /\ Given(l) /\ runs' = runs
      BY <1>2, <2>4 DEF Await, RecordRun, jenkins, HasStarted
    <3>2. pc'[t] \in {"record", "recordSave"}
      BY <1>1, <2>4, BecomeAt DEF Await, RecordRun
    <3>3. OnItsWay(l) => work[t].launch = l
      BY DEF OneThread
    <3>4. QED
      BY <1>1, <2>1, <3>1, <3>2, <3>3
  <2>5. CASE RecordSave(t)
    <3>1. Given(l) /\ pc[t] = "recordSave" /\ work[t].loaded = runs
      BY <1>1, <1>2, <2>5 DEF RecordSave, jenkins, HasStarted, LoadedIsCurrent, Saving
    <3>2. runs' = Append(runs, [launch |-> work[t].launch, num |-> work[t].num, status |-> work[t].seen])
      BY <2>5, <3>1 DEF RecordSave
    <3>3. runs \in Seq(Rec) /\ Fits(pc[t], work[t])
      BY <1>1 DEF Typed, ControlTyped
    <3>4. [launch |-> work[t].launch, num |-> work[t].num, status |-> work[t].seen] \in Rec
      BY <3>1, <3>3 DEF Fits, Rec, Launching
    <3>5. CASE Recorded(l)
      BY <3>2, <3>3, <3>5
    <3>6. CASE OnItsWay(l)
      <4>1. work[t].launch = l
        BY <3>6 DEF OneThread
      <4>2. Len(runs) + 1 \in DOMAIN runs' /\ runs'[Len(runs) + 1].launch = l
        BY <3>2, <3>3, <3>4, <4>1
      <4>3. QED
        BY <4>2
    <3>7. QED
      BY <1>1, <3>1, <3>5, <3>6
  <2>6. QED
    BY <1>6, <2>2, <2>3, <2>4, <2>5 DEF LaunchRun
<1>7. CASE UNCHANGED vars
  BY <1>1, <1>2, <1>7 DEF vars, HasStarted
<1>8. QED
  BY <1>3, <1>4, <1>5, <1>6, <1>7 DEF Next, Step, Proceed

\* With one thread and no answer lost, a build that was triggered is in the
\* tracker, or on its way there, whatever else Jenkins does
\* (perform_launch_jenkins_ci, record_run and update_run of ci.py).
THEOREM RunsAreNotForgotten ==
    ASSUME OneThread, "lost" \notin Faults
    PROVE  Spec => []NoRunForgotten
<1>1. Init => RunsInv
  BY InitTyped DEF Init, RunsInv, LoadedIsCurrent, Saving, NoRunForgotten, HasStarted
<1>2. RunsInv /\ [Next]_vars => RunsInv'
  BY StepTyped, StaysCurrent, StepForgetsNoRun DEF RunsInv
<1>3. RunsInv => NoRunForgotten
  BY DEF RunsInv
<1>4. QED
  BY <1>1, <1>2, <1>3, PTL DEF Spec

(***************************************************************************)
(* A final status is the own one.  When every build leaves the queue in     *)
(* time, a record is written with the number its build has, so that no      *)
(* number ever has to be put right.                                        *)
(***************************************************************************)

\* A status that could be written down for the build with number n.
Right(status, n) ==
    /\ status \in Results => builds[n].status = status
    /\ status = "CANCELLED" => n \in stopped

Fresh(l) == l \notin waiting /\ ~HasStarted(l)

\* Jenkins has every launch once, and no more than there were.
QueueInv ==
    /\ dropped = {}
    /\ \A l \in Launches : ~Fresh(l) => l <= launches
    /\ \A l \in waiting : ~HasStarted(l)
    /\ \A m, n \in DOMAIN builds :
         builds[m].owner = builds[n].owner /\ builds[m].owner # Others => m = n

RecordRight(r) ==
    /\ r.num \in DOMAIN builds
    /\ builds[r.num].owner = r.launch
    /\ Right(r.status, r.num)

RecordsRight == \A i \in DOMAIN runs : RecordRight(runs[i])

\* What a thread at a step of its work goes by.
WorkRight(t) ==
    /\ pc[t] \notin {"rename", "renameSave", "refetch"}
    /\ pc[t] \notin {"idle", "await", "record", "recordSave"} /\ work[t].op = "launch" =>
         work[t].launch <= launches /\ Fresh(work[t].launch)
    /\ pc[t] = "stop" => work[t].op = "cancel"
    /\ pc[t] = "queued" => ~HasNumber(runs, Run(t).num)
    /\ pc[t] \in {"update", "updateSave"} =>
         \A i \in DOMAIN runs : runs[i].num = Run(t).num => Right(work[t].seen, Run(t).num)
    /\ pc[t] \in {"record", "recordSave"} =>
         RecordRight([launch |-> work[t].launch, num |-> work[t].num, status |-> work[t].seen])

WorksRight == \A t \in Threads : WorkRight(t)

OwnInv == Typed /\ LoadedIsCurrent /\ QueueInv /\ RecordsRight /\ WorksRight

\* Jenkins numbers a build once, and a result it has reported stays.
LEMMA JenkinsKeeps ==
    ASSUME Typed, Jenkins
    PROVE  /\ UNCHANGED <<stopped, runs, pc, work, launches>>
           /\ \A n \in DOMAIN builds :
                /\ n \in DOMAIN builds'
                /\ builds'[n].owner = builds[n].owner
                /\ builds[n].status \in Results => builds'[n].status = builds[n].status
<1>1. builds \in Seq(Build)
  BY DEF Typed
<1>2. CASE \E n \in Numbers : Finish(n)
  <2>1. PICK n \in Numbers : Finish(n)
    BY <1>2
  <2>2. \A k \in DOMAIN builds : builds[k] \in Build
    BY <1>1
  <2>3. builds[n].status = "RUNNING" /\ "RUNNING" \notin Results
    BY <2>1 DEF Finish, Results
  <2>4. QED
    BY <2>1, <2>2, <2>3 DEF Finish, Build
<1>3. CASE StartOther
  BY <1>1, <1>3 DEF StartOther
<1>4. CASE \E k \in Launches : Start(k) \/ Drop(k)
  BY <1>1, <1>4 DEF Start, Drop
<1>5. UNCHANGED <<stopped, runs, pc, work, launches>>
  BY DEF Jenkins, StartOther, Start, Drop, Finish
<1>6. QED
  BY <1>2, <1>3, <1>4, <1>5 DEF Jenkins

\* Jenkins starts a launch once, and nobody else starts one.
LEMMA JenkinsQueue ==
    ASSUME QueueHolds = FALSE, Typed, QueueInv, Jenkins
    PROVE  QueueInv' /\ \A l \in Launches : Fresh(l) => Fresh(l)'
<1>1. builds \in Seq(Build) /\ waiting \subseteq Launches /\ dropped = {}
  BY DEF Typed, QueueInv
<1>2. Others \notin Launches
  BY LaunchesAreNumbers DEF Others
<1>3. launches' = launches
  BY JenkinsKeeps
<1>4. CASE \E k \in Launches : Start(k)
  <2>1. PICK k \in Launches : Start(k)
    BY <1>4
  <2>2. \A l : HasStarted(l)' <=> HasStarted(l) \/ l = k
    BY <1>1, <2>1 DEF Start, HasStarted
  <2>3. k \in waiting /\ waiting' = waiting \ {k} /\ dropped' = {} /\ ~HasStarted(k)
    BY <1>1, <2>1 DEF Start, QueueInv
  <2>4. \A l \in Launches : Fresh(l)' <=> Fresh(l)
    BY <2>2, <2>3 DEF Fresh
  <2>5. \A m, n \in DOMAIN builds' :
          builds'[m].owner = builds'[n].owner /\ builds'[m].owner # Others => m = n
    <3>1. \A m \in DOMAIN builds' : IF m \in DOMAIN builds THEN builds'[m] = builds[m]
                                    ELSE m = Len(builds) + 1 /\ builds'[m].owner = k
      BY <1>1, <2>1 DEF Start
    <3>2. \A m \in DOMAIN builds : builds[m].owner # k
      BY <2>3 DEF HasStarted
    <3>3. QED
      BY <3>1, <3>2 DEF QueueInv
  <2>6. QED
    BY <1>3, <2>2, <2>3, <2>4, <2>5 DEF QueueInv
<1>5. CASE StartOther
  <2>1. \A m \in DOMAIN builds' : IF m \in DOMAIN builds THEN builds'[m] = builds[m]
                                  ELSE builds'[m].owner = Others
    BY <1>1, <1>5 DEF StartOther
  <2>2. \A m \in DOMAIN builds : m \in DOMAIN builds'
    BY <1>1, <1>5 DEF StartOther
  <2>3. \A l \in Launches : HasStarted(l)' <=> HasStarted(l)
    BY <1>2, <2>1, <2>2 DEF HasStarted
  <2>4. waiting' = waiting /\ dropped' = dropped
    BY <1>5 DEF StartOther
  <2>5. \A m, n \in DOMAIN builds' :
          builds'[m].owner = builds'[n].owner /\ builds'[m].owner # Others => m = n
    BY <2>1 DEF QueueInv
  <2>6. QED
    BY <1>1, <1>3, <2>3, <2>4, <2>5 DEF QueueInv, Fresh
<1>6. CASE \E n \in Numbers : Finish(n)
  <2>1. waiting' = waiting /\ dropped' = dropped /\ DOMAIN builds' = DOMAIN builds
    BY <1>6 DEF Finish
  <2>2. \A m \in DOMAIN builds : builds'[m].owner = builds[m].owner
    BY <1>6, JenkinsKeeps
  <2>3. \A l \in Launches : HasStarted(l)' <=> HasStarted(l)
    BY <2>1, <2>2 DEF HasStarted
  <2>4. QED
    BY <1>1, <1>3, <2>1, <2>2, <2>3 DEF QueueInv, Fresh
<1>7. QED
  BY <1>4, <1>5, <1>6 DEF Jenkins, Drop

\* Whatever Jenkins does, what the thread goes by stays right.
LEMMA JenkinsOwn ==
    ASSUME QueueHolds = FALSE, OwnInv, Jenkins
    PROVE  OwnInv'
<1>1. Typed /\ LoadedIsCurrent /\ QueueInv /\ RecordsRight /\ WorksRight
  BY DEF OwnInv
<1>2. UNCHANGED <<stopped, runs, pc, work, launches>>
  BY <1>1, JenkinsKeeps
<1>3. \A status : \A n \in DOMAIN builds : Right(status, n) => Right(status, n)'
  BY <1>1, JenkinsKeeps DEF Right
<1>4. \A r : RecordRight(r) => RecordRight(r)'
  BY <1>1, <1>3, JenkinsKeeps DEF RecordRight
<1>5. RecordsRight'
  BY <1>1, <1>2, <1>4 DEF RecordsRight
<1>6. WorksRight'
  <2> SUFFICES ASSUME NEW t \in Threads PROVE WorkRight(t)'
    BY DEF WorksRight
  <2>1. WorkRight(t) /\ Fits(pc[t], work[t])
    BY <1>1 DEF WorksRight, Typed, ControlTyped
  <2>2. Run(t)' = Run(t)
    <3>1. work' = work
      BY <1>2
    <3>2. QED
      BY <3>1, Zenon DEF Run
  <2>3. pc[t] \notin {"idle", "await", "record", "recordSave"} /\ work[t].op = "launch" =>
          work[t].launch <= launches /\ Fresh(work[t].launch)'
    <3>1. pc[t] # "idle" /\ work[t].op = "launch" => work[t].launch \in Launches
      BY <2>1 DEF Fits
    <3>2. \A l \in Launches : Fresh(l) => Fresh(l)'
      BY <1>1, JenkinsQueue
    <3>3. QED
      BY <1>2, <2>1, <3>1, <3>2 DEF WorkRight, Fresh, HasStarted
  <2>4. pc[t] \in {"update", "updateSave"} =>
          \A i \in DOMAIN runs : runs[i].num = Run(t).num => Right(work[t].seen, Run(t).num)'
    <3>1. \A i \in DOMAIN runs : runs[i].num \in DOMAIN builds
      BY <1>1 DEF RecordsRight, RecordRight
    <3>2. QED
      BY <1>2, <1>3, <2>1, <2>2, <3>1 DEF WorkRight, Right
  <2>5. pc[t] \in {"record", "recordSave"} =>
          RecordRight([launch |-> work[t].launch, num |-> work[t].num, status |-> work[t].seen])'
    BY <1>2, <1>4, <2>1 DEF WorkRight, RecordRight, Right
  <2>6. QED
    BY <1>2, <2>1, <2>3, <2>4, <2>5, <2>2 DEF WorkRight, HasNumber
<1>7. Typed' /\ LoadedIsCurrent' /\ QueueInv'
  BY <1>1, <1>2, JenkinsTyped, JenkinsQueue DEF LoadedIsCurrent
<1>8. QED
  BY <1>5, <1>6, <1>7 DEF OwnInv

\* A step of a thread leaves the queue alone.
LEMMA QueueUntouched ==
    ASSUME QueueInv, UNCHANGED <<builds, waiting, dropped, launches>>
    PROVE  QueueInv' /\ \A l : Fresh(l)' <=> Fresh(l)
BY DEF QueueInv, Fresh, HasStarted

\* Going on to the next run takes nothing along.
LEMMA AdvanceOwn ==
    ASSUME Typed, NEW t \in Threads, WorkRight(t), Advance(t),
           pc[t] \notin {"idle", "await", "record", "recordSave"},
           UNCHANGED <<builds, waiting, launches>>
    PROVE  WorkRight(t)'
<1>1. /\ pc'[t] \in {"fetch", "count", "idle"}
      /\ pc'[t] # "idle" => work'[t].launch = work[t].launch /\ work'[t].op = work[t].op
  BY AdvanceTyped DEF Typed
<1>2. \A l : Fresh(l)' <=> Fresh(l)
  BY DEF Fresh, HasStarted
<1>3. QED
  BY <1>1, <1>2 DEF WorkRight

\* A status that is right for the number may be written down.
LEMMA LearnOwn ==
    ASSUME Typed, NEW t \in Threads, WorkRight(t), NEW status \in Statuses, Learn(t, status),
           pc[t] \notin {"idle", "await", "record", "recordSave"},
           UNCHANGED <<builds, waiting, launches, runs, stopped>>,
           \A i \in DOMAIN runs : runs[i].num = Run(t).num => Right(status, Run(t).num)
    PROVE  WorkRight(t)'
<1>1. /\ pc'[t] \in {"fetch", "count", "idle", "update"}
      /\ pc'[t] # "idle" => work'[t].launch = work[t].launch /\ work'[t].op = work[t].op
      /\ pc'[t] = "update" => work'[t].seen = status /\ work'[t].todo = work[t].todo
  BY LearnTyped DEF Typed
<1>2. \A l : Fresh(l)' <=> Fresh(l)
  BY DEF Fresh, HasStarted
<1>3. pc'[t] = "update" => Run(t)' = Run(t)
  BY <1>1, Zenon DEF Run
<1>4. \A n : Right(status, n)' <=> Right(status, n)
  BY DEF Right
<1>5. pc'[t] = "update" =>
        (\A i \in DOMAIN runs : runs[i].num = Run(t).num => Right(work[t].seen, Run(t).num))'
  <2> SUFFICES ASSUME pc'[t] = "update", NEW i \in DOMAIN runs, runs[i].num = Run(t).num
               PROVE  Right(work[t].seen, Run(t).num)'
    BY <1>3
  <2>1. work'[t].seen = status /\ Right(status, Run(t).num)
    BY <1>1
  <2>2. QED
    BY <1>3, <2>1 DEF Right
<1>6. QED
  BY <1>1, <1>2, <1>5 DEF WorkRight

\* Looking at runs: every number is known to Jenkins, so none is put right.
LEMMA LookAtRunsOwn ==
    ASSUME OneThread, QueueHolds = FALSE, OwnInv, NEW t \in Threads, LookAtRuns(t)
    PROVE  RecordsRight' /\ WorkRight(t)' /\ QueueInv'
<1> DEFINE n == Run(t).num
<1>1. /\ Typed /\ LoadedIsCurrent /\ QueueInv /\ RecordsRight /\ WorkRight(t)
      /\ ControlTyped /\ Fits(pc[t], work[t]) /\ runs \in Seq(Rec) /\ builds \in Seq(Build)
  BY DEF OwnInv, WorksRight, Typed, ControlTyped
<1>2. /\ UNCHANGED <<builds, waiting, launches, dropped, stopped>>
      /\ pc[t] \notin {"idle", "await", "record", "recordSave"}
      /\ QueueInv' /\ \A l : Fresh(l)' <=> Fresh(l)
  <2>1. /\ UNCHANGED <<builds, waiting, launches, dropped, stopped>>
        /\ pc[t] \notin {"idle", "await", "record", "recordSave"}
    BY DEF LookAtRuns, Fetch, FetchFails, CheckQueue, Rename, RenameSave, Refetch, Update,
           UpdateSave, Tell, jenkins
  <2>2. QED
    BY <1>1, <2>1, QueueUntouched
<1>3. \A i \in DOMAIN runs : runs[i].num \in DOMAIN builds
  BY <1>1 DEF RecordsRight, RecordRight
<1>4. \A status, k : Right(status, k)' <=> Right(status, k)
  BY <1>2 DEF Right
<1>5. ASSUME runs' = runs PROVE RecordsRight'
  BY <1>1, <1>2, <1>4, <1>5 DEF RecordsRight, RecordRight
<1>6. ASSUME Advance(t) PROVE WorkRight(t)'
  BY <1>1, <1>2, <1>6, AdvanceOwn
<1>7. CASE Fetch(t)
  <2>1. runs' = runs
    BY <1>7 DEF Fetch
  <2>2. CASE n \in DOMAIN builds
    <3>1. builds[n] \in Build
      BY <1>1, <2>2
    <3>2. builds[n].status \in {"RUNNING"} \cup Results /\ builds[n].status \in Statuses
      BY <3>1 DEF Build, Statuses, Active, Terminal
    <3>3. Right(builds[n].status, n)
      BY <3>2 DEF Right, Results
    <3>4. QED
      BY <1>1, <1>2, <1>5, <1>7, <2>1, <2>2, <3>2, <3>3, LearnOwn DEF Fetch
  <2>3. CASE n \notin DOMAIN builds
    <3>1. pc'[t] = "queued" /\ work'[t] = work[t]
      BY <1>1, <1>7, <2>3, BecomeAt DEF Fetch
    <3>2. ~HasNumber(runs, n)
      BY <1>3, <2>3 DEF HasNumber
    <3>3. Run(t)' = Run(t)
      BY <3>1, Zenon DEF Run
    <3>4. HasNumber(runs, Run(t).num)' <=> HasNumber(runs, n)
      BY <2>1, <3>3 DEF HasNumber
    <3>5. WorkRight(t)'
      BY <1>1, <1>2, <3>1, <3>2, <3>4 DEF WorkRight
    <3>6. QED
      BY <1>2, <1>5, <2>1, <3>5
  <2>4. QED
    BY <2>2, <2>3
<1>8. CASE FetchFails(t) \/ Tell(t)
  BY <1>2, <1>5, <1>6, <1>8 DEF FetchFails, Tell
<1>9. CASE CheckQueue(t)
  <2>1. ~HasNumber(runs, n) /\ runs' = runs
    BY <1>1, <1>9 DEF CheckQueue, WorkRight
  <2>2. CASE Learn(t, "QUEUED")
    <3>1. "QUEUED" \in Statuses /\ Right("QUEUED", n)
      BY DEF Statuses, Active, Right, Results
    <3>2. QED
      BY <1>1, <1>2, <1>5, <2>1, <2>2, <3>1, LearnOwn
  <2>3. QED
    BY <1>2, <1>5, <1>6, <1>9, <2>1, <2>2 DEF CheckQueue
<1>10. CASE Rename(t) \/ RenameSave(t) \/ Refetch(t)
  BY <1>1, <1>10 DEF Rename, RenameSave, Refetch, WorkRight
<1>11. CASE Update(t)
  <2>1. runs' = runs /\ pc[t] = "update"
    BY <1>11 DEF Update
  <2>2. CASE Become(t, "updateSave", [work[t] EXCEPT !.loaded = runs])
    <3>1. pc'[t] = "updateSave" /\ work'[t] = [work[t] EXCEPT !.loaded = runs]
      BY <1>1, <2>2, BecomeAt
    <3>2. /\ work'[t].seen = work[t].seen /\ work'[t].todo = work[t].todo
          /\ work'[t].op = work[t].op /\ work'[t].launch = work[t].launch
      BY <1>1, <2>1, <3>1 DEF Fits, Shaped
    <3>3. Run(t)' = Run(t)
      BY <3>2, Zenon DEF Run
    <3>4. \A i \in DOMAIN runs : runs[i].num = n => Right(work[t].seen, n)
      BY <1>1, <2>1 DEF WorkRight
    <3>5. (\A i \in DOMAIN runs : runs[i].num = Run(t).num => Right(work[t].seen, Run(t).num))'
      BY <1>4, <2>1, <3>2, <3>3, <3>4 DEF Right
    <3>6. WorkRight(t)'
      BY <1>1, <1>2, <2>1, <3>1, <3>2, <3>5 DEF WorkRight
    <3>7. QED
      BY <1>2, <1>5, <2>1, <3>6
  <2>3. QED
    BY <1>2, <1>5, <1>6, <1>11, <2>1, <2>2 DEF Update
<1>12. CASE UpdateSave(t)
  <2>1. pc[t] = "updateSave" /\ work[t].loaded = runs /\ work[t].seen \in Statuses
    BY <1>1, <1>12 DEF UpdateSave, LoadedIsCurrent, Saving, Fits
  <2>2. runs' = WithStatus(runs, n, work[t].seen)
    BY <1>12, <2>1 DEF UpdateSave
  <2>3. \A i \in DOMAIN runs : runs[i].num = n => Right(work[t].seen, n)
    BY <1>1, <2>1 DEF WorkRight
  <2>4. /\ DOMAIN runs' = DOMAIN runs
        /\ \A i \in DOMAIN runs :
             /\ runs'[i].launch = runs[i].launch
             /\ runs'[i].num = runs[i].num
             /\ runs'[i].status = IF runs[i].num = n THEN work[t].seen ELSE runs[i].status
    BY <1>1, <2>1, <2>2, WithStatusTyped
  <2>5. \A i \in DOMAIN runs : RecordRight(runs[i])
    BY <1>1 DEF RecordsRight
  <2>6. \A i \in DOMAIN runs' : RecordRight(runs[i])'
    BY <1>2, <1>4, <2>3, <2>4, <2>5 DEF RecordRight
  <2>7. WorkRight(t)'
    <3>1. CASE Become(t, "tell", work[t])
      <4>1. pc'[t] = "tell" /\ work'[t] = work[t]
        BY <1>1, <3>1, BecomeAt
      <4>2. QED
        BY <1>1, <1>2, <2>1, <4>1 DEF WorkRight
    <3>2. QED
      BY <1>6, <1>12, <3>1 DEF UpdateSave
  <2>8. QED
    BY <1>2, <2>6, <2>7 DEF RecordsRight
<1>13. QED
  BY <1>7, <1>8, <1>9, <1>10, <1>11, <1>12 DEF LookAtRuns

\* A launch begins with a number nobody has used.
LEMMA BeginOwn ==
    ASSUME OwnInv, NEW t \in Threads, Poll(t) \/ Query(t) \/ Cancel(t) \/ Launch(t)
    PROVE  RecordsRight' /\ WorkRight(t)' /\ QueueInv'
<1>1. Typed /\ QueueInv /\ RecordsRight /\ launches \in Nat
  BY DEF OwnInv, Typed
<1>2. /\ UNCHANGED <<builds, waiting, dropped, stopped, runs>>
      /\ pc'[t] \in {"fetch", "stop", "count"}
      /\ launches' \in {launches, launches + 1}
      /\ work'[t].op = "launch" \/ pc'[t] = "count" =>
           work'[t].op = "launch" /\ work'[t].launch = launches + 1 /\ launches' = launches + 1
      /\ pc'[t] = "stop" => work'[t].op = "cancel"
  BY <1>1, BeginTyped
<1>3. RecordsRight'
  BY <1>1, <1>2 DEF RecordsRight, RecordRight, Right
<1>4. /\ \A l : Fresh(l)' <=> Fresh(l)
      /\ \A l : HasStarted(l)' <=> HasStarted(l)
  BY <1>2 DEF Fresh, HasStarted
<1>5. QueueInv'
  BY <1>1, <1>2, <1>4, LaunchesAreNumbers DEF QueueInv
<1>6. work'[t].op = "launch" => work'[t].launch <= launches' /\ Fresh(work'[t].launch)
  <2>1. Typed' /\ (work'[t].op = "launch" => work'[t].launch \in Launches)
    BY <1>1, <1>2, BeginTyped DEF Typed, ControlTyped, Fits
  <2>2. QED
    BY <1>1, <1>2, <2>1 DEF QueueInv
<1>7. WorkRight(t)'
  BY <1>2, <1>4, <1>6 DEF WorkRight
<1>8. QED
  BY <1>3, <1>5, <1>7

\* A run is CANCELLED only after the stop reached its build.
LEMMA StopBuildOwn ==
    ASSUME OwnInv, NEW t \in Threads, StopBuild(t)
    PROVE  RecordsRight' /\ WorkRight(t)' /\ QueueInv'
<1> DEFINE n == Run(t).num
<1>1. /\ QueueInv /\ RecordsRight /\ WorkRight(t) /\ ControlTyped /\ Fits(pc[t], work[t])
  BY DEF OwnInv, WorksRight, Typed, ControlTyped
<1>2. /\ UNCHANGED <<builds, waiting, dropped, launches, runs>>
      /\ stopped \subseteq stopped' /\ pc[t] = "stop"
  BY DEF StopBuild
<1>3. QueueInv'
  BY <1>1, <1>2, QueueUntouched
<1>4. RecordsRight'
  BY <1>1, <1>2 DEF RecordsRight, RecordRight, Right
<1>5. CASE n \in DOMAIN builds
  <2> DEFINE w == [work[t] EXCEPT !.seen = "CANCELLED"]
  <2>1. n \in stopped' /\ Become(t, "update", w)
    BY <1>5 DEF StopBuild
  <2>2. pc'[t] = "update" /\ work'[t] = w
    BY <1>1, <2>1, BecomeAt
  <2>3. w.seen = "CANCELLED" /\ w.op = work[t].op /\ w.todo = work[t].todo
    BY <1>1, <1>2 DEF Fits, Shaped
  <2> HIDE DEF w
  <2>4. Run(t)' = Run(t)
    BY <2>2, <2>3, Zenon DEF Run
  <2>5. Right(work[t].seen, Run(t).num)'
    BY <2>1, <2>2, <2>3, <2>4 DEF Right, Results
  <2>6. work'[t].op # "launch"
    BY <1>1, <1>2, <2>2, <2>3 DEF WorkRight
  <2>7. WorkRight(t)'
    BY <2>2, <2>5, <2>6 DEF WorkRight
  <2>8. QED
    BY <1>3, <1>4, <2>7
<1>6. CASE n \notin DOMAIN builds
  <2>1. pc'[t] = "idle"
    BY <1>1, <1>6, BecomeAt DEF StopBuild
  <2>2. QED
    BY <1>3, <1>4, <2>1 DEF WorkRight
<1>7. QED
  BY <1>5, <1>6

\* The record of a launch has the number of its own build.
LEMMA LaunchRunOwn ==
    ASSUME QueueHolds = FALSE, OwnInv, NEW t \in Threads, LaunchRun(t)
    PROVE  RecordsRight' /\ WorkRight(t)' /\ QueueInv'
<1> DEFINE l == work[t].launch
           r == [launch |-> work[t].launch, num |-> work[t].num, status |-> work[t].seen]
<1>1. /\ Typed /\ LoadedIsCurrent /\ QueueInv /\ RecordsRight /\ WorkRight(t)
      /\ ControlTyped /\ Fits(pc[t], work[t]) /\ runs \in Seq(Rec)
  BY DEF OwnInv, WorksRight, Typed, ControlTyped
<1>2. /\ UNCHANGED <<builds, dropped, stopped, launches>>
      /\ pc[t] \in Launching
      /\ pc'[t] # "idle" => work'[t].launch = l
  BY <1>1, LaunchRunTyped DEF LaunchRun, Count, Predict, Trigger, Await, RecordRun, RecordSave,
                              jenkins, Launching
<1>3. l \in Launches /\ Shaped(work[t])
  BY <1>1, <1>2 DEF Fits, Launching
<1>4. ASSUME UNCHANGED <<waiting, runs>> PROVE QueueInv' /\ RecordsRight'
  <2>1. QueueInv'
    BY <1>1, <1>2, <1>4, QueueUntouched
  <2>2. RecordsRight'
    BY <1>1, <1>2, <1>4 DEF RecordsRight, RecordRight, Right
  <2>3. QED
    BY <2>1, <2>2
<1>5. CASE Count(t) \/ Predict(t)
  <2>1. /\ UNCHANGED <<waiting, runs>> /\ pc[t] \in {"count", "predict"}
        /\ pc'[t] \in {"idle", "predict", "trigger"}
    BY <1>1, <1>5, BecomeAt DEF Count, Predict, jenkins
  <2>2. Fresh(l) /\ l <= launches
    BY <1>1, <2>1 DEF WorkRight, Fits, Launching
  <2>3. pc'[t] # "idle" => Fresh(work[t].launch)' /\ work'[t].launch <= launches'
    BY <1>2, <2>1, <2>2 DEF Fresh, HasStarted
  <2>4. WorkRight(t)'
    BY <2>1, <2>3 DEF WorkRight
  <2>5. QED
    BY <1>4, <2>1, <2>4
<1>6. CASE Trigger(t)
  <2>1. waiting' = waiting \cup {l} /\ runs' = runs /\ pc[t] = "trigger" /\ pc'[t] \in {"idle", "await"}
    BY <1>1, <1>6, BecomeAt DEF Trigger
  <2>2. Fresh(l) /\ l <= launches
    BY <1>1, <2>1 DEF WorkRight, Fits, Launching
  <2>3. QueueInv'
    BY <1>1, <1>2, <2>1, <2>2 DEF QueueInv, Fresh, HasStarted
  <2>4. RecordsRight'
    BY <1>1, <1>2, <2>1 DEF RecordsRight, RecordRight, Right
  <2>5. QED
    BY <2>1, <2>3, <2>4 DEF WorkRight
<1>7. CASE Await(t)
  <2> DEFINE w == [work[t] EXCEPT !.num = NumberOf(l), !.seen = "PENDING"]
  <2>1. HasStarted(l) /\ Become(t, "record", w) /\ UNCHANGED <<waiting, runs>>
    BY <1>7 DEF Await, jenkins
  <2>2. pc'[t] = "record" /\ work'[t] = w
    BY <1>1, <2>1, BecomeAt
  <2>3. w.launch = l /\ w.num = NumberOf(l) /\ w.seen = "PENDING"
    BY <1>3 DEF Shaped
  <2> HIDE DEF w
  <2>4. NumberOf(l) \in DOMAIN builds /\ builds[NumberOf(l)].owner = l
    BY <2>1, HasStartedAt
  <2>5. RecordRight([launch |-> work[t].launch, num |-> work[t].num, status |-> work[t].seen])'
    BY <1>2, <2>2, <2>3, <2>4 DEF RecordRight, Right, Results
  <2>6. QED
    BY <1>4, <2>1, <2>2, <2>5 DEF WorkRight
<1>8. CASE RecordRun(t)
  <2> DEFINE w == [work[t] EXCEPT !.loaded = runs]
  <2>1. Become(t, "recordSave", w) /\ UNCHANGED <<waiting, runs>> /\ pc[t] = "record"
    BY <1>8 DEF RecordRun, jenkins
  <2>2. pc'[t] = "recordSave" /\ work'[t] = w
    BY <1>1, <2>1, BecomeAt
  <2>3. w.launch = l /\ w.num = work[t].num /\ w.seen = work[t].seen
    BY <1>3 DEF Shaped
  <2> HIDE DEF w
  <2>4. RecordRight(r)
    BY <1>1, <2>1 DEF WorkRight
  <2>5. RecordRight([launch |-> work[t].launch, num |-> work[t].num, status |-> work[t].seen])'
    BY <1>2, <2>2, <2>3, <2>4 DEF RecordRight, Right
  <2>6. QED
    BY <1>4, <2>1, <2>2, <2>5 DEF WorkRight
<1>9. CASE RecordSave(t)
  <2>1. pc[t] = "recordSave" /\ work[t].loaded = runs /\ waiting' = waiting /\ Become(t, "idle", NoWork)
    BY <1>1, <1>9 DEF RecordSave, LoadedIsCurrent, Saving, jenkins
  <2>2. runs' = Append(runs, r) /\ pc'[t] = "idle"
    BY <1>1, <1>9, <2>1, BecomeAt DEF RecordSave
  <2>3. RecordRight(r) /\ \A i \in DOMAIN runs : RecordRight(runs[i])
    BY <1>1, <2>1 DEF WorkRight, RecordsRight
  <2>4. \A i \in DOMAIN runs' : runs'[i] = r \/ (i \in DOMAIN runs /\ runs'[i] = runs[i])
    <3> HIDE DEF r
    <3>1. QED
      BY <1>1, <2>2
  <2>5. \A i \in DOMAIN runs' : RecordRight(runs'[i])
    BY <2>3, <2>4
  <2>6. RecordsRight'
    BY <1>2, <2>5 DEF RecordsRight, RecordRight, Right
  <2>7. QueueInv'
    BY <1>1, <1>2, <2>1, QueueUntouched
  <2>8. QED
    BY <2>2, <2>6, <2>7 DEF WorkRight
<1>10. QED
  BY <1>5, <1>6, <1>7, <1>8, <1>9 DEF LaunchRun

\* The invariant is inductive,
LEMMA StepOwn ==
    ASSUME OneThread, QueueHolds = FALSE, OwnInv, [Next]_vars
    PROVE  OwnInv'
<1>1. Typed' /\ LoadedIsCurrent'
  BY StepTyped, StaysCurrent DEF OwnInv
<1>2. CASE Jenkins
  BY <1>2, JenkinsOwn
<1>3. ASSUME NEW t \in Threads, Step(t) PROVE OwnInv'
  <2>1. RecordsRight' /\ WorkRight(t)' /\ QueueInv'
    BY <1>3, LookAtRunsOwn, BeginOwn, StopBuildOwn, LaunchRunOwn DEF Step, Proceed
  <2>2. \A s \in Threads : s = t
    BY DEF OneThread
  <2>3. QED
    BY <1>1, <2>1, <2>2 DEF OwnInv, WorksRight
<1>4. CASE UNCHANGED vars
  <2>1. UNCHANGED <<builds, waiting, dropped, stopped, runs, pc, work, launches>>
    BY <1>4 DEF vars
  <2>2. QueueInv' /\ RecordsRight'
    BY <2>1, QueueUntouched DEF OwnInv, RecordsRight, RecordRight, Right
  <2>3. \A t \in Threads : Run(t)' = Run(t)
    <3>1. work' = work
      BY <2>1
    <3>2. QED
      BY <3>1, Zenon DEF Run
  <2>4. WorksRight'
    BY <2>1, <2>3 DEF OwnInv, WorksRight, WorkRight, Fresh, HasStarted, HasNumber, RecordRight, Right
  <2>5. QED
    BY <1>1, <2>2, <2>4 DEF OwnInv
<1>5. QED
  BY <1>2, <1>3, <1>4 DEF Next

\* and it says what the property says.
LEMMA OwnStatuses == OwnInv => StatusIsOwn
<1> SUFFICES ASSUME OwnInv, NEW i \in DOMAIN runs
             PROVE  LET l == runs[i].launch
                    IN  /\ runs[i].status \in Results =>
                               HasStarted(l) /\ builds[NumberOf(l)].status = runs[i].status
                        /\ runs[i].status = "CANCELLED" =>
                               l \in dropped \/ (HasStarted(l) /\ NumberOf(l) \in stopped)
  BY DEF StatusIsOwn
<1> DEFINE l == runs[i].launch
<1>1. RecordRight(runs[i]) /\ QueueInv /\ l \in Launches
  <2>1. runs[i] \in Rec
    BY DEF OwnInv, Typed
  <2>2. QED
    BY <2>1 DEF OwnInv, RecordsRight, Rec
<1>2. HasStarted(l) /\ l # Others
  BY <1>1, LaunchesAreNumbers DEF RecordRight, HasStarted, Others
<1>3. NumberOf(l) = runs[i].num
  BY <1>1, <1>2, HasStartedAt DEF RecordRight, QueueInv
<1>4. QED
  BY <1>1, <1>2, <1>3 DEF RecordRight, Right

\* With one thread, and a queue that answers in time, the final status of a
\* run is the one its own build ended with, and a run is CANCELLED only if
\* Jenkins was asked to stop it, however many builds others start
\* (launch_ci, fetch_build_status and update_run_status of ci.py).
THEOREM FinalStatusIsOwn ==
    ASSUME OneThread, QueueHolds = FALSE
    PROVE  Spec => []StatusIsOwn
<1>1. Init => OwnInv
  <2>1. ASSUME Init PROVE QueueInv /\ RecordsRight /\ WorksRight /\ LoadedIsCurrent
    BY <2>1 DEF Init, QueueInv, RecordsRight, WorksRight, WorkRight, LoadedIsCurrent, Saving,
                Fresh, HasStarted
  <2>2. QED
    BY <2>1, InitTyped DEF OwnInv
<1>2. OwnInv /\ [Next]_vars => OwnInv'
  BY StepOwn
<1>3. QED
  BY <1>1, <1>2, OwnStatuses, PTL DEF Spec

(***************************************************************************)
(* The rate limit.  A launch that was let through and is under way has an   *)
(* active record of its own, because no run is forgotten and no record ends *)
(* before its build; so what is counted before a launch is at least what    *)
(* is under way, and one thread launches one run per count.                *)
(***************************************************************************)

\* The launches the rate limit let through that Jenkins still works on.
Admitted == {l \in open : UnderWay(l)}

\* What the rate limit has decided for the launch a thread is at.
OpenRight(t) ==
    /\ pc[t] \notin {"idle", "predict", "trigger", "await", "record", "recordSave"} =>
         work[t].open = FALSE
    /\ pc[t] \in {"predict", "trigger"} /\ work[t].open => ActiveCount(runs) < MaxActive

OpenInv ==
    /\ \A l \in open : l \in Launches /\ ~Fresh(l)
    /\ \A t \in Threads : OpenRight(t)

LimitInv == OwnInv /\ NoRunForgotten /\ OpenInv /\ RateLimit

\* A launch that is under way has an active record, unless one is being made.
LEMMA RecordOfAdmitted ==
    ASSUME OwnInv, NoRunForgotten, NEW l \in Launches, UnderWay(l),
           \A t \in Threads : pc[t] \notin {"await", "record", "recordSave"}
    PROVE  \E i \in DOMAIN runs : runs[i].launch = l /\ runs[i].status \in Active
<1>1. Typed /\ QueueInv /\ RecordsRight /\ StatusIsOwn
  BY OwnStatuses DEF OwnInv
<1>2. l \in waiting \/ HasStarted(l)
  BY DEF UnderWay
<1>3. PICK i \in DOMAIN runs : runs[i].launch = l
  BY <1>2 DEF NoRunForgotten
<1>4. HasStarted(l) /\ l \notin waiting /\ l \notin dropped
  <2>1. RecordRight(runs[i])
    BY <1>1 DEF RecordsRight
  <2>2. HasStarted(l)
    BY <1>3, <2>1 DEF RecordRight, HasStarted
  <2>3. QED
    BY <1>1, <2>2 DEF QueueInv
<1>5. builds[NumberOf(l)].status = "RUNNING" /\ NumberOf(l) \notin stopped
  BY <1>4 DEF UnderWay, Over
<1>6. runs[i].status \notin Results /\ runs[i].status # "CANCELLED"
  BY <1>1, <1>3, <1>4, <1>5 DEF StatusIsOwn, Results
<1>7. runs[i].status \in Statuses
  <2>1. runs[i] \in Rec
    BY <1>1 DEF Typed
  <2>2. QED
    BY <2>1 DEF Rec
<1>8. QED
  BY <1>3, <1>6, <1>7 DEF Statuses, Terminal

\* So no more launches are under way than are counted.
LEMMA AdmittedAreCounted ==
    ASSUME OwnInv, NoRunForgotten, open \subseteq Launches,
           \A t \in Threads : pc[t] \notin {"await", "record", "recordSave"}
    PROVE  Cardinality(Admitted) <= ActiveCount(runs)
<1> DEFINE A == {i \in DOMAIN runs : runs[i].status \in Active}
           f == [l \in Admitted |-> CHOOSE i \in A : runs[i].launch = l]
<1>1. \A l \in Admitted : \E i \in A : runs[i].launch = l
  BY RecordOfAdmitted DEF Admitted
<1>2. \A l \in Admitted : f[l] \in A /\ runs[f[l]].launch = l
  BY <1>1
<1>3. f \in Injection(Admitted, A)
  <2>1. f \in [Admitted -> A]
    BY <1>2
  <2>2. \A k, l \in Admitted : f[k] = f[l] => k = l
    BY <1>2
  <2> HIDE DEF f, A
  <2>3. QED
    BY <2>1, <2>2 DEF Injection, IsInjective
<1>4. IsFiniteSet(A)
  <2>1. Len(runs) \in Nat /\ DOMAIN runs = 1 .. Len(runs)
    BY DEF OwnInv, Typed
  <2>2. IsFiniteSet(1 .. Len(runs)) /\ A \in SUBSET (1 .. Len(runs))
    BY <2>1, FS_Interval
  <2> HIDE DEF A
  <2>3. QED
    BY <2>2, FS_Subset
<1> HIDE DEF f
<1>5. Cardinality(Admitted) <= Cardinality(A)
  <2> HIDE DEF A
  <2>1. QED
    BY <1>3, <1>4, FS_Injection
<1>6. QED
  BY <1>5 DEF ActiveCount

\* The admitted launches are finitely many, however they are restricted.
LEMMA AdmittedFinite ==
    ASSUME NEW S, S \subseteq Launches
    PROVE  IsFiniteSet(S) /\ Cardinality(S) \in Nat
<1>1. IsFiniteSet(1 .. MaxLaunches)
  BY BoundsAssumption, FS_Interval
<1>2. S \in SUBSET (1 .. MaxLaunches)
  BY DEF Launches
<1>3. IsFiniteSet(S)
  BY <1>1, <1>2, FS_Subset
<1>4. QED
  BY <1>3, FS_CardinalityType

\* A step that admits nobody, and after which nobody is newly under way.
LEMMA FewerAdmitted ==
    ASSUME RateLimit, open \subseteq Launches, open' = open,
           \A l \in open : UnderWay(l)' => UnderWay(l)
    PROVE  RateLimit'
<1>1. Admitted' \in SUBSET Admitted /\ Admitted \subseteq Launches
  BY DEF Admitted
<1>2. Cardinality(Admitted') <= Cardinality(Admitted)
  BY <1>1, AdmittedFinite, FS_Subset
<1>3. Cardinality(Admitted) \in Nat /\ Cardinality(Admitted') \in Nat
  <2>1. Admitted' \subseteq Launches
    BY <1>1
  <2>2. QED
    BY <1>1, <2>1, AdmittedFinite
<1>4. Cardinality(Admitted) <= MaxActive
  BY DEF RateLimit, Admitted
<1>5. Cardinality(Admitted') <= MaxActive
  BY <1>2, <1>3, <1>4, BoundsAssumption
<1>6. QED
  BY <1>5 DEF RateLimit, Admitted

\* What Jenkins does puts no launch under way.
LEMMA JenkinsAdmitsNobody ==
    ASSUME QueueHolds = FALSE, OwnInv, Jenkins, NEW l \in Launches
    PROVE  /\ UnderWay(l)' => UnderWay(l)
           /\ ~Fresh(l) => ~Fresh(l)'
<1>1. Typed /\ QueueInv /\ dropped = {} /\ builds \in Seq(Build) /\ l # Others
  BY LaunchesAreNumbers DEF OwnInv, QueueInv, Typed, Others
<1>2. QueueInv'
  BY <1>1, JenkinsQueue
<1>3. /\ stopped' = stopped
      /\ \A n \in DOMAIN builds :
           /\ n \in DOMAIN builds'
           /\ builds'[n].owner = builds[n].owner
           /\ builds[n].status \in Results => builds'[n].status = builds[n].status
  BY <1>1, JenkinsKeeps
<1>4. HasStarted(l) => HasStarted(l)'
  BY <1>3 DEF HasStarted
<1>5. (l \in waiting \/ HasStarted(l))' => l \in waiting \/ HasStarted(l)
  BY <1>1, JenkinsOwners
<1>6. ASSUME UnderWay(l)' PROVE UnderWay(l)
  <2>1. CASE l \in waiting
    BY <2>1 DEF UnderWay
  <2>2. CASE l \notin waiting
    <3>1. HasStarted(l) /\ HasStarted(l)'
      BY <1>4, <1>5, <1>6, <2>2 DEF UnderWay
    <3>2. l \notin waiting' /\ dropped' = {}
      BY <1>2, <3>1 DEF QueueInv
    <3> DEFINE n == NumberOf(l)
    <3>3. n \in DOMAIN builds /\ builds[n].owner = l
      BY <3>1, HasStartedAt
    <3>4. NumberOf(l)' \in DOMAIN builds' /\ builds'[NumberOf(l)'].owner = l
      BY <3>1 DEF HasStarted, NumberOf
    <3>5. NumberOf(l)' = n
      <4> HIDE DEF n
      <4>1. n \in DOMAIN builds' /\ builds'[n].owner = l
        BY <1>3, <3>3
      <4>2. QED
        BY <1>1, <1>2, <3>4, <4>1 DEF QueueInv
    <3>6. builds'[n].status = "RUNNING" /\ n \notin stopped
      BY <1>3, <1>6, <3>1, <3>2, <3>5 DEF UnderWay, Over
    <3>7. builds[n] \in Build
      BY <1>1, <3>3
    <3>8. builds[n].status = "RUNNING"
      BY <1>3, <3>3, <3>6, <3>7 DEF Build, Results
    <3>9. QED
      BY <1>1, <3>1, <3>6, <3>8 DEF UnderWay, Over
  <2>3. QED
    BY <2>1, <2>2
<1>7. ASSUME ~Fresh(l) PROVE ~Fresh(l)'
  <2>1. CASE HasStarted(l)
    BY <1>4, <2>1 DEF Fresh
  <2>2. CASE l \in waiting
    <3>1. CASE \E k \in Launches : Start(k)
      <4>1. PICK k \in Launches : Start(k)
        BY <3>1
      <4>2. CASE k = l
        <5>1. /\ builds' = Append(builds, [owner |-> l, status |-> "RUNNING"])
              /\ [owner |-> l, status |-> "RUNNING"] \in Build
          BY <4>1, <4>2 DEF Start, Build
        <5>2. Len(builds) + 1 \in DOMAIN builds' /\ builds'[Len(builds) + 1].owner = l
          BY <1>1, <5>1
        <5>3. QED
          BY <5>2 DEF Fresh, HasStarted
      <4>3. CASE k # l
        BY <2>2, <4>1, <4>3 DEF Start, Fresh
      <4>4. QED
        BY <4>2, <4>3
    <3>2. CASE ~\E k \in Launches : Start(k)
      BY <2>2, <3>2 DEF Jenkins, StartOther, Drop, Finish, Fresh
    <3>3. QED
      BY <3>1, <3>2
  <2>3. QED
    BY <1>7, <2>1, <2>2 DEF Fresh
<1>8. QED
  BY <1>6, <1>7

\* Whoever looks at runs keeps what the rate limit has decided.
LEMMA LookAtRunsOpen ==
    ASSUME Typed, NEW t \in Threads, LookAtRuns(t)
    PROVE  /\ pc'[t] # "idle" => work'[t].open = work[t].open
           /\ pc'[t] \notin {"predict", "trigger"}
           /\ pc[t] \notin {"idle", "predict", "trigger", "await", "record", "recordSave"}
<1>1. ControlTyped /\ Fits(pc[t], work[t])
  BY DEF Typed, ControlTyped
<1>2. pc[t] \notin {"idle", "predict", "trigger", "await", "record", "recordSave"}
  BY DEF LookAtRuns, Fetch, FetchFails, CheckQueue, Rename, RenameSave, Refetch, Update,
         UpdateSave, Tell
<1>3. Shaped(work[t])
  BY <1>1, <1>2 DEF Fits
<1>4. ASSUME NEW label, label \notin {"predict", "trigger"}, NEW w, w.open = work[t].open,
             Become(t, label, w)
      PROVE  /\ pc'[t] # "idle" => work'[t].open = work[t].open
             /\ pc'[t] \notin {"predict", "trigger"}
  BY <1>1, <1>4, BecomeAt
<1>5. CASE Advance(t)
  <2> DEFINE w == [work[t] EXCEPT !.todo = Tail(work[t].todo), !.seen = Unknown, !.num = 1,
                                  !.loaded = << >>]
  <2>1. w.open = work[t].open
    BY <1>3 DEF Shaped
  <2>2. Become(t, AfterRuns(work[t].op, Tail(work[t].todo)), w)
    BY <1>5 DEF Advance
  <2>3. AfterRuns(work[t].op, Tail(work[t].todo)) \notin {"predict", "trigger"}
    BY DEF AfterRuns
  <2> HIDE DEF w
  <2>4. QED
    BY <1>2, <1>4, <2>1, <2>2, <2>3
<1>6. ASSUME NEW status, Learn(t, status)
      PROVE  /\ pc'[t] # "idle" => work'[t].open = work[t].open
             /\ pc'[t] \notin {"predict", "trigger"}
  <2> DEFINE w == [work[t] EXCEPT !.seen = status, !.num = 1]
  <2>1. w.open = work[t].open
    BY <1>3 DEF Shaped
  <2>2. Become(t, "update", w) \/ Advance(t)
    BY <1>6 DEF Learn
  <2> HIDE DEF w
  <2>3. QED
    BY <1>4, <1>5, <2>1, <2>2
<1>7. ASSUME NEW k, Become(t, "rename", [work[t] EXCEPT !.num = k])
      PROVE  /\ pc'[t] # "idle" => work'[t].open = work[t].open
             /\ pc'[t] \notin {"predict", "trigger"}
  <2>1. [work[t] EXCEPT !.num = k].open = work[t].open
    BY <1>3 DEF Shaped
  <2>2. QED
    BY <1>4, <1>7, <2>1
<1>8. ASSUME NEW label \in {"renameSave", "updateSave", "refetch"}, NEW rs,
             Become(t, label, [work[t] EXCEPT !.loaded = rs])
      PROVE  /\ pc'[t] # "idle" => work'[t].open = work[t].open
             /\ pc'[t] \notin {"predict", "trigger"}
  <2>1. [work[t] EXCEPT !.loaded = rs].open = work[t].open
    BY <1>3 DEF Shaped
  <2>2. QED
    BY <1>4, <1>8, <2>1
<1>9. ASSUME NEW label \in {"queued", "refetch", "tell"}, Become(t, label, work[t])
      PROVE  /\ pc'[t] # "idle" => work'[t].open = work[t].open
             /\ pc'[t] \notin {"predict", "trigger"}
  BY <1>4, <1>9
<1>10. \/ Advance(t) \/ \E status : Learn(t, status)
       \/ \E k : Become(t, "rename", [work[t] EXCEPT !.num = k])
       \/ \E label \in {"renameSave", "updateSave", "refetch"} : \E rs :
            Become(t, label, [work[t] EXCEPT !.loaded = rs])
       \/ \E label \in {"queued", "refetch", "tell"} : Become(t, label, work[t])
  <2>1. CASE Fetch(t) \/ FetchFails(t) \/ CheckQueue(t)
    BY <2>1 DEF Fetch, FetchFails, CheckQueue
  <2>2. CASE Rename(t) \/ RenameSave(t) \/ Refetch(t)
    BY <2>2 DEF Rename, RenameSave, Refetch
  <2>3. CASE Update(t) \/ UpdateSave(t) \/ Tell(t)
    BY <2>3 DEF Update, UpdateSave, Tell
  <2>4. QED
    BY <2>1, <2>2, <2>3 DEF LookAtRuns
<1>11. QED
  BY <1>2, <1>5, <1>6, <1>7, <1>8, <1>9, <1>10

\* What begins has been decided nothing yet.
LEMMA BeginOpen ==
    ASSUME Typed, NEW t \in Threads, Poll(t) \/ Query(t) \/ Cancel(t) \/ Launch(t)
    PROVE  work'[t].open = FALSE /\ pc'[t] \in {"fetch", "stop", "count"}
<1>1. ControlTyped
  BY DEF Typed
<1>2. pc'[t] \in {"fetch", "stop", "count"}
  BY BeginTyped
<1>3. CASE Launch(t)
  <2> DEFINE w == [Started("launch", ActiveRuns(runs)) EXCEPT !.launch = launches + 1]
  <2>1. w.open = FALSE
    BY DEF Started
  <2>2. Become(t, AfterRuns("launch", ActiveRuns(runs)), w)
    BY <1>3 DEF Launch
  <2> HIDE DEF w
  <2>3. QED
    BY <1>1, <1>2, <2>1, <2>2, BecomeAt
<1>4. CASE Poll(t) \/ Query(t) \/ Cancel(t)
  <2>1. PICK label, op, todo : Become(t, label, Started(op, todo))
    BY <1>4 DEF Poll, Query, Cancel
  <2>2. Started(op, todo).open = FALSE
    BY DEF Started
  <2>3. QED
    BY <1>1, <1>2, <2>1, <2>2, BecomeAt
<1>5. QED
  BY <1>3, <1>4

\* A launch goes on under the limit only when the count left room.
LEMMA LaunchRunOpen ==
    ASSUME OwnInv, NEW t \in Threads, OpenRight(t), LaunchRun(t) \/ StopBuild(t)
    PROVE  OpenRight(t)'
<1>1. ControlTyped /\ Fits(pc[t], work[t]) /\ WorkRight(t)
  BY DEF OwnInv, WorksRight, Typed, ControlTyped
<1>2. CASE Count(t)
  <2>1. runs' = runs /\ pc[t] = "count" /\ Shaped(work[t]) /\ work[t].open = FALSE
    BY <1>1, <1>2 DEF Count, Fits, OpenRight
  <2>2. CASE Allowed(runs) /\ Become(t, "predict", [work[t] EXCEPT !.open = TRUE])
    <3>1. pc'[t] = "predict" /\ ActiveCount(runs) < MaxActive
      BY <1>1, <2>2, BecomeAt DEF Allowed
    <3>2. ActiveCount(runs') < MaxActive
      BY <2>1, <3>1
    <3>3. QED
      BY <3>1, <3>2 DEF OpenRight
  <2>3. CASE Become(t, "predict", work[t])
    <3>1. pc'[t] = "predict" /\ work'[t].open = FALSE
      BY <1>1, <2>1, <2>3, BecomeAt
    <3>2. QED
      BY <3>1 DEF OpenRight
  <2>4. CASE Become(t, "idle", NoWork)
    BY <1>1, <2>4, BecomeAt DEF OpenRight
  <2>5. QED
    BY <1>2, <2>2, <2>3, <2>4 DEF Count
<1>3. CASE Predict(t)
  <2> DEFINE w == [work[t] EXCEPT !.num = Len(builds) + 1]
  <2>1. runs' = runs /\ pc[t] = "predict" /\ Shaped(work[t]) /\ Become(t, "trigger", w)
    BY <1>1, <1>3 DEF Predict, Fits
  <2>2. w.open = work[t].open
    BY <2>1 DEF Shaped
  <2> HIDE DEF w
  <2>3. pc'[t] = "trigger" /\ work'[t].open = work[t].open
    BY <1>1, <2>1, <2>2, BecomeAt
  <2>4. work[t].open => ActiveCount(runs') < MaxActive
    BY <2>1 DEF OpenRight
  <2>5. QED
    BY <2>3, <2>4 DEF OpenRight
<1>4. CASE Trigger(t) \/ Await(t) \/ RecordRun(t) \/ RecordSave(t)
  <2>1. pc'[t] \in {"idle", "await", "record", "recordSave"}
    BY <1>1, <1>4, BecomeAt DEF Trigger, Await, RecordRun, RecordSave
  <2>2. QED
    BY <2>1 DEF OpenRight
<1>5. CASE StopBuild(t)
  <2>1. pc[t] = "stop" /\ Shaped(work[t]) /\ work[t].open = FALSE
    BY <1>1, <1>5 DEF StopBuild, Fits, OpenRight
  <2> DEFINE w == [work[t] EXCEPT !.seen = "CANCELLED"]
  <2>2. w.open = FALSE
    BY <2>1 DEF Shaped
  <2>3. Become(t, "update", w) \/ Become(t, "idle", NoWork)
    BY <1>5 DEF StopBuild
  <2> HIDE DEF w
  <2>4. pc'[t] = "idle" \/ (pc'[t] = "update" /\ work'[t] = w)
    BY <1>1, <2>3, BecomeAt
  <2>5. QED
    BY <2>2, <2>4 DEF OpenRight
<1>6. QED
  BY <1>2, <1>3, <1>4, <1>5 DEF LaunchRun

\* The steps of a thread that give Jenkins nothing to build.
LEMMA ThreadAdmitsNobody ==
    ASSUME NEW t \in Threads, Step(t), ~Trigger(t)
    PROVE  /\ UNCHANGED <<builds, waiting, dropped, open>>
           /\ \A l : UnderWay(l)' => UnderWay(l)
           /\ \A l : ~Fresh(l) => ~Fresh(l)'
<1>1. UNCHANGED <<builds, waiting, dropped, open>> /\ stopped \subseteq stopped'
  <2>1. CASE LookAtRuns(t)
    BY <2>1 DEF LookAtRuns, Fetch, FetchFails, CheckQueue, Rename, RenameSave, Refetch, Update,
                UpdateSave, Tell, jenkins
  <2>2. CASE LaunchRun(t) \/ StopBuild(t)
    BY <2>2 DEF LaunchRun, StopBuild, Count, Predict, Await, RecordRun, RecordSave, jenkins
  <2>3. CASE Poll(t) \/ Query(t) \/ Cancel(t) \/ Launch(t)
    BY <2>3 DEF Poll, Query, Cancel, Launch, jenkins
  <2>4. QED
    BY <2>1, <2>2, <2>3 DEF Step, Proceed
<1>2. QED
  BY <1>1 DEF UnderWay, Over, HasStarted, NumberOf, Fresh

\* A run that is triggered under the limit takes the room the count has left.
LEMMA TriggerKeepsLimit ==
    ASSUME OneThread, QueueHolds = FALSE, LimitInv, NEW t \in Threads, Trigger(t)
    PROVE  /\ RateLimit'
           /\ \A l \in open' : l \in Launches /\ ~Fresh(l)'
<1> DEFINE k == work[t].launch
<1>1. /\ pc[t] = "trigger" /\ waiting' = waiting \cup {k}
      /\ UNCHANGED <<builds, dropped, stopped, runs>>
      /\ open' = IF work[t].open THEN open \cup {k} ELSE open
  BY DEF Trigger
<1>2. OwnInv /\ NoRunForgotten /\ OpenInv /\ RateLimit
  BY DEF LimitInv
<1>3. /\ k \in Launches /\ Fresh(k)
      /\ OpenRight(t)
  BY <1>1, <1>2 DEF OwnInv, Typed, ControlTyped, Fits, Launching, WorksRight, WorkRight, OpenInv
<1>4. \A l \in open : l \in Launches /\ ~Fresh(l)
  BY <1>2 DEF OpenInv
<1>5. \A l \in open' : l \in Launches /\ ~Fresh(l)'
  BY <1>1, <1>3, <1>4 DEF Fresh, HasStarted
<1>6. k \notin open /\ open \subseteq Launches
  BY <1>3, <1>4
<1>7. \A l \in open : UnderWay(l)' => UnderWay(l)
  BY <1>1, <1>6 DEF UnderWay, Over, HasStarted, NumberOf
<1>8. CASE work[t].open
  <2>1. Admitted' \in SUBSET (Admitted \cup {k}) /\ Admitted \subseteq Launches
    BY <1>1, <1>6, <1>7, <1>8 DEF Admitted
  <2>2. IsFiniteSet(Admitted) /\ Cardinality(Admitted) \in Nat
    BY <2>1, AdmittedFinite
  <2>3. /\ IsFiniteSet(Admitted \cup {k})
        /\ Cardinality(Admitted \cup {k}) <= Cardinality(Admitted) + 1
    BY <2>2, FS_AddElement
  <2>4. Cardinality(Admitted') <= Cardinality(Admitted \cup {k})
    BY <2>1, <2>3, FS_Subset
  <2>5. ActiveCount(runs) < MaxActive
    BY <1>1, <1>3, <1>8 DEF OpenRight
  <2>6. Cardinality(Admitted) <= ActiveCount(runs)
    <3>1. \A s \in Threads : pc[s] \notin {"await", "record", "recordSave"}
      BY <1>1 DEF OneThread
    <3>2. QED
      BY <1>2, <1>6, <3>1, AdmittedAreCounted
  <2>7. ActiveCount(runs) \in Nat
    <3>1. Len(runs) \in Nat /\ DOMAIN runs = 1 .. Len(runs)
      BY <1>2 DEF OwnInv, Typed
    <3>2. IsFiniteSet(1 .. Len(runs))
      BY <3>1, FS_Interval
    <3>3. {i \in DOMAIN runs : runs[i].status \in Active} \in SUBSET (1 .. Len(runs))
      BY <3>1
    <3>4. QED
      BY <3>2, <3>3, FS_Subset, FS_CardinalityType DEF ActiveCount
  <2>8. Cardinality(Admitted') \in Nat /\ Cardinality(Admitted \cup {k}) \in Nat
    <3>1. Admitted' \subseteq Launches /\ Admitted \cup {k} \subseteq Launches
      BY <1>3, <2>1
    <3>2. QED
      BY <3>1, AdmittedFinite
  <2>9. Cardinality(Admitted') <= MaxActive
    BY <2>2, <2>3, <2>4, <2>5, <2>6, <2>7, <2>8, BoundsAssumption
  <2>10. QED
    BY <1>5, <2>9 DEF RateLimit, Admitted
<1>9. CASE ~work[t].open
  BY <1>1, <1>2, <1>5, <1>6, <1>7, <1>9, FewerAdmitted
<1>10. QED
  BY <1>8, <1>9

\* The invariant is inductive.
LEMMA StepKeepsLimit ==
    ASSUME OneThread, QueueHolds = FALSE, "lost" \notin Faults, LimitInv, [Next]_vars
    PROVE  LimitInv'
<1>1. OwnInv /\ NoRunForgotten /\ OpenInv /\ RateLimit /\ Typed
  BY DEF LimitInv, OwnInv
<1>2. OwnInv'
  BY <1>1, StepOwn
<1>3. NoRunForgotten'
  BY <1>1, StepForgetsNoRun DEF RunsInv, OwnInv
<1>4. open \subseteq Launches
  BY <1>1 DEF OpenInv
<1>5. CASE Jenkins
  <2>1. UNCHANGED <<pc, work, runs, open>>
    BY <1>5 DEF Jenkins, StartOther, Start, Drop, Finish
  <2>2. \A l \in open : (UnderWay(l)' => UnderWay(l)) /\ ~Fresh(l)'
    BY <1>1, <1>4, <1>5, JenkinsAdmitsNobody DEF OpenInv
  <2>3. RateLimit'
    BY <1>1, <1>4, <2>1, <2>2, FewerAdmitted
  <2>4. \A s \in Threads : OpenRight(s)'
    <3>1. ActiveCount(runs)' = ActiveCount(runs)
      BY <2>1 DEF ActiveCount
    <3>2. QED
      BY <1>1, <2>1, <3>1 DEF OpenInv, OpenRight
  <2>5. QED
    BY <1>2, <1>3, <1>4, <2>1, <2>2, <2>3, <2>4 DEF LimitInv, OpenInv
<1>6. ASSUME NEW t \in Threads, Step(t) PROVE LimitInv'
  <2>1. OpenRight(t)
    BY <1>1 DEF OpenInv
  <2>2. OpenRight(t)'
    <3>1. CASE LookAtRuns(t)
      BY <1>1, <2>1, <3>1, LookAtRunsOpen DEF OpenRight
    <3>2. CASE Poll(t) \/ Query(t) \/ Cancel(t) \/ Launch(t)
      BY <1>1, <3>2, BeginOpen DEF OpenRight
    <3>3. CASE LaunchRun(t) \/ StopBuild(t)
      BY <1>1, <2>1, <3>3, LaunchRunOpen
    <3>4. QED
      BY <1>6, <3>1, <3>2, <3>3 DEF Step, Proceed
  <2>3. \A s \in Threads : OpenRight(s)'
    <3>1. \A s \in Threads : s = t
      BY DEF OneThread
    <3>2. QED
      BY <2>2, <3>1
  <2>4. RateLimit' /\ \A l \in open' : l \in Launches /\ ~Fresh(l)'
    <3>1. CASE Trigger(t)
      BY <3>1, TriggerKeepsLimit
    <3>2. CASE ~Trigger(t)
      <4>1. open' = open /\ \A l \in open : (UnderWay(l)' => UnderWay(l)) /\ ~Fresh(l)'
        BY <1>1, <1>6, <3>2, ThreadAdmitsNobody DEF OpenInv
      <4>2. QED
        BY <1>1, <1>4, <4>1, FewerAdmitted
    <3>3. QED
      BY <3>1, <3>2
  <2>5. QED
    BY <1>2, <1>3, <2>3, <2>4 DEF LimitInv, OpenInv
<1>7. CASE UNCHANGED vars
  <2>1. UNCHANGED <<builds, waiting, dropped, stopped, runs, pc, work, open>>
    BY <1>7 DEF vars
  <2>2. \A l : (UnderWay(l)' <=> UnderWay(l)) /\ (Fresh(l)' <=> Fresh(l))
    BY <2>1 DEF UnderWay, Over, HasStarted, NumberOf, Fresh
  <2>3. RateLimit'
    BY <1>1, <1>4, <2>1, <2>2, FewerAdmitted
  <2>4. OpenInv'
    <3>1. ActiveCount(runs)' = ActiveCount(runs)
      BY <2>1 DEF ActiveCount
    <3>2. QED
      BY <1>1, <2>1, <2>2, <3>1 DEF OpenInv, OpenRight
  <2>5. QED
    BY <1>2, <1>3, <2>3, <2>4 DEF LimitInv
<1>8. QED
  BY <1>5, <1>6, <1>7 DEF Next

\* With one thread, a queue that answers in time and no answer to a trigger
\* lost, of the launches the rate limit let through never more are in the
\* queue or running than the policy allows, whatever builds others start and
\* whenever Jenkins cannot be reached (perform_launch_jenkins_ci,
\* get_active_runs_count and validate_jenkins_ci).
THEOREM RateLimitIsKept ==
    ASSUME OneThread, QueueHolds = FALSE, "lost" \notin Faults
    PROVE  Spec => []RateLimit
<1>1. Init => LimitInv
  <2>1. ASSUME Init PROVE QueueInv /\ RecordsRight /\ WorksRight /\ LoadedIsCurrent
    BY <2>1 DEF Init, QueueInv, RecordsRight, WorksRight, WorkRight, LoadedIsCurrent, Saving,
                Fresh, HasStarted
  <2>2. ASSUME Init PROVE NoRunForgotten /\ OpenInv
    BY <2>2 DEF Init, NoRunForgotten, HasStarted, OpenInv, OpenRight
  <2>3. ASSUME Init PROVE RateLimit
    <3>1. Admitted = {}
      BY <2>3 DEF Init, Admitted
    <3>2. Cardinality(Admitted) = 0
      BY <3>1, FS_EmptySet
    <3>3. QED
      BY <3>2, BoundsAssumption DEF RateLimit, Admitted
  <2>4. QED
    BY <2>1, <2>2, <2>3, InitTyped DEF OwnInv, LimitInv
<1>2. LimitInv /\ [Next]_vars => LimitInv'
  BY StepKeepsLimit
<1>3. LimitInv => RateLimit
  BY DEF LimitInv
<1>4. QED
  BY <1>1, <1>2, <1>3, PTL DEF Spec

(***************************************************************************)
(* The types of all of the state, for any threads and whatever goes wrong: *)
(* a thread that looks at a run has one to look at, and the number a        *)
(* launch is given is one that Jenkins can come to.                         *)
(***************************************************************************)

Looking == {"fetch", "queued", "rename", "renameSave", "refetch", "update", "updateSave",
            "tell", "stop"}

\* What a thread works on is complete for the step it is at.
Complete(label, w) ==
    label # "idle" =>
        /\ w \in Work
        /\ label \in Looking => w.todo # << >>
        /\ label \in Launching => w.op = "launch"
        /\ label \in {"update", "updateSave", "tell", "record", "recordSave"} =>
             w.seen \in Statuses
        /\ label \in {"updateSave", "tell"} => HasNumber(w.loaded, Head(w.todo).num)
        /\ label \in {"rename", "renameSave", "refetch"} => w.num \in DOMAIN builds

WorkComplete ==
    /\ pc \in [Threads -> Labels]
    /\ work = [t \in Threads |-> work[t]]
    /\ \A t \in Threads : Complete(pc[t], work[t]) /\ (pc[t] = "idle" => work[t] = NoWork)

\* Induction up to a number, for a set of numbers.
LEMMA Upwards ==
    ASSUME NEW N \in Nat, NEW G, 0 \in G, \A m \in 0 .. N - 1 : m \in G => m + 1 \in G
    PROVE  \A m \in 0 .. N : m \in G
<1> DEFINE Bad == (0 .. N) \ G
           R == OpToRel(<, Nat)
<1>1. SUFFICES ASSUME Bad # {} PROVE FALSE
  OBVIOUS
<1>2. IsWellFoundedOn(R, Nat)
  BY NatLessThanWellFounded, Zenon
<1>3. \A x, y \in Nat : y < x => <<y, x>> \in R
  BY DEF OpToRel
<1> HIDE DEF R
<1>4. Bad \in SUBSET Nat
  OBVIOUS
<1>5. PICK m \in Bad : \A k \in Bad : ~(<<k, m>> \in R)
  <2> HIDE DEF Bad
  <2>1. QED
    BY <1>1, <1>2, <1>4, WFMin
<1>6. m \in 0 .. N /\ m \notin G /\ m # 0
  BY <1>5
<1>7. m - 1 \in 0 .. N - 1 /\ m - 1 \in Nat /\ m \in Nat /\ m - 1 < m /\ (m - 1) + 1 = m
  BY <1>6
<1>8. m - 1 \notin Bad
  BY <1>3, <1>5, <1>7
<1>9. m - 1 \in G
  BY <1>7, <1>8
<1>10. QED
  BY <1>6, <1>7, <1>9

\* A list made of a list of records.
LEMMA WithTyped ==
    ASSUME NEW S, NEW rs \in Seq(S), NEW statuses
    PROVE  With(rs, statuses) \in Seq(S)
<1> DEFINE N == Len(rs)
           value(f, n) == IF n = 0 THEN << >>
                          ELSE IF rs[n].status \in statuses THEN Append(f[n - 1], rs[n])
                          ELSE f[n - 1]
           Solved(f, m) == \A n \in 0 .. m : f[n] = value(f, n)
           G == {m \in 0 .. N : \E f \in [0 .. m -> Seq(S)] : Solved(f, m)}
<1>1. N \in Nat /\ \A n \in 1 .. N : rs[n] \in S
  OBVIOUS
<1>2. 0 \in G
  <2> DEFINE f == [n \in 0 .. 0 |-> << >>]
  <2>1. f \in [0 .. 0 -> Seq(S)] /\ f[0] = << >>
    OBVIOUS
  <2> HIDE DEF f
  <2>2. Solved(f, 0)
    BY <2>1
  <2>3. QED
    BY <1>1, <2>1, <2>2
<1>3. ASSUME NEW m \in 0 .. N - 1, m \in G
      PROVE  m + 1 \in G
  <2>1. PICK f \in [0 .. m -> Seq(S)] : Solved(f, m)
    BY <1>3
  <2> DEFINE g == [n \in 0 .. m + 1 |-> IF n = m + 1 THEN value(f, n) ELSE f[n]]
  <2>2. m + 1 \in 1 .. N /\ f[m] \in Seq(S) /\ m = (m + 1) - 1 /\ m \in 0 .. m
    BY <1>1
  <2>3. value(f, m + 1) \in Seq(S)
    BY <1>1, <2>2
  <2>4. g \in [0 .. m + 1 -> Seq(S)]
    BY <2>3
  <2>5. /\ \A n \in 0 .. m : g[n] = f[n]
        /\ g[m + 1] = value(f, m + 1)
    OBVIOUS
  <2> HIDE DEF g
  <2>6. ASSUME NEW n \in 0 .. m + 1 PROVE g[n] = value(g, n)
    <3>1. n # 0 => n - 1 \in 0 .. m
      OBVIOUS
    <3>2. n # 0 => g[n - 1] = f[n - 1]
      BY <2>5, <3>1
    <3>3. value(g, n) = value(f, n)
      BY <3>2
    <3>4. CASE n = m + 1
      BY <2>5, <3>3, <3>4
    <3>5. CASE n # m + 1
      <4>1. n \in 0 .. m
        BY <3>5
      <4>2. g[n] = f[n] /\ f[n] = value(f, n)
        BY <2>1, <2>5, <4>1
      <4>3. QED
        BY <3>3, <4>2
    <3>6. QED
      BY <3>4, <3>5
  <2>7. m + 1 \in 0 .. N
    BY <1>1
  <2> HIDE DEF value
  <2>8. QED
    BY <2>4, <2>6, <2>7
<1>4. N \in G
  <2> HIDE DEF G, N
  <2>1. N \in Nat
    BY <1>1 DEF N
  <2>2. \A m \in 0 .. N - 1 : m \in G => m + 1 \in G
    BY <1>3
  <2>3. \A m \in 0 .. N : m \in G
    BY <1>2, <2>1, <2>2, Upwards
  <2>4. QED
    BY <2>1, <2>3
<1>5. PICK f \in [0 .. N -> Seq(S)] : Solved(f, N)
  BY <1>4
<1> DEFINE kept == CHOOSE k : k = [n \in 0 .. N |-> value(k, n)]
<1>6. f = [n \in 0 .. N |-> value(f, n)]
  BY <1>5
<1>7. kept = [n \in 0 .. N |-> value(kept, n)]
  <2> HIDE DEF value, N
  <2>1. QED
    BY <1>6, Zenon
<1>8. With(rs, statuses) = kept[N]
  BY DEF With
<1> HIDE DEF kept
<1> DEFINE T == {n \in 0 .. N : kept[n] \in Seq(S)}
<1>9. 0 \in T
  <2>1. 0 \in 0 .. N
    BY <1>1
  <2>2. kept[0] = << >>
    BY <1>7, <2>1
  <2>3. << >> \in Seq(S)
    OBVIOUS
  <2>4. QED
    BY <2>1, <2>2, <2>3
<1>10. ASSUME NEW m \in 0 .. N - 1, m \in T
       PROVE  m + 1 \in T
  <2>1. /\ m + 1 \in 0 .. N /\ m + 1 \in 1 .. N /\ m + 1 # 0 /\ (m + 1) - 1 = m
        /\ kept[m] \in Seq(S)
    BY <1>1, <1>10
  <2>2. kept[m + 1] = value(kept, m + 1)
    BY <1>7, <2>1
  <2>3. value(kept, m + 1) \in Seq(S)
    BY <1>1, <2>1
  <2>4. QED
    BY <2>1, <2>2, <2>3
<1>11. N \in T
  <2> HIDE DEF T, N
  <2>1. N \in Nat
    BY <1>1 DEF N
  <2>2. \A m \in 0 .. N - 1 : m \in T => m + 1 \in T
    BY <1>10
  <2>3. \A m \in 0 .. N : m \in T
    BY <1>9, <2>1, <2>2, Upwards
  <2>4. QED
    BY <2>1, <2>3
<1>12. QED
  BY <1>8, <1>11

\* The last record with a number is one of the list.
LEMMA LastIsRecord ==
    ASSUME NEW S, NEW rs \in Seq(S), NEW n, HasNumber(rs, n)
    PROVE  \E i \in DOMAIN rs : LastWith(rs, n) = rs[i] /\ rs[i] \in S
<1> DEFINE N == Len(rs)
           at == {i \in 1 .. N : rs[i].num = n}
           G == {m \in 0 .. N + 1 : \E i \in at : m <= i}
<1>1. N \in Nat /\ DOMAIN rs = 1 .. N /\ \A i \in 1 .. N : rs[i] \in S
  OBVIOUS
<1>2. PICK k \in at : TRUE
  BY <1>1 DEF HasNumber
<1>3. \E i \in at : \A j \in at : j <= i
  <2>1. SUFFICES ASSUME \A i \in at : \E j \in at : ~(j <= i) PROVE FALSE
    OBVIOUS
  <2>2. 0 \in G
    BY <1>1, <1>2
  <2>3. ASSUME NEW m \in 0 .. (N + 1) - 1, m \in G PROVE m + 1 \in G
    <3>1. PICK i \in at : m <= i
      BY <2>3
    <3>2. PICK j \in at : ~(j <= i)
      BY <2>1
    <3>3. m + 1 <= j /\ m + 1 \in 0 .. N + 1
      BY <1>1, <3>1, <3>2
    <3>4. QED
      BY <3>3
  <2>4. N + 1 \in Nat
    BY <1>1
  <2> HIDE DEF G, N
  <2>5. \A m \in 0 .. N + 1 : m \in G
    BY <2>2, <2>3, <2>4, Upwards
  <2>6. N + 1 \in G
    BY <2>4, <2>5
  <2>7. QED
    BY <1>1, <2>6 DEF G
<1>4. PICK i \in at : \A j \in at : j <= i
  BY <1>3
<1>5. i \in DOMAIN rs /\ rs[i].num = n /\ \A j \in i + 1 .. Len(rs) : rs[j].num # n
  BY <1>1, <1>4
<1> DEFINE c == CHOOSE i_1 \in DOMAIN rs :
                  rs[i_1].num = n /\ \A j \in i_1 + 1 .. Len(rs) : rs[j].num # n
<1>6. c \in DOMAIN rs
  BY <1>5
<1>7. LastWith(rs, n) = rs[c]
  BY DEF LastWith
<1> HIDE DEF c
<1>8. QED
  BY <1>1, <1>6, <1>7

Placed == {"await", "record", "recordSave"}
Launched(t) == pc[t] # "idle" /\ work[t].op = "launch"
OthersBuilds == {n \in DOMAIN builds : builds[n].owner = Others}

\* Until it is triggered, a launch is in no queue and has no build; no two threads
\* have the same one; no two builds are of the same one.
LaunchInv ==
    /\ \A t \in Threads : Launched(t) =>
          /\ work[t].launch <= launches
          /\ pc[t] \notin Placed =>
               work[t].launch \notin waiting /\ ~HasStarted(work[t].launch)
    /\ \A s, t \in Threads : s # t /\ Launched(s) /\ Launched(t) =>
          work[s].launch # work[t].launch
    /\ \A l \in waiting : l <= launches /\ ~HasStarted(l)
    /\ \A n \in DOMAIN builds : builds[n].owner <= launches
    /\ \A m, n \in DOMAIN builds :
          builds[m].owner = builds[n].owner /\ builds[m].owner # Others => m = n
    /\ Cardinality(OthersBuilds) <= MaxOthers

\* The size of a set is that of a part of it and of what is left.
LEMMA PartsOf ==
    ASSUME NEW S, IsFiniteSet(S), NEW T \in SUBSET S
    PROVE  /\ IsFiniteSet(T) /\ IsFiniteSet(S \ T)
           /\ Cardinality(T) \in Nat /\ Cardinality(S \ T) \in Nat
           /\ Cardinality(S) = Cardinality(S \ T) + Cardinality(T)
<1>1. IsFiniteSet(T) /\ IsFiniteSet(S \ T)
  BY FS_Subset
<1>2. Cardinality(S \ T) = Cardinality(S) - Cardinality(S \cap T) /\ S \cap T = T
  BY FS_Difference
<1>3. Cardinality(S) \in Nat /\ Cardinality(T) \in Nat /\ Cardinality(S \ T) \in Nat
  BY <1>1, FS_CardinalityType
<1>4. Cardinality(S \ T) = Cardinality(S) - Cardinality(T)
  BY <1>2
<1>5. QED
  BY <1>1, <1>3, <1>4

\* The numbers up to n are n.
LEMMA UpTo ==
    ASSUME NEW n \in Nat
    PROVE  IsFiniteSet(1 .. n) /\ Cardinality(1 .. n) = n
BY FS_Interval

\* There are no more builds than launches and builds of others; where the launches
\* of X have none, there is room for them.
LEMMA BuildsBound ==
    ASSUME builds \in Seq(Build), LaunchInv, NEW X \in SUBSET Launches,
           \A l \in X : ~HasStarted(l)
    PROVE  IsFiniteSet(OthersBuilds) /\ Len(builds) + Cardinality(X) <= MaxLaunches + MaxOthers
<1> DEFINE own == (DOMAIN builds) \ OthersBuilds
           started == Launches \ X
           owner == [n \in own |-> builds[n].owner]
<1>1. Len(builds) \in Nat /\ DOMAIN builds = 1 .. Len(builds)
      /\ \A n \in DOMAIN builds : builds[n] \in Build
  OBVIOUS
<1>2. IsFiniteSet(DOMAIN builds) /\ Cardinality(DOMAIN builds) = Len(builds)
  BY <1>1, UpTo
<1>3. IsFiniteSet(Launches) /\ Cardinality(Launches) = MaxLaunches
  BY BoundsAssumption, UpTo DEF Launches
<1>4. /\ IsFiniteSet(OthersBuilds) /\ IsFiniteSet(own)
      /\ Cardinality(OthersBuilds) \in Nat /\ Cardinality(own) \in Nat
      /\ Len(builds) = Cardinality(own) + Cardinality(OthersBuilds)
  <2>1. OthersBuilds \in SUBSET DOMAIN builds
    BY DEF OthersBuilds
  <2>2. QED
    BY <1>2, <2>1, PartsOf
<1>5. /\ IsFiniteSet(started) /\ Cardinality(started) \in Nat /\ Cardinality(X) \in Nat
      /\ MaxLaunches = Cardinality(started) + Cardinality(X)
  BY <1>3, PartsOf
<1>6. owner \in Injection(own, started)
  <2>1. ASSUME NEW n \in own PROVE builds[n].owner \in started
    <3>1. builds[n].owner \in Launches
      BY <1>1 DEF OthersBuilds, Build
    <3>2. HasStarted(builds[n].owner)
      BY DEF HasStarted
    <3>3. QED
      BY <3>1, <3>2
  <2>2. ASSUME NEW m \in own, NEW n \in own, builds[m].owner = builds[n].owner PROVE m = n
    BY <2>2 DEF LaunchInv, OthersBuilds
  <2>3. QED
    BY <2>1, <2>2 DEF Injection, IsInjective
<1>7. Cardinality(own) <= Cardinality(started)
  BY <1>4, <1>5, <1>6, FS_Injection
<1>8. Cardinality(OthersBuilds) <= MaxOthers
  BY DEF LaunchInv
<1> HIDE DEF own, started
<1>9. QED
  BY <1>1, <1>4, <1>5, <1>7, <1>8, BoundsAssumption

\* TypeOK, with what makes it inductive.
StateInv ==
    /\ builds \in Seq(Build)
    /\ waiting \subseteq Launches
    /\ dropped \subseteq Launches
    /\ stopped \subseteq DOMAIN builds
    /\ runs \in Seq(Record)
    /\ launches \in 0 .. MaxLaunches
    /\ queries \in 0 .. MaxQueries
    /\ open \subseteq Launches
    /\ told \subseteq Record
    /\ WorkComplete
    /\ LaunchInv

\* The numbers of the builds are numbers that a record may have.
LEMMA NumbersOfBuilds ==
    ASSUME builds \in Seq(Build), LaunchInv
    PROVE  /\ Len(builds) \in 0 .. MaxLaunches + MaxOthers
           /\ \A n \in DOMAIN builds : n \in Numbers /\ builds[n] \in Build
<1>1. Cardinality({}) = 0
  BY FS_EmptySet
<1>2. Len(builds) + Cardinality({}) <= MaxLaunches + MaxOthers
  BY BuildsBound
<1>3. Len(builds) \in Nat /\ MaxLaunches \in Nat /\ MaxOthers \in Nat
  BY BoundsAssumption
<1>4. Len(builds) \in 0 .. MaxLaunches + MaxOthers
  BY <1>1, <1>2, <1>3
<1>5. \A n \in DOMAIN builds : n \in 1 .. Len(builds) /\ builds[n] \in Build
  OBVIOUS
<1>6. QED
  BY <1>3, <1>4, <1>5 DEF Numbers

\* The invariant is stronger than the types.
LEMMA StateIsTyped == StateInv => TypeOK
<1> SUFFICES ASSUME StateInv PROVE TypeOK
  OBVIOUS
<1>1. Len(builds) \in 0 .. MaxLaunches + MaxOthers
  BY NumbersOfBuilds DEF StateInv
<1>2. work \in [Threads -> Work \cup {NoWork}]
  BY DEF StateInv, WorkComplete, Complete
<1>3. \A t \in Threads : (pc[t] = "idle") <=> (work[t] = NoWork)
  <2> TAKE t \in Threads
  <2>1. pc[t] # "idle" => work[t] \in Work
    BY DEF StateInv, WorkComplete, Complete
  <2>2. NoWork \notin Work
    BY DEF NoWork, Work
  <2>3. QED
    BY <2>1, <2>2 DEF StateInv, WorkComplete
<1>4. QED
  BY <1>1, <1>2, <1>3 DEF StateInv, WorkComplete, TypeOK

\* A thread that turns to a step with work that is complete for it.
LEMMA BecomeComplete ==
    ASSUME WorkComplete, NEW t \in Threads, NEW label \in Labels, NEW w, Become(t, label, w),
           builds' = builds, Complete(label, w)
    PROVE  /\ WorkComplete'
           /\ pc'[t] = label
           /\ label # "idle" => work'[t] = w
           /\ \A s \in Threads : s # t => pc'[s] = pc[s] /\ work'[s] = work[s]
<1>1. /\ pc' = [pc EXCEPT ![t] = label]
      /\ work' = [work EXCEPT ![t] = IF label = "idle" THEN NoWork ELSE w]
  BY DEF Become
<1>2. pc'[t] = label /\ work'[t] = (IF label = "idle" THEN NoWork ELSE w)
  BY <1>1 DEF WorkComplete
<1>3. \A s \in Threads : s # t => pc'[s] = pc[s] /\ work'[s] = work[s]
  BY <1>1 DEF WorkComplete
<1>4. pc' \in [Threads -> Labels] /\ work' = [s \in Threads |-> work'[s]]
  BY <1>1 DEF WorkComplete
<1>5. ASSUME NEW s \in Threads
      PROVE  Complete(pc[s], work[s])' /\ (pc'[s] = "idle" => work'[s] = NoWork)
  <2>1. CASE s = t
    BY <1>2, <2>1 DEF Complete, HasNumber
  <2>2. CASE s # t
    <3>1. Complete(pc[s], work[s]) /\ (pc[s] = "idle" => work[s] = NoWork)
      BY DEF WorkComplete
    <3>2. QED
      BY <1>3, <2>2, <3>1 DEF Complete, HasNumber
  <2>3. QED
    BY <2>1, <2>2
<1>6. QED
  BY <1>2, <1>3, <1>4, <1>5 DEF WorkComplete

\* The other threads go on as they were, and the launch of this one, if it still
\* has one, is the one it had, on the same side of its trigger.
Steady(t) ==
    /\ \A s \in Threads : s # t => pc'[s] = pc[s] /\ work'[s] = work[s]
    /\ Launched(t)' =>
         /\ Launched(t) /\ work'[t].launch = work[t].launch
         /\ pc[t] \in Placed => pc'[t] \in Placed

\* A thread that goes on with its work as it has changed in other fields.
LEMMA GoesOn ==
    ASSUME WorkComplete, NEW t \in Threads, pc[t] # "idle", NEW label \in Labels, NEW w,
           Become(t, label, w), builds' = builds, Complete(label, w),
           label # "idle" => /\ w.op = work[t].op /\ w.launch = work[t].launch
                             /\ pc[t] \in Placed => label \in Placed
    PROVE  WorkComplete' /\ Steady(t)
<1>1. /\ WorkComplete' /\ pc'[t] = label /\ (label # "idle" => work'[t] = w)
      /\ \A s \in Threads : s # t => pc'[s] = pc[s] /\ work'[s] = work[s]
  BY BecomeComplete
<1>2. QED
  BY <1>1 DEF Steady, Launched

\* The next run, the count that follows a refresh, or the end.
LEMMA AdvanceComplete ==
    ASSUME WorkComplete, NEW t \in Threads, pc[t] \in Looking, Advance(t), builds' = builds
    PROVE  WorkComplete' /\ Steady(t)
<1> DEFINE rest == Tail(work[t].todo)
           w == [work[t] EXCEPT !.todo = rest, !.seen = Unknown, !.num = 1, !.loaded = << >>]
           label == AfterRuns(work[t].op, rest)
<1>1. Complete(pc[t], work[t]) /\ pc[t] # "idle" /\ pc[t] \notin Placed
  BY DEF WorkComplete, Looking, Placed
<1>2. work[t] \in Work /\ work[t].todo # << >>
  BY <1>1 DEF Complete
<1>3. Become(t, label, w)
  BY DEF Advance
<1>4. /\ label \in {"fetch", "count", "idle"}
      /\ label = "count" => work[t].op = "launch"
      /\ label = "fetch" => rest # << >>
  BY DEF AfterRuns
<1>5. rest \in Seq(Record)
  BY <1>2 DEF Work
<1>6. 1 \in Numbers
  BY <1>2, BoundsAssumption DEF Work, Numbers
<1>7. << >> \in Seq(Record)
  OBVIOUS
<1> HIDE DEF rest
<1>8. w \in Work /\ w.op = work[t].op /\ w.launch = work[t].launch /\ w.todo = rest
  BY <1>2, <1>5, <1>6, <1>7 DEF Work
<1> HIDE DEF w, label
<1>9. Complete(label, w) /\ label \in Labels
  BY <1>4, <1>8 DEF Complete, Labels, Looking, Launching
<1>10. QED
  BY <1>1, <1>3, <1>8, <1>9, GoesOn

\* What is news is written down next; the rest of the runs comes otherwise.
LEMMA LearnComplete ==
    ASSUME WorkComplete, NEW t \in Threads, pc[t] \in Looking, NEW status \in Statuses,
           Learn(t, status), builds' = builds
    PROVE  WorkComplete' /\ Steady(t)
<1>1. CASE Advance(t)
  BY <1>1, AdvanceComplete
<1>2. CASE Become(t, "update", [work[t] EXCEPT !.seen = status, !.num = 1])
  <2> DEFINE w == [work[t] EXCEPT !.seen = status, !.num = 1]
  <2>1. Complete(pc[t], work[t]) /\ pc[t] # "idle" /\ pc[t] \notin Placed
    BY DEF WorkComplete, Looking, Placed
  <2>2. work[t] \in Work /\ work[t].todo # << >>
    BY <2>1 DEF Complete
  <2>3. 1 \in Numbers
    BY <2>2, BoundsAssumption DEF Work, Numbers
  <2>4. /\ w \in Work /\ w.op = work[t].op /\ w.launch = work[t].launch
        /\ w.todo = work[t].todo /\ w.seen = status
    BY <2>2, <2>3 DEF Work
  <2>5. Become(t, "update", w)
    BY <1>2
  <2> HIDE DEF w
  <2>6. Complete("update", w) /\ "update" \in Labels
    BY <2>2, <2>4 DEF Complete, Labels, Launching
  <2>7. QED
    BY <2>1, <2>4, <2>5, <2>6, GoesOn
<1>3. QED
  BY <1>1, <1>2 DEF Learn

\* update_run and update_run_status make records of records.
LEMMA ChangedAreRecords ==
    ASSUME NEW rs \in Seq(Record), NEW n, NEW k \in Numbers, NEW status \in Statuses
    PROVE  WithStatus(rs, n, status) \in Seq(Record) /\ Renumbered(rs, n, k) \in Seq(Record)
<1>1. DOMAIN rs = 1 .. Len(rs) /\ Len(rs) \in Nat /\ \A i \in DOMAIN rs : rs[i] \in Record
  OBVIOUS
<1>2. ASSUME NEW i \in DOMAIN rs
      PROVE  /\ [rs[i] EXCEPT !.status = status] \in Record
             /\ [rs[i] EXCEPT !.num = k] \in Record
  BY <1>1 DEF Record
<1>3. WithStatus(rs, n, status) \in [1 .. Len(rs) -> Record]
  BY <1>1, <1>2 DEF WithStatus
<1>4. Renumbered(rs, n, k) \in [1 .. Len(rs) -> Record]
  BY <1>1, <1>2 DEF Renumbered
<1>5. QED
  BY <1>1, <1>3, <1>4

\* A thread that looks at runs.
LEMMA LookAtRunsComplete ==
    ASSUME StateInv, NEW t \in Threads, LookAtRuns(t)
    PROVE  /\ WorkComplete' /\ Steady(t)
           /\ runs' \in Seq(Record)
           /\ told' \subseteq Record
           /\ UNCHANGED <<builds, waiting, dropped, stopped, launches, queries, open>>
<1>1. /\ WorkComplete /\ Complete(pc[t], work[t]) /\ runs \in Seq(Record) /\ told \subseteq Record
      /\ \A n \in DOMAIN builds : n \in Numbers /\ builds[n] \in Build
  BY NumbersOfBuilds DEF StateInv, WorkComplete
<1>2. /\ UNCHANGED <<builds, waiting, dropped, stopped, launches, queries, open>>
      /\ pc[t] \in Looking /\ pc[t] # "idle" /\ pc[t] \notin Placed
  BY DEF LookAtRuns, Fetch, FetchFails, CheckQueue, Rename, RenameSave, Refetch, Update,
         UpdateSave, Tell, jenkins, Looking, Placed
<1>3. work[t] \in Work /\ work[t].todo # << >> /\ Run(t) \in Record
  <2>1. work[t] \in Work /\ work[t].todo # << >>
    BY <1>1, <1>2 DEF Complete
  <2>2. work[t].todo \in Seq(Record)
    BY <2>1 DEF Work
  <2>3. QED
    BY <2>1, <2>2 DEF Run
<1>4. \A n \in DOMAIN builds : builds[n].status \in Statuses
  BY <1>1 DEF Build, Statuses, Terminal, Active
<1>5. CASE Fetch(t) \/ Refetch(t)
  <2> SUFFICES WorkComplete' /\ Steady(t)
    BY <1>1, <1>2, <1>5 DEF Fetch, Refetch
  <2>1. CASE \E status \in Statuses : Learn(t, status)
    BY <1>1, <1>2, <2>1, LearnComplete
  <2>2. CASE Become(t, "queued", work[t])
    <3>1. Complete("queued", work[t]) /\ "queued" \in Labels
      BY <1>3 DEF Complete, Launching, Labels
    <3>2. QED
      BY <1>1, <1>2, <2>2, <3>1, GoesOn
  <2>3. pc[t] = "refetch" => work[t].num \in DOMAIN builds
    BY <1>1 DEF Complete
  <2>4. QED
    BY <1>4, <1>5, <2>1, <2>2, <2>3 DEF Fetch, Refetch
<1>6. CASE FetchFails(t)
  BY <1>1, <1>2, <1>6, AdvanceComplete DEF FetchFails
<1>7. CASE CheckQueue(t)
  <2> SUFFICES WorkComplete' /\ Steady(t)
    BY <1>1, <1>2, <1>7 DEF CheckQueue
  <2>1. CASE \E status \in {"QUEUED", "CANCELLED"} : Learn(t, status)
    BY <1>1, <1>2, <2>1, LearnComplete DEF Statuses, Terminal, Active
  <2>2. CASE Advance(t)
    BY <1>1, <1>2, <2>2, AdvanceComplete
  <2>3. CASE \E l : HasStarted(l) /\ Become(t, "rename", [work[t] EXCEPT !.num = NumberOf(l)])
    <3>1. PICK l : HasStarted(l) /\ Become(t, "rename", [work[t] EXCEPT !.num = NumberOf(l)])
      BY <2>3
    <3> DEFINE n == NumberOf(l)
               w == [work[t] EXCEPT !.num = n]
    <3>2. n \in DOMAIN builds /\ n \in Numbers
      BY <1>1, <3>1, HasStartedAt
    <3> HIDE DEF n
    <3>3. /\ w \in Work /\ w.op = work[t].op /\ w.launch = work[t].launch
          /\ w.todo = work[t].todo /\ w.num = n
      BY <1>3, <3>2 DEF Work
    <3>4. Become(t, "rename", w)
      BY <3>1 DEF n
    <3> HIDE DEF w
    <3>5. Complete("rename", w) /\ "rename" \in Labels
      BY <1>3, <3>2, <3>3 DEF Complete, Launching, Labels
    <3>6. QED
      BY <1>1, <1>2, <3>3, <3>4, <3>5, GoesOn
  <2>4. QED
    BY <1>7, <2>1, <2>2, <2>3 DEF CheckQueue
<1>8. CASE Rename(t) \/ Update(t)
  <2> DEFINE w == [work[t] EXCEPT !.loaded = runs]
  <2>1. /\ w \in Work /\ w.op = work[t].op /\ w.launch = work[t].launch /\ w.todo = work[t].todo
        /\ w.num = work[t].num /\ w.seen = work[t].seen /\ w.loaded = runs
    BY <1>1, <1>3 DEF Work
  <2> HIDE DEF w
  <2>2. CASE Rename(t) /\ HasNumber(runs, Run(t).num)
    <3>1. Become(t, "renameSave", w)
      BY <2>2 DEF Rename, w
    <3>2. Complete("renameSave", w) /\ "renameSave" \in Labels
      BY <1>1, <1>3, <2>1, <2>2 DEF Complete, Launching, Labels, Rename
    <3>3. QED
      BY <1>1, <1>2, <2>1, <2>2, <3>1, <3>2, GoesOn DEF Rename
  <2>3. CASE Rename(t) /\ ~HasNumber(runs, Run(t).num)
    <3>1. Complete("refetch", work[t]) /\ "refetch" \in Labels
      BY <1>1, <1>3, <2>3 DEF Complete, Launching, Labels, Rename
    <3>2. QED
      BY <1>1, <1>2, <2>3, <3>1, GoesOn DEF Rename
  <2>4. CASE Update(t) /\ HasNumber(runs, Run(t).num)
    <3>1. Become(t, "updateSave", w)
      BY <2>4 DEF Update, w
    <3>2. Complete("updateSave", w) /\ "updateSave" \in Labels
      BY <1>1, <1>3, <2>1, <2>4 DEF Complete, Launching, Labels, Update, Run
    <3>3. QED
      BY <1>1, <1>2, <2>1, <2>4, <3>1, <3>2, GoesOn DEF Update
  <2>5. CASE Update(t) /\ ~HasNumber(runs, Run(t).num)
    BY <1>1, <1>2, <2>5, AdvanceComplete DEF Update
  <2>6. QED
    BY <1>8, <2>2, <2>3, <2>4, <2>5
<1>9. CASE RenameSave(t)
  <2> DEFINE w == [work[t] EXCEPT !.loaded = << >>]
  <2>1. << >> \in Seq(Record)
    OBVIOUS
  <2>2. /\ w \in Work /\ w.op = work[t].op /\ w.launch = work[t].launch /\ w.todo = work[t].todo
        /\ w.num = work[t].num
    BY <1>3, <2>1 DEF Work
  <2>3. Become(t, "refetch", w)
    BY <1>9 DEF RenameSave
  <2> HIDE DEF w
  <2>4. Complete("refetch", w) /\ "refetch" \in Labels
    BY <1>1, <1>3, <1>9, <2>2 DEF Complete, Launching, Labels, RenameSave
  <2>5. work[t].loaded \in Seq(Record) /\ work[t].num \in Numbers
    BY <1>3 DEF Work
  <2>6. "PENDING" \in Statuses
    BY DEF Statuses, Active
  <2>7. runs' \in Seq(Record)
    BY <1>9, <2>5, <2>6, ChangedAreRecords DEF RenameSave
  <2>8. WorkComplete' /\ Steady(t)
    BY <1>1, <1>2, <2>2, <2>3, <2>4, GoesOn
  <2>9. QED
    BY <1>1, <1>2, <1>9, <2>7, <2>8 DEF RenameSave
<1>10. CASE UpdateSave(t)
  <2>1. work[t].loaded \in Seq(Record) /\ work[t].num \in Numbers /\ work[t].seen \in Statuses
    BY <1>1, <1>3, <1>10 DEF Work, Complete, UpdateSave
  <2>2. runs' \in Seq(Record)
    BY <1>10, <2>1, ChangedAreRecords DEF UpdateSave
  <2>3. CASE Become(t, "tell", work[t])
    <3>1. Complete("tell", work[t]) /\ "tell" \in Labels
      BY <1>1, <1>3, <1>10 DEF Complete, Launching, Labels, UpdateSave
    <3>2. QED
      BY <1>1, <1>2, <1>10, <2>2, <2>3, <3>1, GoesOn DEF UpdateSave
  <2>4. CASE Advance(t)
    BY <1>1, <1>2, <1>10, <2>2, <2>4, AdvanceComplete DEF UpdateSave
  <2>5. QED
    BY <1>10, <2>3, <2>4 DEF UpdateSave
<1>11. CASE Tell(t)
  <2>1. /\ work[t].loaded \in Seq(Record) /\ work[t].seen \in Statuses
        /\ HasNumber(work[t].loaded, Run(t).num)
    BY <1>1, <1>3, <1>11 DEF Work, Complete, Tell, Run
  <2> DEFINE r == LastWith(work[t].loaded, Run(t).num)
  <2>2. r \in Record
    BY <2>1, LastIsRecord
  <2> HIDE DEF r
  <2>3. [r EXCEPT !.status = work[t].seen] \in Record
    BY <2>1, <2>2 DEF Record
  <2>4. told' \subseteq Record
    BY <1>1, <1>11, <2>3 DEF Tell, r
  <2>5. WorkComplete' /\ Steady(t)
    BY <1>1, <1>2, <1>11, AdvanceComplete DEF Tell
  <2>6. QED
    BY <1>1, <1>2, <1>11, <2>4, <2>5 DEF Tell
<1>12. QED
  BY <1>5, <1>6, <1>7, <1>8, <1>9, <1>10, <1>11 DEF LookAtRuns

\* poll, query, cancel and launch begin; a launch takes the next number.
LEMMA BeginComplete ==
    ASSUME StateInv, NEW t \in Threads, Poll(t) \/ Query(t) \/ Cancel(t) \/ Launch(t)
    PROVE  /\ WorkComplete'
           /\ UNCHANGED <<builds, waiting, dropped, stopped, runs, open, told>>
           /\ launches' \in 0 .. MaxLaunches /\ queries' \in 0 .. MaxQueries
           /\ \A s \in Threads : s # t => pc'[s] = pc[s] /\ work'[s] = work[s]
           /\ launches <= launches' /\ pc'[t] \notin Placed
           /\ Launched(t)' => work'[t].launch = launches + 1 /\ launches' = launches + 1
<1>1. /\ UNCHANGED <<builds, waiting, dropped, stopped, runs, open, told>>
      /\ runs \in Seq(Record) /\ WorkComplete
      /\ launches \in 0 .. MaxLaunches /\ queries \in 0 .. MaxQueries
      /\ MaxQueries \in Nat /\ MaxLaunches \in Nat /\ MaxOthers \in Nat
  BY BoundsAssumption DEF Poll, Query, Cancel, Launch, jenkins, StateInv
<1>2. ActiveRuns(runs) \in Seq(Record) /\ << >> \in Seq(Record)
  BY <1>1, WithTyped DEF ActiveRuns
<1>3. Unknown \in Statuses \cup {Unknown}
  OBVIOUS
<1>4. CASE Launch(t)
  <2> DEFINE todo == ActiveRuns(runs)
             w == [Started("launch", todo) EXCEPT !.launch = launches + 1]
             label == AfterRuns("launch", todo)
  <2>1. label \in {"fetch", "count"} /\ (label = "fetch" => todo # << >>)
    BY DEF AfterRuns
  <2>2. /\ launches' = launches + 1 /\ queries' = queries
        /\ launches + 1 \in Launches /\ launches' \in 0 .. MaxLaunches
        /\ launches <= launches'
    BY <1>1, <1>4 DEF Launch, Launches
  <2>3. 1 \in Numbers
    BY <1>1, <2>2 DEF Launches, Numbers
  <2>4. todo \in Seq(Record)
    BY <1>2
  <2>5. Become(t, label, w)
    BY <1>4 DEF Launch
  <2> HIDE DEF todo, label
  <2>6. w \in Work /\ w.op = "launch" /\ w.launch = launches + 1 /\ w.todo = todo
    BY <1>2, <1>3, <2>2, <2>3, <2>4 DEF Started, Work
  <2> HIDE DEF w
  <2>7. Complete(label, w) /\ label \in Labels
    BY <2>1, <2>6 DEF Complete, Labels, Looking, Launching
  <2>8. /\ WorkComplete' /\ pc'[t] = label /\ work'[t] = w
        /\ \A s \in Threads : s # t => pc'[s] = pc[s] /\ work'[s] = work[s]
    BY <1>1, <2>1, <2>5, <2>7, BecomeComplete
  <2>9. QED
    BY <1>1, <2>1, <2>2, <2>6, <2>8 DEF Placed
<1>5. CASE Poll(t) \/ Query(t) \/ Cancel(t)
  <2>1. PICK label \in {"fetch", "stop"}, op \in {"poll", "query", "cancel"},
             todo \in Seq(Record) :
          Become(t, label, Started(op, todo)) /\ todo # << >>
    <3>1. CASE Poll(t)
      BY <1>2, <3>1 DEF Poll
    <3>2. ASSUME NEW i \in DOMAIN runs
          PROVE  <<runs[i]>> \in Seq(Record) /\ <<runs[i]>> # << >>
      BY <1>1
    <3>3. QED
      BY <1>5, <3>1, <3>2 DEF Query, Cancel
  <2> DEFINE w == Started(op, todo)
  <2>2. Head(todo) \in Record
    BY <2>1
  <2>3. 1 \in Numbers /\ 1 \in Launches
    BY <1>1, <2>2 DEF Record, Numbers, Launches
  <2>4. w \in Work /\ w.op = op /\ w.todo = todo
    BY <1>2, <1>3, <2>1, <2>3 DEF Started, Work
  <2>5. Become(t, label, w)
    BY <2>1
  <2> HIDE DEF w
  <2>6. Complete(label, w) /\ label \in Labels
    BY <2>1, <2>4 DEF Complete, Labels, Launching
  <2>7. /\ WorkComplete' /\ pc'[t] = label /\ work'[t] = w
        /\ \A s \in Threads : s # t => pc'[s] = pc[s] /\ work'[s] = work[s]
    BY <1>1, <2>1, <2>5, <2>6, BecomeComplete
  <2>8. launches' = launches /\ queries' \in 0 .. MaxQueries
    BY <1>1, <1>5 DEF Poll, Query, Cancel
  <2>9. ~Launched(t)' /\ pc'[t] \notin Placed
    BY <2>1, <2>4, <2>7 DEF Launched, Placed
  <2>10. QED
    BY <1>1, <2>7, <2>8, <2>9
<1>6. QED
  BY <1>4, <1>5

\* The steps of a cancellation and of a launch.
LEMMA LaunchRunComplete ==
    ASSUME StateInv, NEW t \in Threads, LaunchRun(t) \/ StopBuild(t)
    PROVE  /\ WorkComplete' /\ Steady(t)
           /\ UNCHANGED <<builds, dropped, launches, queries, told>>
           /\ stopped' \subseteq DOMAIN builds
           /\ runs' \in Seq(Record)
           /\ open' \subseteq Launches
           /\ \/ waiting' = waiting
              \/ /\ Launched(t) /\ pc[t] \notin Placed /\ pc'[t] \in Placed \cup {"idle"}
                 /\ work[t].launch \in Launches
                 /\ waiting' = waiting \cup {work[t].launch}
<1>1. /\ WorkComplete /\ Complete(pc[t], work[t]) /\ runs \in Seq(Record)
      /\ \A n \in DOMAIN builds : n \in Numbers
      /\ open \subseteq Launches /\ stopped \subseteq DOMAIN builds
      /\ builds \in Seq(Build) /\ LaunchInv
  BY NumbersOfBuilds DEF StateInv, WorkComplete
<1>2. /\ UNCHANGED <<builds, dropped, launches, queries, told>>
      /\ pc[t] \in Launching \cup {"stop"} /\ pc[t] # "idle"
  BY DEF LaunchRun, StopBuild, Count, Predict, Trigger, Await, RecordRun, RecordSave, jenkins,
         Launching
<1>3. /\ work[t] \in Work
      /\ pc[t] \in Launching => work[t].op = "launch"
      /\ work[t].launch \in Launches
  BY <1>1, <1>2 DEF Complete, Work
<1>4. Complete("idle", NoWork) /\ "idle" \in Labels
  BY DEF Complete, Labels
<1>5. {"PENDING", "QUEUED", "CANCELLED"} \subseteq Statuses
  BY DEF Statuses, Active, Terminal
<1>6. CASE StopBuild(t)
  <2>1. pc[t] = "stop" /\ pc[t] \notin Placed /\ work[t].todo # << >>
    BY <1>1, <1>6 DEF StopBuild, Placed, Complete, Looking
  <2> DEFINE w == [work[t] EXCEPT !.seen = "CANCELLED"]
  <2>2. /\ w \in Work /\ w.op = work[t].op /\ w.launch = work[t].launch /\ w.todo = work[t].todo
        /\ w.seen = "CANCELLED"
    BY <1>3, <1>5 DEF Work
  <2> HIDE DEF w
  <2>3. Complete("update", w) /\ "update" \in Labels
    BY <1>5, <2>1, <2>2 DEF Complete, Launching, Labels
  <2>4. \/ Become(t, "update", w) /\ stopped' \subseteq DOMAIN builds
        \/ Become(t, "idle", NoWork) /\ stopped' = stopped
    BY <1>1, <1>6 DEF StopBuild, w
  <2>5. WorkComplete' /\ Steady(t)
    BY <1>1, <1>2, <1>4, <2>1, <2>2, <2>3, <2>4, GoesOn
  <2>6. QED
    BY <1>1, <1>2, <1>6, <2>4, <2>5 DEF StopBuild
<1>7. CASE Count(t)
  <2> DEFINE w == [work[t] EXCEPT !.open = TRUE]
  <2>1. w \in Work /\ w.op = work[t].op /\ w.launch = work[t].launch
    BY <1>3 DEF Work
  <2>2. \/ Become(t, "predict", w) \/ Become(t, "predict", work[t]) \/ Become(t, "idle", NoWork)
    BY <1>7 DEF Count
  <2> HIDE DEF w
  <2>3. /\ Complete("predict", w) /\ Complete("predict", work[t]) /\ "predict" \in Labels
        /\ pc[t] \notin Placed
    BY <1>3, <1>7, <2>1 DEF Complete, Looking, Labels, Count, Placed, Launching
  <2>4. WorkComplete' /\ Steady(t)
    BY <1>1, <1>2, <1>4, <2>1, <2>2, <2>3, GoesOn
  <2>5. QED
    BY <1>1, <1>2, <1>7, <2>4 DEF Count, jenkins
<1>8. CASE Predict(t)
  <2> DEFINE n == Len(builds) + 1
             w == [work[t] EXCEPT !.num = n]
             l == work[t].launch
  <2>1. Launched(t) /\ pc[t] \notin Placed
    BY <1>2, <1>3, <1>8 DEF Launched, Placed, Predict, Launching
  <2>2. {l} \in SUBSET Launches /\ \A k \in {l} : ~HasStarted(k)
    BY <1>1, <1>3, <2>1 DEF LaunchInv
  <2>3. Cardinality({l}) = 1
    BY FS_Singleton
  <2>4. Len(builds) + 1 <= MaxLaunches + MaxOthers
    BY <1>1, <2>2, <2>3, BuildsBound
  <2>5. n \in Numbers
    BY <1>1, <2>4, BoundsAssumption DEF Numbers
  <2> HIDE DEF n
  <2>6. w \in Work /\ w.op = work[t].op /\ w.launch = work[t].launch
    BY <1>3, <2>5 DEF Work
  <2>7. Become(t, "trigger", w)
    BY <1>8 DEF Predict, n
  <2> HIDE DEF w
  <2>8. Complete("trigger", w) /\ "trigger" \in Labels
    BY <2>1, <2>6 DEF Complete, Looking, Labels, Launched
  <2>9. WorkComplete' /\ Steady(t)
    BY <1>1, <1>2, <2>1, <2>6, <2>7, <2>8, GoesOn
  <2>10. QED
    BY <1>1, <1>2, <1>8, <2>9 DEF Predict, jenkins
<1>9. CASE Trigger(t)
  <2>1. Launched(t) /\ pc[t] \notin Placed
    BY <1>2, <1>3, <1>9 DEF Launched, Placed, Trigger, Launching
  <2>2. Complete("await", work[t]) /\ "await" \in Labels /\ "await" \in Placed
    BY <1>3, <2>1 DEF Complete, Looking, Labels, Launched, Placed
  <2>3. Become(t, "await", work[t]) \/ Become(t, "idle", NoWork)
    BY <1>9 DEF Trigger
  <2>4. WorkComplete' /\ Steady(t) /\ pc'[t] \in Placed \cup {"idle"}
    BY <1>1, <1>2, <1>4, <2>1, <2>2, <2>3, GoesOn, BecomeComplete
  <2>5. open' \subseteq Launches /\ waiting' = waiting \cup {work[t].launch}
    BY <1>1, <1>3, <1>9 DEF Trigger
  <2>6. QED
    BY <1>1, <1>2, <1>3, <1>9, <2>1, <2>4, <2>5 DEF Trigger
<1>10. CASE Await(t) \/ RecordRun(t)
  <2> SUFFICES WorkComplete' /\ Steady(t)
    BY <1>1, <1>2, <1>10 DEF Await, RecordRun, jenkins
  <2>1. work[t].op = "launch" /\ {"record", "recordSave"} \subseteq Placed \cap Labels
    BY <1>3, <1>10 DEF Launching, Await, RecordRun, Placed, Labels
  <2>2. ASSUME NEW label \in {"record", "recordSave"}, NEW w \in Work, Become(t, label, w),
               w.op = "launch", w.launch = work[t].launch, w.seen \in Statuses
        PROVE  WorkComplete' /\ Steady(t)
    <3>1. Complete(label, w)
      BY <2>2 DEF Complete, Looking
    <3>2. QED
      BY <1>1, <1>2, <2>1, <2>2, <3>1, GoesOn
  <2>3. CASE Await(t) /\ HasStarted(work[t].launch)
    <3> DEFINE n == NumberOf(work[t].launch)
               w == [work[t] EXCEPT !.num = n, !.seen = "PENDING"]
    <3>1. n \in Numbers
      BY <1>1, <2>3, HasStartedAt
    <3>2. Become(t, "record", w)
      BY <2>3 DEF Await
    <3> HIDE DEF n
    <3>3. w \in Work /\ w.op = work[t].op /\ w.launch = work[t].launch /\ w.seen = "PENDING"
      BY <1>3, <1>5, <3>1 DEF Work
    <3> HIDE DEF w
    <3>4. QED
      BY <1>5, <2>1, <2>2, <3>2, <3>3
  <2>4. CASE Await(t) /\ ~HasStarted(work[t].launch)
    <3> DEFINE w == [work[t] EXCEPT !.seen = "QUEUED"]
    <3>1. Become(t, "record", w)
      BY <2>4 DEF Await
    <3>2. w \in Work /\ w.op = work[t].op /\ w.launch = work[t].launch /\ w.seen = "QUEUED"
      BY <1>3, <1>5 DEF Work
    <3> HIDE DEF w
    <3>3. QED
      BY <1>5, <2>1, <2>2, <3>1, <3>2
  <2>5. CASE RecordRun(t)
    <3> DEFINE w == [work[t] EXCEPT !.loaded = runs]
    <3>1. Become(t, "recordSave", w)
      BY <2>5 DEF RecordRun
    <3>2. w \in Work /\ w.op = work[t].op /\ w.launch = work[t].launch /\ w.seen = work[t].seen
      BY <1>1, <1>3 DEF Work
    <3>3. work[t].seen \in Statuses
      BY <1>1, <2>5 DEF Complete, RecordRun
    <3> HIDE DEF w
    <3>4. QED
      BY <2>1, <2>2, <3>1, <3>2, <3>3
  <2>6. QED
    BY <1>10, <2>3, <2>4, <2>5
<1>11. CASE RecordSave(t)
  <2> DEFINE r == [launch |-> work[t].launch, num |-> work[t].num, status |-> work[t].seen]
  <2>1. work[t].loaded \in Seq(Record) /\ work[t].num \in Numbers /\ work[t].seen \in Statuses
    BY <1>1, <1>3, <1>11 DEF Work, Complete, RecordSave
  <2>2. r \in Record
    BY <1>3, <2>1 DEF Record
  <2>3. runs' = Append(work[t].loaded, r)
    BY <1>11 DEF RecordSave
  <2> HIDE DEF r
  <2>4. runs' \in Seq(Record)
    BY <2>1, <2>2, <2>3
  <2>5. WorkComplete' /\ Steady(t)
    BY <1>1, <1>2, <1>4, <1>11, GoesOn DEF RecordSave
  <2>6. QED
    BY <1>1, <1>2, <1>11, <2>4, <2>5 DEF RecordSave, jenkins
<1>12. QED
  BY <1>6, <1>7, <1>8, <1>9, <1>10, <1>11 DEF LaunchRun

\* What a thread does after it has begun: its launch may get into the queue.
LEMMA StepLaunches ==
    ASSUME LaunchInv, NEW t \in Threads, Steady(t), builds' = builds, launches' = launches,
           \/ waiting' = waiting
           \/ /\ Launched(t) /\ pc[t] \notin Placed /\ pc'[t] \in Placed \cup {"idle"}
              /\ waiting' = waiting \cup {work[t].launch}
    PROVE  LaunchInv'
<1>1. \A l : HasStarted(l)' <=> HasStarted(l)
  BY DEF HasStarted
<1>2. OthersBuilds' = OthersBuilds
  BY DEF OthersBuilds
<1>3. \A s \in Threads : s # t => pc'[s] = pc[s] /\ work'[s] = work[s]
                                   /\ (Launched(s)' <=> Launched(s))
  BY DEF Steady, Launched
<1>4. \A s \in Threads : Launched(s)' =>
        /\ Launched(s) /\ work'[s].launch = work[s].launch
        /\ pc'[s] \notin Placed => pc[s] \notin Placed
  BY <1>3 DEF Steady
<1>5. \A m, s \in Threads : m # s /\ Launched(m)' /\ Launched(s)' =>
        work'[m].launch # work'[s].launch
  BY <1>4 DEF LaunchInv
<1>6. ASSUME NEW s \in Threads, Launched(s)'
      PROVE  /\ work'[s].launch <= launches'
             /\ pc'[s] \notin Placed =>
                  (work[s].launch \notin waiting /\ ~HasStarted(work[s].launch))'
  <2>1. /\ work[s].launch <= launches
        /\ pc[s] \notin Placed => work[s].launch \notin waiting /\ ~HasStarted(work[s].launch)
    BY <1>4, <1>6 DEF LaunchInv
  <2>2. ASSUME pc'[s] \notin Placed, Launched(t), pc'[t] \in Placed \cup {"idle"}
        PROVE  work[s].launch # work[t].launch
    <3>1. pc'[s] # "idle" /\ s # t
      BY <1>6, <2>2 DEF Launched
    <3>2. QED
      BY <1>4, <1>6, <2>2, <3>1 DEF LaunchInv
  <2>3. QED
    BY <1>4, <1>6, <2>1, <2>2 DEF HasStarted
<1>7. \A l \in waiting' : l <= launches' /\ ~HasStarted(l)'
  BY <1>1 DEF LaunchInv
<1>8. QED
  BY <1>2, <1>5, <1>6, <1>7 DEF LaunchInv

\* A launch that begins has a number of its own.
LEMMA BeginLaunches ==
    ASSUME LaunchInv, NEW t \in Threads, launches \in Nat, launches' \in Nat,
           UNCHANGED <<builds, waiting>>, launches <= launches', pc'[t] \notin Placed,
           \A s \in Threads : s # t => pc'[s] = pc[s] /\ work'[s] = work[s],
           Launched(t)' => work'[t].launch = launches + 1 /\ launches' = launches + 1,
           builds \in Seq(Build), waiting \subseteq Launches,
           \A s \in Threads : Launched(s) => work[s].launch \in Launches
    PROVE  LaunchInv'
<1>1. \A l : HasStarted(l)' <=> HasStarted(l)
  BY DEF HasStarted
<1>2. OthersBuilds' = OthersBuilds
  BY DEF OthersBuilds
<1>3. \A s \in Threads : s # t => (Launched(s)' <=> Launched(s))
  BY DEF Launched
<1>4. /\ \A l \in Launches : l \in Nat
      /\ \A n \in DOMAIN builds : builds[n].owner \in Nat
  <2>1. \A n \in DOMAIN builds : builds[n] \in Build
    OBVIOUS
  <2>2. QED
    BY <2>1, BoundsAssumption DEF Launches, Build, Others
<1>5. launches + 1 \notin waiting /\ ~HasStarted(launches + 1)
  BY <1>4 DEF LaunchInv, HasStarted
<1>6. ASSUME NEW s \in Threads, Launched(s)'
      PROVE  /\ work'[s].launch <= launches'
             /\ pc'[s] \notin Placed =>
                  (work[s].launch \notin waiting /\ ~HasStarted(work[s].launch))'
  <2>1. CASE s = t
    BY <1>5, <1>6, <2>1 DEF HasStarted
  <2>2. CASE s # t
    <3>1. /\ work[s].launch \in Nat /\ work[s].launch <= launches
          /\ pc[s] \notin Placed =>
               work[s].launch \notin waiting /\ ~HasStarted(work[s].launch)
      BY <1>3, <1>4, <1>6, <2>2 DEF LaunchInv
    <3>2. QED
      BY <2>2, <3>1 DEF HasStarted
  <2>3. QED
    BY <2>1, <2>2
<1>7. ASSUME NEW r \in Threads, NEW s \in Threads, r # s, Launched(r)', Launched(s)'
      PROVE  work'[r].launch # work'[s].launch
  <2>1. \A q \in Threads : q # t /\ Launched(q)' =>
          work'[q].launch \in Nat /\ work'[q].launch <= launches
    BY <1>3, <1>4 DEF LaunchInv
  <2>2. CASE r = t \/ s = t
    BY <1>7, <2>1, <2>2
  <2>3. CASE r # t /\ s # t
    BY <1>3, <1>7, <2>3 DEF LaunchInv
  <2>4. QED
    BY <2>2, <2>3
<1>8. \A l \in waiting' : l <= launches' /\ ~HasStarted(l)'
  BY <1>1, <1>4 DEF LaunchInv
<1>9. \A n \in DOMAIN builds' : builds'[n].owner <= launches'
  BY <1>4 DEF LaunchInv
<1>10. QED
  BY <1>2, <1>6, <1>7, <1>8, <1>9 DEF LaunchInv

\* Jenkins starts a build, ours or somebody else's, finishes one or drops one.
LEMMA JenkinsComplete ==
    ASSUME StateInv, Jenkins
    PROVE  StateInv'
<1>1. /\ UNCHANGED <<runs, pc, work, launches, queries, open, told, stopped>>
      /\ builds \in Seq(Build) /\ LaunchInv /\ WorkComplete
      /\ waiting \subseteq Launches /\ dropped \subseteq Launches
      /\ stopped \subseteq DOMAIN builds
  BY DEF Jenkins, StartOther, Start, Drop, Finish, StateInv
<1>2. \A t \in Threads : Launched(t)' <=> Launched(t)
  BY <1>1 DEF Launched
<1>3. \A n \in DOMAIN builds : builds[n] \in Build
  BY <1>1
<1>4. /\ builds' \in Seq(Build) /\ waiting' \subseteq Launches /\ dropped' \subseteq Launches
      /\ DOMAIN builds \subseteq DOMAIN builds'
      /\ LaunchInv'
  <2>1. ASSUME NEW l \in Launches, Drop(l)
        PROVE  /\ builds' = builds /\ waiting' \subseteq Launches /\ dropped' \subseteq Launches
               /\ LaunchInv'
    <3>1. /\ builds' = builds /\ waiting' \subseteq waiting /\ dropped' \subseteq Launches
      BY <1>1, <2>1 DEF Drop
    <3>2. (\A k : HasStarted(k)' <=> HasStarted(k)) /\ OthersBuilds' = OthersBuilds
      BY <3>1 DEF HasStarted, OthersBuilds
    <3>3. LaunchInv'
      BY <1>1, <1>2, <3>1, <3>2 DEF LaunchInv
    <3>4. QED
      BY <1>1, <3>1, <3>3
  <2>2. ASSUME NEW n \in Numbers, Finish(n)
        PROVE  /\ builds' \in Seq(Build) /\ waiting' = waiting /\ dropped' = dropped
               /\ DOMAIN builds' = DOMAIN builds /\ LaunchInv'
    <3>1. PICK result \in Results :
            /\ builds' = [builds EXCEPT ![n].status = result] /\ n \in DOMAIN builds
            /\ waiting' = waiting /\ dropped' = dropped
      BY <2>2 DEF Finish
    <3>2. /\ [builds[n] EXCEPT !.status = result] \in Build
          /\ [builds[n] EXCEPT !.status = result].owner = builds[n].owner
      BY <1>3, <3>1 DEF Build
    <3>3. builds' = [builds EXCEPT ![n] = [builds[n] EXCEPT !.status = result]]
      BY <3>1
    <3>4. /\ builds' \in Seq(Build) /\ DOMAIN builds' = DOMAIN builds
          /\ \A m \in DOMAIN builds : builds'[m].owner = builds[m].owner
      BY <1>1, <3>1, <3>2, <3>3
    <3>5. (\A k : HasStarted(k)' <=> HasStarted(k)) /\ OthersBuilds' = OthersBuilds
      BY <3>4 DEF HasStarted, OthersBuilds
    <3>6. LaunchInv'
      BY <1>1, <1>2, <3>1, <3>4, <3>5 DEF LaunchInv
    <3>7. QED
      BY <3>1, <3>4, <3>6
  <2>3. ASSUME NEW owner \in Launches \cup {Others},
               builds' = Append(builds, [owner |-> owner, status |-> "RUNNING"]),
               dropped' = dropped, waiting' \subseteq waiting, owner \notin waiting',
               IF owner = Others
                 THEN Cardinality(OthersBuilds) < MaxOthers
                 ELSE owner \in waiting
        PROVE  /\ builds' \in Seq(Build) /\ DOMAIN builds \subseteq DOMAIN builds'
               /\ LaunchInv'
    <3> DEFINE k == Len(builds) + 1
    <3>1. [owner |-> owner, status |-> "RUNNING"] \in Build
      BY DEF Build
    <3>2. /\ builds' \in Seq(Build) /\ DOMAIN builds' = DOMAIN builds \cup {k}
          /\ k \notin DOMAIN builds /\ builds'[k].owner = owner
          /\ \A m \in DOMAIN builds : builds'[m] = builds[m]
      BY <1>1, <2>3, <3>1
    <3> HIDE DEF k
    <3>3. \A l : HasStarted(l)' <=> HasStarted(l) \/ l = owner
      BY <3>2 DEF HasStarted
    <3>4. \A l \in Launches : l \in Nat /\ l # Others
      BY BoundsAssumption DEF Launches, Others
    <3>5. owner # Others => owner <= launches /\ ~HasStarted(owner)
      BY <1>1, <2>3 DEF LaunchInv
    <3>6. launches \in Nat /\ Others <= launches
      BY BoundsAssumption DEF StateInv, Others
    <3>7. Cardinality(OthersBuilds') <= MaxOthers
      <4>1. OthersBuilds' = OthersBuilds \cup (IF owner = Others THEN {k} ELSE {})
        BY <3>2 DEF OthersBuilds
      <4>2. IsFiniteSet(OthersBuilds) /\ k \notin OthersBuilds
        <5>1. {} \in SUBSET Launches /\ \A l \in {} : ~HasStarted(l)
          OBVIOUS
        <5>2. IsFiniteSet(OthersBuilds)
          BY <1>1, <5>1, BuildsBound
        <5>3. QED
          BY <3>2, <5>2 DEF OthersBuilds
      <4>3. Cardinality(OthersBuilds) \in Nat /\ Cardinality(OthersBuilds) <= MaxOthers
        BY <1>1, <4>2, FS_CardinalityType DEF LaunchInv
      <4>4. CASE owner = Others
        <5>1. Cardinality(OthersBuilds \cup {k}) = Cardinality(OthersBuilds) + 1
          BY <4>2, FS_AddElement
        <5>2. QED
          BY <2>3, <4>1, <4>3, <4>4, <5>1, BoundsAssumption
      <4>5. CASE owner # Others
        BY <4>1, <4>3, <4>5
      <4>6. QED
        BY <4>4, <4>5
    <3>8. \A m, n \in DOMAIN builds' :
            builds'[m].owner = builds'[n].owner /\ builds'[m].owner # Others => m = n
      <4>1. \A m \in DOMAIN builds : owner # Others => builds[m].owner # owner
        BY <3>5 DEF HasStarted
      <4>2. QED
        BY <1>1, <3>2, <4>1 DEF LaunchInv
    <3>9. \A n \in DOMAIN builds' : builds'[n].owner <= launches'
      BY <1>1, <3>2, <3>5, <3>6 DEF LaunchInv
    <3>10. \A l \in waiting' : l <= launches' /\ ~HasStarted(l)'
      BY <1>1, <2>3, <3>3 DEF LaunchInv
    <3>11. ASSUME NEW t \in Threads, Launched(t)'
           PROVE  /\ work'[t].launch <= launches'
                  /\ pc'[t] \notin Placed =>
                       (work[t].launch \notin waiting /\ ~HasStarted(work[t].launch))'
      <4>1. Launched(t) /\ work'[t] = work[t] /\ pc'[t] = pc[t] /\ launches' = launches
        BY <1>1, <1>2, <3>11
      <4>2. work[t].launch \in Launches
        BY <1>1, <4>1 DEF WorkComplete, Complete, Launched, Work
      <4>3. /\ work[t].launch <= launches
            /\ pc[t] \notin Placed => work[t].launch \notin waiting /\ ~HasStarted(work[t].launch)
        BY <1>1, <4>1 DEF LaunchInv
      <4>4. pc[t] \notin Placed => work[t].launch # owner
        BY <2>3, <3>4, <4>2, <4>3
      <4>5. QED
        BY <2>3, <3>2, <4>1, <4>3, <4>4 DEF HasStarted
    <3>12. \A r, s \in Threads : r # s /\ Launched(r)' /\ Launched(s)' =>
             work'[r].launch # work'[s].launch
      BY <1>1, <1>2 DEF LaunchInv
    <3>13. QED
      BY <3>2, <3>7, <3>8, <3>9, <3>10, <3>11, <3>12 DEF LaunchInv
  <2>4. CASE StartOther
    <3>1. /\ builds' = Append(builds, [owner |-> Others, status |-> "RUNNING"])
          /\ dropped' = dropped /\ waiting' = waiting
          /\ Cardinality(OthersBuilds) < MaxOthers
      BY <2>4 DEF StartOther, OthersBuilds
    <3>2. Others \notin waiting
      BY <1>1, BoundsAssumption DEF Launches, Others
    <3>3. QED
      BY <1>1, <2>3, <3>1, <3>2
  <2>5. ASSUME NEW l \in Launches, Start(l)
        PROVE  /\ builds' \in Seq(Build) /\ waiting' \subseteq waiting /\ dropped' = dropped
               /\ DOMAIN builds \subseteq DOMAIN builds' /\ LaunchInv'
    <3>1. /\ builds' = Append(builds, [owner |-> l, status |-> "RUNNING"])
          /\ dropped' = dropped /\ waiting' = waiting \ {l} /\ l \in waiting
      BY <2>5 DEF Start
    <3>2. l # Others
      BY BoundsAssumption DEF Launches, Others
    <3>3. QED
      BY <1>1, <2>3, <3>1, <3>2
  <2>6. QED
    BY <1>1, <2>1, <2>2, <2>4, <2>5 DEF Jenkins
<1>5. WorkComplete'
  BY <1>1, <1>4 DEF WorkComplete, Complete
<1>6. QED
  BY <1>1, <1>4, <1>5 DEF StateInv

\* The files and Jenkins have the types of the model, whatever threads there
\* are: nobody looks at a run he does not have, and no number is given out that
\* Jenkins cannot come to.
THEOREM TypeCorrect == Spec => []TypeOK
<1>1. Init => StateInv
  <2> SUFFICES ASSUME Init PROVE StateInv
    OBVIOUS
  <2>1. /\ << >> \in Seq(Build) /\ << >> \in Seq(Record) /\ DOMAIN builds = {}
        /\ 0 \in 0 .. MaxLaunches /\ 0 \in 0 .. MaxQueries
    BY BoundsAssumption DEF Init
  <2>2. WorkComplete
    BY DEF Init, WorkComplete, Complete, Labels
  <2>3. OthersBuilds = {} /\ \A t \in Threads : ~Launched(t)
    BY <2>1 DEF Init, OthersBuilds, Launched
  <2>4. Cardinality(OthersBuilds) <= MaxOthers
    BY <2>3, FS_EmptySet, BoundsAssumption
  <2>5. LaunchInv
    BY <2>1, <2>3, <2>4 DEF Init, LaunchInv
  <2>6. QED
    BY <2>1, <2>2, <2>5 DEF Init, StateInv
<1>2. StateInv /\ [Next]_vars => StateInv'
  <2> SUFFICES ASSUME StateInv, [Next]_vars PROVE StateInv'
    OBVIOUS
  <2>1. CASE Jenkins
    BY <2>1, JenkinsComplete
  <2>2. ASSUME NEW t \in Threads, LookAtRuns(t) PROVE StateInv'
    <3>1. LaunchInv'
      BY <2>2, LookAtRunsComplete, StepLaunches DEF StateInv
    <3>2. QED
      BY <2>2, <3>1, LookAtRunsComplete DEF StateInv
  <2>3. ASSUME NEW t \in Threads, LaunchRun(t) \/ StopBuild(t) PROVE StateInv'
    <3>1. LaunchInv' /\ waiting' \subseteq Launches
      BY <2>3, LaunchRunComplete, StepLaunches DEF StateInv
    <3>2. QED
      BY <2>3, <3>1, LaunchRunComplete DEF StateInv
  <2>4. ASSUME NEW t \in Threads, Poll(t) \/ Query(t) \/ Cancel(t) \/ Launch(t) PROVE StateInv'
    <3>1. \A s \in Threads : Launched(s) => work[s].launch \in Launches
      BY DEF StateInv, WorkComplete, Complete, Launched, Work
    <3>2. launches \in Nat /\ (launches' \in 0 .. MaxLaunches => launches' \in Nat)
      BY BoundsAssumption DEF StateInv
    <3>3. LaunchInv'
      BY <2>4, <3>1, <3>2, BeginComplete, BeginLaunches DEF StateInv
    <3>4. QED
      BY <2>4, <3>3, BeginComplete DEF StateInv
  <2>5. CASE UNCHANGED vars
    BY <2>5 DEF vars, StateInv, WorkComplete, Complete, LaunchInv, Launched, HasStarted,
                OthersBuilds
  <2>6. QED
    BY <2>1, <2>2, <2>3, <2>4, <2>5 DEF Next, Step, Proceed
<1>3. QED
  BY <1>1, <1>2, StateIsTyped, PTL DEF Spec

=============================================================================

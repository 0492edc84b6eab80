------------------------- MODULE SessionFilesProofs -------------------------
(***************************************************************************)
(* Theorems about SessionFiles, for any number of processes, calls and       *)
(* crashes.  First: the work staged in a session's checkout outlives every   *)
(* migration.                                                              *)
(*                                                                         *)
(* The file that links the checkout to the shared repository exists once,    *)
(* as `.git` or as some process's backup, and is never written again.  While *)
(* it is `.git` the entry holds the work; while a process keeps it as its    *)
(* backup, that process's new directory holds a copy; once the copy is       *)
(* `.git`, no step removes a directory with work in it.                      *)
(***************************************************************************)
EXTENDS SessionFiles, SequenceTheorems, TLAPS

Typed ==
  /\ git \in GitStates
  /\ entry \in EntryStates
  /\ tmp \in [Procs -> {"none", "half", "fresh", "work"}]
  /\ bak \in [Procs -> GitStates]
  /\ at \in [Procs -> Stages]
  /\ rest \in [Procs -> Seq(Steps)]

\* The link is somewhere.
Linked == git = "link" \/ \E p \in Procs : bak[p] = "link"

LinkOnce ==
  /\ \A p \in Procs : git = "link" => bak[p] # "link"
  /\ \A p, q \in Procs : bak[p] = "link" /\ bak[q] = "link" => p = q

\* A checkout is only made where there is none, and then the link is gone.
NewHasNoLink ==
  (git = "none" \/ \E p \in Procs : at[p] \in {"init", "checkout"}) => ~Linked

\* While the link is `.git` no migration is between its renames; and one that
\* is, with the link as its backup, is the only one.
SwapsAlone ==
  /\ git = "link" => \A p \in Procs : at[p] # "into"
  /\ \A p \in Procs : at[p] = "into" /\ bak[p] = "link"
        => git = "absent" /\ \A q \in Procs \ {p} : at[q] # "into"

\* A process about to remove the entry has removed the link.
EntryLast ==
  \A p \in Procs :
    /\ at[p] \in {"clean", "shared"} => ~Linked
    /\ at[p] \in {"into", "unbak"} /\ bak[p] = "none" => ~Linked

\* A copy made for the swap has the work of the entry.
CopyCurrent ==
  \A p \in Procs : worked /\ entry = "work" /\ at[p] = "away" => tmp[p] = "work"

\* A process that keeps the link has a copy of the work.
Swapping(p) ==
  /\ bak[p] = "link" /\ tmp[p] = "work"
  /\ at[p] \notin {"build", "copy", "away", "unbak"}
  /\ at[p] = "into" => entry = "work"

WorkSomewhere ==
  worked => \/ git = "link" /\ entry = "work"
            \/ \E p \in Procs : Swapping(p)
            \/ git = "work"
            \/ \E p \in Procs : bak[p] = "work"

Core == LinkOnce /\ NewHasNoLink /\ SwapsAlone /\ EntryLast /\ CopyCurrent /\ WorkSomewhere
IInv == Typed /\ Core

----------------------------------------------------------------------------
\* The link is never written again: where there is none, none appears.
LEMMA LinkNeverReturns ==
  ASSUME Typed, ~Linked,
         git' # "link" \/ git' = git \/ \E p \in Procs : git' = bak[p],
         \A p \in Procs : bak'[p] # "link" \/ bak'[p] = bak[p] \/ bak'[p] = git
  PROVE  ~Linked'
  BY DEF Typed, Linked

\* A planned step is one of the few that touch no git directory.
LEMMA Followed ==
  ASSUME Typed, NEW p \in Procs, NEW steps \in Seq(Steps), Follow(p, steps)
  PROVE  /\ \E x \in PlannedStages \cup {"idle"} : at' = [at EXCEPT ![p] = x]
         /\ rest' \in [Procs -> Seq(Steps)]
<1>1. CASE steps = <<>>
  <2>1. <<>> \in Seq(Steps)
    OBVIOUS
  <2>2. QED
    BY <1>1, <2>1 DEF Follow, Return, Typed
<1>2. CASE steps # <<>>
  <2>1. Head(steps) \in Steps /\ Tail(steps) \in Seq(Steps)
    BY <1>2
  <2>2. QED
    BY <1>2, <2>1 DEF Follow, Typed, Steps
<1>3. QED
  BY <1>1, <1>2

LEMMA Advanced ==
  ASSUME Typed, NEW p \in Procs, Advance(p)
  PROVE  /\ \E x \in PlannedStages \cup {"idle"} : at' = [at EXCEPT ![p] = x]
         /\ rest' \in [Procs -> Seq(Steps)]
  BY Followed DEF Advance, Typed

LEMMA Returned ==
  ASSUME Typed, NEW p \in Procs, Return(p)
  PROVE  /\ at' = [at EXCEPT ![p] = "idle"]
         /\ rest' \in [Procs -> Seq(Steps)]
<1>1. <<>> \in Seq(Steps)
  OBVIOUS
<1>2. QED
  BY <1>1 DEF Return, Typed

\* The stages in which a process is not at work on a git directory.
Elsewhere == PlannedStages \cup {"idle", "check", "remove", "forceremove", "rmtree"}

\* A step that goes on to such a stage and leaves the git directories alone
\* keeps the invariant.
LEMMA ElsewhereKeeps ==
  ASSUME IInv, NEW p \in Procs, NEW x \in Elsewhere,
         at' = [at EXCEPT ![p] = x],
         rest' \in [Procs -> Seq(Steps)],
         UNCHANGED <<git, entry, tmp, bak, worked>>
  PROVE  IInv'
<1> USE DEF IInv, Core
<1>0. /\ at[p] \in Stages /\ at'[p] = x
      /\ x \notin {"init", "checkout", "build", "copy", "away", "into", "unbak", "clean", "shared"}
      /\ \A q \in Procs : q # p => at'[q] = at[q]
  BY DEF Typed, Elsewhere, PlannedStages
<1>1. Typed'
  BY DEF Typed, Elsewhere, Stages, MigrationStages
<1>2. Linked' = Linked
  BY DEF Linked
<1>3. LinkOnce'
  BY DEF LinkOnce
<1>4. NewHasNoLink'
  BY <1>0, <1>2 DEF NewHasNoLink
<1>5. SwapsAlone'
  BY <1>0 DEF SwapsAlone
<1>6. EntryLast'
  BY <1>0, <1>2 DEF EntryLast
<1>7. CopyCurrent'
  BY <1>0 DEF CopyCurrent
<1>8. WorkSomewhere'
  BY <1>0 DEF WorkSomewhere, Swapping
<1>9. QED
  BY <1>1, <1>3, <1>4, <1>5, <1>6, <1>7, <1>8

----------------------------------------------------------------------------
\* The steps that plan: what a call has before it.
LEMMA PlansTyped ==
  /\ Created \in Seq(Steps)
  /\ \A s \in {"active", "investigating", "done", None}, pr \in PRs \cup {None},
        hub \in {"yes", "no", None} : Write(Given(s, pr, hub)) \in Seq(Steps)
  /\ \A stage \in PlannedStages : Do(stage) \in Seq(Steps)
<1>1. \A s \in {"active", "investigating", "done", None}, pr \in PRs \cup {None},
         hub \in {"yes", "no", None} : Given(s, pr, hub) \in Values
  BY DEF Given, Values
<1>2. \A v \in Values, stage \in PlannedStages : Step(stage, v) \in Steps
  BY DEF Step, Steps
<1>3. \A v \in Values : Write(v) \in Seq(Steps)
  <2> TAKE v \in Values
  <2>1. Step("read", v) \in Steps /\ Step("open", v) \in Steps /\ Step("write", v) \in Steps
    BY <1>2 DEF PlannedStages
  <2>2. QED
    BY <2>1 DEF Write
<1>4. \A stage \in PlannedStages : Do(stage) \in Seq(Steps)
  <2> TAKE stage \in PlannedStages
  <2>1. Step(stage, Nothing) \in Steps
    BY <1>1, <1>2 DEF Nothing
  <2>2. QED
    BY <2>1 DEF Do
<1>5. Created \in Seq(Steps)
  <2>1. Do("layout") \in Seq(Steps)
    BY <1>4 DEF PlannedStages
  <2>2. Write(Status("active")) \in Seq(Steps)
    BY <1>1, <1>3 DEF Status
  <2>3. QED
    BY <2>1, <2>2, ConcatProperties DEF Created
<1>6. QED
  BY <1>1, <1>3, <1>4, <1>5

(***************************************************************************)
(* No step of a write is planned without the others, and TASK.md is not      *)
(* written without session.json after it.                                  *)
(***************************************************************************)

\* Step b may come next after step a.
Fits(a, b) ==
  /\ a.stage = "read" => b = Step("open", a.with)
  /\ a.stage = "open" => b = Step("write", a.with)
  /\ a.stage = "taskopen" => b.stage = "taskwrite" /\ b.with.pr # None
  /\ a.stage = "taskwrite" => b.stage = "read" /\ b.with.pr # None
  /\ a.stage \notin {"read", "open", "taskopen"} =>
       b.stage \notin {"open", "write", "taskwrite"}

Unfinished == {"read", "open", "taskopen", "taskwrite"}
Planned(steps) ==
  /\ \A i \in 1 .. Len(steps) - 1 : Fits(steps[i], steps[i + 1])
  /\ steps # <<>> => steps[Len(steps)].stage \notin Unfinished
Starts(steps) ==
  steps # <<>> => steps[1].stage \notin {"open", "write", "taskwrite"}
Plans == {steps \in Seq(Steps) : Planned(steps) /\ Starts(steps)}

\* One plan after another.
LEMMA PlanConcat ==
  ASSUME NEW s \in Plans, NEW t \in Plans
  PROVE  s \o t \in Plans
<1>1. s \in Seq(Steps) /\ t \in Seq(Steps)
  BY DEF Plans
<1>2. /\ s \o t \in Seq(Steps) /\ Len(s \o t) = Len(s) + Len(t)
      /\ \A i \in 1 .. Len(s) : (s \o t)[i] = s[i]
      /\ \A i \in 1 .. Len(t) : (s \o t)[Len(s) + i] = t[i]
  BY <1>1, ConcatProperties
<1>3. CASE s = <<>> \/ t = <<>>
  BY <1>1, <1>3, ConcatEmptySeq
<1>4. CASE s # <<>> /\ t # <<>>
  <2>1. Len(s) \in Nat \ {0} /\ Len(t) \in Nat \ {0}
    BY <1>1, <1>4
  <2>2. Fits(s[Len(s)], t[1])
    BY <1>4 DEF Plans, Planned, Starts, Fits, Unfinished
  <2>3. ASSUME NEW i \in 1 .. Len(s) + Len(t) - 1
        PROVE  Fits((s \o t)[i], (s \o t)[i + 1])
    <3>1. CASE i < Len(s)
      BY <1>2, <2>1, <3>1 DEF Plans, Planned
    <3>2. CASE i = Len(s)
      BY <1>2, <2>1, <2>2, <3>2
    <3>3. CASE i > Len(s)
      <4>1. PICK j \in 1 .. Len(t) - 1 : i = Len(s) + j
        <5>1. i - Len(s) \in 1 .. Len(t) - 1 /\ i = Len(s) + (i - Len(s))
          BY <2>1, <3>3
        <5>2. QED
          BY <5>1
      <4>2. (s \o t)[i] = t[j] /\ (s \o t)[i + 1] = t[j + 1]
        <5>1. j \in 1 .. Len(t) /\ j + 1 \in 1 .. Len(t) /\ i + 1 = Len(s) + (j + 1)
          BY <2>1, <4>1
        <5>2. QED
          BY <1>2, <4>1, <5>1
      <4>3. QED
        BY <4>2 DEF Plans, Planned
    <3>4. QED
      BY <2>1, <3>1, <3>2, <3>3
  <2>4. (s \o t)[Len(s \o t)] = t[Len(t)] /\ (s \o t)[1] = s[1]
    BY <1>2, <2>1
  <2>5. s \o t # <<>>
    BY <1>2, <2>1
  <2>6. Planned(s \o t)
    BY <1>2, <1>4, <2>3, <2>4, <2>5 DEF Plans, Planned
  <2>7. Starts(s \o t)
    BY <1>4, <2>4, <2>5 DEF Plans, Starts
  <2>8. QED
    BY <1>2, <2>6, <2>7 DEF Plans
<1>5. QED
  BY <1>3, <1>4

\* The plans calls are made of.
LEMMA PlansMade ==
  /\ <<>> \in Plans
  /\ \A s \in {"active", "investigating", "done", None}, pr \in PRs \cup {None},
        hub \in {"yes", "no", None} : Write(Given(s, pr, hub)) \in Plans
  /\ \A stage \in {"layout", "attach", "hubdir"} : Do(stage) \in Plans
  /\ Created \in Plans
  /\ \A pr \in PRs : <<Step("taskopen", Nothing), Step("taskwrite", PullRequest(pr))>>
                       \o Write(Given("investigating", pr, None)) \in Plans
<1>1. <<>> \in Plans
  <2>1. <<>> \in Seq(Steps)
    OBVIOUS
  <2>2. QED
    BY <2>1 DEF Plans, Planned, Starts
<1>2. ASSUME NEW v, Write(v) \in Seq(Steps)
      PROVE  Write(v) \in Plans
  <2>1. /\ Len(Write(v)) = 3 /\ Write(v) # <<>>
        /\ Write(v)[1] = Step("read", v) /\ Write(v)[2] = Step("open", v)
        /\ Write(v)[3] = Step("write", v)
    BY DEF Write
  <2>2. Fits(Step("read", v), Step("open", v)) /\ Fits(Step("open", v), Step("write", v))
    BY DEF Fits, Step
  <2>3. \A i \in 1 .. 2 : i = 1 \/ i = 2
    OBVIOUS
  <2>4. Planned(Write(v))
    BY <2>1, <2>2, <2>3 DEF Planned, Unfinished, Step
  <2>5. QED
    BY <1>2, <2>1, <2>4 DEF Plans, Starts, Step
<1>3. ASSUME NEW stage \in {"layout", "attach", "hubdir"}
      PROVE  Do(stage) \in Plans
  <2>1. Do(stage) \in Seq(Steps)
    BY PlansTyped DEF PlannedStages
  <2>2. Len(Do(stage)) = 1 /\ Do(stage)[1].stage = stage
    BY DEF Do, Step
  <2>3. Planned(Do(stage))
    <3>1. \A i \in 1 .. Len(Do(stage)) - 1 : FALSE
      BY <2>2
    <3>2. Do(stage)[Len(Do(stage))].stage \notin Unfinished
      BY <2>2 DEF Unfinished
    <3>3. QED
      BY <3>1, <3>2 DEF Planned
  <2>4. Starts(Do(stage))
    BY <2>2 DEF Starts
  <2>5. QED
    BY <2>1, <2>3, <2>4 DEF Plans
<1>4. \A s \in {"active", "investigating", "done", None}, pr \in PRs \cup {None},
        hub \in {"yes", "no", None} : Write(Given(s, pr, hub)) \in Plans
  BY <1>2, PlansTyped
<1>5. Created \in Plans
  BY <1>3, <1>4, PlanConcat DEF Created, Status
<1>6. ASSUME NEW pr \in PRs
      PROVE  <<Step("taskopen", Nothing), Step("taskwrite", PullRequest(pr))>>
                       \o Write(Given("investigating", pr, None)) \in Plans
  <2> DEFINE v == Given("investigating", pr, None)
             a == Step("taskopen", Nothing)
             b == Step("taskwrite", PullRequest(pr))
             w == <<a, b>> \o Write(v)
  <2>1. v \in Values /\ PullRequest(pr) \in Values /\ Nothing \in Values
    BY DEF Given, Values, PullRequest, Nothing
  <2>2. /\ w \in Seq(Steps) /\ Len(w) = 5
        /\ w[1] = a /\ w[2] = b
        /\ w[3] = Step("read", v) /\ w[4] = Step("open", v) /\ w[5] = Step("write", v)
    <3>1. a \in Steps /\ b \in Steps
      BY <2>1 DEF Steps, Step, PlannedStages
    <3>2. Write(v) \in Seq(Steps)
      BY PlansTyped
    <3>3. /\ Len(Write(v)) = 3 /\ Write(v)[1] = Step("read", v)
          /\ Write(v)[2] = Step("open", v) /\ Write(v)[3] = Step("write", v)
      BY DEF Write
    <3> HIDE DEF a, b, v
    <3>4. <<a, b>> \in Seq(Steps) /\ Len(<<a, b>>) = 2 /\ <<a, b>>[1] = a /\ <<a, b>>[2] = b
      BY <3>1
    <3>5. /\ Len(w) = 2 + 3 /\ w \in Seq(Steps)
          /\ \A i \in 1 .. 2 : w[i] = <<a, b>>[i]
          /\ \A i \in 1 .. 3 : w[2 + i] = Write(v)[i]
      <4>1. ASSUME NEW s \in Seq(Steps), NEW t \in Seq(Steps), Len(s) = 2, Len(t) = 3
            PROVE  /\ Len(s \o t) = 2 + 3 /\ s \o t \in Seq(Steps)
                   /\ \A i \in 1 .. 2 : (s \o t)[i] = s[i]
                   /\ \A i \in 1 .. 3 : (s \o t)[2 + i] = t[i]
        <5>1. /\ s \o t \in Seq(Steps) /\ Len(s \o t) = 2 + 3
              /\ \A i \in 1 .. 2 + 3 : (s \o t)[i] = IF i <= 2 THEN s[i] ELSE t[i - 2]
          <6>1. /\ s \o t \in Seq(Steps) /\ Len(s \o t) = Len(s) + Len(t)
                /\ \A i \in 1 .. Len(s) + Len(t) :
                     (s \o t)[i] = IF i <= Len(s) THEN s[i] ELSE t[i - Len(s)]
            BY ConcatProperties
          <6>2. QED
            BY <4>1, <6>1
        <5>2. \A i \in 1 .. 2 : i \in 1 .. 2 + 3 /\ i <= 2
          OBVIOUS
        <5>3. \A i \in 1 .. 3 : 2 + i \in 1 .. 2 + 3 /\ ~(2 + i <= 2) /\ 2 + i - 2 = i
          OBVIOUS
        <5>4. \A i \in 1 .. 3 : (s \o t)[2 + i] = t[i]
          BY <5>1, <5>3
        <5>5. \A i \in 1 .. 2 : (s \o t)[i] = s[i]
          BY <5>1, <5>2
        <5>6. QED
          BY <5>1, <5>4, <5>5
      <4>2. QED
        BY <3>2, <3>3, <3>4, <4>1, Zenon
    <3>6. w[2 + 1] = Write(v)[1] /\ w[2 + 2] = Write(v)[2] /\ w[2 + 3] = Write(v)[3]
      BY <3>5
    <3>7. QED
      BY <3>3, <3>4, <3>5, <3>6
  <2>3. /\ v.pr # None /\ PullRequest(pr).pr # None
        /\ \A x : Step("read", x).with = x
    BY NoneIsNoPR DEF Given, PullRequest, Step
  <2>4. /\ Fits(a, b) /\ Fits(b, Step("read", v)) /\ Fits(Step("read", v), Step("open", v))
        /\ Fits(Step("open", v), Step("write", v))
    <3> HIDE DEF v
    <3>1. QED
      BY <2>3 DEF Fits, Step
  <2>5. a.stage = "taskopen" /\ Step("write", v).stage = "write"
    BY DEF Step
  <2> HIDE DEF a, b, v, w
  <2>6. \A i \in 1 .. 4 : Fits(w[i], w[i + 1])
    <3>1. \A i \in 1 .. 4 : i \in {1, 2, 3, 4}
      OBVIOUS
    <3>2. QED
      BY <2>2, <2>4, <3>1
  <2>7. Planned(w)
    BY <2>2, <2>5, <2>6 DEF Planned, Unfinished
  <2>8. Starts(w)
    BY <2>2, <2>5 DEF Starts
  <2>9. w \in Plans
    BY <2>2, <2>7, <2>8 DEF Plans
  <2>10. QED
    BY <2>9 DEF w, a, b, v
<1>7. QED
  BY <1>1, <1>3, <1>4, <1>5, <1>6

\* A call begins with a plan or with a migration or a prune.
LEMMA CallPlans ==
  ASSUME NEW p \in Procs, Call(p)
  PROVE  /\ Begin(p)
         /\ \/ \E steps \in Plans : Follow(p, steps)
            \/ \E x \in {"check", "remove", "forceremove"} : Goto(p, x)
<1>1. Begin(p)
  BY DEF Call, CreateSession, ScaffoldSessionFromPR, UpdateSessionStatus,
     StartSessionConversation, RecordPullRequest, MigrateLegacyWorktrees, PruneSession
<1>2. ASSUME NEW hub \in {"yes", "no"}, NEW attach \in BOOLEAN, CreateSession(p, hub, attach)
      PROVE  \E steps \in Plans : Follow(p, steps)
  <2>1. Write(StartedBy(hub)) \in Plans /\ Do("attach") \in Plans
    BY PlansMade DEF StartedBy
  <2>2. Created \o Write(StartedBy(hub)) \o (IF attach THEN Do("attach") ELSE <<>>) \in Plans
    BY <2>1, PlansMade, PlanConcat
  <2>3. QED
    BY <1>2, <2>2 DEF CreateSession
<1>3. ASSUME NEW hub \in {"yes", "no"}, NEW pr \in PRs, ScaffoldSessionFromPR(p, pr, hub)
      PROVE  \E steps \in Plans : Follow(p, steps)
  <2> DEFINE taskSteps == <<Step("taskopen", Nothing), Step("taskwrite", PullRequest(pr))>>
             first == (IF dir THEN <<>> ELSE Created)
             found == Write(Given("investigating", pr, None))
             by == Write(StartedBy(hub))
  <2>1. by \in Plans /\ Do("attach") \in Plans /\ taskSteps \o found \in Plans /\ first \in Plans
    BY PlansMade DEF StartedBy
  <2>2. taskSteps \in Seq(Steps) /\ found \in Seq(Steps)
    <3>1. Step("taskopen", Nothing) \in Steps /\ Step("taskwrite", PullRequest(pr)) \in Steps
      BY DEF Step, Steps, PlannedStages, Nothing, PullRequest, Given, Values
    <3>2. QED
      BY <3>1, PlansTyped
  <2>3. Follow(p, first \o Do("attach") \o taskSteps \o found \o by)
    BY <1>3 DEF ScaffoldSessionFromPR
  <2> HIDE DEF taskSteps, first, found, by
  <2>4. first \o Do("attach") \o taskSteps \o found \o by \in Plans
    <3>1. first \o Do("attach") \in Plans
      BY <2>1, PlanConcat
    <3>2. (first \o Do("attach")) \o (taskSteps \o found) \in Plans
      BY <2>1, <3>1, PlanConcat
    <3>3. (first \o Do("attach")) \o (taskSteps \o found)
            = (first \o Do("attach")) \o taskSteps \o found
      BY <2>2, <3>1, ConcatAssociative DEF Plans
    <3>4. QED
      BY <2>1, <3>2, <3>3, PlanConcat
  <2>5. QED
    BY <2>3, <2>4
<1>4. ASSUME UpdateSessionStatus(p)
      PROVE  \E steps \in Plans : Follow(p, steps)
  BY <1>4, PlansMade DEF UpdateSessionStatus, Status
<1>5. ASSUME NEW byHub \in BOOLEAN, StartSessionConversation(p, byHub)
      PROVE  \E steps \in Plans : Follow(p, steps)
  <2>1. Write(Status("investigating")) \in Plans /\ Do("hubdir") \in Plans
    BY PlansMade DEF Status
  <2>2. Write(Status("investigating")) \o (IF byHub THEN Do("hubdir") ELSE <<>>) \in Plans
    BY <2>1, PlansMade, PlanConcat
  <2>3. QED
    BY <1>5, <2>2 DEF StartSessionConversation
<1>6. ASSUME NEW pr \in PRs, RecordPullRequest(p, pr)
      PROVE  \E steps \in Plans : Follow(p, steps)
  BY <1>6, PlansMade DEF RecordPullRequest, PullRequest
<1>7. MigrateLegacyWorktrees(p) => Goto(p, "check")
  BY DEF MigrateLegacyWorktrees
<1>8. ASSUME NEW force \in BOOLEAN, PruneSession(p, force)
      PROVE  Goto(p, "forceremove") \/ Goto(p, "remove")
  BY <1>8 DEF PruneSession
<1>9. QED
  BY <1>1, <1>2, <1>3, <1>4, <1>5, <1>6, <1>7, <1>8 DEF Call

\* Beginning a call keeps the invariant.
LEMMA CallKeeps ==
  ASSUME IInv, NEW p \in Procs, Call(p)
  PROVE  IInv'
<1>1. Typed /\ UNCHANGED <<git, entry, tmp, bak, worked>>
  BY CallPlans DEF Begin, disk, IInv
<1>2. ASSUME NEW steps \in Plans, Follow(p, steps)
      PROVE  IInv'
  BY <1>1, <1>2, Followed, ElsewhereKeeps DEF Elsewhere, Plans
<1>3. ASSUME NEW x \in {"check", "remove", "forceremove"}, Goto(p, x)
      PROVE  IInv'
  BY <1>1, <1>3, ElsewhereKeeps DEF Elsewhere, Goto, Typed
<1>4. QED
  BY <1>2, <1>3, CallPlans

\* The steps on session.json and TASK.md, and a crash, keep it.
LEMMA FileStepKeeps ==
  ASSUME IInv, NEW p \in Procs, FileStep(p) \/ Crash(p)
  PROVE  IInv'
<1>1. UNCHANGED <<git, entry, tmp, bak, worked>>
  BY DEF FileStep, Crash, disk, history, Layout, ReadMetadata, OpenMetadata, WriteMetadata,
         HubDirectory, OpenTask, WriteTask
<1>2. Typed
  BY DEF IInv
<1>3. Write(StartedBy("yes")) \in Seq(Steps)
  BY PlansTyped DEF StartedBy
<1>4. Advance(p) \/ Return(p) \/ Follow(p, Write(StartedBy("yes")))
  BY DEF FileStep, Crash, Layout, ReadMetadata, OpenMetadata, WriteMetadata,
         HubDirectory, OpenTask, WriteTask
<1>5. /\ \E x \in Elsewhere : at' = [at EXCEPT ![p] = x]
      /\ rest' \in [Procs -> Seq(Steps)]
  BY <1>2, <1>3, <1>4, Advanced, Returned, Followed DEF Elsewhere
<1>6. QED
  BY <1>1, <1>5, ElsewhereKeeps

----------------------------------------------------------------------------
\* attach_worktree

LEMMA AttachKeeps ==
  ASSUME IInv, NEW p \in Procs, Attach(p)
  PROVE  IInv'
<1>1. Typed /\ UNCHANGED <<git, entry, tmp, bak, worked>>
  BY DEF Attach, disk, IInv
<1>2. CASE Follow(p, Created \o Do("attach") \o rest[p]) \/ Advance(p) \/ Return(p)
  <2>1. Do("attach") \in Seq(Steps) /\ rest[p] \in Seq(Steps)
    BY <1>1, PlansTyped DEF PlannedStages, Typed
  <2>2. Created \o Do("attach") \o rest[p] \in Seq(Steps)
    BY <2>1, PlansTyped, ConcatProperties
  <2>3. /\ \E x \in Elsewhere : at' = [at EXCEPT ![p] = x]
        /\ rest' \in [Procs -> Seq(Steps)]
    BY <1>1, <1>2, <2>2, Advanced, Returned, Followed DEF Elsewhere
  <2>4. QED
    BY <1>1, <2>3, ElsewhereKeeps
<1>3. CASE git = "none" /\ Goto(p, "init")
  <2>1. /\ at[p] \in Stages /\ at'[p] = "init" /\ rest' = rest
        /\ \A q \in Procs : q # p => at'[q] = at[q]
    BY <1>1, <1>3 DEF Goto, Typed
  <2>2. Typed'
    BY <1>1, <1>3 DEF Goto, Typed, Stages
  <2>3. Linked' = Linked /\ ~Linked
    BY <1>1, <1>3 DEF Linked, IInv, Core, NewHasNoLink
  <2>4. LinkOnce' /\ NewHasNoLink'
    BY <1>1, <2>3 DEF LinkOnce, NewHasNoLink, IInv, Core
  <2>5. SwapsAlone' /\ EntryLast'
    BY <1>1, <2>1, <2>3 DEF SwapsAlone, EntryLast, Linked
  <2>6. CopyCurrent'
    BY <1>1, <2>1 DEF CopyCurrent, IInv, Core
  <2>7. WorkSomewhere'
    BY <1>1, <2>1 DEF WorkSomewhere, Swapping, IInv, Core
  <2>8. QED
    BY <2>2, <2>4, <2>5, <2>6, <2>7 DEF IInv, Core
<1>4. QED
  BY <1>2, <1>3 DEF Attach

\* A new checkout is made and unmade where there is no link; what is staged in
\* another's is left alone.
LEMMA NewCheckoutKeeps ==
  ASSUME IInv, NEW p \in Procs, AttachInit(p) \/ AttachCheckout(p)
  PROVE  IInv'
<1> USE DEF IInv, Core
<1>1. UNCHANGED <<entry, tmp, bak, worked>>
  BY DEF AttachInit, AttachCheckout, history
<1>2. ~Linked
  BY DEF AttachInit, AttachCheckout, NewHasNoLink
<1>3. git' = git \/ (git \in {"none", "absent", "half"} /\ git' \in {"half", "none", "fresh"})
  BY DEF AttachInit, AttachCheckout
<1>4. /\ \E x \in {"idle", "checkout"} \cup PlannedStages : at' = [at EXCEPT ![p] = x]
      /\ rest' \in [Procs -> Seq(Steps)]
  <2>1. Goto(p, "checkout") \/ Advance(p) \/ Return(p)
    BY DEF AttachInit, AttachCheckout
  <2>2. QED
    BY <2>1, Advanced, Returned DEF Goto, Typed
<1>5. Typed'
  BY <1>1, <1>3, <1>4 DEF Typed, GitStates, Stages
<1>6. ~Linked'
  BY <1>1, <1>2, <1>3 DEF Linked
<1>7. PICK x \in {"idle", "checkout"} \cup PlannedStages : at' = [at EXCEPT ![p] = x]
  BY <1>4
<1>8. /\ at'[p] = x /\ x \notin {"build", "copy", "away", "into", "unbak", "clean", "shared"}
      /\ \A q \in Procs : q # p => at'[q] = at[q]
  BY <1>7 DEF Typed, PlannedStages
<1>9. LinkOnce' /\ NewHasNoLink' /\ SwapsAlone' /\ EntryLast'
  BY <1>6 DEF LinkOnce, NewHasNoLink, SwapsAlone, EntryLast, Linked
<1>10. CopyCurrent'
  BY <1>1, <1>8 DEF CopyCurrent
<1>11. WorkSomewhere'
  BY <1>1, <1>2, <1>3 DEF WorkSomewhere, Swapping, Linked
<1>12. QED
  BY <1>5, <1>9, <1>10, <1>11

LEMMA StageWorkKeeps ==
  ASSUME IInv, StageWork
  PROVE  IInv'
<1> USE DEF IInv, Core
<1>1. UNCHANGED <<at, rest, tmp, bak>> /\ \A p \in Procs : at[p] \notin {"away", "into"}
  BY DEF StageWork, procs, MigrationStages
<1>2. \/ git = "fresh" /\ git' = "work" /\ entry' = entry
      \/ git = "link" /\ git' = git /\ entry' = "work"
  BY DEF StageWork
<1>3. Typed'
  BY <1>1, <1>2 DEF Typed, GitStates, EntryStates
<1>4. Linked' = Linked
  BY <1>1, <1>2 DEF Linked
<1>5. LinkOnce' /\ NewHasNoLink' /\ SwapsAlone' /\ EntryLast'
  BY <1>1, <1>2, <1>4 DEF LinkOnce, NewHasNoLink, SwapsAlone, EntryLast
<1>6. CopyCurrent'
  BY <1>1 DEF CopyCurrent
<1>7. WorkSomewhere'
  BY <1>1, <1>2 DEF WorkSomewhere
<1>8. QED
  BY <1>3, <1>5, <1>6, <1>7

----------------------------------------------------------------------------
\* migrate_legacy_worktree_to_alternates

LEMMA CheckLegacyKeeps ==
  ASSUME IInv, NEW p \in Procs, CheckLegacy(p)
  PROVE  IInv'
<1> USE DEF IInv, Core
<1>1. UNCHANGED <<git, entry, tmp, bak, worked>>
  BY DEF CheckLegacy, disk, history
<1>2. CASE Advance(p)
  BY <1>1, <1>2, Advanced, ElsewhereKeeps DEF Elsewhere
<1>3. CASE git = "link" /\ Goto(p, "build")
  <2>1. /\ at'[p] = "build" /\ rest' = rest
        /\ \A q \in Procs : q # p => at'[q] = at[q]
    BY <1>3 DEF Goto, Typed
  <2>2. Typed'
    BY <1>1, <1>3 DEF Goto, Typed, Stages, MigrationStages
  <2>3. Linked' = Linked
    BY <1>1 DEF Linked
  <2>4. LinkOnce' /\ NewHasNoLink' /\ SwapsAlone' /\ EntryLast' /\ CopyCurrent'
    BY <1>1, <2>1, <2>3 DEF LinkOnce, NewHasNoLink, SwapsAlone, EntryLast, CopyCurrent
  <2>5. bak[p] # "link"
    BY <1>3 DEF LinkOnce
  <2>6. WorkSomewhere'
    BY <1>1, <2>1, <2>5 DEF WorkSomewhere, Swapping
  <2>7. QED
    BY <2>2, <2>4, <2>6
<1>4. QED
  BY <1>2, <1>3 DEF CheckLegacy

\* A process at work on its new directory does not keep the link.
LEMMA BuildKeeps ==
  ASSUME IInv, NEW p \in Procs, BuildGit(p) \/ CopyIndex(p)
  PROVE  IInv'
<1> USE DEF IInv, Core
<1>1. UNCHANGED <<entry, bak, worked>> /\ at[p] \in {"build", "copy"}
  BY DEF BuildGit, CopyIndex, history
<1>2. git' = git \/ (git = "none" /\ git' = "absent")
  BY DEF BuildGit, CopyIndex
<1>3. \E x \in {"idle", "copy", "away"}, t \in {"none", "half", "fresh", "work"} :
        /\ at' = [at EXCEPT ![p] = x] /\ tmp' = [tmp EXCEPT ![p] = t]
        /\ x = "away" /\ entry = "work" => t = "work"
  <2>1. Return(p) => at' = [at EXCEPT ![p] = "idle"]
    BY DEF Return
  <2>2. QED
    BY <2>1 DEF BuildGit, CopyIndex, Goto, Undo
<1>4. PICK x \in {"idle", "copy", "away"}, t \in {"none", "half", "fresh", "work"} :
        /\ at' = [at EXCEPT ![p] = x] /\ tmp' = [tmp EXCEPT ![p] = t]
        /\ x = "away" /\ entry = "work" => t = "work"
  BY <1>3
<1>5. /\ at'[p] = x /\ tmp'[p] = t
      /\ \A q \in Procs : q # p => at'[q] = at[q] /\ tmp'[q] = tmp[q]
  BY <1>4 DEF Typed
<1>6. rest' \in [Procs -> Seq(Steps)]
  BY Returned DEF BuildGit, CopyIndex, Goto, Typed
<1>7. Typed'
  BY <1>1, <1>2, <1>4, <1>6 DEF Typed, GitStates, Stages, MigrationStages
<1>8. Linked' = Linked
  BY <1>1, <1>2 DEF Linked
<1>9. LinkOnce'
  BY <1>1, <1>2 DEF LinkOnce
<1>10. NewHasNoLink'
  BY <1>2, <1>5, <1>8 DEF NewHasNoLink
<1>11. SwapsAlone'
  BY <1>1, <1>2, <1>5 DEF SwapsAlone
<1>12. EntryLast'
  BY <1>1, <1>5, <1>8 DEF EntryLast
<1>13. CopyCurrent'
  BY <1>1, <1>4, <1>5 DEF CopyCurrent
<1>14. \A q \in Procs : Swapping(q) => Swapping(q)'
  BY <1>1, <1>5 DEF Swapping
<1>15. WorkSomewhere'
  BY <1>1, <1>2, <1>14 DEF WorkSomewhere
<1>16. QED
  BY <1>7, <1>9, <1>10, <1>11, <1>12, <1>13, <1>15

\* The first rename: the copy is complete before the link goes.
LEMMA MoveAwayKeeps ==
  ASSUME IInv, NEW p \in Procs, MoveAway(p)
  PROVE  IInv'
<1> USE DEF IInv, Core
<1>1. UNCHANGED <<entry, worked>> /\ at[p] = "away"
  BY DEF MoveAway, history
<1>2. CASE /\ git \in {"link", "half", "fresh", "work"} /\ bak[p] \in {"none", "link"}
           /\ bak' = [bak EXCEPT ![p] = git] /\ git' = "absent"
           /\ Goto(p, "into") /\ UNCHANGED tmp
  <2>1. /\ at'[p] = "into" /\ bak'[p] = git /\ rest' = rest
        /\ \A q \in Procs : q # p => at'[q] = at[q] /\ bak'[q] = bak[q]
    BY <1>2 DEF Goto, Typed
  <2>2. Typed'
    BY <1>1, <1>2 DEF Goto, Typed, Stages, MigrationStages, GitStates
  <2>3. ~Linked => ~Linked'
    BY <1>2, <2>1 DEF Linked
  <2>4. LinkOnce'
    BY <1>2, <2>1 DEF LinkOnce
  <2>5. NewHasNoLink'
    BY <1>2, <2>1, <2>3 DEF NewHasNoLink
  <2>6. SwapsAlone'
    BY <1>2, <2>1 DEF SwapsAlone
  <2>7. EntryLast'
    BY <1>2, <2>1, <2>3 DEF EntryLast
  <2>8. CopyCurrent'
    BY <1>1, <1>2, <2>1 DEF CopyCurrent
  <2>9. CASE git = "link" /\ worked /\ entry = "work"
    <3>1. tmp[p] = "work"
      BY <1>1, <2>9 DEF CopyCurrent
    <3>2. Swapping(p)'
      BY <1>1, <1>2, <2>1, <2>9, <3>1 DEF Swapping
    <3>3. QED
      BY <2>2, <2>4, <2>5, <2>6, <2>7, <2>8, <3>2 DEF WorkSomewhere
  <2>10. CASE ~(git = "link" /\ worked /\ entry = "work")
    <3>1. \A q \in Procs : Swapping(q) => Swapping(q)'
      BY <1>1, <1>2, <2>1 DEF Swapping
    <3>2. (\E q \in Procs : bak[q] = "work") => \E q \in Procs : bak'[q] = "work"
      BY <1>2, <2>1
    <3>3. WorkSomewhere'
      BY <1>1, <2>1, <2>10, <3>1, <3>2 DEF WorkSomewhere
    <3>4. QED
      BY <2>2, <2>4, <2>5, <2>6, <2>7, <2>8, <3>3
  <2>11. QED
    BY <2>9, <2>10
<1>3. CASE Undo(p) /\ Return(p) /\ UNCHANGED <<git, bak>>
  <2>1. /\ at'[p] = "idle" /\ tmp'[p] = "none"
        /\ \A q \in Procs : q # p => at'[q] = at[q] /\ tmp'[q] = tmp[q]
    BY <1>3 DEF Return, Undo, Typed
  <2>2. Typed'
    BY <1>1, <1>3, Returned DEF Undo, Typed, Stages
  <2>3. Linked' = Linked
    BY <1>3 DEF Linked
  <2>4. LinkOnce' /\ NewHasNoLink' /\ SwapsAlone' /\ EntryLast'
    BY <1>3, <2>1, <2>3 DEF LinkOnce, NewHasNoLink, SwapsAlone, EntryLast
  <2>5. CopyCurrent'
    BY <1>1, <2>1 DEF CopyCurrent
  <2>6. \A q \in Procs : Swapping(q) => Swapping(q)'
    BY <1>1, <1>3, <2>1 DEF Swapping
  <2>7. WorkSomewhere'
    BY <1>1, <1>3, <2>6 DEF WorkSomewhere
  <2>8. QED
    BY <2>2, <2>4, <2>5, <2>7
<1>4. QED
  BY <1>2, <1>3 DEF MoveAway

\* The second rename, or the way back.
LEMMA MoveIntoKeeps ==
  ASSUME IInv, NEW p \in Procs, MoveInto(p)
  PROVE  IInv'
<1> USE DEF IInv, Core
<1>1. UNCHANGED <<entry, worked>> /\ at[p] = "into" /\ Undo(p)
  BY DEF MoveInto, history
<1>2. tmp'[p] = "none" /\ \A q \in Procs : q # p => tmp'[q] = tmp[q]
  BY <1>1 DEF Undo, Typed
<1>3. CASE git = "absent" /\ tmp[p] # "none" /\ git' = tmp[p] /\ Goto(p, "unbak") /\ UNCHANGED bak
  <2>1. /\ at'[p] = "unbak" /\ rest' = rest
        /\ \A q \in Procs : q # p => at'[q] = at[q]
    BY <1>3 DEF Goto, Typed
  <2>2. Typed'
    BY <1>1, <1>3 DEF Goto, Undo, Typed, Stages, MigrationStages, GitStates
  <2>3. git' \in {"half", "fresh", "work"} /\ Linked' = Linked
    BY <1>3 DEF Linked, Typed
  <2>4. LinkOnce' /\ NewHasNoLink' /\ EntryLast'
    BY <1>1, <1>3, <2>1, <2>3 DEF LinkOnce, NewHasNoLink, EntryLast
  <2>5. SwapsAlone'
    BY <1>1, <1>3, <2>1, <2>3 DEF SwapsAlone
  <2>6. CopyCurrent'
    BY <1>1, <1>2, <2>1 DEF CopyCurrent
  <2>7. \A q \in Procs : Swapping(q) => Swapping(q)' \/ git' = "work"
    BY <1>1, <1>2, <1>3, <2>1 DEF Swapping
  <2>8. WorkSomewhere'
    BY <1>1, <1>3, <2>7 DEF WorkSomewhere
  <2>9. QED
    BY <2>2, <2>4, <2>5, <2>6, <2>8
<1>4. CASE /\ git = "absent" /\ bak[p] # "none"
           /\ git' = bak[p] /\ bak' = [bak EXCEPT ![p] = "none"] /\ Return(p)
  <2>1. /\ at'[p] = "idle" /\ bak'[p] = "none"
        /\ \A q \in Procs : q # p => at'[q] = at[q] /\ bak'[q] = bak[q]
    BY <1>4 DEF Return, Typed
  <2>2. Typed'
    BY <1>1, <1>4, Returned DEF Undo, Typed, Stages, GitStates
  <2>3. ~Linked => ~Linked'
    BY <1>4, <2>1 DEF Linked
  <2>4. LinkOnce'
    BY <1>4, <2>1 DEF LinkOnce
  <2>5. NewHasNoLink'
    BY <1>4, <2>1, <2>3 DEF NewHasNoLink, Linked, Typed
  <2>6. SwapsAlone'
    BY <1>1, <1>4, <2>1 DEF SwapsAlone
  <2>7. EntryLast'
    BY <1>4, <2>1, <2>3 DEF EntryLast
  <2>8. CopyCurrent'
    BY <1>1, <1>2, <2>1 DEF CopyCurrent
  <2>9. \A q \in Procs : Swapping(q) => Swapping(q)' \/ (git' = "link" /\ entry' = "work")
    BY <1>1, <1>2, <1>4, <2>1 DEF Swapping
  <2>10. \A q \in Procs : bak[q] = "work" => bak'[q] = "work" \/ git' = "work"
    BY <1>4, <2>1
  <2>11. WorkSomewhere'
    BY <1>1, <1>4, <2>9, <2>10 DEF WorkSomewhere
  <2>12. QED
    BY <2>2, <2>4, <2>5, <2>6, <2>7, <2>8, <2>11
<1>5. CASE ~(git = "absent" /\ bak[p] # "none") /\ UNCHANGED <<git, bak>> /\ Return(p)
  <2>1. /\ at'[p] = "idle"
        /\ \A q \in Procs : q # p => at'[q] = at[q]
    BY <1>5 DEF Return, Typed
  <2>2. Typed'
    BY <1>1, <1>5, Returned DEF Undo, Typed, Stages
  <2>3. Linked' = Linked
    BY <1>5 DEF Linked
  <2>4. LinkOnce' /\ NewHasNoLink' /\ SwapsAlone' /\ EntryLast'
    BY <1>5, <2>1, <2>3 DEF LinkOnce, NewHasNoLink, SwapsAlone, EntryLast
  <2>5. CopyCurrent'
    BY <1>1, <1>2, <2>1 DEF CopyCurrent
  <2>6. bak[p] # "link"
    BY <1>1, <1>5 DEF SwapsAlone
  <2>7. \A q \in Procs : Swapping(q) => Swapping(q)'
    BY <1>1, <1>2, <1>5, <2>1, <2>6 DEF Swapping
  <2>8. WorkSomewhere'
    BY <1>1, <1>5, <2>7 DEF WorkSomewhere
  <2>9. QED
    BY <2>2, <2>4, <2>5, <2>8
<1>6. QED
  BY <1>3, <1>4, <1>5 DEF MoveInto

LEMMA RemoveBackupKeeps ==
  ASSUME IInv, NEW p \in Procs, RemoveBackup(p)
  PROVE  IInv'
<1> USE DEF IInv, Core
<1>1. UNCHANGED <<git, entry, tmp, worked>> /\ at[p] = "unbak"
  BY DEF RemoveBackup, history
<1>2. CASE Return(p) /\ UNCHANGED bak
  BY <1>1, <1>2, Returned, ElsewhereKeeps DEF Elsewhere
<1>3. CASE bak[p] \in {"none", "link"} /\ bak' = [bak EXCEPT ![p] = "none"] /\ Goto(p, "clean")
  <2>1. /\ at'[p] = "clean" /\ bak'[p] = "none" /\ rest' = rest
        /\ \A q \in Procs : q # p => at'[q] = at[q] /\ bak'[q] = bak[q]
    BY <1>3 DEF Goto, Typed
  <2>2. Typed'
    BY <1>1, <1>3 DEF Goto, Typed, Stages, MigrationStages, GitStates
  <2>3. ~Linked'
    <3>1. CASE bak[p] = "none"
      BY <1>1, <2>1, <3>1 DEF EntryLast, Linked
    <3>2. CASE bak[p] = "link"
      BY <1>1, <2>1, <3>2 DEF LinkOnce, Linked
    <3>3. QED
      BY <1>3, <3>1, <3>2
  <2>4. LinkOnce' /\ NewHasNoLink' /\ SwapsAlone' /\ EntryLast'
    BY <2>3 DEF LinkOnce, NewHasNoLink, SwapsAlone, EntryLast, Linked
  <2>5. CopyCurrent'
    BY <1>1, <2>1 DEF CopyCurrent
  <2>6. \A q \in Procs : Swapping(q) => Swapping(q)'
    BY <1>1, <2>1 DEF Swapping
  <2>7. \A q \in Procs : bak[q] = "work" => bak'[q] = "work"
    BY <1>3, <2>1
  <2>8. WorkSomewhere'
    BY <1>1, <2>6, <2>7 DEF WorkSomewhere
  <2>9. QED
    BY <2>2, <2>4, <2>5, <2>8
<1>4. QED
  BY <1>2, <1>3 DEF RemoveBackup

\* The entry goes when the link is gone.
LEMMA EntryGoesKeeps ==
  ASSUME IInv, NEW p \in Procs, CleanEntry(p) \/ PruneShared(p)
  PROVE  IInv'
<1> USE DEF IInv, Core
<1>1. UNCHANGED <<git, tmp, bak, worked>> /\ ~Linked
  BY DEF CleanEntry, PruneShared, history, EntryLast
<1>2. entry' = entry \/ entry' = "none"
  BY DEF CleanEntry, PruneShared, Pruned
<1>3. /\ \E x \in {"idle"} \cup PlannedStages : at' = [at EXCEPT ![p] = x]
      /\ rest' \in [Procs -> Seq(Steps)]
  BY Advanced DEF CleanEntry, PruneShared
<1>4. PICK x \in {"idle"} \cup PlannedStages : at' = [at EXCEPT ![p] = x]
  BY <1>3
<1>5. /\ at'[p] = x /\ x \notin {"away", "into"}
      /\ \A q \in Procs : q # p => at'[q] = at[q]
  BY <1>4 DEF Typed, PlannedStages
<1>6. Typed'
  BY <1>1, <1>2, <1>3 DEF Typed, EntryStates, Stages
<1>7. LinkOnce' /\ NewHasNoLink' /\ SwapsAlone' /\ EntryLast'
  BY <1>1 DEF LinkOnce, NewHasNoLink, SwapsAlone, EntryLast, Linked
<1>8. CopyCurrent'
  BY <1>1, <1>2, <1>5 DEF CopyCurrent
<1>9. WorkSomewhere'
  BY <1>1 DEF WorkSomewhere, Swapping, Linked
<1>10. QED
  BY <1>6, <1>7, <1>8, <1>9

\* Another session's prune drops an entry only when no link is `.git`.
LEMMA PruneAnotherKeeps ==
  ASSUME IInv, PruneAnother
  PROVE  IInv'
<1> USE DEF IInv, Core
<1>1. UNCHANGED <<git, tmp, bak, worked, at, rest>> /\ entry' = "none" /\ git # "link"
  BY DEF PruneAnother, Pruned, procs, history
<1>2. \A p \in Procs : at[p] \notin {"away", "into"}
  BY DEF PruneAnother, MigrationStages
<1>3. Typed'
  BY <1>1 DEF Typed, EntryStates
<1>4. Linked' = Linked
  BY <1>1 DEF Linked
<1>5. LinkOnce' /\ NewHasNoLink' /\ SwapsAlone' /\ EntryLast' /\ CopyCurrent'
  BY <1>1, <1>4 DEF LinkOnce, NewHasNoLink, SwapsAlone, EntryLast, CopyCurrent
<1>6. WorkSomewhere'
  BY <1>1, <1>2 DEF WorkSomewhere, Swapping
<1>7. QED
  BY <1>3, <1>5, <1>6

----------------------------------------------------------------------------
\* prune_session

LEMMA UnlinkKeeps ==
  ASSUME IInv, NEW p \in Procs, UnlinkWorktree(p)
  PROVE  IInv'
<1> USE DEF IInv, Core
<1>1. UNCHANGED <<tmp, bak, rest>> /\ Goto(p, "rmtree")
  BY DEF UnlinkWorktree, Goto
<1>2. CASE UNCHANGED <<git, entry, worked>>
  <2>1. rest' \in [Procs -> Seq(Steps)]
    BY <1>1 DEF Typed
  <2>2. QED
    BY <1>1, <1>2, <2>1, ElsewhereKeeps DEF Elsewhere, Goto
<1>3. CASE git = "link" /\ git' = "none" /\ entry' = "none" /\ worked' = FALSE
  <2>1. Typed'
    BY <1>1, <1>3 DEF Goto, Typed, Stages, GitStates, EntryStates
  <2>2. ~Linked'
    BY <1>1, <1>3 DEF Linked, LinkOnce
  <2>3. LinkOnce' /\ NewHasNoLink' /\ SwapsAlone' /\ EntryLast'
    BY <2>2 DEF LinkOnce, NewHasNoLink, SwapsAlone, EntryLast, Linked
  <2>4. CopyCurrent' /\ WorkSomewhere'
    BY <1>3 DEF CopyCurrent, WorkSomewhere
  <2>5. QED
    BY <2>1, <2>3, <2>4
<1>4. QED
  BY <1>2, <1>3 DEF UnlinkWorktree

LEMMA RemoveTreeKeeps ==
  ASSUME IInv, NEW p \in Procs, RemoveTree(p)
  PROVE  IInv'
<1> USE DEF IInv, Core
<1>1. /\ git' = "none" /\ worked' = FALSE /\ UNCHANGED <<entry, rest>> /\ Goto(p, "shared")
      /\ tmp' = [q \in Procs |-> "none"] /\ bak' = [q \in Procs |-> "none"]
  BY DEF RemoveTree, Goto
<1>2. Typed'
  BY <1>1 DEF Goto, Typed, Stages, GitStates
<1>3. ~Linked'
  BY <1>1 DEF Linked
<1>4. LinkOnce' /\ NewHasNoLink' /\ SwapsAlone' /\ EntryLast'
  BY <1>3 DEF LinkOnce, NewHasNoLink, SwapsAlone, EntryLast, Linked
<1>5. CopyCurrent' /\ WorkSomewhere'
  BY <1>1 DEF CopyCurrent, WorkSomewhere
<1>6. QED
  BY <1>2, <1>4, <1>5

----------------------------------------------------------------------------
LEMMA StepKeeps ==
  ASSUME IInv, [Next]_vars
  PROVE  IInv'
<1>1. ASSUME NEW p \in Procs, CheckoutStep(p)
      PROVE  IInv'
  BY <1>1, AttachKeeps, NewCheckoutKeeps, CheckLegacyKeeps, BuildKeeps, MoveAwayKeeps,
     MoveIntoKeeps, RemoveBackupKeeps, EntryGoesKeeps, UnlinkKeeps, RemoveTreeKeeps
     DEF CheckoutStep
<1>2. CASE UNCHANGED vars
  <2>1. UNCHANGED <<git, entry, tmp, bak, at, rest, worked>>
    BY <1>2 DEF vars, disk, procs, history
  <2>2. Typed' = Typed /\ LinkOnce' = LinkOnce /\ NewHasNoLink' = NewHasNoLink
    BY <2>1 DEF Typed, LinkOnce, NewHasNoLink, Linked
  <2>3. SwapsAlone' = SwapsAlone /\ EntryLast' = EntryLast
    BY <2>1 DEF SwapsAlone, EntryLast, Linked
  <2>4. CopyCurrent' = CopyCurrent /\ WorkSomewhere' = WorkSomewhere
    BY <2>1 DEF CopyCurrent, WorkSomewhere, Swapping
  <2>5. QED
    BY <2>2, <2>3, <2>4 DEF IInv, Core
<1>3. QED
  BY <1>1, <1>2, CallKeeps, FileStepKeeps, PruneAnotherKeeps, StageWorkKeeps DEF Next

LEMMA InitHolds == Init => IInv
<1> SUFFICES ASSUME Init PROVE IInv
  OBVIOUS
<1>1. Typed
  <2>1. <<>> \in Seq(Steps)
    OBVIOUS
  <2>2. QED
    BY <2>1 DEF Init, Typed, GitStates, EntryStates, Stages
<1>2. git \in {"none", "link"} /\ \A p \in Procs : bak[p] = "none" /\ at[p] = "idle"
  BY DEF Init
<1>3. LinkOnce /\ NewHasNoLink /\ SwapsAlone /\ EntryLast /\ CopyCurrent
  BY <1>2 DEF LinkOnce, NewHasNoLink, SwapsAlone, EntryLast, CopyCurrent, Linked
<1>4. WorkSomewhere
  BY DEF Init, WorkSomewhere
<1>5. QED
  BY <1>1, <1>3, <1>4 DEF IInv, Core

\* Staged work outlives migrations, however many run at once and wherever they
\* fail or die.  (migrate_legacy_worktree_to_alternates)
THEOREM WorkIsKept == Spec => []WorkKept
<1>1. IInv => WorkKept
  BY DEF IInv, Core, WorkSomewhere, WorkKept, Swapping
<1>2. QED
  BY <1>1, InitHolds, StepKeeps, PTL DEF Spec

(***************************************************************************)
(* Calls that come one by one and do not die.                              *)
(***************************************************************************)

\* No two calls are under way.
Apart == \A p, q \in Procs : ~Idle(p) /\ ~Idle(q) => p = q

\* The git directories at each stage of the migration, of a checkout being made
\* and of a prune.
CheckoutAt(p) ==
  /\ at[p] \in {"build", "copy", "away"} => git = "link" /\ entry # "none"
  /\ at[p] = "copy" => tmp[p] = "half"
  /\ at[p] \in {"away", "into"} => tmp[p] \in {"fresh", "work"}
  /\ at[p] = "into" => git = "absent" /\ entry # "none" /\ bak[p] = "link"
  /\ at[p] = "unbak" => git \in {"fresh", "work"} /\ bak[p] = "link"
  /\ at[p] \notin {"into", "unbak"} => bak[p] = "none"
  /\ at[p] = "clean" => git \in {"fresh", "work"}
  /\ at[p] = "init" => git = "none"
  /\ at[p] = "checkout" => git = "half"
  /\ at[p] = "shared" => git = "none"

\* The stages at which the entry may be out of step with the checkout.
Swap == {"into", "unbak", "clean", "shared"}

CheckoutCalm ==
  /\ Apart
  /\ \A p \in Procs : CheckoutAt(p)
  /\ git = "absent" => \E p \in Procs : at[p] = "into"
  /\ git = "half" => \E p \in Procs : at[p] = "checkout"
  /\ (\A p \in Procs : at[p] \notin Swap) => (entry # "none" <=> git = "link")
  /\ handed \notin {"absent", "half"}

CheckoutInv == crashes \in Nat /\ (Calm => CheckoutCalm)

\* A calm step is of the one process that is at work, or begins a call when
\* none is.
LEMMA CalmIsAlone ==
  ASSUME Typed, crashes \in Nat, Calm => Apart, NEW p \in Procs,
         Call(p) \/ FileStep(p) \/ CheckoutStep(p) \/ Crash(p), Calm'
  PROVE  /\ Calm /\ ~Crash(p) /\ \A q \in Procs \ {p} : at[q] = "idle"
         /\ ~Call(p) => at[p] # "idle"
         /\ Call(p) => at[p] = "idle"
<1>1. CASE Call(p)
  <2>1. Begin(p)
    BY <1>1 DEF Call, CreateSession, ScaffoldSessionFromPR, UpdateSessionStatus,
       StartSessionConversation, RecordPullRequest, MigrateLegacyWorktrees, PruneSession
  <2>2. at[p] = "idle" /\ crashes' = crashes /\ overlap' = (overlap \/ ~Alone(p))
    BY <2>1 DEF Begin, Idle
  <2>3. Calm /\ Alone(p)
    BY <2>2 DEF Calm
  <2>4. ~Crash(p)
    BY <2>2 DEF Crash, Idle
  <2>5. QED
    BY <1>1, <2>2, <2>3, <2>4 DEF Alone, Idle
<1>2. CASE Crash(p)
  <2>1. crashes' = 0 /\ crashes' = crashes + 1
    BY <1>2 DEF Crash, Calm
  <2>2. QED
    BY <2>1
<1>3. CASE FileStep(p) \/ CheckoutStep(p)
  <2>1. at[p] # "idle" /\ UNCHANGED <<overlap, crashes>>
    BY <1>3 DEF FileStep, Layout, ReadMetadata, OpenMetadata, WriteMetadata, HubDirectory,
       OpenTask, WriteTask, CheckoutStep, Attach, AttachInit, AttachCheckout, CheckLegacy,
       BuildGit, CopyIndex, MoveAway, MoveInto, RemoveBackup, CleanEntry, UnlinkWorktree,
       RemoveTree, PruneShared, history
  <2>2. Calm
    BY <2>1 DEF Calm
  <2>3. ~Crash(p)
    BY <2>1 DEF Crash
  <2>4. ~Call(p)
    BY <2>1 DEF Call, CreateSession, ScaffoldSessionFromPR, UpdateSessionStatus, Begin, Idle,
       StartSessionConversation, RecordPullRequest, MigrateLegacyWorktrees, PruneSession
  <2>5. QED
    BY <2>1, <2>2, <2>3, <2>4 DEF Apart, Idle
<1>4. QED
  BY <1>1, <1>2, <1>3

\* Steps that leave the git directories alone.
LEMMA QuietCheckout ==
  ASSUME Typed, CheckoutCalm, NEW p \in Procs, \A q \in Procs \ {p} : at[q] = "idle",
         at[p] \in Elsewhere, NEW x \in Elsewhere, at' = [at EXCEPT ![p] = x],
         UNCHANGED <<git, entry, tmp, bak>>, handed' \in {handed, git}
  PROVE  CheckoutCalm'
<1>1. \A q \in Procs : at[q] \in Elsewhere /\ at'[q] \in Elsewhere
  BY DEF Typed, Elsewhere
<1>2. Apart'
  BY DEF Typed, Apart, Idle
<1>3. \A q \in Procs : CheckoutAt(q)'
  BY <1>1 DEF CheckoutCalm, CheckoutAt, Elsewhere, PlannedStages
<1>4. git \notin {"absent", "half"} /\ (entry # "none" <=> git = "link")
  BY <1>1 DEF CheckoutCalm, Swap, Elsewhere, PlannedStages
<1>5. QED
  BY <1>2, <1>3, <1>4 DEF CheckoutCalm

\* Any other step keeps it if it leaves the stage it comes to as it should be.
LEMMA StageCheckout ==
  ASSUME Typed, CheckoutCalm, NEW p \in Procs, \A q \in Procs \ {p} : at[q] = "idle",
         NEW x, at' = [at EXCEPT ![p] = x],
         \A q \in Procs \ {p} : bak'[q] = bak[q] \/ bak'[q] = "none",
         CheckoutAt(p)',
         git' = "absent" => x = "into",
         git' = "half" => x = "checkout",
         x \notin Swap => (entry' # "none" <=> git' = "link"),
         handed' \notin {"absent", "half"}
  PROVE  CheckoutCalm'
<1>1. at'[p] = x /\ \A q \in Procs \ {p} : at'[q] = "idle"
  BY DEF Typed
<1>2. Apart'
  BY <1>1 DEF Apart, Idle
<1>3. ASSUME NEW q \in Procs \ {p} PROVE CheckoutAt(q)'
  BY <1>1 DEF CheckoutCalm, CheckoutAt
<1>4. \A q \in Procs : CheckoutAt(q)'
  BY <1>3
<1>5. QED
  BY <1>1, <1>2, <1>4 DEF CheckoutCalm

\* A call that begins, a step on the metadata.
LEMMA FilesCheckout ==
  ASSUME Typed, CheckoutCalm, NEW p \in Procs, Call(p) \/ FileStep(p),
         \A q \in Procs \ {p} : at[q] = "idle"
  PROVE  CheckoutCalm'
<1>1. CASE FileStep(p)
  <2>1. UNCHANGED <<git, entry, tmp, bak, handed>> /\ at[p] \in Elsewhere
    BY <1>1 DEF FileStep, disk, history, Layout, ReadMetadata, OpenMetadata, WriteMetadata,
       HubDirectory, OpenTask, WriteTask, Elsewhere, PlannedStages
  <2>2. Advance(p) \/ Return(p) \/ Follow(p, Write(StartedBy("yes")))
    BY <1>1 DEF FileStep, Layout, ReadMetadata, OpenMetadata, WriteMetadata,
         HubDirectory, OpenTask, WriteTask
  <2>3. Write(StartedBy("yes")) \in Seq(Steps)
    BY PlansTyped DEF StartedBy
  <2>4. PICK x \in Elsewhere : at' = [at EXCEPT ![p] = x]
    BY <2>2, <2>3, Advanced, Returned, Followed DEF Elsewhere
  <2>5. QED
    BY <2>1, <2>4, QuietCheckout
<1>2. CASE Call(p)
  <2>1. UNCHANGED <<git, entry, tmp, bak, handed>> /\ at[p] = "idle"
    BY <1>2, CallPlans DEF Begin, disk, Idle
  <2>2. PICK x \in Elsewhere : at' = [at EXCEPT ![p] = x]
    BY <1>2, CallPlans, Followed DEF Elsewhere, Plans, Goto
  <2>3. QED
    BY <2>1, <2>2, QuietCheckout DEF Elsewhere
<1>3. QED
  BY <1>1, <1>2

\* attach_worktree
LEMMA AttachCalm ==
  ASSUME Typed, CheckoutCalm, NEW p \in Procs, \A q \in Procs \ {p} : at[q] = "idle",
         Attach(p) \/ AttachInit(p) \/ AttachCheckout(p)
  PROVE  CheckoutCalm'
<1>1. CASE Attach(p)
  <2>1. /\ UNCHANGED <<git, entry, tmp, bak>> /\ at[p] = "attach"
        /\ handed' \in {handed, git}
    BY <1>1 DEF Attach, disk
  <2>2. CASE Follow(p, Created \o Do("attach") \o rest[p]) \/ Advance(p) \/ Return(p)
    <3>1. Do("attach") \in Seq(Steps) /\ rest[p] \in Seq(Steps)
      BY PlansTyped DEF PlannedStages, Typed
    <3>2. Created \o Do("attach") \o rest[p] \in Seq(Steps)
      BY <3>1, PlansTyped, ConcatProperties
    <3>3. PICK x \in Elsewhere : at' = [at EXCEPT ![p] = x]
      BY <2>2, <3>2, Advanced, Returned, Followed DEF Elsewhere
    <3>4. QED
      BY <2>1, <3>3, QuietCheckout DEF Elsewhere, PlannedStages
  <2>3. CASE git = "none" /\ Goto(p, "init") /\ handed' = handed
    <3>1. CheckoutAt(p)'
      BY <2>1, <2>3 DEF CheckoutCalm, CheckoutAt, Goto, Typed
    <3>2. \A q \in Procs : at[q] \notin Swap
      BY <2>1 DEF Swap
    <3>3. QED
      BY <2>1, <2>3, <3>1, <3>2, StageCheckout DEF Goto, CheckoutCalm
  <2>4. QED
    BY <1>1, <2>2, <2>3 DEF Attach
<1>2. CASE AttachInit(p)
  <2>1. /\ at[p] = "init" /\ git = "none" /\ bak[p] = "none"
        /\ UNCHANGED <<entry, tmp, bak, handed>>
    BY <1>2 DEF AttachInit, history, CheckoutCalm, CheckoutAt
  <2>2. entry = "none"
    BY <2>1 DEF CheckoutCalm, Swap
  <2>3. PICK x \in {"idle", "checkout"} :
          /\ at' = [at EXCEPT ![p] = x]
          /\ git' = IF x = "checkout" THEN "half" ELSE "none"
    BY <1>2, <2>1 DEF AttachInit, Goto, Return
  <2>4. at'[p] = x
    BY <2>3 DEF Typed
  <2>5. CheckoutAt(p)'
    BY <2>1, <2>3, <2>4 DEF CheckoutAt
  <2>6. QED
    BY <2>1, <2>2, <2>3, <2>5, StageCheckout DEF CheckoutCalm
<1>3. CASE AttachCheckout(p)
  <2>1. /\ at[p] = "checkout" /\ git = "half" /\ bak[p] = "none"
        /\ UNCHANGED <<entry, tmp, bak>>
    BY <1>3 DEF AttachCheckout, CheckoutCalm, CheckoutAt
  <2>2. entry = "none"
    BY <2>1 DEF CheckoutCalm, Swap
  <2>3. /\ git' \in {"fresh", "none"} /\ handed' \in {handed, git'}
        /\ Advance(p) \/ Return(p)
    BY <1>3, <2>1 DEF AttachCheckout
  <2>4. PICK x \in PlannedStages \cup {"idle"} : at' = [at EXCEPT ![p] = x]
    BY <2>3, Advanced, Returned
  <2>5. at'[p] = x
    BY <2>4 DEF Typed
  <2>6. CheckoutAt(p)'
    BY <2>1, <2>5 DEF CheckoutAt, PlannedStages
  <2>7. QED
    BY <2>1, <2>2, <2>3, <2>4, <2>6, StageCheckout DEF CheckoutCalm
<1>4. QED
  BY <1>1, <1>2, <1>3

\* migrate_legacy_worktree_to_alternates
LEMMA MigrationCalm ==
  ASSUME Typed, CheckoutCalm, NEW p \in Procs, \A q \in Procs \ {p} : at[q] = "idle",
         \/ CheckLegacy(p) \/ BuildGit(p) \/ CopyIndex(p) \/ MoveAway(p)
         \/ MoveInto(p) \/ RemoveBackup(p) \/ CleanEntry(p)
  PROVE  CheckoutCalm'
<1> USE DEF Typed
<1>0. handed' = handed /\ handed \notin {"absent", "half"} /\ CheckoutAt(p)
  BY DEF CheckLegacy, BuildGit, CopyIndex, MoveAway, MoveInto, RemoveBackup, CleanEntry,
     history, CheckoutCalm
<1>1. CASE CheckLegacy(p)
  <2>1. UNCHANGED <<git, entry, tmp, bak>> /\ at[p] = "check"
    BY <1>1 DEF CheckLegacy, disk
  <2>2. CASE Advance(p)
    BY <1>0, <2>1, <2>2, Advanced, QuietCheckout DEF Elsewhere
  <2>3. CASE git = "link" /\ entry # "none" /\ Goto(p, "build")
    <3>1. at'[p] = "build" /\ at' = [at EXCEPT ![p] = "build"]
      BY <2>3 DEF Goto
    <3>2. CheckoutAt(p)'
      BY <1>0, <2>1, <2>3, <3>1 DEF CheckoutAt
    <3>3. QED
      BY <1>0, <2>1, <2>3, <3>1, <3>2, StageCheckout
  <2>4. QED
    BY <1>1, <2>2, <2>3 DEF CheckLegacy
<1>2. CASE BuildGit(p) \/ CopyIndex(p)
  <2>1. /\ git = "link" /\ entry # "none" /\ bak[p] = "none"
        /\ UNCHANGED <<git, entry, bak>>
    BY <1>0, <1>2 DEF BuildGit, CopyIndex, CheckoutAt
  <2>2. PICK x \in {"idle", "copy", "away"} :
          /\ at' = [at EXCEPT ![p] = x]
          /\ x = "copy" => tmp'[p] = "half"
          /\ x = "away" => tmp'[p] \in {"fresh", "work"}
    BY <1>2 DEF BuildGit, CopyIndex, Goto, Return, Undo
  <2>3. at'[p] = x
    BY <2>2
  <2>4. CheckoutAt(p)'
    BY <2>1, <2>2, <2>3 DEF CheckoutAt
  <2>5. QED
    BY <1>0, <2>1, <2>2, <2>4, StageCheckout
<1>3. CASE MoveAway(p)
  <2>1. git = "link" /\ entry # "none" /\ bak[p] = "none" /\ tmp[p] \in {"fresh", "work"}
    BY <1>0, <1>3 DEF MoveAway, CheckoutAt
  <2>2. /\ bak' = [bak EXCEPT ![p] = "link"] /\ git' = "absent" /\ UNCHANGED <<tmp, entry>>
        /\ at' = [at EXCEPT ![p] = "into"]
    BY <1>3, <2>1 DEF MoveAway, Goto
  <2>3. CheckoutAt(p)'
    BY <2>1, <2>2 DEF CheckoutAt
  <2>4. QED
    BY <1>0, <2>2, <2>3, StageCheckout DEF Swap
<1>4. CASE MoveInto(p)
  <2>1. /\ git = "absent" /\ entry # "none" /\ bak[p] = "link" /\ tmp[p] \in {"fresh", "work"}
        /\ entry' = entry
    BY <1>0, <1>4 DEF MoveInto, CheckoutAt
  <2>2. \/ /\ git' = tmp[p] /\ bak' = bak /\ at' = [at EXCEPT ![p] = "unbak"]
        \/ /\ git' = "link" /\ bak' = [bak EXCEPT ![p] = "none"]
           /\ at' = [at EXCEPT ![p] = "idle"]
    BY <1>4, <2>1 DEF MoveInto, Goto, Return
  <2>3. CheckoutAt(p)'
    BY <2>1, <2>2 DEF CheckoutAt
  <2>4. QED
    BY <1>0, <2>1, <2>2, <2>3, StageCheckout DEF Swap
<1>5. CASE RemoveBackup(p)
  <2>1. git \in {"fresh", "work"} /\ bak[p] = "link" /\ UNCHANGED <<git, entry, tmp>>
    BY <1>0, <1>5 DEF RemoveBackup, CheckoutAt
  <2>2. bak' = [bak EXCEPT ![p] = "none"] /\ at' = [at EXCEPT ![p] = "clean"]
    BY <1>5, <2>1 DEF RemoveBackup, Goto
  <2>3. CheckoutAt(p)'
    BY <2>1, <2>2 DEF CheckoutAt
  <2>4. QED
    BY <1>0, <2>1, <2>2, <2>3, StageCheckout DEF Swap
<1>6. CASE CleanEntry(p)
  <2>1. /\ git \in {"fresh", "work"} /\ bak[p] = "none" /\ entry' = "none"
        /\ UNCHANGED <<git, bak, tmp>>
    BY <1>0, <1>6 DEF CleanEntry, CheckoutAt
  <2>2. PICK x \in PlannedStages \cup {"idle"} : at' = [at EXCEPT ![p] = x]
    BY <1>6, Advanced DEF CleanEntry
  <2>3. CheckoutAt(p)'
    BY <2>1, <2>2 DEF CheckoutAt, PlannedStages
  <2>4. QED
    BY <1>0, <2>1, <2>2, <2>3, StageCheckout
<1>7. QED
  BY <1>1, <1>2, <1>3, <1>4, <1>5, <1>6

\* prune_session
LEMMA PruneCalm ==
  ASSUME Typed, CheckoutCalm, NEW p \in Procs, \A q \in Procs \ {p} : at[q] = "idle",
         UnlinkWorktree(p) \/ RemoveTree(p) \/ PruneShared(p)
  PROVE  CheckoutCalm'
<1> USE DEF Typed
<1>0. handed' = handed /\ handed \notin {"absent", "half"} /\ CheckoutAt(p)
  BY DEF UnlinkWorktree, RemoveTree, PruneShared, history, CheckoutCalm
<1>1. CASE UnlinkWorktree(p)
  <2>1. /\ at[p] \in {"remove", "forceremove"} /\ bak[p] = "none"
        /\ at' = [at EXCEPT ![p] = "rmtree"] /\ UNCHANGED <<tmp, bak>>
        /\ UNCHANGED <<git, entry>> \/ (git' = "none" /\ entry' = "none")
    BY <1>0, <1>1 DEF UnlinkWorktree, Goto, CheckoutAt
  <2>2. entry # "none" <=> git = "link"
    BY <2>1 DEF CheckoutCalm, Swap
  <2>3. git \notin {"absent", "half"}
    BY <2>1 DEF CheckoutCalm
  <2>4. CheckoutAt(p)'
    BY <2>1 DEF CheckoutAt
  <2>5. QED
    BY <1>0, <2>1, <2>2, <2>3, <2>4, StageCheckout
<1>2. CASE RemoveTree(p)
  <2>1. /\ at' = [at EXCEPT ![p] = "shared"] /\ git' = "none"
        /\ bak' = [q \in Procs |-> "none"]
    BY <1>2 DEF RemoveTree, Goto
  <2>2. CheckoutAt(p)'
    BY <2>1 DEF CheckoutAt
  <2>3. QED
    BY <1>0, <2>1, <2>2, StageCheckout DEF Swap
<1>3. CASE PruneShared(p)
  <2>1. git = "none" /\ bak[p] = "none" /\ entry' = "none" /\ UNCHANGED <<git, bak, tmp>>
    BY <1>0, <1>3 DEF PruneShared, CheckoutAt, Pruned
  <2>2. PICK x \in PlannedStages \cup {"idle"} : at' = [at EXCEPT ![p] = x]
    BY <1>3, Advanced DEF PruneShared
  <2>3. CheckoutAt(p)'
    BY <2>1, <2>2 DEF CheckoutAt, PlannedStages
  <2>4. QED
    BY <1>0, <2>1, <2>2, <2>3, StageCheckout
<1>4. QED
  BY <1>1, <1>2, <1>3

\* The agent's work, and another session's prune.
LEMMA OutsideCalm ==
  ASSUME Typed, CheckoutCalm, StageWork \/ PruneAnother
  PROVE  CheckoutCalm'
<1>1. UNCHANGED <<at, tmp, bak, handed>> /\ \A p \in Procs : at[p] \notin MigrationStages
  BY DEF StageWork, PruneAnother, procs, history
<1>2. CASE StageWork
  <2>1. \/ git = "fresh" /\ git' = "work" /\ entry' = entry
        \/ git = "link" /\ git' = git /\ entry = "fresh" /\ entry' = "work"
    BY <1>2 DEF StageWork
  <2>2. \A p \in Procs : CheckoutAt(p)'
    BY <1>1, <2>1 DEF CheckoutCalm, CheckoutAt, MigrationStages
  <2>3. Apart' = Apart
    BY <1>1 DEF Apart, Idle
  <2>4. QED
    BY <1>1, <2>1, <2>2, <2>3 DEF CheckoutCalm
<1>3. CASE PruneAnother
  <2>1. git' = git /\ git # "link" /\ entry' = "none"
    BY <1>3 DEF PruneAnother, Pruned
  <2>2. \A p \in Procs : CheckoutAt(p)'
    BY <1>1, <2>1 DEF CheckoutCalm, CheckoutAt, MigrationStages
  <2>3. Apart' = Apart
    BY <1>1 DEF Apart, Idle
  <2>4. QED
    BY <1>1, <2>1, <2>2, <2>3 DEF CheckoutCalm
<1>4. QED
  BY <1>2, <1>3

LEMMA CheckoutSteps ==
  ASSUME Typed, CheckoutInv, [Next]_vars
  PROVE  CheckoutInv'
<1>1. crashes' \in Nat /\ (crashes' = 0 => crashes = 0)
  <2>1. ASSUME NEW p \in Procs, Call(p) \/ FileStep(p) \/ CheckoutStep(p)
        PROVE  crashes' = crashes
    BY <2>1, CallPlans DEF Begin, FileStep, Layout, ReadMetadata, OpenMetadata, WriteMetadata,
       HubDirectory, OpenTask, WriteTask, CheckoutStep, Attach, AttachInit, AttachCheckout,
       CheckLegacy, BuildGit, CopyIndex, MoveAway, MoveInto, RemoveBackup, CleanEntry,
       UnlinkWorktree, RemoveTree, PruneShared
  <2>2. ASSUME NEW p \in Procs, Crash(p)
        PROVE  crashes' = crashes + 1
    BY <2>2 DEF Crash
  <2>3. PruneAnother \/ StageWork \/ UNCHANGED vars => crashes' = crashes
    BY DEF PruneAnother, StageWork, vars, procs
  <2>4. crashes' = crashes \/ crashes' = crashes + 1
    BY <2>1, <2>2, <2>3 DEF Next
  <2>5. QED
    BY <2>4 DEF CheckoutInv
<1>2. ASSUME Calm', NEW p \in Procs,
             Call(p) \/ FileStep(p) \/ CheckoutStep(p) \/ Crash(p)
      PROVE  CheckoutCalm'
  <2>1. /\ Calm /\ ~Crash(p) /\ \A q \in Procs \ {p} : at[q] = "idle"
    BY <1>2, CalmIsAlone DEF CheckoutInv, CheckoutCalm
  <2>2. CheckoutCalm
    BY <2>1 DEF CheckoutInv
  <2>3. QED
    BY <1>2, <2>1, <2>2, FilesCheckout, AttachCalm, MigrationCalm, PruneCalm DEF CheckoutStep
<1>3. ASSUME Calm', StageWork \/ PruneAnother
      PROVE  CheckoutCalm'
  <2>1. Calm
    BY <1>3 DEF StageWork, PruneAnother, procs, history, Calm
  <2>2. QED
    BY <1>3, <2>1, OutsideCalm DEF CheckoutInv
<1>4. ASSUME Calm', UNCHANGED vars
      PROVE  CheckoutCalm'
  BY <1>4 DEF vars, disk, procs, history, Calm, CheckoutInv, CheckoutCalm, CheckoutAt, Apart, Idle
<1>5. QED
  BY <1>1, <1>2, <1>3, <1>4 DEF Next, CheckoutInv

LEMMA CheckoutHolds == Spec => [](IInv /\ CheckoutInv)
<1>1. Init => CheckoutInv
  <2> SUFFICES ASSUME Init PROVE CheckoutInv
    OBVIOUS
  <2>1. \A p \in Procs : at[p] = "idle" /\ bak[p] = "none" /\ CheckoutAt(p)
    <3>1. \A p \in Procs : at[p] = "idle" /\ bak[p] = "none"
      BY DEF Init
    <3>2. QED
      BY <3>1 DEF CheckoutAt
  <2>2. /\ git \in {"none", "link"} /\ (entry # "none" <=> git = "link")
        /\ handed = "none" /\ crashes = 0
    BY DEF Init
  <2>3. QED
    BY <2>1, <2>2 DEF CheckoutInv, CheckoutCalm, Apart, Idle
<1>2. IInv /\ CheckoutInv /\ [Next]_vars => CheckoutInv'
  BY CheckoutSteps DEF IInv
<1>3. QED
  BY <1>1, <1>2, InitHolds, StepKeeps, PTL DEF Spec

\* attach_worktree returns no checkout without a branch, although earlier calls
\* failed half-way, when no call died or overlapped another.
THEOREM HandedIsWhole == Spec => []HandedWhole
<1>1. CheckoutInv => HandedWhole
  BY DEF CheckoutInv, CheckoutCalm, HandedWhole
<1>2. QED
  BY <1>1, CheckoutHolds, PTL

\* Between calls the shared repository has an entry exactly for a checkout that
\* uses it, however many migrations failed, when no call died or overlapped.
THEOREM EntryIsUsed == Spec => []EntryUsed
<1>1. CheckoutInv => EntryUsed
  BY DEF CheckoutInv, CheckoutCalm, EntryUsed, Resting, Idle, Swap
<1>2. QED
  BY <1>1, CheckoutHolds, PTL

(***************************************************************************)
(* What session.json and TASK.md say of the session.                       *)
(***************************************************************************)

\* What a process does next fits what it plans after that.
PlanAt(p) ==
  /\ Planned(rest[p])
  /\ rest[p] = <<>> => at[p] \notin Unfinished
  /\ rest[p] # <<>> => Fits(Step(at[p], arg[p]), rest[p][1])
  /\ at[p] = "taskwrite" => arg[p].pr # None

PlanInv == arg \in [Procs -> Values] /\ \A p \in Procs : PlanAt(p)

\* How a step goes on.
Detours == MigrationStages \cup {"init", "checkout", "remove", "forceremove", "rmtree", "shared"}
Moves(p) ==
  \/ at[p] \notin Unfinished /\ \E steps \in Plans : Follow(p, steps)
  \/ Advance(p)
  \/ Return(p)
  \/ at[p] \notin Unfinished /\ \E x \in Detours : Goto(p, x)

\* Following steps that fit each other.
LEMMA FollowFits ==
  ASSUME Typed, PlanInv, NEW p \in Procs, NEW steps \in Seq(Steps), Planned(steps),
         steps # <<>> /\ steps[1].stage = "taskwrite" => steps[1].with.pr # None,
         Follow(p, steps)
  PROVE  /\ PlanInv'
         /\ steps = <<>> => at' = [at EXCEPT ![p] = "idle"]
         /\ steps # <<>> => /\ at' = [at EXCEPT ![p] = steps[1].stage]
                            /\ arg'[p] = steps[1].with
<1>1. CASE steps = <<>>
  <2>1. /\ at' = [at EXCEPT ![p] = "idle"] /\ arg' = [arg EXCEPT ![p] = Nothing]
        /\ rest' = [rest EXCEPT ![p] = <<>>]
    BY <1>1 DEF Follow, Return
  <2>2. Nothing \in Values
    BY DEF Nothing, Given, Values
  <2>3. PlanAt(p)'
    <3>1. at'[p] = "idle" /\ rest'[p] = <<>>
      BY <2>1 DEF Typed
    <3>2. Planned(<<>>)
      BY PlansMade DEF Plans
    <3>3. QED
      BY <3>1, <3>2 DEF PlanAt, Unfinished
  <2>4. \A q \in Procs \ {p} : PlanAt(q)'
    BY <2>1 DEF PlanInv, PlanAt, Typed
  <2>5. QED
    BY <1>1, <2>1, <2>2, <2>3, <2>4 DEF PlanInv
<1>2. CASE steps # <<>>
  <2>1. /\ at' = [at EXCEPT ![p] = steps[1].stage] /\ arg' = [arg EXCEPT ![p] = steps[1].with]
        /\ rest' = [rest EXCEPT ![p] = Tail(steps)]
    BY <1>2 DEF Follow
  <2>2. steps[1] \in Steps /\ Len(steps) \in Nat \ {0}
    BY <1>2
  <2>3. steps[1].with \in Values /\ Step(steps[1].stage, steps[1].with) = steps[1]
    BY <2>2 DEF Steps, Step
  <2>4. /\ Tail(steps) \in Seq(Steps) /\ Len(Tail(steps)) = Len(steps) - 1
        /\ \A i \in 1 .. Len(steps) - 1 : Tail(steps)[i] = steps[i + 1]
    BY <1>2, HeadTailProperties
  <2>5. Planned(Tail(steps))
    <3>1. ASSUME NEW i \in 1 .. Len(Tail(steps)) - 1
          PROVE  Fits(Tail(steps)[i], Tail(steps)[i + 1])
      <4>1. /\ i \in 1 .. Len(steps) - 1 /\ i + 1 \in 1 .. Len(steps) - 1
        BY <2>2, <2>4
      <4>2. Tail(steps)[i] = steps[i + 1] /\ Tail(steps)[i + 1] = steps[(i + 1) + 1]
        BY <2>4, <4>1
      <4>3. QED
        BY <4>1, <4>2 DEF Planned
    <3>2. ASSUME Tail(steps) # <<>>
          PROVE  Tail(steps)[Len(Tail(steps))] = steps[Len(steps)]
      <4>1. Len(Tail(steps)) # 0
        BY <2>4, <3>2
      <4>2. Len(steps) - 1 \in 1 .. Len(steps) - 1
        BY <2>2, <2>4, <4>1
      <4>3. QED
        BY <2>2, <2>4, <4>2
    <3>3. QED
      BY <1>2, <3>1, <3>2 DEF Planned
  <2>6. PlanAt(p)'
    <3>1. at'[p] = steps[1].stage /\ arg'[p] = steps[1].with /\ rest'[p] = Tail(steps)
      BY <2>1 DEF Typed, PlanInv
    <3>2. CASE Tail(steps) = <<>>
      <4>1. Len(steps) = 1
        <5>1. Len(Tail(steps)) = 0
          BY <2>4, <3>2, EmptySeq
        <5>2. Len(steps) - 1 = 0 /\ Len(steps) \in Nat
          BY <2>2, <2>4, <5>1
        <5>3. QED
          BY <5>2
      <4>2. steps[1].stage \notin Unfinished
        BY <1>2, <4>1 DEF Planned
      <4>3. QED
        BY <1>2, <2>5, <3>1, <3>2, <4>2 DEF PlanAt, Unfinished
    <3>3. CASE Tail(steps) # <<>>
      <4>1. 1 \in 1 .. Len(steps) - 1
        <5>1. Len(Tail(steps)) # 0
          BY <2>4, <3>3
        <5>2. QED
          BY <2>2, <2>4, <5>1
      <4>2. Fits(steps[1], steps[1 + 1]) /\ Tail(steps)[1] = steps[1 + 1]
        BY <2>4, <4>1 DEF Planned
      <4>3. QED
        BY <1>2, <2>3, <2>5, <3>1, <3>3, <4>2 DEF PlanAt
    <3>4. QED
      BY <3>2, <3>3
  <2>7. \A q \in Procs \ {p} : PlanAt(q)'
    BY <2>1 DEF PlanInv, PlanAt, Typed
  <2>8. QED
    BY <1>2, <2>1, <2>2, <2>3, <2>6, <2>7 DEF PlanInv, Typed
<1>3. QED
  BY <1>1, <1>2

\* Every step of a process goes on in one of these ways.
LEMMA StepMoves ==
  ASSUME Typed, PlanInv, NEW p \in Procs,
         Call(p) \/ FileStep(p) \/ CheckoutStep(p) \/ Crash(p)
  PROVE  Moves(p)
<1>1. CASE Call(p)
  <2>1. at[p] \notin Unfinished
    BY <1>1, CallPlans DEF Begin, Idle, Unfinished
  <2>2. QED
    BY <1>1, <2>1, CallPlans DEF Moves, Detours, MigrationStages
<1>2. CASE FileStep(p)
  <2>1. Advance(p) \/ Return(p) \/ (at[p] = "hubdir" /\ Follow(p, Write(StartedBy("yes"))))
    BY <1>2 DEF FileStep, Layout, ReadMetadata, OpenMetadata, WriteMetadata,
         HubDirectory, OpenTask, WriteTask
  <2>2. Write(StartedBy("yes")) \in Plans
    BY PlansMade DEF StartedBy
  <2>3. QED
    BY <2>1, <2>2 DEF Moves, Unfinished
<1>3. CASE Attach(p)
  <2>1. at[p] = "attach"
    BY <1>3 DEF Attach
  <2>2. rest[p] \in Plans
    BY <2>1 DEF Plans, Typed, PlanInv, PlanAt, Starts, Fits, Step
  <2>3. Do("attach") \in Plans /\ Created \in Plans
    BY PlansMade
  <2>4. Created \o Do("attach") \o rest[p] \in Plans
    BY <2>2, <2>3, PlanConcat
  <2>5. \/ Follow(p, Created \o Do("attach") \o rest[p])
        \/ Advance(p) \/ Return(p) \/ Goto(p, "init")
    BY <1>3 DEF Attach
  <2>6. QED
    BY <2>1, <2>4, <2>5 DEF Moves, Unfinished, Detours
<1>4. CASE CheckoutStep(p) /\ ~Attach(p)
  <2>1. \/ Advance(p) \/ Return(p)
        \/ at[p] \in Detours /\ \E x \in Detours : Goto(p, x)
    BY <1>4 DEF CheckoutStep, AttachInit, AttachCheckout, CheckLegacy, BuildGit, CopyIndex,
       MoveAway, MoveInto, RemoveBackup, CleanEntry, UnlinkWorktree, RemoveTree, PruneShared,
       Detours, MigrationStages
  <2>2. QED
    BY <2>1 DEF Moves, Detours, MigrationStages, Unfinished
<1>5. CASE Crash(p)
  BY <1>5 DEF Crash, Moves
<1>6. QED
  BY <1>1, <1>2, <1>3, <1>4, <1>5

\* Where such a step goes.
LEMMA MovesFit ==
  ASSUME Typed, PlanInv, NEW p \in Procs, Moves(p)
  PROVE  /\ PlanInv'
         /\ at' = [at EXCEPT ![p] = at'[p]]
         /\ Return(p) => at'[p] = "idle"
         /\ at[p] \notin {"read", "open", "taskopen"}
              => at'[p] \notin {"open", "write", "taskwrite"}
         /\ Advance(p) /\ at[p] = "read" => at'[p] = "open" /\ arg'[p] = arg[p]
         /\ Advance(p) /\ at[p] = "open" => at'[p] = "write" /\ arg'[p] = arg[p]
         /\ Advance(p) /\ at[p] = "taskopen" => at'[p] = "taskwrite"
         /\ Advance(p) /\ at[p] = "taskwrite" => at'[p] = "read" /\ arg'[p].pr # None
<1>0. Return(p) => at'[p] = "idle"
  BY DEF Return, Typed
<1>1. CASE at[p] \notin Unfinished /\ ~Advance(p) /\ \E steps \in Plans : Follow(p, steps)
  <2>1. PICK steps \in Plans : Follow(p, steps)
    BY <1>1
  <2>2. /\ steps \in Seq(Steps) /\ Planned(steps)
        /\ steps # <<>> => steps[1].stage \notin {"open", "write", "taskwrite"}
    BY DEF Plans, Starts
  <2>3. /\ PlanInv'
        /\ steps = <<>> => at' = [at EXCEPT ![p] = "idle"]
        /\ steps # <<>> => at' = [at EXCEPT ![p] = steps[1].stage]
    BY <2>1, <2>2, FollowFits
  <2>4. QED
    BY <1>0, <1>1, <2>2, <2>3 DEF Typed, Unfinished
<1>2. CASE Advance(p)
  <2>1. rest[p] \in Seq(Steps) /\ PlanAt(p) /\ Planned(rest[p])
    BY DEF Typed, PlanInv, PlanAt
  <2>2. rest[p] # <<>> /\ rest[p][1].stage = "taskwrite" => rest[p][1].with.pr # None
    BY <2>1 DEF PlanAt, Fits, Step
  <2>3. /\ PlanInv'
        /\ rest[p] = <<>> => at' = [at EXCEPT ![p] = "idle"]
        /\ rest[p] # <<>> => /\ at' = [at EXCEPT ![p] = rest[p][1].stage]
                             /\ arg'[p] = rest[p][1].with
    BY <1>2, <2>1, <2>2, FollowFits DEF Advance
  <2>4. CASE rest[p] = <<>>
    BY <1>0, <2>1, <2>3, <2>4 DEF PlanAt, Typed, Unfinished
  <2>5. CASE rest[p] # <<>>
    <3>1. at'[p] = rest[p][1].stage
      BY <2>3, <2>5 DEF Typed
    <3>2. QED
      BY <1>0, <2>1, <2>3, <2>5, <3>1 DEF PlanAt, Fits, Step, Typed
  <2>6. QED
    BY <2>4, <2>5
<1>3. CASE Return(p) /\ ~Advance(p)
  <2>1. Follow(p, <<>>) /\ <<>> \in Seq(Steps) /\ Planned(<<>>)
    BY <1>3, PlansMade DEF Follow, Plans
  <2>2. PlanInv' /\ at' = [at EXCEPT ![p] = "idle"]
    BY <2>1, FollowFits
  <2>3. QED
    BY <1>3, <2>2 DEF Typed
<1>4. CASE at[p] \notin Unfinished /\ ~Advance(p) /\ \E x \in Detours : Goto(p, x)
  <2>1. PICK x \in Detours : at' = [at EXCEPT ![p] = x] /\ UNCHANGED <<arg, rest>>
    BY <1>4 DEF Goto
  <2>2. x \notin Unfinished \cup {"write"} /\ at'[p] = x
    BY <2>1 DEF Detours, MigrationStages, Unfinished, Typed
  <2>3. PlanAt(p)'
    BY <1>4, <2>1, <2>2 DEF PlanInv, PlanAt, Fits, Step, Unfinished
  <2>4. \A q \in Procs \ {p} : PlanAt(q)'
    BY <2>1 DEF PlanInv, PlanAt, Typed
  <2>5. QED
    BY <1>0, <1>4, <2>1, <2>2, <2>3, <2>4 DEF PlanInv, Unfinished
<1>5. QED
  BY <1>1, <1>2, <1>3, <1>4 DEF Moves

(***************************************************************************)
(* The metadata: what the files say is what the calls said last.            *)
(***************************************************************************)

Datum == {"active", "investigating", "done", "yes", "no", None} \cup PRs
Meta == [Keys -> Datum]

MetaTyped ==
  /\ stored \in Meta /\ told \in Meta
  /\ seen \in [Procs -> Meta]
  /\ task \in PRs \cup {None}

\* session.json says what the calls said last.
Kept ==
  /\ stored.hub = told.hub /\ stored.pr = told.pr
  /\ told.status # None => stored.status = told.status

\* What the one process at work has read; and TASK.md tells of a pull request
\* that session.json has, or is about to have.
MetadataCalm ==
  /\ \A p \in Procs :
       /\ at[p] = "open" => dir /\ seen[p] = Read
       /\ at[p] = "write" => /\ dir /\ stored = Nothing
                             /\ seen[p].hub = told.hub
                             /\ told.status # None => seen[p].status = told.status
                             /\ arg[p].pr = None => seen[p].pr = told.pr
  /\ (\A p \in Procs : at[p] # "write") => Kept
  /\ task # None => \/ told.pr # None
                    \/ \E p \in Procs : at[p] \in {"read", "open", "write"} /\ arg[p].pr # None

MetaInv ==
  /\ MetaTyped /\ PlanInv
  /\ scaffolded => task # None
  /\ Calm => MetadataCalm

\* Metadata has every key.
LEMMA GivenMeta ==
  ASSUME NEW v \in Values
  PROVE  v \in Meta /\ v.pr \in PRs \cup {None}
  BY DEF Values, Meta, Keys, Datum

LEMMA NothingMeta ==
  Nothing \in Meta /\ Nothing.status = None /\ Nothing.pr = None /\ Nothing.hub = None
  BY DEF Nothing, Given, Meta, Keys, Datum

LEMMA MergeMeta ==
  ASSUME NEW m \in Meta, NEW v \in Meta
  PROVE  /\ Merge(m, v) \in Meta
         /\ Merge(m, v).status = IF v.status # None THEN v.status ELSE m.status
         /\ Merge(m, v).pr = IF v.pr # None THEN v.pr ELSE m.pr
         /\ Merge(m, v).hub = IF v.hub # None THEN v.hub ELSE m.hub
  BY DEF Merge, Meta, Keys

LEMMA ReadMeta ==
  ASSUME stored \in Meta, task \in PRs \cup {None}
  PROVE  /\ Read \in Meta
         /\ Read.status = IF stored.status = None THEN "active" ELSE stored.status
         /\ Read.pr = IF stored.pr = None THEN task ELSE stored.pr
         /\ Read.hub = stored.hub
  BY DEF Read, Meta, Keys, Datum

\* Steps that write none of it, by the only process at work.
LEMMA QuietMeta ==
  ASSUME Typed, MetadataCalm, NEW p \in Procs, \A q \in Procs \ {p} : at[q] = "idle",
         at[p] \notin {"read", "open", "write"},
         NEW x, x \notin {"open", "write"}, at' = [at EXCEPT ![p] = x],
         UNCHANGED <<stored, told>>,
         task' # None => task' = task \/ (x = "read" /\ arg'[p].pr # None)
  PROVE  MetadataCalm'
<1>1. /\ \A q \in Procs : at[q] \notin {"read", "open", "write"}
      /\ \A q \in Procs : at'[q] \notin {"open", "write"}
      /\ at'[p] = x
  BY DEF Typed
<1>2. Kept'
  BY <1>1 DEF MetadataCalm, Kept
<1>3. task' # None => \/ told'.pr # None
                      \/ at'[p] \in {"read", "open", "write"} /\ arg'[p].pr # None
  BY <1>1 DEF MetadataCalm
<1>4. QED
  BY <1>1, <1>2, <1>3 DEF MetadataCalm

\* The types, and TASK.md.
LEMMA MetaTypes ==
  ASSUME MetaTyped, PlanInv, scaffolded => task # None, NEW p \in Procs,
         Call(p) \/ FileStep(p) \/ CheckoutStep(p) \/ Crash(p)
  PROVE  MetaTyped' /\ (scaffolded' => task' # None)
<1>0. Nothing \in Meta /\ arg[p] \in Meta /\ arg[p].pr \in PRs \cup {None}
  BY NothingMeta, GivenMeta DEF PlanInv
<1>1. CASE ReadMetadata(p)
  <2>1. Read \in Meta
    BY ReadMeta DEF MetaTyped
  <2>2. QED
    BY <1>1, <2>1 DEF ReadMetadata, MetaTyped, history
<1>2. CASE WriteMetadata(p)
  <2>1. Merge(seen[p], arg[p]) \in Meta /\ Merge(told, arg[p]) \in Meta
    BY <1>0, MergeMeta DEF MetaTyped
  <2>2. stored' \in Meta /\ told' \in Meta /\ seen' = [seen EXCEPT ![p] = Nothing]
    BY <1>0, <1>2, <2>1 DEF WriteMetadata, MetaTyped
  <2>3. UNCHANGED <<task, scaffolded>>
    BY <1>2 DEF WriteMetadata
  <2>4. QED
    BY <1>0, <2>2, <2>3 DEF MetaTyped
<1>3. CASE OpenMetadata(p) \/ RemoveTree(p) \/ Crash(p)
  <2>1. /\ stored' \in {stored, Nothing} /\ told' \in {told, Nothing} /\ task' \in {task, None}
        /\ seen' \in {seen, [seen EXCEPT ![p] = Nothing]}
        /\ scaffolded' => scaffolded /\ task' = task
    BY <1>3 DEF OpenMetadata, RemoveTree, Crash, disk, history
  <2>2. QED
    BY <1>0, <2>1 DEF MetaTyped
<1>4. CASE OpenTask(p) \/ WriteTask(p)
  <2>1. at[p] = "taskwrite" => arg[p].pr # None
    BY DEF PlanInv, PlanAt
  <2>2. /\ task' \in {task, None, arg[p].pr} /\ UNCHANGED <<stored, told, seen>>
        /\ scaffolded' => task' # None
    BY <1>4, <2>1 DEF OpenTask, WriteTask
  <2>3. QED
    BY <1>0, <2>2 DEF MetaTyped
<1>5. CASE \/ Call(p) \/ Layout(p) \/ HubDirectory(p)
           \/ (CheckoutStep(p) /\ ~RemoveTree(p))
  <2>1. UNCHANGED <<stored, told, seen, task, scaffolded>>
    BY <1>5, CallPlans DEF Begin, Layout, HubDirectory, CheckoutStep, Attach, AttachInit,
       AttachCheckout, CheckLegacy, BuildGit, CopyIndex, MoveAway, MoveInto, RemoveBackup,
       CleanEntry, UnlinkWorktree, PruneShared, disk, history
  <2>2. QED
    BY <2>1 DEF MetaTyped
<1>6. QED
  BY <1>1, <1>2, <1>3, <1>4, <1>5 DEF FileStep, CheckoutStep

\* The steps of the one process at work.
LEMMA MetaCalmStep ==
  ASSUME Typed, MetaTyped, PlanInv, MetadataCalm, NEW p \in Procs,
         \A q \in Procs \ {p} : at[q] = "idle", ~Crash(p),
         Call(p) \/ FileStep(p) \/ CheckoutStep(p)
  PROVE  MetadataCalm'
<1>0. Moves(p)
  BY StepMoves
<1> DEFINE x == at'[p]
<1>1. /\ at' = [at EXCEPT ![p] = x]
      /\ at[p] \notin {"read", "open", "taskopen"} => x \notin {"open", "write", "taskwrite"}
      /\ Advance(p) /\ at[p] = "read" => x = "open" /\ arg'[p] = arg[p]
      /\ Advance(p) /\ at[p] = "open" => x = "write" /\ arg'[p] = arg[p]
      /\ Advance(p) /\ at[p] = "taskopen" => x = "taskwrite"
      /\ Advance(p) /\ at[p] = "taskwrite" => x = "read" /\ arg'[p].pr # None
      /\ Return(p) => x = "idle"
  BY <1>0, MovesFit
<1> HIDE DEF x
<1>2. at'[p] = x /\ \A q \in Procs \ {p} : at'[q] = "idle" /\ at[q] = "idle"
  BY <1>1 DEF Typed
<1>3. arg[p] \in Meta /\ seen[p] \in Meta /\ stored \in Meta /\ told \in Meta
  BY GivenMeta DEF PlanInv, MetaTyped
<1>4. CASE ReadMetadata(p)
  <2>1. /\ at[p] = "read" /\ dir' = TRUE /\ UNCHANGED <<stored, told, task>>
        /\ seen'[p] = Read /\ Advance(p)
    BY <1>4 DEF ReadMetadata, history, MetaTyped
  <2>2. Read' = Read
    BY <2>1 DEF Read
  <2>3. x = "open" /\ arg'[p] = arg[p]
    BY <1>1, <2>1
  <2>4. Kept'
    BY <1>2, <2>1 DEF MetadataCalm, Kept
  <2>5. task' # None => told'.pr # None \/ arg'[p].pr # None
    BY <1>2, <2>1, <2>3 DEF MetadataCalm
  <2>6. QED
    BY <1>2, <2>1, <2>2, <2>3, <2>4, <2>5 DEF MetadataCalm
<1>5. CASE OpenMetadata(p)
  <2>1. at[p] = "open" /\ dir /\ seen[p] = Read
    BY <1>5 DEF OpenMetadata, MetadataCalm
  <2>2. /\ stored' = Nothing /\ Advance(p) /\ UNCHANGED <<dir, seen, told, task>>
    BY <1>5, <2>1 DEF OpenMetadata, history
  <2>3. x = "write" /\ arg'[p] = arg[p]
    BY <1>1, <2>1, <2>2
  <2>4. Kept
    BY <1>2, <2>1 DEF MetadataCalm
  <2>5. task # None => told.pr # None \/ arg[p].pr # None
    BY <1>2, <2>1 DEF MetadataCalm
  <2>6. /\ Read.status = IF stored.status = None THEN "active" ELSE stored.status
        /\ Read.pr = IF stored.pr = None THEN task ELSE stored.pr
        /\ Read.hub = stored.hub
    BY ReadMeta DEF MetaTyped
  <2>7. /\ seen[p].hub = told.hub
        /\ told.status # None => seen[p].status = told.status
        /\ arg[p].pr = None => seen[p].pr = told.pr
    BY <2>1, <2>4, <2>5, <2>6 DEF Kept
  <2>8. QED
    BY <1>2, <2>1, <2>2, <2>3, <2>5, <2>7 DEF MetadataCalm
<1>6. CASE WriteMetadata(p)
  <2> DEFINE mine == Merge(seen[p], arg[p])
  <2>1. /\ at[p] = "write" /\ dir /\ stored = Nothing
        /\ seen[p].hub = told.hub
        /\ told.status # None => seen[p].status = told.status
        /\ arg[p].pr = None => seen[p].pr = told.pr
    BY <1>6 DEF WriteMetadata, MetadataCalm
  <2>2. /\ stored' = mine /\ told' = Merge(told, arg[p]) /\ UNCHANGED <<task, dir>>
    BY <1>6, <2>1 DEF WriteMetadata
  <2>3. x \notin {"open", "write"}
    BY <1>1, <2>1
  <2>4. /\ mine.status = IF arg[p].status # None THEN arg[p].status ELSE seen[p].status
        /\ mine.pr = IF arg[p].pr # None THEN arg[p].pr ELSE seen[p].pr
        /\ mine.hub = IF arg[p].hub # None THEN arg[p].hub ELSE seen[p].hub
        /\ told'.status = IF arg[p].status # None THEN arg[p].status ELSE told.status
        /\ told'.pr = IF arg[p].pr # None THEN arg[p].pr ELSE told.pr
        /\ told'.hub = IF arg[p].hub # None THEN arg[p].hub ELSE told.hub
    BY <1>3, <2>2, MergeMeta
  <2> HIDE DEF mine
  <2>5. Kept'
    BY <2>1, <2>2, <2>4 DEF Kept
  <2>6. task # None => told.pr # None \/ arg[p].pr # None
    BY <1>2, <2>1 DEF MetadataCalm
  <2>7. QED
    BY <1>2, <2>2, <2>3, <2>4, <2>5, <2>6 DEF MetadataCalm
<1>7. CASE OpenTask(p)
  <2>1. /\ at[p] = "taskopen" /\ UNCHANGED <<stored, told>> /\ task' \in {task, None}
        /\ Advance(p) \/ Return(p)
    BY <1>7 DEF OpenTask
  <2>2. x \notin {"open", "write"}
    BY <1>1, <2>1
  <2>3. QED
    BY <1>1, <2>1, <2>2, QuietMeta
<1>8. CASE WriteTask(p)
  <2>1. /\ at[p] = "taskwrite" /\ UNCHANGED <<stored, told>> /\ Advance(p)
    BY <1>8 DEF WriteTask
  <2>2. x = "read" /\ arg'[p].pr # None
    BY <1>1, <2>1
  <2>3. QED
    BY <1>1, <2>1, <2>2, QuietMeta
<1>9. CASE RemoveTree(p)
  <2>1. at[p] = "rmtree" /\ stored' = Nothing /\ told' = Nothing /\ task' = None
    BY <1>9 DEF RemoveTree
  <2>2. x \notin {"open", "write"}
    BY <1>1, <2>1
  <2>3. Kept'
    BY <2>1, NothingMeta DEF Kept
  <2>4. QED
    BY <1>2, <2>1, <2>2, <2>3 DEF MetadataCalm
<1>10. CASE \/ Call(p) \/ Layout(p) \/ HubDirectory(p)
            \/ (CheckoutStep(p) /\ ~RemoveTree(p))
  <2>1. /\ UNCHANGED <<stored, told, task>>
        /\ at[p] \notin {"read", "open", "write", "taskopen"}
    BY <1>10, CallPlans DEF Begin, Idle, Layout, HubDirectory, CheckoutStep, Attach, AttachInit,
       AttachCheckout, CheckLegacy, BuildGit, CopyIndex, MoveAway, MoveInto, RemoveBackup,
       CleanEntry, UnlinkWorktree, PruneShared, disk, history
  <2>2. QED
    BY <1>1, <2>1, QuietMeta
<1>11. QED
  BY <1>4, <1>5, <1>6, <1>7, <1>8, <1>9, <1>10 DEF FileStep, CheckoutStep

LEMMA MetaSteps ==
  ASSUME Typed, CheckoutInv, MetaInv, [Next]_vars
  PROVE  MetaInv'
<1>1. ASSUME NEW p \in Procs, Call(p) \/ FileStep(p) \/ CheckoutStep(p) \/ Crash(p)
      PROVE  MetaInv'
  <2>1. PlanInv'
    BY <1>1, StepMoves, MovesFit DEF MetaInv
  <2>2. MetaTyped' /\ (scaffolded' => task' # None)
    BY <1>1, MetaTypes DEF MetaInv
  <2>3. ASSUME Calm' PROVE MetadataCalm'
    <3>1. Calm /\ ~Crash(p) /\ \A q \in Procs \ {p} : at[q] = "idle"
      BY <1>1, <2>3, CalmIsAlone DEF CheckoutInv, CheckoutCalm
    <3>2. QED
      BY <1>1, <3>1, MetaCalmStep DEF MetaInv
  <2>4. QED
    BY <2>1, <2>2, <2>3 DEF MetaInv
<1>2. CASE PruneAnother \/ StageWork \/ UNCHANGED vars
  <2>1. UNCHANGED <<dir, stored, task, procs, overlap, told, scaffolded>>
    BY <1>2 DEF PruneAnother, StageWork, vars, disk, history
  <2>2. UNCHANGED <<at, arg, rest, seen, crashes>>
    BY <2>1 DEF procs
  <2>3. PlanInv'
    BY <2>2 DEF MetaInv, PlanInv, PlanAt
  <2>4. MetaTyped' /\ (scaffolded' => task' # None)
    BY <2>1, <2>2 DEF MetaInv, MetaTyped
  <2>5. Calm' => Calm
    BY <2>1, <2>2 DEF Calm
  <2>6. MetadataCalm => MetadataCalm'
    BY <2>1, <2>2 DEF MetadataCalm, Kept, Read
  <2>7. QED
    BY <2>3, <2>4, <2>5, <2>6 DEF MetaInv
<1>3. QED
  BY <1>1, <1>2 DEF Next

LEMMA InitMeta == Init => MetaInv
<1> SUFFICES ASSUME Init PROVE MetaInv
  OBVIOUS
<1>1. /\ stored = Nothing /\ told = Nothing /\ task = None /\ scaffolded = FALSE
      /\ arg = [p \in Procs |-> Nothing] /\ seen = [p \in Procs |-> Nothing]
      /\ \A p \in Procs : at[p] = "idle" /\ rest[p] = <<>>
  BY DEF Init
<1>2. Nothing \in Values
  BY DEF Nothing, Given, Values
<1>3. MetaTyped
  BY <1>1, NothingMeta DEF MetaTyped
<1>4. PlanInv
  <2>1. Planned(<<>>)
    BY PlansMade DEF Plans
  <2>2. QED
    BY <1>1, <1>2, <2>1 DEF PlanInv, PlanAt, Unfinished
<1>5. MetadataCalm
  BY <1>1, NothingMeta DEF MetadataCalm, Kept
<1>6. QED
  BY <1>1, <1>3, <1>4, <1>5 DEF MetaInv

\* A session scaffolded from a pull request is known by one, whatever processes
\* overlap or die; and after calls that came one by one the files say what
\* those said last.
THEOREM SessionIsRemembered == Spec => []SessionRemembered
<1>1. MetaInv => SessionRemembered
  <2> SUFFICES ASSUME MetaInv PROVE SessionRemembered
    OBVIOUS
  <2>1. /\ Read.status = IF stored.status = None THEN "active" ELSE stored.status
        /\ Read.pr = IF stored.pr = None THEN task ELSE stored.pr
        /\ Read.hub = stored.hub
    BY ReadMeta DEF MetaInv, MetaTyped
  <2>2. scaffolded => Read.pr # None
    BY <2>1 DEF MetaInv
  <2>3. ASSUME Calm, Resting
        PROVE  /\ \A k \in Keys \ {"status"} : Read[k] = told[k]
               /\ told.status # None => Read.status = told.status
    <3>1. Kept /\ (task # None => told.pr # None)
      BY <2>3 DEF MetaInv, MetadataCalm, Resting, Idle
    <3>2. \A k \in Keys \ {"status"} : k = "pr" \/ k = "hub"
      BY DEF Keys
    <3>3. Read.pr = told.pr /\ Read.hub = told.hub
      BY <2>1, <3>1 DEF Kept
    <3>4. told.status # None => Read.status = told.status
      BY <2>1, <3>1 DEF Kept
    <3>5. QED
      BY <3>2, <3>3, <3>4
  <2>4. QED
    BY <2>2, <2>3 DEF SessionRemembered
<1>2. IInv /\ CheckoutInv /\ MetaInv /\ [Next]_vars => MetaInv'
  BY MetaSteps DEF IInv
<1>3. QED
  BY <1>1, <1>2, InitMeta, CheckoutHolds, PTL DEF Spec
=============================================================================

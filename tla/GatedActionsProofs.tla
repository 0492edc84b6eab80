------------------------- MODULE GatedActionsProofs -------------------------
(***************************************************************************)
(* Theorems about GatedActions, for any set of processes, tickets, sessions *)
(* and targets, and any bounds.                                            *)
(***************************************************************************)
EXTENDS GatedActions, TLAPS

(***************************************************************************)
(* Facts about one entry of the dictionary.                                *)
(***************************************************************************)

\* An absent entry is not a ticket.
LEMMA AbsentIsNoRequest == Absent \notin Request /\ Unissued \notin Binding
  BY DEF Absent, Request, Unissued, Binding, Actions

\* What the methods of ApprovalManager make of an entry is an entry, with the
\* binding it had.
LEMMA EntriesTyped ==
  ASSUME NEW r \in Request, NEW b \in Binding, NEW now \in Nat
  PROVE  /\ NewRequest(b, now) \in Request
         /\ ApprovedBy(r, now) \in Request /\ ApprovedBy(r, now).binding = r.binding
         /\ ApprovedBy(r, now).stamp = now
         /\ RejectedBy(r, now) \in Request /\ RejectedBy(r, now).binding = r.binding
         /\ RejectedBy(r, now).stamp = now /\ RejectedBy(r, now).status = "REJECTED"
         /\ ConsumedOf(r) \in Request /\ ConsumedOf(r).binding = r.binding
         /\ ConsumedOf(r).stamp = r.stamp /\ ConsumedOf(r).status = r.status
         /\ ConsumedOf(r).consumed
  BY DEF Request, NewRequest, ApprovedBy, RejectedBy, ConsumedOf

\* The empty dictionary is well formed and backed by anything.
LEMMA EmptyFileOK == EmptyFile \in Requests /\ BackedIn(EmptyFile)
  BY DEF EmptyFile, Requests, BackedIn

(***************************************************************************)
(* Dictionaries stay backed while the history only grows.                  *)
(***************************************************************************)

\* A dictionary that is backed stays backed when the clock advances.
LEMMA BackedLater ==
  ASSUME NEW reqs \in Requests, BackedIn(reqs), TypeOK,
         clock' \in Nat, clock <= clock', issued' = issued, grants' = grants
  PROVE  BackedIn(reqs)'
  <1>1. \A t \in Tickets : reqs[t] # Absent => reqs[t].stamp \in Nat
    BY DEF Requests, Request
  <1> QED
    BY <1>1 DEF BackedIn, TypeOK

(***************************************************************************)
(* Each step preserves the invariant.                                      *)
(***************************************************************************)

LEMMA InitAuth == Init => AuthInv
  <1> SUFFICES ASSUME Init PROVE AuthInv
    OBVIOUS
  <1>1. TypeOK
    BY EmptyFileOK, BoundsAssumption DEF Init, TypeOK, Labels, NoTask
  <1>2. Ready /\ Backed /\ ExecutionAuthorized
    BY EmptyFileOK DEF Init, Ready, Backed, ExecutionAuthorized
  <1> QED BY <1>1, <1>2 DEF AuthInv

\* A call arrives: nothing but the process itself changes.
LEMMA ReceiveAuth ==
  ASSUME AuthInv, NEW p \in Procs, Receive(p)
  PROVE  AuthInv'
  <1>1. PICK action, verdicts :
           /\ action \in Actions
           /\ Arrive(p, action, verdicts)
           /\ action \in {"release_push", "bloom_release"} => "open" \notin verdicts
    BY DEF Receive, GitPush, ReleasePush, LaunchCI, CreatePullRequest, EditPullRequest,
           BloomRelease, Actions
  <1>2. PICK b \in Binding, t \in Tickets \cup {NoTicket}, dry \in BOOLEAN, verdict \in verdicts :
           /\ b.action = action
           /\ task' = [task EXCEPT ![p] =
                        [id |-> calls + 1, binding |-> b, ticket |-> t, dry |-> dry,
                         gated |-> verdict = "gated", at |-> clock]]
           /\ pc' = [pc EXCEPT ![p] = StartOf(verdict)]
    BY <1>1 DEF Arrive
  <1>3. StartOf(verdict) \in {"check", "execute", "log"}
    BY DEF StartOf
  <1>4. /\ StartOf(verdict) = "execute" => verdict = "open"
        /\ StartOf(verdict) = "check" => verdict = "gated"
    BY DEF StartOf
  <1>5. pc[p] = "idle" /\ calls < MaxCalls /\ calls' = calls + 1
        /\ UNCHANGED <<file, buf, clock, issued, grants, answers, redeemed, effected, audited>>
    BY <1>1 DEF Arrive, history
  <1>6. task'[p] \in Call
    BY <1>2, <1>5, BoundsAssumption DEF AuthInv, TypeOK, Call
  <1>7. TypeOK'
    BY <1>2, <1>3, <1>5, <1>6, BoundsAssumption DEF AuthInv, TypeOK, Labels
  <1>8. Ready'
    BY <1>2, <1>3, <1>4, <1>5 DEF AuthInv, TypeOK, Ready
  <1>9. Backed'
    BY <1>5 DEF AuthInv, Backed, BackedIn
  <1>10. ExecutionAuthorized'
    <2> SUFFICES ASSUME NEW q \in Procs, pc'[q] = "execute"
                 PROVE  /\ task'[q].gated => Covered(task[q])'
                        /\ task'[q].binding.action \in {"release_push", "bloom_release"}
                              => task'[q].gated
      BY DEF ExecutionAuthorized
    <2>1. CASE q = p
      BY <2>1, <1>1, <1>2, <1>4 DEF AuthInv, TypeOK
    <2>2. CASE q # p
      <3>1. task'[q] = task[q] /\ pc'[q] = pc[q]
        BY <2>2, <1>2 DEF AuthInv, TypeOK
      <3> QED
        BY <3>1, <1>5 DEF AuthInv, ExecutionAuthorized, Covered
    <2> QED BY <2>1, <2>2
  <1> QED BY <1>7, <1>8, <1>9, <1>10 DEF AuthInv

\* The check of the ticket is where authority is established.
LEMMA CheckAuth ==
  ASSUME AuthInv, NEW p \in Procs, Check(p)
  PROVE  AuthInv'
  <1> DEFINE c == task[p]
             ok == IsApproved(file, c.ticket, c.binding, clock, c.dry)
  <1>1. /\ pc[p] = "check"
        /\ pc' = [pc EXCEPT ![p] = IF ok THEN "execute" ELSE "create"]
        /\ task' = [task EXCEPT ![p].at = clock]
        /\ UNCHANGED <<file, buf, clock, calls, issued, grants, answers, redeemed, effected, audited>>
    BY DEF Check, history
  <1>2. c \in Call
    BY <1>1 DEF AuthInv, TypeOK
  <1>3. task'[p] = [c EXCEPT !.at = clock]
    BY <1>1 DEF AuthInv, TypeOK
  <1>4. task'[p] \in Call /\ task'[p].ticket = c.ticket /\ task'[p].binding = c.binding
        /\ task'[p].at = clock
    BY <1>2, <1>3 DEF Call, AuthInv, TypeOK
  <1>5. \A q \in Procs \ {p} : task'[q] = task[q] /\ pc'[q] = pc[q]
    BY <1>1 DEF AuthInv, TypeOK
  <1>6. pc'[p] = IF ok THEN "execute" ELSE "create"
    BY <1>1 DEF AuthInv, TypeOK
  <1>7. TypeOK'
    BY <1>1, <1>4, <1>5, <1>6 DEF AuthInv, TypeOK, Labels
  <1>8. Ready'
    BY <1>1, <1>5, <1>6 DEF AuthInv, Ready
  <1>9. Backed'
    BY <1>1 DEF AuthInv, Backed, BackedIn
  <1>10. ok => Covered(task[p])'
    <2> SUFFICES ASSUME ok PROVE Covered(task[p])'
      OBVIOUS
    <2>1. c.ticket \in Tickets
      BY <1>2 DEF IsApproved, Call
    <2> DEFINE r == file[c.ticket]
    <2>2. r \in Request
      BY <2>1 DEF IsApproved, AuthInv, TypeOK, Requests, Absent
    <2>3. r # Absent
      BY <2>2, AbsentIsNoRequest
    <2>4. PICK i \in DOMAIN grants[c.ticket] : grants[c.ticket][i] = r.stamp
      BY <2>1, <2>3 DEF IsApproved, AuthInv, Backed, BackedIn
    <2>5. issued[c.ticket] = r.binding /\ r.stamp <= clock
      BY <2>1, <2>3 DEF AuthInv, Backed, BackedIn
    <2>6. Matches(r, c.binding) /\ clock <= r.stamp + TTL
      BY DEF IsApproved, Fresh
    <2>7. Covered([c EXCEPT !.at = clock])
      BY <1>2, <2>1, <2>4, <2>5, <2>6 DEF Covered, Matches, Call
    <2> QED
      BY <2>7, <1>1, <1>3 DEF Covered
  <1>11. c.gated
    BY <1>1 DEF AuthInv, Ready
  <1>12. ExecutionAuthorized'
    <2> SUFFICES ASSUME NEW q \in Procs, pc'[q] = "execute"
                 PROVE  /\ task'[q].gated => Covered(task[q])'
                        /\ task'[q].binding.action \in {"release_push", "bloom_release"}
                              => task'[q].gated
      BY DEF ExecutionAuthorized
    <2>1. CASE q = p
      BY <2>1, <1>2, <1>3, <1>6, <1>10, <1>11 DEF Call
    <2>2. CASE q # p
      BY <2>2, <1>1, <1>5 DEF AuthInv, ExecutionAuthorized, Covered
    <2> QED BY <2>1, <2>2
  <1> QED BY <1>7, <1>8, <1>9, <1>12 DEF AuthInv

\* create_request draws a ticket nobody holds and loads the file.
LEMMA CreateLoadAuth ==
  ASSUME AuthInv, NEW p \in Procs, CreateLoad(p)
  PROVE  AuthInv'
  <1>1. PICK t \in Tickets :
           /\ issued[t] = Unissued
           /\ issued' = [issued EXCEPT ![t] = task[p].binding]
           /\ task' = [task EXCEPT ![p].ticket = t, ![p].at = clock]
    BY DEF CreateLoad
  <1>2. /\ pc[p] = "create"
        /\ buf' = [buf EXCEPT ![p] = file]
        /\ pc' = [pc EXCEPT ![p] = "createSave"]
        /\ UNCHANGED <<file, clock, calls, grants, answers, redeemed, effected, audited>>
    BY DEF CreateLoad
  <1>3. task[p] \in Call
    BY <1>2 DEF AuthInv, TypeOK
  <1>4. /\ task'[p] \in Call /\ task'[p].ticket = t
        /\ task'[p].binding = task[p].binding /\ task'[p].at = clock
    BY <1>1, <1>3 DEF Call, AuthInv, TypeOK
  <1>5. \A q \in Procs \ {p} : task'[q] = task[q] /\ pc'[q] = pc[q] /\ buf'[q] = buf[q]
    BY <1>1, <1>2 DEF AuthInv, TypeOK
  <1>6. pc'[p] = "createSave" /\ buf'[p] = file
    BY <1>2 DEF AuthInv, TypeOK
  <1>7. TypeOK'
    <2>1. /\ pc' \in [Procs -> Labels] /\ buf' \in [Procs -> Requests]
          /\ task' \in [Procs -> Call \cup Answer \cup {NoTask}]
      BY <1>1, <1>2, <1>3, <1>4, <1>5, <1>6 DEF AuthInv, TypeOK, Labels
    <2>2. task[p].binding \in Binding
      BY <1>3 DEF Call
    <2>3. issued' \in [Tickets -> Binding \cup {Unissued}]
      BY <1>1, <2>2 DEF AuthInv, TypeOK
    <2>4. \A q \in Procs : /\ pc'[q] = "idle" => task'[q] = NoTask
                           /\ pc'[q] = "decideSave" => task'[q] \in Answer
                           /\ pc'[q] \notin {"idle", "decideSave"} => task'[q] \in Call
      <3> TAKE q \in Procs
      <3>1. CASE q = p
        BY <1>4, <1>6, <3>1
      <3>2. CASE q # p
        BY <1>5, <3>2 DEF AuthInv, TypeOK
      <3> QED BY <3>1, <3>2
    <2> QED BY <1>2, <2>1, <2>3, <2>4 DEF AuthInv, TypeOK
  <1>8. \A u \in Tickets : issued[u] # Unissued => issued'[u] = issued[u]
    BY <1>1 DEF AuthInv, TypeOK
  <1>9. Ready'
    <2>1. \A q \in Procs : pc[q] = "createSave" => issued[task[q].ticket] # Unissued
      BY AbsentIsNoRequest DEF AuthInv, TypeOK, Ready, Call
    <2>2. issued'[t] = task[p].binding
      BY <1>1 DEF AuthInv, TypeOK
    <2> QED
      BY <1>2, <1>4, <1>5, <1>6, <1>8, <2>1, <2>2 DEF AuthInv, TypeOK, Ready
  <1>10. ASSUME NEW reqs \in Requests, BackedIn(reqs),
                NEW u \in Tickets, reqs[u] # Absent
         PROVE  /\ issued'[u] = reqs[u].binding
                /\ reqs[u].stamp <= clock'
                /\ reqs[u].status = "APPROVED" =>
                      \E i \in DOMAIN grants'[u] : grants'[u][i] = reqs[u].stamp
    <2>1. issued[u] # Unissued
      BY <1>10, AbsentIsNoRequest DEF BackedIn, Requests, Request
    <2> QED
      BY <1>2, <1>8, <1>10, <2>1 DEF BackedIn
  <1>11. Backed'
    <2>1. file \in Requests /\ BackedIn(file)
          /\ \A q \in Procs : buf[q] \in Requests /\ BackedIn(buf[q])
      BY DEF AuthInv, TypeOK, Backed
    <2>2. BackedIn(file)'
      BY <1>2, <1>10, <2>1 DEF BackedIn
    <2>3. ASSUME NEW q \in Procs PROVE BackedIn(buf[q])'
      <3>1. buf'[q] \in Requests /\ BackedIn(buf'[q])
        BY <1>5, <1>6, <2>1
      <3> QED
        BY <1>10, <3>1 DEF BackedIn
    <2> QED BY <2>2, <2>3 DEF Backed
  <1>12. ExecutionAuthorized'
    <2> SUFFICES ASSUME NEW q \in Procs, pc'[q] = "execute"
                 PROVE  /\ task'[q].gated => Covered(task[q])'
                        /\ task'[q].binding.action \in {"release_push", "bloom_release"}
                              => task'[q].gated
      BY DEF ExecutionAuthorized
    <2>1. q # p /\ task'[q] = task[q] /\ pc[q] = "execute"
      BY <1>5, <1>6
    <2>2. task[q].gated => Covered(task[q])
      BY <2>1 DEF AuthInv, ExecutionAuthorized
    <2>3. task[q].gated => issued[task[q].ticket] # Unissued
      <3>1. task[q] \in Call
        BY <2>1 DEF AuthInv, TypeOK
      <3>2. task[q].binding.action \in Actions
        BY <3>1 DEF Call, Binding
      <3> QED
        BY <2>2, <3>2 DEF Covered, Unissued, Actions
    <2> QED
      BY <1>2, <1>8, <2>1, <2>2, <2>3 DEF AuthInv, ExecutionAuthorized, Covered
  <1> QED BY <1>7, <1>9, <1>11, <1>12 DEF AuthInv

\* Writing back a backed copy with an entry changed leaves the file backed
\* when the new entry is; the other processes are not concerned.
LEMMA SaveBacked ==
  ASSUME AuthInv, NEW p \in Procs, NEW t \in Tickets, NEW r \in Request,
         file' = [buf[p] EXCEPT ![t] = r],
         buf' = [buf EXCEPT ![p] = EmptyFile],
         clock' = clock, issued' = issued,
         \A u \in Tickets : \A i \in DOMAIN grants[u] :
             i \in DOMAIN grants'[u] /\ grants'[u][i] = grants[u][i],
         issued[t] = r.binding, r.stamp <= clock,
         r.status = "APPROVED" => \E i \in DOMAIN grants'[t] : grants'[t][i] = r.stamp
  PROVE  Backed' /\ file' \in Requests /\ buf' \in [Procs -> Requests]
  <1>1. buf[p] \in Requests
    BY DEF AuthInv, TypeOK
  <1>2. file' \in Requests /\ file'[t] = r /\ \A u \in Tickets \ {t} : file'[u] = buf[p][u]
    BY <1>1 DEF Requests
  <1>3. buf' \in [Procs -> Requests] /\ buf'[p] = EmptyFile
        /\ \A q \in Procs \ {p} : buf'[q] = buf[q]
    BY EmptyFileOK DEF AuthInv, TypeOK
  <1>4. ASSUME NEW reqs \in Requests, BackedIn(reqs) PROVE BackedIn(reqs)'
    BY <1>4 DEF BackedIn
  <1>5. BackedIn(file)'
    <2>1. BackedIn(buf[p])
      BY DEF AuthInv, Backed
    <2> SUFFICES ASSUME NEW u \in Tickets, file'[u] # Absent
                 PROVE  /\ issued'[u] = file'[u].binding
                        /\ file'[u].stamp <= clock'
                        /\ file'[u].status = "APPROVED" =>
                              \E i \in DOMAIN grants'[u] : grants'[u][i] = file'[u].stamp
      BY DEF BackedIn
    <2> QED BY <1>2, <2>1 DEF BackedIn
  <1>6. \A q \in Procs : BackedIn(buf[q])'
    <2>1. BackedIn(EmptyFile)'
      BY DEF BackedIn, EmptyFile
    <2>2. \A q \in Procs : buf[q] \in Requests /\ BackedIn(buf[q])
      BY DEF AuthInv, TypeOK, Backed
    <2>3. ASSUME NEW q \in Procs \ {p} PROVE BackedIn(buf[q])'
      BY <1>3, <1>4, <2>2 DEF BackedIn
    <2>4. BackedIn(buf[p])'
      BY <1>3, <2>1 DEF BackedIn
    <2> QED BY <2>3, <2>4
  <1> QED BY <1>2, <1>3, <1>5, <1>6 DEF Backed

LEMMA CreateSaveAuth ==
  ASSUME AuthInv, NEW p \in Procs, CreateSave(p)
  PROVE  AuthInv'
  <1> DEFINE t == task[p].ticket
             r == NewRequest(task[p].binding, task[p].at)
  <1>1. /\ pc[p] = "createSave"
        /\ file' = [buf[p] EXCEPT ![t] = r]
        /\ buf' = [buf EXCEPT ![p] = EmptyFile]
        /\ pc' = [pc EXCEPT ![p] = "log"]
        /\ UNCHANGED <<task, clock, calls, issued, grants, answers, redeemed, effected, audited>>
    BY DEF CreateSave, history
  <1>2. task[p] \in Call /\ t \in Tickets /\ issued[t] = task[p].binding /\ task[p].at <= clock
    BY <1>1 DEF AuthInv, TypeOK, Ready
  <1>3. r \in Request /\ r.binding = task[p].binding /\ r.stamp = task[p].at /\ r.status = "PENDING"
    BY <1>2 DEF Call, NewRequest, Request
  <1>4. Backed' /\ file' \in Requests /\ buf' \in [Procs -> Requests]
    BY <1>1, <1>2, <1>3, SaveBacked
  <1>5. pc'[p] = "log" /\ \A q \in Procs \ {p} : pc'[q] = pc[q] /\ buf'[q] = buf[q]
    BY <1>1 DEF AuthInv, TypeOK
  <1>6. TypeOK'
    BY <1>1, <1>2, <1>4, <1>5 DEF AuthInv, TypeOK, Labels
  <1>7. Ready'
    BY <1>1, <1>5 DEF AuthInv, Ready
  <1>8. ExecutionAuthorized'
    BY <1>1, <1>5 DEF AuthInv, ExecutionAuthorized, Covered
  <1> QED BY <1>4, <1>6, <1>7, <1>8 DEF AuthInv

\* A step of p that leaves the file and the copies alone, and does not bring
\* p to the remote action.
LEMMA QuietAuth ==
  ASSUME AuthInv, NEW p \in Procs,
         UNCHANGED <<file, clock, issued, grants>>,
         buf' \in [Procs -> Requests],
         \A q \in Procs : buf'[q] = buf[q] \/ buf'[q] \in {file, EmptyFile},
         \A q \in Procs \ {p} : task'[q] = task[q] /\ pc'[q] = pc[q] /\ buf'[q] = buf[q],
         pc'[p] # "execute"
  PROVE  Backed' /\ ExecutionAuthorized'
  <1>1. \A q \in Procs : BackedIn(buf'[q])
    BY EmptyFileOK DEF AuthInv, Backed
  <1>2. Backed'
    BY <1>1 DEF AuthInv, Backed, BackedIn
  <1>3. ExecutionAuthorized'
    BY DEF AuthInv, ExecutionAuthorized, Covered
  <1> QED BY <1>2, <1>3

\* The remote action is reported to have succeeded.
LEMMA SucceedAuth ==
  ASSUME AuthInv, NEW p \in Procs, Succeed(p)
  PROVE  AuthInv'
  <1> DEFINE c == task[p]
             spent == c.gated /\ ~c.dry
  <1>1. /\ pc[p] = "execute"
        /\ pc' = [pc EXCEPT ![p] = IF spent THEN "consume" ELSE "log"]
        /\ effected' = IF c.dry THEN effected ELSE effected \cup {c.id}
        /\ redeemed' = IF spent THEN [redeemed EXCEPT ![c.ticket] = @ + 1] ELSE redeemed
        /\ UNCHANGED <<file, buf, task, clock, calls, issued, grants, answers, audited>>
    BY DEF Succeed
  <1>2. c \in Call
    BY <1>1 DEF AuthInv, TypeOK
  <1>3. c.gated => c.ticket \in Tickets
    BY <1>1 DEF AuthInv, ExecutionAuthorized, Covered
  <1>4. pc'[p] = (IF spent THEN "consume" ELSE "log") /\ \A q \in Procs \ {p} : pc'[q] = pc[q]
    BY <1>1 DEF AuthInv, TypeOK
  <1>5. c.id \in 1 .. MaxCalls
    BY <1>2 DEF Call
  <1>6. redeemed' \in [Tickets -> Nat]
    BY <1>1, <1>3 DEF AuthInv, TypeOK
  <1>7. TypeOK'
    BY <1>1, <1>2, <1>4, <1>5, <1>6 DEF AuthInv, TypeOK, Labels
  <1>8. Ready'
    BY <1>1, <1>3, <1>4 DEF AuthInv, Ready
  <1>9. Backed' /\ ExecutionAuthorized'
    BY <1>1, <1>4, QuietAuth DEF AuthInv, TypeOK
  <1> QED BY <1>7, <1>8, <1>9 DEF AuthInv

\* It is reported to have failed, or launch_ci raises.
LEMMA FailAuth ==
  ASSUME AuthInv, NEW p \in Procs, Fail(p) \/ Raise(p)
  PROVE  AuthInv'
  <1>1. /\ pc[p] = "execute"
        /\ effected' = effected \/ effected' = effected \cup {task[p].id}
        /\ \/ pc' = [pc EXCEPT ![p] = "log"] /\ task' = task
           \/ pc' = [pc EXCEPT ![p] = "idle"] /\ task' = [task EXCEPT ![p] = NoTask]
        /\ UNCHANGED <<file, buf, clock, calls, issued, grants, answers, redeemed, audited>>
    <2>1. CASE Fail(p)
      <3>1. task' = [task EXCEPT ![p] = task[p]]
        BY <2>1 DEF Fail, FailTo
      <3>2. task' = task
        BY <3>1 DEF AuthInv, TypeOK
      <3> QED BY <2>1, <3>2 DEF Fail, FailTo
    <2>2. CASE Raise(p)
      BY <2>2 DEF Raise
    <2> QED BY <2>1, <2>2
  <1>2. task[p] \in Call /\ task[p].id \in 1 .. MaxCalls
    BY <1>1 DEF AuthInv, TypeOK, Call
  <1>3. /\ \/ pc'[p] = "log" /\ task'[p] = task[p]
           \/ pc'[p] = "idle" /\ task'[p] = NoTask
        /\ pc' \in [Procs -> Labels]
        /\ task' \in [Procs -> Call \cup Answer \cup {NoTask}]
        /\ \A q \in Procs \ {p} : task'[q] = task[q] /\ pc'[q] = pc[q]
    BY <1>1 DEF AuthInv, TypeOK, Labels
  <1>4. TypeOK'
    BY <1>1, <1>2, <1>3 DEF AuthInv, TypeOK
  <1>5. Ready'
    BY <1>1, <1>3 DEF AuthInv, Ready
  <1>6. Backed' /\ ExecutionAuthorized'
    BY <1>1, <1>3, QuietAuth DEF AuthInv, TypeOK
  <1> QED BY <1>4, <1>5, <1>6 DEF AuthInv

\* consume_ticket loads the file.
LEMMA ConsumeLoadAuth ==
  ASSUME AuthInv, NEW p \in Procs, ConsumeLoad(p)
  PROVE  AuthInv'
  <1>1. /\ pc[p] = "consume"
        /\ \/ pc' = [pc EXCEPT ![p] = "log"] /\ buf' = buf
           \/ /\ pc' = [pc EXCEPT ![p] = "consumeSave"]
              /\ buf' = [buf EXCEPT ![p] = file]
              /\ file[task[p].ticket] # Absent
        /\ UNCHANGED <<file, task, clock, calls, issued, grants, answers, redeemed, effected, audited>>
    BY DEF ConsumeLoad, history
  <1>2. /\ \/ pc'[p] = "log" /\ buf'[p] = buf[p]
           \/ pc'[p] = "consumeSave" /\ buf'[p] = file /\ file[task[p].ticket] # Absent
        /\ pc' \in [Procs -> Labels]
        /\ buf' \in [Procs -> Requests]
        /\ \A q \in Procs \ {p} : buf'[q] = buf[q] /\ pc'[q] = pc[q]
    <2>1. pc \in [Procs -> Labels] /\ buf \in [Procs -> Requests] /\ file \in Requests
      BY DEF AuthInv, TypeOK
    <2>2. "log" \in Labels /\ "consumeSave" \in Labels
      BY DEF Labels
    <2>3. CASE pc' = [pc EXCEPT ![p] = "log"] /\ buf' = buf
      BY <2>1, <2>2, <2>3
    <2>4. CASE /\ pc' = [pc EXCEPT ![p] = "consumeSave"]
               /\ buf' = [buf EXCEPT ![p] = file]
               /\ file[task[p].ticket] # Absent
      BY <2>1, <2>2, <2>4
    <2> QED BY <1>1, <2>3, <2>4
  <1>3. TypeOK'
    BY <1>1, <1>2 DEF AuthInv, TypeOK
  <1>4. Ready'
    BY <1>1, <1>2 DEF AuthInv, Ready
  <1>5. Backed' /\ ExecutionAuthorized'
    BY <1>1, <1>2, QuietAuth DEF AuthInv, TypeOK
  <1> QED BY <1>3, <1>4, <1>5 DEF AuthInv

\* consume_ticket writes its copy back, the ticket marked.
LEMMA ConsumeSaveAuth ==
  ASSUME AuthInv, NEW p \in Procs, ConsumeSave(p)
  PROVE  AuthInv'
  <1> DEFINE t == task[p].ticket
             r == ConsumedOf(buf[p][t])
  <1>1. /\ pc[p] = "consumeSave"
        /\ file' = [buf[p] EXCEPT ![t] = ConsumedOf(@)]
        /\ buf' = [buf EXCEPT ![p] = EmptyFile]
        /\ pc' = [pc EXCEPT ![p] = "log"]
        /\ UNCHANGED <<task, clock, calls, issued, grants, answers, redeemed, effected, audited>>
    BY DEF ConsumeSave, history
  <1>2. t \in Tickets /\ buf[p][t] # Absent
    BY <1>1 DEF AuthInv, Ready
  <1>3. buf[p][t] \in Request /\ BackedIn(buf[p])
    BY <1>2 DEF AuthInv, TypeOK, Requests, Backed
  <1>4. /\ r \in Request /\ r.binding = buf[p][t].binding
        /\ r.stamp = buf[p][t].stamp /\ r.status = buf[p][t].status
    BY <1>3 DEF ConsumedOf, Request
  <1>5. file' = [buf[p] EXCEPT ![t] = r]
    BY <1>1
  <1>6. /\ issued[t] = r.binding /\ r.stamp <= clock
        /\ r.status = "APPROVED" => \E i \in DOMAIN grants[t] : grants[t][i] = r.stamp
    BY <1>2, <1>3, <1>4 DEF BackedIn
  <1>7. Backed' /\ file' \in Requests /\ buf' \in [Procs -> Requests]
    <2> HIDE DEF r
    <2> QED BY <1>1, <1>2, <1>4, <1>5, <1>6, SaveBacked
  <1>8. pc'[p] = "log" /\ \A q \in Procs \ {p} : pc'[q] = pc[q] /\ buf'[q] = buf[q]
    BY <1>1 DEF AuthInv, TypeOK
  <1>9. TypeOK'
    BY <1>1, <1>7, <1>8 DEF AuthInv, TypeOK, Labels
  <1>10. Ready'
    BY <1>1, <1>8 DEF AuthInv, Ready
  <1>11. ExecutionAuthorized'
    BY <1>1, <1>8 DEF AuthInv, ExecutionAuthorized, Covered
  <1> QED BY <1>7, <1>9, <1>10, <1>11 DEF AuthInv

\* The call is logged, or its process dies: the process is between calls.
LEMMA IdleAuth ==
  ASSUME AuthInv, NEW p \in Procs, Log(p) \/ Crash(p)
  PROVE  AuthInv'
  <1>1. /\ pc[p] # "idle"
        /\ pc' = [pc EXCEPT ![p] = "idle"]
        /\ task' = [task EXCEPT ![p] = NoTask]
        /\ buf' = buf \/ buf' = [buf EXCEPT ![p] = EmptyFile]
        /\ UNCHANGED <<file, clock, calls, issued, grants, answers, redeemed>>
    BY DEF Log, Crash, history
  <1>2. /\ pc' \in [Procs -> Labels] /\ pc'[p] = "idle"
        /\ task' \in [Procs -> Call \cup Answer \cup {NoTask}] /\ task'[p] = NoTask
        /\ buf' \in [Procs -> Requests] /\ buf'[p] \in {buf[p], EmptyFile}
        /\ \A q \in Procs \ {p} : task'[q] = task[q] /\ pc'[q] = pc[q] /\ buf'[q] = buf[q]
    BY <1>1, EmptyFileOK DEF AuthInv, TypeOK, Labels
  <1>3. effected' \subseteq 1 .. MaxCalls /\ audited' \subseteq 1 .. MaxCalls
    <2>1. CASE Log(p)
      <3>1. task[p] \in Call
        BY <2>1 DEF Log, AuthInv, TypeOK
      <3> QED BY <2>1, <3>1 DEF Log, history, Call, AuthInv, TypeOK
    <2>2. CASE Crash(p)
      <3>1. pc[p] = "execute" => task[p] \in Call
        BY DEF AuthInv, TypeOK
      <3> QED BY <2>2, <3>1 DEF Crash, Call, AuthInv, TypeOK
    <2> QED BY <2>1, <2>2
  <1>4. TypeOK'
    BY <1>1, <1>2, <1>3 DEF AuthInv, TypeOK
  <1>5. Ready'
    BY <1>1, <1>2 DEF AuthInv, Ready
  <1>6. Backed' /\ ExecutionAuthorized'
    BY <1>1, <1>2, QuietAuth DEF AuthInv, TypeOK
  <1> QED BY <1>4, <1>5, <1>6 DEF AuthInv

\* The maintainer's answer: the process loads the file,
LEMMA DecideLoadAuth ==
  ASSUME AuthInv, NEW p \in Procs, DecideLoad(p)
  PROVE  AuthInv'
  <1>1. PICK t \in Tickets, approve \in BOOLEAN :
           /\ file[t] # Absent
           /\ task' = [task EXCEPT ![p] = [ticket |-> t, approve |-> approve]]
    BY DEF DecideLoad
  <1>2. /\ pc[p] = "idle" /\ answers < MaxDecisions
        /\ buf' = [buf EXCEPT ![p] = file]
        /\ pc' = [pc EXCEPT ![p] = "decideSave"]
        /\ answers' = answers + 1
        /\ UNCHANGED <<file, clock, calls, issued, grants, redeemed, effected, audited>>
    BY DEF DecideLoad
  <1>3. /\ pc' \in [Procs -> Labels] /\ pc'[p] = "decideSave"
        /\ task' \in [Procs -> Call \cup Answer \cup {NoTask}]
        /\ task'[p] \in Answer /\ task'[p].ticket = t
        /\ buf' \in [Procs -> Requests] /\ buf'[p] = file
        /\ \A q \in Procs \ {p} : task'[q] = task[q] /\ pc'[q] = pc[q] /\ buf'[q] = buf[q]
    BY <1>1, <1>2 DEF AuthInv, TypeOK, Labels, Answer
  <1>4. answers' \in 0 .. MaxDecisions
    BY <1>2, BoundsAssumption DEF AuthInv, TypeOK
  <1>5. TypeOK'
    BY <1>2, <1>3, <1>4 DEF AuthInv, TypeOK
  <1>6. Ready'
    BY <1>1, <1>2, <1>3 DEF AuthInv, Ready
  <1>7. Backed' /\ ExecutionAuthorized'
    BY <1>2, <1>3, QuietAuth DEF AuthInv, TypeOK
  <1> QED BY <1>5, <1>6, <1>7 DEF AuthInv

\* and writes its copy back, the ticket answered.
LEMMA DecideSaveAuth ==
  ASSUME AuthInv, NEW p \in Procs, DecideSave(p)
  PROVE  AuthInv'
  <1> DEFINE t == task[p].ticket
             r == IF task[p].approve THEN ApprovedBy(buf[p][t], clock)
                                     ELSE RejectedBy(buf[p][t], clock)
  <1>1. /\ pc[p] = "decideSave"
        /\ buf' = [buf EXCEPT ![p] = EmptyFile]
        /\ pc' = [pc EXCEPT ![p] = "idle"]
        /\ task' = [task EXCEPT ![p] = NoTask]
        /\ file' = [buf[p] EXCEPT ![t] = r]
        /\ grants' = IF task[p].approve THEN [grants EXCEPT ![t] = Append(@, clock)]
                                        ELSE grants
        /\ UNCHANGED <<clock, calls, issued, answers, redeemed, effected, audited>>
    BY DEF DecideSave
  <1>2. task[p] \in Answer /\ t \in Tickets /\ buf[p][t] # Absent
    BY <1>1 DEF AuthInv, TypeOK, Ready, Answer
  <1>3. buf[p][t] \in Request /\ BackedIn(buf[p]) /\ clock \in Nat
    BY <1>2 DEF AuthInv, TypeOK, Requests, Backed
  <1>4. /\ r \in Request /\ r.binding = buf[p][t].binding /\ r.stamp = clock
        /\ r.status = "APPROVED" => task[p].approve
    BY <1>3 DEF ApprovedBy, RejectedBy, Request
  <1>5. issued[t] = r.binding
    BY <1>2, <1>3, <1>4 DEF BackedIn
  <1>6. /\ grants' \in [Tickets -> Seq(Nat)]
        /\ \A u \in Tickets : \A i \in DOMAIN grants[u] :
               i \in DOMAIN grants'[u] /\ grants'[u][i] = grants[u][i]
        /\ task[p].approve => \E i \in DOMAIN grants'[t] : grants'[t][i] = clock
    <2>1. CASE task[p].approve
      <3>1. grants[t] \in Seq(Nat) /\ grants'[t] = Append(grants[t], clock)
            /\ \A u \in Tickets \ {t} : grants'[u] = grants[u]
        BY <1>1, <1>2, <2>1 DEF AuthInv, TypeOK
      <3>2. Len(grants[t]) + 1 \in DOMAIN grants'[t]
            /\ grants'[t][Len(grants[t]) + 1] = clock
        BY <1>3, <3>1
      <3>3. \A i \in DOMAIN grants[t] : i \in DOMAIN grants'[t] /\ grants'[t][i] = grants[t][i]
        BY <1>3, <3>1
      <3>4. grants' \in [Tickets -> Seq(Nat)]
        BY <1>1, <1>2, <1>3, <2>1 DEF AuthInv, TypeOK
      <3> QED BY <3>1, <3>2, <3>3, <3>4
    <2>2. CASE ~task[p].approve
      BY <1>1, <2>2 DEF AuthInv, TypeOK
    <2> QED BY <2>1, <2>2
  <1>7. Backed' /\ file' \in Requests /\ buf' \in [Procs -> Requests]
    <2>1. r.stamp <= clock
      BY <1>3, <1>4
    <2>2. r.status = "APPROVED" => \E i \in DOMAIN grants'[t] : grants'[t][i] = r.stamp
      BY <1>4, <1>6
    <2> HIDE DEF r
    <2> QED BY <1>1, <1>2, <1>4, <1>5, <1>6, <2>1, <2>2, SaveBacked
  <1>8. /\ pc' \in [Procs -> Labels] /\ pc'[p] = "idle"
        /\ task' \in [Procs -> Call \cup Answer \cup {NoTask}] /\ task'[p] = NoTask
        /\ \A q \in Procs \ {p} : task'[q] = task[q] /\ pc'[q] = pc[q] /\ buf'[q] = buf[q]
    BY <1>1 DEF AuthInv, TypeOK, Labels
  <1>9. TypeOK'
    BY <1>1, <1>6, <1>7, <1>8 DEF AuthInv, TypeOK
  <1>10. Ready'
    BY <1>1, <1>8 DEF AuthInv, Ready
  <1>11. ExecutionAuthorized'
    <2> SUFFICES ASSUME NEW q \in Procs, pc'[q] = "execute"
                 PROVE  /\ task'[q].gated => Covered(task[q])'
                        /\ task'[q].binding.action \in {"release_push", "bloom_release"}
                              => task'[q].gated
      BY DEF ExecutionAuthorized
    <2>1. q # p /\ task'[q] = task[q] /\ pc[q] = "execute"
      BY <1>8
    <2>2. task[q].gated => Covered(task[q])
      BY <2>1 DEF AuthInv, ExecutionAuthorized
    <2>3. task[q].gated => Covered(task[q])'
      <3> SUFFICES ASSUME task[q].gated PROVE Covered(task[q])'
        OBVIOUS
      <3> DEFINE u == task[q].ticket
      <3>1. u \in Tickets
        BY <2>2 DEF Covered
      <3>2. PICK i \in DOMAIN grants[u] :
               grants[u][i] <= task[q].at /\ task[q].at <= grants[u][i] + TTL
        BY <2>2 DEF Covered
      <3>3. i \in DOMAIN grants'[u] /\ grants'[u][i] = grants[u][i]
        BY <1>6, <3>1
      <3> HIDE DEF r
      <3> QED
        BY <1>1, <2>1, <2>2, <3>2, <3>3 DEF Covered
    <2> QED
      BY <2>1, <2>3 DEF AuthInv, ExecutionAuthorized
  <1> QED BY <1>7, <1>9, <1>10, <1>11 DEF AuthInv

\* The clock advances.
LEMMA TickAuth == AuthInv /\ Tick => AuthInv'
  <1> SUFFICES ASSUME AuthInv, Tick PROVE AuthInv'
    OBVIOUS
  <1>1. /\ clock \in Nat /\ clock' = clock + 1
        /\ UNCHANGED <<file, pc, buf, task, calls, issued, grants, answers, redeemed,
                       effected, audited>>
    BY DEF Tick, AuthInv, TypeOK, procVars, history
  <1>2. TypeOK'
    BY <1>1 DEF AuthInv, TypeOK
  <1>3. Ready'
    <2>1. \A q \in Procs : pc[q] = "createSave" => task[q].at <= clock /\ task[q].at \in Nat
      BY DEF AuthInv, TypeOK, Ready, Call
    <2> QED BY <1>1, <2>1 DEF AuthInv, Ready
  <1>4. Backed'
    <2>1. clock' \in Nat /\ clock <= clock'
      BY <1>1
    <2>2. file \in Requests /\ \A q \in Procs : buf[q] \in Requests
      BY DEF AuthInv, TypeOK
    <2>3. \A t \in Tickets : file[t] # Absent => file[t].stamp \in Nat
      BY <2>2 DEF Requests, Request
    <2>4. \A q \in Procs : \A t \in Tickets : buf[q][t] # Absent => buf[q][t].stamp \in Nat
      BY <2>2 DEF Requests, Request
    <2>5. BackedIn(file)'
      BY <1>1, <2>3 DEF AuthInv, Backed, BackedIn
    <2>6. \A q \in Procs : BackedIn(buf[q])'
      BY <1>1, <2>4 DEF AuthInv, Backed, BackedIn
    <2> QED BY <2>5, <2>6 DEF Backed
  <1>5. ExecutionAuthorized'
    BY <1>1 DEF AuthInv, ExecutionAuthorized, Covered
  <1> QED BY <1>2, <1>3, <1>4, <1>5 DEF AuthInv

\* A stuttering step.
LEMMA StutterAuth == AuthInv /\ UNCHANGED vars => AuthInv'
  BY DEF vars, AuthInv, TypeOK, Ready, Backed, BackedIn, ExecutionAuthorized, Covered

LEMMA StepAuth == AuthInv /\ [Next]_vars => AuthInv'
  <1> SUFFICES ASSUME AuthInv, [Next]_vars PROVE AuthInv'
    OBVIOUS
  <1>1. CASE UNCHANGED vars
    BY <1>1, StutterAuth
  <1>2. CASE Tick
    BY <1>2, TickAuth
  <1>3. ASSUME NEW p \in Procs, Step(p) PROVE AuthInv'
    BY <1>3, ReceiveAuth, CheckAuth, CreateLoadAuth, CreateSaveAuth, SucceedAuth, FailAuth,
       ConsumeLoadAuth, ConsumeSaveAuth, IdleAuth, DecideLoadAuth, DecideSaveAuth
       DEF Step, Execute, Consume
  <1> QED BY <1>1, <1>2, <1>3 DEF Next

(***************************************************************************)
(* The theorems.                                                           *)
(***************************************************************************)

\* The inductive invariant holds, with however many processes losing each
\* other's updates, failing and dying.
THEOREM AuthInvariant == Spec => []AuthInv
  BY InitAuth, StepAuth, PTL DEF Spec

\* The file stays a dictionary of well-formed tickets.
THEOREM TypeCorrect == Spec => []TypeOK
  <1>1. AuthInv => TypeOK
    BY DEF AuthInv
  <1> QED BY <1>1, AuthInvariant, PTL

\* No gated call reaches its remote without an approval by the maintainer of
\* that very action, target and session, within the TTL.
THEOREM OnlyAuthorizedExecutions == Spec => []ExecutionAuthorized
  <1>1. AuthInv => ExecutionAuthorized
    BY DEF AuthInv
  <1> QED BY <1>1, AuthInvariant, PTL

(***************************************************************************)
(* The audit log and what the remote side has acted on.                    *)
(***************************************************************************)

\* A handler between the remote action and the end of timeline.log_action.
Owing == {"execute", "consume", "consumeSave", "log"}

\* A step that lets no call out of its handler but one it has logged.
LEMMA QuietEffects ==
  ASSUME EveryEffectRecorded, NEW p \in Procs,
         \A q \in Procs \ {p} : pc'[q] = pc[q] /\ task'[q] = task[q],
         audited \subseteq audited',
         \A n \in effected' : n \in effected \/ (pc'[p] \in Owing /\ task'[p].id = n),
         pc[p] \in Owing =>
             \/ pc'[p] \in Owing /\ task'[p].id = task[p].id
             \/ task[p].id \in audited'
  PROVE  EveryEffectRecorded'
  <1> SUFFICES ASSUME NEW n \in effected', n \notin audited'
               PROVE  \E q \in Procs : pc'[q] \in Owing /\ task'[q].id = n
    BY DEF EveryEffectRecorded, Owing
  <1>1. CASE n \notin effected
    BY <1>1
  <1>2. CASE n \in effected
    <2>1. PICK q \in Procs : pc[q] \in Owing /\ task[q].id = n
      BY <1>2 DEF EveryEffectRecorded, Owing
    <2>2. CASE q = p
      BY <2>1, <2>2
    <2>3. CASE q # p
      BY <2>1, <2>3
    <2> QED BY <2>2, <2>3
  <1> QED BY <1>1, <1>2

\* Each step of a handler, when no process dies and launch_ci does not raise.
LEMMA StepEffects ==
  ASSUME AuthInv, EveryEffectRecorded, {"crash", "raised"} \cap Faults = {},
         NEW p \in Procs, Step(p)
  PROVE  EveryEffectRecorded'
  <1>0. TypeOK
    BY DEF AuthInv
  <1>1. CASE Receive(p)
    <2>1. PICK action, verdicts : Arrive(p, action, verdicts)
      BY <1>1 DEF Receive, GitPush, ReleasePush, LaunchCI, CreatePullRequest,
             EditPullRequest, BloomRelease
    <2>2. /\ pc[p] = "idle" /\ UNCHANGED <<effected, audited>>
          /\ \A q \in Procs \ {p} : pc'[q] = pc[q] /\ task'[q] = task[q]
      BY <1>0, <2>1 DEF Arrive, history, TypeOK
    <2> QED BY <2>2, QuietEffects DEF Owing
  <1>2. CASE Check(p) \/ CreateLoad(p) \/ CreateSave(p) \/ DecideLoad(p) \/ DecideSave(p)
    <2>1. /\ pc[p] \notin Owing /\ UNCHANGED <<effected, audited>>
          /\ \A q \in Procs \ {p} : pc'[q] = pc[q] /\ task'[q] = task[q]
      BY <1>0, <1>2
         DEF Check, CreateLoad, CreateSave, DecideLoad, DecideSave, history, TypeOK, Owing
    <2> QED BY <2>1, QuietEffects
  <1>3. CASE Succeed(p)
    <2>1. /\ pc[p] = "execute" /\ pc'[p] \in {"consume", "log"}
          /\ task' = task /\ audited' = audited
          /\ effected' \subseteq effected \cup {task[p].id}
          /\ \A q \in Procs \ {p} : pc'[q] = pc[q]
      BY <1>0, <1>3 DEF Succeed, TypeOK
    <2> QED BY <2>1, QuietEffects DEF Owing
  <1>4. CASE Fail(p)
    <2>1. /\ pc[p] = "execute" /\ pc'[p] = "log" /\ task'[p].id = task[p].id
          /\ audited' = audited
          /\ effected' \subseteq effected \cup {task[p].id}
          /\ \A q \in Procs \ {p} : pc'[q] = pc[q] /\ task'[q] = task[q]
      BY <1>0, <1>4 DEF Fail, FailTo, TypeOK
    <2> QED BY <2>1, QuietEffects DEF Owing
  <1>5. CASE Consume(p)
    <2>1. /\ pc'[p] \in {"consumeSave", "log"} /\ task' = task
          /\ UNCHANGED <<effected, audited>>
          /\ \A q \in Procs \ {p} : pc'[q] = pc[q]
      BY <1>0, <1>5 DEF Consume, ConsumeLoad, ConsumeSave, history, TypeOK
    <2> QED BY <2>1, QuietEffects DEF Owing
  <1>6. CASE Log(p)
    <2>1. /\ audited' = audited \cup {task[p].id} /\ effected' = effected
          /\ \A q \in Procs \ {p} : pc'[q] = pc[q] /\ task'[q] = task[q]
      BY <1>0, <1>6 DEF Log, history, TypeOK
    <2> QED BY <2>1, QuietEffects
  <1> QED BY <1>1, <1>2, <1>3, <1>4, <1>5, <1>6 DEF Step, Execute, Raise, Crash

\* Every attempt to reach a remote is in the audit log once its handler has
\* returned, whatever the processes do to each other's tickets and whether or
\* not an answer of the remote is lost, if none dies in the middle of a call
\* and launch_ci does not raise.
THEOREM EffectsAreRecorded ==
  ASSUME {"crash", "raised"} \cap Faults = {}
  PROVE  Spec => []EveryEffectRecorded
  <1>1. Init => EveryEffectRecorded
    BY DEF Init, EveryEffectRecorded
  <1>2. AuthInv /\ EveryEffectRecorded /\ [Next]_vars => EveryEffectRecorded'
    <2> SUFFICES ASSUME AuthInv, EveryEffectRecorded, [Next]_vars
                 PROVE  EveryEffectRecorded'
      OBVIOUS
    <2>1. CASE Tick \/ UNCHANGED vars
      BY <2>1 DEF Tick, vars, procVars, history, EveryEffectRecorded
    <2>2. ASSUME NEW p \in Procs, Step(p) PROVE EveryEffectRecorded'
      BY <2>2, StepEffects
    <2> QED BY <2>1, <2>2 DEF Next
  <1> QED BY <1>1, <1>2, AuthInvariant, PTL DEF Spec

-----------------------------------------------------------------------------
(***************************************************************************)
(* One process, which does not die, handles every call and every answer:   *)
(* the tool functions of one gateway, which FastMCP runs one after the     *)
(* other.  Then an approval pays for one execution, and the file           *)
(* implements the ledger of atomic tickets.                                *)
(***************************************************************************)

\* One process, which never dies.
Serial == "crash" \notin Faults /\ \A p, q \in Procs : p = q

Inv == AuthInv /\ SerialInv

LEMMA InitSerial == Init => Inv
  <1> SUFFICES ASSUME Init PROVE SerialInv
    BY InitAuth DEF Inv
  <1>1. \A t \in Tickets : ~Usable(file[t]) /\ redeemed[t] = 0 /\ grants[t] = << >>
    BY DEF Init, EmptyFile, Absent, Usable
  <1>2. \A p \in Procs : pc[p] = "idle"
    BY DEF Init
  <1> QED BY <1>1, <1>2 DEF SerialInv

\* A step that changes neither the file nor the history keeps the balance, if
\* it leaves no ticket unspent that was being spent.
LEMMA QuietSerial ==
  ASSUME Inv, NEW p \in Procs, \A q \in Procs : p = q,
         UNCHANGED <<file, grants, redeemed>>,
         \A t \in Tickets : BeingSpent(t) /\ Usable(file[t]) => BeingSpent(t)',
         pc'[p] \in {"createSave", "consumeSave", "decideSave"} => buf'[p] = file,
         pc'[p] = "createSave" => file[task'[p].ticket] = Absent,
         pc'[p] = "execute" /\ task'[p].gated /\ ~task'[p].dry
             => Usable(file[task'[p].ticket])
  PROVE  SerialInv'
  <1>1. \A t \in Tickets :
          (redeemed[t] + (IF Usable(file[t]) /\ ~BeingSpent(t) THEN 1 ELSE 0)
               <= Len(grants[t]))'
    <2> SUFFICES ASSUME NEW t \in Tickets
                 PROVE  redeemed[t] + (IF Usable(file[t]) /\ ~BeingSpent(t)' THEN 1 ELSE 0)
                            <= Len(grants[t])
      OBVIOUS
    <2>1. redeemed[t] \in Nat /\ Len(grants[t]) \in Nat
      BY DEF Inv, AuthInv, TypeOK
    <2>2. redeemed[t] + (IF Usable(file[t]) /\ ~BeingSpent(t) THEN 1 ELSE 0)
             <= Len(grants[t])
      BY DEF Inv, SerialInv
    <2>3. Usable(file[t]) /\ ~BeingSpent(t)' => ~BeingSpent(t)
      OBVIOUS
    <2> HIDE DEF BeingSpent
    <2> QED BY <2>1, <2>2, <2>3
  <1> QED BY <1>1 DEF SerialInv

\* The only process is spending a ticket just when it is between the remote
\* action and the end of consume_ticket.
LEMMA OneSpender ==
  ASSUME NEW p \in Procs, \A q \in Procs : p = q
  PROVE  /\ \A t \in Tickets : BeingSpent(t) <=>
               pc[p] \in {"consume", "consumeSave"} /\ task[p].ticket = t
         /\ \A t \in Tickets : BeingSpent(t)' <=>
               pc'[p] \in {"consume", "consumeSave"} /\ task'[p].ticket = t
  BY DEF BeingSpent

\* A ticket that was not created has no entry.
LEMMA UnissuedAbsent ==
  ASSUME AuthInv, NEW t \in Tickets, issued[t] = Unissued
  PROVE  file[t] = Absent
  BY AbsentIsNoRequest DEF AuthInv, TypeOK, Requests, Request, Backed, BackedIn

\* No step of the only process takes an approval twice.
LEMMA SerialStep ==
  ASSUME Inv, "crash" \notin Faults, NEW p \in Procs, \A q \in Procs : p = q, Step(p)
  PROVE  SerialInv'
  <1> USE DEF Inv
  <1>1. CASE Receive(p)
    <2>1. PICK action, verdicts : action \in Actions /\ Arrive(p, action, verdicts)
      BY <1>1 DEF Receive, GitPush, ReleasePush, LaunchCI, CreatePullRequest,
             EditPullRequest, BloomRelease, Actions
    <2>2. PICK b \in Binding, t \in Tickets \cup {NoTicket}, dry \in BOOLEAN,
               verdict \in verdicts :
             /\ b.action = action
             /\ task' = [task EXCEPT ![p] =
                          [id |-> calls + 1, binding |-> b, ticket |-> t, dry |-> dry,
                           gated |-> verdict = "gated", at |-> clock]]
             /\ pc' = [pc EXCEPT ![p] = StartOf(verdict)]
      BY <2>1 DEF Arrive
    <2>3. pc[p] = "idle" /\ UNCHANGED <<file, grants, redeemed>>
      BY <2>1 DEF Arrive, history
    <2>4. pc'[p] \in {"check", "execute", "log"} /\ (pc'[p] = "execute" => ~task'[p].gated)
      <3>1. StartOf(verdict) \in {"check", "execute", "log"}
            /\ (StartOf(verdict) = "execute" => verdict = "open")
        BY DEF StartOf
      <3>2. pc'[p] = StartOf(verdict) /\ task'[p].gated = (verdict = "gated")
        BY <2>2 DEF AuthInv, TypeOK
      <3> QED BY <3>1, <3>2
    <2> QED BY <2>3, <2>4, OneSpender, QuietSerial
  <1>2. CASE Check(p)
    <2>1. /\ pc[p] = "check"
          /\ task'[p] = [task[p] EXCEPT !.at = clock]
          /\ pc'[p] \in {"execute", "create"}
          /\ pc'[p] = "execute" =>
                IsApproved(file, task[p].ticket, task[p].binding, clock, task[p].dry)
          /\ UNCHANGED <<file, grants, redeemed>>
      BY <1>2 DEF Check, history, AuthInv, TypeOK
    <2>2. /\ task'[p].ticket = task[p].ticket /\ task'[p].dry = task[p].dry
      BY <2>1 DEF AuthInv, TypeOK, Call
    <2>3. pc'[p] = "execute" /\ ~task'[p].dry => Usable(file[task'[p].ticket])
      BY <2>1, <2>2 DEF IsApproved
    <2> QED BY <2>1, <2>3, OneSpender, QuietSerial
  <1>3. CASE CreateLoad(p)
    <2>1. PICK t \in Tickets :
             issued[t] = Unissued /\ task' = [task EXCEPT ![p].ticket = t, ![p].at = clock]
      BY <1>3 DEF CreateLoad
    <2>2. /\ pc[p] = "create" /\ pc'[p] = "createSave" /\ buf'[p] = file
          /\ UNCHANGED <<file, grants, redeemed>>
      BY <1>3 DEF CreateLoad, AuthInv, TypeOK
    <2>3. task'[p].ticket = t
      BY <2>1, <2>2 DEF AuthInv, TypeOK, Call
    <2> QED BY <2>1, <2>2, <2>3, UnissuedAbsent, OneSpender, QuietSerial
  <1>4. CASE CreateSave(p)
    <2> DEFINE u == task[p].ticket
    <2>1. /\ pc[p] = "createSave" /\ pc'[p] = "log"
          /\ u \in Tickets /\ file[u] = Absent
          /\ file' = [file EXCEPT ![u] = NewRequest(task[p].binding, task[p].at)]
          /\ UNCHANGED <<task, grants, redeemed>>
      BY <1>4 DEF CreateSave, history, AuthInv, TypeOK, Ready, SerialInv
    <2>2. ~Usable(file[u]) /\ ~Usable(file'[u]) /\ \A t \in Tickets \ {u} : file'[t] = file[t]
      BY <2>1 DEF Usable, NewRequest, Absent, AuthInv, TypeOK, Requests
    <2>3. \A t \in Tickets : Usable(file'[t]) <=> Usable(file[t])
      BY <2>2
    <2>4. \A t \in Tickets : ~BeingSpent(t) /\ ~BeingSpent(t)'
      BY <2>1, OneSpender
    <2> QED BY <2>1, <2>3, <2>4 DEF SerialInv
  <1>5. CASE Succeed(p)
    <2> DEFINE c == task[p]
               spent == c.gated /\ ~c.dry
    <2>1. /\ pc[p] = "execute"
          /\ pc'[p] = IF spent THEN "consume" ELSE "log"
          /\ redeemed' = IF spent THEN [redeemed EXCEPT ![c.ticket] = @ + 1] ELSE redeemed
          /\ UNCHANGED <<file, task, grants>>
      BY <1>5 DEF Succeed, AuthInv, TypeOK
    <2>2. CASE ~spent
      BY <2>1, <2>2, OneSpender, QuietSerial
    <2>3. CASE spent
      <3>1. c.ticket \in Tickets /\ Usable(file[c.ticket])
        BY <2>1, <2>3 DEF AuthInv, ExecutionAuthorized, Covered, SerialInv
      <3>2. \A t \in Tickets : ~BeingSpent(t) /\ (BeingSpent(t)' <=> t = c.ticket)
        BY <2>1, <2>3, OneSpender
      <3>3. \A t \in Tickets :
               redeemed[t] + (IF Usable(file[t]) THEN 1 ELSE 0) <= Len(grants[t])
        BY <3>2 DEF SerialInv
      <3>4. redeemed \in [Tickets -> Nat] /\ \A t \in Tickets : Len(grants[t]) \in Nat
        BY DEF AuthInv, TypeOK
      <3>5. \A t \in Tickets :
               redeemed'[t] + (IF Usable(file'[t]) /\ ~BeingSpent(t)' THEN 1 ELSE 0)
                   <= Len(grants'[t])
        <4> SUFFICES ASSUME NEW t \in Tickets
                     PROVE  redeemed'[t] + (IF Usable(file[t]) /\ t # c.ticket THEN 1 ELSE 0)
                                <= Len(grants[t])
          BY <2>1, <3>2
        <4> QED BY <2>1, <2>3, <3>1, <3>3, <3>4
      <3> QED BY <2>1, <2>3, <3>5 DEF SerialInv
    <2> QED BY <2>2, <2>3
  <1>6. CASE Fail(p) \/ Raise(p)
    <2>1. pc[p] = "execute" /\ pc'[p] \in {"log", "idle"} /\ UNCHANGED <<file, grants, redeemed>>
      BY <1>6 DEF Fail, FailTo, Raise, AuthInv, TypeOK
    <2> QED BY <2>1, OneSpender, QuietSerial
  <1>7. CASE ConsumeLoad(p)
    <2>1. /\ pc[p] = "consume" /\ UNCHANGED <<file, task, grants, redeemed>>
          /\ \/ pc'[p] = "log" /\ file[task[p].ticket] = Absent
             \/ pc'[p] = "consumeSave" /\ buf'[p] = file
      BY <1>7 DEF ConsumeLoad, history, AuthInv, TypeOK
    <2>2. \A t \in Tickets : BeingSpent(t) /\ Usable(file[t]) => BeingSpent(t)'
      BY <2>1, OneSpender DEF Usable, Absent
    <2> QED BY <2>1, <2>2, QuietSerial
  <1>8. CASE ConsumeSave(p)
    <2> DEFINE u == task[p].ticket
    <2>1. /\ pc[p] = "consumeSave" /\ pc'[p] = "log" /\ u \in Tickets /\ file[u] \in Request
          /\ file' = [file EXCEPT ![u] = ConsumedOf(file[u])]
          /\ UNCHANGED <<task, grants, redeemed>>
      <3>1. pc[p] = "consumeSave" /\ u \in Tickets /\ buf[p] = file /\ buf[p][u] # Absent
        BY <1>8 DEF ConsumeSave, AuthInv, Ready, SerialInv
      <3>2. file[u] \in Request
        BY <3>1 DEF AuthInv, TypeOK, Requests
      <3> QED BY <1>8, <3>1, <3>2 DEF ConsumeSave, history, AuthInv, TypeOK
    <2>2. ~Usable(file'[u]) /\ \A t \in Tickets \ {u} : file'[t] = file[t]
      BY <2>1 DEF Usable, ConsumedOf, Request, AuthInv, TypeOK, Requests
    <2>3. /\ \A t \in Tickets : ~BeingSpent(t)'
          /\ \A t \in Tickets : BeingSpent(t) <=> t = u
      BY <2>1, OneSpender
    <2>4. \A t \in Tickets : Usable(file'[t]) /\ ~BeingSpent(t)' <=> Usable(file[t]) /\ ~BeingSpent(t)
      BY <2>2, <2>3
    <2>5. \A t \in Tickets :
             redeemed'[t] + (IF Usable(file'[t]) /\ ~BeingSpent(t)' THEN 1 ELSE 0)
                 <= Len(grants'[t])
      BY <2>1, <2>4 DEF SerialInv
    <2> QED BY <2>1, <2>5 DEF SerialInv
  <1>9. CASE Log(p)
    <2>1. pc[p] = "log" /\ pc'[p] = "idle" /\ UNCHANGED <<file, grants, redeemed>>
      BY <1>9 DEF Log, history, AuthInv, TypeOK
    <2> QED BY <2>1, OneSpender, QuietSerial
  <1>10. CASE DecideLoad(p)
    <2>1. /\ pc[p] = "idle" /\ pc'[p] = "decideSave" /\ buf'[p] = file
          /\ UNCHANGED <<file, grants, redeemed>>
      BY <1>10 DEF DecideLoad, AuthInv, TypeOK
    <2> QED BY <2>1, OneSpender, QuietSerial
  <1>11. CASE DecideSave(p)
    <2> DEFINE u == task[p].ticket
               r == IF task[p].approve THEN ApprovedBy(file[u], clock)
                                       ELSE RejectedBy(file[u], clock)
    <2>1. /\ pc[p] = "decideSave" /\ pc'[p] = "idle"
          /\ buf[p] = file /\ u \in Tickets /\ file[u] # Absent
      BY <1>11 DEF DecideSave, AuthInv, TypeOK, Ready, Answer, SerialInv
    <2>2. file' = [file EXCEPT ![u] = r] /\ UNCHANGED redeemed
          /\ grants' = IF task[p].approve THEN [grants EXCEPT ![u] = Append(@, clock)]
                                          ELSE grants
      BY <1>11, <2>1 DEF DecideSave
    <2>3. file[u] \in Request
      BY <2>1 DEF AuthInv, TypeOK, Requests
    <2>4. Usable(file'[u]) => task[p].approve
      BY <2>1, <2>2, <2>3 DEF Usable, ApprovedBy, RejectedBy, Request, AuthInv, TypeOK, Requests
    <2>5. \A t \in Tickets \ {u} : file'[t] = file[t] /\ grants'[t] = grants[t]
      BY <2>2 DEF AuthInv, TypeOK, Requests
    <2>6. \A t \in Tickets : ~BeingSpent(t) /\ ~BeingSpent(t)'
      BY <2>1, OneSpender
    <2>7. \A t \in Tickets :
             redeemed[t] + (IF Usable(file[t]) THEN 1 ELSE 0) <= Len(grants[t])
      BY <2>6 DEF SerialInv
    <2>8. redeemed \in [Tickets -> Nat] /\ \A t \in Tickets : Len(grants[t]) \in Nat
      BY DEF AuthInv, TypeOK
    <2>9. Len(grants'[u]) = IF task[p].approve THEN Len(grants[u]) + 1 ELSE Len(grants[u])
      <3>1. grants \in [Tickets -> Seq(Nat)] /\ clock \in Nat
        BY DEF AuthInv, TypeOK
      <3> QED BY <2>1, <2>2, <3>1
    <2>10. \A t \in Tickets :
             redeemed'[t] + (IF Usable(file'[t]) /\ ~BeingSpent(t)' THEN 1 ELSE 0)
                 <= Len(grants'[t])
      <3> SUFFICES ASSUME NEW t \in Tickets
                   PROVE  redeemed[t] + (IF Usable(file'[t]) THEN 1 ELSE 0) <= Len(grants'[t])
        BY <2>2, <2>6
      <3> HIDE DEF r
      <3>1. CASE t = u
        BY <2>4, <2>7, <2>8, <2>9, <3>1
      <3>2. CASE t # u
        BY <2>5, <2>7, <2>8, <3>2
      <3> QED BY <3>1, <3>2
    <2> QED BY <2>1, <2>10 DEF SerialInv
  <1> QED
    BY <1>1, <1>2, <1>3, <1>4, <1>5, <1>6, <1>7, <1>8, <1>9, <1>10, <1>11
       DEF Step, Execute, Consume, Crash

LEMMA TickSerial == Inv /\ Serial /\ (Tick \/ UNCHANGED vars) => SerialInv'
  <1> SUFFICES ASSUME Inv, UNCHANGED <<file, pc, buf, task, grants, redeemed>>
               PROVE  SerialInv'
    BY DEF Tick, procVars, history, vars
  <1> QED BY DEF Inv, SerialInv, BeingSpent

THEOREM SerialInvariant ==
  ASSUME Serial
  PROVE  Spec => []Inv
  <1>1. Init => Inv
    BY InitSerial
  <1>2. Inv /\ [Next]_vars => Inv'
    <2> SUFFICES ASSUME Inv, [Next]_vars PROVE Inv'
      OBVIOUS
    <2>1. AuthInv'
      BY StepAuth DEF Inv
    <2>2. SerialInv'
      BY SerialStep, TickSerial DEF Next, Serial
    <2> QED BY <2>1, <2>2 DEF Inv
  <1> QED BY <1>1, <1>2, PTL DEF Spec

\* The copy a handler writes back is the file, a call goes on under a ticket that
\* can still be used, and every such ticket is an approval not yet redeemed.
THEOREM SerialBookkeeping ==
  ASSUME Serial
  PROVE  Spec => []SerialInv
  <1>1. Inv => SerialInv
    BY DEF Inv
  <1> QED BY <1>1, SerialInvariant, PTL

\* An approval pays for one execution, if one process handles everything and
\* does not die between the execution and the end of consume_ticket.
THEOREM NoReplaySerial ==
  ASSUME Serial
  PROVE  Spec => []NoReplay
  <1>1. Inv => NoReplay
    <2> SUFFICES ASSUME Inv, NEW t \in Tickets PROVE redeemed[t] <= Len(grants[t])
      BY DEF NoReplay
    <2>1. redeemed[t] \in Nat /\ Len(grants[t]) \in Nat
      BY DEF Inv, AuthInv, TypeOK
    <2>2. redeemed[t] + (IF Usable(file[t]) /\ ~BeingSpent(t) THEN 1 ELSE 0)
             <= Len(grants[t])
      BY DEF Inv, SerialInv
    <2> HIDE DEF BeingSpent
    <2> QED BY <2>1, <2>2
  <1> QED BY <1>1, SerialInvariant, PTL

-----------------------------------------------------------------------------
(* The refinement.                                                          *)

\* The ledger sees nothing of a step that leaves the entries alone and spends
\* no ticket.
LEMMA LedgerStutter ==
  ASSUME UNCHANGED <<file, grants, redeemed>>,
         \A t \in Tickets : file[t] # Absent => (BeingSpent(t)' <=> BeingSpent(t))
  PROVE  UNCHANGED Ledger!ledger
  <1>1. ASSUME NEW t \in Tickets PROVE LedgerState(t)' = LedgerState(t)
    <2>1. CASE file[t] = Absent
      BY <2>1 DEF LedgerState, Absent
    <2>2. CASE file[t] # Absent
      BY <2>2, BeingSpent(t)' <=> BeingSpent(t) DEF LedgerState
    <2> QED BY <2>1, <2>2
  <1> QED BY <1>1 DEF Ledger!ledger

\* Every step of the only process is a step of the ledger or changes nothing
\* that it shows.
LEMMA LedgerStep ==
  ASSUME Inv, "crash" \notin Faults, NEW p \in Procs, \A q \in Procs : p = q, Step(p)
  PROVE  [Ledger!Next]_(Ledger!ledger)
  <1> USE DEF Inv
  <1> DEFINE u == task[p].ticket
  <1>1. CASE \/ Receive(p) \/ Check(p) \/ CreateLoad(p) \/ Fail(p) \/ Raise(p) \/ Log(p)
             \/ DecideLoad(p)
    <2>1. /\ UNCHANGED <<file, grants, redeemed>>
          /\ pc[p] \notin {"consume", "consumeSave"}
          /\ pc'[p] \notin {"consume", "consumeSave"}
      <3>1. CASE Receive(p)
        BY <3>1 DEF Receive, GitPush, ReleasePush, LaunchCI, CreatePullRequest,
           EditPullRequest, BloomRelease, Arrive, StartOf, history, AuthInv, TypeOK
      <3>2. CASE Check(p) \/ CreateLoad(p) \/ Log(p) \/ DecideLoad(p)
        BY <3>2 DEF Check, CreateLoad, Log, DecideLoad, history, AuthInv, TypeOK
      <3>3. CASE Fail(p) \/ Raise(p)
        BY <3>3 DEF Fail, FailTo, Raise, AuthInv, TypeOK
      <3> QED BY <1>1, <3>1, <3>2, <3>3
    <2> QED BY <2>1, OneSpender, LedgerStutter
  <1>2. CASE CreateSave(p)
    <2>1. /\ pc[p] = "createSave" /\ pc'[p] = "log"
          /\ task[p].ticket \in Tickets /\ file[task[p].ticket] = Absent
          /\ file' = [file EXCEPT ![task[p].ticket] = NewRequest(task[p].binding, task[p].at)]
          /\ UNCHANGED <<grants, redeemed>>
      BY <1>2 DEF CreateSave, history, AuthInv, TypeOK, Ready, SerialInv
    <2> PICK v \in Tickets : v = task[p].ticket
      BY <2>1
    <2>2. \A t \in Tickets : ~BeingSpent(t) /\ ~BeingSpent(t)'
      BY <2>1, OneSpender
    <2>3. file'[v].status = "PENDING" /\ \A t \in Tickets \ {v} : file'[t] = file[t]
      BY <2>1 DEF NewRequest, AuthInv, TypeOK, Requests
    <2>4. LedgerState(v) = "unissued" /\ LedgerState(v)' = "pending"
      BY <2>1, <2>3 DEF LedgerState, Absent
    <2>5. \A t \in Tickets \ {v} : LedgerState(t)' = LedgerState(t)
      BY <2>2, <2>3 DEF LedgerState
    <2>6. Ledger!Issue(v)
      BY <2>1, <2>4, <2>5 DEF Ledger!Issue
    <2> QED BY <2>1, <2>6 DEF Ledger!Next
  <1>3. CASE Succeed(p)
    <2> DEFINE spent == task[p].gated /\ ~task[p].dry
    <2>1. /\ pc[p] = "execute"
          /\ pc'[p] = IF spent THEN "consume" ELSE "log"
          /\ redeemed' = IF spent THEN [redeemed EXCEPT ![u] = @ + 1] ELSE redeemed
          /\ UNCHANGED <<file, task, grants>>
      BY <1>3 DEF Succeed, AuthInv, TypeOK
    <2>2. CASE ~spent
      BY <2>1, <2>2, OneSpender, LedgerStutter
    <2>3. CASE spent
      <3>1. u \in Tickets /\ Usable(file[u])
        BY <2>1, <2>3 DEF AuthInv, ExecutionAuthorized, Covered, SerialInv
      <3>2. \A t \in Tickets : ~BeingSpent(t) /\ (BeingSpent(t)' <=> t = u)
        BY <2>1, <2>3, OneSpender
      <3>3. LedgerState(u) = "approved" /\ LedgerState(u)' = "spent"
        BY <2>1, <3>1, <3>2 DEF LedgerState, Usable
      <3>4. \A t \in Tickets \ {u} : LedgerState(t)' = LedgerState(t)
        BY <2>1, <3>2 DEF LedgerState
      <3>5. Ledger!Redeem(u)
        BY <2>1, <2>3, <3>1, <3>3, <3>4 DEF Ledger!Redeem
      <3> QED BY <3>1, <3>5 DEF Ledger!Next
    <2> QED BY <2>2, <2>3
  <1>4. CASE ConsumeLoad(p)
    <2>1. /\ pc[p] = "consume" /\ UNCHANGED <<file, task, grants, redeemed>>
          /\ \/ pc'[p] = "log" /\ file[u] = Absent
             \/ pc'[p] = "consumeSave"
      BY <1>4 DEF ConsumeLoad, history, AuthInv, TypeOK
    <2> QED BY <2>1, OneSpender, LedgerStutter
  <1>5. CASE ConsumeSave(p)
    <2>1. /\ pc[p] = "consumeSave" /\ pc'[p] = "log" /\ u \in Tickets /\ file[u] \in Request
          /\ file' = [file EXCEPT ![u] = ConsumedOf(file[u])]
          /\ UNCHANGED <<task, grants, redeemed>>
      <3>1. pc[p] = "consumeSave" /\ u \in Tickets /\ buf[p] = file /\ buf[p][u] # Absent
        BY <1>5 DEF ConsumeSave, AuthInv, Ready, SerialInv
      <3>2. file[u] \in Request
        BY <3>1 DEF AuthInv, TypeOK, Requests
      <3> QED BY <1>5, <3>1, <3>2 DEF ConsumeSave, history, AuthInv, TypeOK
    <2>2. /\ file'[u].status = file[u].status /\ file'[u].consumed
          /\ \A t \in Tickets \ {u} : file'[t] = file[t]
      BY <2>1 DEF ConsumedOf, Request, AuthInv, TypeOK, Requests
    <2>3. /\ \A t \in Tickets : ~BeingSpent(t)'
          /\ \A t \in Tickets : BeingSpent(t) <=> t = u
      BY <2>1, OneSpender
    <2>4. \A t \in Tickets : LedgerState(t)' = LedgerState(t)
      BY <2>2, <2>3 DEF LedgerState
    <2>5. UNCHANGED Ledger!ledger
      BY <2>1, <2>4 DEF Ledger!ledger
    <2> QED BY <2>5
  <1>6. CASE DecideSave(p)
    <2>0. PICK v \in Tickets : v = task[p].ticket
      BY <1>6 DEF DecideSave, AuthInv, TypeOK, Answer
    <2> DEFINE r == IF task[p].approve THEN ApprovedBy(file[v], clock)
                                       ELSE RejectedBy(file[v], clock)
    <2>1. /\ pc[p] = "decideSave" /\ pc'[p] = "idle"
          /\ buf[p] = file /\ file[v] # Absent
      BY <1>6, <2>0 DEF DecideSave, AuthInv, TypeOK, Ready, Answer, SerialInv
    <2>2. file' = [file EXCEPT ![v] = r] /\ UNCHANGED redeemed
          /\ grants' = IF task[p].approve THEN [grants EXCEPT ![v] = Append(@, clock)]
                                          ELSE grants
      BY <1>6, <2>0, <2>1 DEF DecideSave
    <2>3. file[v] \in Request
      BY <2>1 DEF AuthInv, TypeOK, Requests
    <2>4. file'[v] = r /\ \A t \in Tickets \ {v} : file'[t] = file[t] /\ grants'[t] = grants[t]
      BY <2>1, <2>2 DEF AuthInv, TypeOK, Requests
    <2>5. IF task[p].approve THEN r.status = "APPROVED" /\ ~r.consumed
                             ELSE r.status = "REJECTED"
      BY <2>3 DEF ApprovedBy, RejectedBy, Request
    <2>6. \A t \in Tickets : ~BeingSpent(t) /\ ~BeingSpent(t)'
      BY <2>1, OneSpender
    <2>7. \A t \in Tickets \ {v} : LedgerState(t)' = LedgerState(t)
      BY <2>4, <2>6 DEF LedgerState
    <2>8. LedgerState(v) # "unissued"
      BY <2>3 DEF LedgerState, Request
    <2>9. LedgerState(v)' = IF task[p].approve THEN "approved" ELSE "rejected"
      <3> HIDE DEF r
      <3> QED BY <2>1, <2>4, <2>5, <2>6 DEF LedgerState
    <2>10. CASE task[p].approve
      <3>1. grants \in [Tickets -> Seq(Nat)] /\ clock \in Nat
        BY DEF AuthInv, TypeOK
      <3>2. Len(grants'[v]) = Len(grants[v]) + 1
        BY <2>1, <2>2, <2>10, <3>1
      <3>3. \A t \in Tickets \ {v} : Len(grants'[t]) = Len(grants[t])
        BY <2>4
      <3>4. [t \in Tickets |-> LedgerState(t)]' =
              [[t \in Tickets |-> LedgerState(t)] EXCEPT ![v] = "approved"]
        BY <2>7, <2>9, <2>10
      <3>5. [t \in Tickets |-> Len(grants[t])]' =
              [[t \in Tickets |-> Len(grants[t])] EXCEPT ![v] = @ + 1]
        BY <3>2, <3>3
      <3>6. Ledger!Approve(v)
        BY <2>2, <2>8, <3>4, <3>5 DEF Ledger!Approve
      <3> QED BY <2>1, <3>6 DEF Ledger!Next
    <2>11. CASE ~task[p].approve
      <3>1. Ledger!Reject(v)
        <4> HIDE DEF r
        <4> QED BY <2>1, <2>2, <2>7, <2>8, <2>9, <2>11 DEF Ledger!Reject
      <3> QED BY <2>1, <3>1 DEF Ledger!Next
    <2> QED BY <2>10, <2>11
  <1> QED
    BY <1>1, <1>2, <1>3, <1>4, <1>5, <1>6 DEF Step, Execute, Consume, Crash

\* The file implements the ledger of atomic tickets, if one process handles
\* everything and does not die: no creation, answer or consumption is lost.
THEOREM SerialImplementsLedger ==
  ASSUME Serial
  PROVE  Spec => ImplementsLedger
  <1>1. Init => Ledger!Init
    <2> SUFFICES ASSUME Init PROVE Ledger!Init
      OBVIOUS
    <2>1. \A t \in Tickets : LedgerState(t) = "unissued" /\ Len(grants[t]) = 0
      BY DEF Init, EmptyFile, LedgerState, Absent
    <2> QED BY <2>1 DEF Init, Ledger!Init
  <1>2. Inv /\ [Next]_vars => [Ledger!Next]_(Ledger!ledger)
    <2> SUFFICES ASSUME Inv, [Next]_vars PROVE [Ledger!Next]_(Ledger!ledger)
      OBVIOUS
    <2>1. CASE UNCHANGED <<file, pc, buf, task, grants, redeemed>>
      <3>1. \A t \in Tickets : BeingSpent(t)' <=> BeingSpent(t)
        BY <2>1 DEF BeingSpent
      <3> QED BY <2>1, <3>1, LedgerStutter
    <2>2. ASSUME NEW p \in Procs, Step(p) PROVE [Ledger!Next]_(Ledger!ledger)
      BY <2>2, LedgerStep DEF Serial
    <2> QED BY <2>1, <2>2 DEF Next, Tick, vars, procVars, history
  <1> QED BY <1>1, <1>2, SerialInvariant, PTL DEF Spec, ImplementsLedger, Ledger!Spec
=============================================================================

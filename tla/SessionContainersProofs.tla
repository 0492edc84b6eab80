----------------------- MODULE SessionContainersProofs -----------------------
(***************************************************************************)
(* An owner never has two tokens that are accepted, for any processes,      *)
(* sessions, ports, faults and bounds; and for one process: what is revoked *)
(* and what is stopped stays so, ports are distinct, the limit is kept and  *)
(* a container that runs can be reached.                                    *)
(***************************************************************************)
EXTENDS SessionContainers, FiniteSetTheorems, TLAPS

USE HubAssumption, PortsAssumption, BoundsAssumption

(***************************************************************************)
(* Types.                                                                  *)
(***************************************************************************)

LEMMA WorkTyped ==
    ASSUME TypeOK, NEW p \in Procs, pc[p] # "idle"
    PROVE  /\ work[p] \in Work
           /\ work[p].op \in {"start", "converse", "stop", "prune"}
           /\ work[p].owner \in Owners
           /\ work[p].id \in Ids
           /\ work[p].explicit \in BOOLEAN
           /\ WorkFits(pc[p], work[p])
  <1>1. work[p] \in Work \cup {NoWork} /\ WorkFits(pc[p], work[p])
    BY DEF TypeOK
  <1>2. work[p] # NoWork
    BY <1>1 DEF WorkFits
  <1> QED BY <1>1, <1>2 DEF Work

\* Control that goes on with the same operation, or ends it.
LEMMA GotoTyped ==
    ASSUME TypeOK, NEW p \in Procs, pc[p] # "idle", NEW label \in Labels, Goto(p, label),
           label # "idle" => WorkFits(label, work[p])
    PROVE  /\ pc' \in [Procs -> Labels]
           /\ work' \in [Procs -> Work \cup {NoWork}]
           /\ \A q \in Procs : WorkFits(pc'[q], work'[q])
  <1>1. /\ pc' = [pc EXCEPT ![p] = label]
        /\ work' = [work EXCEPT ![p] = IF label = "idle" THEN NoWork ELSE work[p]]
    BY DEF Goto
  <1>2. WorkFits("idle", NoWork)
    BY DEF WorkFits
  <1>3. /\ pc \in [Procs -> Labels] /\ work \in [Procs -> Work \cup {NoWork}]
        /\ \A q \in Procs : WorkFits(pc[q], work[q])
    BY DEF TypeOK
  <1>4. \A q \in Procs : WorkFits(pc'[q], work'[q])
    <2> TAKE q \in Procs
    <2>1. CASE q = p /\ label = "idle"
      BY <1>1, <1>2, <1>3, <2>1
    <2>2. CASE q = p /\ label # "idle"
      BY <1>1, <1>3, <2>2
    <2>3. CASE q # p
      BY <1>1, <1>3, <2>3
    <2> QED BY <2>1, <2>2, <2>3
  <1> QED BY <1>1, <1>3, <1>4

\* Control that goes on with a port.
LEMMA PortTyped ==
    ASSUME TypeOK, NEW p \in Procs, pc[p] # "idle", NEW label \in Labels \ {"idle"},
           NEW port \in Ports \cup {HubPort},
           pc' = [pc EXCEPT ![p] = label], work' = [work EXCEPT ![p].port = port],
           WorkFits(label, [work[p] EXCEPT !.port = port])
    PROVE  /\ pc' \in [Procs -> Labels]
           /\ work' \in [Procs -> Work \cup {NoWork}]
           /\ \A q \in Procs : WorkFits(pc'[q], work'[q])
  <1>1. /\ pc \in [Procs -> Labels] /\ work \in [Procs -> Work \cup {NoWork}]
        /\ \A q \in Procs : WorkFits(pc[q], work[q])
    BY DEF TypeOK
  <1>2. work[p] \in Work
    BY WorkTyped
  <1>3. [work[p] EXCEPT !.port = port] \in Work
    BY <1>2 DEF Work
  <1>4. work' = [work EXCEPT ![p] = [work[p] EXCEPT !.port = port]]
    OBVIOUS
  <1>5. \A q \in Procs : WorkFits(pc'[q], work'[q])
    <2> TAKE q \in Procs
    <2>1. CASE q = p
      BY <1>1, <1>4, <2>1
    <2>2. CASE q # p
      BY <1>1, <1>4, <2>2
    <2> QED BY <2>1, <2>2
  <1> QED BY <1>1, <1>3, <1>4, <1>5

LEMMA StoresTyped ==
    /\ EmptyStore \in Tokens
    /\ \A store \in Tokens, o \in Owners : RevokedOf(store, o) \in Tokens
    /\ \A store \in Tokens, o \in Owners, id \in Ids : Issued(store, o, id) \in Tokens
  BY DEF EmptyStore, RevokedOf, Issued, Tokens, TokenStates

\* The start of a container.
LEMMA StartStepTyped ==
    ASSUME TypeOK, NEW p \in Procs, StartStep(p)
    PROVE  TypeOK'
  <1>0. pc[p] # "idle"
    BY DEF StartStep, Status, Limit, ChoosePort, RemoveOld, Issue, IssueSave, SaveAttach,
           Run, Undo, UndoSave, Unattach, Seed, Reattach
  <1> DEFINE w == work[p]
  <1>w. /\ w \in Work /\ w.owner \in Owners /\ w.id \in Ids /\ WorkFits(pc[p], w)
        /\ w.op \in {"start", "converse", "stop", "prune"}
    BY <1>0, WorkTyped
  <1>n. w # NoWork
    BY <1>0, <1>w DEF WorkFits
  <1>a. AfterStart(w.op) \in Labels /\ (AfterStart(w.op) # "idle" => WorkFits(AfterStart(w.op), w))
    BY <1>0, <1>w, <1>n DEF AfterStart, Labels, WorkFits
  <1> DEFINE GoesTo(label) == label \in Labels /\ (label # "idle" => WorkFits(label, w))
  <1> HIDE DEF w
  <1>1. CASE Status(p)
    <2>1. GoesTo(AfterStart(w.op))
      BY <1>a
    <2>2. GoesTo(IF w.owner = Hub THEN "rm" ELSE "limit")
      BY <1>1, <1>w, <1>n DEF Status, Labels, WorkFits, Owners
    <2>3. Goto(p, AfterStart(w.op)) \/ Goto(p, IF w.owner = Hub THEN "rm" ELSE "limit")
      BY <1>1 DEF Status, w
    <2>4. /\ pc' \in [Procs -> Labels] /\ work' \in [Procs -> Work \cup {NoWork}]
          /\ \A q \in Procs : WorkFits(pc'[q], work'[q])
      BY <1>0, <2>1, <2>2, <2>3, GotoTyped DEF w
    <2> QED BY <1>1, <2>4 DEF TypeOK, Status
  <1>2. CASE Limit(p)
    <2> DEFINE label == IF AtLimit(Cardinality({s \in dirs \ {w.owner} : Running(s)}))
                        THEN "idle" ELSE "port"
    <2>1. GoesTo(label) /\ Goto(p, label)
      BY <1>2, <1>w, <1>n DEF Limit, Labels, WorkFits, w
    <2>2. /\ pc' \in [Procs -> Labels] /\ work' \in [Procs -> Work \cup {NoWork}]
          /\ \A q \in Procs : WorkFits(pc'[q], work'[q])
      <3> HIDE DEF label
      <3> QED BY <1>0, <2>1, GotoTyped DEF w
    <2> QED BY <1>2, <2>2 DEF TypeOK, Limit
  <1>3. CASE ChoosePort(p)
    <2>1. w.owner \in Sessions
      BY <1>3, <1>w DEF ChoosePort, WorkFits
    <2>2. /\ pc' \in [Procs -> Labels] /\ work' \in [Procs -> Work \cup {NoWork}]
          /\ \A q \in Procs : WorkFits(pc'[q], work'[q])
      <3>1. CASE Goto(p, "idle")
        BY <1>0, <3>1, GotoTyped DEF Labels
      <3>2. CASE ~Goto(p, "idle")
        <4>1. attach[w.owner] \in Ports \cup {NoPort}
          BY <2>1 DEF TypeOK
        <4>2. PICK port \in Ports : /\ pc' = [pc EXCEPT ![p] = "rm"]
                                    /\ work' = [work EXCEPT ![p].port = port]
          BY <1>3, <3>2, <4>1 DEF ChoosePort, FreePorts, w
        <4>3. WorkFits("rm", [w EXCEPT !.port = port])
          BY <1>w, <1>n, <2>1 DEF WorkFits, Work, NoWork
        <4> QED BY <1>0, <4>2, <4>3, PortTyped DEF Labels, w
      <3> QED BY <3>1, <3>2
    <2> QED BY <1>3, <2>2 DEF TypeOK, ChoosePort
  <1>4. CASE RemoveOld(p)
    <2>1. GoesTo("issue") /\ Goto(p, "issue")
      BY <1>4, <1>w, <1>n DEF RemoveOld, Labels, WorkFits
    <2>2. /\ pc' \in [Procs -> Labels] /\ work' \in [Procs -> Work \cup {NoWork}]
          /\ \A q \in Procs : WorkFits(pc'[q], work'[q])
      BY <1>0, <2>1, GotoTyped DEF w
    <2>3. container' \in [Owners -> Container \cup {NoContainer}]
      BY <1>4 DEF RemoveOld, TypeOK
    <2> QED BY <1>4, <2>2, <2>3 DEF TypeOK, RemoveOld
  <1>5. CASE Issue(p)
    <2>1. GoesTo("issueSave") /\ Goto(p, "issueSave")
      BY <1>5, <1>w, <1>n DEF Issue, Labels, WorkFits
    <2>2. /\ pc' \in [Procs -> Labels] /\ work' \in [Procs -> Work \cup {NoWork}]
          /\ \A q \in Procs : WorkFits(pc'[q], work'[q])
      BY <1>0, <2>1, GotoTyped DEF w
    <2> QED BY <1>5, <2>2 DEF TypeOK, Issue
  <1>6. CASE IssueSave(p)
    <2>1. /\ pc' \in [Procs -> Labels] /\ work' \in [Procs -> Work \cup {NoWork}]
          /\ \A q \in Procs : WorkFits(pc'[q], work'[q])
      <3>1. CASE Goto(p, "idle")
        BY <1>0, <3>1, GotoTyped DEF Labels
      <3>2. CASE w.owner # Hub
        <4>1. GoesTo("attach") /\ Goto(p, "attach")
          BY <1>6, <1>w, <1>n, <3>2 DEF IssueSave, Labels, WorkFits, Owners, w
        <4> QED BY <1>0, <4>1, GotoTyped DEF w
      <3>3. CASE w.owner = Hub /\ ~Goto(p, "idle")
        <4>1. pc' = [pc EXCEPT ![p] = "run"] /\ work' = [work EXCEPT ![p].port = HubPort]
          BY <1>6, <3>3 DEF IssueSave, w
        <4>2. WorkFits("run", [w EXCEPT !.port = HubPort])
          BY <1>6, <1>w, <1>n, <3>3 DEF IssueSave, WorkFits, Work, NoWork
        <4> QED BY <1>0, <4>1, <4>2, PortTyped DEF Labels, w
      <3> QED BY <3>1, <3>2, <3>3
    <2>2. tokens' \in Tokens /\ buf' \in [Procs -> Tokens]
      BY <1>6, <1>w, StoresTyped DEF IssueSave, Forget, TypeOK, w
    <2> QED BY <1>6, <2>1, <2>2 DEF TypeOK, IssueSave
  <1>7. CASE SaveAttach(p)
    <2>1. GoesTo("run") /\ Goto(p, "run")
      BY <1>7, <1>w, <1>n DEF SaveAttach, Labels, WorkFits
    <2>2. /\ pc' \in [Procs -> Labels] /\ work' \in [Procs -> Work \cup {NoWork}]
          /\ \A q \in Procs : WorkFits(pc'[q], work'[q])
      BY <1>0, <2>1, GotoTyped DEF w
    <2>3. attach' \in [Sessions -> Ports \cup {NoPort}]
      BY <1>7, <1>w DEF SaveAttach, TypeOK, WorkFits, w
    <2> QED BY <1>7, <2>2, <2>3 DEF TypeOK, SaveAttach
  <1>8. CASE Run(p)
    <2>1. GoesTo("undo") /\ GoesTo("idle") /\ GoesTo(AfterStart(w.op))
      BY <1>8, <1>a, <1>w, <1>n DEF Run, Labels, WorkFits
    <2>2. Goto(p, "undo") \/ Goto(p, "idle") \/ Goto(p, AfterStart(w.op))
      BY <1>8 DEF Run, w
    <2>3. /\ pc' \in [Procs -> Labels] /\ work' \in [Procs -> Work \cup {NoWork}]
          /\ \A q \in Procs : WorkFits(pc'[q], work'[q])
      BY <1>0, <2>1, <2>2, GotoTyped DEF w
    <2>4. w.port \in Ports \cup {HubPort}
      BY <1>8, <1>w DEF Run, WorkFits, Owners
    <2>5. container' \in [Owners -> Container \cup {NoContainer}]
      <3>1. container' = container \/ Launched(w)
        BY <1>8 DEF Run, w
      <3>2. [token |-> w.id, port |-> w.port, running |-> TRUE] \in Container
        BY <1>w, <2>4 DEF Container
      <3> QED BY <1>w, <3>1, <3>2 DEF Launched, TypeOK
    <2> QED BY <1>8, <2>3, <2>5 DEF TypeOK, Run
  <1>9. CASE Undo(p)
    <2>1. GoesTo("undoSave") /\ GoesTo(AfterUndo(w))
      BY <1>9, <1>w, <1>n DEF Undo, AfterUndo, Labels, WorkFits, Owners
    <2>2. Goto(p, "undoSave") \/ Goto(p, AfterUndo(w))
      BY <1>9 DEF Undo, w
    <2>3. /\ pc' \in [Procs -> Labels] /\ work' \in [Procs -> Work \cup {NoWork}]
          /\ \A q \in Procs : WorkFits(pc'[q], work'[q])
      BY <1>0, <2>1, <2>2, GotoTyped DEF w
    <2>4. buf' \in [Procs -> Tokens]
      BY <1>9 DEF Undo, TypeOK
    <2> QED BY <1>9, <2>3, <2>4 DEF TypeOK, Undo
  <1>10. CASE UndoSave(p)
    <2>1. GoesTo(AfterUndo(w)) /\ Goto(p, AfterUndo(w))
      BY <1>10, <1>w, <1>n DEF UndoSave, AfterUndo, Labels, WorkFits, Owners, w
    <2>2. /\ pc' \in [Procs -> Labels] /\ work' \in [Procs -> Work \cup {NoWork}]
          /\ \A q \in Procs : WorkFits(pc'[q], work'[q])
      BY <1>0, <2>1, GotoTyped DEF w
    <2>3. tokens' \in Tokens /\ buf' \in [Procs -> Tokens]
      BY <1>10, <1>w, StoresTyped DEF UndoSave, Forget, TypeOK, Tokens, TokenStates
    <2> QED BY <1>10, <2>2, <2>3 DEF TypeOK, UndoSave
  <1>11. CASE Unattach(p)
    <2>1. GoesTo(AfterStart(w.op)) /\ Goto(p, AfterStart(w.op))
      BY <1>11, <1>a DEF Unattach, w
    <2>2. /\ pc' \in [Procs -> Labels] /\ work' \in [Procs -> Work \cup {NoWork}]
          /\ \A q \in Procs : WorkFits(pc'[q], work'[q])
      BY <1>0, <2>1, GotoTyped DEF w
    <2> QED BY <1>11, <2>2 DEF TypeOK, Unattach
  <1>12. CASE Seed(p)
    <2>1. /\ pc' \in [Procs -> Labels] /\ work' \in [Procs -> Work \cup {NoWork}]
          /\ \A q \in Procs : WorkFits(pc'[q], work'[q])
      <3>1. CASE Goto(p, "idle")
        BY <1>0, <3>1, GotoTyped DEF Labels
      <3>2. CASE ~Goto(p, "idle")
        <4>1. w.owner \in Sessions
          BY <1>12, <1>w DEF Seed, WorkFits
        <4>2. PICK port \in Ports : /\ pc' = [pc EXCEPT ![p] = "reattach"]
                                    /\ work' = [work EXCEPT ![p].port = port]
          BY <1>12, <3>2, <4>1 DEF Seed, TypeOK, w
        <4>3. WorkFits("reattach", [w EXCEPT !.port = port])
          BY <1>w, <1>n, <4>1 DEF WorkFits, Work, NoWork
        <4> QED BY <1>0, <4>2, <4>3, PortTyped DEF Labels, w
      <3> QED BY <3>1, <3>2
    <2> QED BY <1>12, <2>1 DEF TypeOK, Seed
  <1>13. CASE Reattach(p)
    <2>1. Goto(p, "idle")
      BY <1>13 DEF Reattach
    <2>2. /\ pc' \in [Procs -> Labels] /\ work' \in [Procs -> Work \cup {NoWork}]
          /\ \A q \in Procs : WorkFits(pc'[q], work'[q])
      BY <1>0, <2>1, GotoTyped DEF Labels
    <2>3. attach' \in [Sessions -> Ports \cup {NoPort}]
      BY <1>13, <1>w DEF Reattach, TypeOK, WorkFits, w
    <2> QED BY <1>13, <2>2, <2>3 DEF TypeOK, Reattach
  <1> QED BY <1>1, <1>2, <1>3, <1>4, <1>5, <1>6, <1>7, <1>8, <1>9, <1>10, <1>11, <1>12, <1>13
          DEF StartStep

\* The end of a container.
LEMMA StopStepTyped ==
    ASSUME TypeOK, NEW p \in Procs, StopStep(p)
    PROVE  TypeOK'
  <1>0. pc[p] # "idle"
    BY DEF StopStep, Revoke, RevokeSave, Detach, Remove, RemoveTree
  <1> DEFINE w == work[p]
  <1>w. /\ w \in Work /\ w.owner \in Owners /\ WorkFits(pc[p], w)
        /\ w.op \in {"start", "converse", "stop", "prune"}
    BY <1>0, WorkTyped
  <1>n. w # NoWork
    BY <1>0, <1>w DEF WorkFits
  <1>a. AfterRevoke(w) \in Labels /\ (AfterRevoke(w) # "idle" => WorkFits(AfterRevoke(w), w))
    BY <1>0, <1>w, <1>n DEF AfterRevoke, Labels, WorkFits, Owners
  <1> DEFINE GoesTo(label) == label \in Labels /\ (label # "idle" => WorkFits(label, w))
  <1> HIDE DEF w
  <1>1. CASE Revoke(p)
    <2>1. GoesTo("revokeSave")
      BY <1>1, <1>w, <1>n DEF Revoke, Labels, WorkFits
    <2>2. Goto(p, "revokeSave") \/ Goto(p, AfterRevoke(w))
      BY <1>1 DEF Revoke, w
    <2>3. /\ pc' \in [Procs -> Labels] /\ work' \in [Procs -> Work \cup {NoWork}]
          /\ \A q \in Procs : WorkFits(pc'[q], work'[q])
      BY <1>0, <1>a, <2>1, <2>2, GotoTyped DEF w
    <2>4. buf' \in [Procs -> Tokens]
      BY <1>1 DEF Revoke, TypeOK
    <2> QED BY <1>1, <2>3, <2>4 DEF TypeOK, Revoke
  <1>2. CASE RevokeSave(p)
    <2>1. Goto(p, AfterRevoke(w))
      BY <1>2 DEF RevokeSave, w
    <2>2. /\ pc' \in [Procs -> Labels] /\ work' \in [Procs -> Work \cup {NoWork}]
          /\ \A q \in Procs : WorkFits(pc'[q], work'[q])
      BY <1>0, <1>a, <2>1, GotoTyped DEF w
    <2>3. tokens' \in Tokens /\ buf' \in [Procs -> Tokens]
      BY <1>2, <1>w, StoresTyped DEF RevokeSave, Forget, TypeOK, w
    <2> QED BY <1>2, <2>2, <2>3 DEF TypeOK, RevokeSave
  <1>3. CASE Detach(p)
    <2>1. GoesTo("remove") /\ Goto(p, "remove")
      BY <1>3, <1>w, <1>n DEF Detach, Labels, WorkFits
    <2>2. /\ pc' \in [Procs -> Labels] /\ work' \in [Procs -> Work \cup {NoWork}]
          /\ \A q \in Procs : WorkFits(pc'[q], work'[q])
      BY <1>0, <2>1, GotoTyped DEF w
    <2> QED BY <1>3, <2>2 DEF TypeOK, Detach
  <1>4. CASE Remove(p)
    <2>1. GoesTo("rmtree") \/ w.op # "prune"
      BY <1>4, <1>w, <1>n DEF Remove, Labels, WorkFits
    <2>2. Goto(p, "idle") \/ (w.op = "prune" /\ Goto(p, "rmtree"))
      BY <1>4 DEF Remove, w
    <2>3. /\ pc' \in [Procs -> Labels] /\ work' \in [Procs -> Work \cup {NoWork}]
          /\ \A q \in Procs : WorkFits(pc'[q], work'[q])
      BY <1>0, <2>1, <2>2, GotoTyped DEF w, Labels
    <2>4. /\ container' \in [Owners -> Container \cup {NoContainer}]
          /\ ended' \subseteq Owners
      BY <1>4, <1>w DEF Remove, TypeOK, w
    <2> QED BY <1>4, <2>3, <2>4 DEF TypeOK, Remove
  <1>5. CASE RemoveTree(p)
    <2>1. Goto(p, "idle")
      BY <1>5 DEF RemoveTree
    <2>2. /\ pc' \in [Procs -> Labels] /\ work' \in [Procs -> Work \cup {NoWork}]
          /\ \A q \in Procs : WorkFits(pc'[q], work'[q])
      BY <1>0, <2>1, GotoTyped DEF Labels
    <2> QED BY <1>5, <2>2 DEF TypeOK, RemoveTree
  <1> QED BY <1>1, <1>2, <1>3, <1>4, <1>5 DEF StopStep

\* An operation that is begun is one of its owner's.
LEMMA BeginTyped ==
    ASSUME TypeOK, NEW p \in Procs, NEW o \in Owners, NEW explicit \in BOOLEAN,
           NEW op \in {"start", "converse", "stop", "prune"},
           op \in {"converse", "prune"} => o \in Sessions,
           NEW label \in {"status", "revoke"},
           Begin(p, op, o, label, explicit), ended' \subseteq Owners
    PROVE  TypeOK'
  <1> DEFINE w == [op |-> op, owner |-> o, id |-> ops + 1, explicit |-> explicit, port |-> NoPort]
  <1>1. /\ pc' = [pc EXCEPT ![p] = label]
        /\ work' = [work EXCEPT ![p] = w]
        /\ ops' = ops + 1 /\ ops < MaxOps
        /\ holder' = [holder EXCEPT ![ops + 1] = o]
        /\ UNCHANGED <<dirs, container, tokens, attach, buf>>
    BY DEF Begin
  <1>2. ops + 1 \in Ids /\ ops' \in 0 .. MaxOps
    BY <1>1 DEF TypeOK, Ids
  <1>3. w \in Work /\ w # NoWork
    BY <1>2 DEF Work, NoWork
  <1>4. WorkFits(label, w)
    BY <1>3 DEF WorkFits
  <1> HIDE DEF w
  <1>5. pc' \in [Procs -> Labels] /\ work' \in [Procs -> Work \cup {NoWork}]
    BY <1>1, <1>3 DEF TypeOK, Labels
  <1>6. \A q \in Procs : WorkFits(pc'[q], work'[q])
    <2> TAKE q \in Procs
    <2>1. pc \in [Procs -> Labels] /\ work \in [Procs -> Work \cup {NoWork}] /\ WorkFits(pc[q], work[q])
      BY DEF TypeOK
    <2>2. CASE q = p
      BY <1>1, <1>4, <2>1, <2>2
    <2>3. CASE q # p
      BY <1>1, <2>1, <2>3
    <2> QED BY <2>2, <2>3
  <1>7. holder' \in [Ids -> Owners \cup {Nobody}]
    BY <1>1, <1>2 DEF TypeOK
  <1> QED BY <1>1, <1>2, <1>5, <1>6, <1>7 DEF TypeOK

LEMMA CreateTyped ==
    ASSUME TypeOK, NEW p \in Procs, Create(p)
    PROVE  TypeOK'
  BY DEF TypeOK, Create

LEMMA ExitTyped ==
    ASSUME TypeOK, NEW o \in Owners, Exit(o)
    PROVE  TypeOK'
  <1>1. container[o] \in Container
    BY DEF Exit, Running, TypeOK, NoContainer
  <1>2. [container[o] EXCEPT !.running = FALSE] \in Container
    BY <1>1 DEF Container
  <1>3. container' = [container EXCEPT ![o] = [container[o] EXCEPT !.running = FALSE]]
    BY DEF Exit
  <1>4. container' \in [Owners -> Container \cup {NoContainer}]
    BY <1>2, <1>3 DEF TypeOK
  <1> QED BY <1>4 DEF TypeOK, Exit

LEMMA CrashTyped ==
    ASSUME TypeOK, NEW p \in Procs, Crash(p)
    PROVE  TypeOK'
  <1>1. /\ pc' \in [Procs -> Labels] /\ work' \in [Procs -> Work \cup {NoWork}]
        /\ \A q \in Procs : WorkFits(pc'[q], work'[q])
    BY GotoTyped DEF Crash, Labels
  <1>2. buf' \in [Procs -> Tokens]
    BY StoresTyped DEF Crash, Forget, TypeOK
  <1> QED BY <1>1, <1>2 DEF TypeOK, Crash

LEMMA InitTyped == Init => TypeOK
  <1> SUFFICES ASSUME Init PROVE TypeOK
    OBVIOUS
  <1>1. \A p \in Procs : WorkFits(pc[p], work[p])
    BY DEF Init, WorkFits
  <1> QED BY <1>1, StoresTyped DEF Init, TypeOK, Labels

LEMMA NextTyped == TypeOK /\ [Next]_vars => TypeOK'
  <1> SUFFICES ASSUME TypeOK, [Next]_vars PROVE TypeOK'
    OBVIOUS
  <1>1. ASSUME NEW o \in Owners, Exit(o) PROVE TypeOK'
    BY <1>1, ExitTyped
  <1>2. ASSUME NEW p \in Procs, Step(p) PROVE TypeOK'
    <2>1. CASE Start(p)
      <3>1. PICK o \in dirs \cup {Hub}, explicit \in BOOLEAN :
               Begin(p, "start", o, "status", explicit) /\ ended' = ended \ {o}
        BY <2>1 DEF Start
      <3>2. o \in Owners /\ ended' \subseteq Owners
        BY <3>1 DEF TypeOK, Owners
      <3> QED BY <3>1, <3>2, BeginTyped
    <2>2. CASE Converse(p)
      <3>1. PICK o \in dirs : Begin(p, "converse", o, "status", FALSE) /\ ended' = ended \ {o}
        BY <2>2 DEF Converse
      <3>2. o \in Owners /\ o \in Sessions /\ ended' \subseteq Owners
        BY <3>1 DEF TypeOK, Owners
      <3> QED BY <3>1, <3>2, BeginTyped
    <2>3. CASE Stop(p)
      <3>1. PICK o \in Owners : Begin(p, "stop", o, "revoke", FALSE) /\ ended' = ended
        BY <2>3 DEF Stop
      <3>2. ended' \subseteq Owners
        BY <3>1 DEF TypeOK
      <3> QED BY <3>1, <3>2, BeginTyped
    <2>4. CASE Prune(p)
      <3>1. PICK o \in dirs : Begin(p, "prune", o, "revoke", FALSE) /\ ended' = ended
        BY <2>4 DEF Prune
      <3>2. o \in Owners /\ o \in Sessions /\ ended' \subseteq Owners
        BY <3>1 DEF TypeOK, Owners
      <3> QED BY <3>1, <3>2, BeginTyped
    <2> QED BY <1>2, <2>1, <2>2, <2>3, <2>4, CreateTyped, CrashTyped, StartStepTyped, StopStepTyped
            DEF Step
  <1>3. CASE UNCHANGED vars
    BY <1>3 DEF vars, TypeOK
  <1> QED BY <1>1, <1>2, <1>3 DEF Next

\* The type invariant: what a process works on fits the step of start, stop or
\* prune that it is at.
THEOREM TypeCorrect == Spec => []TypeOK
  BY InitTyped, NextTyped, PTL DEF Spec

(***************************************************************************)
(* One token.                                                              *)
(***************************************************************************)

\* A store in which fewer tokens are active still has one per owner, and so
\* has one with a new token and the owner's old ones revoked.
LEMMA OneActiveStores ==
    ASSUME TypeOK, NEW store \in Tokens, OneActiveIn(store)
    PROVE  /\ \A o \in Owners : OneActiveIn(RevokedOf(store, o))
           /\ \A id \in Ids : OneActiveIn([store EXCEPT ![id] = "revoked"])
           /\ \A o \in Owners, id \in Ids :
                  holder[id] = o => OneActiveIn(Issued(store, o, id))
  <1>1. \A o \in Owners, i \in Ids :
           RevokedOf(store, o)[i] = "active" => store[i] = "active" /\ holder[i] # o
    BY DEF RevokedOf, ActiveOf
  <1>2. \A o \in Owners : OneActiveIn(RevokedOf(store, o))
    BY <1>1 DEF OneActiveIn
  <1>3. \A id \in Ids : OneActiveIn([store EXCEPT ![id] = "revoked"])
    BY DEF OneActiveIn, Tokens
  <1>4. ASSUME NEW o \in Owners, NEW id \in Ids, holder[id] = o
        PROVE  OneActiveIn(Issued(store, o, id))
    <2>1. \A i \in Ids : Issued(store, o, id)[i] = "active" =>
                 i = id \/ (store[i] = "active" /\ holder[i] # o)
      BY <1>1 DEF Issued, RevokedOf
    <2> QED BY <1>4, <2>1 DEF OneActiveIn
  <1> QED BY <1>2, <1>3, <1>4

LEMMA OneActiveEmpty == OneActiveIn(EmptyStore)
  BY DEF OneActiveIn, EmptyStore

\* Tokens of operations that are yet to begin stay unknown.
LEMMA AbsentStores ==
    ASSUME NEW store \in Tokens, NEW n \in Nat, \A id \in Ids : id > n => store[id] = "absent",
           NEW o \in Owners, NEW new \in Ids, new <= n
    PROVE  /\ \A id \in Ids : id > n => RevokedOf(store, o)[id] = "absent"
           /\ \A id \in Ids : id > n => [store EXCEPT ![new] = "revoked"][id] = "absent"
           /\ \A id \in Ids : id > n => Issued(store, o, new)[id] = "absent"
  <1>1. \A id \in Ids : id > n => RevokedOf(store, o)[id] = "absent"
    BY DEF RevokedOf, ActiveOf
  <1>2. \A id \in Ids : id > n => id # new
    BY DEF Ids
  <1> QED BY <1>1, <1>2 DEF Issued, RevokedOf, Tokens

\* What the steps of an operation do with the store and its copies.
StoreStep(p) ==
    \/ UNCHANGED <<tokens, buf>>
    \/ UNCHANGED tokens /\ buf' = [buf EXCEPT ![p] = tokens]
    \/ UNCHANGED tokens /\ Forget(p)
    \/ tokens' = RevokedOf(buf[p], work[p].owner) /\ Forget(p)
    \/ tokens' = [buf[p] EXCEPT ![work[p].id] = "revoked"] /\ Forget(p)
    \/ tokens' = Issued(buf[p], work[p].owner, work[p].id) /\ Forget(p)

\* The rest of the operation stays.
SameWork ==
    /\ UNCHANGED <<ops, holder>>
    /\ \A p \in Procs : pc'[p] # "idle" =>
           /\ pc[p] # "idle"
           /\ work'[p].id = work[p].id /\ work'[p].owner = work[p].owner

LEMMA StoreStepKeeps ==
    ASSUME TokenInv, TypeOK', NEW p \in Procs, pc[p] # "idle", StoreStep(p), SameWork
    PROVE  TokenInv'
  <1>1. /\ work[p].owner \in Owners /\ work[p].id \in Ids
        /\ work[p].id <= ops /\ holder[work[p].id] = work[p].owner
    BY WorkTyped DEF TokenInv
  <1>2. /\ TypeOK /\ tokens \in Tokens /\ buf \in [Procs -> Tokens] /\ ops \in Nat
    BY DEF TokenInv, TypeOK
  <1>3. OneActiveIn(tokens) /\ (\A q \in Procs : OneActiveIn(buf[q]))
    BY DEF TokenInv
  <1>4. UNCHANGED <<ops, holder>>
    BY DEF SameWork
  <1>5. /\ OneActiveIn(RevokedOf(buf[p], work[p].owner))
        /\ OneActiveIn([buf[p] EXCEPT ![work[p].id] = "revoked"])
        /\ OneActiveIn(Issued(buf[p], work[p].owner, work[p].id))
    BY <1>1, <1>2, <1>3, OneActiveStores
  <1>6. OneActiveIn(tokens') /\ \A q \in Procs : OneActiveIn(buf'[q])
    <2>1. OneActiveIn(tokens')
      BY <1>3, <1>5 DEF StoreStep
    <2>2. \/ buf' = buf
          \/ buf' = [buf EXCEPT ![p] = tokens]
          \/ buf' = [buf EXCEPT ![p] = EmptyStore]
      BY DEF StoreStep, Forget
    <2>3. ASSUME NEW q \in Procs PROVE buf'[q] \in {buf[q], tokens, EmptyStore}
      BY <1>2, <2>2
    <2> QED BY <1>3, <2>1, <2>3, OneActiveEmpty
  <1>7. \A id \in Ids : id > ops =>
           tokens[id] = "absent" /\ \A q \in Procs : buf[q][id] = "absent"
    BY DEF TokenInv
  <1>8. /\ \A id \in Ids : id > ops => RevokedOf(buf[p], work[p].owner)[id] = "absent"
        /\ \A id \in Ids : id > ops => [buf[p] EXCEPT ![work[p].id] = "revoked"][id] = "absent"
        /\ \A id \in Ids : id > ops => Issued(buf[p], work[p].owner, work[p].id)[id] = "absent"
        /\ \A id \in Ids : EmptyStore[id] = "absent"
    BY <1>1, <1>2, <1>7, AbsentStores DEF EmptyStore
  <1>9. \A id \in Ids : id > ops =>
           tokens'[id] = "absent" /\ \A q \in Procs : buf'[q][id] = "absent"
    BY <1>2, <1>7, <1>8 DEF StoreStep, Forget
  <1>10. \A q \in Procs : pc'[q] # "idle" =>
            work'[q].id <= ops /\ holder[work'[q].id] = work'[q].owner
    BY DEF SameWork, TokenInv
  <1> QED BY <1>4, <1>6, <1>9, <1>10 DEF TokenInv, OneActiveIn

LEMMA GotoSame ==
    ASSUME TypeOK, NEW p \in Procs, pc[p] # "idle", NEW label, Goto(p, label),
           UNCHANGED <<ops, holder>>
    PROVE  SameWork
  BY DEF TypeOK, Goto, SameWork

LEMMA PortSame ==
    ASSUME TypeOK, NEW p \in Procs, pc[p] # "idle", NEW label, NEW port,
           pc' = [pc EXCEPT ![p] = label], work' = [work EXCEPT ![p].port = port],
           UNCHANGED <<ops, holder>>
    PROVE  SameWork
  <1>1. work[p] \in Work
    BY WorkTyped
  <1>2. work' = [work EXCEPT ![p] = [work[p] EXCEPT !.port = port]]
    OBVIOUS
  <1>3. [work[p] EXCEPT !.port = port].id = work[p].id
        /\ [work[p] EXCEPT !.port = port].owner = work[p].owner
    BY <1>1 DEF Work
  <1>4. ASSUME NEW q \in Procs, pc'[q] # "idle"
        PROVE  pc[q] # "idle" /\ work'[q].id = work[q].id /\ work'[q].owner = work[q].owner
    <2>1. CASE q = p
      BY <1>2, <1>3, <2>1 DEF TypeOK
    <2>2. CASE q # p
      BY <1>2, <1>4, <2>2 DEF TypeOK
    <2> QED BY <2>1, <2>2
  <1> QED BY <1>4 DEF SameWork

LEMMA InnerStep ==
    ASSUME TypeOK, NEW p \in Procs, StartStep(p) \/ StopStep(p) \/ Crash(p)
    PROVE  pc[p] # "idle" /\ StoreStep(p) /\ SameWork
  <1>0. pc[p] # "idle"
    BY DEF StartStep, Status, Limit, ChoosePort, RemoveOld, Issue, IssueSave, SaveAttach,
           Run, Undo, UndoSave, Unattach, Seed, Reattach,
           StopStep, Revoke, RevokeSave, Detach, Remove, RemoveTree, Crash
  <1>1. StoreStep(p)
    BY DEF StartStep, Status, Limit, ChoosePort, RemoveOld, Issue, IssueSave, SaveAttach,
           Run, Undo, UndoSave, Unattach, Seed, Reattach,
           StopStep, Revoke, RevokeSave, Detach, Remove, RemoveTree, Crash, StoreStep
  <1>2. UNCHANGED <<ops, holder>>
    BY DEF StartStep, Status, Limit, ChoosePort, RemoveOld, Issue, IssueSave, SaveAttach,
           Run, Undo, UndoSave, Unattach, Seed, Reattach,
           StopStep, Revoke, RevokeSave, Detach, Remove, RemoveTree, Crash
  <1>3. \/ \E label : Goto(p, label)
        \/ \E label, port : pc' = [pc EXCEPT ![p] = label] /\ work' = [work EXCEPT ![p].port = port]
    BY Zenon DEF StartStep, Status, Limit, ChoosePort, RemoveOld, Issue, IssueSave, SaveAttach,
           Run, Undo, UndoSave, Unattach, Seed, Reattach,
           StopStep, Revoke, RevokeSave, Detach, Remove, RemoveTree, Crash
  <1> QED BY <1>0, <1>1, <1>2, <1>3, GotoSame, PortSame

LEMMA BeginKeeps ==
    ASSUME TokenInv, TypeOK', NEW p \in Procs, NEW op, NEW o \in Owners, NEW label,
           NEW explicit, Begin(p, op, o, label, explicit)
    PROVE  TokenInv'
  <1>1. /\ pc' = [pc EXCEPT ![p] = label]
        /\ work' = [work EXCEPT ![p] = [op |-> op, owner |-> o, id |-> ops + 1,
                                         explicit |-> explicit, port |-> NoPort]]
        /\ ops' = ops + 1 /\ ops < MaxOps /\ UNCHANGED <<tokens, buf>>
        /\ holder' = [holder EXCEPT ![ops + 1] = o]
    BY DEF Begin
  <1>2. /\ pc \in [Procs -> Labels] /\ work \in [Procs -> Work \cup {NoWork}]
        /\ ops \in Nat /\ holder \in [Ids -> Owners \cup {Nobody}]
        /\ tokens \in Tokens /\ buf \in [Procs -> Tokens]
    BY DEF TokenInv, TypeOK
  <1>3. ops + 1 \in Ids
    BY <1>1, <1>2 DEF Ids
  <1>4. \A id \in Ids : id > ops =>
           tokens[id] = "absent" /\ \A q \in Procs : buf[q][id] = "absent"
    BY DEF TokenInv
  <1>5. /\ tokens[ops + 1] = "absent" /\ \A q \in Procs : buf[q][ops + 1] = "absent"
    BY <1>2, <1>3, <1>4
  <1>6. \A i \in Ids : i # ops + 1 => holder'[i] = holder[i]
    BY <1>1, <1>2
  <1>7. ASSUME NEW store \in Tokens, OneActiveIn(store), store[ops + 1] = "absent"
        PROVE  \A i, j \in Ids : store[i] = "active" /\ store[j] = "active"
                                   /\ holder'[i] = holder'[j] => i = j
    BY <1>6, <1>7 DEF OneActiveIn
  <1>8. OneActiveIn(tokens)' /\ \A q \in Procs : OneActiveIn(buf[q])'
    <2>1. OneActiveIn(tokens) /\ \A q \in Procs : OneActiveIn(buf[q])
      BY DEF TokenInv
    <2> QED BY <1>1, <1>2, <1>5, <1>7, <2>1 DEF OneActiveIn
  <1>9. ASSUME NEW q \in Procs, pc'[q] # "idle"
        PROVE  work'[q].id <= ops' /\ holder'[work'[q].id] = work'[q].owner
    <2>1. CASE q = p
      BY <1>1, <1>2, <1>3, <2>1
    <2>2. CASE q # p
      <3>1. pc[q] # "idle" /\ work'[q] = work[q]
        BY <1>1, <1>2, <1>9, <2>2
      <3>2. work[q].id \in Ids /\ work[q].id <= ops /\ holder[work[q].id] = work[q].owner
        BY <3>1, WorkTyped DEF TokenInv
      <3> QED BY <1>1, <1>2, <1>6, <3>1, <3>2 DEF Ids
    <2> QED BY <2>1, <2>2
  <1>10. \A id \in Ids : id > ops' =>
            tokens'[id] = "absent" /\ \A q \in Procs : buf'[q][id] = "absent"
    BY <1>1, <1>2, <1>4 DEF Ids
  <1> QED BY <1>8, <1>9, <1>10 DEF TokenInv

LEMMA InitTokenInv == Init => TokenInv
  <1> SUFFICES ASSUME Init PROVE TokenInv
    OBVIOUS
  <1>1. TypeOK
    BY InitTyped
  <1>2. tokens = EmptyStore /\ \A p \in Procs : buf[p] = EmptyStore /\ pc[p] = "idle"
    BY DEF Init
  <1> QED BY <1>1, <1>2, OneActiveEmpty DEF TokenInv, EmptyStore

LEMMA NextTokenInv == TokenInv /\ [Next]_vars => TokenInv'
  <1> SUFFICES ASSUME TokenInv, [Next]_vars PROVE TokenInv'
    OBVIOUS
  <1>0. TypeOK /\ TypeOK'
    BY NextTyped DEF TokenInv
  <1>1. ASSUME NEW o \in Owners, Exit(o) PROVE TokenInv'
    BY <1>0, <1>1 DEF TokenInv, OneActiveIn, Exit
  <1>2. ASSUME NEW p \in Procs, Step(p) PROVE TokenInv'
    <2>1. CASE Start(p) \/ Converse(p) \/ Stop(p) \/ Prune(p)
      <3>1. \E op, label, explicit : \E o \in Owners : Begin(p, op, o, label, explicit)
        <4>1. dirs \subseteq Owners /\ Hub \in Owners
          BY <1>0 DEF TypeOK, Owners
        <4>2. CASE Start(p)
          BY <4>1, <4>2, Zenon DEF Start
        <4>3. CASE Converse(p)
          BY <4>1, <4>3, Zenon DEF Converse
        <4>4. CASE Stop(p)
          BY <4>4, Zenon DEF Stop
        <4>5. CASE Prune(p)
          BY <4>1, <4>5, Zenon DEF Prune
        <4> QED BY <2>1, <4>2, <4>3, <4>4, <4>5
      <3>2. PICK op, label, explicit : \E o \in Owners : Begin(p, op, o, label, explicit)
        BY <3>1
      <3>3. PICK o \in Owners : Begin(p, op, o, label, explicit)
        BY <3>2
      <3> QED BY <1>0, <3>3, BeginKeeps
    <2>2. CASE Create(p)
      <3>1. ops \in Nat /\ ops' = ops + 1 /\ UNCHANGED <<tokens, buf, pc, work, holder>>
        BY <1>0, <2>2 DEF TypeOK, Create
      <3>2. \A q \in Procs : pc'[q] # "idle" =>
               work'[q].id <= ops' /\ holder'[work'[q].id] = work'[q].owner
        <4> TAKE q \in Procs
        <4> HAVE pc'[q] # "idle"
        <4>1. work[q].id \in Ids /\ work[q].id <= ops /\ holder[work[q].id] = work[q].owner
          BY <1>0, <3>1, WorkTyped DEF TokenInv
        <4> QED BY <3>1, <4>1 DEF Ids
      <3>3. \A id \in Ids : id > ops' =>
               tokens'[id] = "absent" /\ \A q \in Procs : buf'[q][id] = "absent"
        <4>1. \A id \in Ids : id > ops + 1 => id > ops
          BY <3>1 DEF Ids
        <4> QED BY <3>1, <4>1 DEF TokenInv
      <3>4. OneActiveIn(tokens)' /\ \A q \in Procs : OneActiveIn(buf[q])'
        BY <3>1 DEF TokenInv, OneActiveIn
      <3> QED BY <1>0, <3>2, <3>3, <3>4 DEF TokenInv
    <2>3. CASE StartStep(p) \/ StopStep(p) \/ Crash(p)
      BY <1>0, <2>3, InnerStep, StoreStepKeeps
    <2> QED BY <1>2, <2>1, <2>2, <2>3 DEF Step
  <1>3. CASE UNCHANGED vars
    BY <1>0, <1>3 DEF vars, TokenInv, OneActiveIn
  <1> QED BY <1>1, <1>2, <1>3 DEF Next

\* The inductive invariant: every copy of the token file that a process holds,
\* however old, has at most one active token per owner, and no token of an
\* operation that is yet to begin.
THEOREM TokenInvariant == Spec => []TokenInv
  BY InitTokenInv, NextTokenInv, PTL DEF Spec

\* Whatever updates of tokens.json are lost between processes that start, stop,
\* prune and die, issue_token leaves an owner one token that is accepted.
THEOREM OneToken == Spec => []OneActiveToken
  <1>1. TokenInv => OneActiveToken
    BY DEF TokenInv, OneActiveToken
  <1> QED BY <1>1, TokenInvariant, PTL

(***************************************************************************)
(* One process.                                                            *)
(*                                                                         *)
(* With several processes a step is taken on what another has changed since *)
(* it was read, and the properties below fail; each of them is proved for   *)
(* one process, with as few faults excluded as it allows.                   *)
(***************************************************************************)

OneProcess == \A p, q \in Procs : p = q

LEMMA GotoAt ==
    ASSUME TypeOK, NEW p \in Procs, NEW label, Goto(p, label)
    PROVE  /\ pc'[p] = label
           /\ label = "idle" => work'[p] = NoWork
           /\ label # "idle" => work'[p] = work[p]
  BY DEF TypeOK, Goto

LEMMA PortAt ==
    ASSUME TypeOK, NEW p \in Procs, pc[p] # "idle", NEW label, NEW port,
           pc' = [pc EXCEPT ![p] = label], work' = [work EXCEPT ![p].port = port]
    PROVE  /\ pc'[p] = label
           /\ work'[p].op = work[p].op /\ work'[p].owner = work[p].owner
           /\ work'[p].id = work[p].id /\ work'[p].port = port
  <1>1. work[p] \in Work
    BY WorkTyped
  <1>2. work' = [work EXCEPT ![p] = [work[p] EXCEPT !.port = port]]
    OBVIOUS
  <1> QED BY <1>1, <1>2 DEF TypeOK, Work

LEMMA BeginAt ==
    ASSUME TypeOK, NEW p \in Procs, NEW op, NEW o \in Owners, NEW label, NEW explicit,
           Begin(p, op, o, label, explicit)
    PROVE  /\ pc'[p] = label
           /\ work'[p].op = op /\ work'[p].owner = o /\ work'[p].id = ops + 1
           /\ ops \in Nat /\ ops + 1 \in Ids
           /\ UNCHANGED <<dirs, container, tokens, attach, buf>>
           /\ \A id \in Ids : id # ops + 1 => holder'[id] = holder[id]
           /\ holder'[ops + 1] = o
  BY DEF TypeOK, Begin, Ids

(***************************************************************************)
(* What is revoked stays revoked.                                          *)
(***************************************************************************)

Saving == {"issueSave", "undoSave", "revokeSave"}
BeforeIssue == {"status", "limit", "port", "rm", "issue", "issueSave"}

\* A copy that is about to be saved is the file as it is, and the token that an
\* operation is to issue is not in it yet.
FreshAt(p) ==
    /\ pc[p] \in Saving => buf[p] = tokens
    /\ pc[p] \in BeforeIssue => tokens[work[p].id] = "absent"

FreshInv == TokenInv /\ \A p \in Procs : FreshAt(p)

LEMMA BeginFresh ==
    ASSUME TokenInv, NEW p \in Procs, NEW op, NEW o \in Owners,
           NEW label \in {"status", "revoke"}, NEW explicit, Begin(p, op, o, label, explicit)
    PROVE  FreshAt(p)'
  <1>0. TypeOK
    BY DEF TokenInv
  <1>1. /\ pc'[p] = label /\ work'[p].id = ops + 1 /\ ops \in Nat /\ ops + 1 \in Ids
        /\ UNCHANGED <<dirs, container, tokens, attach, buf>>
    BY <1>0, BeginAt, Zenon
  <1>2. tokens[ops + 1] = "absent"
    BY <1>1 DEF TokenInv
  <1> QED BY <1>1, <1>2 DEF FreshAt, Saving

LEMMA StepFresh ==
    ASSUME TokenInv, NEW p \in Procs, FreshAt(p), StartStep(p) \/ StopStep(p) \/ Crash(p)
    PROVE  FreshAt(p)'
  <1>0. TypeOK /\ pc[p] # "idle"
    BY InnerStep DEF TokenInv
  <1>w. work[p].op \in {"start", "converse", "stop", "prune"} /\ WorkFits(pc[p], work[p])
    BY <1>0, WorkTyped
  <1>b. buf \in [Procs -> Tokens]
    BY <1>0 DEF TypeOK
  <1>1. CASE Status(p)
    BY <1>0, <1>1, GotoAt DEF Status, AfterStart, FreshAt, Saving, BeforeIssue
  <1>2. CASE Limit(p)
    <2>1. Goto(p, "idle") \/ Goto(p, "port")
      BY <1>2 DEF Limit
    <2> QED BY <1>0, <1>2, <2>1, GotoAt DEF Limit, FreshAt, Saving, BeforeIssue
  <1>3. CASE ChoosePort(p)
    <2>1. CASE Goto(p, "idle")
      BY <1>0, <1>3, <2>1, GotoAt DEF FreshAt, Saving, BeforeIssue
    <2>2. CASE ~Goto(p, "idle")
      <3>1. PICK port : pc' = [pc EXCEPT ![p] = "rm"] /\ work' = [work EXCEPT ![p].port = port]
        BY <1>3, <2>2, Zenon DEF ChoosePort
      <3>2. pc'[p] = "rm" /\ work'[p].id = work[p].id
        BY <1>0, <3>1, PortAt
      <3> QED BY <1>3, <3>2 DEF ChoosePort, FreshAt, Saving, BeforeIssue
    <2> QED BY <2>1, <2>2
  <1>4. CASE RemoveOld(p)
    BY <1>0, <1>4, GotoAt DEF RemoveOld, FreshAt, Saving, BeforeIssue
  <1>5. CASE Issue(p)
    BY <1>0, <1>b, <1>5, GotoAt DEF Issue, FreshAt, Saving, BeforeIssue
  <1>6. CASE IssueSave(p)
    <2>1. pc'[p] \in {"idle", "run", "attach"}
      BY <1>0, <1>6, GotoAt DEF IssueSave, TypeOK
    <2> QED BY <2>1 DEF FreshAt, Saving, BeforeIssue
  <1>7. CASE SaveAttach(p)
    BY <1>0, <1>7, GotoAt DEF SaveAttach, FreshAt, Saving, BeforeIssue
  <1>8. CASE Run(p)
    BY <1>0, <1>8, GotoAt DEF Run, AfterStart, FreshAt, Saving, BeforeIssue
  <1>9. CASE Undo(p)
    BY <1>0, <1>b, <1>9, GotoAt DEF Undo, AfterUndo, FreshAt, Saving, BeforeIssue
  <1>10. CASE UndoSave(p)
    BY <1>0, <1>10, GotoAt DEF UndoSave, AfterUndo, FreshAt, Saving, BeforeIssue
  <1>11. CASE Unattach(p)
    BY <1>0, <1>11, GotoAt DEF Unattach, AfterStart, FreshAt, Saving, BeforeIssue
  <1>12. CASE Seed(p)
    <2>1. pc'[p] \in {"idle", "reattach"}
      BY <1>0, <1>12, GotoAt DEF Seed, TypeOK
    <2> QED BY <2>1 DEF FreshAt, Saving, BeforeIssue
  <1>13. CASE Reattach(p)
    BY <1>0, <1>13, GotoAt DEF Reattach, FreshAt, Saving, BeforeIssue
  <1>14. CASE Revoke(p)
    BY <1>0, <1>b, <1>14, GotoAt DEF Revoke, AfterRevoke, FreshAt, Saving, BeforeIssue
  <1>15. CASE RevokeSave(p)
    BY <1>0, <1>15, GotoAt DEF RevokeSave, AfterRevoke, FreshAt, Saving, BeforeIssue
  <1>16. CASE Detach(p)
    BY <1>0, <1>16, GotoAt DEF Detach, FreshAt, Saving, BeforeIssue
  <1>17. CASE Remove(p)
    BY <1>0, <1>17, GotoAt DEF Remove, FreshAt, Saving, BeforeIssue
  <1>18. CASE RemoveTree(p)
    BY <1>0, <1>18, GotoAt DEF RemoveTree, FreshAt, Saving, BeforeIssue
  <1>19. CASE Crash(p)
    BY <1>0, <1>19, GotoAt DEF Crash, FreshAt, Saving, BeforeIssue
  <1> QED BY <1>1, <1>2, <1>3, <1>4, <1>5, <1>6, <1>7, <1>8, <1>9, <1>10, <1>11, <1>12,
             <1>13, <1>14, <1>15, <1>16, <1>17, <1>18, <1>19 DEF StartStep, StopStep

\* Which operation a step begins.
LEMMA BeginsOne ==
    ASSUME TypeOK, NEW p \in Procs, Start(p) \/ Converse(p) \/ Stop(p) \/ Prune(p)
    PROVE  \E o \in Owners, op \in {"start", "converse", "stop", "prune"},
              label \in {"status", "revoke"}, explicit \in BOOLEAN :
              /\ Begin(p, op, o, label, explicit)
              /\ label = "status" => ended' = ended \ {o} /\ o \in dirs \cup {Hub}
              /\ label = "revoke" => ended' = ended
  <1>1. dirs \subseteq Owners /\ Hub \in Owners
    BY DEF TypeOK, Owners
  <1>2. CASE Start(p)
    <2>1. PICK o \in dirs \cup {Hub}, explicit \in BOOLEAN :
               Begin(p, "start", o, "status", explicit) /\ ended' = ended \ {o}
      BY <1>2, Zenon DEF Start
    <2> QED BY <1>1, <2>1
  <1>3. CASE Converse(p)
    <2>1. PICK s \in dirs : Begin(p, "converse", s, "status", FALSE) /\ ended' = ended \ {s}
      BY <1>3, Zenon DEF Converse
    <2> QED BY <1>1, <2>1
  <1>4. CASE Stop(p)
    <2>1. PICK o \in Owners : Begin(p, "stop", o, "revoke", FALSE) /\ UNCHANGED ended
      BY <1>4, Zenon DEF Stop
    <2> QED BY <2>1
  <1>5. CASE Prune(p)
    <2>1. PICK s \in dirs : Begin(p, "prune", s, "revoke", FALSE) /\ UNCHANGED ended
      BY <1>5, Zenon DEF Prune
    <2> QED BY <1>1, <2>1
  <1> QED BY <1>2, <1>3, <1>4, <1>5

LEMMA InitFresh == Init => FreshInv
  <1>1. Init => TokenInv
    BY InitTokenInv
  <1> QED BY <1>1 DEF Init, FreshInv, FreshAt, Saving, BeforeIssue

LEMMA NextFresh ==
    ASSUME OneProcess
    PROVE  FreshInv /\ [Next]_vars => FreshInv'
  <1> SUFFICES ASSUME FreshInv, [Next]_vars PROVE FreshInv'
    OBVIOUS
  <1>0. TokenInv /\ TokenInv' /\ TypeOK
    BY NextTokenInv DEF FreshInv, TokenInv
  <1>1. ASSUME NEW o \in Owners, Exit(o) PROVE \A p \in Procs : FreshAt(p)'
    BY <1>1 DEF Exit, FreshInv, FreshAt
  <1>2. ASSUME NEW p \in Procs, Step(p) PROVE \A q \in Procs : FreshAt(q)'
    <2>0. FreshAt(p) /\ \A q \in Procs : q = p
      BY DEF FreshInv, OneProcess
    <2>1. CASE Start(p) \/ Converse(p) \/ Stop(p) \/ Prune(p)
      <3>1. FreshAt(p)'
        BY <1>0, <2>1, BeginsOne, BeginFresh
      <3> QED BY <2>0, <3>1
    <2>2. CASE Create(p)
      BY <2>0, <2>2 DEF Create, FreshAt
    <2>3. CASE StartStep(p) \/ StopStep(p) \/ Crash(p)
      <3>1. FreshAt(p)'
        BY <1>0, <2>0, <2>3, StepFresh
      <3> QED BY <2>0, <3>1
    <2> QED BY <1>2, <2>1, <2>2, <2>3 DEF Step
  <1>3. ASSUME UNCHANGED vars PROVE \A p \in Procs : FreshAt(p)'
    BY <1>3 DEF vars, FreshInv, FreshAt
  <1> QED BY <1>0, <1>1, <1>2, <1>3 DEF Next, FreshInv

\* A token that was revoked is never accepted again, if one process works on
\* containers, whatever fails and wherever that process dies.
THEOREM RevokedStays ==
    ASSUME OneProcess
    PROVE  Spec => RevokedForGood
  <1> DEFINE Kept == \A id \in Ids : tokens[id] = "revoked" => tokens'[id] = "revoked"
  <1>1. FreshInv /\ [Next]_vars => [Kept]_vars
    <2> SUFFICES ASSUME FreshInv, [Next]_vars, NEW id \in Ids, tokens[id] = "revoked",
                        tokens' # tokens
                 PROVE  tokens'[id] = "revoked"
      BY DEF vars
    <2>0. TypeOK /\ tokens \in Tokens
      BY DEF FreshInv, TokenInv, TypeOK
    <2>1. PICK p \in Procs : IssueSave(p) \/ UndoSave(p) \/ RevokeSave(p)
      BY DEF Next, vars, Exit, Step, Start, Converse, Stop, Prune, Begin, Create, StartStep,
             Status, Limit, ChoosePort, RemoveOld, Issue, SaveAttach, Run, Undo, Unattach,
             Seed, Reattach, StopStep, Revoke, Detach, Remove, RemoveTree, Crash
    <2>2. FreshAt(p)
      BY DEF FreshInv
    <2>3. work[p].id \in Ids
      BY <2>0, <2>1, WorkTyped DEF IssueSave, UndoSave, RevokeSave
    <2>4. CASE IssueSave(p)
      BY <2>0, <2>2, <2>3, <2>4
         DEF IssueSave, FreshAt, Saving, BeforeIssue, Issued, RevokedOf, ActiveOf, Tokens
    <2>5. CASE UndoSave(p)
      BY <2>0, <2>2, <2>3, <2>5 DEF UndoSave, FreshAt, Saving, Tokens
    <2>6. CASE RevokeSave(p)
      BY <2>0, <2>2, <2>6 DEF RevokeSave, FreshAt, Saving, RevokedOf, ActiveOf
    <2> QED BY <2>1, <2>4, <2>5, <2>6
  <1>2. Spec => []FreshInv
    BY InitFresh, NextFresh, PTL DEF Spec
  <1> QED BY <1>1, <1>2, PTL DEF Spec, RevokedForGood

(***************************************************************************)
(* What is stopped stays stopped.                                          *)
(***************************************************************************)

Starting == BeforeIssue \cup
            {"attach", "run", "undo", "undoSave", "unattach", "seed", "reattach"}

\* Control within the start of a container and the conversation after it.
LEMMA StartControl ==
    ASSUME TypeOK, NEW p \in Procs, StartStep(p)
    PROVE  /\ pc[p] \in Starting
           /\ pc'[p] \in Starting \cup {"idle"}
           /\ pc'[p] # "idle" => work'[p].owner = work[p].owner /\ work'[p].id = work[p].id
           /\ UNCHANGED <<dirs, holder, ended>>
  <1>0. pc[p] # "idle"
    BY InnerStep
  <1>w. work[p].op \in {"start", "converse", "stop", "prune"}
    BY <1>0, WorkTyped
  <1>1. pc[p] \in Starting /\ UNCHANGED <<dirs, holder, ended>>
    BY DEF StartStep, Status, Limit, ChoosePort, RemoveOld, Issue, IssueSave, SaveAttach, Run,
           Undo, UndoSave, Unattach, Seed, Reattach, Starting, BeforeIssue
  <1>2. \/ \E label \in Starting \cup {"idle"} : Goto(p, label)
        \/ \E label \in Starting : \E port :
              pc' = [pc EXCEPT ![p] = label] /\ work' = [work EXCEPT ![p].port = port]
    <2>1. CASE Status(p)
      BY <2>1 DEF Status, AfterStart, Starting, BeforeIssue
    <2>2. CASE Limit(p)
      BY <2>2 DEF Limit, Starting, BeforeIssue
    <2>3. CASE ChoosePort(p)
      BY <2>3, "rm" \in Starting, Zenon DEF ChoosePort, Starting, BeforeIssue
    <2>4. CASE RemoveOld(p) \/ Issue(p)
      BY <2>4 DEF RemoveOld, Issue, Starting, BeforeIssue
    <2>5. CASE IssueSave(p)
      <3>1. \/ Goto(p, "idle") \/ Goto(p, "attach")
            \/ pc' = [pc EXCEPT ![p] = "run"] /\ work' = [work EXCEPT ![p].port = HubPort]
        BY <2>5 DEF IssueSave
      <3> QED BY <3>1, Zenon DEF Starting, BeforeIssue
    <2>6. CASE SaveAttach(p) \/ Run(p)
      BY <2>6 DEF SaveAttach, Run, AfterStart, Starting, BeforeIssue
    <2>7. CASE Undo(p) \/ UndoSave(p) \/ Unattach(p)
      BY <2>7 DEF Undo, UndoSave, Unattach, AfterUndo, AfterStart, Starting, BeforeIssue
    <2>8. CASE Seed(p)
      BY <2>8, Zenon DEF Seed, Starting, BeforeIssue
    <2>9. CASE Reattach(p)
      BY <2>9 DEF Reattach, Starting, BeforeIssue
    <2> QED BY <2>1, <2>2, <2>3, <2>4, <2>5, <2>6, <2>7, <2>8, <2>9 DEF StartStep
  <1>3. CASE \E label \in Starting \cup {"idle"} : Goto(p, label)
    BY <1>1, <1>3, GotoAt
  <1>4. CASE \E label \in Starting : \E port :
              pc' = [pc EXCEPT ![p] = label] /\ work' = [work EXCEPT ![p].port = port]
    <2>1. PICK label \in Starting : \E port :
              pc' = [pc EXCEPT ![p] = label] /\ work' = [work EXCEPT ![p].port = port]
      BY <1>4
    <2>2. PICK port : pc' = [pc EXCEPT ![p] = label] /\ work' = [work EXCEPT ![p].port = port]
      BY <2>1
    <2> QED BY <1>0, <1>1, <2>2, PortAt
  <1> QED BY <1>2, <1>3, <1>4

\* A step of an operation leaves alone what is another owner's.
LEMMA OthersKept ==
    ASSUME FreshInv, NEW p \in Procs, StartStep(p) \/ StopStep(p) \/ Crash(p),
           NEW o \in Owners, o # work[p].owner
    PROVE  /\ container'[o] = container[o]
           /\ o \in Sessions => attach'[o] = attach[o]
           /\ \A id \in Ids : holder[id] = o => tokens'[id] = tokens[id]
           /\ holder' = holder
  <1>0. TypeOK /\ pc[p] # "idle"
    BY InnerStep DEF FreshInv, TokenInv
  <1>1. /\ container \in [Owners -> Container \cup {NoContainer}]
        /\ attach \in [Sessions -> Ports \cup {NoPort}] /\ tokens \in Tokens
    BY <1>0 DEF TypeOK
  <1>2. container'[o] = container[o]
    BY <1>1 DEF StartStep, Status, Limit, ChoosePort, RemoveOld, Issue, IssueSave, SaveAttach,
           Run, Launched, Undo, UndoSave, Unattach, Seed, Reattach,
           StopStep, Revoke, RevokeSave, Detach, Remove, RemoveTree, Crash
  <1>3. o \in Sessions => attach'[o] = attach[o]
    BY <1>1 DEF StartStep, Status, Limit, ChoosePort, RemoveOld, Issue, IssueSave, SaveAttach,
           Run, Undo, UndoSave, Unattach, Seed, Reattach,
           StopStep, Revoke, RevokeSave, Detach, Remove, RemoveTree, Crash
  <1>4. holder' = holder
    BY InnerStep, <1>0 DEF SameWork
  <1>5. ASSUME NEW id \in Ids, holder[id] = o PROVE tokens'[id] = tokens[id]
    <2>1. \/ tokens' = tokens
          \/ IssueSave(p) \/ UndoSave(p) \/ RevokeSave(p)
      BY DEF StartStep, Status, Limit, ChoosePort, RemoveOld, Issue, SaveAttach,
           Run, Undo, Unattach, Seed, Reattach,
           StopStep, Revoke, Detach, Remove, RemoveTree, Crash
    <2>2. holder[work[p].id] = work[p].owner /\ FreshAt(p)
      BY <1>0 DEF FreshInv, TokenInv
    <2>3. CASE IssueSave(p)
      BY <1>1, <1>5, <2>2, <2>3
         DEF IssueSave, FreshAt, Saving, Issued, RevokedOf, ActiveOf, Tokens
    <2>4. CASE UndoSave(p)
      BY <1>1, <1>5, <2>2, <2>4 DEF UndoSave, FreshAt, Saving, Tokens
    <2>5. CASE RevokeSave(p)
      BY <1>5, <2>2, <2>5 DEF RevokeSave, FreshAt, Saving, RevokedOf, ActiveOf
    <2> QED BY <2>1, <2>3, <2>4, <2>5
  <1> QED BY <1>2, <1>3, <1>4, <1>5

Stopped(o) ==
    /\ ActiveOf(tokens, o) = {}
    /\ ~Running(o)
    /\ o # Hub => attach[o] = NoPort

\* Nothing is started for an owner that counts as stopped, and a stop undoes
\* one thing after the other.
StopAt(p) ==
    /\ pc[p] \in Starting => work[p].owner \notin ended
    /\ pc[p] \in {"detach", "remove"} => ActiveOf(tokens, work[p].owner) = {}
    /\ pc[p] = "remove" /\ work[p].owner # Hub => attach[work[p].owner] = NoPort

StopInv ==
    /\ FreshInv
    /\ \A o \in ended : Stopped(o)
    /\ \A p \in Procs : StopAt(p)

LEMMA OthersStopped ==
    ASSUME FreshInv, NEW p \in Procs, StartStep(p) \/ StopStep(p) \/ Crash(p),
           NEW o \in Owners, o # work[p].owner, Stopped(o)
    PROVE  Stopped(o)'
  <1>1. /\ container'[o] = container[o]
        /\ o \in Sessions => attach'[o] = attach[o]
        /\ \A id \in Ids : holder[id] = o => tokens'[id] = tokens[id]
        /\ holder' = holder
    BY OthersKept
  <1> QED BY <1>1 DEF Stopped, ActiveOf, Running, Owners

LEMMA StopStepStops ==
    ASSUME FreshInv, "rm" \notin Faults, NEW p \in Procs, StopAt(p), StopStep(p),
           NEW o, o = work[p].owner, o \in ended => Stopped(o)
    PROVE  /\ StopAt(p)'
           /\ o \in ended' => Stopped(o)'
           /\ ended' \subseteq ended \cup {o}
  <1>0. /\ TypeOK /\ pc[p] # "idle" /\ FreshAt(p) /\ UNCHANGED holder
    BY InnerStep DEF FreshInv, TokenInv, SameWork
  <1>w. o \in Owners /\ WorkFits(pc[p], work[p])
    BY <1>0, WorkTyped
  <1>t. /\ container \in [Owners -> Container \cup {NoContainer}]
        /\ attach \in [Sessions -> Ports \cup {NoPort}] /\ tokens \in Tokens
    BY <1>0 DEF TypeOK
  <1>1. CASE Revoke(p)
    <2>1. UNCHANGED <<tokens, container, attach, ended>>
      BY <1>1 DEF Revoke
    <2>2. \/ pc'[p] = "revokeSave"
          \/ /\ ActiveOf(tokens, o) = {} /\ work'[p] = work[p]
             /\ pc'[p] = IF o = Hub THEN "remove" ELSE "detach"
      BY <1>0, <1>1, GotoAt DEF Revoke, AfterRevoke
    <2>3. Stopped(o)' = Stopped(o) /\ ActiveOf(tokens, o)' = ActiveOf(tokens, o)
      BY <1>0, <2>1 DEF Stopped, ActiveOf, Running
    <2> QED BY <1>0, <2>1, <2>2, <2>3 DEF StopAt, Starting, BeforeIssue, ActiveOf
  <1>2. CASE RevokeSave(p)
    <2>1. /\ UNCHANGED <<container, attach, ended>> /\ tokens' = RevokedOf(tokens, o)
          /\ work'[p] = work[p] /\ pc'[p] = IF o = Hub THEN "remove" ELSE "detach"
      BY <1>0, <1>2, GotoAt DEF RevokeSave, FreshAt, Saving, AfterRevoke
    <2>2. ActiveOf(tokens, o)' = {}
      BY <1>0, <2>1 DEF ActiveOf, RevokedOf
    <2> QED BY <2>1, <2>2 DEF StopAt, Stopped, Starting, BeforeIssue, ActiveOf, Running
  <1>3. CASE Detach(p)
    <2>1. /\ UNCHANGED <<container, tokens, ended>> /\ attach' = [attach EXCEPT ![o] = NoPort]
          /\ work'[p] = work[p] /\ pc'[p] = "remove"
      BY <1>0, <1>3, GotoAt DEF Detach
    <2>2. ActiveOf(tokens, o)' = {} /\ attach'[o] = NoPort
      BY <1>0, <1>3, <1>t, <1>w, <2>1 DEF ActiveOf, StopAt, Detach, WorkFits
    <2> QED BY <2>1, <2>2 DEF StopAt, Stopped, Starting, BeforeIssue, ActiveOf, Running
  <1>4. CASE Remove(p)
    <2>1. /\ UNCHANGED <<attach, tokens>> /\ container' = [container EXCEPT ![o] = NoContainer]
          /\ ended' = ended \cup {o}
      BY <1>4 DEF Remove
    <2>2. pc'[p] \in {"idle", "rmtree"}
      BY <1>0, <1>4, GotoAt DEF Remove
    <2>3. Stopped(o)'
      BY <1>0, <1>4, <1>t, <1>w, <2>1 DEF Stopped, Remove, StopAt, ActiveOf, Running, NoContainer
    <2> QED BY <2>1, <2>2, <2>3 DEF StopAt, Starting, BeforeIssue
  <1>5. CASE RemoveTree(p)
    <2>1. UNCHANGED <<tokens, container, attach, ended>> /\ pc'[p] = "idle"
      BY <1>0, <1>5, GotoAt DEF RemoveTree
    <2>2. Stopped(o)' = Stopped(o)
      BY <1>0, <2>1 DEF Stopped, ActiveOf, Running
    <2> QED BY <2>1, <2>2 DEF StopAt, Starting, BeforeIssue
  <1> QED BY <1>1, <1>2, <1>3, <1>4, <1>5 DEF StopStep

LEMMA InitStop == Init => StopInv
  BY InitFresh DEF Init, StopInv, StopAt, Starting, BeforeIssue

LEMMA NextStop ==
    ASSUME OneProcess, "rm" \notin Faults
    PROVE  StopInv /\ [Next]_vars => StopInv'
  <1> SUFFICES ASSUME StopInv, [Next]_vars PROVE StopInv'
    OBVIOUS
  <1>0. /\ FreshInv /\ FreshInv' /\ TokenInv /\ TypeOK /\ ended \subseteq Owners
    BY NextFresh DEF StopInv, FreshInv, TokenInv, TypeOK
  <1> DEFINE Both == (\A o \in ended : Stopped(o)) /\ \A p \in Procs : StopAt(p)
  <1>i. Both
    BY DEF StopInv
  <1>1. ASSUME NEW o \in Owners, Exit(o) PROVE Both'
    <2>1. /\ UNCHANGED <<tokens, attach, pc, work, ended, holder>>
          /\ \A q \in Owners : Running(q)' => Running(q)
      BY <1>0, <1>1 DEF Exit, Running, TypeOK
    <2>2. \A q \in Owners : ActiveOf(tokens, q)' = ActiveOf(tokens, q)
      BY <2>1 DEF ActiveOf
    <2>3. \A q \in ended : Stopped(q)'
      BY <1>0, <1>i, <2>1, <2>2 DEF Stopped
    <2>4. ASSUME NEW p \in Procs PROVE StopAt(p)'
      BY <1>i, <2>1 DEF StopAt, ActiveOf
    <2> QED BY <2>1, <2>3, <2>4
  <1>2. ASSUME NEW p \in Procs, Step(p) PROVE Both'
    <2>0. StopAt(p) /\ \A q \in Procs : q = p
      BY <1>i DEF OneProcess
    <2>1. CASE Start(p) \/ Converse(p) \/ Stop(p) \/ Prune(p)
      <3>1. PICK o \in Owners, op \in {"start", "converse", "stop", "prune"},
                 label \in {"status", "revoke"}, explicit \in BOOLEAN :
              /\ Begin(p, op, o, label, explicit)
              /\ label = "status" => ended' = ended \ {o} /\ o \in dirs \cup {Hub}
              /\ label = "revoke" => ended' = ended
        BY <1>0, <2>1, BeginsOne
      <3>2. /\ pc'[p] = label /\ work'[p].owner = o
            /\ UNCHANGED <<dirs, container, tokens, attach, buf>>
            /\ ops \in Nat /\ ops + 1 \in Ids
            /\ \A id \in Ids : id # ops + 1 => holder'[id] = holder[id]
        BY <1>0, <3>1, BeginAt, Zenon
      <3>3. StopAt(p)'
        BY <3>1, <3>2 DEF StopAt, Starting, BeforeIssue
      <3>4. tokens[ops + 1] = "absent"
        BY <1>0, <3>2 DEF TokenInv
      <3>5. \A q \in Owners : ActiveOf(tokens, q)' \subseteq ActiveOf(tokens, q)
        BY <3>2, <3>4 DEF ActiveOf
      <3>6. ended' \subseteq ended
        BY <3>1
      <3>7. \A q \in ended' : Stopped(q)'
        BY <1>0, <1>i, <3>2, <3>5, <3>6 DEF Stopped, Running
      <3> QED BY <2>0, <3>3, <3>7
    <2>2. CASE Create(p)
      <3>1. UNCHANGED <<tokens, container, attach, pc, work, ended, holder>>
        BY <2>2 DEF Create
      <3> QED BY <1>i, <3>1 DEF StopAt, Stopped, ActiveOf, Running
    <2>3. CASE StartStep(p)
      <3>1. /\ pc[p] \in Starting /\ pc'[p] \in Starting \cup {"idle"}
            /\ pc'[p] # "idle" => work'[p].owner = work[p].owner
            /\ UNCHANGED ended
        BY <1>0, <2>3, StartControl
      <3>2. work[p].owner \notin ended /\ StopAt(p)'
        BY <2>0, <3>1 DEF StopAt, Starting, BeforeIssue
      <3>3. \A q \in ended' : Stopped(q)'
        BY <1>0, <1>i, <2>3, <3>1, <3>2, OthersStopped
      <3> QED BY <2>0, <3>2, <3>3
    <2>4. CASE StopStep(p)
      <3>1. \A o : o = work[p].owner =>
               /\ StopAt(p)'
               /\ o \in ended' => Stopped(o)'
               /\ ended' \subseteq ended \cup {o}
        BY <1>0, <1>i, <2>0, <2>4, StopStepStops
      <3>2. ASSUME NEW q \in ended' PROVE Stopped(q)'
        <4>1. q \in Owners
          BY <1>0 DEF StopInv, FreshInv, TokenInv, TypeOK
        <4>2. CASE q = work[p].owner
          BY <3>1, <4>2
        <4>3. CASE q # work[p].owner
          BY <1>0, <1>i, <2>4, <3>1, <4>1, <4>3, OthersStopped
        <4> QED BY <4>2, <4>3
      <3> QED BY <2>0, <3>1, <3>2
    <2>5. CASE Crash(p)
      <3>1. UNCHANGED <<tokens, container, attach, ended, holder>> /\ pc'[p] = "idle"
        BY <1>0, <2>5, GotoAt DEF Crash
      <3> QED BY <1>i, <2>0, <3>1 DEF StopAt, Stopped, ActiveOf, Running, Starting, BeforeIssue
    <2> QED BY <1>2, <2>1, <2>2, <2>3, <2>4, <2>5 DEF Step
  <1>3. ASSUME UNCHANGED vars PROVE Both'
    BY <1>i, <1>3 DEF vars, StopAt, Stopped, ActiveOf, Running
  <1> QED BY <1>0, <1>1, <1>2, <1>3 DEF Next, StopInv

\* Once stopped, an owner has no token that is accepted, no container and no
\* port until it is started again: if one process works on containers and
\* `docker rm` does what it is told, wherever that process dies.
THEOREM StoppedStays ==
    ASSUME OneProcess, "rm" \notin Faults
    PROVE  Spec => []StopRevokes
  <1>1. StopInv => StopRevokes
    BY DEF StopInv, StopRevokes, Stopped
  <1> QED BY <1>1, InitStop, NextStop, PTL DEF Spec

(***************************************************************************)
(* No two sessions are told the same port.                                 *)
(***************************************************************************)

\* Every session may have a port in its attach state and another one that its
\* container listens on, and so may the hub.
EnoughPorts == IsFiniteSet(Sessions) /\ 2 * Cardinality(Sessions) < Cardinality(Ports)

LEMMA FreePortLeft ==
    ASSUME TypeOK, EnoughPorts, NEW s \in Sessions, attach[s] = NoPort
    PROVE  FreePorts # {}
  <1> DEFINE Others == Sessions \ {s}
             Reserved == {attach[t] : t \in Others}
             Serving == {o \in Owners : Running(o)}
  <1>1. /\ IsFiniteSet(Others) /\ Cardinality(Others) = Cardinality(Sessions) - 1
        /\ Cardinality(Sessions) \in Nat /\ Cardinality(Others) \in Nat
    BY FS_RemoveElement, FS_CardinalityType DEF EnoughPorts
  <1>2. IsFiniteSet(Reserved) /\ Cardinality(Reserved) <= Cardinality(Others)
    <2>1. [t \in Others |-> attach[t]] \in Surjection(Others, Reserved)
      BY DEF Surjection
    <2> QED BY <1>1, <2>1, FS_Surjection
  <1>3. IsFiniteSet(Owners) /\ Cardinality(Owners) = Cardinality(Sessions) + 1
    BY FS_AddElement DEF EnoughPorts, Owners
  <1>4. IsFiniteSet(Serving) /\ Cardinality(Serving) <= Cardinality(Owners)
    BY <1>3, FS_Subset
  <1>5. IsFiniteSet(Bound) /\ Cardinality(Bound) <= Cardinality(Serving)
    <2>1. [o \in Serving |-> container[o].port] \in Surjection(Serving, Bound)
      BY DEF Surjection, Bound
    <2> QED BY <1>4, <2>1, FS_Surjection
  <1>6. /\ IsFiniteSet(Reserved \cup Bound)
        /\ Cardinality(Reserved \cup Bound) <= Cardinality(Reserved) + Cardinality(Bound)
    <2>1. IsFiniteSet(Reserved \cap Bound)
      BY <1>2, FS_Intersection
    <2> HIDE DEF Reserved
    <2>2. /\ Cardinality(Reserved \cap Bound) \in Nat /\ Cardinality(Reserved) \in Nat
          /\ Cardinality(Bound) \in Nat
      BY <1>2, <1>5, <2>1, FS_CardinalityType
    <2>3. /\ IsFiniteSet(Reserved \cup Bound)
          /\ Cardinality(Reserved \cup Bound) =
                Cardinality(Reserved) + Cardinality(Bound) - Cardinality(Reserved \cap Bound)
      BY <1>2, <1>5, FS_Union
    <2> QED BY <2>2, <2>3
  <1>7. SUFFICES ASSUME FreePorts = {} PROVE FALSE
    OBVIOUS
  <1>8. Ports \subseteq Reserved \cup Bound
    <2> SUFFICES ASSUME NEW q \in Ports, q \notin Bound PROVE q \in Reserved
      OBVIOUS
    <2>1. PICK t \in Sessions : q = attach[t]
      BY <1>7 DEF FreePorts
    <2>2. t # s
      BY <2>1 DEF NoPort
    <2> QED BY <2>1, <2>2
  <1>9. Cardinality(Ports) <= Cardinality(Reserved \cup Bound) /\ IsFiniteSet(Ports)
    BY <1>6, <1>8, FS_Subset
  <1> HIDE DEF Others, Reserved, Serving
  <1>10. /\ Cardinality(Ports) \in Nat /\ Cardinality(Reserved \cup Bound) \in Nat
         /\ Cardinality(Reserved) \in Nat /\ Cardinality(Bound) \in Nat
         /\ Cardinality(Serving) \in Nat
    BY <1>2, <1>4, <1>5, <1>6, <1>9, FS_CardinalityType
  <1> QED BY <1>1, <1>2, <1>3, <1>4, <1>5, <1>6, <1>9, <1>10 DEF EnoughPorts

\* The port a start has chosen is no other session's, and a conversation saves
\* the port it has read.
OfferAt(p) ==
    /\ pc[p] \in {"rm", "issue", "issueSave", "attach"} /\ work[p].owner # Hub =>
           \A t \in Sessions : t # work[p].owner => attach[t] # work[p].port
    /\ pc[p] = "reattach" => attach[work[p].owner] = work[p].port

PortInv == TypeOK /\ PortsDistinct /\ \A p \in Procs : OfferAt(p)

LEMMA StepOffers ==
    ASSUME TypeOK, PortsDistinct, EnoughPorts, NEW p \in Procs, OfferAt(p),
           StartStep(p) \/ StopStep(p) \/ Crash(p)
    PROVE  PortsDistinct' /\ OfferAt(p)'
  <1>0. pc[p] # "idle" /\ attach \in [Sessions -> Ports \cup {NoPort}]
    BY InnerStep DEF TypeOK
  <1>w. /\ work[p].op \in {"start", "converse", "stop", "prune"}
        /\ work[p].owner \in Owners /\ WorkFits(pc[p], work[p])
    BY <1>0, WorkTyped
  <1> DEFINE o == work[p].owner
             Offering == {"rm", "issue", "issueSave", "attach", "reattach"}
  <1>a. ASSUME attach' = attach PROVE PortsDistinct'
    BY <1>a DEF PortsDistinct
  <1>b. ASSUME pc'[p] \notin Offering PROVE OfferAt(p)'
    BY <1>b DEF OfferAt
  <1>c. ASSUME NEW s \in Sessions, attach' = [attach EXCEPT ![s] = NoPort] PROVE PortsDistinct'
    BY <1>0, <1>c DEF PortsDistinct
  <1>1. CASE Status(p)
    <2>1. \/ pc'[p] \notin Offering
          \/ pc'[p] = "rm" /\ work'[p] = work[p] /\ o = Hub
      BY <1>0, <1>1, GotoAt DEF Status, AfterStart
    <2> QED BY <1>1, <1>a, <1>b, <2>1 DEF Status, OfferAt
  <1>2. CASE Limit(p)
    <2>1. Goto(p, "idle") \/ Goto(p, "port")
      BY <1>2 DEF Limit
    <2>2. pc'[p] \notin Offering
      BY <1>0, <2>1, GotoAt
    <2> QED BY <1>2, <1>a, <1>b, <2>2 DEF Limit
  <1>3. CASE ChoosePort(p)
    <2>0. o \in Sessions
      BY <1>3, <1>w DEF ChoosePort, WorkFits
    <2>1. CASE Goto(p, "idle")
      <3>1. pc'[p] \notin Offering
        BY <1>0, <2>1, GotoAt
      <3> QED BY <1>3, <1>a, <1>b, <3>1 DEF ChoosePort
    <2>2. CASE ~Goto(p, "idle")
      <3> DEFINE choice == IF attach[o] # NoPort THEN {attach[o]}
                           ELSE {q \in FreePorts : \A r \in FreePorts : q <= r}
      <3>1. attach[o] = NoPort => FreePorts # {}
        BY <2>0, FreePortLeft
      <3>2. PICK q \in choice : pc' = [pc EXCEPT ![p] = "rm"] /\ work' = [work EXCEPT ![p].port = q]
        BY <1>3, <2>2, <3>1 DEF ChoosePort
      <3>3. \A t \in Sessions : t # o => attach[t] # q
        <4>1. CASE attach[o] # NoPort
          BY <2>0, <3>2, <4>1 DEF PortsDistinct
        <4>2. CASE attach[o] = NoPort
          BY <3>2, <4>2 DEF FreePorts
        <4> QED BY <4>1, <4>2
      <3>4. pc'[p] = "rm" /\ work'[p].owner = o /\ work'[p].port = q
        BY <1>0, <3>2, PortAt, Zenon
      <3> QED BY <1>3, <1>a, <3>3, <3>4 DEF ChoosePort, OfferAt
    <2> QED BY <2>1, <2>2
  <1>4. CASE RemoveOld(p)
    <2>1. UNCHANGED attach /\ pc'[p] = "issue" /\ work'[p] = work[p] /\ pc[p] = "rm"
      BY <1>0, <1>4, GotoAt DEF RemoveOld
    <2> QED BY <1>a, <2>1 DEF OfferAt
  <1>5. CASE Issue(p)
    <2>1. UNCHANGED attach /\ pc'[p] = "issueSave" /\ work'[p] = work[p] /\ pc[p] = "issue"
      BY <1>0, <1>5, GotoAt DEF Issue
    <2> QED BY <1>a, <2>1 DEF OfferAt
  <1>6. CASE IssueSave(p)
    <2>1. UNCHANGED attach /\ pc[p] = "issueSave"
      BY <1>6 DEF IssueSave
    <2>2. \/ pc'[p] \notin Offering
          \/ pc'[p] = "attach" /\ work'[p] = work[p]
      BY <1>0, <1>6, GotoAt DEF IssueSave, TypeOK
    <2> QED BY <1>a, <1>b, <2>1, <2>2 DEF OfferAt
  <1>7. CASE SaveAttach(p)
    <2>1. attach' = [attach EXCEPT ![o] = work[p].port] /\ pc'[p] \notin Offering
      BY <1>0, <1>7, GotoAt DEF SaveAttach
    <2>2. o \in Sessions /\ \A t \in Sessions : t # o => attach[t] # work[p].port
      BY <1>7, <1>w DEF SaveAttach, WorkFits, OfferAt
    <2>3. PortsDistinct'
      BY <1>0, <2>1, <2>2 DEF PortsDistinct
    <2> QED BY <1>b, <2>1, <2>3
  <1>8. CASE Run(p)
    <2>1. UNCHANGED attach /\ pc'[p] \notin Offering
      BY <1>0, <1>8, GotoAt DEF Run, AfterStart
    <2> QED BY <1>a, <1>b, <2>1
  <1>9. CASE Undo(p)
    <2>1. UNCHANGED attach /\ pc'[p] \notin Offering
      BY <1>0, <1>9, GotoAt DEF Undo, AfterUndo
    <2> QED BY <1>a, <1>b, <2>1
  <1>10. CASE UndoSave(p)
    <2>1. UNCHANGED attach /\ pc'[p] \notin Offering
      BY <1>0, <1>10, GotoAt DEF UndoSave, AfterUndo
    <2> QED BY <1>a, <1>b, <2>1
  <1>11. CASE Unattach(p)
    <2>1. attach' = [attach EXCEPT ![o] = NoPort] /\ pc'[p] \notin Offering /\ o \in Sessions
      BY <1>0, <1>11, <1>w, GotoAt DEF Unattach, AfterStart, WorkFits
    <2> QED BY <1>b, <1>c, <2>1
  <1>12. CASE Seed(p)
    <2>1. UNCHANGED attach
      BY <1>12 DEF Seed
    <2>2. CASE Goto(p, "idle")
      <3>1. pc'[p] \notin Offering
        BY <1>0, <2>2, GotoAt
      <3> QED BY <1>a, <1>b, <2>1, <3>1
    <2>3. CASE ~Goto(p, "idle")
      <3>1. PICK q : /\ q = attach[o]
                     /\ pc' = [pc EXCEPT ![p] = "reattach"] /\ work' = [work EXCEPT ![p].port = q]
        BY <1>12, <2>3 DEF Seed
      <3>2. pc'[p] = "reattach" /\ work'[p].owner = o /\ work'[p].port = q
        <4>1. pc' = [pc EXCEPT ![p] = "reattach"] /\ work' = [work EXCEPT ![p].port = q]
          BY <3>1
        <4> QED BY <1>0, <4>1, PortAt, Zenon
      <3> QED BY <1>a, <2>1, <3>1, <3>2 DEF OfferAt
    <2> QED BY <2>2, <2>3
  <1>13. CASE Reattach(p)
    <2>1. attach' = attach /\ pc'[p] \notin Offering
      BY <1>0, <1>13, GotoAt DEF Reattach, OfferAt
    <2> QED BY <1>a, <1>b, <2>1
  <1>14. CASE Revoke(p)
    <2>1. UNCHANGED attach /\ pc'[p] \notin Offering
      BY <1>0, <1>14, GotoAt DEF Revoke, AfterRevoke
    <2> QED BY <1>a, <1>b, <2>1
  <1>15. CASE RevokeSave(p)
    <2>1. UNCHANGED attach /\ pc'[p] \notin Offering
      BY <1>0, <1>15, GotoAt DEF RevokeSave, AfterRevoke
    <2> QED BY <1>a, <1>b, <2>1
  <1>16. CASE Detach(p)
    <2>1. attach' = [attach EXCEPT ![o] = NoPort] /\ pc'[p] \notin Offering /\ o \in Sessions
      BY <1>0, <1>16, <1>w, GotoAt DEF Detach, WorkFits
    <2> QED BY <1>b, <1>c, <2>1
  <1>17. CASE Remove(p)
    <2>1. UNCHANGED attach /\ pc'[p] \notin Offering
      BY <1>0, <1>17, GotoAt DEF Remove
    <2> QED BY <1>a, <1>b, <2>1
  <1>18. CASE RemoveTree(p) \/ Crash(p)
    <2>1. UNCHANGED attach /\ pc'[p] \notin Offering
      BY <1>0, <1>18, GotoAt DEF RemoveTree, Crash
    <2> QED BY <1>a, <1>b, <2>1
  <1> QED BY <1>1, <1>2, <1>3, <1>4, <1>5, <1>6, <1>7, <1>8, <1>9, <1>10, <1>11, <1>12,
             <1>13, <1>14, <1>15, <1>16, <1>17, <1>18 DEF StartStep, StopStep

LEMMA NextPorts ==
    ASSUME OneProcess, EnoughPorts
    PROVE  PortInv /\ [Next]_vars => PortInv'
  <1> SUFFICES ASSUME PortInv, [Next]_vars PROVE PortInv'
    OBVIOUS
  <1>0. TypeOK /\ TypeOK' /\ PortsDistinct
    BY NextTyped DEF PortInv
  <1> DEFINE Offers == \A p \in Procs : OfferAt(p)
  <1>i. Offers
    BY DEF PortInv
  <1>1. ASSUME NEW o \in Owners, Exit(o) PROVE PortsDistinct' /\ Offers'
    BY <1>0, <1>i, <1>1 DEF Exit, PortsDistinct, OfferAt
  <1>2. ASSUME NEW p \in Procs, Step(p) PROVE PortsDistinct' /\ Offers'
    <2>0. OfferAt(p) /\ \A q \in Procs : q = p
      BY <1>i DEF OneProcess
    <2>1. CASE Start(p) \/ Converse(p) \/ Stop(p) \/ Prune(p)
      <3>1. PICK o \in Owners, op \in {"start", "converse", "stop", "prune"},
                 label \in {"status", "revoke"}, explicit \in BOOLEAN :
              Begin(p, op, o, label, explicit)
        BY <1>0, <2>1, BeginsOne
      <3>2. pc'[p] = label /\ UNCHANGED <<dirs, container, tokens, attach, buf>>
        BY <1>0, <3>1, BeginAt, Zenon
      <3>3. OfferAt(p)'
        BY <3>1, <3>2 DEF OfferAt
      <3> QED BY <1>0, <2>0, <3>2, <3>3 DEF PortsDistinct
    <2>2. CASE Create(p)
      BY <1>0, <1>i, <2>2 DEF Create, PortsDistinct, OfferAt
    <2>3. CASE StartStep(p) \/ StopStep(p) \/ Crash(p)
      <3>1. PortsDistinct' /\ OfferAt(p)'
        BY <1>0, <2>0, <2>3, StepOffers
      <3> QED BY <2>0, <3>1
    <2> QED BY <1>2, <2>1, <2>2, <2>3 DEF Step
  <1>3. ASSUME UNCHANGED vars PROVE PortsDistinct' /\ Offers'
    BY <1>0, <1>i, <1>3 DEF vars, PortsDistinct, OfferAt
  <1> QED BY <1>0, <1>1, <1>2, <1>3 DEF Next, PortInv

\* No two sessions are told the same port, if one process works on containers
\* and there are ports to choose from, whatever fails and wherever it dies.
THEOREM PortsAreDistinct ==
    ASSUME OneProcess, EnoughPorts
    PROVE  Spec => []PortsDistinct
  <1>1. Init => PortInv
    BY InitTyped DEF Init, PortInv, PortsDistinct, OfferAt
  <1>2. PortInv => PortsDistinct
    BY DEF PortInv
  <1> QED BY <1>1, <1>2, NextPorts, PTL DEF Spec

(***************************************************************************)
(* No more sessions run than the policy allows.                            *)
(***************************************************************************)

RunningSessions == {s \in Sessions : Running(s)}
Admitted == {"port", "rm", "issue", "issueSave", "attach", "run"}

\* A session that has passed the limit still leaves room for itself, and the
\* containers that count are those of the sessions that have a directory.
LimitAt(p) ==
    /\ pc[p] \in Starting /\ work[p].owner # Hub => work[p].owner \in dirs
    /\ pc[p] \in Admitted /\ work[p].owner # Hub /\ MaxConcurrent > 0 =>
           Cardinality(RunningSessions \ {work[p].owner}) < MaxConcurrent
    /\ pc[p] = "rmtree" => ~Running(work[p].owner)

Counted ==
    /\ IsFiniteSet(RunningSessions)
    /\ RunningSessions \subseteq dirs
    /\ WithinLimit

LimitInv == TypeOK /\ Counted /\ \A p \in Procs : LimitAt(p)

LEMMA FewerRun ==
    ASSUME Counted, RunningSessions' \subseteq RunningSessions, RunningSessions' \subseteq dirs'
    PROVE  /\ Counted'
           /\ \A o : Cardinality(RunningSessions \ {o}) < MaxConcurrent =>
                     Cardinality(RunningSessions' \ {o}) < MaxConcurrent
  <1>1. /\ IsFiniteSet(RunningSessions')
        /\ Cardinality(RunningSessions') <= Cardinality(RunningSessions)
        /\ Cardinality(RunningSessions) \in Nat /\ Cardinality(RunningSessions') \in Nat
    BY FS_Subset, FS_CardinalityType DEF Counted
  <1>2. Counted'
    <2>1. MaxConcurrent > 0 => Cardinality(RunningSessions) <= MaxConcurrent
      BY DEF Counted, WithinLimit, RunningSessions
    <2>2. MaxConcurrent > 0 => Cardinality(RunningSessions') <= MaxConcurrent
      BY <1>1, <2>1
    <2>3. WithinLimit' <=> (MaxConcurrent > 0 => Cardinality(RunningSessions') <= MaxConcurrent)
      BY DEF WithinLimit, RunningSessions
    <2> QED BY <1>1, <2>2, <2>3 DEF Counted
  <1>3. ASSUME NEW o, Cardinality(RunningSessions \ {o}) < MaxConcurrent
        PROVE  Cardinality(RunningSessions' \ {o}) < MaxConcurrent
    <2>1. IsFiniteSet(RunningSessions \ {o}) /\ IsFiniteSet(RunningSessions' \ {o})
      BY <1>1, FS_RemoveElement DEF Counted
    <2>2. RunningSessions' \ {o} \subseteq RunningSessions \ {o}
      OBVIOUS
    <2>3. Cardinality(RunningSessions' \ {o}) <= Cardinality(RunningSessions \ {o})
      BY <2>1, <2>2, FS_Subset
    <2>4. Cardinality(RunningSessions' \ {o}) \in Nat /\ Cardinality(RunningSessions \ {o}) \in Nat
      BY <2>1, FS_CardinalityType
    <2> QED BY <1>3, <2>3, <2>4
  <1> QED BY <1>2, <1>3

\* A session is started.
LEMMA OneMoreRuns ==
    ASSUME Counted, NEW s \in Sessions, s \in dirs, dirs' = dirs,
           RunningSessions' \subseteq RunningSessions \cup {s},
           MaxConcurrent > 0 => Cardinality(RunningSessions \ {s}) < MaxConcurrent
    PROVE  Counted'
  <1> DEFINE Rest == RunningSessions \ {s}
  <1>1. IsFiniteSet(Rest) /\ Cardinality(Rest) \in Nat
    BY FS_RemoveElement, FS_CardinalityType DEF Counted
  <1>2. IsFiniteSet(Rest \cup {s}) /\ Cardinality(Rest \cup {s}) = Cardinality(Rest) + 1
    <2>1. s \notin Rest
      OBVIOUS
    <2> HIDE DEF Rest
    <2> QED BY <1>1, <2>1, FS_AddElement
  <1>3. RunningSessions' \subseteq Rest \cup {s}
    OBVIOUS
  <1>4. /\ IsFiniteSet(RunningSessions')
        /\ Cardinality(RunningSessions') <= Cardinality(Rest \cup {s})
        /\ Cardinality(RunningSessions') \in Nat
    BY <1>2, <1>3, FS_Subset, FS_CardinalityType
  <1>5. MaxConcurrent > 0 => Cardinality(RunningSessions') <= MaxConcurrent
    BY <1>1, <1>2, <1>4
  <1>6. WithinLimit' <=> (MaxConcurrent > 0 => Cardinality(RunningSessions') <= MaxConcurrent)
    BY DEF WithinLimit, RunningSessions
  <1> QED BY <1>4, <1>5, <1>6 DEF Counted

LEMMA StepLimits ==
    ASSUME TypeOK, Counted, "rm" \notin Faults, NEW p \in Procs, LimitAt(p),
           StartStep(p) \/ StopStep(p) \/ Crash(p)
    PROVE  Counted' /\ LimitAt(p)'
  <1>0. pc[p] # "idle" /\ container \in [Owners -> Container \cup {NoContainer}]
    BY InnerStep DEF TypeOK
  <1>w. /\ work[p].op \in {"start", "converse", "stop", "prune"}
        /\ work[p].owner \in Owners /\ WorkFits(pc[p], work[p])
    BY <1>0, WorkTyped
  <1> DEFINE o == work[p].owner
  <1>o. o # Hub => o \in Sessions
    BY <1>w DEF Owners
  <1>s. \A q : q \in Sessions => q # Hub
    BY HubAssumption
  <1>a. ASSUME UNCHANGED <<container, dirs>>
        PROVE  RunningSessions' = RunningSessions /\ Counted'
    <2>1. RunningSessions' = RunningSessions
      BY <1>a DEF RunningSessions, Running
    <2>2. RunningSessions' \subseteq dirs'
      BY <1>a, <2>1 DEF Counted
    <2> QED BY <2>1, <2>2, FewerRun
  <1>b. ASSUME pc'[p] \notin Starting \cup {"rmtree"} PROVE LimitAt(p)'
    BY <1>b DEF LimitAt, Starting, BeforeIssue, Admitted
  \* Control goes on with a session that has passed the limit, or has not yet come to it.
  <1>c. ASSUME UNCHANGED <<container, dirs>>, pc[p] \in Starting,
               pc'[p] \in Starting \cup {"idle"},
               pc'[p] # "idle" => work'[p].owner = o,
               o # Hub /\ pc'[p] \in Admitted => pc[p] \in Admitted
        PROVE  Counted' /\ LimitAt(p)'
    <2>1. RunningSessions' = RunningSessions /\ Counted'
      BY <1>a, <1>c
    <2>2. CASE pc'[p] = "idle"
      BY <1>b, <2>1, <2>2 DEF Starting, BeforeIssue
    <2>3. CASE pc'[p] # "idle"
      BY <1>c, <2>1, <2>3 DEF LimitAt, Starting, BeforeIssue
    <2> QED BY <2>2, <2>3
  <1>d. ASSUME StartStep(p)
        PROVE  /\ pc[p] \in Starting /\ pc'[p] \in Starting \cup {"idle"}
               /\ pc'[p] # "idle" => work'[p].owner = o
               /\ UNCHANGED dirs
    BY <1>d, StartControl
  <1>1. CASE Status(p)
    <2>1. o # Hub => pc'[p] \notin Admitted
      BY <1>0, <1>1, GotoAt DEF Status, AfterStart, Admitted
    <2> QED BY <1>1, <1>c, <1>d, <2>1 DEF Status, StartStep
  <1>2. CASE Limit(p)
    <2> DEFINE n == Cardinality({s \in dirs \ {o} : Running(s)})
    <2>1. {s \in dirs \ {o} : Running(s)} = RunningSessions \ {o}
      BY DEF TypeOK, Counted, RunningSessions
    <2>2. UNCHANGED <<container, dirs>> /\ Goto(p, IF AtLimit(n) THEN "idle" ELSE "port")
      BY <1>2 DEF Limit
    <2>3. RunningSessions' = RunningSessions /\ Counted'
      BY <1>a, <2>2
    <2>4. CASE AtLimit(n)
      BY <1>0, <1>b, <2>2, <2>3, <2>4, GotoAt DEF Starting, BeforeIssue
    <2>5. CASE ~AtLimit(n)
      <3>1. pc'[p] = "port" /\ work'[p] = work[p] /\ pc[p] = "limit"
        BY <1>0, <1>2, <2>2, <2>5, GotoAt DEF Limit
      <3>2. n \in Nat
        BY <2>1, FS_RemoveElement, FS_CardinalityType DEF Counted
      <3>3. MaxConcurrent > 0 => Cardinality(RunningSessions \ {o}) < MaxConcurrent
        <4> HIDE DEF n
        <4>1. MaxConcurrent > 0 => n < MaxConcurrent
          BY <2>5, <3>2 DEF AtLimit
        <4> QED BY <2>1, <4>1 DEF n
      <3> QED BY <2>2, <2>3, <3>1, <3>3 DEF LimitAt, Starting, BeforeIssue
    <2> QED BY <2>4, <2>5
  <1>3. CASE ChoosePort(p)
    BY <1>3, <1>c, <1>d DEF ChoosePort, StartStep, Admitted
  <1>4. CASE RemoveOld(p)
    <2>1. /\ container' = [container EXCEPT ![o] = NoContainer] /\ UNCHANGED dirs
          /\ pc[p] = "rm"
      BY <1>4 DEF RemoveOld
    <2>2. pc'[p] = "issue" /\ work'[p] = work[p]
      BY <1>0, <1>4, GotoAt DEF RemoveOld
    <2>3. RunningSessions' \subseteq RunningSessions
      BY <1>0, <2>1 DEF RunningSessions, Running, NoContainer, Owners
    <2>4. RunningSessions' \subseteq dirs'
      BY <2>1, <2>3 DEF Counted
    <2>5. /\ Counted'
          /\ Cardinality(RunningSessions \ {o}) < MaxConcurrent =>
             Cardinality(RunningSessions' \ {o}) < MaxConcurrent
      BY <2>3, <2>4, FewerRun
    <2> QED BY <2>1, <2>2, <2>5 DEF LimitAt, Starting, BeforeIssue, Admitted
  <1>5. CASE Issue(p)
    BY <1>5, <1>c, <1>d DEF Issue, StartStep, Admitted
  <1>6. CASE IssueSave(p)
    BY <1>6, <1>c, <1>d DEF IssueSave, StartStep, Admitted
  <1>7. CASE SaveAttach(p)
    BY <1>7, <1>c, <1>d DEF SaveAttach, StartStep, Admitted
  <1>8. CASE Run(p)
    <2>1. UNCHANGED dirs /\ pc[p] = "run" /\ (UNCHANGED container \/ Launched(work[p]))
      BY <1>8 DEF Run
    <2>2. pc'[p] \in {"undo", "idle", "seed"} /\ (pc'[p] # "idle" => work'[p] = work[p])
      BY <1>0, <1>8, GotoAt DEF Run, AfterStart
    <2>3. Counted'
      <3>1. CASE UNCHANGED container
        BY <1>a, <2>1, <3>1
      <3>2. CASE Launched(work[p]) /\ o # Hub
        <4>1. RunningSessions' \subseteq RunningSessions \cup {o}
          BY <1>0, <3>2 DEF Launched, RunningSessions, Running, Owners
        <4>2. /\ o \in Sessions /\ o \in dirs
              /\ MaxConcurrent > 0 => Cardinality(RunningSessions \ {o}) < MaxConcurrent
          BY <1>o, <2>1, <3>2 DEF LimitAt, Starting, Admitted
        <4> QED BY <2>1, <4>1, <4>2, OneMoreRuns
      <3>3. CASE Launched(work[p]) /\ o = Hub
        <4>1. RunningSessions' = RunningSessions
          BY <1>0, <1>s, <3>3 DEF Launched, RunningSessions, Running, Owners
        <4> QED BY <2>1, <4>1, FewerRun DEF Counted
      <3> QED BY <2>1, <3>1, <3>2, <3>3
    <2> QED BY <2>1, <2>2, <2>3 DEF LimitAt, Starting, BeforeIssue, Admitted
  <1>9. CASE Undo(p)
    <2>1. o # Hub => pc'[p] \notin Admitted
      BY <1>0, <1>9, GotoAt DEF Undo, AfterUndo, Admitted
    <2> QED BY <1>9, <1>c, <1>d, <2>1 DEF Undo, StartStep
  <1>10. CASE UndoSave(p)
    <2>1. o # Hub => pc'[p] \notin Admitted
      BY <1>0, <1>10, GotoAt DEF UndoSave, AfterUndo, Admitted
    <2> QED BY <1>10, <1>c, <1>d, <2>1 DEF UndoSave, StartStep
  <1>11. CASE Unattach(p)
    <2>1. o # Hub => pc'[p] \notin Admitted
      BY <1>0, <1>11, GotoAt DEF Unattach, AfterStart, Admitted
    <2> QED BY <1>11, <1>c, <1>d, <2>1 DEF Unattach, StartStep
  <1>12. CASE Seed(p)
    <2>1. pc'[p] \in {"idle", "reattach"}
      BY <1>0, <1>12, GotoAt DEF Seed, TypeOK
    <2>2. pc'[p] \notin Admitted
      BY <2>1 DEF Admitted
    <2> QED BY <1>12, <1>c, <1>d, <2>2 DEF Seed, StartStep
  <1>13. CASE Reattach(p)
    <2>1. pc'[p] \notin Admitted
      BY <1>0, <1>13, GotoAt DEF Reattach, Admitted
    <2> QED BY <1>13, <1>c, <1>d, <2>1 DEF Reattach, StartStep
  <1>14. CASE Revoke(p) \/ RevokeSave(p) \/ Detach(p) \/ Crash(p)
    <2>1. /\ UNCHANGED <<container, dirs>>
          /\ pc'[p] \notin Starting \cup {"rmtree"}
      BY <1>0, <1>14, GotoAt
         DEF Revoke, RevokeSave, Detach, Crash, AfterRevoke, Starting, BeforeIssue
    <2> QED BY <1>a, <1>b, <2>1
  <1>15. CASE Remove(p)
    <2>1. container' = [container EXCEPT ![o] = NoContainer] /\ UNCHANGED dirs
      BY <1>15 DEF Remove
    <2>2. pc'[p] = "idle" \/ (pc'[p] = "rmtree" /\ work'[p] = work[p])
      BY <1>0, <1>15, GotoAt DEF Remove
    <2>3. RunningSessions' \subseteq RunningSessions /\ container'[o].running = FALSE
      BY <1>0, <1>w, <2>1 DEF RunningSessions, Running, NoContainer, Owners
    <2>4. Counted'
      BY <2>1, <2>3, FewerRun DEF Counted
    <2> QED BY <2>2, <2>3, <2>4 DEF LimitAt, Starting, BeforeIssue, Admitted, Running
  <1>16. CASE RemoveTree(p)
    <2>1. dirs' = dirs \ {o} /\ UNCHANGED container /\ ~Running(o)
      BY <1>16 DEF RemoveTree, LimitAt
    <2>2. pc'[p] = "idle"
      BY <1>0, <1>16, GotoAt DEF RemoveTree
    <2>3. RunningSessions' = RunningSessions /\ o \notin RunningSessions
      BY <2>1 DEF RunningSessions, Running
    <2>4. Counted'
      BY <2>1, <2>3, FewerRun DEF Counted
    <2> QED BY <1>b, <2>2, <2>4 DEF Starting, BeforeIssue
  <1> QED BY <1>1, <1>2, <1>3, <1>4, <1>5, <1>6, <1>7, <1>8, <1>9, <1>10, <1>11, <1>12,
             <1>13, <1>14, <1>15, <1>16 DEF StartStep, StopStep

LEMMA InitLimit == Init => LimitInv
  <1> SUFFICES ASSUME Init PROVE LimitInv
    OBVIOUS
  <1>1. RunningSessions = {}
    BY DEF Init, RunningSessions, Running, NoContainer, Owners
  <1>2. Counted
    BY <1>1, FS_EmptySet DEF Counted, WithinLimit, RunningSessions
  <1> QED BY <1>2, InitTyped DEF Init, LimitInv, LimitAt, Starting, BeforeIssue, Admitted

LEMMA NextLimit ==
    ASSUME OneProcess, "rm" \notin Faults
    PROVE  LimitInv /\ [Next]_vars => LimitInv'
  <1> SUFFICES ASSUME LimitInv, [Next]_vars PROVE LimitInv'
    OBVIOUS
  <1>0. TypeOK /\ TypeOK' /\ Counted /\ \A p \in Procs : LimitAt(p)
    BY NextTyped DEF LimitInv
  <1> DEFINE Limits == \A p \in Procs : LimitAt(p)
  <1>a. ASSUME UNCHANGED <<pc, work>>, dirs \subseteq dirs',
               \A o \in Owners : Running(o)' => Running(o)
        PROVE  Counted' /\ Limits'
    <2>1. RunningSessions' \subseteq RunningSessions
      BY <1>a DEF RunningSessions, Owners
    <2>2. /\ Counted'
          /\ \A o : Cardinality(RunningSessions \ {o}) < MaxConcurrent =>
                    Cardinality(RunningSessions' \ {o}) < MaxConcurrent
      BY <1>0, <1>a, <2>1, FewerRun DEF Counted
    <2>3. ASSUME NEW p \in Procs PROVE LimitAt(p)'
      <3>1. pc[p] = "rmtree" => work[p].owner \in Owners
        BY <1>0, WorkTyped
      <3> QED BY <1>0, <1>a, <2>2, <3>1 DEF LimitAt, Running
    <2> QED BY <2>2, <2>3
  <1>1. ASSUME NEW o \in Owners, Exit(o) PROVE Counted' /\ Limits'
    <2>1. \A q \in Owners : Running(q)' => Running(q)
      BY <1>0, <1>1 DEF Exit, Running, TypeOK
    <2> QED BY <1>1, <1>a, <2>1 DEF Exit
  <1>2. ASSUME NEW p \in Procs, Step(p) PROVE Counted' /\ Limits'
    <2>0. LimitAt(p) /\ \A q \in Procs : q = p
      BY <1>0 DEF OneProcess
    <2>1. CASE Start(p) \/ Converse(p) \/ Stop(p) \/ Prune(p)
      <3>1. PICK o \in Owners, op \in {"start", "converse", "stop", "prune"},
                 label \in {"status", "revoke"}, explicit \in BOOLEAN :
              /\ Begin(p, op, o, label, explicit)
              /\ label = "status" => o \in dirs \cup {Hub}
        BY <1>0, <2>1, BeginsOne
      <3>2. /\ pc'[p] = label /\ work'[p].owner = o
            /\ UNCHANGED <<dirs, container, tokens, attach, buf>>
        BY <1>0, <3>1, BeginAt, Zenon
      <3>3. LimitAt(p)'
        BY <3>1, <3>2 DEF LimitAt, Starting, BeforeIssue, Admitted
      <3>4. Counted'
        BY <1>0, <3>2 DEF Counted, WithinLimit, RunningSessions, Running
      <3> QED BY <2>0, <3>3, <3>4
    <2>2. CASE Create(p)
      BY <1>a, <2>2 DEF Create, Running
    <2>3. CASE StartStep(p) \/ StopStep(p) \/ Crash(p)
      <3>1. Counted' /\ LimitAt(p)'
        BY <1>0, <2>0, <2>3, StepLimits
      <3> QED BY <2>0, <3>1
    <2> QED BY <1>2, <2>1, <2>2, <2>3 DEF Step
  <1>3. ASSUME UNCHANGED vars PROVE Counted' /\ Limits'
    BY <1>3, <1>a DEF vars, Running
  <1> QED BY <1>0, <1>1, <1>2, <1>3 DEF Next, LimitInv

\* "max_concurrent_sessions": no more session containers run than the policy
\* allows, if one process works on containers and `docker rm` does what it is
\* told, wherever that process dies.
THEOREM LimitIsKept ==
    ASSUME OneProcess, "rm" \notin Faults
    PROVE  Spec => []WithinLimit
  <1>1. LimitInv => WithinLimit
    BY DEF LimitInv, Counted
  <1> QED BY <1>1, InitLimit, NextLimit, PTL DEF Spec

(***************************************************************************)
(* A container that runs can do its work.                                  *)
(***************************************************************************)

Reached(o) ==
    Running(o) =>
        /\ tokens[container[o].token] = "active"
        /\ holder[container[o].token] = o
        /\ o # Hub => attach[o] = container[o].port

Launching == {"issue", "issueSave", "attach", "run", "undo", "undoSave", "unattach", "rmtree"}
Ending == {"revokeSave", "detach", "remove"}

\* The old container is gone before the token is replaced, and the token and
\* the port are saved before the new one is launched.
ReachAt(p) ==
    /\ pc[p] \in Launching => container[work[p].owner] = NoContainer
    /\ pc[p] \in {"attach", "run"} => tokens[work[p].id] = "active"
    /\ pc[p] \in {"run", "reattach"} /\ work[p].owner # Hub =>
           attach[work[p].owner] = work[p].port

\* Only the owner whose container is being stopped has one that is not reached.
ReachInv ==
    /\ FreshInv
    /\ \A p \in Procs : ReachAt(p)
    /\ \A o \in Owners :
           (\A p \in Procs : pc[p] \in Ending => work[p].owner # o) => Reached(o)

LEMMA NotRunningReached ==
    ASSUME NEW o \in Owners, container[o] = NoContainer
    PROVE  Reached(o)
  BY DEF Reached, Running, NoContainer

LEMMA OthersReached ==
    ASSUME FreshInv, NEW p \in Procs, StartStep(p) \/ StopStep(p) \/ Crash(p),
           NEW o \in Owners, o # work[p].owner, Reached(o)
    PROVE  Reached(o)'
  <1>1. /\ container'[o] = container[o]
        /\ o \in Sessions => attach'[o] = attach[o]
        /\ \A id \in Ids : holder[id] = o => tokens'[id] = tokens[id]
        /\ holder' = holder
    BY OthersKept
  <1>2. Running(o) => container[o].token \in Ids
    BY DEF FreshInv, TokenInv, TypeOK, Running, NoContainer, Container
  <1> QED BY <1>1, <1>2 DEF Reached, Running, Owners

\* The steps of a start.
LEMMA StartReaches ==
    ASSUME FreshInv, "rm" \notin Faults, NEW p \in Procs, ReachAt(p), StartStep(p),
           NEW o, o = work[p].owner, Reached(o)
    PROVE  ReachAt(p)' /\ Reached(o)'
  <1>0. /\ TypeOK /\ pc[p] # "idle" /\ FreshAt(p) /\ UNCHANGED holder
        /\ holder[work[p].id] = o
    BY InnerStep DEF FreshInv, TokenInv, SameWork
  <1>w. /\ work[p].op \in {"start", "converse", "stop", "prune"} /\ work[p].id \in Ids
        /\ o \in Owners /\ WorkFits(pc[p], work[p])
    BY <1>0, WorkTyped
  <1>t. /\ container \in [Owners -> Container \cup {NoContainer}]
        /\ attach \in [Sessions -> Ports \cup {NoPort}] /\ tokens \in Tokens
    BY <1>0 DEF TypeOK
  <1>k. /\ pc'[p] \in Starting \cup {"idle"}
        /\ pc'[p] # "idle" => work'[p].owner = o /\ work'[p].id = work[p].id
    BY <1>0, StartControl
  <1>a. ASSUME UNCHANGED <<container, tokens, attach>> PROVE Reached(o)'
    BY <1>0, <1>a DEF Reached, Running
  \* A step after which nothing is asked of the process.
  <1>b. ASSUME pc'[p] \notin Launching \cup {"reattach"} PROVE ReachAt(p)'
    BY <1>b DEF ReachAt, Launching
  <1>1. CASE Status(p) \/ Limit(p)
    <2>1. pc'[p] \notin Launching \cup {"reattach"}
      <3>1. CASE Status(p)
        BY <1>0, <3>1, GotoAt DEF Status, AfterStart, Launching
      <3>2. CASE Limit(p)
        <4>1. Goto(p, "idle") \/ Goto(p, "port")
          BY <3>2 DEF Limit
        <4> QED BY <1>0, <4>1, GotoAt DEF Launching
      <3> QED BY <1>1, <3>1, <3>2
    <2>2. UNCHANGED <<container, tokens, attach>>
      BY <1>1 DEF Status, Limit
    <2> QED BY <1>a, <1>b, <2>1, <2>2
  <1>3. CASE ChoosePort(p)
    <2>1. pc'[p] \in {"idle", "rm"}
      BY <1>0, <1>3, GotoAt DEF ChoosePort, TypeOK
    <2> QED BY <1>3, <1>a, <1>b, <2>1 DEF ChoosePort, Launching
  <1>4. CASE RemoveOld(p)
    <2>1. container' = [container EXCEPT ![o] = NoContainer]
      BY <1>4 DEF RemoveOld
    <2>2. container'[o] = NoContainer /\ pc'[p] = "issue" /\ work'[p] = work[p]
      BY <1>0, <1>4, <1>w, <1>t, <2>1, GotoAt DEF RemoveOld
    <2>3. Reached(o)'
      BY <2>2 DEF Reached, Running, NoContainer
    <2> QED BY <2>2, <2>3 DEF ReachAt
  <1>5. CASE Issue(p)
    <2>1. UNCHANGED <<container, tokens, attach>> /\ pc[p] = "issue"
      BY <1>5 DEF Issue
    <2>2. pc'[p] = "issueSave" /\ work'[p] = work[p]
      BY <1>0, <1>5, GotoAt DEF Issue
    <2> QED BY <1>a, <2>1, <2>2 DEF ReachAt, Launching
  <1>6. CASE IssueSave(p)
    <2>1. /\ UNCHANGED container /\ container[o] = NoContainer
          /\ tokens' = Issued(tokens, o, work[p].id)
      BY <1>0, <1>6 DEF IssueSave, ReachAt, FreshAt, Saving, Launching
    <2>2. tokens'[work[p].id] = "active"
      BY <1>w, <2>1 DEF Issued, RevokedOf
    <2>3. Reached(o)'
      BY <2>1 DEF Reached, Running, NoContainer
    <2>4. \/ pc'[p] = "idle"
          \/ pc'[p] = "run" /\ o = Hub
          \/ pc'[p] = "attach"
      BY <1>0, <1>6, GotoAt DEF IssueSave, TypeOK
    <2> QED BY <1>k, <2>1, <2>2, <2>3, <2>4 DEF ReachAt, Launching
  <1>7. CASE SaveAttach(p)
    <2>1. /\ UNCHANGED <<container, tokens>> /\ container[o] = NoContainer
          /\ attach' = [attach EXCEPT ![o] = work[p].port] /\ tokens[work[p].id] = "active"
      BY <1>7 DEF SaveAttach, ReachAt, Launching
    <2>2. pc'[p] = "run" /\ work'[p] = work[p]
      BY <1>0, <1>7, GotoAt DEF SaveAttach
    <2>3. attach'[o] = work[p].port
      BY <1>7, <1>w, <1>t, <2>1 DEF SaveAttach, WorkFits
    <2>4. Reached(o)'
      BY <2>1 DEF Reached, Running, NoContainer
    <2> QED BY <2>1, <2>2, <2>3, <2>4 DEF ReachAt
  <1>8. CASE Run(p)
    <2>1. /\ pc[p] = "run" /\ UNCHANGED <<tokens, attach>> /\ container[o] = NoContainer
          /\ tokens[work[p].id] = "active" /\ (o # Hub => attach[o] = work[p].port)
      BY <1>8 DEF Run, ReachAt, Launching
    <2>2. CASE Launched(work[p])
      <3>1. container'[o] = [token |-> work[p].id, port |-> work[p].port, running |-> TRUE]
        BY <1>w, <1>t, <2>2 DEF Launched
      <3>2. Reached(o)'
        BY <1>0, <2>1, <3>1 DEF Reached
      <3>3. pc'[p] \in {"idle", "seed"}
        <4>1. container' # container
          BY <2>1, <3>1 DEF NoContainer
        <4> QED BY <1>0, <1>8, <4>1, GotoAt DEF Run, AfterStart
      <3> QED BY <1>b, <3>2, <3>3 DEF Launching
    <2>3. CASE UNCHANGED container
      <3>1. pc'[p] \in {"idle", "seed", "undo"} /\ (pc'[p] # "idle" => work'[p] = work[p])
        BY <1>0, <1>8, GotoAt DEF Run, AfterStart
      <3> QED BY <1>a, <2>1, <2>3, <3>1 DEF ReachAt, Launching
    <2> QED BY <1>8, <2>2, <2>3 DEF Run
  <1>9. CASE Undo(p)
    <2>1. UNCHANGED <<container, tokens, attach>> /\ pc[p] = "undo"
      BY <1>9 DEF Undo
    <2>2. pc'[p] \in {"undoSave", "idle", "unattach"}
      BY <1>0, <1>9, GotoAt DEF Undo, AfterUndo
    <2> QED BY <1>a, <1>k, <2>1, <2>2 DEF ReachAt, Launching
  <1>10. CASE UndoSave(p)
    <2>1. UNCHANGED container /\ pc[p] = "undoSave" /\ container[o] = NoContainer
      BY <1>10 DEF UndoSave, ReachAt, Launching
    <2>2. pc'[p] \in {"idle", "unattach"}
      BY <1>0, <1>10, GotoAt DEF UndoSave, AfterUndo
    <2>3. Reached(o)'
      BY <2>1 DEF Reached, Running, NoContainer
    <2> QED BY <1>k, <2>1, <2>2, <2>3 DEF ReachAt, Launching
  <1>11. CASE Unattach(p)
    <2>1. UNCHANGED container /\ container[o] = NoContainer
      BY <1>11 DEF Unattach, ReachAt, Launching
    <2>2. pc'[p] \in {"idle", "seed"}
      BY <1>0, <1>11, GotoAt DEF Unattach, AfterStart
    <2>3. Reached(o)'
      BY <2>1 DEF Reached, Running, NoContainer
    <2> QED BY <1>b, <2>2, <2>3 DEF Launching
  <1>12. CASE Seed(p)
    <2>1. UNCHANGED <<container, tokens, attach>>
      BY <1>12 DEF Seed
    <2>2. CASE Goto(p, "idle")
      <3>1. pc'[p] = "idle"
        BY <1>0, <2>2, GotoAt
      <3> QED BY <1>a, <1>b, <2>1, <3>1 DEF Launching
    <2>3. CASE ~Goto(p, "idle")
      <3>1. PICK q : /\ q = attach[o]
                     /\ pc' = [pc EXCEPT ![p] = "reattach"] /\ work' = [work EXCEPT ![p].port = q]
        BY <1>12, <2>3 DEF Seed
      <3>2. pc'[p] = "reattach" /\ work'[p].owner = work[p].owner /\ work'[p].port = q
        <4>1. pc' = [pc EXCEPT ![p] = "reattach"] /\ work' = [work EXCEPT ![p].port = q]
          BY <3>1
        <4> QED BY <1>0, <4>1, PortAt, Zenon
      <3> QED BY <1>a, <2>1, <3>1, <3>2 DEF ReachAt, Launching
    <2> QED BY <2>2, <2>3
  <1>13. CASE Reattach(p)
    <2>1. UNCHANGED <<container, tokens>> /\ o \in Sessions
      BY <1>13, <1>w DEF Reattach, WorkFits
    <2>2. attach' = attach /\ pc'[p] = "idle"
      BY <1>0, <1>13, <1>t, <2>1, HubAssumption, GotoAt DEF Reattach, ReachAt
    <2> QED BY <1>a, <1>b, <2>1, <2>2 DEF Launching
  <1> QED BY <1>1, <1>3, <1>4, <1>5, <1>6, <1>7, <1>8, <1>9, <1>10, <1>11, <1>12, <1>13
          DEF StartStep

\* The steps of a stop.
LEMMA StopReaches ==
    ASSUME FreshInv, "rm" \notin Faults, NEW p \in Procs, ReachAt(p), StopStep(p),
           NEW o, o = work[p].owner, pc[p] \notin Ending => Reached(o)
    PROVE  /\ ReachAt(p)'
           /\ pc'[p] \notin Ending => Reached(o)'
           /\ pc'[p] # "idle" => work'[p].owner = o
  <1>0. TypeOK /\ pc[p] # "idle" /\ UNCHANGED holder
    BY InnerStep DEF FreshInv, TokenInv, SameWork
  <1>w. o \in Owners /\ container \in [Owners -> Container \cup {NoContainer}]
    BY <1>0, WorkTyped DEF TypeOK
  <1>1. CASE Revoke(p) \/ RevokeSave(p) \/ Detach(p)
    <2>1. pc'[p] \in Ending /\ work'[p] = work[p]
      BY <1>0, <1>1, GotoAt DEF Revoke, RevokeSave, Detach, AfterRevoke, Ending
    <2> QED BY <2>1 DEF ReachAt, Launching, Ending
  <1>2. CASE Remove(p)
    <2>1. container'[o] = NoContainer
      BY <1>2, <1>w DEF Remove
    <2>2. pc'[p] = "idle" \/ (pc'[p] = "rmtree" /\ work'[p] = work[p])
      BY <1>0, <1>2, GotoAt DEF Remove
    <2>3. Reached(o)'
      BY <2>1 DEF Reached, Running, NoContainer
    <2> QED BY <2>1, <2>2, <2>3 DEF ReachAt, Launching
  <1>3. CASE RemoveTree(p)
    <2>1. UNCHANGED container /\ container[o] = NoContainer
      BY <1>3 DEF RemoveTree, ReachAt, Launching
    <2>2. pc'[p] = "idle"
      BY <1>0, <1>3, GotoAt DEF RemoveTree
    <2>3. Reached(o)'
      BY <2>1 DEF Reached, Running, NoContainer
    <2> QED BY <2>2, <2>3 DEF ReachAt, Launching
  <1> QED BY <1>1, <1>2, <1>3 DEF StopStep

LEMMA InitReach == Init => ReachInv
  <1> SUFFICES ASSUME Init PROVE ReachInv
    OBVIOUS
  <1>1. \A o \in Owners : Reached(o)
    BY NotRunningReached DEF Init
  <1> QED BY <1>1, InitFresh DEF Init, ReachInv, ReachAt, Launching

LEMMA NextReach ==
    ASSUME OneProcess, "rm" \notin Faults, "crash" \notin Faults
    PROVE  ReachInv /\ [Next]_vars => ReachInv'
  <1> SUFFICES ASSUME ReachInv, [Next]_vars PROVE ReachInv'
    OBVIOUS
  <1>0. /\ FreshInv /\ FreshInv' /\ TokenInv /\ TypeOK /\ \A p \in Procs : ReachAt(p)
        /\ \A o \in Owners :
              (\A p \in Procs : pc[p] \in Ending => work[p].owner # o) => Reached(o)
    BY NextFresh DEF ReachInv, FreshInv, TokenInv
  <1> DEFINE All == \A o \in Owners :
                       (\A p \in Procs : pc[p] \in Ending => work[p].owner # o) => Reached(o)
             Ats == \A p \in Procs : ReachAt(p)
  <1>1. ASSUME NEW o \in Owners, Exit(o) PROVE Ats' /\ All'
    <2>1. /\ UNCHANGED <<tokens, attach, pc, work, holder>>
          /\ container' = [container EXCEPT ![o].running = FALSE] /\ Running(o)
      BY <1>1 DEF Exit
    <2>2. /\ container'[o].running = FALSE
          /\ \A q \in Owners : q # o => container'[q] = container[q]
          /\ container[o] # NoContainer
      BY <1>0, <2>1 DEF TypeOK, Running, NoContainer, Container
    <2>3. ASSUME NEW p \in Procs PROVE ReachAt(p)'
      <3>1. ReachAt(p) /\ (pc[p] \in Launching => work[p].owner \in Owners)
        BY <1>0, WorkTyped DEF Launching
      <3> QED BY <2>1, <2>2, <3>1 DEF ReachAt
    <2>4. ASSUME NEW q \in Owners, Reached(q) PROVE Reached(q)'
      BY <2>1, <2>2, <2>4 DEF Reached, Running
    <2> QED BY <1>0, <2>1, <2>3, <2>4
  <1>2. ASSUME NEW p \in Procs, Step(p) PROVE Ats' /\ All'
    <2>0. ReachAt(p) /\ \A q \in Procs : q = p
      BY <1>0 DEF OneProcess
    <2>o. \A o \in Owners : (pc[p] \in Ending => work[p].owner # o) => Reached(o)
      BY <1>0, <2>0
    <2>1. CASE Start(p) \/ Converse(p) \/ Stop(p) \/ Prune(p)
      <3>1. PICK o \in Owners, op \in {"start", "converse", "stop", "prune"},
                 label \in {"status", "revoke"}, explicit \in BOOLEAN :
              Begin(p, op, o, label, explicit)
        BY <1>0, <2>1, BeginsOne
      <3>2. /\ pc'[p] = label
            /\ UNCHANGED <<dirs, container, tokens, attach, buf>>
            /\ ops \in Nat /\ ops + 1 \in Ids
            /\ \A id \in Ids : id # ops + 1 => holder'[id] = holder[id]
        BY <1>0, <3>1, BeginAt, Zenon
      <3>3. ReachAt(p)'
        BY <3>1, <3>2 DEF ReachAt, Launching
      <3>4. pc[p] \notin Ending
        BY <3>1 DEF Begin, Ending
      <3>5. tokens[ops + 1] = "absent"
        BY <1>0, <3>2 DEF TokenInv
      <3>6. ASSUME NEW q \in Owners PROVE Reached(q)'
        <4>1. Reached(q)
          BY <2>o, <3>4
        <4>2. Running(q) => container[q].token \in Ids
          BY <1>0 DEF TypeOK, Running, NoContainer, Container
        <4> QED BY <3>2, <3>5, <4>1, <4>2 DEF Reached, Running
      <3> QED BY <2>0, <3>3, <3>6
    <2>2. CASE Create(p)
      BY <1>0, <2>2 DEF Create, ReachAt, Reached, Running
    <2>3. CASE StartStep(p)
      <3>1. /\ pc[p] \in Starting /\ pc'[p] \in Starting \cup {"idle"} /\ work[p].owner \in Owners
        BY <1>0, <2>3, StartControl, WorkTyped, InnerStep
      <3>2. pc[p] \notin Ending
        BY <3>1 DEF Starting, BeforeIssue, Ending
      <3>3. ReachAt(p)' /\ \A o : o = work[p].owner => Reached(o)'
        BY <1>0, <2>0, <2>o, <2>3, <3>1, <3>2, StartReaches
      <3>4. \A q \in Owners : Reached(q)'
        BY <1>0, <2>o, <2>3, <3>2, <3>3, OthersReached
      <3> QED BY <2>0, <3>3, <3>4
    <2>4. CASE StopStep(p)
      <3>1. work[p].owner \in Owners
        BY <1>0, <2>4, WorkTyped, InnerStep
      <3>2. \A o : o = work[p].owner =>
               /\ ReachAt(p)'
               /\ pc'[p] \notin Ending => Reached(o)'
               /\ pc'[p] # "idle" => work'[p].owner = o
        BY <1>0, <2>0, <2>o, <2>4, <3>1, StopReaches
      <3>3. ASSUME NEW q \in Owners, pc'[p] \in Ending => work'[p].owner # q PROVE Reached(q)'
        <4>1. CASE q = work[p].owner
          BY <3>2, <3>3, <4>1 DEF Ending
        <4>2. CASE q # work[p].owner
          BY <1>0, <2>o, <2>4, <4>2, OthersReached
        <4> QED BY <4>1, <4>2
      <3> QED BY <2>0, <3>2, <3>3
    <2>5. ~Crash(p)
      BY DEF Crash
    <2> QED BY <1>2, <2>1, <2>2, <2>3, <2>4, <2>5 DEF Step
  <1>3. ASSUME UNCHANGED vars PROVE Ats' /\ All'
    BY <1>0, <1>3 DEF vars, ReachAt, Reached, Running
  <1> QED BY <1>0, <1>1, <1>2, <1>3 DEF Next, ReachInv

\* A container that runs has a token that is accepted, and a session's attach
\* state has the port it listens on: if one process works on containers, is not
\* killed half-way and `docker rm` does what it is told.
THEOREM RunningIsReachable ==
    ASSUME OneProcess, "rm" \notin Faults, "crash" \notin Faults
    PROVE  Spec => []RunningReachable
  <1>1. ReachInv => RunningReachable
    <2> SUFFICES ASSUME ReachInv, NEW o \in Owners, Running(o), ~BusyWith(o)
                 PROVE  /\ tokens[container[o].token] = "active"
                        /\ o # Hub => attach[o] = container[o].port
      BY DEF RunningReachable
    <2>1. \A p \in Procs : pc[p] \in Ending => work[p].owner # o
      BY DEF BusyWith, Ending
    <2> QED BY <2>1 DEF ReachInv, Reached
  <1> QED BY <1>1, InitReach, NextReach, PTL DEF Spec
=============================================================================

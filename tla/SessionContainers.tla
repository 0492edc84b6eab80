-------------------------- MODULE SessionContainers --------------------------
(***************************************************************************)
(* The containers of the harness -- one per session, and the hub -- with    *)
(* what each needs to be reached and to call the gateway: its bearer token  *)
(* in tokens.json (auth.py), the port in its attach state, its name at the   *)
(* container runtime (devcontainer.py, hub_container.py).                   *)
(*                                                                         *)
(* The gateway and every command of the CLI start, stop and prune           *)
(* containers, with no lock between them.  A method of TokenStore loads the  *)
(* file, changes the records and replaces it: two steps, and every call of   *)
(* the runtime is a step of its own.                                        *)
(***************************************************************************)
EXTENDS Naturals, FiniteSets

CONSTANTS
    Procs,          \* the processes that work on containers
    Sessions,       \* session identifiers
    Hub,            \* the hub container, which is not a session
    Ports,          \* localhost ports, but for the hub's own
    HubPort,        \* DEFAULT_HUB_OPENCODE_PORT, which no session is given
    MaxConcurrent,  \* policy.containers.max_concurrent_sessions, 0 for no limit
    Faults,         \* what may go wrong: a subset of Faulty
    MaxOps          \* bound: how many operations are begun

\* `docker run` fails, or exceeds its timeout; `docker rm` fails; a container
\* exits by itself; a process dies between two steps.
Faulty == {"run", "timeout", "rm", "exit", "crash"}

ASSUME HubAssumption == Hub \notin Sessions
ASSUME PortsAssumption == Ports \subseteq Nat \ {0} /\ HubPort \in (Nat \ {0}) \ Ports
ASSUME FaultsAssumption == Faults \subseteq Faulty
ASSUME BoundsAssumption == MaxConcurrent \in Nat /\ MaxOps \in Nat

VARIABLES
    dirs,       \* the sessions whose directory exists
    container,  \* the container with each owner's name, at the runtime
    tokens,     \* tokens.json: what it says of each token
    attach,     \* the port in each session's attach state file
    pc,         \* what each process does next
    work,       \* the operation each process is at
    buf,        \* the tokens each process has loaded
    ops,        \* how many operations have been begun
    \* what happened, for the properties:
    holder,     \* whom each token was issued to
    ended       \* the owners stopped since they were last started

vars == <<dirs, container, tokens, attach, pc, work, buf, ops, holder, ended>>

Owners == Sessions \cup {Hub}

\* A token has the number of the operation that issues it.
Ids == 1 .. MaxOps
Nobody == "nobody"

NoPort == 0
NoContainer == [token |-> 0, port |-> NoPort, running |-> FALSE]
Container == [token : Ids, port : Ports \cup {HubPort}, running : BOOLEAN]

\* A record of tokens.json, its `revoked` flag aside, never changes.
TokenStates == {"absent", "active", "revoked"}
Tokens == [Ids -> TokenStates]
EmptyStore == [id \in Ids |-> "absent"]

\* `explicit` stands for a given writable_shared_repos, and for the hub for
\* force_recreate: a running container is replaced.
NoWork == [op |-> "none"]
Work == [op : {"start", "converse", "stop", "prune"}, owner : Owners, id : Ids,
         explicit : BOOLEAN, port : Ports \cup {HubPort, NoPort}]

Labels == {"idle", "status", "limit", "port", "rm", "issue", "issueSave", "attach",
           "run", "undo", "undoSave", "unattach", "seed", "reattach",
           "revoke", "revokeSave", "detach", "remove", "rmtree"}

Init ==
    /\ dirs \in SUBSET Sessions
    /\ container = [o \in Owners |-> NoContainer]
    /\ tokens = EmptyStore
    /\ attach = [s \in Sessions |-> NoPort]
    /\ pc = [p \in Procs |-> "idle"]
    /\ work = [p \in Procs |-> NoWork]
    /\ buf = [p \in Procs |-> EmptyStore]
    /\ ops = 0
    /\ holder = [id \in Ids |-> Nobody]
    /\ ended = {}

-----------------------------------------------------------------------------
(* What the runtime and the store answer.                                   *)

\* get_container_status, is_hub_container_running.
Running(o) == container[o].running

\* The ports that cannot be bound.
Bound == {container[o].port : o \in {q \in Owners : Running(q)}}

\* A mutant of allocate_free_localhost_port: what other sessions have
\* reserved is not looked at.
BindablePorts == Ports \ Bound

\* allocate_free_localhost_port: neither reserved by a session nor in use.
FreePorts == Ports \ (Bound \cup {attach[s] : s \in Sessions})

ActiveOf(store, o) == {id \in Ids : store[id] = "active" /\ holder[id] = o}

RevokedOf(store, o) ==
    [id \in Ids |-> IF id \in ActiveOf(store, o) THEN "revoked" ELSE store[id]]

\* A mutant of issue_token: replace_existing is off.
IssuedBeside(store, o, new) == [store EXCEPT ![new] = "active"]

\* issue_token: the role, the session and the container name of two tokens
\* agree when their owners do.
Issued(store, o, new) == [RevokedOf(store, o) EXCEPT ![new] = "active"]

-----------------------------------------------------------------------------
(* Control.                                                                 *)

\* A mutant of the returns: a process that is done keeps its operation.
GotoKeeping(p, label) ==
    /\ pc' = [pc EXCEPT ![p] = label]
    /\ UNCHANGED work

\* A process that is done holds nothing.
Goto(p, label) ==
    /\ pc' = [pc EXCEPT ![p] = label]
    /\ work' = [work EXCEPT ![p] = IF label = "idle" THEN NoWork ELSE @]

Forget(p) == buf' = [buf EXCEPT ![p] = EmptyStore]

Begin(p, op, o, label, explicit) ==
    /\ pc[p] = "idle"
    /\ ops < MaxOps
    /\ ops' = ops + 1
    /\ holder' = [holder EXCEPT ![ops + 1] = o]
    /\ pc' = [pc EXCEPT ![p] = label]
    /\ work' = [work EXCEPT ![p] = [op |-> op, owner |-> o, id |-> ops + 1,
                                    explicit |-> explicit, port |-> NoPort]]
    /\ UNCHANGED <<dirs, container, tokens, attach, buf>>

\* start_session_container, exec_in_session_container when the container is
\* not running, start_hub_container.
Start(p) ==
    \E o \in dirs \cup {Hub}, explicit \in BOOLEAN :
        /\ Begin(p, "start", o, "status", explicit)
        /\ ended' = ended \ {o}

\* start_session_conversation.
Converse(p) ==
    \E s \in dirs :
        /\ Begin(p, "converse", s, "status", FALSE)
        /\ ended' = ended \ {s}

\* stop_session_container, which looks for no directory, and stop_hub_container.
Stop(p) ==
    \E o \in Owners : Begin(p, "stop", o, "revoke", FALSE) /\ UNCHANGED ended

\* prune_session.
Prune(p) ==
    \E s \in dirs : Begin(p, "prune", s, "revoke", FALSE) /\ UNCHANGED ended

\* create_session.
Create(p) ==
    /\ pc[p] = "idle"
    /\ ops < MaxOps
    /\ ops' = ops + 1
    /\ \E s \in Sessions : dirs' = dirs \cup {s}
    /\ UNCHANGED <<container, tokens, attach, pc, work, buf, holder, ended>>

\* Once the start of a container is over, a conversation goes on.
AfterStart(op) == IF op = "converse" THEN "seed" ELSE "idle"

-----------------------------------------------------------------------------
(* A container is started.                                                  *)

\* A container that runs is left alone, unless it is to be replaced; without a
\* container runtime, or for the hub without the gateway, nothing is started.
Status(p) ==
    LET w == work[p]
    IN  /\ pc[p] = "status"
        /\ \/ Goto(p, AfterStart(w.op))
           \/ /\ ~Running(w.owner) \/ w.explicit
              /\ Goto(p, IF w.owner = Hub THEN "rm" ELSE "limit")
        /\ UNCHANGED <<dirs, container, tokens, attach, buf, ops, holder, ended>>

\* A mutant of start_session_container: one session too many.
AtLimitPast(n) == MaxConcurrent > 0 /\ n > MaxConcurrent

AtLimit(n) == MaxConcurrent > 0 /\ n >= MaxConcurrent

\* The running containers of the other sessions are counted.
Limit(p) ==
    /\ pc[p] = "limit"
    /\ Goto(p, IF AtLimit(Cardinality({s \in dirs \ {work[p].owner} : Running(s)}))
               THEN "idle" ELSE "port")
    /\ UNCHANGED <<dirs, container, tokens, attach, buf, ops, holder, ended>>

\* The port of an earlier start, or the lowest free one, or, when all are
\* taken, one the system gives; then the launch specification is validated.
ChoosePort(p) ==
    LET s == work[p].owner
        free == FreePorts
        choice == IF attach[s] # NoPort THEN {attach[s]}
                  ELSE IF free # {} THEN {q \in free : \A r \in free : q <= r}
                  ELSE Ports \ Bound
    IN  /\ pc[p] = "port"
        /\ \/ \E q \in choice :
                  /\ pc' = [pc EXCEPT ![p] = "rm"]
                  /\ work' = [work EXCEPT ![p].port = q]
           \/ Goto(p, "idle")
        /\ UNCHANGED <<dirs, container, tokens, attach, buf, ops, holder, ended>>

\* A mutant of `docker rm -f`: without -f it leaves a running container.
RemoveExited(p) ==
    LET o == work[p].owner
    IN  /\ pc[p] = "rm"
        /\ container' = IF Running(o) THEN container
                        ELSE [container EXCEPT ![o] = NoContainer]
        /\ Goto(p, "issue")
        /\ UNCHANGED <<dirs, tokens, attach, buf, ops, holder, ended>>

\* An old container is removed; the result is not looked at.
RemoveOld(p) ==
    /\ pc[p] = "rm"
    /\ \/ container' = [container EXCEPT ![work[p].owner] = NoContainer]
       \/ "rm" \in Faults /\ UNCHANGED container
    /\ Goto(p, "issue")
    /\ UNCHANGED <<dirs, tokens, attach, buf, ops, holder, ended>>

Issue(p) ==
    /\ pc[p] = "issue"
    /\ buf' = [buf EXCEPT ![p] = tokens]
    /\ Goto(p, "issueSave")
    /\ UNCHANGED <<dirs, container, tokens, attach, ops, holder, ended>>

\* The launch specification of the hub is validated only now: if it is not
\* valid, the token stays.
IssueSave(p) ==
    LET w == work[p]
    IN  /\ pc[p] = "issueSave"
        /\ tokens' = Issued(buf[p], w.owner, w.id)
        /\ Forget(p)
        /\ IF w.owner = Hub
           THEN \/ Goto(p, "idle")
                \/ /\ pc' = [pc EXCEPT ![p] = "run"]
                   /\ work' = [work EXCEPT ![p].port = HubPort]
           ELSE Goto(p, "attach")
        /\ UNCHANGED <<dirs, container, attach, ops, holder, ended>>

SaveAttach(p) ==
    /\ pc[p] = "attach"
    /\ attach' = [attach EXCEPT ![work[p].owner] = work[p].port]
    /\ Goto(p, "run")
    /\ UNCHANGED <<dirs, container, tokens, buf, ops, holder, ended>>

\* The runtime accepts a name and a port that are not in use.
Launched(w) ==
    /\ container[w.owner] = NoContainer
    /\ w.port \notin Bound
    /\ container' = [container EXCEPT ![w.owner] =
                      [token |-> w.id, port |-> w.port, running |-> TRUE]]

\* `docker run` succeeds, or fails; with a session it has a timeout, and
\* nothing catches the exception.
Run(p) ==
    LET w == work[p]
    IN  /\ pc[p] = "run"
        /\ \/ /\ Launched(w)
              /\ Goto(p, AfterStart(w.op))
           \/ /\ \/ "run" \in Faults
                 \/ container[w.owner] # NoContainer
                 \/ w.port \in Bound
              /\ UNCHANGED container
              /\ Goto(p, "undo")
           \/ /\ "timeout" \in Faults
              /\ w.owner # Hub
              /\ Launched(w) \/ UNCHANGED container
              /\ Goto(p, "idle")
        /\ UNCHANGED <<dirs, tokens, attach, buf, ops, holder, ended>>

\* The token is revoked by its id, if the file still has it,
AfterUndo(w) == IF w.owner = Hub THEN "idle" ELSE "unattach"

Undo(p) ==
    /\ pc[p] = "undo"
    /\ IF tokens[work[p].id] = "active"
       THEN /\ buf' = [buf EXCEPT ![p] = tokens]
            /\ Goto(p, "undoSave")
       ELSE /\ Goto(p, AfterUndo(work[p]))
            /\ UNCHANGED buf
    /\ UNCHANGED <<dirs, container, tokens, attach, ops, holder, ended>>

\* A mutant of the failed start: the tokens the new one replaced come back.
UndoByRestoring(p) ==
    LET w == work[p]
    IN  /\ pc[p] = "undoSave"
        /\ tokens' = [id \in Ids |->
                        IF id = w.id THEN "revoked"
                        ELSE IF buf[p][id] = "revoked" /\ holder[id] = w.owner
                             THEN "active" ELSE buf[p][id]]
        /\ Forget(p)
        /\ Goto(p, AfterUndo(w))
        /\ UNCHANGED <<dirs, container, attach, ops, holder, ended>>

UndoSave(p) ==
    /\ pc[p] = "undoSave"
    /\ tokens' = [buf[p] EXCEPT ![work[p].id] = "revoked"]
    /\ Forget(p)
    /\ Goto(p, AfterUndo(work[p]))
    /\ UNCHANGED <<dirs, container, attach, ops, holder, ended>>

\* and the attach state of a session is removed.
Unattach(p) ==
    /\ pc[p] = "unattach"
    /\ attach' = [attach EXCEPT ![work[p].owner] = NoPort]
    /\ Goto(p, AfterStart(work[p].op))
    /\ UNCHANGED <<dirs, container, tokens, buf, ops, holder, ended>>

\* The conversation loads the attach state, and if the prompt is delivered
Seed(p) ==
    LET port == attach[work[p].owner]
    IN  /\ pc[p] = "seed"
        /\ \/ /\ port # NoPort
              /\ pc' = [pc EXCEPT ![p] = "reattach"]
              /\ work' = [work EXCEPT ![p].port = port]
           \/ Goto(p, "idle")
        /\ UNCHANGED <<dirs, container, tokens, attach, buf, ops, holder, ended>>

\* saves it again, with the identifier of the conversation.
Reattach(p) ==
    /\ pc[p] = "reattach"
    /\ attach' = [attach EXCEPT ![work[p].owner] = work[p].port]
    /\ Goto(p, "idle")
    /\ UNCHANGED <<dirs, container, tokens, buf, ops, holder, ended>>

StartStep(p) ==
    \/ Status(p) \/ Limit(p) \/ ChoosePort(p) \/ RemoveOld(p)
    \/ Issue(p) \/ IssueSave(p) \/ SaveAttach(p) \/ Run(p)
    \/ Undo(p) \/ UndoSave(p) \/ Unattach(p)
    \/ Seed(p) \/ Reattach(p)

-----------------------------------------------------------------------------
(* A container is stopped.                                                  *)

AfterRevoke(w) == IF w.owner = Hub THEN "remove" ELSE "detach"

\* A mutant of stop_session_container: nothing is revoked for a container
\* that has exited.
RevokeRunning(p) ==
    LET w == work[p]
    IN  /\ pc[p] = "revoke"
        /\ IF ActiveOf(tokens, w.owner) # {} /\ Running(w.owner)
           THEN /\ buf' = [buf EXCEPT ![p] = tokens]
                /\ Goto(p, "revokeSave")
           ELSE /\ Goto(p, AfterRevoke(w))
                /\ UNCHANGED buf
        /\ UNCHANGED <<dirs, container, tokens, attach, ops, holder, ended>>

\* revoke_tokens_for_session, revoke_tokens_for_role: the file is saved only
\* if it has an active token of the owner.
Revoke(p) ==
    LET w == work[p]
    IN  /\ pc[p] = "revoke"
        /\ IF ActiveOf(tokens, w.owner) # {}
           THEN /\ buf' = [buf EXCEPT ![p] = tokens]
                /\ Goto(p, "revokeSave")
           ELSE /\ Goto(p, AfterRevoke(w))
                /\ UNCHANGED buf
        /\ UNCHANGED <<dirs, container, tokens, attach, ops, holder, ended>>

RevokeSave(p) ==
    /\ pc[p] = "revokeSave"
    /\ tokens' = RevokedOf(buf[p], work[p].owner)
    /\ Forget(p)
    /\ Goto(p, AfterRevoke(work[p]))
    /\ UNCHANGED <<dirs, container, attach, ops, holder, ended>>

\* remove_session_attach_state.
Detach(p) ==
    /\ pc[p] = "detach"
    /\ attach' = [attach EXCEPT ![work[p].owner] = NoPort]
    /\ Goto(p, "remove")
    /\ UNCHANGED <<dirs, container, tokens, buf, ops, holder, ended>>

Remove(p) ==
    LET w == work[p]
    IN  /\ pc[p] = "remove"
        /\ \/ container' = [container EXCEPT ![w.owner] = NoContainer]
           \/ "rm" \in Faults /\ UNCHANGED container
        /\ ended' = ended \cup {w.owner}
        /\ Goto(p, IF w.op = "prune" THEN "rmtree" ELSE "idle")
        /\ UNCHANGED <<dirs, tokens, attach, buf, ops, holder>>

\* prune_session goes on whatever became of the container.
RemoveTree(p) ==
    /\ pc[p] = "rmtree"
    /\ dirs' = dirs \ {work[p].owner}
    /\ Goto(p, "idle")
    /\ UNCHANGED <<container, tokens, attach, buf, ops, holder, ended>>

StopStep(p) ==
    Revoke(p) \/ RevokeSave(p) \/ Detach(p) \/ Remove(p) \/ RemoveTree(p)

-----------------------------------------------------------------------------
\* A container exits by itself; its name stays taken.
Exit(o) ==
    /\ "exit" \in Faults
    /\ Running(o)
    /\ container' = [container EXCEPT ![o].running = FALSE]
    /\ UNCHANGED <<dirs, tokens, attach, pc, work, buf, ops, holder, ended>>

Crash(p) ==
    /\ "crash" \in Faults
    /\ pc[p] # "idle"
    /\ Goto(p, "idle")
    /\ Forget(p)
    /\ UNCHANGED <<dirs, container, tokens, attach, ops, holder, ended>>

Step(p) ==
    \/ Start(p) \/ Converse(p) \/ Stop(p) \/ Prune(p) \/ Create(p)
    \/ StartStep(p) \/ StopStep(p)
    \/ Crash(p)

Next == (\E o \in Owners : Exit(o)) \/ \E p \in Procs : Step(p)

Spec == Init /\ [][Next]_vars

-----------------------------------------------------------------------------
(* Properties.                                                              *)

\* What a process works on at each label.
WorkFits(label, w) ==
    /\ (label = "idle") <=> (w = NoWork)
    /\ label \in {"limit", "port", "attach", "unattach", "seed", "reattach", "detach", "rmtree"}
          => w.owner \in Sessions
    /\ label = "reattach" => w.port \in Ports
    /\ label \in {"rm", "issue", "issueSave", "attach", "run"} /\ w.owner \in Sessions
          => w.port \in Ports
    /\ label = "run" /\ w.owner = Hub => w.port = HubPort
    /\ label # "idle" /\ w.op \in {"converse", "prune"} => w.owner \in Sessions

\* The type invariant.
TypeOK ==
    /\ dirs \subseteq Sessions
    /\ container \in [Owners -> Container \cup {NoContainer}]
    /\ tokens \in Tokens
    /\ attach \in [Sessions -> Ports \cup {NoPort}]
    /\ pc \in [Procs -> Labels]
    /\ work \in [Procs -> Work \cup {NoWork}]
    /\ buf \in [Procs -> Tokens]
    /\ \A p \in Procs : WorkFits(pc[p], work[p])
    /\ ops \in 0 .. MaxOps
    /\ holder \in [Ids -> Owners \cup {Nobody}]
    /\ ended \subseteq Owners

\* A copy of the store has at most one active token for an owner.
OneActiveIn(store) ==
    \A i, j \in Ids :
        store[i] = "active" /\ store[j] = "active" /\ holder[i] = holder[j] => i = j

\* "Starting a container revokes any prior active tokens": whatever processes
\* start, stop and die at the same time, and whatever updates are lost, an
\* owner never has two tokens that are accepted.
OneActiveToken == OneActiveIn(tokens)

\* What makes OneActiveToken inductive: the copies that processes hold have it
\* too, an operation issues its token to its owner, and no copy knows a token
\* of an operation that is yet to begin.
TokenInv ==
    /\ TypeOK
    /\ OneActiveIn(tokens)
    /\ \A p \in Procs : OneActiveIn(buf[p])
    /\ \A p \in Procs : pc[p] # "idle" =>
           work[p].id <= ops /\ holder[work[p].id] = work[p].owner
    /\ \A id \in Ids : id > ops =>
           tokens[id] = "absent" /\ \A p \in Procs : buf[p][id] = "absent"

BusyWith(o) == \E p \in Procs : pc[p] # "idle" /\ work[p].owner = o

\* A container that runs can do its work: its token is accepted, and the
\* attach state of a session has the port it listens on.
RunningReachable ==
    \A o \in Owners :
        Running(o) /\ ~BusyWith(o) =>
            /\ tokens[container[o].token] = "active"
            /\ o # Hub => attach[o] = container[o].port

\* "`stop_session_container` immediately revokes all tokens bound to that
\* session", and frees its port: once stopped, an owner has no token that is
\* accepted and no container until it is started again.
StopRevokes ==
    \A o \in ended :
        /\ ActiveOf(tokens, o) = {}
        /\ ~Running(o)
        /\ o # Hub => attach[o] = NoPort

\* A token that was revoked is never accepted again.
RevokedForGood ==
    [][\A id \in Ids : tokens[id] = "revoked" => tokens'[id] = "revoked"]_vars

\* "max_concurrent_sessions": no more session containers run than the policy
\* allows.
WithinLimit ==
    MaxConcurrent > 0 => Cardinality({s \in Sessions : Running(s)}) <= MaxConcurrent

\* "a free localhost port not already reserved by another session": no two
\* sessions are told the same port.
PortsDistinct ==
    \A s, t \in Sessions : attach[s] # NoPort /\ attach[s] = attach[t] => s = t
=============================================================================

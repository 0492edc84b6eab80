------------------------------ MODULE AuditLog ------------------------------
(***************************************************************************)
(* The two logs a guarded action leaves: the hash-chained audit/audit.jsonl *)
(* of audit.py, and the timeline.md of its session, of timeline.py.         *)
(*                                                                         *)
(* Tool calls of the gateway, its CI monitor thread and the commands of the *)
(* CLI append to both without a lock.  A digest is represented by what it   *)
(* is a digest of: SHA-256 of `prev:payload` is the sequence prev with the  *)
(* payload appended, and the 64 zeroes of the genesis are the empty one.    *)
(***************************************************************************)
EXTENDS Naturals, Sequences, FiniteSets

CONSTANTS
    Procs,      \* the processes and threads that write
    Sessions,   \* the sessions they write for
    Legacy,     \* how many lines the log held before records were chained
    Gone,       \* a session directory that does not exist
    Header,     \* the first lines of a timeline
    Faults,     \* what may go wrong: a subset of Faulty
    MaxCalls    \* bound: how many calls write to the logs

\* A process dies between two steps, or while it appends to the audit log.
Faulty == {"crash", "torn"}

ASSUME LegacyAssumption == Legacy \in Nat
ASSUME FaultsAssumption == Faults \subseteq Faulty
ASSUME BoundsAssumption == MaxCalls \in Nat

VARIABLES
    audit,      \* the lines of audit.jsonl
    timeline,   \* the entries of each session's timeline.md
    pc,         \* what each process does next
    work,       \* the call each process is logging
    calls,      \* how many calls there have been, legacy records included
    prunes,     \* how often each session directory has been removed; with the calls
                \* bounded, so is this
    \* what happened, for the properties:
    owed,       \* the calls that owe the audit log a record
    returned,   \* the calls whose record was appended
    noted,      \* the entries appended to each timeline there is
    tears       \* how many appends were torn

vars == <<audit, timeline, pc, work, calls, prunes, owed, returned, noted, tears>>
history == <<owed, returned, noted, tears>>

Labels == {"idle", "init", "create", "header", "entry", "readLast", "append", "remove"}

\* Who calls: log_action, log_status, the prune_session tool, create_session
\* (which only initialises the timeline), a denial of _authorized_tool (which
\* only writes the audit log).
Kinds == {"action", "status", "prune", "create", "denial"}

Bodies == 1 .. Legacy + MaxCalls

\* No content of a timeline is mistaken for none.
ASSUME GoneAssumption == Gone \notin Seq(Bodies \cup {Header})

NoWork == [kind |-> "none"]

\* `id` is 0 when a prune command, which writes no log, is at work;
\* `prev` is what get_last_record_hash has returned; `file` tells which file
\* the process holds open, a timeline removed and made anew being another.
Work == [kind : Kinds, id : Bodies \cup {0}, session : Sessions, prev : Seq(Bodies),
         file : Nat]

\* Lines of audit.jsonl: records with a hash, records from before there were
\* hashes, the beginning of a record without its newline, and what is left of
\* two writes on one line.
Line == [kind : {"chained", "legacy", "torn", "garbled"},
         body : Bodies, prev : Seq(Bodies), hash : Seq(Bodies)]

LegacyLine(n) == [kind |-> "legacy", body |-> n, prev |-> << >>, hash |-> <<n>>]

Init ==
    /\ audit = [n \in 1 .. Legacy |-> LegacyLine(n)]
    /\ timeline \in [Sessions -> {Gone, <<Header>>}]
    /\ pc = [p \in Procs |-> "idle"]
    /\ work = [p \in Procs |-> NoWork]
    /\ calls = Legacy
    /\ prunes = [s \in Sessions |-> 0]
    /\ owed = {}
    /\ returned = {}
    /\ noted = [s \in Sessions |-> {}]
    /\ tears = 0

-----------------------------------------------------------------------------
(* audit.py.                                                                *)

\* compute_record_hash.
RecordHash(body, prev) == Append(prev, body)

\* A mutant of get_last_record_hash: the digest of the last payload alone.
LastPayloadHash(log) ==
    IF log = << >> THEN << >> ELSE RecordHash(log[Len(log)].body, << >>)

\* Another: a record without a record_hash counts as none.
LastStoredHash(log) ==
    IF log # << >> /\ log[Len(log)].kind = "chained" THEN log[Len(log)].hash ELSE << >>

\* get_last_record_hash: a legacy line is hashed as if it were the first; a
\* line that does not parse counts as none.
LastHash(log) ==
    IF log = << >> \/ log[Len(log)].kind \in {"torn", "garbled"} THEN << >>
    ELSE log[Len(log)].hash

\* The line append_audit_record writes.
Record(body, prev) ==
    [kind |-> "chained", body |-> body, prev |-> prev, hash |-> RecordHash(body, prev)]

Spoiled(kind, body) == [kind |-> kind, body |-> body, prev |-> << >>, hash |-> << >>]

\* A mutant of append_audit_record: the file is opened for writing.
WrittenOver(log, line) == <<line>>

\* What is written after a line without newline ends up on that line.
Written(log, line) ==
    IF log # << >> /\ log[Len(log)].kind = "torn"
    THEN [log EXCEPT ![Len(log)] =
             Spoiled(IF line.kind = "torn" THEN "torn" ELSE "garbled", line.body)]
    ELSE Append(log, line)

\* The payloads of the first n lines: what verify_audit_chain expects of
\* their digest, whether they are legacy lines or chained ones.
Chain(log, n) == [i \in 1 .. n |-> log[i].body]

\* A mutant of verify_audit_chain: a record is checked against its own
\* prev_hash, not against its predecessor.
SelfConsistent(log) ==
    \A n \in 1 .. Len(log) :
        /\ log[n].kind \in {"chained", "legacy"}
        /\ log[n].kind = "chained" => log[n].hash = RecordHash(log[n].body, log[n].prev)

\* verify_audit_chain.
Verifies(log) ==
    \A n \in 1 .. Len(log) :
        /\ log[n].kind \in {"chained", "legacy"}
        /\ log[n].kind = "chained" =>
              /\ log[n].prev = Chain(log, n - 1)
              /\ log[n].hash = RecordHash(log[n].body, Chain(log, n - 1))

-----------------------------------------------------------------------------
(* timeline.py.  A call arrives.                                            *)

Call(p, kind, next) ==
    /\ pc[p] = "idle"
    /\ calls < Legacy + MaxCalls
    /\ calls' = calls + 1
    /\ \E s \in Sessions :
           work' = [work EXCEPT ![p] =
                     [kind |-> kind, id |-> calls + 1, session |-> s,
                      prev |-> << >>, file |-> 0]]
    /\ pc' = [pc EXCEPT ![p] = next]
    /\ owed' = IF kind \in {"status", "create"} THEN owed ELSE owed \cup {calls + 1}
    /\ UNCHANGED <<audit, timeline, prunes, returned, noted, tears>>

LogAction(p) == Call(p, "action", "init")
LogStatus(p) == Call(p, "status", "init")
PruneTool(p) == Call(p, "prune", "init")
CreateSession(p) == Call(p, "create", "init")
Denial(p) == Call(p, "denial", "readLast")

\* A mutant of init_timeline: the existing file is not looked for.
InitAlways(p) ==
    /\ pc[p] = "init"
    /\ pc' = [pc EXCEPT ![p] = "create"]
    /\ UNCHANGED <<audit, timeline, work, calls, prunes, history>>

AfterInit(kind) == IF kind = "create" THEN "idle" ELSE "entry"

\* The process goes on to label `next`; between calls it works on nothing.
Goto(p, next) ==
    /\ pc' = [pc EXCEPT ![p] = next]
    /\ IF next = "idle" THEN work' = [work EXCEPT ![p] = NoWork] ELSE UNCHANGED work

\* init_timeline looks whether the file exists,
InitTimeline(p) ==
    /\ pc[p] = "init"
    /\ Goto(p, IF timeline[work[p].session] = Gone THEN "create"
               ELSE AfterInit(work[p].kind))
    /\ UNCHANGED <<audit, timeline, calls, prunes, history>>

\* opens it for writing, which empties a file made in the meantime,
OpenTimeline(p) ==
    LET s == work[p].session
    IN  /\ pc[p] = "create"
        /\ timeline' = [timeline EXCEPT ![s] = << >>]
        /\ work' = [work EXCEPT ![p].file = prunes[s]]
        /\ pc' = [pc EXCEPT ![p] = "header"]
        /\ UNCHANGED <<audit, calls, prunes, history>>

\* and writes the header over whatever the file begins with by now.  If the
\* session was removed in between, the header goes to a file without a name.
WriteHeader(p) ==
    LET s == work[p].session
    IN  /\ pc[p] = "header"
        /\ IF timeline[s] = Gone \/ prunes[s] # work[p].file
           THEN UNCHANGED timeline
           ELSE \E n \in 0 .. Len(timeline[s]) :
                    /\ timeline[s] # << >> => n > 0
                    /\ timeline' = [timeline EXCEPT ![s] =
                                     <<Header>> \o SubSeq(@, n + 1, Len(@))]
        /\ Goto(p, AfterInit(work[p].kind))
        /\ UNCHANGED <<audit, calls, prunes, history>>

\* A mutant of log_action: only the timeline is written.
EntryOnly(kind) == "idle"

\* log_status ends with the timeline entry, log_action goes on.
AfterEntry(kind) == IF kind = "status" THEN "idle" ELSE "readLast"

\* The entry is appended; without the session directory the call raises, and
\* nothing is audited.
AppendEntry(p) ==
    LET s == work[p].session
    IN  /\ pc[p] = "entry"
        /\ IF timeline[s] = Gone
           THEN /\ Goto(p, "idle")
                /\ UNCHANGED <<timeline, noted>>
           ELSE /\ timeline' = [timeline EXCEPT ![s] = Append(@, work[p].id)]
                /\ noted' = [noted EXCEPT ![s] = @ \cup {work[p].id}]
                /\ Goto(p, AfterEntry(work[p].kind))
        /\ UNCHANGED <<audit, calls, prunes, owed, returned, tears>>

\* append_audit_record reads the file for the last hash,
ReadLast(p) ==
    /\ pc[p] = "readLast"
    /\ work' = [work EXCEPT ![p].prev = LastHash(audit)]
    /\ pc' = [pc EXCEPT ![p] = "append"]
    /\ UNCHANGED <<audit, timeline, calls, prunes, history>>

\* and appends the record.
AppendRecord(p) ==
    LET w == work[p]
    IN  /\ pc[p] = "append"
        /\ audit' = Written(audit, Record(w.id, w.prev))
        /\ returned' = returned \cup {w.id}
        /\ Goto(p, IF w.kind = "prune" THEN "remove" ELSE "idle")
        /\ UNCHANGED <<timeline, calls, prunes, owed, noted, tears>>

\* The prune commands of the CLI log nothing.
PruneCommand(p) ==
    /\ pc[p] = "idle"
    /\ \E s \in Sessions :
           work' = [work EXCEPT ![p] =
                     [kind |-> "prune", id |-> 0, session |-> s, prev |-> << >>, file |-> 0]]
    /\ pc' = [pc EXCEPT ![p] = "remove"]
    /\ UNCHANGED <<audit, timeline, calls, prunes, history>>

\* prune_session removes the session directory, the timeline with it.
RemoveSession(p) ==
    LET s == work[p].session
    IN  /\ pc[p] = "remove"
        /\ timeline' = [timeline EXCEPT ![s] = Gone]
        /\ prunes' = [prunes EXCEPT ![s] = IF timeline[s] = Gone THEN @ ELSE @ + 1]
        /\ noted' = [noted EXCEPT ![s] = {}]
        /\ Goto(p, "idle")
        /\ UNCHANGED <<audit, calls, owed, returned, tears>>

-----------------------------------------------------------------------------
(* A process dies.  What it owed is not held against it.                    *)

Die(p) ==
    /\ Goto(p, "idle")
    /\ owed' = owed \ {work[p].id}
    /\ UNCHANGED <<timeline, calls, prunes, returned, noted>>

Crash(p) ==
    /\ "crash" \in Faults
    /\ pc[p] # "idle"
    /\ Die(p)
    /\ UNCHANGED <<audit, tears>>

\* It dies with the beginning of the record on disk.
Tear(p) ==
    /\ "torn" \in Faults
    /\ pc[p] = "append"
    /\ audit' = Written(audit, Spoiled("torn", work[p].id))
    /\ tears' = tears + 1
    /\ Die(p)

Step(p) ==
    \/ LogAction(p) \/ LogStatus(p) \/ PruneTool(p) \/ CreateSession(p) \/ Denial(p)
    \/ InitTimeline(p) \/ OpenTimeline(p) \/ WriteHeader(p) \/ AppendEntry(p)
    \/ ReadLast(p) \/ AppendRecord(p)
    \/ PruneCommand(p) \/ RemoveSession(p)
    \/ Crash(p) \/ Tear(p)

Next == \E p \in Procs : Step(p)

Spec == Init /\ [][Next]_vars

-----------------------------------------------------------------------------
(* Properties.                                                              *)

\* The type invariant, with what a process works on at each label.
TypeOK ==
    /\ audit \in Seq(Line)
    /\ timeline \in [Sessions -> Seq(Bodies \cup {Header}) \cup {Gone}]
    /\ pc \in [Procs -> Labels]
    /\ work \in [Procs -> Work \cup {NoWork}]
    /\ \A p \in Procs :
           /\ (pc[p] = "idle") <=> (work[p] = NoWork)
           /\ pc[p] \notin {"idle", "remove"} => work[p].id \in Bodies
           /\ pc[p] \in {"entry", "readLast", "append"} => work[p].kind # "create"
           /\ pc[p] \in {"readLast", "append"} => work[p].kind # "status"
    /\ calls \in Legacy .. Legacy + MaxCalls
    /\ prunes \in [Sessions -> Nat]
    /\ owed \subseteq Bodies
    /\ returned \subseteq Bodies
    /\ noted \in [Sessions -> SUBSET Bodies]
    /\ tears \in Nat

\* "linking each record to its predecessor": the log verifies.
ChainVerifies == Verifies(audit)

\* However many processes append, tear lines and die: a record links to the
\* genesis or to a line further up, and carries its own digest.  (Which line,
\* ChainVerifies says.)
LinksBack ==
    \A n \in 1 .. Len(audit) :
        audit[n].kind = "chained" =>
            /\ audit[n].hash = RecordHash(audit[n].body, audit[n].prev)
            /\ \/ audit[n].prev = << >>
               \/ \E m \in 1 .. n - 1 : audit[n].prev = audit[m].hash

\* The records read_audit_records returns.
Readable == {audit[n].body : n \in {m \in 1 .. Len(audit) : audit[m].kind = "chained"}}

\* A record that was appended stays in the log and can be read, except one
\* for each append that was torn.
RecordsKept == Cardinality(returned \ Readable) <= tears

\* A chain that verifies no longer does once a line that is not the last is
\* altered, or removed ("tamper-evident").
AlterationDetected ==
    Verifies(audit) =>
        \A n \in 1 .. Len(audit) - 1 :
            /\ \A b \in Bodies \ {audit[n].body} :
                   ~Verifies([audit EXCEPT ![n].body = b])
            /\ ~Verifies(SubSeq(audit, 1, n - 1) \o SubSeq(audit, n + 1, Len(audit)))

\* What was appended to the timeline of a session is in it until the session
\* is removed ("Record a policy-guarded action to both timeline.md and
\* audit.jsonl").
TimelineKeepsEntries ==
    \A s \in Sessions : \A n \in noted[s] :
        /\ timeline[s] # Gone
        /\ \E i \in 1 .. Len(timeline[s]) : timeline[s][i] = n

\* "Every attempt to interact with a remote system is recorded": a call that
\* is no longer under way, and whose process did not die, has its record.
EveryAttemptRecorded ==
    \A n \in owed :
        n \in Readable \/ \E p \in Procs : pc[p] \notin {"idle", "remove"} /\ work[p].id = n
=============================================================================

--------------------------- MODULE AuditLogProofs ---------------------------
(***************************************************************************)
(* Theorems about AuditLog, for any processes, sessions and bounds.         *)
(***************************************************************************)
EXTENDS AuditLog, SequenceTheorems, FiniteSetTheorems, TLAPS

(***************************************************************************)
(* Types.                                                                  *)
(***************************************************************************)

LEMMA BodiesNat == Bodies \subseteq Nat \ {0}
  BY LegacyAssumption, BoundsAssumption DEF Bodies

\* The lines the code writes are lines.
LEMMA LinesTyped ==
  ASSUME NEW b \in Bodies, NEW prev \in Seq(Bodies)
  PROVE  /\ RecordHash(b, prev) \in Seq(Bodies)
         /\ Record(b, prev) \in Line
         /\ Spoiled("torn", b) \in Line
         /\ Spoiled("garbled", b) \in Line
         /\ LegacyLine(b) \in Line
  <1>1. RecordHash(b, prev) \in Seq(Bodies)
    BY DEF RecordHash
  <1>2. << >> \in Seq(Bodies) /\ <<b>> \in Seq(Bodies)
    OBVIOUS
  <1> QED
    BY <1>1, <1>2 DEF Record, Spoiled, LegacyLine, Line

\* A log with a line written to it is a log: the line is its last, or what is
\* left of a torn one is.
LEMMA WrittenTyped ==
  ASSUME NEW log \in Seq(Line), NEW line \in Line
  PROVE  Written(log, line) \in Seq(Line)
  <1>1. CASE log # << >> /\ log[Len(log)].kind = "torn"
    <2>1. Len(log) \in 1 .. Len(log)
      BY <1>1
    <2>2. line.body \in Bodies
      BY DEF Line
    <2>3. << >> \in Seq(Bodies)
      OBVIOUS
    <2>4. Spoiled(IF line.kind = "torn" THEN "torn" ELSE "garbled", line.body) \in Line
      BY <2>2, <2>3 DEF Spoiled, Line
    <2> QED
      BY <1>1, <2>1, <2>4 DEF Written
  <1>2. CASE ~(log # << >> /\ log[Len(log)].kind = "torn")
    BY <1>2 DEF Written
  <1> QED BY <1>1, <1>2

LEMMA LastHashTyped ==
  ASSUME NEW log \in Seq(Line)
  PROVE  LastHash(log) \in Seq(Bodies)
  <1>1. << >> \in Seq(Bodies)
    OBVIOUS
  <1>2. log # << >> => log[Len(log)] \in Line
    OBVIOUS
  <1> QED BY <1>1, <1>2 DEF LastHash, Line

\* Overwriting the beginning of a timeline with the header leaves a timeline.
LEMMA HeaderTyped ==
  ASSUME NEW t \in Seq(Bodies \cup {Header}), NEW n \in 0 .. Len(t)
  PROVE  <<Header>> \o SubSeq(t, n + 1, Len(t)) \in Seq(Bodies \cup {Header})
  <1>1. SubSeq(t, n + 1, Len(t)) \in Seq(Bodies \cup {Header})
    BY SubSeqProperties
  <1>2. <<Header>> \in Seq(Bodies \cup {Header})
    OBVIOUS
  <1> QED BY <1>1, <1>2, ConcatProperties

LEMMA InitTyped == Init => TypeOK
  <1> SUFFICES ASSUME Init PROVE TypeOK
    OBVIOUS
  <1>1. audit \in Seq(Line)
    <2>1. \A n \in 1 .. Legacy : LegacyLine(n) \in Line
      <3> SUFFICES ASSUME NEW n \in 1 .. Legacy PROVE LegacyLine(n) \in Line
        OBVIOUS
      <3>1. n \in Bodies
        BY LegacyAssumption, BoundsAssumption DEF Bodies
      <3>2. << >> \in Seq(Bodies)
        OBVIOUS
      <3> QED BY <3>1, <3>2, LinesTyped
    <2> QED BY <2>1, LegacyAssumption DEF Init
  <1>2. timeline \in [Sessions -> Seq(Bodies \cup {Header}) \cup {Gone}]
    <2>1. <<Header>> \in Seq(Bodies \cup {Header})
      OBVIOUS
    <2> QED BY <2>1 DEF Init
  <1> QED
    BY <1>1, <1>2, LegacyAssumption, BoundsAssumption DEF Init, TypeOK, Labels, NoWork

\* A step keeps the type invariant.
LEMMA StepTyped ==
  ASSUME TypeOK, NEW p \in Procs, Step(p)
  PROVE  TypeOK'
  <1> USE DEF Labels
  <1>w. NoWork \notin Work /\ \A w \in Work : w.kind \in Kinds /\ w.session \in Sessions
                                             /\ w.prev \in Seq(Bodies) /\ w.file \in Nat
    BY DEF Work, NoWork, Kinds
  <1>p. pc[p] # "idle" => work[p] \in Work
    BY DEF TypeOK
  <1>1. ASSUME NEW kind \in Kinds, NEW next \in {"init", "readLast"}, Call(p, kind, next),
               next = "readLast" => kind = "denial"
        PROVE  TypeOK'
    <2>1. PICK s \in Sessions :
             work' = [work EXCEPT ![p] = [kind |-> kind, id |-> calls + 1, session |-> s,
                                          prev |-> << >>, file |-> 0]]
      BY <1>1 DEF Call
    <2>2. calls + 1 \in Bodies /\ calls' \in Legacy .. Legacy + MaxCalls
      BY <1>1, LegacyAssumption, BoundsAssumption DEF Call, Bodies, TypeOK
    <2>3. work'[p] \in Work /\ work'[p].id = calls + 1 /\ work'[p].kind = kind
      <3>1. << >> \in Seq(Bodies)
        OBVIOUS
      <3> QED BY <2>1, <2>2, <3>1 DEF Work, TypeOK
    <2>4. work' \in [Procs -> Work \cup {NoWork}] /\ \A q \in Procs \ {p} : work'[q] = work[q]
      BY <2>1, <2>3 DEF TypeOK
    <2>5. pc'[p] = next /\ pc' \in [Procs -> Labels] /\ \A q \in Procs \ {p} : pc'[q] = pc[q]
      BY <1>1 DEF Call, TypeOK
    <2>6. owed' \subseteq Bodies
      BY <1>1, <2>2 DEF Call, TypeOK
    <2> QED
      BY <1>1, <1>w, <2>2, <2>3, <2>4, <2>5, <2>6 DEF Call, TypeOK
  <1>2. ASSUME NEW next \in Labels, Goto(p, next), pc[p] # "idle",
               next \in {"entry", "readLast", "append"} => work[p].kind # "create",
               next \in {"readLast", "append"} => work[p].kind # "status",
               next \notin {"idle", "remove"} => work[p].id \in Bodies
        PROVE  /\ pc' \in [Procs -> Labels]
               /\ work' \in [Procs -> Work \cup {NoWork}]
               /\ \A q \in Procs :
                     /\ (pc'[q] = "idle") <=> (work'[q] = NoWork)
                     /\ pc'[q] \notin {"idle", "remove"} => work'[q].id \in Bodies
                     /\ pc'[q] \in {"entry", "readLast", "append"} => work'[q].kind # "create"
                     /\ pc'[q] \in {"readLast", "append"} => work'[q].kind # "status"
    <2>1. /\ pc'[p] = next
          /\ work'[p] = IF next = "idle" THEN NoWork ELSE work[p]
          /\ pc' \in [Procs -> Labels]
          /\ work' \in [Procs -> Work \cup {NoWork}]
          /\ \A q \in Procs \ {p} : pc'[q] = pc[q] /\ work'[q] = work[q]
      BY <1>2 DEF Goto, TypeOK
    <2> QED BY <1>2, <2>1 DEF TypeOK
  <1>3. ASSUME InitTimeline(p) PROVE TypeOK'
    <2> DEFINE next == IF timeline[work[p].session] = Gone THEN "create"
                       ELSE AfterInit(work[p].kind)
    <2>1. next \in {"create", "idle", "entry"} /\ (next = "entry" => work[p].kind # "create")
      BY DEF AfterInit
    <2>2. pc[p] = "init" /\ Goto(p, next) /\ work[p].id \in Bodies
      BY <1>3 DEF InitTimeline, TypeOK
    <2>3. UNCHANGED <<audit, timeline, calls, prunes, owed, returned, noted, tears>>
      BY <1>3 DEF InitTimeline, history
    <2> HIDE DEF next
    <2> QED BY <1>2, <2>1, <2>2, <2>3 DEF TypeOK
  <1>4. ASSUME OpenTimeline(p) PROVE TypeOK'
    <2> DEFINE s == work[p].session
    <2>1. pc[p] = "create" /\ work[p] \in Work /\ s \in Sessions
      BY <1>4, <1>p, <1>w DEF OpenTimeline
    <2>2. timeline' \in [Sessions -> Seq(Bodies \cup {Header}) \cup {Gone}]
      <3>1. << >> \in Seq(Bodies \cup {Header})
        OBVIOUS
      <3> QED BY <1>4, <2>1, <3>1 DEF OpenTimeline, TypeOK
    <2>3. /\ work'[p] \in Work /\ work'[p].id = work[p].id /\ work'[p].kind = work[p].kind
          /\ work' \in [Procs -> Work \cup {NoWork}]
          /\ \A q \in Procs \ {p} : work'[q] = work[q]
      BY <1>4, <2>1 DEF OpenTimeline, TypeOK, Work
    <2>4. pc'[p] = "header" /\ pc' \in [Procs -> Labels] /\ \A q \in Procs \ {p} : pc'[q] = pc[q]
      BY <1>4 DEF OpenTimeline, TypeOK
    <2>5. /\ UNCHANGED <<audit, calls, prunes, owed, returned, tears>>
          /\ noted' \in [Sessions -> SUBSET Bodies]
      BY <1>4, <2>1 DEF OpenTimeline, TypeOK, history
    <2>6. \A q \in Procs :
             /\ (pc'[q] = "idle") <=> (work'[q] = NoWork)
             /\ pc'[q] \notin {"idle", "remove"} => work'[q].id \in Bodies
             /\ pc'[q] \in {"entry", "readLast", "append"} => work'[q].kind # "create"
             /\ pc'[q] \in {"readLast", "append"} => work'[q].kind # "status"
      <3> TAKE q \in Procs
      <3>1. CASE q = p
        BY <1>w, <2>1, <2>3, <2>4, <3>1 DEF TypeOK, Work, NoWork
      <3>2. CASE q # p
        BY <2>3, <2>4, <3>2 DEF TypeOK
      <3> QED BY <3>1, <3>2
    <2> QED BY <2>2, <2>3, <2>4, <2>5, <2>6 DEF TypeOK
  <1>5. ASSUME WriteHeader(p) PROVE TypeOK'
    <2> DEFINE s == work[p].session
    <2>1. pc[p] = "header" /\ work[p] \in Work /\ s \in Sessions /\ work[p].id \in Bodies
      BY <1>5, <1>p, <1>w DEF WriteHeader, TypeOK
    <2>2. timeline' \in [Sessions -> Seq(Bodies \cup {Header}) \cup {Gone}]
      <3>1. CASE UNCHANGED timeline
        BY <3>1 DEF TypeOK
      <3>2. CASE timeline[s] # Gone /\ \E n \in 0 .. Len(timeline[s]) :
                    timeline' = [timeline EXCEPT ![s] =
                                   <<Header>> \o SubSeq(@, n + 1, Len(@))]
        <4>1. timeline[s] \in Seq(Bodies \cup {Header})
          BY <2>1, <3>2 DEF TypeOK
        <4>2. PICK n \in 0 .. Len(timeline[s]) :
                 timeline' = [timeline EXCEPT ![s] =
                                <<Header>> \o SubSeq(timeline[s], n + 1, Len(timeline[s]))]
          BY <3>2
        <4>3. <<Header>> \o SubSeq(timeline[s], n + 1, Len(timeline[s]))
                 \in Seq(Bodies \cup {Header})
          BY <4>1, HeaderTyped
        <4> QED BY <2>1, <4>2, <4>3 DEF TypeOK
      <3> QED BY <1>5, <3>1, <3>2 DEF WriteHeader
    <2>3. /\ AfterInit(work[p].kind) \in {"idle", "entry"}
          /\ AfterInit(work[p].kind) = "entry" => work[p].kind # "create"
      BY DEF AfterInit
    <2>4. Goto(p, AfterInit(work[p].kind))
          /\ UNCHANGED <<audit, calls, prunes, owed, returned, noted, tears>>
      BY <1>5 DEF WriteHeader, history
    <2> QED BY <1>2, <2>1, <2>2, <2>3, <2>4 DEF TypeOK
  <1>6. ASSUME AppendEntry(p) PROVE TypeOK'
    <2> DEFINE s == work[p].session
    <2>1. pc[p] = "entry" /\ work[p] \in Work /\ s \in Sessions /\ work[p].id \in Bodies
      BY <1>6, <1>p, <1>w DEF AppendEntry, TypeOK
    <2>2. UNCHANGED <<audit, calls, prunes, owed, returned, tears>>
      BY <1>6 DEF AppendEntry
    <2>3. CASE timeline[s] = Gone
      BY <1>2, <1>6, <2>1, <2>2, <2>3 DEF AppendEntry, TypeOK
    <2>4. CASE timeline[s] # Gone
      <3>1. /\ timeline' = [timeline EXCEPT ![s] = Append(timeline[s], work[p].id)]
            /\ noted' = [noted EXCEPT ![s] = noted[s] \cup {work[p].id}]
            /\ Goto(p, AfterEntry(work[p].kind))
        BY <1>6, <2>4 DEF AppendEntry
      <3>2. timeline[s] \in Seq(Bodies \cup {Header})
        BY <2>1, <2>4 DEF TypeOK
      <3>3. Append(timeline[s], work[p].id) \in Seq(Bodies \cup {Header})
        BY <2>1, <3>2
      <3>4. timeline' \in [Sessions -> Seq(Bodies \cup {Header}) \cup {Gone}]
            /\ noted' \in [Sessions -> SUBSET Bodies]
        BY <2>1, <3>1, <3>3 DEF TypeOK
      <3>5. /\ AfterEntry(work[p].kind) \in {"idle", "readLast"}
            /\ AfterEntry(work[p].kind) = "readLast" => work[p].kind # "status"
            /\ work[p].kind # "create"
        BY <2>1 DEF AfterEntry, TypeOK
      <3> QED
        BY <1>2, <2>1, <2>2, <3>1, <3>4, <3>5 DEF TypeOK
    <2> QED BY <2>3, <2>4
  <1>7. ASSUME ReadLast(p) PROVE TypeOK'
    <2>1. pc[p] = "readLast" /\ work[p] \in Work
      BY <1>7, <1>p DEF ReadLast
    <2>2. LastHash(audit) \in Seq(Bodies)
      BY LastHashTyped DEF TypeOK
    <2>3. /\ work'[p] \in Work /\ work'[p].id = work[p].id /\ work'[p].kind = work[p].kind
          /\ work' \in [Procs -> Work \cup {NoWork}]
          /\ \A q \in Procs \ {p} : work'[q] = work[q]
      BY <1>7, <2>1, <2>2 DEF ReadLast, TypeOK, Work
    <2>4. pc'[p] = "append" /\ pc' \in [Procs -> Labels] /\ \A q \in Procs \ {p} : pc'[q] = pc[q]
      BY <1>7 DEF ReadLast, TypeOK
    <2>5. work[p].id \in Bodies /\ work[p].kind # "create" /\ work[p].kind # "status"
      BY <2>1 DEF TypeOK
    <2>6. ASSUME NEW q \in Procs
          PROVE  /\ (pc'[q] = "idle") <=> (work'[q] = NoWork)
                 /\ pc'[q] \notin {"idle", "remove"} => work'[q].id \in Bodies
                 /\ pc'[q] \in {"entry", "readLast", "append"} => work'[q].kind # "create"
                 /\ pc'[q] \in {"readLast", "append"} => work'[q].kind # "status"
      <3>1. CASE q = p
        <4>1. work'[p] # NoWork
          BY <1>w, <2>3
        <4> QED BY <2>3, <2>4, <2>5, <3>1, <4>1
      <3>2. CASE q # p
        BY <2>3, <2>4, <3>2 DEF TypeOK
      <3> QED BY <3>1, <3>2
    <2>7. UNCHANGED <<audit, timeline, calls, prunes, owed, returned, noted, tears>>
      BY <1>7 DEF ReadLast, history
    <2> QED BY <2>3, <2>4, <2>6, <2>7 DEF TypeOK
  <1>8. ASSUME AppendRecord(p) PROVE TypeOK'
    <2>1. pc[p] = "append" /\ work[p] \in Work /\ work[p].id \in Bodies
      BY <1>8, <1>p DEF AppendRecord, TypeOK
    <2>2. audit' \in Seq(Line)
      <3> DEFINE b == work[p].id
                 prev == work[p].prev
      <3>0. b \in Bodies /\ prev \in Seq(Bodies)
        BY <1>w, <2>1
      <3> HIDE DEF b, prev
      <3>1. Record(b, prev) \in Line
        BY <3>0, LinesTyped
      <3> QED BY <1>8, <3>1, WrittenTyped DEF AppendRecord, TypeOK, b, prev
    <2>3. PICK next \in {"remove", "idle"} : Goto(p, next)
      BY <1>8 DEF AppendRecord
    <2>4. returned' \subseteq Bodies
      BY <1>8, <2>1 DEF AppendRecord, TypeOK
    <2> QED BY <1>2, <1>8, <2>1, <2>2, <2>3, <2>4 DEF AppendRecord, TypeOK
  <1>9. ASSUME PruneCommand(p) PROVE TypeOK'
    <2>1. PICK s \in Sessions :
             work' = [work EXCEPT ![p] = [kind |-> "prune", id |-> 0, session |-> s,
                                          prev |-> << >>, file |-> 0]]
      BY <1>9 DEF PruneCommand
    <2>2. work'[p] \in Work
      <3>1. << >> \in Seq(Bodies)
        OBVIOUS
      <3> QED BY <2>1, <3>1 DEF Work, Kinds, TypeOK
    <2>3. work' \in [Procs -> Work \cup {NoWork}] /\ \A q \in Procs \ {p} : work'[q] = work[q]
      BY <2>1, <2>2 DEF TypeOK
    <2>4. pc'[p] = "remove" /\ pc' \in [Procs -> Labels] /\ \A q \in Procs \ {p} : pc'[q] = pc[q]
      BY <1>9 DEF PruneCommand, TypeOK
    <2> QED BY <1>9, <1>w, <2>2, <2>3, <2>4 DEF PruneCommand, TypeOK, history
  <1>10. ASSUME RemoveSession(p) PROVE TypeOK'
    <2>1. pc[p] = "remove" /\ work[p].session \in Sessions
      BY <1>10, <1>p, <1>w DEF RemoveSession
    <2>2. /\ timeline' \in [Sessions -> Seq(Bodies \cup {Header}) \cup {Gone}]
          /\ prunes' \in [Sessions -> Nat]
          /\ noted' \in [Sessions -> SUBSET Bodies]
      BY <1>10, <2>1 DEF RemoveSession, TypeOK
    <2> QED BY <1>2, <1>10, <2>1, <2>2 DEF RemoveSession, TypeOK
  <1>11. ASSUME Crash(p) \/ Tear(p) PROVE TypeOK'
    <2>1. /\ Goto(p, "idle") /\ pc[p] # "idle" /\ owed' \subseteq owed
          /\ UNCHANGED <<timeline, calls, prunes, returned, noted>>
      BY <1>11 DEF Crash, Tear, Die
    <2>2. audit' \in Seq(Line) /\ tears' \in Nat
      <3>1. CASE Crash(p)
        BY <3>1 DEF Crash, TypeOK
      <3>2. CASE Tear(p)
        <4>1. work[p].id \in Bodies
          BY <3>2 DEF Tear, TypeOK
        <4>2. Spoiled("torn", work[p].id) \in Line
          <5>1. << >> \in Seq(Bodies)
            OBVIOUS
          <5> QED BY <4>1, <5>1, LinesTyped
        <4> QED BY <3>2, <4>2, WrittenTyped DEF Tear, TypeOK
      <3> QED BY <1>11, <3>1, <3>2
    <2> QED BY <1>2, <2>1, <2>2 DEF TypeOK
  <1>12. CASE \/ LogAction(p) \/ LogStatus(p) \/ PruneTool(p) \/ CreateSession(p) \/ Denial(p)
    BY <1>1, <1>12 DEF LogAction, LogStatus, PruneTool, CreateSession, Denial, Kinds
  <1> QED
    BY <1>3, <1>4, <1>5, <1>6, <1>7, <1>8, <1>9, <1>10, <1>11, <1>12 DEF Step

THEOREM TypeCorrect == Spec => []TypeOK
  <1>1. TypeOK /\ [Next]_vars => TypeOK'
    BY StepTyped DEF Next, vars, TypeOK
  <1> QED BY <1>1, InitTyped, PTL DEF Spec

(***************************************************************************)
(* Links, with any number of writers.                                      *)
(***************************************************************************)

\* A hash that some line of the log has, or the genesis.
Linked(log, hash) == hash = << >> \/ \E m \in 1 .. Len(log) : hash = log[m].hash

\* LinksBack, with what makes it inductive: a spoiled line has no hash, and a
\* writer has read the hash of a line that is still there.
LinkInv ==
    /\ TypeOK
    /\ LinksBack
    /\ \A n \in 1 .. Len(audit) :
           audit[n].kind \in {"torn", "garbled"} => audit[n].hash = << >>
    /\ \A p \in Procs : pc[p] = "append" => Linked(audit, work[p].prev)

\* Writing a line leaves the lines above it alone, and the last one unless it
\* was torn.
Extends(new, log, line) ==
    \/ /\ Len(new) = Len(log) + 1
       /\ new[Len(log) + 1] = line
       /\ \A n \in 1 .. Len(log) : new[n] = log[n]
    \/ /\ Len(new) = Len(log) /\ Len(log) > 0
       /\ log[Len(log)].kind = "torn"
       /\ new[Len(log)].kind \in {"torn", "garbled"} /\ new[Len(log)].hash = << >>
       /\ \A n \in 1 .. Len(log) - 1 : new[n] = log[n]

LEMMA WrittenLines ==
  ASSUME NEW log \in Seq(Line), NEW line \in Line
  PROVE  Extends(Written(log, line), log, line)
  <1> DEFINE new == Written(log, line)
  <1>1. CASE log # << >> /\ log[Len(log)].kind = "torn"
    <2> DEFINE last == Spoiled(IF line.kind = "torn" THEN "torn" ELSE "garbled", line.body)
    <2>1. new = [log EXCEPT ![Len(log)] = last] /\ Len(log) \in 1 .. Len(log)
      BY <1>1 DEF Written
    <2>2. last.kind \in {"torn", "garbled"} /\ last.hash = << >>
      BY DEF Spoiled
    <2> HIDE DEF last
    <2>3. Len(new) = Len(log) /\ new[Len(log)] = last
          /\ \A n \in 1 .. Len(log) - 1 : new[n] = log[n]
      BY <2>1
    <2>4. new[Len(log)].kind \in {"torn", "garbled"} /\ new[Len(log)].hash = << >>
      BY <2>2, <2>3
    <2>5. Len(log) > 0
      BY <2>1
    <2> HIDE DEF new
    <2>6. Extends(new, log, line)
      BY <1>1, <2>3, <2>4, <2>5 DEF Extends
    <2> QED BY <2>6 DEF new
  <1>2. CASE ~(log # << >> /\ log[Len(log)].kind = "torn")
    <2>1. new = Append(log, line)
      BY <1>2 DEF Written
    <2> HIDE DEF new
    <2>2. Extends(new, log, line)
      BY <2>1 DEF Extends
    <2> QED BY <2>2 DEF new
  <1> QED BY <1>1, <1>2

\* Written lines keep every link: a line that is replaced had no hash.
LEMMA WriteLinks ==
  ASSUME LinkInv, NEW line \in Line, audit' = Written(audit, line), audit' \in Seq(Line),
         line.kind \in {"torn", "garbled"} => line.hash = << >>,
         line.kind = "chained" => /\ line.hash = RecordHash(line.body, line.prev)
                                 /\ Linked(audit, line.prev)
  PROVE  /\ LinksBack'
         /\ \A n \in 1 .. Len(audit') :
               audit'[n].kind \in {"torn", "garbled"} => audit'[n].hash = << >>
         /\ \A hash : Linked(audit, hash) => Linked(audit', hash)
  <1> DEFINE L == Len(audit)
  <1>1. audit \in Seq(Line) /\ L \in Nat
    BY DEF LinkInv, TypeOK
  <1>2. \/ /\ Len(audit') = L + 1
           /\ audit'[L + 1] = line
           /\ \A n \in 1 .. L : audit'[n] = audit[n]
        \/ /\ Len(audit') = L /\ L > 0
           /\ audit[L].kind = "torn"
           /\ audit'[L].kind \in {"torn", "garbled"} /\ audit'[L].hash = << >>
           /\ \A n \in 1 .. L - 1 : audit'[n] = audit[n]
    <2>1. Extends(audit', audit, line)
      BY <1>1, WrittenLines
    <2> QED BY <2>1 DEF Extends
  <1>3. /\ \A n \in 1 .. L : audit'[n].hash = audit[n].hash
        /\ L <= Len(audit') /\ Len(audit') \in Nat
    <2>1. CASE Len(audit') = L + 1
      BY <1>1, <1>2, <2>1
    <2>2. CASE Len(audit') # L + 1
      <3>1. /\ Len(audit') = L /\ L > 0
            /\ audit[L].kind = "torn" /\ audit'[L].hash = << >>
            /\ \A n \in 1 .. L - 1 : audit'[n] = audit[n]
        BY <1>2, <2>2
      <3>2. L \in 1 .. L
        BY <1>1, <3>1
      <3>3. audit[L].hash = << >>
        BY <3>1, <3>2 DEF LinkInv
      <3>4. ASSUME NEW n \in 1 .. L PROVE audit'[n].hash = audit[n].hash
        <4>1. n = L \/ n \in 1 .. L - 1
          BY <1>1
        <4> QED BY <3>1, <3>3, <4>1
      <3> QED BY <1>1, <3>1, <3>4
    <2> QED BY <2>1, <2>2
  <1>4. \A n \in 1 .. L :
          audit'[n].kind = "chained" => audit'[n] = audit[n]
    BY <1>1, <1>2
  <1>5. LinksBack'
    <2> SUFFICES ASSUME NEW n \in 1 .. Len(audit'), audit'[n].kind = "chained"
                 PROVE  /\ audit'[n].hash = RecordHash(audit'[n].body, audit'[n].prev)
                        /\ \/ audit'[n].prev = << >>
                           \/ \E m \in 1 .. n - 1 : audit'[n].prev = audit'[m].hash
      BY DEF LinksBack
    <2>1. CASE n \in 1 .. L
      <3>1. audit'[n] = audit[n]
        BY <1>4, <2>1
      <3>2. /\ audit[n].hash = RecordHash(audit[n].body, audit[n].prev)
            /\ \/ audit[n].prev = << >>
               \/ \E m \in 1 .. n - 1 : audit[n].prev = audit[m].hash
        BY <2>1, <3>1 DEF LinkInv, LinksBack
      <3> QED BY <1>1, <1>3, <2>1, <3>1, <3>2
    <2>2. CASE n \notin 1 .. L
      <3>1. n = L + 1 /\ audit'[n] = line
        BY <1>1, <1>2, <2>2
      <3>2. line.prev = << >> \/ \E m \in 1 .. L : line.prev = audit[m].hash
        BY <3>1 DEF Linked
      <3> QED BY <1>1, <1>3, <3>1, <3>2
    <2> QED BY <2>1, <2>2
  <1>6. \A n \in 1 .. Len(audit') :
          audit'[n].kind \in {"torn", "garbled"} => audit'[n].hash = << >>
    BY <1>1, <1>2 DEF LinkInv
  <1>7. \A hash : Linked(audit, hash) => Linked(audit', hash)
    BY <1>1, <1>3 DEF Linked
  <1> QED BY <1>5, <1>6, <1>7

LEMMA InitLinks == Init => LinkInv
  <1> SUFFICES ASSUME Init PROVE LinkInv
    OBVIOUS
  <1>1. \A n \in 1 .. Len(audit) : audit[n].kind = "legacy"
    BY LegacyAssumption DEF Init, LegacyLine
  <1> QED BY <1>1, InitTyped DEF LinkInv, LinksBack, Init

\* The hash a writer reads is that of the last line, or the genesis.
LEMMA LastHashLinked ==
  ASSUME NEW log \in Seq(Line)
  PROVE  Linked(log, LastHash(log))
  <1>1. log # << >> => Len(log) \in 1 .. Len(log)
    OBVIOUS
  <1> QED BY <1>1 DEF LastHash, Linked

LEMMA StepLinks ==
  ASSUME LinkInv, NEW p \in Procs, Step(p)
  PROVE  LinkInv'
  <1>1. TypeOK'
    BY StepTyped DEF LinkInv
  <1>2. ASSUME UNCHANGED audit,
               \A q \in Procs : pc'[q] = "append" =>
                  \/ pc[q] = "append" /\ work'[q] = work[q]
                  \/ work'[q].prev = LastHash(audit)
        PROVE  LinkInv'
    <2>1. audit \in Seq(Line)
      BY DEF LinkInv, TypeOK
    <2>2. \A q \in Procs : pc'[q] = "append" => Linked(audit, work'[q].prev)
      BY <1>2, <2>1, LastHashLinked DEF LinkInv
    <2>3. LinksBack'
      BY <1>2 DEF LinkInv, LinksBack
    <2> QED BY <1>1, <1>2, <2>2, <2>3 DEF LinkInv, Linked
  <1>3. ASSUME NEW line \in Line, audit' = Written(audit, line),
               line.kind \in {"torn", "garbled"} => line.hash = << >>,
               line.kind = "chained" => /\ line.hash = RecordHash(line.body, line.prev)
                                       /\ Linked(audit, line.prev),
               \A q \in Procs : pc'[q] = "append" => pc[q] = "append" /\ work'[q] = work[q]
        PROVE  LinkInv'
    <2>1. audit' \in Seq(Line)
      BY <1>1 DEF TypeOK
    <2>2. /\ LinksBack'
          /\ \A n \in 1 .. Len(audit') :
                audit'[n].kind \in {"torn", "garbled"} => audit'[n].hash = << >>
          /\ \A hash : Linked(audit, hash) => Linked(audit', hash)
      BY <1>3, <2>1, WriteLinks
    <2>3. \A q \in Procs : pc'[q] = "append" => Linked(audit', work'[q].prev)
      BY <1>3, <2>2 DEF LinkInv
    <2> QED BY <1>1, <2>2, <2>3 DEF LinkInv, Linked
  <1>4. CASE AppendRecord(p)
    <2> DEFINE b == work[p].id
               prev == work[p].prev
    <2>1. pc[p] = "append" /\ b \in Bodies /\ prev \in Seq(Bodies) /\ Linked(audit, prev)
      BY <1>4 DEF AppendRecord, LinkInv, TypeOK, Work, NoWork
    <2>2. Record(b, prev) \in Line
      <3> HIDE DEF b, prev
      <3> QED BY <2>1, LinesTyped
    <2>3. /\ Record(b, prev).kind = "chained"
          /\ Record(b, prev).prev = prev
          /\ Record(b, prev).hash = RecordHash(Record(b, prev).body, prev)
      BY DEF Record
    <2>4. audit' = Written(audit, Record(b, prev))
          /\ \A q \in Procs : pc'[q] = "append" => pc[q] = "append" /\ work'[q] = work[q]
      BY <1>4 DEF AppendRecord, Goto, LinkInv, TypeOK
    <2> QED BY <1>3, <2>1, <2>2, <2>3, <2>4
  <1>5. CASE Tear(p)
    <2> DEFINE line == Spoiled("torn", work[p].id)
    <2>1. work[p].id \in Bodies /\ << >> \in Seq(Bodies)
      BY <1>5 DEF Tear, LinkInv, TypeOK
    <2>2. line \in Line /\ line.kind = "torn" /\ line.hash = << >>
      BY <2>1 DEF Spoiled, Line
    <2>3. audit' = Written(audit, line)
          /\ \A q \in Procs : pc'[q] = "append" => pc[q] = "append" /\ work'[q] = work[q]
      BY <1>5 DEF Tear, Die, Goto, LinkInv, TypeOK
    <2> HIDE DEF line
    <2> QED BY <1>3, <2>2, <2>3
  <1>6. CASE ReadLast(p)
    BY <1>2, <1>6 DEF ReadLast, LinkInv, TypeOK, Work, NoWork
  <1>7. ASSUME UNCHANGED audit, NEW next \in Labels \ {"append"}, pc' = [pc EXCEPT ![p] = next],
               \A q \in Procs \ {p} : work'[q] = work[q]
        PROVE  LinkInv'
    BY <1>2, <1>7 DEF LinkInv, TypeOK
  <1>8. CASE \/ LogAction(p) \/ LogStatus(p) \/ PruneTool(p) \/ CreateSession(p) \/ Denial(p)
    BY <1>7, <1>8 DEF LogAction, LogStatus, PruneTool, CreateSession, Denial, Call, Labels,
                      LinkInv, TypeOK
  <1>9. CASE InitTimeline(p) \/ OpenTimeline(p) \/ WriteHeader(p)
    BY <1>7, <1>9 DEF InitTimeline, OpenTimeline, WriteHeader, AfterInit, Goto, Labels,
                      LinkInv, TypeOK
  <1>10. CASE AppendEntry(p)
    BY <1>7, <1>10 DEF AppendEntry, AfterEntry, Goto, Labels, LinkInv, TypeOK
  <1>11. CASE PruneCommand(p) \/ RemoveSession(p) \/ Crash(p)
    BY <1>7, <1>11 DEF PruneCommand, RemoveSession, Crash, Die, Goto, Labels, LinkInv, TypeOK
  <1> QED BY <1>4, <1>5, <1>6, <1>8, <1>9, <1>10, <1>11 DEF Step

\* However many processes append, tear lines and die, every record carries its
\* own digest and links to the genesis or to a line above it: what they do to
\* each other can fork the chain, not falsify it.
THEOREM RecordsLinkBack == Spec => []LinksBack
  <1>1. LinkInv /\ [Next]_vars => LinkInv'
    <2> SUFFICES ASSUME LinkInv, [Next]_vars PROVE LinkInv'
      OBVIOUS
    <2>1. CASE UNCHANGED vars
      BY <2>1 DEF vars, LinkInv, TypeOK, LinksBack, Linked
    <2>2. CASE Next
      BY <2>2, StepLinks DEF Next
    <2> QED BY <2>1, <2>2
  <1>2. LinkInv => LinksBack
    BY DEF LinkInv
  <1> QED BY <1>1, <1>2, InitLinks, PTL DEF Spec

(***************************************************************************)
(* The chain, with one writer.                                             *)
(***************************************************************************)

\* One process writes, its appends are not torn, and the log held at most one
\* record from before there were hashes.
OneWriter == Legacy <= 1 /\ "torn" \notin Faults /\ \A p, q \in Procs : p = q

\* Every line carries the digest of the log up to it, and the writer has read
\* that of the last.
ChainInv ==
    /\ TypeOK
    /\ \A n \in 1 .. Len(audit) :
           /\ audit[n].kind \in {"chained", "legacy"}
           /\ audit[n].hash = Chain(audit, n)
           /\ audit[n].kind = "chained" => audit[n].prev = Chain(audit, n - 1)
    /\ \A p \in Procs : pc[p] = "append" => work[p].prev = LastHash(audit)

\* The digest of n lines is that of the first n - 1 and the last payload.
LEMMA ChainNext ==
  ASSUME NEW log \in Seq(Line), NEW n \in 1 .. Len(log)
  PROVE  /\ Chain(log, n) = RecordHash(log[n].body, Chain(log, n - 1))
         /\ Chain(log, n - 1) \in Seq(Bodies)
  <1>0. Len(log) \in Nat /\ \A i \in 1 .. Len(log) : log[i] \in Line
    OBVIOUS
  <1>1. \A i \in 1 .. n : log[i].body \in Bodies
    <2>1. \A i \in 1 .. n : log[i] \in Line
      BY <1>0
    <2> QED BY <2>1 DEF Line
  <1>2. n - 1 \in Nat /\ n \in Nat
    BY <1>0
  <1> DEFINE short == [i \in 1 .. n - 1 |-> log[i].body]
  <1>3. short \in Seq(Bodies) /\ Len(short) = n - 1
    BY <1>1, <1>2
  <1>4. [i \in 1 .. n |-> log[i].body] = Append(short, log[n].body)
    <2>1. DOMAIN Append(short, log[n].body) = 1 .. n
      BY <1>1, <1>2, <1>3
    <2>2. \A i \in 1 .. n : Append(short, log[n].body)[i] = log[i].body
      BY <1>1, <1>2, <1>3
    <2>3. Append(short, log[n].body) \in Seq(Bodies) /\ Len(Append(short, log[n].body)) = n
      BY <1>1, <1>2, <1>3
    <2>4. Append(short, log[n].body) = [i \in 1 .. n |-> Append(short, log[n].body)[i]]
      BY <2>3
    <2> QED BY <2>2, <2>4, Zenon
  <1> QED BY <1>3, <1>4 DEF Chain, RecordHash

\* The digest of no lines is the genesis.
LEMMA ChainGenesis ==
  ASSUME NEW log
  PROVE  Chain(log, 0) = << >>
  <1> DEFINE none == [i \in 1 .. 0 |-> log[i].body]
  <1>a. none \in [1 .. 0 -> Bodies]
    OBVIOUS
  <1>0. none \in Seq(Bodies) /\ Len(none) = 0
    BY <1>a
  <1>1. none = << >>
    BY <1>0, EmptySeq
  <1> QED BY <1>1 DEF Chain

LEMMA InitChain ==
  ASSUME OneWriter, Init
  PROVE  ChainInv
  <1>1. TypeOK
    BY InitTyped
  <1>2. audit \in Seq(Line) /\ Len(audit) = Legacy
    BY <1>1, LegacyAssumption DEF Init, TypeOK
  <1>3. ASSUME NEW n \in 1 .. Len(audit)
        PROVE  audit[n].kind = "legacy" /\ audit[n].hash = Chain(audit, n)
    <2>1. n = 1 /\ audit[n] = LegacyLine(1)
      BY <1>2, LegacyAssumption DEF Init, OneWriter
    <2>2. audit[1].kind = "legacy" /\ audit[1].body = 1 /\ audit[1].hash = <<1>>
      BY <2>1 DEF LegacyLine
    <2>3. Chain(audit, 1) = RecordHash(1, << >>)
      BY <1>2, <2>1, <2>2, ChainNext, ChainGenesis
    <2>4. RecordHash(1, << >>) = <<1>>
      BY DEF RecordHash
    <2> QED BY <2>1, <2>2, <2>3, <2>4
  <1> QED BY <1>1, <1>3 DEF ChainInv, Init

\* What the writer reads is the digest of the whole log.
LEMMA LastHashIsChain ==
  ASSUME ChainInv
  PROVE  LastHash(audit) = Chain(audit, Len(audit))
  <1>1. audit \in Seq(Line)
    BY DEF ChainInv, TypeOK
  <1>2. CASE audit = << >>
    <2>1. Len(audit) = 0
      BY <1>2
    <2> QED BY <1>2, <2>1, ChainGenesis DEF LastHash
  <1>3. CASE audit # << >>
    <2>1. Len(audit) \in 1 .. Len(audit)
      BY <1>1, <1>3
    <2>2. audit[Len(audit)].kind \notin {"torn", "garbled"}
      BY <2>1 DEF ChainInv
    <2> QED BY <1>3, <2>1, <2>2 DEF LastHash, ChainInv
  <1> QED BY <1>2, <1>3

LEMMA StepChain ==
  ASSUME OneWriter, ChainInv, NEW p \in Procs, Step(p)
  PROVE  ChainInv'
  <1>1. TypeOK'
    BY StepTyped DEF ChainInv
  <1>2. \A q \in Procs : q = p
    BY DEF OneWriter
  <1>3. CASE AppendRecord(p)
    <2> DEFINE L == Len(audit)
               b == work[p].id
               line == Record(b, work[p].prev)
    <2>1. /\ pc[p] = "append" /\ pc'[p] # "append"
          /\ audit' = Written(audit, line)
      BY <1>3 DEF AppendRecord, Goto, ChainInv, TypeOK
    <2>2. audit \in Seq(Line) /\ L \in Nat /\ audit' \in Seq(Line)
      BY <1>1 DEF ChainInv, TypeOK
    <2>3. audit' = Append(audit, line)
      <3>1. audit # << >> => audit[L].kind # "torn"
        <4>1. audit # << >> => L \in 1 .. L
          BY <2>2
        <4> QED BY <4>1 DEF ChainInv
      <3> QED BY <2>1, <3>1 DEF Written
    <2>4. /\ Len(audit') = L + 1 /\ audit'[L + 1] = line
          /\ \A n \in 1 .. L : audit'[n] = audit[n]
      BY <2>2, <2>3
    <2>5. \A n \in 0 .. L : Chain(audit', n) = Chain(audit, n)
      BY <2>2, <2>4 DEF Chain
    <2>6. line.kind = "chained" /\ line.body = b /\ line.prev = Chain(audit, L)
          /\ line.hash = RecordHash(b, Chain(audit, L))
      BY <2>1, LastHashIsChain DEF Record, ChainInv
    <2>7. Chain(audit', L + 1) = RecordHash(b, Chain(audit', L))
      <3>1. L + 1 \in 1 .. Len(audit') /\ (L + 1) - 1 = L
        BY <2>2, <2>4
      <3> QED BY <2>2, <2>4, <2>6, <3>1, ChainNext
    <2> HIDE DEF line, b
    <2>8. ASSUME NEW n \in 1 .. Len(audit')
          PROVE  /\ audit'[n].kind \in {"chained", "legacy"}
                 /\ audit'[n].hash = Chain(audit', n)
                 /\ audit'[n].kind = "chained" => audit'[n].prev = Chain(audit', n - 1)
      <3>1. CASE n \in 1 .. L
        <4>1. n \in 0 .. L /\ n - 1 \in 0 .. L
          BY <2>2, <3>1
        <4>2. Chain(audit', n) = Chain(audit, n) /\ Chain(audit', n - 1) = Chain(audit, n - 1)
          BY <2>5, <4>1
        <4> QED BY <2>4, <3>1, <4>2 DEF ChainInv
      <3>2. CASE n \notin 1 .. L
        <4>1. n = L + 1 /\ n - 1 = L /\ L \in 0 .. L
          BY <2>2, <2>4, <3>2
        <4> QED BY <2>4, <2>5, <2>6, <2>7, <4>1
      <3> QED BY <3>1, <3>2
    <2> QED BY <1>1, <1>2, <2>1, <2>8 DEF ChainInv
  <1>4. ASSUME UNCHANGED audit,
               pc'[p] = "append" => work'[p].prev = LastHash(audit)
        PROVE  ChainInv'
    BY <1>1, <1>2, <1>4 DEF ChainInv, Chain, LastHash
  <1>5. CASE ReadLast(p)
    BY <1>4, <1>5 DEF ReadLast, ChainInv, TypeOK, Work, NoWork
  <1>6. CASE \/ LogAction(p) \/ LogStatus(p) \/ PruneTool(p) \/ CreateSession(p) \/ Denial(p)
    BY <1>4, <1>6 DEF LogAction, LogStatus, PruneTool, CreateSession, Denial, Call, ChainInv, TypeOK
  <1>7. CASE InitTimeline(p) \/ OpenTimeline(p) \/ WriteHeader(p)
    BY <1>4, <1>7 DEF InitTimeline, OpenTimeline, WriteHeader, AfterInit, Goto, ChainInv, TypeOK
  <1>8. CASE AppendEntry(p)
    BY <1>4, <1>8 DEF AppendEntry, AfterEntry, Goto, ChainInv, TypeOK
  <1>9. CASE PruneCommand(p) \/ RemoveSession(p) \/ Crash(p)
    BY <1>4, <1>9 DEF PruneCommand, RemoveSession, Crash, Die, Goto, ChainInv, TypeOK
  <1>10. ~Tear(p)
    BY DEF Tear, OneWriter
  <1> QED BY <1>3, <1>5, <1>6, <1>7, <1>8, <1>9, <1>10 DEF Step

\* With one writer, at most one record from before there were hashes, and no
\* torn append, the log verifies at every moment, whenever the writer dies.
THEOREM ChainVerifiesOneWriter ==
  ASSUME OneWriter
  PROVE  Spec => []ChainVerifies
  <1>1. Init => ChainInv
    BY InitChain
  <1>2. ChainInv /\ [Next]_vars => ChainInv'
    <2> SUFFICES ASSUME ChainInv, [Next]_vars PROVE ChainInv'
      OBVIOUS
    <2>1. CASE UNCHANGED vars
      <3>1. TypeOK'
        BY <2>1 DEF vars, ChainInv, TypeOK
      <3>2. audit' = audit /\ pc' = pc /\ work' = work
        BY <2>1 DEF vars
      <3>3. LastHash(audit)' = LastHash(audit) /\ \A n \in Nat : Chain(audit, n)' = Chain(audit, n)
        BY <3>2
      <3> QED BY <3>1, <3>2, <3>3 DEF ChainInv
    <2>2. CASE Next
      BY <2>2, StepChain DEF Next
    <2> QED BY <2>1, <2>2
  <1>3. ChainInv => ChainVerifies
    <2> SUFFICES ASSUME ChainInv PROVE Verifies(audit)
      BY DEF ChainVerifies
    <2>1. audit \in Seq(Line)
      BY DEF ChainInv, TypeOK
    <2> QED BY <2>1, ChainNext DEF ChainInv, Verifies
  <1> QED BY <1>1, <1>2, <1>3, PTL DEF Spec

(***************************************************************************)
(* Which records are lost, with any number of writers.                     *)
(***************************************************************************)

Lost == returned \ Readable
TornTail == audit # << >> /\ audit[Len(audit)].kind = "torn"

\* A torn line at the end is a loss to come.
RecordInv ==
    /\ TypeOK
    /\ Cardinality(Lost) + (IF TornTail THEN 1 ELSE 0) <= tears

LEMMA BodiesFinite ==
  ASSUME NEW S \in SUBSET Bodies
  PROVE  IsFiniteSet(S) /\ Cardinality(S) \in Nat
  <1>1. IsFiniteSet(Bodies)
    BY FS_Interval, LegacyAssumption, BoundsAssumption DEF Bodies
  <1>2. IsFiniteSet(S)
    BY <1>1, FS_Subset
  <1> QED BY <1>2, FS_CardinalityType

\* A record that can be read is still read after a line is written, and so is
\* a record written after a line that is whole.
LEMMA WrittenReads ==
  ASSUME TypeOK, NEW line \in Line, audit' = Written(audit, line), audit' \in Seq(Line)
  PROVE  /\ Readable \subseteq Readable'
         /\ ~TornTail => TornTail' = (line.kind = "torn")
         /\ ~TornTail /\ line.kind = "chained" => line.body \in Readable'
         /\ TornTail => TornTail' = (line.kind = "torn")
  <1> DEFINE L == Len(audit)
  <1>1. audit \in Seq(Line) /\ L \in Nat /\ (audit # << >> <=> L > 0)
    BY DEF TypeOK
  <1>2. CASE TornTail
    <2> DEFINE last == Spoiled(IF line.kind = "torn" THEN "torn" ELSE "garbled", line.body)
    <2>1. audit' = [audit EXCEPT ![L] = last] /\ L \in 1 .. L /\ audit[L].kind = "torn"
      BY <1>1, <1>2 DEF Written, TornTail
    <2>2. last.kind = IF line.kind = "torn" THEN "torn" ELSE "garbled"
      BY DEF Spoiled
    <2> HIDE DEF last
    <2>3. /\ Len(audit') = L /\ audit'[L] = last
          /\ \A n \in 1 .. L : n # L => audit'[n] = audit[n]
      BY <1>1, <2>1
    <2>4. Readable \subseteq Readable'
      BY <2>1, <2>3 DEF Readable
    <2>5. audit' # << >>
      BY <2>1, <2>3
    <2>6. TornTail' = (line.kind = "torn")
      BY <2>2, <2>3, <2>5 DEF TornTail
    <2> QED BY <1>2, <2>4, <2>6
  <1>3. CASE ~TornTail
    <2>1. audit' = Append(audit, line)
      BY <1>3 DEF Written, TornTail
    <2>2. /\ Len(audit') = L + 1 /\ audit'[L + 1] = line
          /\ \A n \in 1 .. L : audit'[n] = audit[n]
      BY <1>1, <2>1
    <2>3. Readable \subseteq Readable'
      BY <1>1, <2>2 DEF Readable
    <2>4. audit' # << >>
      BY <1>1, <2>2
    <2>5. TornTail' = (line.kind = "torn")
      BY <2>2, <2>4 DEF TornTail
    <2>6. line.kind = "chained" => line.body \in Readable'
      <3>1. L + 1 \in 1 .. Len(audit')
        BY <1>1, <2>2
      <3> QED BY <2>2, <3>1 DEF Readable
    <2> QED BY <1>3, <2>3, <2>5, <2>6
  <1> QED BY <1>2, <1>3

LEMMA StepRecords ==
  ASSUME RecordInv, NEW p \in Procs, Step(p)
  PROVE  RecordInv'
  <1>1. TypeOK /\ TypeOK' /\ audit' \in Seq(Line) /\ tears \in Nat
    BY StepTyped DEF RecordInv, TypeOK
  <1>2. /\ IsFiniteSet(Lost) /\ Cardinality(Lost) \in Nat
        /\ IsFiniteSet(Lost') /\ Cardinality(Lost') \in Nat
    <2>1. Lost \in SUBSET Bodies /\ Lost' \in SUBSET Bodies
      BY <1>1 DEF TypeOK, Lost
    <2> QED BY <2>1, BodiesFinite
  <1>3. Lost' \subseteq Lost => Cardinality(Lost') <= Cardinality(Lost)
    BY <1>2, FS_Subset
  <1>4. CASE AppendRecord(p)
    <2> DEFINE b == work[p].id
               line == Record(b, work[p].prev)
    <2>1. /\ b \in Bodies /\ work[p].prev \in Seq(Bodies)
          /\ audit' = Written(audit, line) /\ returned' = returned \cup {b} /\ tears' = tears
      BY <1>1, <1>4 DEF AppendRecord, TypeOK, Work, NoWork
    <2>2. line \in Line
      BY <2>1, LinesTyped
    <2>3. line.kind = "chained" /\ line.body = b
      BY DEF Record
    <2> HIDE DEF line, b
    <2>4. /\ Readable \subseteq Readable' /\ ~TornTail'
          /\ ~TornTail => b \in Readable'
      BY <1>1, <2>1, <2>2, <2>3, WrittenReads
    <2>5. CASE TornTail
      <3>1. Lost' \subseteq Lost \cup {b}
        BY <2>1, <2>4 DEF Lost
      <3>2. /\ IsFiniteSet(Lost \cup {b})
            /\ Cardinality(Lost \cup {b}) <= Cardinality(Lost) + 1
            /\ Cardinality(Lost \cup {b}) \in Nat
        <4>1. IsFiniteSet(Lost)
          BY <1>2
        <4>2. /\ IsFiniteSet(Lost \cup {b})
              /\ Cardinality(Lost \cup {b}) =
                    IF b \in Lost THEN Cardinality(Lost) ELSE Cardinality(Lost) + 1
          BY <4>1, FS_AddElement
        <4> QED BY <1>2, <4>2
      <3>3. Cardinality(Lost') <= Cardinality(Lost \cup {b})
        BY <3>1, <3>2, FS_Subset
      <3> QED BY <1>1, <1>2, <2>1, <2>4, <2>5, <3>2, <3>3 DEF RecordInv
    <2>6. CASE ~TornTail
      <3>1. Lost' \subseteq Lost
        BY <2>1, <2>4, <2>6 DEF Lost
      <3> QED BY <1>1, <1>2, <1>3, <2>1, <2>4, <2>6, <3>1 DEF RecordInv
    <2> QED BY <2>5, <2>6
  <1>5. CASE Tear(p)
    <2> DEFINE line == Spoiled("torn", work[p].id)
    <2>1. work[p].id \in Bodies
      BY <1>1, <1>5 DEF Tear, TypeOK
    <2>2. line \in Line
      <3>1. << >> \in Seq(Bodies)
        OBVIOUS
      <3> QED BY <2>1, <3>1 DEF Spoiled, Line
    <2>3. audit' = Written(audit, line) /\ tears' = tears + 1 /\ returned' = returned
      BY <1>5 DEF Tear, Die
    <2> HIDE DEF line
    <2>4. Readable \subseteq Readable'
      BY <1>1, <2>2, <2>3, WrittenReads
    <2>5. Lost' \subseteq Lost
      BY <2>3, <2>4 DEF Lost
    <2> QED BY <1>1, <1>2, <1>3, <2>3, <2>5 DEF RecordInv
  <1>6. ASSUME UNCHANGED <<audit, returned, tears>> PROVE RecordInv'
    BY <1>1, <1>6 DEF RecordInv, Lost, Readable, TornTail
  <1>7. CASE ~AppendRecord(p) /\ ~Tear(p)
    <2>1. UNCHANGED <<audit, returned, tears>>
      BY <1>7 DEF Step, LogAction, LogStatus, PruneTool, CreateSession, Denial, Call,
         InitTimeline, OpenTimeline, WriteHeader, AppendEntry, ReadLast, PruneCommand,
         RemoveSession, Crash, Die, history
    <2> QED BY <1>6, <2>1
  <1> QED BY <1>4, <1>5, <1>7

\* However many processes append, tear lines and die, no more records are lost
\* than appends were torn.
THEOREM RecordsAreKept == Spec => []RecordsKept
  <1>1. Init => RecordInv
    <2> SUFFICES ASSUME Init PROVE RecordInv
      OBVIOUS
    <2>1. TypeOK
      BY InitTyped
    <2>2. \A n \in 1 .. Len(audit) : audit[n].kind = "legacy"
      BY LegacyAssumption DEF Init, LegacyLine
    <2>3. ~TornTail
      <3>1. audit # << >> => Len(audit) \in 1 .. Len(audit)
        BY <2>1 DEF TypeOK
      <3> QED BY <2>2, <3>1 DEF TornTail
    <2>4. Lost = {} /\ tears = 0
      BY DEF Init, Lost
    <2> QED BY <2>1, <2>3, <2>4, FS_EmptySet DEF RecordInv
  <1>2. RecordInv /\ [Next]_vars => RecordInv'
    <2> SUFFICES ASSUME RecordInv, [Next]_vars PROVE RecordInv'
      OBVIOUS
    <2>1. CASE UNCHANGED vars
      BY <2>1 DEF vars, RecordInv, TypeOK, Lost, Readable, TornTail
    <2>2. CASE Next
      BY <2>2, StepRecords DEF Next
    <2> QED BY <2>1, <2>2
  <1>3. RecordInv => RecordsKept
    <2> SUFFICES ASSUME RecordInv PROVE RecordsKept
      OBVIOUS
    <2>1. Lost \in SUBSET Bodies /\ tears \in Nat
      BY DEF RecordInv, TypeOK, Lost
    <2>2. Cardinality(Lost) \in Nat
      BY <2>1, BodiesFinite
    <2>3. Cardinality(Lost) <= tears
      BY <2>1, <2>2 DEF RecordInv
    <2> QED BY <2>3 DEF RecordsKept, Lost
  <1> QED BY <1>1, <1>2, <1>3, PTL DEF Spec

(***************************************************************************)
(* What verify_audit_chain detects.                                        *)
(***************************************************************************)

\* The records from before there were hashes come first.
LegacyInv ==
    /\ TypeOK
    /\ \A n \in 1 .. Len(audit) : audit[n].kind = "legacy" => n <= Legacy

\* A chained record gives away any other line in the place of its predecessor.
LEMMA ChainedDetects ==
  ASSUME NEW log \in Seq(Line), Verifies(log), NEW n \in 1 .. Len(log) - 1,
         log[n + 1].kind = "chained"
  PROVE  /\ \A b \in Bodies \ {log[n].body} : ~Verifies([log EXCEPT ![n].body = b])
         /\ ~Verifies(SubSeq(log, 1, n - 1) \o SubSeq(log, n + 1, Len(log)))
  <1> DEFINE L == Len(log)
  <1>1. L \in Nat /\ n \in Nat /\ n >= 1 /\ n + 1 \in 1 .. L /\ (n + 1) - 1 = n /\ n \in 1 .. L
    OBVIOUS
  <1>2. log[n + 1].prev = Chain(log, n)
    BY <1>1 DEF Verifies
  <1>3. ASSUME NEW b \in Bodies \ {log[n].body} PROVE ~Verifies([log EXCEPT ![n].body = b])
    <2> DEFINE new == [log EXCEPT ![n].body = b]
    <2> SUFFICES ASSUME Verifies(new) PROVE FALSE
      OBVIOUS
    <2>1. /\ Len(new) = L /\ new[n + 1] = log[n + 1]
          /\ new[n] = [log[n] EXCEPT !.body = b] /\ log[n] \in Line
      BY <1>1
    <2>2. new[n].body = b
      BY <2>1 DEF Line
    <2> HIDE DEF new
    <2>3. log[n + 1].prev = Chain(new, n)
      BY <1>1, <2>1 DEF Verifies
    <2>4. Chain(new, n)[n] = b /\ Chain(log, n)[n] = log[n].body
      BY <1>1, <2>2 DEF Chain
    <2> QED BY <1>2, <2>3, <2>4
  <1>4. ~Verifies(SubSeq(log, 1, n - 1) \o SubSeq(log, n + 1, L))
    <2> DEFINE new == SubSeq(log, 1, n - 1) \o SubSeq(log, n + 1, L)
    <2> SUFFICES ASSUME Verifies(new) PROVE FALSE
      OBVIOUS
    <2>1. /\ SubSeq(log, 1, n - 1) \in Seq(Line) /\ Len(SubSeq(log, 1, n - 1)) = n - 1
          /\ SubSeq(log, n + 1, L) \in Seq(Line) /\ Len(SubSeq(log, n + 1, L)) = L - n
          /\ SubSeq(log, n + 1, L)[1] = log[n + 1]
      BY <1>1
    <2>2. Len(new) = L - 1 /\ new[n] = log[n + 1]
      BY <1>1, <2>1
    <2> HIDE DEF new
    <2>3. log[n + 1].prev = Chain(new, n - 1)
      BY <1>1, <2>2 DEF Verifies
    <2>4. DOMAIN Chain(log, n) = 1 .. n /\ DOMAIN Chain(new, n - 1) = 1 .. n - 1
      BY DEF Chain
    <2>5. n \in 1 .. n - 1
      BY <1>1, <1>2, <2>3, <2>4
    <2> QED BY <1>1, <2>5
  <1> QED BY <1>3, <1>4

LEMMA StepLegacy ==
  ASSUME LegacyInv, NEW p \in Procs, Step(p)
  PROVE  LegacyInv'
  <1>1. TypeOK /\ TypeOK' /\ audit \in Seq(Line) /\ audit' \in Seq(Line)
    BY StepTyped DEF LegacyInv, TypeOK
  <1>2. ASSUME NEW line \in Line, line.kind # "legacy", audit' = Written(audit, line)
        PROVE  LegacyInv'
    <2>1. Extends(audit', audit, line)
      BY <1>1, <1>2, WrittenLines
    <2>2. \A n \in 1 .. Len(audit') : audit'[n].kind = "legacy" =>
             n \in 1 .. Len(audit) /\ audit'[n] = audit[n]
      BY <1>1, <1>2, <2>1 DEF Extends
    <2> QED BY <1>1, <2>2 DEF LegacyInv
  <1>3. CASE AppendRecord(p)
    <2>1. work[p].id \in Bodies /\ work[p].prev \in Seq(Bodies)
      BY <1>1, <1>3 DEF AppendRecord, TypeOK, Work, NoWork
    <2>2. Record(work[p].id, work[p].prev) \in Line
      BY <2>1, LinesTyped
    <2>3. Record(work[p].id, work[p].prev).kind # "legacy"
      BY DEF Record
    <2> QED BY <1>2, <1>3, <2>2, <2>3 DEF AppendRecord
  <1>4. CASE Tear(p)
    <2>1. work[p].id \in Bodies
      BY <1>1, <1>4 DEF Tear, TypeOK
    <2>2. Spoiled("torn", work[p].id) \in Line
      <3>1. << >> \in Seq(Bodies)
        OBVIOUS
      <3> QED BY <2>1, <3>1 DEF Spoiled, Line
    <2>3. Spoiled("torn", work[p].id).kind # "legacy"
      BY DEF Spoiled
    <2> QED BY <1>2, <1>4, <2>2, <2>3 DEF Tear
  <1>5. CASE ~AppendRecord(p) /\ ~Tear(p)
    <2>1. UNCHANGED audit
      BY <1>5 DEF Step, LogAction, LogStatus, PruneTool, CreateSession, Denial, Call,
         InitTimeline, OpenTimeline, WriteHeader, AppendEntry, ReadLast, PruneCommand,
         RemoveSession, Crash, Die, history
    <2> QED BY <1>1, <2>1 DEF LegacyInv
  <1> QED BY <1>3, <1>4, <1>5

\* "tamper-evident": whatever number of processes wrote the log, if it verifies,
\* it no longer does once a line that is not the last is altered or removed.  Of
\* two records from before there were hashes nothing would protect the first.
THEOREM AlterationIsDetected ==
  ASSUME Legacy <= 1
  PROVE  Spec => []AlterationDetected
  <1>1. Init => LegacyInv
    <2> SUFFICES ASSUME Init PROVE LegacyInv
      OBVIOUS
    <2>1. audit \in Seq(Line) /\ Len(audit) = Legacy
      BY InitTyped, LegacyAssumption DEF Init, TypeOK
    <2> QED BY <2>1, InitTyped, LegacyAssumption DEF LegacyInv
  <1>2. LegacyInv /\ [Next]_vars => LegacyInv'
    <2> SUFFICES ASSUME LegacyInv, [Next]_vars PROVE LegacyInv'
      OBVIOUS
    <2>1. CASE UNCHANGED vars
      BY <2>1 DEF vars, LegacyInv, TypeOK
    <2>2. CASE Next
      BY <2>2, StepLegacy DEF Next
    <2> QED BY <2>1, <2>2
  <1>3. LegacyInv => AlterationDetected
    <2> SUFFICES ASSUME LegacyInv, Verifies(audit), NEW n \in 1 .. Len(audit) - 1
                 PROVE  /\ \A b \in Bodies \ {audit[n].body} :
                              ~Verifies([audit EXCEPT ![n].body = b])
                        /\ ~Verifies(SubSeq(audit, 1, n - 1) \o SubSeq(audit, n + 1, Len(audit)))
      BY DEF AlterationDetected
    <2>1. audit \in Seq(Line) /\ n + 1 \in 1 .. Len(audit)
      BY DEF LegacyInv, TypeOK
    <2>2. audit[n + 1].kind # "legacy"
      BY <2>1, LegacyAssumption DEF LegacyInv
    <2>3. audit[n + 1].kind = "chained"
      BY <2>1, <2>2 DEF Verifies
    <2> QED BY <2>1, <2>3, ChainedDetects
  <1> QED BY <1>1, <1>2, <1>3, PTL DEF Spec

(***************************************************************************)
(* What one process owes the two logs.                                     *)
(***************************************************************************)

OneProcess == \A p, q \in Procs : p = q

\* The timeline a process is about to write to: there is none yet, it is the
\* one just opened, it has its header.
FileAt(p) ==
    /\ pc[p] = "create" => timeline[work[p].session] = Gone
    /\ pc[p] = "header" => timeline[work[p].session] = << >> /\ noted[work[p].session] = {}
    /\ pc[p] = "entry" => timeline[work[p].session] # Gone

FileInv == TypeOK /\ TimelineKeepsEntries /\ \A p \in Procs : FileAt(p)

Unaudited == {"create", "status"}

\* No call ends without its record, but one that owes none.
AttemptInv ==
    /\ FileInv
    /\ \A n \in 1 .. Len(audit) : audit[n].kind # "torn"
    /\ \A n \in owed : n <= calls
    /\ \A p \in Procs : pc[p] \notin {"idle", "remove"} /\ work[p].kind \in Unaudited =>
           work[p].id \notin owed
    /\ EveryAttemptRecorded

LEMMA GotoAt ==
  ASSUME TypeOK, NEW p \in Procs, NEW next, Goto(p, next)
  PROVE  /\ pc'[p] = next
         /\ next # "idle" => work'[p] = work[p]
         /\ next = "idle" => work'[p] = NoWork
  BY DEF TypeOK, Goto

LEMMA CallAt ==
  ASSUME TypeOK, NEW p \in Procs, NEW kind, NEW next, Call(p, kind, next)
  PROVE  /\ pc'[p] = next /\ pc[p] = "idle" /\ work'[p].id = calls + 1
         /\ work'[p].kind = kind /\ calls' = calls + 1
         /\ UNCHANGED <<audit, timeline, returned, noted>>
         /\ owed' = IF kind \in Unaudited THEN owed ELSE owed \cup {calls + 1}
  BY DEF TypeOK, Call, Unaudited

\* An entry that is appended joins those that are there.
LEMMA EntryKept ==
  ASSUME TypeOK, NEW s \in Sessions, timeline[s] # Gone, NEW id \in Bodies
  PROVE  /\ Append(timeline[s], id) # Gone
         /\ \E i \in 1 .. Len(Append(timeline[s], id)) : Append(timeline[s], id)[i] = id
         /\ \A n : (\E i \in 1 .. Len(timeline[s]) : timeline[s][i] = n) =>
                   \E i \in 1 .. Len(Append(timeline[s], id)) : Append(timeline[s], id)[i] = n
  <1>1. timeline[s] \in Seq(Bodies \cup {Header})
    BY DEF TypeOK
  <1>2. Append(timeline[s], id) \in Seq(Bodies \cup {Header})
    BY <1>1
  <1>3. Append(timeline[s], id) # Gone
    BY <1>2, GoneAssumption
  <1> DEFINE t == timeline[s]
             new == Append(t, id)
  <1>4. Len(new) = Len(t) + 1 /\ new[Len(t) + 1] = id /\ \A i \in 1 .. Len(t) : new[i] = t[i]
    BY <1>1
  <1>5. Len(t) \in Nat
    BY <1>1
  <1> HIDE DEF t, new
  <1>6. \E i \in 1 .. Len(new) : new[i] = id
    BY <1>4, <1>5
  <1>7. \A n : (\E i \in 1 .. Len(t) : t[i] = n) => \E i \in 1 .. Len(new) : new[i] = n
    BY <1>4, <1>5
  <1> QED BY <1>3, <1>6, <1>7 DEF t, new

LEMMA HeaderKept ==
  <<Header>> # Gone /\ << >> # Gone
  <1>1. <<Header>> \in Seq(Bodies \cup {Header}) /\ << >> \in Seq(Bodies \cup {Header})
    OBVIOUS
  <1> QED BY <1>1, GoneAssumption

LEMMA StepFiles ==
  ASSUME FileInv, NEW p \in Procs, Step(p)
  PROVE  TimelineKeepsEntries' /\ FileAt(p)'
  <1>0. TypeOK /\ TimelineKeepsEntries /\ FileAt(p)
    BY DEF FileInv
  <1>w. pc[p] # "idle" => work[p] \in Work /\ work[p].session \in Sessions
    BY <1>0 DEF TypeOK, Work
  <1>t. timeline \in [Sessions -> Seq(Bodies \cup {Header}) \cup {Gone}]
        /\ noted \in [Sessions -> SUBSET Bodies]
    BY <1>0 DEF TypeOK
  <1>a. ASSUME UNCHANGED <<timeline, noted>> PROVE TimelineKeepsEntries'
    BY <1>0, <1>a DEF TimelineKeepsEntries
  <1>b. ASSUME pc'[p] \notin {"create", "header", "entry"} PROVE FileAt(p)'
    BY <1>b DEF FileAt
  <1> DEFINE s == work[p].session
  <1>1. CASE LogAction(p) \/ LogStatus(p) \/ PruneTool(p) \/ CreateSession(p) \/ Denial(p)
    <2>1. PICK kind \in Kinds, next \in {"init", "readLast"} : Call(p, kind, next)
      BY <1>1 DEF LogAction, LogStatus, PruneTool, CreateSession, Denial, Kinds
    <2>2. pc'[p] = next /\ UNCHANGED <<audit, timeline, returned, noted>>
      BY <1>0, <2>1, CallAt, Zenon
    <2> QED BY <1>a, <1>b, <2>2
  <1>2. CASE InitTimeline(p)
    <2>1. UNCHANGED <<timeline, noted>>
      BY <1>2 DEF InitTimeline, history
    <2>2. CASE timeline[s] = Gone
      <3>1. pc'[p] = "create" /\ work'[p] = work[p]
        BY <1>0, <1>2, <2>2, GotoAt DEF InitTimeline
      <3> QED BY <1>a, <2>1, <2>2, <3>1 DEF FileAt
    <2>3. CASE timeline[s] # Gone
      <3>1. pc'[p] = "idle" \/ (pc'[p] = "entry" /\ work'[p] = work[p])
        BY <1>0, <1>2, <2>3, GotoAt DEF InitTimeline, AfterInit
      <3> QED BY <1>a, <2>1, <2>3, <3>1 DEF FileAt
    <2> QED BY <2>2, <2>3
  <1>3. CASE OpenTimeline(p)
    <2>1. /\ pc[p] = "create" /\ timeline' = [timeline EXCEPT ![s] = << >>]
          /\ UNCHANGED noted /\ s \in Sessions
      BY <1>3, <1>w DEF OpenTimeline, history
    <2>2. pc'[p] = "header" /\ work'[p].session = s
      BY <1>0, <1>3, <1>w, <2>1 DEF OpenTimeline, TypeOK, Work
    <2>3. noted[s] = {}
      BY <1>0, <2>1 DEF FileAt, TimelineKeepsEntries
    <2>4. TimelineKeepsEntries'
      BY <1>0, <1>t, <2>1, <2>3 DEF TimelineKeepsEntries
    <2> QED BY <1>t, <2>1, <2>2, <2>3, <2>4 DEF FileAt
  <1>4. CASE WriteHeader(p)
    <2>1. /\ pc[p] = "header" /\ s \in Sessions /\ timeline[s] = << >> /\ noted[s] = {}
          /\ UNCHANGED noted
      BY <1>0, <1>4, <1>w DEF WriteHeader, FileAt, history
    <2>2. timeline' = timeline \/ \E t : timeline' = [timeline EXCEPT ![s] = t]
      BY <1>4 DEF WriteHeader
    <2>3. TimelineKeepsEntries'
      <3>1. \A r \in Sessions : r # s => timeline'[r] = timeline[r]
        BY <1>t, <2>2
      <3> QED BY <1>0, <2>1, <3>1 DEF TimelineKeepsEntries
    <2>4. timeline'[s] # Gone
      <3>1. CASE UNCHANGED timeline
        BY <2>1, <3>1, HeaderKept
      <3>2. CASE \E n \in 0 .. Len(timeline[s]) :
                   timeline' = [timeline EXCEPT ![s] = <<Header>> \o SubSeq(@, n + 1, Len(@))]
        <4>1. PICK n \in 0 .. Len(timeline[s]) :
                 timeline' = [timeline EXCEPT ![s] =
                                <<Header>> \o SubSeq(timeline[s], n + 1, Len(timeline[s]))]
          BY <3>2
        <4>2. timeline[s] \in Seq(Bodies \cup {Header})
          BY <1>t, <2>1, HeaderKept
        <4>3. timeline'[s] \in Seq(Bodies \cup {Header})
          BY <1>t, <2>1, <4>1, <4>2, HeaderTyped
        <4> QED BY <4>3, GoneAssumption
      <3> QED BY <1>4, <3>1, <3>2 DEF WriteHeader
    <2>5. pc'[p] = "idle" \/ (pc'[p] = "entry" /\ work'[p] = work[p])
      BY <1>0, <1>4, GotoAt DEF WriteHeader, AfterInit
    <2> QED BY <2>3, <2>4, <2>5 DEF FileAt
  <1>5. CASE AppendEntry(p)
    <2>1. pc[p] = "entry" /\ s \in Sessions /\ work[p].id \in Bodies /\ timeline[s] # Gone
      BY <1>0, <1>5, <1>w DEF AppendEntry, FileAt, TypeOK
    <2>2. /\ timeline' = [timeline EXCEPT ![s] = Append(timeline[s], work[p].id)]
          /\ noted' = [noted EXCEPT ![s] = noted[s] \cup {work[p].id}]
          /\ Goto(p, AfterEntry(work[p].kind))
      BY <1>5, <2>1 DEF AppendEntry
    <2>3. pc'[p] \in {"idle", "readLast"}
      BY <1>0, <2>2, GotoAt DEF AfterEntry
    <2>4. TimelineKeepsEntries'
      <3> SUFFICES ASSUME NEW r \in Sessions, NEW n \in noted'[r]
                   PROVE  /\ timeline'[r] # Gone
                          /\ \E i \in 1 .. Len(timeline'[r]) : timeline'[r][i] = n
        BY DEF TimelineKeepsEntries
      <3>1. CASE r = s
        <4>1. /\ timeline'[s] = Append(timeline[s], work[p].id)
              /\ noted'[s] = noted[s] \cup {work[p].id}
          BY <1>t, <2>1, <2>2
        <4>2. n = work[p].id \/ \E i \in 1 .. Len(timeline[s]) : timeline[s][i] = n
          BY <1>0, <2>1, <3>1, <4>1 DEF TimelineKeepsEntries
        <4> QED BY <1>0, <2>1, <3>1, <4>1, <4>2, EntryKept
      <3>2. CASE r # s
        <4>1. timeline'[r] = timeline[r] /\ noted'[r] = noted[r]
          BY <1>t, <2>2, <3>2
        <4> QED BY <1>0, <4>1 DEF TimelineKeepsEntries
      <3> QED BY <3>1, <3>2
    <2> QED BY <1>b, <2>3, <2>4
  <1>6. CASE ReadLast(p)
    <2>1. UNCHANGED <<timeline, noted>> /\ pc'[p] = "append"
      BY <1>0, <1>6 DEF ReadLast, history, TypeOK
    <2> QED BY <1>a, <1>b, <2>1
  <1>7. CASE AppendRecord(p)
    <2>1. UNCHANGED <<timeline, noted>> /\ pc'[p] \in {"remove", "idle"}
      BY <1>0, <1>7, GotoAt DEF AppendRecord
    <2> QED BY <1>a, <1>b, <2>1
  <1>8. CASE PruneCommand(p)
    <2>1. UNCHANGED <<timeline, noted>> /\ pc'[p] = "remove"
      BY <1>0, <1>8 DEF PruneCommand, history, TypeOK
    <2> QED BY <1>a, <1>b, <2>1
  <1>9. CASE RemoveSession(p)
    <2>1. /\ timeline' = [timeline EXCEPT ![s] = Gone] /\ noted' = [noted EXCEPT ![s] = {}]
          /\ s \in Sessions
      BY <1>9, <1>w DEF RemoveSession
    <2>2. pc'[p] = "idle"
      BY <1>0, <1>9, GotoAt DEF RemoveSession
    <2>3. TimelineKeepsEntries'
      BY <1>0, <1>t, <2>1 DEF TimelineKeepsEntries
    <2> QED BY <1>b, <2>2, <2>3
  <1>10. CASE Crash(p) \/ Tear(p)
    <2>1. UNCHANGED <<timeline, noted>> /\ pc'[p] = "idle"
      BY <1>0, <1>10, GotoAt DEF Crash, Tear, Die
    <2> QED BY <1>a, <1>b, <2>1
  <1> QED BY <1>1, <1>2, <1>3, <1>4, <1>5, <1>6, <1>7, <1>8, <1>9, <1>10 DEF Step

LEMMA NextFiles ==
  ASSUME OneProcess
  PROVE  FileInv /\ [Next]_vars => FileInv'
  <1> SUFFICES ASSUME FileInv, [Next]_vars PROVE FileInv'
    OBVIOUS
  <1>1. CASE UNCHANGED vars
    BY <1>1 DEF vars, FileInv, TypeOK, TimelineKeepsEntries, FileAt
  <1>2. ASSUME NEW p \in Procs, Step(p) PROVE FileInv'
    <2>1. TypeOK'
      BY <1>2, StepTyped DEF FileInv
    <2>2. TimelineKeepsEntries' /\ FileAt(p)'
      BY <1>2, StepFiles
    <2> QED BY <2>1, <2>2 DEF FileInv, OneProcess
  <1> QED BY <1>1, <1>2 DEF Next

LEMMA InitFiles == Init => FileInv
  BY InitTyped DEF Init, FileInv, TimelineKeepsEntries, FileAt

\* What was appended to the timeline of a session is in it until the session is
\* removed: if one process writes, wherever it dies.
THEOREM TimelineIsKept ==
  ASSUME OneProcess
  PROVE  Spec => []TimelineKeepsEntries
  <1>1. FileInv => TimelineKeepsEntries
    BY DEF FileInv
  <1> QED BY <1>1, InitFiles, NextFiles, PTL DEF Spec

LEMMA StepAttempts ==
  ASSUME AttemptInv, OneProcess, "torn" \notin Faults, NEW p \in Procs, Step(p)
  PROVE  AttemptInv'
  <1>0. /\ TypeOK /\ FileAt(p) /\ FileInv /\ EveryAttemptRecorded
        /\ \A n \in 1 .. Len(audit) : audit[n].kind # "torn"
        /\ \A n \in owed : n <= calls
        /\ pc[p] \notin {"idle", "remove"} /\ work[p].kind \in Unaudited => work[p].id \notin owed
    BY DEF AttemptInv, FileInv
  <1>f. FileInv' /\ TypeOK'
    BY <1>0, NextFiles DEF Next, FileInv
  <1>1. \A q \in Procs : q = p
    BY DEF OneProcess
  <1>2. \A n \in owed : n \in Readable \/ (pc[p] \notin {"idle", "remove"} /\ work[p].id = n)
    BY <1>0, <1>1 DEF EveryAttemptRecorded
  <1>n. calls \in Nat
    BY <1>0, LegacyAssumption, BoundsAssumption DEF TypeOK
  \* The audit log stays, and what is owed is a record to come of the same call.
  <1>3. ASSUME UNCHANGED audit, \A n \in owed' : n <= calls',
               \A n \in owed' : \/ n \in Readable
                                \/ pc'[p] \notin {"idle", "remove"} /\ work'[p].id = n,
               pc'[p] \notin {"idle", "remove"} /\ work'[p].kind \in Unaudited =>
                  work'[p].id \notin owed'
        PROVE  AttemptInv'
    <2>1. Readable' = Readable
      BY <1>3 DEF Readable
    <2>2. EveryAttemptRecorded'
      BY <1>3, <2>1 DEF EveryAttemptRecorded
    <2> QED BY <1>0, <1>1, <1>3, <1>f, <2>2 DEF AttemptInv
  <1>4. ASSUME UNCHANGED <<audit, owed, calls>>, pc[p] \notin {"idle", "remove"},
               pc'[p] \notin {"idle", "remove"},
               work'[p].id = work[p].id /\ work'[p].kind = work[p].kind
        PROVE  AttemptInv'
    BY <1>0, <1>2, <1>3, <1>4
  \* A call that owes no record ends, or one that has it.
  <1>5. ASSUME UNCHANGED audit, owed' \subseteq owed, calls' = calls,
               \A n \in owed' : n \in Readable, pc'[p] \in {"idle", "remove"}
        PROVE  AttemptInv'
    BY <1>0, <1>3, <1>5
  <1>6. CASE LogAction(p) \/ LogStatus(p) \/ PruneTool(p) \/ CreateSession(p) \/ Denial(p)
    <2>1. PICK kind \in Kinds, next \in {"init", "readLast"} : Call(p, kind, next)
      BY <1>6 DEF LogAction, LogStatus, PruneTool, CreateSession, Denial, Kinds
    <2>2. /\ pc'[p] = next /\ pc[p] = "idle" /\ work'[p].id = calls + 1
          /\ work'[p].kind = kind /\ calls' = calls + 1
          /\ UNCHANGED <<audit, timeline, returned, noted>>
          /\ owed' = IF kind \in Unaudited THEN owed ELSE owed \cup {calls + 1}
      BY <1>0, <2>1, CallAt, Zenon
    <2>3. owed \subseteq Nat /\ calls + 1 \notin owed
      BY <1>0, <1>n, BodiesNat DEF TypeOK
    <2>4. \A n \in owed' : n <= calls'
      BY <1>0, <1>n, <2>2, <2>3
    <2> QED BY <1>2, <1>3, <2>2, <2>3, <2>4
  <1>7. CASE InitTimeline(p)
    <2>1. UNCHANGED <<audit, owed, calls>> /\ pc[p] = "init"
      BY <1>7 DEF InitTimeline, history
    <2>2. \/ pc'[p] \in {"create", "entry"} /\ work'[p] = work[p]
          \/ pc'[p] = "idle" /\ work[p].kind = "create"
      BY <1>0, <1>7, GotoAt DEF InitTimeline, AfterInit
    <2>3. CASE pc'[p] = "idle"
      BY <1>0, <1>2, <1>5, <2>1, <2>2, <2>3 DEF Unaudited
    <2>4. CASE pc'[p] # "idle"
      BY <1>4, <2>1, <2>2, <2>4
    <2> QED BY <2>3, <2>4
  <1>8. CASE OpenTimeline(p)
    <2>1. UNCHANGED <<audit, owed, calls>> /\ pc[p] = "create"
      BY <1>8 DEF OpenTimeline, history
    <2>2. pc'[p] = "header" /\ work'[p].id = work[p].id /\ work'[p].kind = work[p].kind
      <3>1. work[p] \in Work
        BY <1>0, <2>1 DEF TypeOK
      <3> QED BY <1>0, <1>8, <3>1 DEF OpenTimeline, TypeOK, Work
    <2> QED BY <1>4, <2>1, <2>2
  <1>9. CASE WriteHeader(p)
    <2>1. UNCHANGED <<audit, owed, calls>> /\ pc[p] = "header"
      BY <1>9 DEF WriteHeader, history
    <2>2. \/ pc'[p] = "entry" /\ work'[p] = work[p]
          \/ pc'[p] = "idle" /\ work[p].kind = "create"
      BY <1>0, <1>9, GotoAt DEF WriteHeader, AfterInit
    <2>3. CASE pc'[p] = "idle"
      BY <1>0, <1>2, <1>5, <2>1, <2>2, <2>3 DEF Unaudited
    <2>4. CASE pc'[p] # "idle"
      BY <1>4, <2>1, <2>2, <2>4
    <2> QED BY <2>3, <2>4
  <1>10. CASE AppendEntry(p)
    <2>1. UNCHANGED <<audit, owed, calls>> /\ pc[p] = "entry" /\ timeline[work[p].session] # Gone
      BY <1>0, <1>10 DEF AppendEntry, FileAt
    <2>2. \/ pc'[p] = "readLast" /\ work'[p] = work[p]
          \/ pc'[p] = "idle" /\ work[p].kind = "status"
      BY <1>0, <1>10, <2>1, GotoAt DEF AppendEntry, AfterEntry
    <2>3. CASE pc'[p] = "idle"
      BY <1>0, <1>2, <1>5, <2>1, <2>2, <2>3 DEF Unaudited
    <2>4. CASE pc'[p] # "idle"
      BY <1>4, <2>1, <2>2, <2>4
    <2> QED BY <2>3, <2>4
  <1>11. CASE ReadLast(p)
    <2>1. UNCHANGED <<audit, owed, calls>> /\ pc[p] = "readLast"
      BY <1>11 DEF ReadLast, history
    <2>2. pc'[p] = "append" /\ work'[p].id = work[p].id /\ work'[p].kind = work[p].kind
      <3>1. work[p] \in Work
        BY <1>0, <2>1 DEF TypeOK
      <3> QED BY <1>0, <1>11, <3>1 DEF ReadLast, TypeOK, Work
    <2> QED BY <1>4, <2>1, <2>2
  <1>12. CASE AppendRecord(p)
    <2> DEFINE b == work[p].id
               line == Record(b, work[p].prev)
    <2>1. /\ b \in Bodies /\ work[p].prev \in Seq(Bodies) /\ UNCHANGED <<owed, calls>>
          /\ audit' = Written(audit, line)
      BY <1>0, <1>12 DEF AppendRecord, TypeOK, Work, NoWork
    <2>2. line \in Line /\ line.kind = "chained" /\ line.body = b
      BY <2>1, LinesTyped DEF Record
    <2>3. pc'[p] \in {"idle", "remove"}
      BY <1>0, <1>12, GotoAt DEF AppendRecord
    <2> HIDE DEF line, b
    <2>4. audit \in Seq(Line) /\ audit' \in Seq(Line)
      BY <1>0, <1>f DEF TypeOK
    <2>5. ~TornTail
      <3>1. audit # << >> => Len(audit) \in 1 .. Len(audit)
        BY <2>4
      <3> QED BY <1>0, <3>1 DEF TornTail
    <2>6. Readable \subseteq Readable' /\ b \in Readable'
      BY <1>0, <2>1, <2>2, <2>4, <2>5, WrittenReads
    <2>7. EveryAttemptRecorded'
      BY <1>2, <2>1, <2>6 DEF EveryAttemptRecorded, b
    <2>8. \A n \in 1 .. Len(audit') : audit'[n].kind # "torn"
      <3>1. audit' = Append(audit, line)
        BY <2>1, <2>5 DEF Written, TornTail
      <3> QED BY <1>0, <2>2, <2>4, <3>1
    <2> QED BY <1>0, <1>1, <1>f, <2>1, <2>3, <2>7, <2>8 DEF AttemptInv
  <1>13. CASE PruneCommand(p)
    <2>1. UNCHANGED <<audit, owed, calls>> /\ pc[p] = "idle" /\ pc'[p] = "remove"
      BY <1>0, <1>13 DEF PruneCommand, history, TypeOK
    <2> QED BY <1>2, <1>5, <2>1
  <1>14. CASE RemoveSession(p)
    <2>1. UNCHANGED <<audit, owed, calls>> /\ pc[p] = "remove"
      BY <1>14 DEF RemoveSession
    <2>2. pc'[p] = "idle"
      BY <1>0, <1>14, GotoAt DEF RemoveSession
    <2> QED BY <1>2, <1>5, <2>1, <2>2
  <1>15. CASE Crash(p)
    <2>1. UNCHANGED <<audit, calls>> /\ owed' = owed \ {work[p].id}
      BY <1>15 DEF Crash, Die
    <2>2. pc'[p] = "idle"
      BY <1>0, <1>15, GotoAt DEF Crash, Die
    <2> QED BY <1>2, <1>5, <2>1, <2>2
  <1>16. ~Tear(p)
    BY DEF Tear
  <1> QED BY <1>6, <1>7, <1>8, <1>9, <1>10, <1>11, <1>12, <1>13, <1>14, <1>15, <1>16 DEF Step

\* "Every attempt to interact with a remote system is recorded": if one process
\* writes and its appends are not torn, a call that is over has its record,
\* unless the process died in the midst of it.
THEOREM AttemptsAreRecorded ==
  ASSUME OneProcess, "torn" \notin Faults
  PROVE  Spec => []EveryAttemptRecorded
  <1>1. Init => AttemptInv
    <2> SUFFICES ASSUME Init PROVE AttemptInv
      OBVIOUS
    <2>1. \A n \in 1 .. Len(audit) : audit[n].kind = "legacy"
      BY LegacyAssumption DEF Init, LegacyLine
    <2> QED BY <2>1, InitFiles DEF Init, AttemptInv, EveryAttemptRecorded
  <1>2. AttemptInv /\ [Next]_vars => AttemptInv'
    <2> SUFFICES ASSUME AttemptInv, [Next]_vars PROVE AttemptInv'
      OBVIOUS
    <2>1. CASE UNCHANGED vars
      <3>1. FileInv'
        BY <2>1, NextFiles DEF AttemptInv
      <3> QED BY <2>1, <3>1 DEF vars, AttemptInv, EveryAttemptRecorded, Readable
    <2>2. CASE Next
      BY <2>2, StepAttempts DEF Next
    <2> QED BY <2>1, <2>2
  <1>3. AttemptInv => EveryAttemptRecorded
    BY DEF AttemptInv
  <1> QED BY <1>1, <1>2, <1>3, PTL DEF Spec
=============================================================================

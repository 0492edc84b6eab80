--------------------------- MODULE GatewayProofs ---------------------------
(***************************************************************************)
(* What the gateway commands keep, for any terminals, credentials and       *)
(* bounds, as long as commands are run one by one: the service that runs is  *)
(* the recorded one (ServiceManaged), and no credential is lost, whenever a  *)
(* command dies (CredentialsKept).  Each has an invariant of its own.        *)
(***************************************************************************)
EXTENDS Gateway, TLAPS

Values == {None, "old", "new"}
Stages == {"idle", "readenv", "stage", "replace", "dropenv", "readown", "stageown",
           "replaceown", "status", "forget", "spawn", "writepid", "writemeta", "wait",
           "term", "await", "unlink"}
Names == {"none", "start", "stop", "restart", "status", "save", "load"}

----------------------------------------------------------------------------
\* The service

\* What one command has in hand of the services: after a stop's SIGKILL, and
\* before a spawn, nothing runs; in between, nothing but the service it is at.
InHand(c) ==
  /\ at[c] \in {"forget", "spawn", "unlink"} => \A n \in Pids : ~Alive(n)
  /\ at[c] \in {"term", "await", "writepid"} =>
       /\ pid[c] \in Pids
       /\ \A n \in Pids : Alive(n) => n = pid[c]
  /\ at[c] # "writepid" => \A n \in Pids : Alive(n) => pidFile = n

Alone == \A c, d \in Commands : ~Idle(c) /\ ~Idle(d) => c = d

ServiceTyped ==
  /\ svc \in [Pids -> {"none", "starting", "serving", "dead"}]
  /\ pidFile \in Pids \cup {NoPid} /\ metaFile \in Pids \cup {NoPid}
  /\ at \in [Commands -> Stages]
  /\ cmd \in [Commands -> Names]
  /\ pid \in [Commands -> Pids \cup {NoPid}]
  /\ overlap \in BOOLEAN /\ crashes \in Nat

\* When no command runs, what runs is recorded; otherwise the command that
\* runs knows of it.
ServiceInv ==
  /\ ServiceTyped
  /\ ~overlap => Alone
  /\ ~overlap /\ crashes = 0 =>
       /\ Resting => \A n \in Pids : Alive(n) => pidFile = n
       /\ \A c \in Commands : ~Idle(c) => InHand(c)

\* A temporary file holds credentials, or is not there.
TmpTyped == tmp \in [Files -> [Keys -> Values] \cup {None}]

\* A credential that is in a file was configured; what is new is newest.
CredentialsTyped ==
  /\ file \in [Files -> [Keys -> Values]]
  /\ TmpTyped
  /\ given \in [Keys -> Values]
  /\ env \in [Commands -> [Keys -> Values]]
  /\ read \in [Commands -> [Keys -> Values]]
  /\ at \in [Commands -> Stages]
  /\ cmd \in [Commands -> Names] /\ key \in [Commands -> Keys \cup {None}]
  /\ \A c \in Commands :
       cmd[c] = "save" \/ at[c] \in {"readown", "stageown", "replaceown"} => key[c] \in Keys
  /\ overlap \in BOOLEAN

NewIsNewest ==
  /\ \A k \in Keys : file["env"][k] # "new"
  /\ \A k \in Keys, f \in Files : file[f][k] = "new" => given[k] = "new"

\* What the files hold once .env is dropped.
OutsideEnv(k) == \E f \in {"state", "workspace"} : file[f][k] = given[k]

Moved(c, k) ==
  IF file[CredentialsFile(c)][k] # None THEN file[CredentialsFile(c)][k] ELSE file["env"][k]

\* What one command has in hand of the credentials.
Carried(c) ==
  /\ at[c] = "stage" => env[c] = file["env"] /\ read[c] = file[CredentialsFile(c)]
  /\ at[c] = "replace" => tmp[CredentialsFile(c)] = [k \in Keys |-> Moved(c, k)]
  /\ at[c] = "dropenv" => \A k \in Keys : given[k] # None => OutsideEnv(k)
  /\ at[c] = "stageown" => read[c] = file[CredentialsFile(c)]
  /\ at[c] = "replaceown" =>
       tmp[CredentialsFile(c)] = [file[CredentialsFile(c)] EXCEPT ![key[c]] = "new"]

CredentialInv ==
  /\ CredentialsTyped
  /\ ~overlap =>
       /\ Alone
       /\ NewIsNewest
       /\ CredentialsKept
       /\ \A c \in Commands : ~Idle(c) => Carried(c)

----------------------------------------------------------------------------
\* The service: initially, and one step of each kind

LEMMA ServiceInit == Init => ServiceInv
<1>1. ASSUME Init PROVE ServiceInv
  BY <1>1 DEF Init, ServiceInv, ServiceTyped, Alone, Idle, Resting, Alive, Stages, Names, NoPid
<1>2. QED
  BY <1>1

\* A command that begins has nothing in hand.
LEMMA ServiceBegin ==
  ASSUME ServiceInv, NEW c \in Commands, Begin(c)
  PROVE  ServiceInv'
<1>1. PICK name \in Names, k \in Keys \cup {None}, stage \in {"readenv", "status"} :
        Run(c, name, k, stage)
  BY DEF Begin, Start, Stop, Restart, Status, TokenSetup, LoadWorkspaceEnv, Names
<1> USE <1>1 DEF Run, Idle, Goto, ServiceInv, ServiceTyped, services, Stages, Names
<1>2. ServiceTyped'
  OBVIOUS
<1>3. ~overlap' => Alone'
  BY DEF Alone
<1>4. ASSUME ~overlap', crashes' = 0
      PROVE  /\ Resting' => \A n \in Pids : Alive(n)' => pidFile' = n
             /\ \A d \in Commands : ~Idle(d)' => InHand(d)'
  <2>1. Resting
    BY <1>4 DEF Resting
  <2>2. ~Resting'
    BY DEF Resting
  <2>3. \A d \in Commands : ~Idle(d)' => d = c
    BY <1>3, <1>4, <2>1 DEF Resting
  <2>4. InHand(c)'
    BY <1>4, <2>1 DEF InHand, Alive
  <2>5. QED
    BY <2>2, <2>3, <2>4
<1>5. QED
  BY <1>2, <1>3, <1>4

\* What is left to show for a step of a command that is under way.
LEMMA ServiceStepKeeps ==
  ASSUME ServiceInv, ServiceTyped', NEW c \in Commands, ~Idle(c),
         \A d \in Commands \ {c} : at'[d] = at[d],
         overlap' = overlap, crashes' = crashes,
         ~overlap /\ crashes = 0 =>
           IF at'[c] = "idle" THEN (\A n \in Pids : Alive(n) => pidFile = n)' ELSE InHand(c)'
  PROVE  ServiceInv'
<1> USE DEF ServiceInv, Idle
<1>1. ~overlap' => Alone'
  BY DEF Alone
<1>2. ASSUME ~overlap', crashes' = 0
      PROVE  /\ Resting' => \A n \in Pids : Alive(n)' => pidFile' = n
             /\ \A d \in Commands : ~Idle(d)' => InHand(d)'
  <2>1. \A d \in Commands : ~Idle(d)' => d = c
    BY <1>2 DEF Alone
  <2>2. QED
    BY <1>2, <2>1 DEF Resting
<1>3. QED
  BY <1>1, <1>2

\* The steps on credentials leave the service alone.
LEMMA ServiceCredentialStep ==
  ASSUME ServiceInv, NEW c \in Commands, CredentialStep(c)
  PROVE  ServiceInv'
<1>1. /\ UNCHANGED <<svc, pidFile, metaFile, crashes, overlap>>
      /\ at[c] \in {"readenv", "stage", "replace", "dropenv", "readown", "stageown", "replaceown"}
      /\ \/ /\ \E x \in {"stage", "replace", "dropenv", "readown", "stageown", "replaceown", "status"} :
                 at' = [at EXCEPT ![c] = x]
            /\ cmd' = cmd /\ pid' = pid
         \/ /\ at' = [at EXCEPT ![c] = "idle"]
            /\ cmd' = [cmd EXCEPT ![c] = "none"]
            /\ pid' = [pid EXCEPT ![c] = NoPid]
  <2> USE DEF services, Goto, Forget, Done, Migrated
  <2>1. CASE ReadEnv(c)
    BY <2>1 DEF ReadEnv
  <2>2. CASE Stage(c)
    BY <2>2 DEF Stage
  <2>3. CASE Replace(c)
    BY <2>3 DEF Replace
  <2>4. CASE DropEnv(c)
    BY <2>4 DEF DropEnv
  <2>5. CASE ReadOwn(c)
    BY <2>5 DEF ReadOwn
  <2>6. CASE StageOwn(c)
    BY <2>6 DEF StageOwn
  <2>7. CASE ReplaceOwn(c)
    BY <2>7 DEF ReplaceOwn
  <2>8. QED
    BY <2>1, <2>2, <2>3, <2>4, <2>5, <2>6, <2>7 DEF CredentialStep
<1>2. ServiceTyped'
  BY <1>1 DEF ServiceInv, ServiceTyped, Stages, Names
<1>3. ~Idle(c) /\ at' = [at EXCEPT ![c] = at'[c]]
  BY <1>1 DEF Idle, ServiceInv, ServiceTyped
<1>4. ~overlap /\ crashes = 0 =>
        IF at'[c] = "idle" THEN (\A n \in Pids : Alive(n) => pidFile = n)' ELSE InHand(c)'
  BY <1>1, <1>3 DEF ServiceInv, ServiceTyped, InHand, Alive, Idle
<1>5. \A d \in Commands \ {c} : at'[d] = at[d]
  BY <1>3 DEF ServiceInv, ServiceTyped
<1>6. QED
  BY <1>1, <1>2, <1>3, <1>4, <1>5, ServiceStepKeeps

\* The steps of start, stop and status.
LEMMA ServiceServiceStep ==
  ASSUME ServiceInv, NEW c \in Commands, ServiceStep(c)
  PROVE  ServiceInv'
<1> USE DEF services, Goto, Forget, Done
<1>1. /\ overlap' = overlap /\ crashes' = crashes /\ ~Idle(c)
      /\ at' = [at EXCEPT ![c] = at'[c]]
      /\ at'[c] \in Stages
  <2> USE DEF ServiceInv, ServiceTyped, Idle, Stages
  <2>1. CASE GetStatus(c)
    BY <2>1 DEF GetStatus, Running, NotRunning
  <2>2. CASE ForgetStale(c)
    BY <2>2 DEF ForgetStale, NotRunning
  <2>3. CASE Spawn(c)
    BY <2>3 DEF Spawn
  <2>4. CASE WritePid(c) \/ WriteMeta(c) \/ WaitReady(c)
    BY <2>4 DEF WritePid, WriteMeta, WaitReady
  <2>5. CASE Terminate(c) \/ Kill(c) \/ Unlink(c)
    BY <2>5 DEF Terminate, Kill, Unlink
  <2>6. QED
    BY <2>1, <2>2, <2>3, <2>4, <2>5 DEF ServiceStep
<1>2. /\ ServiceTyped'
      /\ ~overlap /\ crashes = 0 =>
           IF at'[c] = "idle" THEN (\A n \in Pids : Alive(n) => pidFile = n)' ELSE InHand(c)'
  <2> USE <1>1 DEF ServiceInv, ServiceTyped, Idle, Stages, Names, InHand, Alive
  <2>1. CASE GetStatus(c)
    <3>1. ServiceTyped'
      BY <2>1 DEF GetStatus, Running, NotRunning, Recorded
    <3>2. UNCHANGED <<svc, pidFile, metaFile>>
      BY <2>1 DEF GetStatus
    <3>3. CASE Recorded = NoPid
      <4>1. NotRunning(c) /\ pidFile = NoPid
        BY <2>1, <3>3 DEF GetStatus, Recorded, RecordedAlive
      <4>2. ~overlap /\ crashes = 0 => \A n \in Pids : ~Alive(n)
        BY <2>1, <4>1 DEF GetStatus
      <4>3. at'[c] \in {"spawn", "readenv", "idle"}
        BY <4>1 DEF NotRunning
      <4>4. QED
        BY <3>1, <3>2, <4>2, <4>3
    <3>4. CASE Recorded # NoPid /\ RecordedAlive
      <4>1. ~overlap /\ crashes = 0 => \A n \in Pids : Alive(n) => n = Recorded
        BY <2>1, <3>4 DEF GetStatus, Recorded, NoPid, Pids
      <4>2. \/ at'[c] = "term" /\ pid'[c] = Recorded /\ Recorded \in Pids
            \/ at'[c] = "idle"
        BY <2>1, <3>4 DEF GetStatus, Running, Recorded
      <4>3. QED
        BY <2>1, <3>1, <3>2, <4>1, <4>2 DEF GetStatus
    <3>5. CASE Recorded # NoPid /\ ~RecordedAlive
      <4>1. at'[c] = "forget"
        BY <2>1, <3>5 DEF GetStatus
      <4>2. ~overlap /\ crashes = 0 => \A n \in Pids : ~Alive(n)
        BY <2>1, <3>5 DEF GetStatus, Recorded, RecordedAlive, NoPid, Pids
      <4>3. QED
        BY <3>1, <3>2, <4>1, <4>2
    <3>6. QED
      BY <3>3, <3>4, <3>5
  <2>2. CASE ForgetStale(c)
    <3>1. at'[c] \in {"spawn", "readenv", "idle"}
      BY <2>2 DEF ForgetStale, NotRunning
    <3>2. QED
      BY <2>2, <3>1 DEF ForgetStale, NotRunning
  <2>3. CASE Spawn(c)
    <3>1. PICK n \in Pids :
            /\ svc' = [svc EXCEPT ![n] = "starting"]
            /\ pid' = [pid EXCEPT ![c] = n]
      BY <2>3 DEF Spawn
    <3>2. ServiceTyped'
      BY <2>3, <3>1 DEF Spawn
    <3>3. at[c] = "spawn" /\ at'[c] = "writepid"
      BY <2>3 DEF Spawn
    <3>4. ~overlap /\ crashes = 0 => \A m \in Pids : Alive(m)' => m = pid'[c]
      BY <3>1, <3>3
    <3>5. QED
      BY <3>1, <3>2, <3>3, <3>4
  <2>4. CASE WritePid(c)
    BY <2>4 DEF WritePid
  <2>5. CASE WriteMeta(c)
    BY <2>5 DEF WriteMeta
  <2>6. CASE WaitReady(c)
    BY <2>6 DEF WaitReady
  <2>7. CASE Terminate(c)
    BY <2>7 DEF Terminate
  <2>8. CASE Kill(c)
    BY <2>8 DEF Kill
  <2>9. CASE Unlink(c)
    BY <2>9 DEF Unlink
  <2>10. QED
    BY <2>1, <2>2, <2>3, <2>4, <2>5, <2>6, <2>7, <2>8, <2>9 DEF ServiceStep
<1>3. \A d \in Commands \ {c} : at'[d] = at[d]
  BY <1>1 DEF ServiceInv, ServiceTyped
<1>4. QED
  BY <1>1, <1>2, <1>3, ServiceStepKeeps

\* A crash is excused; a service only comes up or ends.
LEMMA ServiceOther ==
  ASSUME ServiceInv,
         \/ \E c \in Commands : Crash(c)
         \/ \E n \in Pids : Serve(n) \/ Exit(n)
         \/ UNCHANGED vars
  PROVE  ServiceInv'
<1> USE DEF ServiceInv, ServiceTyped
<1>1. ASSUME NEW c \in Commands, Crash(c) PROVE ServiceInv'
  <2> USE <1>1 DEF Crash, Done, Forget, services, Stages, Names
  <2>1. ServiceTyped'
    OBVIOUS
  <2>2. ~overlap' => Alone'
    BY DEF Alone, Idle
  <2>3. crashes' # 0
    OBVIOUS
  <2>4. QED
    BY <2>1, <2>2, <2>3
<1>2. ASSUME NEW n \in Pids, Serve(n) \/ Exit(n) PROVE ServiceInv'
  <2> USE <1>2 DEF Serve, Exit, control, Alive
  <2>1. ServiceTyped'
    OBVIOUS
  <2>2. ~overlap' => Alone'
    BY DEF Alone, Idle
  <2>3. \A m \in Pids : Alive(m)' => Alive(m)
    OBVIOUS
  <2>4. ASSUME ~overlap', crashes' = 0
        PROVE  /\ Resting' => \A m \in Pids : Alive(m)' => pidFile' = m
               /\ \A c \in Commands : ~Idle(c)' => InHand(c)'
    BY <2>3, <2>4 DEF Resting, Idle, InHand
  <2>5. QED
    BY <2>1, <2>2, <2>4
<1>3. ASSUME UNCHANGED vars PROVE ServiceInv'
  BY <1>3 DEF vars, services, control, Alone, Idle, Resting, InHand, Alive
<1>4. QED
  BY <1>1, <1>2, <1>3

LEMMA ServiceStepsKeep ==
  ASSUME ServiceInv, [Next]_vars
  PROVE  ServiceInv'
<1>1. ASSUME NEW c \in Commands, Begin(c) \/ CredentialStep(c) \/ ServiceStep(c) \/ Crash(c)
      PROVE  ServiceInv'
  BY <1>1, ServiceBegin, ServiceCredentialStep, ServiceServiceStep, ServiceOther
<1>2. CASE (\E n \in Pids : Serve(n) \/ Exit(n)) \/ UNCHANGED vars
  BY <1>2, ServiceOther
<1>3. QED
  BY <1>1, <1>2 DEF Next

\* Commands run one by one, none of which died, leave no service alive but the
\* recorded one, for any terminals and any number of services and commands.
\* (start_gateway_service, stop_gateway_service, get_gateway_status)
THEOREM ServicesAreManaged == Spec => []ServiceManaged
<1>1. ServiceInv => ServiceManaged
  BY DEF ServiceInv, ServiceManaged
<1>2. QED
  BY <1>1, ServiceInit, ServiceStepsKeep, PTL DEF Spec

----------------------------------------------------------------------------
\* Credentials

LEMMA CredentialInit == Init => CredentialInv
<1>1. ASSUME Init PROVE CredentialInv
  <2>1. PICK old \in SUBSET Keys :
          file = [f \in Files |-> [k \in Keys |-> IF f = "env" /\ k \in old THEN "old" ELSE None]]
    BY <1>1 DEF Init
  <2>2. CredentialsTyped
    <3>1. file \in [Files -> [Keys -> Values]] /\ given \in [Keys -> Values] /\ TmpTyped
      BY <1>1, <2>1 DEF Init, TmpTyped, Values, Files
    <3>2. [k \in Keys |-> None] \in [Keys -> Values]
      BY DEF Values
    <3>3. QED
      BY <1>1, <3>1, <3>2 DEF Init, CredentialsTyped, NoCredentials, Stages, Names
  <2>3. NewIsNewest /\ CredentialsKept
    BY <1>1, <2>1, NoneAssumption DEF Init, NewIsNewest, CredentialsKept, Files
  <2>4. Alone /\ \A c \in Commands : Idle(c)
    BY <1>1 DEF Init, Alone, Idle
  <2>5. QED
    BY <2>2, <2>3, <2>4 DEF CredentialInv
<1>2. QED
  BY <1>1

\* What is left to show for a step of one command.
LEMMA CredentialStepKeeps ==
  ASSUME CredentialInv, CredentialsTyped', NEW c \in Commands, ~Idle(c),
         \A d \in Commands \ {c} : at'[d] = at[d],
         overlap' = overlap,
         ~overlap => (NewIsNewest /\ CredentialsKept)' /\ (at'[c] # "idle" => Carried(c)')
  PROVE  CredentialInv'
<1> USE DEF CredentialInv, Idle
<1>1. ~overlap' => Alone'
  BY DEF Alone
<1>2. ASSUME ~overlap' PROVE \A d \in Commands : ~Idle(d)' => Carried(d)'
  <2>1. \A d \in Commands : ~Idle(d)' => d = c
    BY <1>2 DEF Alone
  <2>2. QED
    BY <1>2, <2>1
<1>3. QED
  BY <1>1, <1>2

LEMMA CredentialBegin ==
  ASSUME CredentialInv, NEW c \in Commands, Begin(c)
  PROVE  CredentialInv'
<1>1. PICK name \in Names, k \in Keys \cup {None}, stage \in {"readenv", "status"} :
        /\ Run(c, name, k, stage)
        /\ name = "save" => k \in Keys
  BY DEF Begin, Start, Stop, Restart, Status, TokenSetup, LoadWorkspaceEnv, Names
<1> USE <1>1 DEF Run, Idle, Goto, CredentialInv, CredentialsTyped, credentials
<1>2. CredentialsTyped'
  <2>1. at' \in [Commands -> Stages] /\ cmd' \in [Commands -> Names]
    BY DEF Stages
  <2>2. /\ key' \in [Commands -> Keys \cup {None}]
        /\ \A d \in Commands :
             cmd'[d] = "save" \/ at'[d] \in {"readown", "stageown", "replaceown"} => key'[d] \in Keys
    OBVIOUS
  <2>3. QED
    BY <2>1, <2>2 DEF TmpTyped
<1>3. ~overlap' => Alone'
  BY DEF Alone
<1>4. (~overlap => NewIsNewest /\ CredentialsKept)'
  BY DEF NewIsNewest, CredentialsKept
<1>5. ASSUME ~overlap' PROVE \A d \in Commands : ~Idle(d)' => Carried(d)'
  <2>1. \A d \in Commands : ~Idle(d)' => d = c
    BY <1>5 DEF Alone
  <2>2. at'[c] = stage
    OBVIOUS
  <2>3. Carried(c)'
    BY <2>2 DEF Carried
  <2>4. QED
    BY <2>1, <2>3
<1>6. QED
  BY <1>2, <1>3, <1>4, <1>5

\* The steps that leave the files as they are.
LEMMA CredentialOther ==
  ASSUME CredentialInv, NEW c \in Commands, ServiceStep(c) \/ Crash(c)
  PROVE  CredentialInv'
<1>1. /\ UNCHANGED <<file, given, overlap>> /\ ~Idle(c)
      /\ \E x \in {"idle", "term", "spawn", "readenv", "forget", "writepid", "writemeta",
                   "wait", "status", "await", "unlink"} : at' = [at EXCEPT ![c] = x]
      /\ \/ cmd' = cmd /\ key' = key
         \/ key' = key /\ \E name \in {"start", "status"} : cmd' = [cmd EXCEPT ![c] = name]
         \/ key' = [key EXCEPT ![c] = None] /\ cmd' = [cmd EXCEPT ![c] = "none"]
      /\ UNCHANGED <<env, read>> \/ Forget(c)
      /\ tmp' = tmp
  <2> USE DEF services, credentials, Goto, Done, Idle
  <2>1. CASE GetStatus(c)
    BY <2>1 DEF GetStatus, Running, NotRunning
  <2>2. CASE ForgetStale(c)
    BY <2>2 DEF ForgetStale, NotRunning
  <2>3. CASE Spawn(c) \/ WritePid(c) \/ WriteMeta(c) \/ WaitReady(c)
    BY <2>3 DEF Spawn, WritePid, WriteMeta, WaitReady
  <2>4. CASE Terminate(c) \/ Kill(c) \/ Unlink(c)
    BY <2>4 DEF Terminate, Kill, Unlink
  <2>5. CASE Crash(c)
    BY <2>5 DEF Crash
  <2>6. QED
    BY <2>1, <2>2, <2>3, <2>4, <2>5 DEF ServiceStep
<1>2. CredentialsTyped'
  <2>1. [k \in Keys |-> None] \in [Keys -> Values]
    BY DEF Values
  <2> USE DEF CredentialInv, CredentialsTyped
  <2>2. /\ env' \in [Commands -> [Keys -> Values]]
        /\ read' \in [Commands -> [Keys -> Values]]
    <3>1. CASE UNCHANGED <<env, read>>
      BY <3>1
    <3>2. CASE Forget(c)
      BY <2>1, <3>2 DEF Forget, NoCredentials
    <3>3. QED
      BY <1>1, <3>1, <3>2
  <2>3. at' \in [Commands -> Stages] /\ cmd' \in [Commands -> Names]
    BY <1>1 DEF Stages, Names
  <2>4. /\ key' \in [Commands -> Keys \cup {None}]
        /\ \A d \in Commands :
             cmd'[d] = "save" \/ at'[d] \in {"readown", "stageown", "replaceown"} => key'[d] \in Keys
    BY <1>1 DEF Names
  <2>5. QED
    BY <1>1, <2>2, <2>3, <2>4 DEF TmpTyped
<1>3. (\A d \in Commands \ {c} : at'[d] = at[d]) /\ (at'[c] # "idle" => Carried(c)')
  BY <1>1 DEF CredentialInv, CredentialsTyped, Carried
<1>4. ~overlap => (NewIsNewest /\ CredentialsKept)'
  BY <1>1 DEF CredentialInv, NewIsNewest, CredentialsKept
<1>5. QED
  BY <1>1, <1>2, <1>3, <1>4, CredentialStepKeeps

\* The file a command works on is never .env.
LEMMA CredentialsFileIsOutside ==
  ASSUME NEW c \in Commands
  PROVE  CredentialsFile(c) \in {"state", "workspace"} /\ CredentialsFile(c) # "env"
BY DEF CredentialsFile

\* Where a command goes after the migration, and what it then works on.
LEMMA MigratedGoesOn ==
  ASSUME CredentialsTyped, NEW c \in Commands, Migrated(c),
         at[c] \notin {"readown", "stageown", "replaceown"}
  PROVE  /\ \E x \in {"idle", "status", "readown"} : at' = [at EXCEPT ![c] = x]
         /\ cmd' \in [Commands -> Names] /\ key' \in [Commands -> Keys \cup {None}]
         /\ env' \in [Commands -> [Keys -> Values]] /\ read' \in [Commands -> [Keys -> Values]]
         /\ \A d \in Commands :
              cmd'[d] = "save" \/ at'[d] \in {"readown", "stageown", "replaceown"} => key'[d] \in Keys
<1> USE DEF CredentialsTyped, Migrated
<1>1. CASE cmd[c] = "start"
  BY <1>1 DEF Goto
<1>2. CASE cmd[c] = "save"
  BY <1>2 DEF Goto
<1>3. CASE cmd[c] \notin {"start", "save"}
  <2>1. Done(c)
    BY <1>3
  <2>2. [k \in Keys |-> None] \in [Keys -> Values]
    BY DEF Values
  <2>3. QED
    BY <2>1, <2>2 DEF Done, Forget, NoCredentials, Names
<1>4. QED
  BY <1>1, <1>2, <1>3

LEMMA ReadEnvKeeps ==
  ASSUME CredentialInv, NEW c \in Commands, ReadEnv(c)
  PROVE  CredentialInv'
<1> USE DEF ReadEnv, CredentialInv
<1>1. CASE file["env"] = NoCredentials
  <2>1. Migrated(c) /\ UNCHANGED <<file, tmp, given, overlap>> /\ at[c] = "readenv"
    BY <1>1 DEF credentials
  <2>2. CredentialsTyped'
    BY <2>1, MigratedGoesOn DEF CredentialsTyped, TmpTyped, Stages
  <2>3. /\ ~Idle(c) /\ \A d \in Commands \ {c} : at'[d] = at[d]
        /\ at'[c] # "idle" => Carried(c)'
    <3>1. PICK x \in {"idle", "status", "readown"} : at' = [at EXCEPT ![c] = x]
      BY <2>1, MigratedGoesOn
    <3>2. at'[c] = x /\ \A d \in Commands \ {c} : at'[d] = at[d]
      BY <3>1 DEF CredentialsTyped
    <3>3. ~Idle(c)
      BY <2>1 DEF Idle
    <3>4. Carried(c)'
      BY <3>2 DEF Carried
    <3>5. QED
      BY <3>2, <3>3, <3>4
  <2>4. ~overlap => (NewIsNewest /\ CredentialsKept)'
    BY <2>1 DEF NewIsNewest, CredentialsKept
  <2>5. QED
    BY <2>1, <2>2, <2>3, <2>4, CredentialStepKeeps
<1>2. CASE file["env"] # NoCredentials
  <2> USE <1>2 DEF Goto, credentials
  <2>1. CredentialsTyped'
    <3>1. file["env"] \in [Keys -> Values] /\ file[CredentialsFile(c)] \in [Keys -> Values]
      BY CredentialsFileIsOutside DEF CredentialsTyped, Files
    <3>2. QED
      BY <3>1 DEF CredentialsTyped, TmpTyped, Stages
  <2>2. /\ ~Idle(c) /\ \A d \in Commands \ {c} : at'[d] = at[d]
        /\ Carried(c)'
    BY CredentialsFileIsOutside DEF CredentialsTyped, Idle, Carried, CredentialsFile
  <2>3. ~overlap => (NewIsNewest /\ CredentialsKept)'
    BY DEF NewIsNewest, CredentialsKept
  <2>4. QED
    BY <2>1, <2>2, <2>3, CredentialStepKeeps
<1>3. QED
  BY <1>1, <1>2

\* What is staged is what the file will hold: its own values first, then those
\* of .env.
LEMMA StageKeeps ==
  ASSUME CredentialInv, NEW c \in Commands, Stage(c)
  PROVE  CredentialInv'
<1> USE DEF Stage, CredentialInv, Goto
<1>1. UNCHANGED <<file, given, overlap, cmd, key>>
  OBVIOUS
<1>2. CredentialsTyped'
  <2>1. [k \in Keys |-> None] \in [Keys -> Values]
    BY DEF Values
  <2>2. Migration(c) \in [Keys -> Values]
    BY DEF CredentialsTyped, Migration
  <2>3. TmpTyped'
    BY <2>2 DEF CredentialsTyped, TmpTyped
  <2>4. QED
    BY <2>1, <2>3 DEF CredentialsTyped, Forget, NoCredentials, Stages
<1>3. ~Idle(c) /\ \A d \in Commands \ {c} : at'[d] = at[d]
  BY DEF CredentialsTyped, Idle
<1>4. ~overlap => (NewIsNewest /\ CredentialsKept)'
  BY <1>1 DEF NewIsNewest, CredentialsKept
<1>5. ASSUME ~overlap PROVE Carried(c)'
  <2>1. at[c] = "stage" /\ at'[c] = "replace"
    BY DEF CredentialsTyped
  <2>2. env[c] = file["env"] /\ read[c] = file[CredentialsFile(c)]
    BY <1>5, <2>1, <1>3 DEF Carried
  <2>3. CredentialsFile(c)' = CredentialsFile(c)
    BY <1>1 DEF CredentialsFile
  <2>4. Migration(c) = [k \in Keys |-> Moved(c, k)]'
    BY <1>1, <2>2, <2>3 DEF Migration, Moved
  <2>5. tmp'[CredentialsFile(c)] = Migration(c)
    BY CredentialsFileIsOutside DEF CredentialsTyped, TmpTyped, Files
  <2>6. QED
    BY <2>1, <2>3, <2>4, <2>5 DEF Carried
<1>6. QED
  BY <1>1, <1>2, <1>3, <1>4, <1>5, CredentialStepKeeps

\* After the file is replaced, what was configured is outside .env: a value
\* that was in .env and in the file is the same old one in both.
LEMMA ReplaceKeeps ==
  ASSUME CredentialInv, NEW c \in Commands, Replace(c)
  PROVE  CredentialInv'
<1> DEFINE f == CredentialsFile(c)
<1> USE DEF CredentialInv
<1>1. f \in {"state", "workspace"} /\ f \in Files /\ f # "env" /\ "env" \in Files
  BY CredentialsFileIsOutside DEF Files
<1>2. at[c] = "replace" /\ UNCHANGED <<given, overlap>> /\ ~Idle(c)
  BY DEF Replace, Idle
<1>3. CASE tmp[f] = None
  <2>1. Done(c) /\ UNCHANGED <<file, tmp>>
    BY <1>3 DEF Replace, credentials
  <2>2. CredentialsTyped'
    <3>1. [k \in Keys |-> None] \in [Keys -> Values]
      BY DEF Values
    <3>2. QED
      BY <1>2, <2>1, <3>1 DEF CredentialsTyped, TmpTyped, Done, Forget, NoCredentials, Stages, Names
  <2>3. (\A d \in Commands \ {c} : at'[d] = at[d]) /\ at'[c] = "idle"
    BY <2>1 DEF CredentialsTyped, Done
  <2>4. ~overlap => (NewIsNewest /\ CredentialsKept)'
    BY <1>2, <2>1 DEF NewIsNewest, CredentialsKept
  <2>5. QED
    BY <1>2, <2>2, <2>3, <2>4, CredentialStepKeeps
<1>4. CASE tmp[f] # None
  <2>1. /\ file' = [file EXCEPT ![f] = tmp[f]]
        /\ tmp' = [tmp EXCEPT ![f] = None]
        /\ at' = [at EXCEPT ![c] = "dropenv"]
        /\ UNCHANGED <<cmd, key, env, read>>
    BY <1>4 DEF Replace, Goto
  <2>2. CredentialsTyped'
    <3>1. file' \in [Files -> [Keys -> Values]]
      BY <1>1, <1>4, <2>1 DEF CredentialsTyped, TmpTyped
    <3>2. TmpTyped'
      BY <1>1, <2>1 DEF CredentialsTyped, TmpTyped
    <3>3. QED
      BY <1>2, <2>1, <3>1, <3>2 DEF CredentialsTyped, Stages
  <2>3. (\A d \in Commands \ {c} : at'[d] = at[d]) /\ at'[c] = "dropenv"
    BY <2>1 DEF CredentialsTyped
  <2>4. ASSUME ~overlap
        PROVE  (NewIsNewest /\ CredentialsKept)' /\ Carried(c)'
    <3>1. file' = [file EXCEPT ![f] = [k \in Keys |-> Moved(c, k)]]
      BY <1>2, <2>1, <2>4 DEF Carried
    <3>2. \A k \in Keys : file'[f][k] = Moved(c, k)
      BY <1>1, <3>1 DEF CredentialsTyped
    <3>3. \A g \in Files \ {f} : file'[g] = file[g]
      BY <3>1 DEF CredentialsTyped
    <3>4. \A k \in Keys : Moved(c, k) \in {file[f][k], file["env"][k]}
      BY DEF Moved
    <3>5. NewIsNewest'
      BY <1>1, <1>2, <2>4, <3>2, <3>3, <3>4 DEF NewIsNewest
    <3>6. ASSUME NEW k \in Keys, given[k] # None PROVE OutsideEnv(k)'
      <4>1. PICK g \in Files : file[g][k] = given[k]
        BY <2>4, <3>6 DEF CredentialsKept
      <4>2. CASE g \notin {f, "env"}
        BY <1>2, <3>3, <4>1, <4>2 DEF OutsideEnv, Files
      <4>3. CASE g = f
        BY <1>1, <1>2, <3>2, <3>6, <4>1, <4>3 DEF OutsideEnv, Moved
      <4>4. CASE g = "env"
        <5>1. given[k] = "old" /\ file["env"][k] = "old"
          BY <2>4, <3>6, <4>1, <4>4 DEF NewIsNewest, CredentialsTyped, Values
        <5>2. file[f][k] \in {None, "old"}
          BY <1>1, <2>4, <5>1 DEF NewIsNewest, CredentialsTyped, Values
        <5>3. Moved(c, k) = "old"
          BY <5>1, <5>2 DEF Moved
        <5>4. QED
          BY <1>1, <1>2, <3>2, <5>1, <5>3 DEF OutsideEnv
      <4>5. QED
        BY <4>2, <4>3, <4>4
    <3>7. CredentialsKept'
      BY <1>2, <3>6 DEF CredentialsKept, OutsideEnv, Files
    <3>8. QED
      BY <1>2, <2>3, <3>5, <3>6, <3>7 DEF Carried
  <2>5. QED
    BY <1>2, <2>2, <2>3, <2>4, CredentialStepKeeps
<1>5. QED
  BY <1>3, <1>4

LEMMA DropEnvKeeps ==
  ASSUME CredentialInv, NEW c \in Commands, DropEnv(c)
  PROVE  CredentialInv'
<1> USE DEF CredentialInv
<1>1. /\ at[c] = "dropenv" /\ UNCHANGED <<given, overlap>> /\ ~Idle(c) /\ Migrated(c)
      /\ file' = [file EXCEPT !["env"] = NoCredentials] /\ tmp' = tmp
  BY DEF DropEnv, Idle
<1>2. CredentialsTyped'
  <2>1. [k \in Keys |-> None] \in [Keys -> Values]
    BY DEF Values
  <2>2. file' \in [Files -> [Keys -> Values]]
    BY <1>1, <2>1 DEF CredentialsTyped, NoCredentials
  <2>3. QED
    BY <1>1, <2>2, MigratedGoesOn DEF CredentialsTyped, TmpTyped, Stages
<1>3. /\ \A d \in Commands \ {c} : at'[d] = at[d]
      /\ at'[c] # "idle" => Carried(c)'
  BY <1>1, MigratedGoesOn DEF CredentialsTyped, Carried
<1>4. ASSUME ~overlap PROVE (NewIsNewest /\ CredentialsKept)'
  <2>1. \A k \in Keys : given[k] # None => OutsideEnv(k)
    BY <1>1, <1>4 DEF Carried
  <2>2. \A g \in Files \ {"env"} : file'[g] = file[g]
    BY <1>1 DEF CredentialsTyped
  <2>3. \A k \in Keys : file'["env"][k] = None
    BY <1>1 DEF CredentialsTyped, NoCredentials, Files
  <2>4. CredentialsKept'
    BY <1>1, <2>1, <2>2 DEF CredentialsKept, OutsideEnv, Files
  <2>5. NewIsNewest'
    BY <1>1, <1>4, <2>2, <2>3, NoneAssumption DEF NewIsNewest
  <2>6. QED
    BY <2>4, <2>5
<1>5. QED
  BY <1>1, <1>2, <1>3, <1>4, CredentialStepKeeps

LEMMA ReadOwnKeeps ==
  ASSUME CredentialInv, NEW c \in Commands, ReadOwn(c)
  PROVE  CredentialInv'
<1> USE DEF ReadOwn, CredentialInv, Goto, credentials
<1>1. CredentialsTyped'
  BY CredentialsFileIsOutside DEF CredentialsTyped, TmpTyped, Stages, Files
<1>2. ~Idle(c) /\ \A d \in Commands \ {c} : at'[d] = at[d]
  BY DEF CredentialsTyped, Idle
<1>3. Carried(c)'
  BY DEF CredentialsTyped, Carried, CredentialsFile
<1>4. ~overlap => (NewIsNewest /\ CredentialsKept)'
  BY DEF NewIsNewest, CredentialsKept
<1>5. QED
  BY <1>1, <1>2, <1>3, <1>4, CredentialStepKeeps

LEMMA StageOwnKeeps ==
  ASSUME CredentialInv, NEW c \in Commands, StageOwn(c)
  PROVE  CredentialInv'
<1> DEFINE f == CredentialsFile(c)
           staged == [read[c] EXCEPT ![key[c]] = "new"]
<1> USE DEF CredentialInv
<1>1. /\ at[c] = "stageown" /\ UNCHANGED <<file, given, overlap, cmd, key>>
      /\ tmp' = [tmp EXCEPT ![f] = staged]
      /\ at' = [at EXCEPT ![c] = "replaceown"] /\ Forget(c) /\ ~Idle(c)
  BY DEF StageOwn, Goto, Idle
<1>2. f \in Files
  BY CredentialsFileIsOutside DEF Files
<1>3. CredentialsTyped'
  <2>1. staged \in [Keys -> Values]
    BY <1>1 DEF CredentialsTyped, Values
  <2>2. TmpTyped'
    BY <1>1, <1>2, <2>1 DEF CredentialsTyped, TmpTyped
  <2>3. QED
    BY <1>1, <2>2 DEF CredentialsTyped, Forget, NoCredentials, Values, Stages
<1>4. (\A d \in Commands \ {c} : at'[d] = at[d]) /\ at'[c] = "replaceown"
  BY <1>1 DEF CredentialsTyped
<1>5. ASSUME ~overlap PROVE Carried(c)'
  <2>1. read[c] = file[f]
    BY <1>1, <1>5 DEF Carried
  <2>2. tmp'[f] = [file[f] EXCEPT ![key[c]] = "new"]
    BY <1>1, <1>2, <2>1 DEF CredentialsTyped, TmpTyped
  <2>3. CredentialsFile(c)' = f
    BY <1>1 DEF CredentialsFile
  <2>4. QED
    BY <1>1, <1>4, <2>2, <2>3 DEF Carried
<1>6. ~overlap => (NewIsNewest /\ CredentialsKept)'
  BY <1>1 DEF NewIsNewest, CredentialsKept
<1>7. QED
  BY <1>1, <1>3, <1>4, <1>5, <1>6, CredentialStepKeeps

\* The new value is in the file once token-setup says it is configured.
LEMMA ReplaceOwnKeeps ==
  ASSUME CredentialInv, NEW c \in Commands, ReplaceOwn(c)
  PROVE  CredentialInv'
<1> DEFINE f == CredentialsFile(c)
<1> USE DEF CredentialInv
<1>1. f \in Files /\ f # "env"
  BY CredentialsFileIsOutside DEF Files
<1>2. at[c] = "replaceown" /\ overlap' = overlap /\ ~Idle(c) /\ Done(c) /\ key[c] \in Keys
  BY DEF ReplaceOwn, Idle, CredentialsTyped
<1>3. (\A d \in Commands \ {c} : at'[d] = at[d]) /\ at'[c] = "idle"
  BY <1>2 DEF CredentialsTyped, Done
<1>4. /\ cmd' \in [Commands -> Names] /\ at' \in [Commands -> Stages]
      /\ key' \in [Commands -> Keys \cup {None}]
      /\ env' \in [Commands -> [Keys -> Values]] /\ read' \in [Commands -> [Keys -> Values]]
      /\ \A d \in Commands :
           cmd'[d] = "save" \/ at'[d] \in {"readown", "stageown", "replaceown"} => key'[d] \in Keys
  <2>1. [k \in Keys |-> None] \in [Keys -> Values]
    BY DEF Values
  <2>2. QED
    BY <1>2, <2>1 DEF CredentialsTyped, Done, Forget, NoCredentials, Stages, Names
<1>5. CASE tmp[f] = None
  <2>1. UNCHANGED <<file, tmp, given>>
    BY <1>5 DEF ReplaceOwn, credentials
  <2>2. CredentialsTyped'
    BY <1>2, <1>4, <2>1 DEF CredentialsTyped, TmpTyped
  <2>3. ~overlap => (NewIsNewest /\ CredentialsKept)'
    BY <1>2, <2>1 DEF NewIsNewest, CredentialsKept
  <2>4. QED
    BY <1>2, <1>3, <2>2, <2>3, CredentialStepKeeps
<1>6. CASE tmp[f] # None
  <2>1. /\ file' = [file EXCEPT ![f] = tmp[f]]
        /\ tmp' = [tmp EXCEPT ![f] = None]
        /\ given' = [given EXCEPT ![key[c]] = "new"]
    BY <1>6 DEF ReplaceOwn
  <2>2. CredentialsTyped'
    <3>1. file' \in [Files -> [Keys -> Values]] /\ TmpTyped'
      BY <1>1, <1>6, <2>1 DEF CredentialsTyped, TmpTyped
    <3>2. given' \in [Keys -> Values]
      BY <2>1 DEF CredentialsTyped, Values
    <3>3. QED
      BY <1>2, <1>4, <3>1, <3>2 DEF CredentialsTyped
  <2>3. ASSUME ~overlap PROVE (NewIsNewest /\ CredentialsKept)'
    <3>1. file' = [file EXCEPT ![f] = [file[f] EXCEPT ![key[c]] = "new"]]
      BY <1>2, <2>1, <2>3 DEF Carried
    <3>2. file'[f][key[c]] = "new" /\ given'[key[c]] = "new"
      BY <1>1, <1>2, <2>1, <3>1 DEF CredentialsTyped
    <3>3. \A g \in Files, k \in Keys : k # key[c] \/ g # f => file'[g][k] = file[g][k]
      BY <1>1, <3>1 DEF CredentialsTyped
    <3>4. \A k \in Keys : k # key[c] => given'[k] = given[k]
      BY <2>1 DEF CredentialsTyped
    <3>5. NewIsNewest'
      BY <1>1, <1>2, <2>3, <3>2, <3>3, <3>4, NoneAssumption DEF NewIsNewest, Files
    <3>6. CredentialsKept'
      BY <1>1, <1>2, <2>3, <3>2, <3>3, <3>4 DEF CredentialsKept
    <3>7. QED
      BY <3>5, <3>6
  <2>4. QED
    BY <1>2, <1>3, <2>2, <2>3, CredentialStepKeeps
<1>7. QED
  BY <1>5, <1>6

LEMMA CredentialStepsKeep ==
  ASSUME CredentialInv, [Next]_vars
  PROVE  CredentialInv'
<1>1. ASSUME NEW c \in Commands, CredentialStep(c) PROVE CredentialInv'
  BY <1>1, ReadEnvKeeps, StageKeeps, ReplaceKeeps, DropEnvKeeps, ReadOwnKeeps, StageOwnKeeps,
     ReplaceOwnKeeps DEF CredentialStep
<1>2. ASSUME NEW c \in Commands, Begin(c) \/ ServiceStep(c) \/ Crash(c) PROVE CredentialInv'
  BY <1>2, CredentialBegin, CredentialOther
<1>3. CASE (\E n \in Pids : Serve(n) \/ Exit(n)) \/ UNCHANGED vars
  <2>1. UNCHANGED <<file, tmp, given, env, read, at, cmd, key, overlap>>
    BY <1>3 DEF Serve, Exit, vars, credentials, control
  <2>2. QED
    <3>1. CredentialsTyped'
      BY <2>1 DEF CredentialInv, CredentialsTyped, TmpTyped
    <3>2. (Alone /\ NewIsNewest /\ CredentialsKept)' = (Alone /\ NewIsNewest /\ CredentialsKept)
      BY <2>1 DEF Alone, Idle, NewIsNewest, CredentialsKept
    <3>3. \A c \in Commands : Idle(c)' = Idle(c) /\ Carried(c)' = Carried(c)
      BY <2>1 DEF Idle, Carried, CredentialsFile, OutsideEnv, Moved
    <3>4. QED
      BY <2>1, <3>1, <3>2, <3>3 DEF CredentialInv
<1>4. QED
  BY <1>1, <1>2, <1>3 DEF Next

\* Whenever a command dies, no credential is lost, for any credentials and
\* terminals and with either setting of the state directory.
\* (migrate_workspace_credentials, save_state_credential)
THEOREM CredentialsAreKept == Spec => []CredentialsKept
<1>1. CredentialInv => CredentialsKept
  BY DEF CredentialInv, CredentialsKept
<1>2. QED
  BY <1>1, CredentialInit, CredentialStepsKeep, PTL DEF Spec
=============================================================================

------------------------------ MODULE Gateway ------------------------------
(***************************************************************************)
(* The launch service and the credentials it runs with (gateway.py): the    *)
(* commands that start, stop, restart and look at it, through the pid file   *)
(* and the metadata file of the state directory, and the commands that       *)
(* configure credentials, which move them out of the workspace's .env.       *)
(*                                                                         *)
(* Commands are processes of their own with no lock between them.  Each step *)
(* reads or replaces one file, or sends one signal; a command may die        *)
(* between two of them.                                                     *)
(***************************************************************************)
EXTENDS Naturals

CONSTANTS
  Commands,      \* the terminals commands are run from
  Keys,          \* the credentials' names
  None,          \* no value
  StateDirSet,   \* whether ROS_MAINTAINER_STATE_DIR is set for the commands
  MaxPid,        \* bound: how many services are spawned
  MaxRuns,       \* bound: how many commands are run
  MaxCrashes     \* bound: how many commands die

ASSUME SettingAssumption == StateDirSet \in BOOLEAN
ASSUME NoneAssumption == None \notin {"old", "new"}
ASSUME BoundsAssumption == MaxPid \in Nat /\ MaxRuns \in Nat /\ MaxCrashes \in Nat

VARIABLES
  svc,        \* each service, by its pid
  pidFile, metaFile,   \* the pid in gateway.pid and in gateway.json, or NoPid
  file,       \* the credentials in each file
  tmp,        \* the temporary file beside each, or None
  at,         \* what each command does next
  cmd,        \* which command it is
  key,        \* the credential it saves
  pid,        \* the service it is at
  env, read,  \* what it has read of .env and of the credentials file
  runs, crashes,
  \* what happened, for the properties:
  overlap,    \* two commands have run at once
  given,      \* the credentials configured so far
  missed      \* those that a service was spawned without

services == <<svc, pidFile, metaFile>>
credentials == <<file, tmp>>
control == <<at, cmd, key, pid, env, read>>
vars == <<services, credentials, control, runs, crashes, overlap, given, missed>>

Pids == 1 .. MaxPid
NoPid == 0
Alive(n) == n # NoPid /\ svc[n] \in {"starting", "serving"}

\* <workspace>/.env, <state>/credentials.env and
\* <state>/workspaces/<hash>/credentials.env
Files == {"env", "state", "workspace"}
NoCredentials == [k \in Keys |-> None]

\* get_credentials_file: the commands on the gateway name the state directory,
\* the others leave it to the environment.
CredentialsFile(c) ==
  IF cmd[c] \in {"save", "load"} /\ ~StateDirSet THEN "workspace" ELSE "state"

Idle(c) == at[c] = "idle"
Goto(c, stage) == at' = [at EXCEPT ![c] = stage]
Forget(c) ==
  /\ env' = [env EXCEPT ![c] = NoCredentials]
  /\ read' = [read EXCEPT ![c] = NoCredentials]
Done(c) ==
  /\ at' = [at EXCEPT ![c] = "idle"]
  /\ cmd' = [cmd EXCEPT ![c] = "none"]
  /\ key' = [key EXCEPT ![c] = None]
  /\ pid' = [pid EXCEPT ![c] = NoPid]
  /\ Forget(c)

Init ==
  /\ svc = [n \in Pids |-> "none"]
  /\ pidFile = NoPid /\ metaFile = NoPid
  /\ \E old \in SUBSET Keys :
       file = [f \in Files |-> [k \in Keys |-> IF f = "env" /\ k \in old THEN "old" ELSE None]]
  /\ tmp = [f \in Files |-> None]
  /\ at = [c \in Commands |-> "idle"] /\ cmd = [c \in Commands |-> "none"]
  /\ key = [c \in Commands |-> None] /\ pid = [c \in Commands |-> NoPid]
  /\ env = [c \in Commands |-> NoCredentials] /\ read = [c \in Commands |-> NoCredentials]
  /\ runs = 0 /\ crashes = 0
  /\ overlap = FALSE /\ given = file["env"] /\ missed = {}

----------------------------------------------------------------------------
\* Commands: gateway start (with a bind address it accepts), stop, restart and
\* status, token-setup, and every command that loads the credentials.

Run(c, name, k, stage) ==
  /\ Idle(c) /\ runs < MaxRuns
  /\ runs' = runs + 1
  /\ overlap' = (overlap \/ \E d \in Commands \ {c} : ~Idle(d))
  /\ cmd' = [cmd EXCEPT ![c] = name]
  /\ key' = [key EXCEPT ![c] = k]
  /\ Goto(c, stage)
  /\ UNCHANGED <<services, credentials, pid, env, read, crashes, given, missed>>

Start(c) == Run(c, "start", None, "readenv")
Stop(c) == Run(c, "stop", None, "status")
Restart(c) == Run(c, "restart", None, "status")
Status(c) == Run(c, "status", None, "status")
TokenSetup(c) == \E k \in Keys : Run(c, "save", k, "readenv")
LoadWorkspaceEnv(c) == Run(c, "load", None, "readenv")

\* A start goes on with the status, a save with its own reading.
Migrated(c) ==
  CASE cmd[c] = "start" -> Goto(c, "status") /\ UNCHANGED <<cmd, key, pid, env, read>>
    [] cmd[c] = "save" -> Goto(c, "readown") /\ UNCHANGED <<cmd, key, pid, env, read>>
    [] OTHER -> Done(c)

----------------------------------------------------------------------------
\* migrate_workspace_credentials, save_state_credential, write_private_env_file

ReadEnv(c) ==
  /\ at[c] = "readenv"
  /\ IF file["env"] = NoCredentials
     THEN Migrated(c)
     ELSE /\ env' = [env EXCEPT ![c] = file["env"]]
          /\ read' = [read EXCEPT ![c] = file[CredentialsFile(c)]]
          /\ Goto(c, "stage") /\ UNCHANGED <<cmd, key, pid>>
  /\ UNCHANGED <<services, credentials, runs, crashes, overlap, given, missed>>

\* A credential that is configured already is not overwritten.
Migration(c) == [k \in Keys |-> IF read[c][k] # None THEN read[c][k] ELSE env[c][k]]

\* A mutant: .env is emptied before the credentials are in place.
StageAndDropEnv(c) ==
  /\ at[c] = "stage"
  /\ tmp' = [tmp EXCEPT ![CredentialsFile(c)] = Migration(c)]
  /\ file' = [file EXCEPT !["env"] = NoCredentials]
  /\ Goto(c, "replace") /\ Forget(c)
  /\ UNCHANGED <<services, cmd, key, pid, runs, crashes, overlap, given, missed>>

Stage(c) ==
  /\ at[c] = "stage"
  /\ tmp' = [tmp EXCEPT ![CredentialsFile(c)] = Migration(c)]
  /\ Goto(c, "replace") /\ Forget(c)
  /\ UNCHANGED <<services, file, cmd, key, pid, runs, crashes, overlap, given, missed>>

\* The temporary file has one name: it may hold what another command wrote,
\* or be gone, which ends the command.
Replace(c) ==
  /\ at[c] = "replace"
  /\ LET f == CredentialsFile(c)
     IN  IF tmp[f] # None
         THEN /\ file' = [file EXCEPT ![f] = tmp[f]]
              /\ tmp' = [tmp EXCEPT ![f] = None]
              /\ Goto(c, "dropenv") /\ UNCHANGED <<cmd, key, pid, env, read>>
         ELSE Done(c) /\ UNCHANGED credentials
  /\ UNCHANGED <<services, runs, crashes, overlap, given, missed>>

\* .env is rewritten without its credentials, or removed.
DropEnv(c) ==
  /\ at[c] = "dropenv"
  /\ file' = [file EXCEPT !["env"] = NoCredentials]
  /\ Migrated(c)
  /\ UNCHANGED <<services, tmp, runs, crashes, overlap, given, missed>>

ReadOwn(c) ==
  /\ at[c] = "readown"
  /\ read' = [read EXCEPT ![c] = file[CredentialsFile(c)]]
  /\ Goto(c, "stageown")
  /\ UNCHANGED <<services, credentials, cmd, key, pid, env, runs, crashes, overlap, given, missed>>

StageOwn(c) ==
  /\ at[c] = "stageown"
  /\ tmp' = [tmp EXCEPT ![CredentialsFile(c)] = [read[c] EXCEPT ![key[c]] = "new"]]
  /\ Goto(c, "replaceown") /\ Forget(c)
  /\ UNCHANGED <<services, file, cmd, key, pid, runs, crashes, overlap, given, missed>>

ReplaceOwn(c) ==
  /\ at[c] = "replaceown"
  /\ LET f == CredentialsFile(c)
     IN  IF tmp[f] # None
         THEN /\ file' = [file EXCEPT ![f] = tmp[f]]
              /\ tmp' = [tmp EXCEPT ![f] = None]
              /\ given' = [given EXCEPT ![key[c]] = "new"]
         ELSE UNCHANGED <<credentials, given>>
  /\ Done(c)
  /\ UNCHANGED <<services, runs, crashes, overlap, missed>>

----------------------------------------------------------------------------
\* get_gateway_status

\* What each command does when the service runs, and when it does not.
Running(c) ==
  IF cmd[c] \in {"stop", "restart"}
  THEN Goto(c, "term") /\ UNCHANGED <<cmd, key, env, read>>
  ELSE Done(c)
NotRunning(c) ==
  CASE cmd[c] = "start" -> Goto(c, "spawn") /\ UNCHANGED <<cmd, key, pid, env, read>>
    [] cmd[c] = "restart" ->
         Goto(c, "readenv") /\ cmd' = [cmd EXCEPT ![c] = "start"] /\ UNCHANGED <<key, pid, env, read>>
    [] OTHER -> Done(c)

Recorded == IF pidFile # NoPid THEN pidFile ELSE metaFile
\* A mutant: a service that does not answer yet counts as gone.
RecordedAnswers == Recorded # NoPid /\ svc[Recorded] = "serving"
\* is_pid_alive, of the recorded pid
RecordedAlive == Alive(Recorded)

GetStatus(c) ==
  /\ at[c] = "status"
  /\ CASE Recorded = NoPid -> NotRunning(c)
       [] RecordedAlive ->
            IF cmd[c] \in {"stop", "restart"}
            THEN Running(c) /\ pid' = [pid EXCEPT ![c] = Recorded]
            ELSE Running(c)
       [] OTHER -> Goto(c, "forget") /\ UNCHANGED <<cmd, key, pid, env, read>>
  /\ UNCHANGED <<services, credentials, runs, crashes, overlap, given, missed>>

\* A recorded process that is gone: both files are removed, whatever they hold
\* by now.
ForgetStale(c) ==
  /\ at[c] = "forget"
  /\ pidFile' = NoPid /\ metaFile' = NoPid
  /\ NotRunning(c)
  /\ UNCHANGED <<svc, credentials, runs, crashes, overlap, given, missed>>

----------------------------------------------------------------------------
\* start_gateway_service

\* The service gets what the state directory's own file holds.
Spawn(c) ==
  /\ at[c] = "spawn"
  /\ \E n \in Pids :
       /\ svc[n] = "none" /\ \A m \in 1 .. n - 1 : svc[m] # "none"
       /\ svc' = [svc EXCEPT ![n] = "starting"]
       /\ pid' = [pid EXCEPT ![c] = n]
  /\ missed' = missed \cup {k \in Keys : given[k] # None /\ file["state"][k] = None}
  /\ Goto(c, "writepid")
  /\ UNCHANGED <<pidFile, metaFile, credentials, cmd, key, env, read, runs, crashes, overlap, given>>

WritePid(c) ==
  /\ at[c] = "writepid"
  /\ pidFile' = pid[c]
  /\ Goto(c, "writemeta")
  /\ UNCHANGED <<svc, metaFile, credentials, cmd, key, pid, env, read, runs, crashes, overlap, given, missed>>

WriteMeta(c) ==
  /\ at[c] = "writemeta"
  /\ metaFile' = pid[c]
  /\ Goto(c, "wait")
  /\ UNCHANGED <<svc, pidFile, credentials, cmd, key, pid, env, read, runs, crashes, overlap, given, missed>>

\* The child has exited; or something answers on the port, or ready_timeout has
\* passed, and the status is looked at once more.
WaitReady(c) ==
  /\ at[c] = "wait"
  /\ IF ~Alive(pid[c])
     THEN Done(c)
     ELSE /\ Goto(c, "status")
          /\ cmd' = [cmd EXCEPT ![c] = "status"]
          /\ UNCHANGED <<key, pid, env, read>>
  /\ UNCHANGED <<services, credentials, runs, crashes, overlap, given, missed>>

----------------------------------------------------------------------------
\* stop_gateway_service

\* SIGTERM: the service ends now, or later, or not at all.
Terminate(c) ==
  /\ at[c] = "term"
  /\ Goto(c, "await")
  /\ \/ svc' = [svc EXCEPT ![pid[c]] = "dead"]
     \/ UNCHANGED svc
  /\ UNCHANGED <<pidFile, metaFile, credentials, cmd, key, pid, env, read, runs, crashes, overlap, given, missed>>

\* A mutant: a service that outlives the timeout is left running.
KillNobody(c) ==
  /\ at[c] = "await"
  /\ Goto(c, "unlink")
  /\ UNCHANGED <<services, credentials, cmd, key, pid, env, read, runs, crashes, overlap, given, missed>>

\* SIGKILL, when it is still there after the timeout
Kill(c) ==
  /\ at[c] = "await"
  /\ svc' = [svc EXCEPT ![pid[c]] = "dead"]
  /\ Goto(c, "unlink")
  /\ UNCHANGED <<pidFile, metaFile, credentials, cmd, key, pid, env, read, runs, crashes, overlap, given, missed>>

\* A restart starts the service again.
Unlink(c) ==
  /\ at[c] = "unlink"
  /\ pidFile' = NoPid /\ metaFile' = NoPid
  /\ IF cmd[c] = "restart"
     THEN /\ Goto(c, "readenv") /\ cmd' = [cmd EXCEPT ![c] = "start"]
          /\ pid' = [pid EXCEPT ![c] = NoPid] /\ UNCHANGED <<key, env, read>>
     ELSE Done(c)
  /\ UNCHANGED <<svc, credentials, runs, crashes, overlap, given, missed>>

----------------------------------------------------------------------------
\* run_server: one service can bind the port; another exits.  A service may
\* fail at any time.
Serve(n) ==
  /\ svc[n] = "starting"
  /\ svc' = [svc EXCEPT ![n] = IF \E m \in Pids : svc[m] = "serving" THEN "dead" ELSE "serving"]
  /\ UNCHANGED <<pidFile, metaFile, credentials, control, runs, crashes, overlap, given, missed>>

Exit(n) ==
  /\ Alive(n)
  /\ svc' = [svc EXCEPT ![n] = "dead"]
  /\ UNCHANGED <<pidFile, metaFile, credentials, control, runs, crashes, overlap, given, missed>>

\* A command dies.
Crash(c) ==
  /\ ~Idle(c) /\ crashes < MaxCrashes
  /\ crashes' = crashes + 1
  /\ Done(c)
  /\ UNCHANGED <<services, credentials, runs, overlap, given, missed>>

Begin(c) ==
  \/ Start(c) \/ Stop(c) \/ Restart(c) \/ Status(c) \/ TokenSetup(c) \/ LoadWorkspaceEnv(c)
CredentialStep(c) ==
  \/ ReadEnv(c) \/ Stage(c) \/ Replace(c) \/ DropEnv(c)
  \/ ReadOwn(c) \/ StageOwn(c) \/ ReplaceOwn(c)
ServiceStep(c) ==
  \/ GetStatus(c) \/ ForgetStale(c) \/ Spawn(c) \/ WritePid(c) \/ WriteMeta(c)
  \/ WaitReady(c) \/ Terminate(c) \/ Kill(c) \/ Unlink(c)

Next ==
  \/ \E c \in Commands : Begin(c) \/ CredentialStep(c) \/ ServiceStep(c) \/ Crash(c)
  \/ \E n \in Pids : Serve(n) \/ Exit(n)

\* A command that runs goes on: each of its waits has a deadline.
Fairness == \A c \in Commands : WF_vars(CredentialStep(c) \/ ServiceStep(c))
Spec == Init /\ [][Next]_vars /\ Fairness

----------------------------------------------------------------------------
\* Properties

Resting == \A c \in Commands : Idle(c)

\* Commands run one by one, none of which died, leave no service alive but the
\* one in the pid file: what runs can be stopped, and a stop leaves nothing
\* behind.  (start_gateway_service, stop_gateway_service)
ServiceManaged ==
  ~overlap /\ crashes = 0 /\ Resting => \A n \in Pids : Alive(n) => pidFile = n

\* A stop ends the service it found, also one that ignores SIGTERM, whatever
\* else runs, unless a command dies.  (stop_gateway_service)
StopEnds ==
  \A n \in Pids :
    (\E c \in Commands : at[c] = "term" /\ pid[c] = n) ~> svc[n] = "dead" \/ crashes > 0

\* Whenever a command dies, a credential that was configured is in some file,
\* with the value given last, as long as commands do not overlap.
\* (migrate_workspace_credentials, save_state_credential)
CredentialsKept ==
  ~overlap => \A k \in Keys : given[k] # None => \E f \in Files : file[f][k] = given[k]

\* A service is started with every credential configured so far.
\* (start_gateway_service, token-setup)
CredentialsExported == ~overlap /\ crashes = 0 => missed = {}
=============================================================================

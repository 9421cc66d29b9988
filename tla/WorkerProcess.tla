--------------------------- MODULE WorkerProcess ---------------------------
(***************************************************************************)
(* The process of one worker, from its launch to its end: the stages of    *)
(* the launch, the log of its stderr, and the signals it is sent.          *)
(*                                                                         *)
(*   lib/worker/app-worker.ts     launchWorker_p, createAppWorker,         *)
(*                                AppWorker.kill                           *)
(*   lib/scheduler/scheduler.js   spawnWorker: idletimeout and exit        *)
(*   lib/core/python.ts           resolvePython_p                          *)
(*                                                                         *)
(* If the worker has to run as another user, the server's child is su,     *)
(* which starts the worker; only the worker's output tells its pid.        *)
(* Otherwise the worker is the server's child.                             *)
(***************************************************************************)
EXTENDS Naturals

CONSTANTS
  Configs,   \* settings of the app, see Config
  MaxKills   \* bounds: times idletimeout is emitted, times kill(true) is called

Config == [python : BOOLEAN,        \* mode is shiny-python
           switchUser : BOOLEAN,    \* run_as is not the server's user
           superuser : BOOLEAN,     \* the server is root
           logAsUser : BOOLEAN,     \* log_as_user
           preserveLogs : BOOLEAN]  \* preserve_logs

ASSUME WorkerProcessAssumption ==
  /\ Configs \subseteq Config
  /\ MaxKills \in [{"idle", "force"} -> Nat]

VARIABLES
  config,     \* settings of this app
  stage,      \* what launchWorker_p awaits
  stream,     \* logStream
  process,    \* state of the server's child and of what su has started
  signals,    \* the signals that each has been sent
  announced,  \* shiny_launch_info: it is not written, written or read
  timers,     \* timers of kill() that are pending, by the pid they hold
  kills,      \* calls of kill()
  timedOut,   \* deleteLogFileOnExit
  status,     \* how the server's child ended
  exited,     \* its exit has been handled
  log         \* the log file

vars == <<config, stage, stream, process, signals, announced, timers, kills,
          timedOut, status, exited, log>>

launch == <<config, stage, stream, log>>
os == <<process, signals, announced, status>>
server == <<timers, kills, timedOut, exited>>

Pids == {"child", "worker"}
Signals == {"SIGINT", "SIGTERM"}

\* The process that runs the app.
App == IF config.switchUser THEN "worker" ELSE "child"

Running(p) == process[p] = "running"

TypeOK ==
  /\ config \in Configs
  /\ stage \in {"exists", "log", "python", "stat", "bookmarks", "launched", "failed"}
  /\ stream \in {"none", "open", "user", "ended"}
  /\ process \in [Pids -> {"none", "running", "dead"}]
  /\ signals \in [Pids -> SUBSET Signals]
  /\ announced \in {"no", "written", "read"}
  /\ timers \in [Pids -> 0 .. MaxKills["idle"]]
  /\ kills \in [{"idle", "force"} -> Nat]
  /\ \A k \in {"idle", "force"} : kills[k] <= MaxKills[k]
  /\ timedOut \in BOOLEAN
  /\ status \in {"none", "zero", "failure", "signal"}
  /\ exited \in BOOLEAN
  /\ log \in {"none", "there", "deleted"}

Init ==
  /\ config \in Configs
  /\ stage = "exists"
  /\ stream = "none"
  /\ process = [p \in Pids |-> "none"]
  /\ signals = [p \in Pids |-> {}]
  /\ announced = "no"
  /\ timers = [p \in Pids |-> 0]
  /\ kills = [k \in {"idle", "force"} |-> 0]
  /\ timedOut = FALSE
  /\ status = "none"
  /\ exited = FALSE
  /\ log = "none"

(***************************************************************************)
(* launchWorker_p.  Each stage ends with success or by throwing.           *)
(***************************************************************************)

\* exists() has looked for the app's directory.
Exists ==
  /\ stage = "exists"
  /\ stage' \in {"log", "failed"}
  /\ UNCHANGED <<config, stream, log, os, server>>

\* createAppWorker refuses to run the worker as root.
Refuses == config.superuser /\ ~config.switchUser

\* createLogFile or createLogFileAsUser, and createAppWorker as far as it
\* goes without waiting.
CreateLog ==
  /\ stage = "log"
  /\ stream' = IF config.logAsUser THEN "user" ELSE "open"
  /\ log' = "there"
  /\ stage' = IF Refuses THEN "failed" ELSE IF config.python THEN "python" ELSE "stat"
  /\ UNCHANGED <<config, os, server>>

CreateLogFails ==
  /\ stage = "log"
  /\ stage' = "failed"
  /\ log' \in {"none", "there"}
  /\ UNCHANGED <<config, stream, os, server>>

\* resolvePython_p, outside of the try block.
ResolvePython ==
  /\ stage = "python"
  /\ stage' \in {"stat", "failed"}
  /\ UNCHANGED <<config, stream, log, os, server>>

Stat ==
  /\ stage = "stat"
  /\ stage' = "bookmarks"
  /\ UNCHANGED <<config, stream, log, os, server>>

\* The bookmark directories are there; spawn().
Spawn ==
  /\ stage = "bookmarks"
  /\ stage' = "launched"
  /\ process' = [process EXCEPT !["child"] = "running"]
  /\ UNCHANGED <<config, stream, log, signals, announced, status, server>>

EndStream == stream' = IF stream = "open" THEN "ended" ELSE stream

\* The directory is not one, or a bookmark directory cannot be made.
Abort ==
  /\ stage \in {"stat", "bookmarks"}
  /\ stage' = "failed"
  /\ EndStream
  /\ UNCHANGED <<config, log, os, server>>

(***************************************************************************)
(* The processes.                                                          *)
(***************************************************************************)

\* su starts the worker.
Su ==
  /\ config.switchUser
  /\ Running("child") /\ process["worker"] = "none" /\ "SIGTERM" \notin signals["child"]
  /\ process' = [process EXCEPT !["worker"] = "running"]
  /\ UNCHANGED <<launch, signals, announced, status, server>>

Writes ==
  /\ Running(App)
  /\ announced = "no"
  /\ announced' = "written"
  /\ UNCHANGED <<launch, process, signals, status, server>>

\* su hands SIGTERM on, and perhaps SIGINT.
Forward ==
  /\ config.switchUser
  /\ Running("child") /\ Running("worker")
  /\ signals["child"] # {}
  /\ signals' = [signals EXCEPT !["worker"] = @ \cup {"SIGTERM"}]
  /\ UNCHANGED <<launch, process, announced, status, server>>

\* A process obeys a signal; su when what it has started is gone.
Obey(p) ==
  /\ Running(p) /\ signals[p] # {}
  /\ p = "child" => ~Running("worker")
  /\ process' = [process EXCEPT ![p] = "dead"]
  /\ status' = IF p = "child" THEN "signal" ELSE status
  /\ UNCHANGED <<launch, signals, announced, server>>

\* The app ends by itself.
Quit ==
  /\ Running(App)
  /\ process' = [process EXCEPT ![App] = "dead"]
  /\ status' \in IF App = "child" THEN {"zero", "failure"} ELSE {status}
  /\ UNCHANGED <<launch, signals, announced, server>>

\* su ends with the status of what it has started.
SuEnds ==
  /\ config.switchUser
  /\ Running("child") /\ process["worker"] = "dead"
  /\ process' = [process EXCEPT !["child"] = "dead"]
  /\ status' \in IF signals["worker"] = {} THEN {"zero", "failure"}
                 ELSE {"zero", "failure", "signal"}
  /\ UNCHANGED <<launch, signals, announced, server>>

(***************************************************************************)
(* The server: the pid is read, kill() and its timer, the exit event.      *)
(***************************************************************************)
Announced ==
  /\ announced = "written"
  /\ announced' = "read"
  /\ UNCHANGED <<launch, process, signals, status, server>>

\* this.pid || this.$proc.pid
Pid == IF announced = "read" THEN App ELSE "child"

\* process.kill(pid, signal); what is no more cannot be signalled.
Send(pid, signal) ==
  signals' = [signals EXCEPT ![pid] = IF Running(pid) THEN @ \cup {signal} ELSE @]

\* Mutant of Arm: nothing follows SIGINT.
ArmNever(pid) == UNCHANGED timers

\* No timer if process.kill has thrown: a child that is dead is there until
\* its exit has been handled, what su has started is not.
Arm(pid) ==
  timers' = [timers EXCEPT ![pid] = IF pid = "child" \/ Running(pid) THEN @ + 1 ELSE @]

\* The listener for idletimeout.
IdleTimeout ==
  /\ stage = "launched"
  /\ kills["idle"] < MaxKills["idle"]
  /\ kills' = [kills EXCEPT !["idle"] = @ + 1]
  /\ timedOut' = TRUE
  /\ IF exited
     THEN UNCHANGED <<signals, timers>>
     ELSE Send(Pid, "SIGINT") /\ Arm(Pid)
  /\ UNCHANGED <<launch, process, announced, status, exited>>

\* Scheduler.shutdown: kill(true), for a worker that has been connected to.
Shutdown ==
  /\ stage = "launched"
  /\ kills["force"] < MaxKills["force"]
  /\ kills' = [kills EXCEPT !["force"] = @ + 1]
  /\ IF exited THEN UNCHANGED signals ELSE Send(Pid, "SIGTERM")
  /\ UNCHANGED <<launch, process, announced, status, timers, timedOut, exited>>

\* 20 seconds after SIGINT.
KillTimer(pid) ==
  /\ timers[pid] > 0
  /\ timers' = [timers EXCEPT ![pid] = @ - 1]
  /\ Send(pid, "SIGTERM")
  /\ UNCHANGED <<launch, process, announced, status, kills, timedOut, exited>>

DeletesLog == timedOut /\ ~config.preserveLogs

Cleared == [p \in Pids |-> 0]

\* The exit event: kill timers are cleared, the log file may be deleted.
ExitHandled ==
  /\ process["child"] = "dead" /\ ~exited
  /\ exited' = TRUE
  /\ timers' = Cleared
  /\ log' \in IF DeletesLog THEN {"deleted", log} ELSE {log}
  /\ UNCHANGED <<config, stage, stream, os, kills, timedOut>>

\* The worker has not taken its input: proc.kill().
StdinFails ==
  /\ stage = "launched" /\ announced = "no"
  /\ Send("child", "SIGTERM")
  /\ UNCHANGED <<launch, process, announced, status, server>>

\* The end of stderr, when no process has it open.
StderrEnds ==
  /\ stage = "launched" /\ stream = "open"
  /\ process["child"] = "dead" /\ ~Running("worker")
  /\ EndStream
  /\ UNCHANGED <<config, stage, log, os, server>>

Launching ==
  Exists \/ CreateLog \/ CreateLogFails \/ ResolvePython \/ Stat \/ Spawn \/ Abort

Processes ==
  Su \/ Writes \/ Forward \/ Quit \/ SuEnds \/ \E p \in Pids : Obey(p)

Server ==
  \/ Announced \/ IdleTimeout \/ Shutdown \/ ExitHandled \/ StdinFails \/ StderrEnds
  \/ \E p \in Pids : KillTimer(p)

Next == Launching \/ Processes \/ Server

Spec == Init /\ [][Next]_vars

\* SIGTERM ends a process, which SIGINT need not; su outlives nobody.
Terminated(p) == "SIGTERM" \in signals[p] /\ Obey(p)

(***************************************************************************)
(* app-worker.ts:147, of logStream: "it is the responsibility of the       *)
(* AppWorker to close it, either on failure in the constructor or (if      *)
(* construction succeeds) when the worker process exits."  Here the former.*)
(***************************************************************************)
StreamEnded == stage = "failed" => stream # "open"

\* No launch leaves the log open if the app is in R and need not be refused:
\* the try block of createAppWorker begins where that is known.
ShinyStreamEnded == ~config.python /\ ~Refuses => StreamEnded

(***************************************************************************)
(* No timer of kill() is left when the exit of the process is known: its   *)
(* pid may then be that of another one.                                    *)
(***************************************************************************)
NoTimerOutlives == exited => \A p \in Pids : timers[p] = 0

\* What makes these inductive: what there is at which stage, and what is known
\* of the calls of kill().
Stages ==
  /\ stage \in {"exists", "log"} => stream = "none"
  /\ stage = "python" => config.python
  /\ stage # "launched" => process["child"] = "none" /\ ~exited
  /\ stage # "launched" => kills["idle"] = 0 /\ kills["force"] = 0
  /\ timedOut => kills["idle"] > 0
  /\ \A p \in Pids : timers[p] <= kills["idle"]

\* The invariant of a launch and of the timers of kill().
Inv ==
  /\ TypeOK
  /\ ShinyStreamEnded
  /\ NoTimerOutlives
  /\ Stages

(***************************************************************************)
(* config/shiny-server-rules.config:235, of preserve_logs: "log files from *)
(* Shiny processes that exited successfully (exit status 0) will be        *)
(* deleted".  Those of other processes are not.                            *)
(***************************************************************************)
DeletedWasSuccessful == log = "deleted" => status = "zero"

=============================================================================

---------------------------- MODULE WorkerStart ----------------------------
(***************************************************************************)
(* One worker from the request that needs it to its end: the port it is    *)
(* given, the process (WorkerProcess), the attempts to connect to it, the  *)
(* promise that the requests wait for, and the entry whose idle timer ends *)
(* the process.                                                            *)
(*                                                                         *)
(*   lib/scheduler/scheduler.js      spawnWorker, connectEndpoint_p        *)
(*   lib/transport/tcp.js            alloc_p, connect_p                    *)
(*   lib/scheduler/worker-entry.js   the entry, of one kind of client      *)
(*                                                                         *)
(* alloc_p closes the listener that has found the port before the worker   *)
(* opens its own: some other process may take the port in between, and a   *)
(* connection to it says nothing about the worker.                         *)
(***************************************************************************)
EXTENDS WorkerProcess

CONSTANTS
  MaxAttempts,  \* intervals of connectEndpoint_p within the init timeout
  MaxVisits     \* bound: clients that come after the first

\* The last: no idle timer goes off that the bound would hide.
ASSUME WorkerStartAssumption ==
  /\ MaxAttempts \in Nat /\ MaxVisits \in Nat
  /\ MaxKills["idle"] > MaxVisits + 1

VARIABLES
  port,      \* "none", or who listens on it: "nobody", "worker", "other"
  handle,    \* the promise of spawnWorker
  watching,  \* the listener for idletimeout is there
  connect,   \* the promise of connectEndpoint_p
  elapsed,   \* in intervals
  accepted,  \* attempts that have been accepted and not heard of
  listed,    \* the entry is in $workers
  closed,    \* and has been closed
  clients,   \* that have acquired it
  visits,
  idleTimer, \* it is running
  lost       \* it has fired when nobody listened, and has not run since

starting == <<port, handle, watching, connect, elapsed, accepted>>
entryVars == <<listed, closed, clients, visits, idleTimer, lost>>
allVars == <<vars, starting, entryVars>>

StartInit ==
  /\ Init
  /\ port = "none"
  /\ handle = "pending"
  /\ watching = FALSE
  /\ connect = "none" /\ elapsed = 0 /\ accepted = 0
  /\ listed = TRUE /\ closed = FALSE
  /\ clients = 1 /\ visits = 0
  /\ idleTimer = FALSE /\ lost = FALSE

\* Mutant of Settle: rejecting leaves the entry in the table.
SettleListed(outcome) ==
  /\ handle' = IF handle = "pending" THEN outcome ELSE handle
  /\ UNCHANGED listed

\* defer.resolve and doReject: nothing happens once the promise is settled.
Settle(outcome) ==
  /\ handle' = IF handle = "pending" THEN outcome ELSE handle
  /\ listed' = (listed /\ (handle # "pending" \/ outcome = "fulfilled"))

\* WorkerEntry.startIdleTimer, for an app whose app_idle_timeout is positive.
StartIdleTimer(count) ==
  /\ idleTimer' = (idleTimer \/ count = 0)
  /\ lost' = (lost /\ count # 0)

(***************************************************************************)
(* spawnWorker and the transport.                                          *)
(***************************************************************************)
Alloc ==
  /\ port = "none" /\ stage = "exists"
  /\ port' = "nobody"
  /\ UNCHANGED <<vars, handle, watching, connect, elapsed, accepted, entryVars>>

\* No port after six tries, no run_as, or no such user: only doReject runs.
AllocFails ==
  /\ port = "none" /\ stage = "exists"
  /\ stage' = "failed"
  /\ Settle("rejected")
  /\ UNCHANGED <<config, stream, log, os, server>>
  /\ UNCHANGED <<port, watching, connect, elapsed, accepted,
                 closed, clients, visits, idleTimer, lost>>

\* launchWorker_p: a step that does not end it.
LaunchStep ==
  /\ port # "none"
  /\ Launching
  /\ stage' \notin {"launched", "failed"}
  /\ UNCHANGED <<starting, entryVars>>

\* It rejects, and so does exitPromise, whose handler closes the entry.
LaunchFails ==
  /\ port # "none"
  /\ Launching
  /\ stage' = "failed"
  /\ Settle("rejected")
  /\ closed' = TRUE
  /\ UNCHANGED <<port, watching, connect, elapsed, accepted, clients, visits, idleTimer, lost>>

\* An attempt to connect: it is refused at once if nobody listens, and may
\* never be accepted if somebody does.
Attempt == accepted' \in IF port \in {"worker", "other"} THEN {accepted, accepted + 1} ELSE {accepted}

\* It resolves: the idletimeout listener, and the first attempt to connect.
LaunchSucceeds ==
  /\ Spawn
  /\ watching' = TRUE
  /\ connect' = "pending"
  /\ Attempt
  /\ UNCHANGED <<port, handle, elapsed, entryVars>>

(***************************************************************************)
(* connectEndpoint_p                                                       *)
(***************************************************************************)

\* Mutant of Retry: another attempt only when the last one has been answered.
RetryAnswered ==
  /\ connect = "pending"
  /\ port = "nobody"
  /\ elapsed' = elapsed + 1
  /\ IF elapsed' > MaxAttempts
     THEN connect' = "rejected" /\ Settle("rejected") /\ UNCHANGED accepted
     ELSE IF exited
     THEN connect' = "rejected" /\ Settle("rejected") /\ UNCHANGED accepted
     ELSE Attempt /\ UNCHANGED <<connect, handle, listed>>
  /\ UNCHANGED <<vars, port, watching, closed, clients, visits, idleTimer, lost>>

\* attemptToConnect, called by its timer.
Retry ==
  /\ connect = "pending"
  /\ elapsed' = elapsed + 1
  /\ IF elapsed' > MaxAttempts \/ exited
     THEN connect' = "rejected" /\ Settle("rejected") /\ UNCHANGED accepted
     ELSE Attempt /\ UNCHANGED <<connect, handle, listed>>
  /\ UNCHANGED <<vars, port, watching, closed, clients, visits, idleTimer, lost>>

\* connect_p resolves to true.
Connected ==
  /\ accepted > 0
  /\ accepted' = accepted - 1
  /\ IF connect = "pending"
     THEN /\ connect' = "resolved"
          /\ Settle("fulfilled")
          /\ StartIdleTimer(clients)
     ELSE UNCHANGED <<connect, handle, listed, idleTimer, lost>>
  /\ UNCHANGED <<vars, port, watching, elapsed, closed, clients, visits>>

(***************************************************************************)
(* The port, and the worker's process.                                     *)
(***************************************************************************)
Listens ==
  /\ Running(App)
  /\ port = "nobody"
  /\ port' = "worker"
  /\ UNCHANGED <<vars, handle, watching, connect, elapsed, accepted, entryVars>>

\* Another process takes the port, or gives it back.
Taken ==
  /\ port' = CASE port = "nobody" -> "other" [] port = "other" -> "nobody"
               [] OTHER -> port
  /\ port \in {"nobody", "other"}
  /\ UNCHANGED <<vars, handle, watching, connect, elapsed, accepted, entryVars>>

ProcessStep ==
  /\ Processes
  /\ port' = IF port = "worker" /\ process'[App] = "dead" THEN "nobody" ELSE port
  /\ UNCHANGED <<handle, watching, connect, elapsed, accepted, entryVars>>

\* Of the server's own steps those that only concern the process.
SignalStep ==
  /\ \/ Announced \/ StdinFails \/ StderrEnds
     \/ \E p \in Pids : KillTimer(p)
  /\ UNCHANGED <<starting, entryVars>>

\* Scheduler.shutdown: the workers of the table whose promise is fulfilled.
ShutDown ==
  /\ listed /\ handle = "fulfilled"
  /\ Shutdown
  /\ UNCHANGED <<starting, entryVars>>

\* Mutant of Exit: the exit is not a reason to reject the promise.
ExitUnnoticed ==
  /\ ExitHandled
  /\ closed' = (closed \/ listed)
  /\ listed' = FALSE
  /\ UNCHANGED <<starting, clients, visits, idleTimer, lost>>

\* The handlers of exitPromise.
Exit ==
  /\ ExitHandled
  /\ closed' = (closed \/ listed)
  /\ listed' = FALSE
  /\ handle' = IF handle = "pending" THEN "rejected" ELSE handle
  /\ UNCHANGED <<port, watching, connect, elapsed, accepted, clients, visits, idleTimer, lost>>

(***************************************************************************)
(* The entry.                                                              *)
(***************************************************************************)

\* Mutant of ClientComes: acquire leaves the idle timer running.
ClientComesKeepsTimer ==
  /\ listed
  /\ visits < MaxVisits
  /\ visits' = visits + 1
  /\ clients' = clients + 1
  /\ UNCHANGED <<vars, starting, listed, closed, idleTimer, lost>>

\* WorkerEntry.acquire stops the idle timer.
ClientComes ==
  /\ listed
  /\ visits < MaxVisits
  /\ visits' = visits + 1
  /\ clients' = clients + 1
  /\ idleTimer' = FALSE
  /\ UNCHANGED <<vars, starting, listed, closed, lost>>

\* Any time: the browser goes away, the response is finished, or there is no
\* worker for it.
ClientLeaves ==
  /\ clients > 0
  /\ IF closed THEN clients' = clients - 1 /\ UNCHANGED <<idleTimer, lost>>
     ELSE clients' = clients - 1 /\ StartIdleTimer(clients')
  /\ UNCHANGED <<vars, starting, listed, closed, visits>>

\* The idle timer, which nobody may be listening for.
IdleTimerFires ==
  /\ idleTimer
  /\ idleTimer' = FALSE
  /\ IF watching THEN IdleTimeout /\ UNCHANGED lost
     ELSE lost' = TRUE /\ UNCHANGED vars
  /\ UNCHANGED <<starting, listed, closed, clients, visits>>

Spawning == Alloc \/ AllocFails \/ LaunchStep \/ LaunchFails \/ LaunchSucceeds

StartNext ==
  \/ Spawning \/ Retry \/ Connected
  \/ Listens \/ Taken \/ ProcessStep \/ SignalStep \/ ShutDown \/ Exit
  \/ ClientComes \/ ClientLeaves \/ IdleTimerFires

(***************************************************************************)
(* Timers fire and events are handled, and the steps of a launch end one   *)
(* way or the other.  SIGTERM ends a process; a client that is told of a   *)
(* failure leaves.  Nothing makes a worker listen or accept.               *)
(***************************************************************************)
StartFairness ==
  /\ WF_allVars(Spawning)
  /\ WF_allVars(Retry)
  /\ WF_allVars(IdleTimerFires)
  /\ WF_allVars(handle = "rejected" /\ ClientLeaves)
  /\ WF_allVars(Exit)
  /\ \A p \in Pids : WF_allVars(Terminated(p) /\ ProcessStep)
  /\ \A p \in Pids : WF_allVars(KillTimer(p) /\ SignalStep)
  /\ WF_allVars("SIGTERM" \in signals["child"] /\ Forward /\ ProcessStep)
  /\ WF_allVars(SuEnds /\ ProcessStep)
  /\ WF_allVars(StderrEnds /\ SignalStep)

StartSpec == StartInit /\ [][StartNext]_allVars

FairStart == StartSpec /\ StartFairness

StartTypeOK ==
  /\ port \in {"none", "nobody", "worker", "other"}
  /\ handle \in {"pending", "fulfilled", "rejected"}
  /\ connect \in {"none", "pending", "resolved", "rejected"}
  /\ elapsed \in 0 .. MaxAttempts + 1
  /\ accepted \in 0 .. MaxAttempts + 1
  /\ clients \in 0 .. MaxVisits + 1
  /\ visits \in 0 .. MaxVisits
  /\ watching \in BOOLEAN /\ listed \in BOOLEAN /\ closed \in BOOLEAN
  /\ idleTimer \in BOOLEAN /\ lost \in BOOLEAN

\* A promise is settled, an entry taken from the table and a timer run only
\* when the process, the connection and the clients have got so far.
Settled ==
  /\ handle = "pending" => listed
  /\ handle = "rejected" => ~listed
  /\ handle = "fulfilled" => connect = "resolved"
  /\ exited => ~listed /\ handle # "pending"
  /\ stage = "failed" => handle = "rejected"
  /\ stage \notin {"launched", "failed"} => handle = "pending"
  /\ watching <=> stage = "launched"
  /\ connect = "none" <=> ~watching
  /\ idleTimer /\ ~closed => clients = 0
  /\ closed => exited \/ stage = "failed"

\* There are no more attempts than intervals, nor clients than have come.
Counted ==
  /\ connect = "pending" => elapsed <= MaxAttempts
  /\ accepted <= elapsed + 1
  /\ watching \/ elapsed + accepted = 0
  /\ connect # "pending" => accepted <= elapsed
  /\ clients <= visits + 1

\* The invariant of the process and of what the entry knows of it.
StartInv == Inv /\ StartTypeOK /\ Settled /\ Counted

(***************************************************************************)
(* What SchedulerRegistry takes for granted of a worker's start and end.   *)
(***************************************************************************)
Life ==
  INSTANCE WorkerLife WITH
    promise <- handle,
    proc <- IF exited THEN "ended" ELSE IF watching THEN "running" ELSE "none",
    listed <- listed

ImplementsWorkerLife == Life!Spec

(***************************************************************************)
(* Whoever waits for a worker is told, though the worker may neither       *)
(* listen nor end, may have ended between two attempts, or may have        *)
(* accepted a connection that the server never hears of.                   *)
(***************************************************************************)
PromiseIsSettled == handle = "pending" ~> handle # "pending"

(***************************************************************************)
(* A process ends if kill() has been called for it, once or more often,    *)
(* before or after its pid was known, though it ignores SIGINT and though  *)
(* there may be su between it and the server.  So does one that took too   *)
(* long to be connected to, unless its idle timer had fired before anybody *)
(* listened and no client has come since.  Its log is closed.              *)
(***************************************************************************)
ProcessEnds ==
  /\ (kills["idle"] + kills["force"] > 0) ~> exited
  /\ (watching /\ handle = "rejected") ~> (exited \/ lost)
  /\ (exited /\ stream = "open") ~> (stream = "ended")

\* Somebody uses the process, from its launch until its end has been heard of.
InUse == watching /\ ~exited => clients > 0

(***************************************************************************)
(* The log of a worker that has always been in use is kept, and so it is   *)
(* if preserve_logs is set: in whatever order clients come and go, timers  *)
(* run on from before the launch, and the process crashes, is shut down or *)
(* is ended.  (The log of one that nobody used for a while may be deleted  *)
(* though it has crashed: the idle timeout may come between the crash and  *)
(* the news of it.)                                                        *)
(***************************************************************************)
LogKept == [](config.preserveLogs \/ InUse) => [](log # "deleted")

=============================================================================

-------------------------- MODULE SchedulerRegistry --------------------------
(***************************************************************************)
(* All the apps of a server: lib/scheduler/scheduler-registry.js, which    *)
(* keeps one scheduler per app, lib/scheduler/scheduler.js and             *)
(* simple-scheduler.js, which keep a table of workers each, the worker     *)
(* processes, and the shutdown of the server in lib/main.js.  Composes the *)
(* WorkerEntry of every worker; of its clients only the HTTP requests are  *)
(* told apart from none (the other kinds, and maxRequests, are the         *)
(* business of WorkerSessions).                                            *)
(*                                                                         *)
(* Schedulers and workers are objects the server allocates, so each        *)
(* element of Schedulers and Workers is used at most once.                 *)
(***************************************************************************)
EXTENDS WorkerEntry, FiniteSets

CONSTANTS
  Apps,        \* the keys of the app specs (AppSpec.getKey)
  Schedulers,
  Workers,
  MaxClients,  \* bound on the requests one worker serves at a time
  None

ASSUME RegistryAssumption ==
  /\ None \notin Schedulers \cup Apps
  /\ MaxClients \in Nat \ {0}

VARIABLES
  schedulers,  \* SchedulerRegistry.$schedulers
  app,         \* Scheduler.$appSpec, as its key; None when not yet allocated
  workers,     \* Scheduler.$workers
  owner,       \* the scheduler that spawned the worker
  promise,     \* of the worker's handle, or why it was rejected
  proc,        \* the worker's operating system process
  entry,       \* the WorkerEntry of the worker
  server       \* the server process itself

vars == <<schedulers, app, workers, owner, promise, proc, entry, server>>
workerVars == <<promise, proc, entry>>
tableVars == <<schedulers, app, workers, owner>>

Rejections == {"launch failed", "took too long", "exited during init"}

Rejected(w) == promise[w] \in Rejections

-----------------------------------------------------------------------------
Init ==
  /\ schedulers = [a \in Apps |-> None]
  /\ app = [s \in Schedulers |-> None]
  /\ workers = [s \in Schedulers |-> {}]
  /\ owner = [w \in Workers |-> None]
  /\ promise = [w \in Workers |-> "none"]
  /\ proc = [w \in Workers |-> "none"]
  /\ entry = [w \in Workers |-> NewEntry]
  /\ server = "up"

Serving == server # "exited"

\* getWorker: the scheduler of app a, created unless the registry has one.
GetScheduler(a, s) ==
  \/ /\ schedulers[a] = s
     /\ UNCHANGED <<schedulers, app>>
  \/ /\ schedulers[a] = None
     /\ app[s] = None
     /\ schedulers' = [schedulers EXCEPT ![a] = s]
     /\ app' = [app EXCEPT ![s] = a]

\* acquireWorker: any worker of the table, and a new one if there is none.
\* The caller acquires it at once.
AcquireWorker(s, w) ==
  /\ \/ /\ w \in workers[s]
        /\ UNCHANGED <<workers, owner, promise>>
     \/ /\ workers[s] = {}
        /\ owner[w] = None
        /\ workers' = [workers EXCEPT ![s] = {w}]
        /\ owner' = [owner EXCEPT ![w] = s]
        /\ promise' = [promise EXCEPT ![w] = "pending"]
  /\ Clients(entry[w]) < MaxClients
  /\ entry' = [entry EXCEPT ![w] = Acquire(@, "http")]

GetWorker(a, s, w) ==
  /\ Serving
  /\ GetScheduler(a, s)
  /\ AcquireWorker(s, w)
  /\ UNCHANGED <<proc, server>>

ClientLeaves(w) ==
  /\ Serving
  /\ entry[w].conns["http"] > 0
  /\ entry' = [entry EXCEPT ![w] = Release(@, "http")]
  /\ UNCHANGED <<tableVars, promise, proc, server>>

-----------------------------------------------------------------------------
\* `delete self.$workers[workerId]`, by doReject and when the process exits.
Remove(w) == workers' = [workers EXCEPT ![owner[w]] = @ \ {w}]

\* The exit handler of spawnWorker announces a scheduler without workers by
\* the key of its app, and the registry deletes whatever it has under it.
EmitIfVacant(s) ==
  schedulers' = IF workers'[s] = {}
                THEN [schedulers EXCEPT ![app[s]] = None]
                ELSE schedulers

Launched(w) ==
  /\ Serving
  /\ promise[w] = "pending"
  /\ proc[w] = "none"
  /\ proc' = [proc EXCEPT ![w] = "running"]
  /\ UNCHANGED <<tableVars, promise, entry, server>>

\* No endpoint, or no such user: only doReject runs.
AllocFails(w) ==
  /\ Serving
  /\ promise[w] = "pending"
  /\ proc[w] = "none"
  /\ promise' = [promise EXCEPT ![w] = "launch failed"]
  /\ Remove(w)
  /\ UNCHANGED <<schedulers, app, owner, proc, entry, server>>

\* Mutant of LaunchFails: doReject does not run.
LaunchFailsKeepsEntry(w) ==
  /\ Serving
  /\ promise[w] = "pending"
  /\ proc[w] = "none"
  /\ promise' = [promise EXCEPT ![w] = "launch failed"]
  /\ UNCHANGED <<tableVars, proc, entry, server>>

\* launchWorker_p rejects, and with it exitPromise: its handler runs too,
\* before doReject or after it.
LaunchFails(w) ==
  /\ Serving
  /\ promise[w] = "pending"
  /\ proc[w] = "none"
  /\ promise' = [promise EXCEPT ![w] = "launch failed"]
  /\ Remove(w)
  /\ EmitIfVacant(owner[w])
  /\ \E e \in {entry[w], Close(entry[w])} : entry' = [entry EXCEPT ![w] = e]
  /\ UNCHANGED <<app, owner, proc, server>>

BecomesReady(w) ==
  /\ Serving
  /\ promise[w] = "pending"
  /\ proc[w] \in {"running", "signalled", "dead"}
  /\ promise' = [promise EXCEPT ![w] = "fulfilled"]
  /\ entry' = [entry EXCEPT ![w] = StartIdleTimer(@)]
  /\ UNCHANGED <<tableVars, proc, server>>

\* Mutant of IdleTimerFires: the scheduler is dropped at the signal.
IdleTimerDropsScheduler(w) ==
  /\ Serving
  /\ entry[w].idleTimer
  /\ entry' = [entry EXCEPT ![w] = IdleTimerFired(@)]
  /\ proc' = [proc EXCEPT ![w] = IF @ = "running" THEN "signalled" ELSE @]
  /\ schedulers' = [schedulers EXCEPT ![app[owner[w]]] = None]
  /\ UNCHANGED <<app, workers, owner, promise, server>>

\* The app took too long to respond; the process is left alone.
InitTimesOut(w) ==
  /\ Serving
  /\ promise[w] = "pending"
  /\ proc[w] \in {"running", "signalled", "dead"}
  /\ promise' = [promise EXCEPT ![w] = "took too long"]
  /\ Remove(w)
  /\ UNCHANGED <<schedulers, app, owner, proc, entry, server>>

IdleTimerFires(w) ==
  /\ Serving
  /\ entry[w].idleTimer
  /\ entry' = [entry EXCEPT ![w] = IdleTimerFired(@)]
  /\ proc' = [proc EXCEPT ![w] = IF @ = "running" THEN "signalled" ELSE @]
  /\ UNCHANGED <<tableVars, promise, server>>

\* The operating system's side: possible even when the server is gone.
ProcessExits(w) ==
  /\ proc[w] \in {"running", "signalled"}
  /\ proc' = [proc EXCEPT ![w] = "dead"]
  /\ UNCHANGED <<tableVars, promise, entry, server>>

ExitHandled(w) ==
  /\ Serving
  /\ proc[w] = "dead"
  /\ proc' = [proc EXCEPT ![w] = "reaped"]
  /\ entry' = [entry EXCEPT ![w] = IF w \in workers[owner[w]] THEN Close(@)
                                   ELSE @]
  /\ Remove(w)
  /\ EmitIfVacant(owner[w])
  /\ promise' = [promise EXCEPT ![w] = IF @ = "pending"
                                       THEN "exited during init" ELSE @]
  /\ UNCHANGED <<app, owner, server>>

-----------------------------------------------------------------------------
\* SchedulerRegistry.shutdown and Scheduler.shutdown: the workers of the
\* registered schedulers whose promise is fulfilled.
Reachable(w) == \E a \in Apps : /\ schedulers[a] # None
                                /\ w \in workers[schedulers[a]]

\* Mutant of KillWorkers: workers with clients are left alone.
KillUnusedWorkers ==
  proc' = [w \in Workers |->
             IF /\ proc[w] = "running"
                /\ promise[w] = "fulfilled"
                /\ Reachable(w)
                /\ Clients(entry[w]) = 0
             THEN "signalled"
             ELSE proc[w]]

KillWorkers ==
  proc' = [w \in Workers |->
             IF /\ proc[w] = "running"
                /\ promise[w] = "fulfilled"
                /\ Reachable(w)
             THEN "signalled"
             ELSE proc[w]]

\* gracefulShutdown; its timer ends the server 500 ms later.
GracefulShutdown ==
  /\ server = "up"
  /\ server' = "draining"
  /\ KillWorkers
  /\ UNCHANGED <<tableVars, promise, entry>>

DrainTimerFires ==
  /\ server = "draining"
  /\ server' = "exited"
  /\ UNCHANGED <<tableVars, workerVars>>

\* lastDitchShutdown: the process exits for any other reason.
LastDitchShutdown ==
  /\ server = "up"
  /\ server' = "exited"
  /\ KillWorkers
  /\ UNCHANGED <<tableVars, promise, entry>>

-----------------------------------------------------------------------------
WorkerStep(w) ==
  \/ ClientLeaves(w)
  \/ Launched(w)
  \/ AllocFails(w)
  \/ LaunchFails(w)
  \/ BecomesReady(w)
  \/ InitTimesOut(w)
  \/ IdleTimerFires(w)
  \/ ProcessExits(w)
  \/ ExitHandled(w)

Next ==
  \/ \E a \in Apps, s \in Schedulers, w \in Workers : GetWorker(a, s, w)
  \/ \E w \in Workers : WorkerStep(w)
  \/ GracefulShutdown
  \/ DrainTimerFires
  \/ LastDitchShutdown

Spec == Init /\ [][Next]_vars

-----------------------------------------------------------------------------
(* Properties                                                              *)

TypeOK ==
  /\ schedulers \in [Apps -> Schedulers \cup {None}]
  /\ app \in [Schedulers -> Apps \cup {None}]
  /\ workers \in [Schedulers -> SUBSET Workers]
  /\ owner \in [Workers -> Schedulers \cup {None}]
  /\ promise \in [Workers -> {"none", "pending", "fulfilled"} \cup Rejections]
  /\ proc \in [Workers -> {"none", "running", "signalled", "dead", "reaped"}]
  /\ entry \in [Workers -> Entries]
  /\ server \in {"up", "draining", "exited"}

\* A worker is in the table of the scheduler that spawned it, and of no
\* other, exactly as long as its start has neither failed nor its exit been
\* handled (NEWS, 1.5.16: a failed start must not leave "a broken process
\* being treated as a normal process").
TableHoldsLiveWorkers ==
  \A s \in Schedulers, w \in Workers :
    w \in workers[s] <=> /\ owner[w] = s
                         /\ promise[w] \in {"pending", "fulfilled"}
                         /\ proc[w] # "reaped"

\* SimpleScheduler: one worker per scheduler.
AtMostOneWorker ==
  \A s \in Schedulers : \A v, w \in workers[s] : v = w

\* A request is served by a worker spawned for its own app.
Isolation ==
  \A a \in Apps : schedulers[a] # None => app[schedulers[a]] = a

NoStartTimedOut == \A w \in Workers : promise[w] # "took too long"

\* As long as no start has timed out, every worker in use is one the registry
\* leads to: requests for its app share it, and a shutdown reaches it.
WorkersReachable ==
  NoStartTimedOut
    => \A s \in Schedulers : \A w \in workers[s] : Reachable(w)

\* How the owner, the handle and the process of a worker hang together; with
\* the invariants above it is inductive.
LifeCycle ==
  \A w \in Workers :
    /\ owner[w] = None <=> promise[w] = "none"
    /\ owner[w] # None => app[owner[w]] # None
    /\ promise[w] \in {"none", "launch failed"} => proc[w] = "none"
    /\ promise[w] = "exited during init" => proc[w] = "reaped"

IInv ==
  /\ TypeOK
  /\ TableHoldsLiveWorkers
  /\ AtMostOneWorker
  /\ Isolation
  /\ WorkersReachable
  /\ LifeCycle

\* scheduler.js, on vacantSched: "There aren't any workers left, kill this
\* scheduler."
OnlyVacantSchedulersDropped ==
  [][\A a \in Apps :
       (schedulers[a] # None /\ schedulers'[a] = None)
         => workers'[schedulers[a]] = {}]_vars

\* test/simple-scheduler.js: "should not assign traffic to a kill()ed worker
\* before the process exits".
NoTrafficToKilledWorkers ==
  [][\A w \in Workers :
       entry'[w].conns["http"] > entry[w].conns["http"]
         => proc[w] # "signalled"]_vars

\* main.js: "Clean up worker processes on shutdown".
NoWorkerOutlivesServer ==
  server = "exited" => \A w \in Workers : proc[w] # "running"

\* What shutdown does guarantee, whichever way the server goes down: if no
\* start has ever timed out, no ready worker misses the signal.
ReadyWorkersSignalled ==
  [][(/\ server = "up"
      /\ server' # "up"
      /\ NoStartTimedOut)
       => \A w \in Workers : promise[w] = "fulfilled" => proc'[w] # "running"]_vars

=============================================================================

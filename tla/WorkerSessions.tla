--------------------------- MODULE WorkerSessions ---------------------------
(***************************************************************************)
(* One worker process of an app, from the request that spawns it to the    *)
(* moment its exit has been handled, with the HTTP requests and SockJS     *)
(* connections that use it.  Composes                                      *)
(*                                                                         *)
(*   lib/scheduler/worker-entry.js      (module WorkerEntry)               *)
(*   lib/scheduler/simple-scheduler.js  acquireWorker                      *)
(*   lib/scheduler/scheduler.js         spawnWorker, for one worker        *)
(*   lib/proxy/http.js                  httpListener                       *)
(*   lib/proxy/sockjs.js                connectToApp                       *)
(*                                                                         *)
(* Every action is one callback of the Node event loop, or something the   *)
(* outside world does (a browser, the worker process, the clock).          *)
(***************************************************************************)
EXTENDS WorkerEntry, FiniteSets

CONSTANTS
  Requests,     \* HTTP requests for the app, each used once
  Conns,        \* SockJS connections (multiplex channels), each used once
  MaxRequests,  \* scheduler.simple.maxRequests, 0 when there is no limit
  UrlKinds      \* the kinds of URL the requests may ask for

\* Under the app's prefix: "/", "/?w=<worker>", an R or Quarto Markdown
\* document, and everything else (scripts, style sheets, uploads...).
AllUrlKinds == {"root", "rootForWorker", "document", "asset"}

ASSUME SessionsAssumption ==
  /\ IsFiniteSet(Requests)
  /\ IsFiniteSet(Conns)
  /\ MaxRequests \in Nat
  /\ UrlKinds \subseteq AllUrlKinds

VARIABLES
  entry,    \* the WorkerEntry
  inTable,  \* the entry is in the scheduler's $workers
  promise,  \* of the AppWorkerHandle; "none" until a request spawns the worker
  proc,     \* the operating system process
  req,      \* how far each HTTP request has got
  pages,    \* the requests for which isAppPage holds
  conn      \* how far each SockJS connection has got

vars == <<entry, inTable, promise, proc, req, pages, conn>>

OpenRequests == {r \in Requests : req[r] \in {"open", "succeeded"}}
OpenPages == OpenRequests \cap pages
OpenConns == {c \in Conns : conn[c] = "open"}
RefusedRequests == {r \in Requests : req[r] = "refused"}
RefusedConns == {c \in Conns : conn[c] = "refused"}

\* The places kept for sessions to come: one for each app page being served,
\* one for each page served in the last 45 s.
PlacesKept == Cardinality(OpenPages) + Len(entry.releaseTimers)

-----------------------------------------------------------------------------
Init ==
  /\ entry = NewEntry
  /\ inTable = FALSE
  /\ promise = "none"
  /\ proc = "none"
  /\ req = [r \in Requests |-> "new"]
  /\ pages = {}
  /\ conn = [c \in Conns |-> "new"]

\* acquireWorker hands out the first worker of the table, and spawns one
\* when the table is empty.  Once this worker has left the table, requests
\* go to another one, which this module does not follow.
Available == promise = "none" \/ inTable

\* Mutant of AdmitsRoot: one session too many.
AdmitsRootOffByOne(e) == MaxRequests = 0 \/ SessionCount(e) <= MaxRequests

\* acquireWorker, for the URL "/" ...
AdmitsRoot(e) == MaxRequests = 0 \/ SessionCount(e) < MaxRequests

\* Mutant of AdmitsSock: the reservations count against their owners.
AdmitsSockUnreserved(e) == AdmitsRoot(e)

\* ... and for a SockJS connection, which may use up a reservation.
AdmitsSock(e) ==
  \/ AdmitsRoot(e)
  \/ e.conns["pending"] > 0 /\ SessionCount(e) < MaxRequests + 1

AdmitsHttp(e, kind) ==
  kind \in {"root", "rootForWorker"} => AdmitsRoot(e)

IsAppPage(kind) == kind \in {"root", "document"}

\* getWorker: the worker is in the table afterwards, spawned if need be.
GetWorker ==
  /\ inTable' = TRUE
  /\ promise' = IF promise = "none" THEN "pending" ELSE promise

-----------------------------------------------------------------------------
(* httpListener                                                            *)

HttpRequest(r, kind) ==
  /\ req[r] = "new"
  /\ Available
  /\ AdmitsHttp(entry, kind)
  /\ GetWorker
  /\ req' = [req EXCEPT ![r] = "open"]
  /\ IF IsAppPage(kind)
     THEN /\ entry' = Acquire(Acquire(entry, "http"), "pending")
          /\ pages' = pages \cup {r}
     ELSE /\ entry' = Acquire(entry, "http")
          /\ UNCHANGED pages
  /\ UNCHANGED <<proc, conn>>

\* errorAppOverloaded: status 503.
HttpRefused(r, kind) ==
  /\ req[r] = "new"
  /\ Available
  /\ ~AdmitsHttp(entry, kind)
  /\ req' = [req EXCEPT ![r] = "refused"]
  /\ UNCHANGED <<entry, inTable, promise, proc, pages, conn>>

\* proxyRes with a 2xx status sets res.proxySuccess.
ProxySuccess(r) ==
  /\ req[r] = "open"
  /\ promise = "fulfilled"
  /\ req' = [req EXCEPT ![r] = "succeeded"]
  /\ UNCHANGED <<entry, inTable, promise, proc, pages, conn>>

\* Mutant of ResponseEnds: cleanup runs for "finish" and again for "close".
ResponseEndsTwice(r) ==
  /\ req[r] \in {"open", "succeeded"}
  /\ LET released == Release(Release(entry, "http"), "http")
     IN entry' = IF r \notin pages THEN released
                 ELSE IF req[r] = "succeeded"
                      THEN PushPendingReleaseTimer(released)
                      ELSE Release(released, "pending")
  /\ req' = [req EXCEPT ![r] = "done"]
  /\ UNCHANGED <<inTable, promise, proc, pages, conn>>

\* cleanup, on the first of the response's "finish" and "close" events; the
\* browser may go away at any moment, even before the worker is ready.
ResponseEnds(r) ==
  /\ req[r] \in {"open", "succeeded"}
  /\ LET released == Release(entry, "http")
     IN entry' = IF r \notin pages THEN released
                 ELSE IF req[r] = "succeeded"
                      THEN PushPendingReleaseTimer(released)
                      ELSE Release(released, "pending")
  /\ req' = [req EXCEPT ![r] = "done"]
  /\ UNCHANGED <<inTable, promise, proc, pages, conn>>

-----------------------------------------------------------------------------
(* connectToApp                                                            *)

\* A reservation, if there is one, is turned into a session.
SockConnects(c) ==
  /\ conn[c] = "new"
  /\ Available
  /\ AdmitsSock(entry)
  /\ GetWorker
  /\ entry' = Acquire(Release(ShiftPendingReleaseTimer(entry), "pending"),
                      "sock")
  /\ conn' = [conn EXCEPT ![c] = "open"]
  /\ UNCHANGED <<proc, req, pages>>

\* Closed with OUT_OF_CAPACITY.
SockRefused(c) ==
  /\ conn[c] = "new"
  /\ Available
  /\ ~AdmitsSock(entry)
  /\ conn' = [conn EXCEPT ![c] = "refused"]
  /\ UNCHANGED <<entry, inTable, promise, proc, req, pages>>

\* The connection's "close" event, whichever side closes it.
SockCloses(c) ==
  /\ conn[c] = "open"
  /\ entry' = Release(entry, "sock")
  /\ conn' = [conn EXCEPT ![c] = "closed"]
  /\ UNCHANGED <<inTable, promise, proc, req, pages>>

-----------------------------------------------------------------------------
(* spawnWorker                                                             *)

\* doReject: the entry leaves the table but is not closed.
Reject ==
  /\ inTable' = FALSE
  /\ promise' = "rejected"

\* The process is spawned, the "idletimeout" listener is attached and
\* connectEndpoint_p starts polling.
Launched ==
  /\ promise = "pending"
  /\ proc = "none"
  /\ proc' = "running"
  /\ UNCHANGED <<entry, inTable, promise, req, pages, conn>>

\* alloc_p, getpwnam or launchWorker_p fails.  In the last case the handler
\* on exitPromise runs too, and closes the entry if it still is in the
\* table; which of the two handlers comes first is up to the promise library.
LaunchFails ==
  /\ promise = "pending"
  /\ proc = "none"
  /\ Reject
  /\ entry' \in {entry, Close(entry)}
  /\ UNCHANGED <<proc, req, pages, conn>>

\* connectEndpoint_p resolves.
BecomesReady ==
  /\ promise = "pending"
  /\ proc \in {"running", "signalled", "dead"}
  /\ promise' = "fulfilled"
  /\ entry' = StartIdleTimer(entry)
  /\ UNCHANGED <<inTable, proc, req, pages, conn>>

\* connectEndpoint_p rejects after initTimeout.  Nothing kills the process.
InitTimesOut ==
  /\ promise = "pending"
  /\ proc \in {"running", "signalled", "dead"}
  /\ Reject
  /\ UNCHANGED <<entry, proc, req, pages, conn>>

\* The idle timeout.  The listener, once attached, interrupts the process;
\* it does not touch the table.
IdleTimerFires ==
  /\ entry.idleTimer
  /\ entry' = IdleTimerFired(entry)
  /\ proc' = IF proc = "running" THEN "signalled" ELSE proc
  /\ UNCHANGED <<inTable, promise, req, pages, conn>>

PendingReleaseTimerFires ==
  /\ \E t \in entry.armed :
       /\ Due(entry, t)
       /\ entry' = PendingReleaseTimerFired(entry, t)
  /\ UNCHANGED <<inTable, promise, proc, req, pages, conn>>

\* The process ends, by itself or because of a signal.
ProcessExits ==
  /\ proc \in {"running", "signalled"}
  /\ proc' = "dead"
  /\ UNCHANGED <<entry, inTable, promise, req, pages, conn>>

\* Node reports the exit: both handlers on exitPromise run.
ExitHandled ==
  /\ proc = "dead"
  /\ proc' = "reaped"
  /\ entry' = IF inTable THEN Close(entry) ELSE entry
  /\ inTable' = FALSE
  /\ promise' = IF promise = "pending" THEN "rejected" ELSE promise
  /\ UNCHANGED <<req, pages, conn>>

-----------------------------------------------------------------------------
RequestStep(r) ==
  \/ \E kind \in UrlKinds : HttpRequest(r, kind) \/ HttpRefused(r, kind)
  \/ ProxySuccess(r)
  \/ ResponseEnds(r)

ConnStep(c) == SockConnects(c) \/ SockRefused(c) \/ SockCloses(c)

WorkerStep ==
  \/ Launched
  \/ LaunchFails
  \/ BecomesReady
  \/ InitTimesOut
  \/ IdleTimerFires
  \/ PendingReleaseTimerFires
  \/ ProcessExits
  \/ ExitHandled

Next ==
  \/ \E r \in Requests : RequestStep(r)
  \/ \E c \in Conns : ConnStep(c)
  \/ WorkerStep

Spec == Init /\ [][Next]_vars

(***************************************************************************)
(* Fairness.  Node fires timers and delivers exit events.  A launch ends   *)
(* one way or the other and connectEndpoint_p gives up after initTimeout.  *)
(* An interrupted process ends: kill() follows SIGINT with SIGTERM after   *)
(* 20 s.  Responses end (http_keepalive and socket timeouts see to that)   *)
(* and people close their browsers.  A process that has not been signalled *)
(* need not end, and no request needs to arrive.                           *)
(***************************************************************************)
Fairness ==
  /\ WF_vars(Launched \/ LaunchFails)
  /\ WF_vars(BecomesReady \/ InitTimesOut)
  /\ WF_vars(IdleTimerFires)
  /\ WF_vars(PendingReleaseTimerFires)
  /\ WF_vars(proc = "signalled" /\ ProcessExits)
  /\ WF_vars(ExitHandled)
  /\ \A r \in Requests : WF_vars(ResponseEnds(r))
  /\ \A c \in Conns : WF_vars(SockCloses(c))

FairSpec == Spec /\ Fairness

-----------------------------------------------------------------------------
(* Properties                                                              *)

\* Types, and the life cycle of a worker: the table holds the entry exactly
\* while the promise is unsettled or the process serves requests.
TypeOK ==
  /\ entry \in Entries
  /\ inTable \in BOOLEAN
  /\ promise \in {"none", "pending", "fulfilled", "rejected"}
  /\ proc \in {"none", "running", "signalled", "dead", "reaped"}
  /\ req \in [Requests -> {"new", "open", "succeeded", "done", "refused"}]
  /\ pages \subseteq Requests
  /\ conn \in [Conns -> {"new", "open", "closed", "refused"}]

\* acquire() and release() calls match up (sockjs.js: "Must, must, must match
\* up"): as long as the entry is in use, its counters are the number of
\* responses and of connections that really are open.
CountersMatch ==
  ~entry.closed => /\ entry.conns["http"] = Cardinality(OpenRequests)
                   /\ entry.conns["sock"] = Cardinality(OpenConns)

\* Every reservation is backed by an app page still being served or by a
\* release timer, so no reservation can outlive them both and keep the worker
\* alive, or its capacity taken, for ever (worker-entry.js, constructor).
ReservationsBacked ==
  ~entry.closed =>
    entry.conns["pending"]
      <= Cardinality(OpenPages) + Len(entry.releaseTimers)

\* maxRequests: never more sessions than the limit, although reservations
\* and connections are admitted and released independently of each other.
SessionLimit ==
  MaxRequests > 0 => entry.conns["sock"] <= MaxRequests

\* Sessions and reservations together stay within the limit, so that whoever
\* has been served an app page finds room for the session
\* (worker-entry.js: "better to 503 immediately on the HTTP request").
ReservationsWithinLimit ==
  MaxRequests > 0 => SessionCount(entry) <= MaxRequests

\* The release timer that fires is the one at the front of the queue (the
\* "Surprisingly..." branch of pushPendingReleaseTimer is never taken).
DueTimerAtFront ==
  \A t \in entry.armed :
    Due(entry, t) => /\ entry.releaseTimers # << >>
                     /\ Head(entry.releaseTimers) = t

\* A ready worker nobody uses is on its way out: its idle timer is armed or
\* its process has been signalled or has ended.
UnusedWorkerIsDoomed ==
  (IdleReaping /\ inTable /\ promise = "fulfilled" /\ Clients(entry) = 0)
    => entry.idleTimer \/ proc # "running"

\* How the state of the worker, of its entry and of its clients hang
\* together; with the other invariants it is inductive.
LifeCycle ==
  /\ promise = "none" => /\ entry = NewEntry
                         /\ proc = "none"
                         /\ OpenRequests = {}
                         /\ OpenConns = {}
  /\ inTable <=> promise \in {"pending", "fulfilled"} /\ proc # "reaped"
  /\ promise = "fulfilled" => proc # "none"
  /\ entry.closed => /\ proc \in {"none", "reaped"}
                     /\ promise \in {"fulfilled", "rejected"}
  /\ entry.idleTimer => Clients(entry) = 0
  /\ \A r \in pages : req[r] \in {"open", "succeeded", "done"}

IInv ==
  /\ TypeOK
  /\ LifeCycle
  /\ QueueInOrder(entry)
  /\ CountersMatch
  /\ ReservationsBacked
  /\ SessionLimit
  /\ UnusedWorkerIsDoomed

\* The idle timeout interrupts a process only when no response is being
\* written, no session is open and none is about to be.
NeverReapedInUse ==
  [][(proc = "running" /\ proc' = "signalled")
       => OpenRequests = {} /\ OpenConns = {} /\ entry.conns["pending"] = 0]_vars

\* The counters, the reservations and the admission rules implement the
\* abstract session pool: who is let in and who is turned away is decided by
\* the sessions that are open, the app pages being served and the release
\* timers (worker-entry.js and acquireWorker decide by three counters).
Pool == INSTANCE SessionPool WITH
          Pages           <- Requests,
          Limit           <- MaxRequests,
          sessions        <- OpenConns,
          kept            <- PlacesKept,
          refusedPages    <- RefusedRequests,
          refusedSessions <- RefusedConns,
          accepting       <- Available

ImplementsSessionPool == Pool!Spec

\* A worker does not stay for ever once people stop using it: whatever path
\* its start took, the entry leaves the table.
WorkerLeavesTable == inTable ~> ~inTable

\* Reservations nobody claims are given up.
ReservationsExpire ==
  entry.conns["pending"] > 0 ~> (entry.conns["pending"] = 0 \/ entry.closed)

\* scheduler.js, on startIdleTimer: "ensure that this worker doesn't spin up,
\* never get used, and run indefinitely".
NoProcessRunsForever == proc = "running" ~> proc # "running"

=============================================================================

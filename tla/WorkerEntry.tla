---------------------------- MODULE WorkerEntry ----------------------------
(***************************************************************************)
(* lib/scheduler/worker-entry.js: the entry a scheduler keeps for one      *)
(* worker process.  An entry is a record; each operator below is a method, *)
(* and maps the entry before the call to the entry after it.               *)
(*                                                                         *)
(*   conns          data.httpConn, data.sockConn and data.pendingConn      *)
(*   closed         the scheduler has removed the entry because the        *)
(*                  process exited                                         *)
(*   idleTimer      an idle timeout is armed                               *)
(*   releaseTimers  pendingReleaseTimers, the FIFO queue of timer ids      *)
(*   armed          the release timers Node will still fire.  All of them  *)
(*                  last 45 s, so they are due in the order of their ids   *)
(*   nextTimer      the id setTimeout will hand out next                   *)
(***************************************************************************)
EXTENDS Naturals, Sequences

CONSTANT IdleReaping    \* idleTimeout > 0: unused workers are reaped

ASSUME IdleReapingAssumption == IdleReaping \in BOOLEAN

ConnTypes == {"http", "sock", "pending"}

Entries ==
  [conns         : [ConnTypes -> Nat],
   closed        : BOOLEAN,
   idleTimer     : BOOLEAN,
   releaseTimers : Seq(Nat),
   armed         : SUBSET Nat,
   nextTimer     : Nat]

NewEntry ==
  [conns         |-> [t \in ConnTypes |-> 0],
   closed        |-> FALSE,
   idleTimer     |-> FALSE,
   releaseTimers |-> << >>,
   armed         |-> {},
   nextTimer     |-> 0]

Clients(e) == e.conns["http"] + e.conns["sock"] + e.conns["pending"]

SessionCount(e) == e.conns["sock"] + e.conns["pending"]

\* Mutant of Acquire: the idle timer is left running.
AcquireKeepsIdleTimer(e, type) == [e EXCEPT !.conns[type] = @ + 1]

Acquire(e, type) ==
  [e EXCEPT !.conns[type] = @ + 1, !.idleTimer = FALSE]

StartIdleTimer(e) ==
  [e EXCEPT !.idleTimer = @ \/ (Clients(e) = 0 /\ IdleReaping)]

\* Mutant of Release: the idle timer is not restarted.
ReleaseWithoutIdleTimer(e, type) ==
  IF e.closed THEN e
  ELSE [e EXCEPT !.conns[type] = IF @ > 0 THEN @ - 1 ELSE 0]

\* Releasing "http" or "sock" clamps at zero and restarts the idle timer;
\* releasing "pending" when none is pending does nothing at all.
Release(e, type) ==
  IF e.closed \/ (type = "pending" /\ e.conns["pending"] = 0)
  THEN e
  ELSE StartIdleTimer(
         [e EXCEPT !.conns[type] = IF @ > 0 THEN @ - 1 ELSE 0])

PushPendingReleaseTimer(e) ==
  [e EXCEPT !.releaseTimers = Append(@, e.nextTimer),
            !.armed         = @ \cup {e.nextTimer},
            !.nextTimer     = @ + 1]

\* Mutant of ShiftPendingReleaseTimer: clearTimeout is forgotten.
ShiftWithoutClear(e) ==
  IF e.releaseTimers = << >>
  THEN e
  ELSE [e EXCEPT !.releaseTimers = Tail(@)]

ShiftPendingReleaseTimer(e) ==
  IF e.releaseTimers = << >>
  THEN e
  ELSE [e EXCEPT !.releaseTimers = Tail(@),
                 !.armed         = @ \ {Head(e.releaseTimers)}]

\* The armed release timer that is due first.
Due(e, t) == t \in e.armed /\ \A u \in e.armed : t <= u

\* Mutant of PendingReleaseTimerFired: it leaves the queue, no more.
FiredWithoutRelease(e, t) ==
  [e EXCEPT
     !.releaseTimers = IF @ # << >> /\ Head(@) = t THEN Tail(@) ELSE @,
     !.armed         = @ \ {t}]

\* The callback given to setTimeout in pushPendingReleaseTimer: it leaves
\* the queue only from the front, and releases unless the entry is closed.
PendingReleaseTimerFired(e, t) ==
  Release([e EXCEPT
             !.releaseTimers = IF @ # << >> /\ Head(@) = t THEN Tail(@) ELSE @,
             !.armed         = @ \ {t}],
          "pending")

\* The callback of the idle timeout; what "idletimeout" listeners do is the
\* scheduler's business.
IdleTimerFired(e) == [e EXCEPT !.idleTimer = FALSE]

\* close() drains the queue of release timers and leaves the idle timer be.
Close(e) ==
  [e EXCEPT !.closed        = TRUE,
            !.armed         = @ \ {e.releaseTimers[i] :
                                     i \in DOMAIN e.releaseTimers},
            !.releaseTimers = << >>]

\* The queue holds exactly the armed timers, oldest first.
QueueInOrder(e) ==
  /\ e.armed = {e.releaseTimers[i] : i \in 1..Len(e.releaseTimers)}
  /\ \A i, j \in 1..Len(e.releaseTimers) :
       i < j => e.releaseTimers[i] < e.releaseTimers[j]
  /\ \A i \in 1..Len(e.releaseTimers) : e.releaseTimers[i] < e.nextTimer

=============================================================================

------------------------ MODULE WorkerSessionsProofs ------------------------
(***************************************************************************)
(* The invariants of WorkerSessions, for any number of requests and        *)
(* connections, any maxRequests and any idle timeout.                      *)
(***************************************************************************)
EXTENDS WorkerSessions, FiniteSetTheorems, TLAPS

-----------------------------------------------------------------------------
(* What the operators of WorkerEntry do to an entry: its type, its         *)
(* counters, and the order of its queue of release timers.                 *)

\* e and f differ in nothing but the counters and the idle timer.
SameQueue(e, f) ==
  /\ f.releaseTimers = e.releaseTimers
  /\ f.armed = e.armed
  /\ f.nextTimer = e.nextTimer

\* A fresh entry is an entry with nothing in it (the constructor).
LEMMA NewEntryFacts ==
  /\ NewEntry \in Entries
  /\ QueueInOrder(NewEntry)
BY DEF NewEntry, Entries, QueueInOrder, ConnTypes

\* acquire() counts one more client and disarms the idle timer.
LEMMA AcquireFacts ==
  ASSUME NEW e \in Entries, NEW type \in ConnTypes
  PROVE  LET f == Acquire(e, type) IN
         /\ f \in Entries
         /\ f.conns = [e.conns EXCEPT ![type] = @ + 1]
         /\ f.closed = e.closed
         /\ f.idleTimer = FALSE
         /\ SameQueue(e, f)
<1> DEFINE n == [e.conns EXCEPT ![type] = @ + 1]
<1>1. n \in [ConnTypes -> Nat]
  BY DEF Entries
<1>2. Acquire(e, type) = [e EXCEPT !.conns = n, !.idleTimer = FALSE]
  BY DEF Acquire, Entries
<1> HIDE DEF n
<1>3. [e EXCEPT !.conns = n, !.idleTimer = FALSE] \in Entries
  BY <1>1 DEF Entries
<1>4. /\ Acquire(e, type).conns = n
      /\ Acquire(e, type).closed = e.closed
      /\ Acquire(e, type).idleTimer = FALSE
      /\ SameQueue(e, Acquire(e, type))
  BY <1>2 DEF Entries, SameQueue
<1> QED BY <1>2, <1>3, <1>4 DEF n

\* startIdleTimer() arms the idle timer of an unused entry.
LEMMA StartIdleTimerFacts ==
  ASSUME NEW e \in Entries
  PROVE  LET f == StartIdleTimer(e) IN
         /\ f \in Entries
         /\ f.conns = e.conns
         /\ f.closed = e.closed
         /\ f.idleTimer <=> (e.idleTimer \/ (Clients(e) = 0 /\ IdleReaping))
         /\ SameQueue(e, f)
BY IdleReapingAssumption
   DEF StartIdleTimer, Clients, Entries, ConnTypes, SameQueue

\* release() counts one client less, and never goes below zero.
LEMMA ReleaseFacts ==
  ASSUME NEW e \in Entries, NEW type \in ConnTypes
  PROVE  LET f == Release(e, type) IN
         /\ f \in Entries
         /\ f.closed = e.closed
         /\ SameQueue(e, f)
         /\ e.closed => f = e
         /\ ~e.closed =>
              f.conns = [e.conns EXCEPT ![type] = IF @ > 0 THEN @ - 1 ELSE 0]
         /\ f.idleTimer => e.idleTimer \/ Clients(f) = 0
         /\ (~e.closed /\ IdleReaping /\ Clients(f) = 0)
              => f.idleTimer \/ (f = e /\ type = "pending")
<1> DEFINE g == [e EXCEPT !.conns[type] = IF @ > 0 THEN @ - 1 ELSE 0]
<1>1. CASE e.closed
  BY <1>1 DEF Release, SameQueue
<1>2. CASE ~e.closed /\ type = "pending" /\ e.conns["pending"] = 0
  <2>1. Release(e, type) = e
    BY <1>2 DEF Release
  <2>2. e.conns = [e.conns EXCEPT ![type] = IF @ > 0 THEN @ - 1 ELSE 0]
    BY <1>2 DEF Entries, ConnTypes
  <2> QED BY <1>2, <2>1, <2>2 DEF SameQueue
<1>3. CASE ~e.closed /\ ~(type = "pending" /\ e.conns["pending"] = 0)
  <2>1. g \in Entries
    <3> DEFINE n == [e.conns EXCEPT ![type] = IF @ > 0 THEN @ - 1 ELSE 0]
    <3>1. n \in [ConnTypes -> Nat]
      BY DEF Entries
    <3>2. g = [e EXCEPT !.conns = n]
      BY DEF Entries
    <3> HIDE DEF n, g
    <3> QED BY <3>1, <3>2 DEF Entries
  <2>2. /\ g.conns = [e.conns EXCEPT ![type] = IF @ > 0 THEN @ - 1 ELSE 0]
        /\ g.closed = e.closed
        /\ g.idleTimer = e.idleTimer
        /\ SameQueue(e, g)
    BY DEF Entries, ConnTypes, SameQueue
  <2>3. Release(e, type) = StartIdleTimer(g)
    BY <1>3 DEF Release
  <2>4. /\ StartIdleTimer(g) \in Entries
        /\ StartIdleTimer(g).conns = g.conns
        /\ StartIdleTimer(g).closed = g.closed
        /\ StartIdleTimer(g).idleTimer <=>
             (g.idleTimer \/ (Clients(g) = 0 /\ IdleReaping))
        /\ SameQueue(g, StartIdleTimer(g))
    BY <2>1, StartIdleTimerFacts
  <2>5. Clients(StartIdleTimer(g)) = Clients(g)
    BY <2>4 DEF Clients
  <2> HIDE DEF g
  <2> QED BY <1>3, <2>2, <2>3, <2>4, <2>5 DEF SameQueue
<1> QED BY <1>1, <1>2, <1>3

\* The queue only depends on the three fields it is made of.
LEMMA SameQueueInOrder ==
  ASSUME NEW e, NEW f, SameQueue(e, f), QueueInOrder(e)
  PROVE  QueueInOrder(f)
BY DEF SameQueue, QueueInOrder

\* pushPendingReleaseTimer() adds the youngest timer at the back.
LEMMA PushFacts ==
  ASSUME NEW e \in Entries, QueueInOrder(e)
  PROVE  LET f == PushPendingReleaseTimer(e) IN
         /\ f \in Entries
         /\ f.conns = e.conns
         /\ f.closed = e.closed
         /\ f.idleTimer = e.idleTimer
         /\ Len(f.releaseTimers) = Len(e.releaseTimers) + 1
         /\ QueueInOrder(f)
<1> DEFINE f == PushPendingReleaseTimer(e)
           q == e.releaseTimers
           p == f.releaseTimers
<1>0. f \in Entries
  <2>1. /\ Append(e.releaseTimers, e.nextTimer) \in Seq(Nat)
        /\ e.armed \cup {e.nextTimer} \in SUBSET Nat
        /\ e.nextTimer + 1 \in Nat
    BY DEF Entries
  <2> QED BY <2>1 DEF PushPendingReleaseTimer, Entries
<1>1. /\ f.conns = e.conns
      /\ f.closed = e.closed
      /\ f.idleTimer = e.idleTimer
      /\ p = Append(q, e.nextTimer)
      /\ f.armed = e.armed \cup {e.nextTimer}
      /\ f.nextTimer = e.nextTimer + 1
  BY DEF PushPendingReleaseTimer, Entries
<1>2. q \in Seq(Nat) /\ e.nextTimer \in Nat
  BY DEF Entries
<1>3. /\ Len(p) = Len(q) + 1
      /\ \A i \in 1..Len(q) : p[i] = q[i]
      /\ p[Len(q) + 1] = e.nextTimer
  BY <1>1, <1>2
<1>4. /\ e.armed = {q[i] : i \in 1..Len(q)}
      /\ \A i, j \in 1..Len(q) : i < j => q[i] < q[j]
      /\ \A i \in 1..Len(q) : q[i] < e.nextTimer
      /\ \A i \in 1..Len(q) : q[i] \in Nat
      /\ Len(q) \in Nat
  BY <1>2 DEF QueueInOrder
<1> HIDE DEF f, p, q
<1>5. f.armed = {p[i] : i \in 1..Len(p)}
  <2>1. ASSUME NEW t \in f.armed PROVE \E i \in 1..Len(p) : p[i] = t
    BY <1>1, <1>3, <1>4
  <2>2. ASSUME NEW i \in 1..Len(p) PROVE p[i] \in f.armed
    BY <1>1, <1>3, <1>4
  <2> QED BY <2>1, <2>2
<1>6. \A i, j \in 1..Len(p) : i < j => p[i] < p[j]
  BY <1>2, <1>3, <1>4
<1>7. \A i \in 1..Len(p) : p[i] < f.nextTimer
  BY <1>1, <1>2, <1>3, <1>4
<1>8. QueueInOrder(f)
  BY <1>5, <1>6, <1>7 DEF QueueInOrder, p
<1> QED BY <1>0, <1>1, <1>3, <1>8 DEF f, p, q

\* Taking the oldest timer off the queue and disarming it keeps the order.
LEMMA PopFacts ==
  ASSUME NEW e \in Entries, QueueInOrder(e), e.releaseTimers # << >>
  PROVE  LET f == [e EXCEPT !.releaseTimers = Tail(@),
                            !.armed = @ \ {Head(e.releaseTimers)}] IN
         /\ f \in Entries
         /\ f.conns = e.conns
         /\ f.closed = e.closed
         /\ f.idleTimer = e.idleTimer
         /\ Len(f.releaseTimers) = Len(e.releaseTimers) - 1
         /\ QueueInOrder(f)
<1> DEFINE f == [e EXCEPT !.releaseTimers = Tail(@),
                          !.armed = @ \ {Head(e.releaseTimers)}]
           q == e.releaseTimers
           p == f.releaseTimers
<1>1. /\ f.conns = e.conns
      /\ f.closed = e.closed
      /\ f.idleTimer = e.idleTimer
      /\ p = Tail(q)
      /\ f.armed = e.armed \ {q[1]}
      /\ f.nextTimer = e.nextTimer
  BY DEF Entries
<1>2. q \in Seq(Nat) /\ q # << >> /\ e.nextTimer \in Nat
  BY DEF Entries
<1>3. /\ Len(q) \in Nat \ {0}
      /\ Len(p) = Len(q) - 1
      /\ p \in Seq(Nat)
      /\ \A i \in 1..Len(p) : p[i] = q[i + 1]
  BY <1>1, <1>2
<1>4. f \in Entries
  BY <1>3 DEF Entries
<1>5. /\ e.armed = {q[i] : i \in 1..Len(q)}
      /\ \A i, j \in 1..Len(q) : i < j => q[i] < q[j]
      /\ \A i \in 1..Len(q) : q[i] < e.nextTimer
      /\ \A i \in 1..Len(q) : q[i] \in Nat
  BY <1>2 DEF QueueInOrder
<1> HIDE DEF f, p, q
<1>6. f.armed = {p[i] : i \in 1..Len(p)}
  <2>1. ASSUME NEW t \in f.armed PROVE \E i \in 1..Len(p) : p[i] = t
    <3>1. PICK k \in 1..Len(q) : q[k] = t /\ k # 1
      BY <1>1, <1>5
    <3>2. k - 1 \in 1..Len(p) /\ p[k - 1] = t
      BY <3>1, <1>3
    <3> QED BY <3>2
  <2>2. ASSUME NEW i \in 1..Len(p) PROVE p[i] \in f.armed
    <3>1. i + 1 \in 1..Len(q) /\ p[i] = q[i + 1] /\ 1 \in 1..Len(q) /\ 1 < i + 1
      BY <1>3
    <3>2. q[1] < q[i + 1] /\ q[1] \in Nat /\ q[i + 1] \in e.armed
      BY <3>1, <1>5
    <3> QED BY <1>1, <3>1, <3>2
  <2> QED BY <2>1, <2>2
<1>7. \A i, j \in 1..Len(p) : i < j => p[i] < p[j]
  <2> SUFFICES ASSUME NEW i \in 1..Len(p), NEW j \in 1..Len(p), i < j
               PROVE  p[i] < p[j]
    OBVIOUS
  <2>1. i + 1 \in 1..Len(q) /\ j + 1 \in 1..Len(q) /\ i + 1 < j + 1
    BY <1>3
  <2> QED BY <2>1, <1>3, <1>5
<1>8. \A i \in 1..Len(p) : p[i] < f.nextTimer
  BY <1>1, <1>3, <1>5
<1>9. QueueInOrder(f)
  BY <1>6, <1>7, <1>8 DEF QueueInOrder, p
<1> QED BY <1>1, <1>3, <1>4, <1>9 DEF f, p, q

\* shiftPendingReleaseTimer() cancels the oldest timer, if there is one.
LEMMA ShiftFacts ==
  ASSUME NEW e \in Entries, QueueInOrder(e)
  PROVE  LET f == ShiftPendingReleaseTimer(e) IN
         /\ f \in Entries
         /\ f.conns = e.conns
         /\ f.closed = e.closed
         /\ f.idleTimer = e.idleTimer
         /\ Len(f.releaseTimers) =
              IF e.releaseTimers = << >> THEN Len(e.releaseTimers)
              ELSE Len(e.releaseTimers) - 1
         /\ QueueInOrder(f)
<1>1. CASE e.releaseTimers = << >>
  BY <1>1 DEF ShiftPendingReleaseTimer
<1>2. CASE e.releaseTimers # << >>
  BY <1>2, PopFacts DEF ShiftPendingReleaseTimer
<1> QED BY <1>1, <1>2

\* The timer that is due first is the one at the front of the queue.
LEMMA DueIsFront ==
  ASSUME NEW e \in Entries, QueueInOrder(e), NEW t, Due(e, t)
  PROVE  e.releaseTimers # << >> /\ Head(e.releaseTimers) = t
<1> DEFINE q == e.releaseTimers
<1>1. q \in Seq(Nat) /\ t \in e.armed
  BY DEF Entries, Due
<1>2. PICK k \in 1..Len(q) : q[k] = t
  BY <1>1 DEF QueueInOrder
<1>3. Len(q) \in Nat /\ 1 \in 1..Len(q) /\ q # << >> /\ Head(q) = q[1]
  BY <1>1, <1>2
<1>4. q[1] \in e.armed
  BY <1>3 DEF QueueInOrder
<1>5. t <= q[1]
  BY <1>4 DEF Due
<1>6. q[1] \in Nat /\ t \in Nat
  BY <1>1, <1>2, <1>3
<1>7. k = 1
  <2> SUFFICES ASSUME k # 1 PROVE FALSE
    OBVIOUS
  <2>1. q[1] < q[k]
    BY <1>2, <1>3 DEF QueueInOrder
  <2> QED BY <2>1, <1>2, <1>5, <1>6
<1> QED BY <1>2, <1>3, <1>7

\* When it fires it leaves the queue and releases a reservation.
LEMMA FireFacts ==
  ASSUME NEW e \in Entries, QueueInOrder(e), NEW t, Due(e, t)
  PROVE  \E g \in Entries :
           /\ PendingReleaseTimerFired(e, t) = Release(g, "pending")
           /\ g.conns = e.conns
           /\ g.closed = e.closed
           /\ g.idleTimer = e.idleTimer
           /\ Len(g.releaseTimers) = Len(e.releaseTimers) - 1
           /\ QueueInOrder(g)
<1> DEFINE g == [e EXCEPT !.releaseTimers = Tail(@),
                          !.armed = @ \ {Head(e.releaseTimers)}]
<1>1. e.releaseTimers # << >> /\ Head(e.releaseTimers) = t
  BY DueIsFront
<1>2. PendingReleaseTimerFired(e, t) = Release(g, "pending")
  BY <1>1 DEF PendingReleaseTimerFired
<1>3. /\ g \in Entries
      /\ g.conns = e.conns
      /\ g.closed = e.closed
      /\ g.idleTimer = e.idleTimer
      /\ Len(g.releaseTimers) = Len(e.releaseTimers) - 1
      /\ QueueInOrder(g)
  BY <1>1, PopFacts
<1> QED BY <1>2, <1>3

\* close() empties the queue and touches no counter.
LEMMA CloseFacts ==
  ASSUME NEW e \in Entries, QueueInOrder(e)
  PROVE  LET f == Close(e) IN
         /\ f \in Entries
         /\ f.conns = e.conns
         /\ f.closed
         /\ f.idleTimer = e.idleTimer
         /\ QueueInOrder(f)
<1> DEFINE d == e.armed \ {e.releaseTimers[i] : i \in DOMAIN e.releaseTimers}
<1>1. Close(e) =
        [e EXCEPT !.closed = TRUE, !.armed = d, !.releaseTimers = << >>]
  BY DEF Close, Entries
<1>2. d \in SUBSET Nat
  BY DEF Entries
<1>3. d = {}
  <2>1. DOMAIN e.releaseTimers = 1..Len(e.releaseTimers)
    BY DEF Entries
  <2> QED BY <2>1 DEF QueueInOrder
<1> HIDE DEF d
<1>4. << >> \in Seq(Nat)
  OBVIOUS
<1>5. Close(e) \in Entries
  BY <1>1, <1>2, <1>4 DEF Entries
<1>6. /\ Close(e).conns = e.conns
      /\ Close(e).closed = TRUE
      /\ Close(e).idleTimer = e.idleTimer
      /\ Close(e).releaseTimers = << >>
      /\ Close(e).armed = {}
  BY <1>1, <1>3 DEF Entries
<1>7. Len(Close(e).releaseTimers) = 0
  BY <1>6
<1> QED BY <1>5, <1>6, <1>7 DEF QueueInOrder

-----------------------------------------------------------------------------
(* Clients and their counters                                              *)

\* A set with one more element has one more element ...
LEMMA CardinalityAdd ==
  ASSUME NEW S, IsFiniteSet(S), NEW x, x \notin S
  PROVE  Cardinality(S \cup {x}) = Cardinality(S) + 1
BY FS_AddElement

\* ... and with one less, one less.
LEMMA CardinalityRemove ==
  ASSUME NEW S, IsFiniteSet(S), NEW x \in S
  PROVE  Cardinality(S \ {x}) = Cardinality(S) - 1
BY FS_RemoveElement

\* The sets of open responses, app pages and connections are finite.
LEMMA OpenSetsFinite ==
  /\ IsFiniteSet(OpenRequests) /\ Cardinality(OpenRequests) \in Nat
  /\ IsFiniteSet(OpenPages) /\ Cardinality(OpenPages) \in Nat
  /\ IsFiniteSet(OpenConns) /\ Cardinality(OpenConns) \in Nat
<1>1. /\ OpenRequests \subseteq Requests
      /\ OpenPages \subseteq Requests
      /\ OpenConns \subseteq Conns
  BY DEF OpenRequests, OpenPages, OpenConns
<1> QED BY <1>1, SessionsAssumption, FS_Subset, FS_CardinalityType

\* A worker that can be handed out has not been closed.
LEMMA AvailableNotClosed ==
  ASSUME TypeOK, LifeCycle, Available
  PROVE  ~entry.closed
BY DEF TypeOK, LifeCycle, Available, NewEntry

\* The parts of the invariant that only depend on the entry and on how many
\* requests, pages and connections are open.
Counts(e, requests, openPages, openConns) ==
  /\ e \in Entries
  /\ QueueInOrder(e)
  /\ e.idleTimer => Clients(e) = 0
  /\ MaxRequests > 0 => e.conns["sock"] <= MaxRequests
  /\ ~e.closed =>
       /\ e.conns["http"] = requests
       /\ e.conns["sock"] = openConns
       /\ e.conns["pending"] <= openPages + Len(e.releaseTimers)

\* The inductive invariant contains Counts for what is open now.
LEMMA CountsOfIInv ==
  IInv => Counts(entry, Cardinality(OpenRequests), Cardinality(OpenPages),
                 Cardinality(OpenConns))
BY DEF IInv, Counts, TypeOK, LifeCycle, CountersMatch, ReservationsBacked,
       SessionLimit

\* The types of the counters and of the queue of an entry.
LEMMA EntryTypes ==
  ASSUME NEW e \in Entries
  PROVE  /\ e.conns \in [ConnTypes -> Nat]
         /\ e.conns["http"] \in Nat
         /\ e.conns["sock"] \in Nat
         /\ e.conns["pending"] \in Nat
         /\ Len(e.releaseTimers) \in Nat
BY DEF Entries, ConnTypes

\* One more request ...
LEMMA AcquireHttpCounts ==
  ASSUME NEW e, NEW h \in Nat, NEW p \in Nat, NEW s \in Nat,
         Counts(e, h, p, s)
  PROVE  Counts(Acquire(e, "http"), h + 1, p, s)
<1> DEFINE f == Acquire(e, "http")
<1>1. e \in Entries /\ "http" \in ConnTypes
  BY DEF Counts, ConnTypes
<1>2. /\ f \in Entries
      /\ f.conns = [e.conns EXCEPT !["http"] = @ + 1]
      /\ f.closed = e.closed
      /\ f.idleTimer = FALSE
      /\ SameQueue(e, f)
  BY <1>1, AcquireFacts
<1>3. QueueInOrder(f)
  BY <1>2, SameQueueInOrder DEF Counts
<1>4. /\ f.conns["http"] = e.conns["http"] + 1
      /\ f.conns["sock"] = e.conns["sock"]
      /\ f.conns["pending"] = e.conns["pending"]
  BY <1>1, <1>2, EntryTypes DEF ConnTypes
<1> QED BY <1>2, <1>3, <1>4 DEF Counts, SameQueue

\* ... one more reservation, for an app page ...
LEMMA AcquirePendingCounts ==
  ASSUME NEW e, NEW h \in Nat, NEW p \in Nat, NEW s \in Nat,
         Counts(e, h, p, s)
  PROVE  Counts(Acquire(e, "pending"), h, p + 1, s)
<1> DEFINE f == Acquire(e, "pending")
<1>1. e \in Entries /\ "pending" \in ConnTypes
  BY DEF Counts, ConnTypes
<1>2. /\ f \in Entries
      /\ f.conns = [e.conns EXCEPT !["pending"] = @ + 1]
      /\ f.closed = e.closed
      /\ f.idleTimer = FALSE
      /\ SameQueue(e, f)
  BY <1>1, AcquireFacts
<1>3. QueueInOrder(f)
  BY <1>2, SameQueueInOrder DEF Counts
<1>4. /\ f.conns["http"] = e.conns["http"]
      /\ f.conns["sock"] = e.conns["sock"]
      /\ f.conns["pending"] = e.conns["pending"] + 1
      /\ e.conns["pending"] \in Nat
      /\ Len(e.releaseTimers) \in Nat
      /\ f.releaseTimers = e.releaseTimers
  BY <1>1, <1>2, EntryTypes DEF ConnTypes, SameQueue
<1>5. ASSUME ~e.closed
      PROVE  f.conns["pending"] <= p + 1 + Len(f.releaseTimers)
  <2> DEFINE n == e.conns["pending"]
             len == Len(e.releaseTimers)
  <2>1. n <= p + len
    BY <1>5 DEF Counts
  <2>2. n \in Nat /\ len \in Nat
    BY <1>4
  <2>3. f.conns["pending"] = n + 1 /\ Len(f.releaseTimers) = len
    BY <1>4
  <2> HIDE DEF n, len
  <2>4. n + 1 <= p + 1 + len
    BY <2>1, <2>2
  <2> QED BY <2>3, <2>4
<1> QED BY <1>2, <1>3, <1>4, <1>5 DEF Counts

\* ... one more session, which the limit must leave room for.
LEMMA AcquireSockCounts ==
  ASSUME NEW e, NEW h \in Nat, NEW p \in Nat, NEW s \in Nat,
         Counts(e, h, p, s),
         MaxRequests > 0 => e.conns["sock"] < MaxRequests
  PROVE  Counts(Acquire(e, "sock"), h, p, s + 1)
<1> DEFINE f == Acquire(e, "sock")
<1>1. e \in Entries /\ "sock" \in ConnTypes
  BY DEF Counts, ConnTypes
<1>2. /\ f \in Entries
      /\ f.conns = [e.conns EXCEPT !["sock"] = @ + 1]
      /\ f.closed = e.closed
      /\ f.idleTimer = FALSE
      /\ SameQueue(e, f)
  BY <1>1, AcquireFacts
<1>3. QueueInOrder(f)
  BY <1>2, SameQueueInOrder DEF Counts
<1>4. /\ f.conns["http"] = e.conns["http"]
      /\ f.conns["sock"] = e.conns["sock"] + 1
      /\ f.conns["pending"] = e.conns["pending"]
      /\ e.conns["sock"] \in Nat
  BY <1>1, <1>2, EntryTypes DEF ConnTypes
<1> QED BY <1>2, <1>3, <1>4, SessionsAssumption DEF Counts, SameQueue

\* What release() does to each counter.
LEMMA ReleaseConns ==
  ASSUME NEW e \in Entries, NEW type \in ConnTypes, ~e.closed
  PROVE  \A t \in ConnTypes :
           Release(e, type).conns[t] =
             IF t # type THEN e.conns[t]
             ELSE IF e.conns[t] > 0 THEN e.conns[t] - 1 ELSE 0
<1>1. Release(e, type).conns =
        [e.conns EXCEPT ![type] = IF @ > 0 THEN @ - 1 ELSE 0]
  BY ReleaseFacts
<1> QED BY <1>1, EntryTypes

\* A response ends: the counter that is released is not zero.
LEMMA ReleaseHttpCounts ==
  ASSUME NEW e, NEW h \in Nat \ {0}, NEW p \in Nat, NEW s \in Nat,
         Counts(e, h, p, s)
  PROVE  Counts(Release(e, "http"), h - 1, p, s)
<1> DEFINE f == Release(e, "http")
<1>1. e \in Entries /\ "http" \in ConnTypes
  BY DEF Counts, ConnTypes
<1>2. /\ f \in Entries
      /\ f.closed = e.closed
      /\ SameQueue(e, f)
      /\ e.closed => f = e
      /\ f.idleTimer => e.idleTimer \/ Clients(f) = 0
  BY <1>1, ReleaseFacts
<1>3. QueueInOrder(f)
  BY <1>2, SameQueueInOrder DEF Counts
<1>4. CASE e.closed
  BY <1>2, <1>4 DEF Counts
<1>5. CASE ~e.closed
  <2>1. /\ f.conns["http"] = IF e.conns["http"] > 0
                              THEN e.conns["http"] - 1 ELSE 0
        /\ f.conns["sock"] = e.conns["sock"]
        /\ f.conns["pending"] = e.conns["pending"]
    BY <1>1, <1>5, ReleaseConns DEF ConnTypes
  <2>2. /\ e.conns["http"] = h
        /\ e.conns["sock"] \in Nat
        /\ e.conns["pending"] \in Nat
    BY <1>1, <1>5, EntryTypes DEF Counts
  <2>3. f.idleTimer => Clients(f) = 0
    BY <1>2, <2>1, <2>2 DEF Counts, Clients
  <2> QED BY <1>2, <1>3, <1>5, <2>1, <2>2, <2>3 DEF Counts, SameQueue
<1> QED BY <1>4, <1>5

\* Releasing a session; a clamped counter would not match, but it never
\* is: s > 0.
LEMMA ReleaseSockCounts ==
  ASSUME NEW e, NEW h \in Nat, NEW p \in Nat, NEW s \in Nat \ {0},
         Counts(e, h, p, s)
  PROVE  Counts(Release(e, "sock"), h, p, s - 1)
<1> DEFINE f == Release(e, "sock")
<1>1. e \in Entries /\ "sock" \in ConnTypes
  BY DEF Counts, ConnTypes
<1>2. /\ f \in Entries
      /\ f.closed = e.closed
      /\ SameQueue(e, f)
      /\ e.closed => f = e
      /\ f.idleTimer => e.idleTimer \/ Clients(f) = 0
  BY <1>1, ReleaseFacts
<1>3. QueueInOrder(f)
  BY <1>2, SameQueueInOrder DEF Counts
<1>4. CASE e.closed
  BY <1>2, <1>4 DEF Counts
<1>5. CASE ~e.closed
  <2>1. /\ f.conns["sock"] = IF e.conns["sock"] > 0
                              THEN e.conns["sock"] - 1 ELSE 0
        /\ f.conns["http"] = e.conns["http"]
        /\ f.conns["pending"] = e.conns["pending"]
    BY <1>1, <1>5, ReleaseConns DEF ConnTypes
  <2>2. /\ e.conns["sock"] = s
        /\ e.conns["http"] \in Nat
        /\ e.conns["pending"] \in Nat
    BY <1>1, <1>5, EntryTypes DEF Counts
  <2>3. f.idleTimer => Clients(f) = 0
    BY <1>2, <2>1, <2>2 DEF Counts, Clients
  <2>4. MaxRequests > 0 => f.conns["sock"] <= MaxRequests
    BY <2>1, <2>2, SessionsAssumption DEF Counts
  <2> QED BY <1>2, <1>3, <1>5, <2>1, <2>2, <2>3, <2>4 DEF Counts, SameQueue
<1> QED BY <1>4, <1>5

\* Releasing a reservation keeps the bound when a page or a release timer
\* that backed it goes at the same time, or when none does: q is what is
\* left to back the others.
LEMMA ReleasePendingCounts ==
  ASSUME NEW e \in Entries, NEW h \in Nat, NEW p \in Nat, NEW s \in Nat,
         QueueInOrder(e),
         e.idleTimer => Clients(e) = 0,
         MaxRequests > 0 => e.conns["sock"] <= MaxRequests,
         ~e.closed =>
           /\ e.conns["http"] = h
           /\ e.conns["sock"] = s
           /\ e.conns["pending"] <= p + Len(e.releaseTimers) + 1
  PROVE  Counts(Release(e, "pending"), h, p, s)
<1> DEFINE f == Release(e, "pending")
<1>1. "pending" \in ConnTypes
  BY DEF ConnTypes
<1>2. /\ f \in Entries
      /\ f.closed = e.closed
      /\ SameQueue(e, f)
      /\ e.closed => f = e
      /\ f.idleTimer => e.idleTimer \/ Clients(f) = 0
  BY <1>1, ReleaseFacts
<1>3. QueueInOrder(f)
  BY <1>2, SameQueueInOrder
<1>4. CASE e.closed
  BY <1>2, <1>4 DEF Counts
<1>5. CASE ~e.closed
  <2>1. /\ f.conns["pending"] = IF e.conns["pending"] > 0
                                 THEN e.conns["pending"] - 1 ELSE 0
        /\ f.conns["http"] = e.conns["http"]
        /\ f.conns["sock"] = e.conns["sock"]
    BY <1>1, <1>5, ReleaseConns DEF ConnTypes
  <2>2. /\ e.conns["pending"] \in Nat
        /\ e.conns["http"] \in Nat
        /\ e.conns["sock"] \in Nat
    BY EntryTypes
  <2>3. ASSUME e.idleTimer PROVE Clients(f) = 0
    <3>1. Clients(e) = 0
      BY <2>3
    <3>2. /\ e.conns["http"] = 0
          /\ e.conns["sock"] = 0
          /\ e.conns["pending"] = 0
      BY <2>2, <3>1 DEF Clients
    <3> QED BY <2>1, <3>2 DEF Clients
  <2>4. /\ f.conns["http"] = h
        /\ f.conns["sock"] = s
        /\ f.conns["pending"] <= p + Len(f.releaseTimers)
    <3>1. /\ Len(e.releaseTimers) \in Nat
          /\ f.releaseTimers = e.releaseTimers
      BY <1>2, EntryTypes DEF SameQueue
    <3> QED BY <1>5, <2>1, <2>2, <3>1
  <2> QED BY <1>2, <1>3, <2>1, <2>3, <2>4 DEF Counts
<1> QED BY <1>4, <1>5

-----------------------------------------------------------------------------
(* The idle timer of a worker nobody uses                                  *)

\* The idle timer of an entry nobody uses is armed.
Doomed(e) == (IdleReaping /\ Clients(e) = 0) => e.idleTimer

\* A worker somebody has just acquired is in use.
LEMMA AcquireDoomed ==
  ASSUME NEW e \in Entries, NEW type \in ConnTypes
  PROVE  Doomed(Acquire(e, type))
<1> DEFINE f == Acquire(e, type)
<1>1. f.conns = [e.conns EXCEPT ![type] = @ + 1]
  BY AcquireFacts
<1>2. \A t \in ConnTypes :
        /\ e.conns[t] \in Nat
        /\ f.conns[t] = IF t = type THEN e.conns[t] + 1 ELSE e.conns[t]
  BY <1>1, EntryTypes
<1>3. /\ f.conns["http"] \in Nat
      /\ f.conns["sock"] \in Nat
      /\ f.conns["pending"] \in Nat
      /\ f.conns["http"] > 0 \/ f.conns["sock"] > 0 \/ f.conns["pending"] > 0
  BY <1>2 DEF ConnTypes
<1> HIDE DEF f
<1>4. Clients(f) # 0
  BY <1>3 DEF Clients
<1> QED BY <1>4 DEF Doomed, f

\* A worker the last client of which leaves has its idle timer armed.
LEMMA ReleaseDoomed ==
  ASSUME NEW e \in Entries, NEW type \in ConnTypes, ~e.closed,
         type # "pending" \/ Doomed(e)
  PROVE  Doomed(Release(e, type))
<1> DEFINE f == Release(e, type)
<1>1. (IdleReaping /\ Clients(f) = 0)
        => f.idleTimer \/ (f = e /\ type = "pending")
  BY ReleaseFacts
<1> HIDE DEF f
<1>2. Doomed(f)
  BY <1>1 DEF Doomed
<1> QED BY <1>2 DEF f

-----------------------------------------------------------------------------
(* The invariant is inductive                                              *)

\* Before the first request nothing is open and nothing is counted.
LEMMA InitIInv == Init => IInv
<1> SUFFICES ASSUME Init PROVE IInv
  OBVIOUS
<1>1. OpenRequests = {} /\ OpenPages = {} /\ OpenConns = {}
  BY DEF Init, OpenRequests, OpenPages, OpenConns
<1>2. /\ entry = NewEntry
      /\ entry.closed = FALSE
      /\ entry.idleTimer = FALSE
      /\ entry.conns["http"] = 0
      /\ entry.conns["sock"] = 0
      /\ entry.conns["pending"] = 0
      /\ entry.releaseTimers = << >>
  BY DEF Init, NewEntry, ConnTypes
<1>3. TypeOK
  BY NewEntryFacts DEF Init, TypeOK
<1>4. LifeCycle
  BY <1>1, <1>2 DEF Init, LifeCycle
<1>5. QueueInOrder(entry)
  BY <1>2, NewEntryFacts
<1>6. Cardinality({}) = 0 /\ Len(entry.releaseTimers) = 0
  BY <1>2, FS_EmptySet
<1>7. CountersMatch /\ ReservationsBacked
  BY <1>1, <1>2, <1>6 DEF CountersMatch, ReservationsBacked
<1>8. SessionLimit /\ UnusedWorkerIsDoomed
  BY <1>2, SessionsAssumption DEF Init, SessionLimit, UnusedWorkerIsDoomed
<1> QED BY <1>3, <1>4, <1>5, <1>7, <1>8 DEF IInv

\* httpListener admits a request.
LEMMA HttpRequestIInv ==
  ASSUME IInv, NEW r \in Requests, NEW kind \in UrlKinds, HttpRequest(r, kind)
  PROVE  IInv'
<1> DEFINE h == Cardinality(OpenRequests)
           p == Cardinality(OpenPages)
           s == Cardinality(OpenConns)
           mid == Acquire(entry, "http")
<1>1. /\ TypeOK /\ LifeCycle
      /\ entry \in Entries
      /\ h \in Nat /\ p \in Nat /\ s \in Nat
      /\ Counts(entry, h, p, s)
  BY OpenSetsFinite, CountsOfIInv DEF IInv, TypeOK
<1>2. ~entry.closed
  BY <1>1, AvailableNotClosed DEF HttpRequest
<1>3. r \notin OpenRequests /\ r \notin OpenPages /\ r \notin pages
  BY <1>1 DEF HttpRequest, OpenRequests, OpenPages, LifeCycle
<1>4. /\ OpenRequests' = OpenRequests \cup {r}
      /\ OpenConns' = OpenConns
  BY <1>1 DEF HttpRequest, OpenRequests, OpenConns, TypeOK
<1>5. Cardinality(OpenRequests') = h + 1
  BY <1>3, <1>4, OpenSetsFinite, CardinalityAdd
<1>6. /\ mid \in Entries
      /\ mid.closed = entry.closed
      /\ Doomed(mid)
      /\ Counts(mid, h + 1, p, s)
  BY <1>1, AcquireFacts, AcquireDoomed, AcquireHttpCounts DEF ConnTypes
<1>7. /\ Counts(entry', Cardinality(OpenRequests'), Cardinality(OpenPages'),
                Cardinality(OpenConns'))
      /\ entry'.closed = FALSE
      /\ Doomed(entry')
  <2>1. CASE IsAppPage(kind)
    <3>1. entry' = Acquire(mid, "pending") /\ pages' = pages \cup {r}
      BY <2>1 DEF HttpRequest
    <3>2. OpenPages' = OpenPages \cup {r}
      BY <1>4, <3>1 DEF OpenPages
    <3>3. Cardinality(OpenPages') = p + 1
      BY <1>3, <3>2, OpenSetsFinite, CardinalityAdd
    <3>4. /\ entry'.closed = mid.closed
          /\ Doomed(entry')
          /\ entry' \in Entries
      BY <1>6, <3>1, AcquireFacts, AcquireDoomed DEF ConnTypes
    <3>5. Counts(entry', h + 1, p + 1, s)
      BY <1>1, <1>6, <3>1, AcquirePendingCounts
    <3>6. entry'.closed = FALSE
      BY <1>2, <1>6, <3>4 DEF Entries
    <3> QED BY <1>4, <1>5, <3>3, <3>4, <3>5, <3>6
  <2>2. CASE ~IsAppPage(kind)
    <3>1. entry' = mid /\ pages' = pages
      BY <2>2 DEF HttpRequest
    <3>2. OpenPages' = OpenPages
      BY <1>3, <1>4, <3>1 DEF OpenPages
    <3>3. entry'.closed = FALSE
      BY <1>2, <1>6, <3>1 DEF Entries
    <3> QED BY <1>4, <1>5, <1>6, <3>1, <3>2, <3>3
  <2> QED BY <2>1, <2>2
<1>8. entry' \in Entries /\ (entry'.idleTimer => Clients(entry') = 0)
  BY <1>7 DEF Counts
<1>9. TypeOK'
  BY <1>1, <1>8 DEF TypeOK, HttpRequest, GetWorker
<1>10. LifeCycle'
  <2>1. /\ promise' \in {"pending", "fulfilled"}
        /\ inTable'
        /\ proc' # "reaped"
        /\ promise' = "fulfilled" => proc' # "none"
    BY <1>1 DEF HttpRequest, GetWorker, LifeCycle, TypeOK, Available
  <2>2. \A q \in pages' : req'[q] \in {"open", "succeeded", "done"}
    BY <1>1 DEF HttpRequest, LifeCycle, TypeOK
  <2> QED BY <1>7, <1>8, <2>1, <2>2 DEF LifeCycle
<1>11. UnusedWorkerIsDoomed'
  BY <1>7 DEF UnusedWorkerIsDoomed, Doomed
<1> QED BY <1>7, <1>9, <1>10, <1>11
        DEF IInv, Counts, CountersMatch, ReservationsBacked, SessionLimit

\* A response ends.  A page that was delivered trades its own backing of the
\* reservation for a release timer; one that was not releases it.
LEMMA ResponseEndsIInv ==
  ASSUME IInv, NEW r \in Requests, ResponseEnds(r)
  PROVE  IInv'
<1> DEFINE h == Cardinality(OpenRequests)
           p == Cardinality(OpenPages)
           s == Cardinality(OpenConns)
           mid == Release(entry, "http")
<1>1. /\ TypeOK /\ LifeCycle /\ UnusedWorkerIsDoomed
      /\ entry \in Entries
      /\ h \in Nat /\ p \in Nat /\ s \in Nat
      /\ Counts(entry, h, p, s)
  BY OpenSetsFinite, CountsOfIInv DEF IInv, TypeOK
<1>2. r \in OpenRequests
  BY DEF ResponseEnds, OpenRequests
<1>3. /\ OpenRequests' = OpenRequests \ {r}
      /\ OpenPages' = OpenPages \ {r}
      /\ OpenConns' = OpenConns
  BY <1>1 DEF ResponseEnds, OpenRequests, OpenPages, OpenConns, TypeOK
<1>4. Cardinality(OpenRequests') = h - 1 /\ h \in Nat \ {0}
  <2>1. Cardinality(OpenRequests') = h - 1
    BY <1>2, <1>3, OpenSetsFinite, CardinalityRemove
  <2>2. h # 0
    BY <1>2, OpenSetsFinite, FS_EmptySet
  <2> QED BY <1>1, <2>1, <2>2
<1>5. /\ mid \in Entries
      /\ mid.closed = entry.closed
      /\ Counts(mid, h - 1, p, s)
      /\ ~entry.closed => Doomed(mid)
      /\ entry.closed => mid = entry
  <2> HIDE DEF h, p, s
  <2> QED BY <1>1, <1>4, ReleaseFacts, ReleaseHttpCounts, ReleaseDoomed
          DEF ConnTypes
<1>6. h - 1 \in Nat
  BY <1>4
<1>7. /\ Counts(entry', h - 1, Cardinality(OpenPages'), s)
      /\ entry'.closed = entry.closed
      /\ ~entry.closed => Doomed(entry')
  <2>1. CASE r \notin pages
    <3>1. entry' = mid
      BY <2>1 DEF ResponseEnds
    <3>2. OpenPages' = OpenPages
      BY <1>3, <2>1 DEF OpenPages
    <3> QED BY <1>5, <3>1, <3>2
  <2>2. CASE r \in pages
    <3>1. /\ r \in OpenPages
          /\ p \in Nat \ {0}
          /\ Cardinality(OpenPages') = p - 1
      <4>1. r \in OpenPages
        BY <1>2, <2>2 DEF OpenPages
      <4>2. Cardinality(OpenPages') = p - 1
        BY <1>3, <4>1, OpenSetsFinite, CardinalityRemove
      <4>3. p # 0
        BY <4>1, OpenSetsFinite, FS_EmptySet
      <4> QED BY <1>1, <4>1, <4>2, <4>3
    <3>2. p - 1 \in Nat /\ p = (p - 1) + 1
      BY <3>1
    <3>3. CASE req[r] = "succeeded"
      <4> DEFINE e == PushPendingReleaseTimer(mid)
      <4>1. entry' = e
        BY <2>2, <3>3 DEF ResponseEnds
      <4>2. QueueInOrder(mid)
        BY <1>5 DEF Counts
      <4>3. /\ e \in Entries
            /\ e.conns = mid.conns
            /\ e.closed = mid.closed
            /\ e.idleTimer = mid.idleTimer
            /\ Len(e.releaseTimers) = Len(mid.releaseTimers) + 1
            /\ QueueInOrder(e)
        BY <1>5, <4>2, PushFacts
      <4>4. Counts(e, h - 1, p - 1, s)
        <5> HIDE DEF e, mid, h, p, s
        <5>1. ~mid.closed => mid.conns["pending"] <= p + Len(mid.releaseTimers)
          BY <1>5 DEF Counts
        <5>2. /\ mid.conns["pending"] \in Nat
              /\ Len(mid.releaseTimers) \in Nat
          BY <1>5, EntryTypes
        <5>3. ~mid.closed =>
                e.conns["pending"] <= (p - 1) + Len(e.releaseTimers)
          BY <3>1, <4>3, <5>1, <5>2
        <5> QED BY <1>5, <4>3, <5>3 DEF Counts, Clients
      <4>5. Doomed(mid) => Doomed(e)
        BY <4>3 DEF Doomed, Clients
      <4> QED BY <1>5, <3>1, <4>1, <4>3, <4>4, <4>5
    <3>4. CASE req[r] # "succeeded"
      <4>1. entry' = Release(mid, "pending")
        BY <2>2, <3>4 DEF ResponseEnds
      <4>2. /\ QueueInOrder(mid)
            /\ mid.idleTimer => Clients(mid) = 0
            /\ MaxRequests > 0 => mid.conns["sock"] <= MaxRequests
            /\ ~mid.closed =>
                 /\ mid.conns["http"] = h - 1
                 /\ mid.conns["sock"] = s
        BY <1>5 DEF Counts
      <4>3. ~mid.closed =>
              mid.conns["pending"] <= (p - 1) + Len(mid.releaseTimers) + 1
        <5> HIDE DEF mid, h, p, s
        <5>1. ~mid.closed => mid.conns["pending"] <= p + Len(mid.releaseTimers)
          BY <1>5 DEF Counts
        <5>2. /\ mid.conns["pending"] \in Nat
              /\ Len(mid.releaseTimers) \in Nat
          BY <1>5, EntryTypes
        <5> QED BY <3>1, <5>1, <5>2
      <4>4. Counts(Release(mid, "pending"), h - 1, p - 1, s)
        <5> HIDE DEF mid, h, p, s
        <5> QED BY <1>1, <1>5, <1>6, <3>2, <4>2, <4>3, ReleasePendingCounts
      <4>5. /\ Release(mid, "pending").closed = mid.closed
            /\ ~entry.closed => Doomed(Release(mid, "pending"))
        <5> HIDE DEF mid
        <5> QED BY <1>5, ReleaseFacts, ReleaseDoomed DEF ConnTypes, Entries
      <4> QED BY <1>5, <3>1, <4>1, <4>4, <4>5
    <3> QED BY <3>3, <3>4
  <2> QED BY <2>1, <2>2
<1>8. entry' \in Entries /\ (entry'.idleTimer => Clients(entry') = 0)
  BY <1>7 DEF Counts
<1>9. TypeOK'
  BY <1>1, <1>8 DEF TypeOK, ResponseEnds
<1>10. LifeCycle'
  <2>1. /\ promise' = promise /\ inTable' = inTable /\ proc' = proc
        /\ promise # "none"
    BY <1>1, <1>2 DEF ResponseEnds, LifeCycle
  <2>2. \A q \in pages' : req'[q] \in {"open", "succeeded", "done"}
    BY <1>1 DEF ResponseEnds, LifeCycle, TypeOK
  <2> QED BY <1>1, <1>7, <1>8, <2>1, <2>2 DEF LifeCycle
<1>11. UnusedWorkerIsDoomed'
  <2>1. promise' = promise /\ inTable' = inTable /\ proc' = proc
    BY DEF ResponseEnds
  <2>2. inTable => ~entry.closed
    BY <1>1, AvailableNotClosed DEF Available
  <2> QED BY <1>7, <2>1, <2>2 DEF UnusedWorkerIsDoomed, Doomed
<1>12. Counts(entry', Cardinality(OpenRequests'), Cardinality(OpenPages'),
              Cardinality(OpenConns'))
  BY <1>3, <1>4, <1>7
<1> QED BY <1>9, <1>10, <1>11, <1>12
        DEF IInv, Counts, CountersMatch, ReservationsBacked, SessionLimit

\* A connection takes over a reservation, if there is one.  It is admitted
\* only when releasing that reservation leaves room for the session.
LEMMA SockConnectsIInv ==
  ASSUME IInv, NEW c \in Conns, SockConnects(c)
  PROVE  IInv'
<1> DEFINE h == Cardinality(OpenRequests)
           p == Cardinality(OpenPages)
           s == Cardinality(OpenConns)
           e1 == ShiftPendingReleaseTimer(entry)
           e2 == Release(e1, "pending")
<1>1. /\ TypeOK /\ LifeCycle
      /\ entry \in Entries
      /\ h \in Nat /\ p \in Nat /\ s \in Nat
      /\ Counts(entry, h, p, s)
  BY OpenSetsFinite, CountsOfIInv DEF IInv, TypeOK
<1>2. ~entry.closed
  BY <1>1, AvailableNotClosed DEF SockConnects
<1>3. /\ OpenRequests' = OpenRequests
      /\ OpenPages' = OpenPages
      /\ OpenConns' = OpenConns \cup {c}
      /\ c \notin OpenConns
  BY <1>1 DEF SockConnects, OpenRequests, OpenPages, OpenConns, TypeOK
<1>4. Cardinality(OpenConns') = s + 1
  BY <1>3, OpenSetsFinite, CardinalityAdd
<1>5. /\ e1 \in Entries
      /\ e1.conns = entry.conns
      /\ e1.closed = entry.closed
      /\ e1.idleTimer = entry.idleTimer
      /\ Len(e1.releaseTimers) =
           IF entry.releaseTimers = << >> THEN Len(entry.releaseTimers)
           ELSE Len(entry.releaseTimers) - 1
      /\ QueueInOrder(e1)
  BY <1>1, ShiftFacts DEF Counts
<1>6. e1.conns["pending"] <= p + Len(e1.releaseTimers) + 1
  <2> HIDE DEF e1, h, p, s
  <2>1. entry.conns["pending"] <= p + Len(entry.releaseTimers)
    BY <1>1, <1>2 DEF Counts
  <2>2. /\ entry.conns["pending"] \in Nat
        /\ Len(entry.releaseTimers) \in Nat
        /\ Len(e1.releaseTimers) \in Nat
    BY <1>1, <1>5, EntryTypes
  <2> QED BY <1>1, <1>5, <2>1, <2>2
<1>7. Counts(e2, h, p, s)
  <2> HIDE DEF e1, h, p, s
  <2>1. Clients(e1) = Clients(entry)
    BY <1>5 DEF Clients
  <2> QED BY <1>1, <1>2, <1>5, <1>6, <2>1, ReleasePendingCounts DEF Counts
<1>8. e2 \in Entries /\ e2.closed = entry.closed
  BY <1>5, ReleaseFacts DEF ConnTypes
<1>9. MaxRequests > 0 => e2.conns["sock"] < MaxRequests
  <2>1. /\ e2.conns["sock"] = entry.conns["sock"]
        /\ entry.conns["sock"] \in Nat
        /\ entry.conns["pending"] \in Nat
    BY <1>1, <1>2, <1>5, ReleaseConns, EntryTypes DEF ConnTypes
  <2>2. AdmitsSock(entry)
    BY DEF SockConnects
  <2> HIDE DEF e1, e2
  <2> QED BY <2>1, <2>2, SessionsAssumption
          DEF AdmitsSock, AdmitsRoot, SessionCount
<1>10. /\ entry' = Acquire(e2, "sock")
       /\ Counts(entry', h, p, s + 1)
       /\ entry'.closed = FALSE
       /\ Doomed(entry')
  <2> HIDE DEF h, p, s
  <2>1. entry' = Acquire(e2, "sock")
    BY DEF SockConnects
  <2> HIDE DEF e2
  <2> QED BY <1>1, <1>2, <1>7, <1>8, <1>9, <2>1, AcquireSockCounts,
             AcquireFacts, AcquireDoomed DEF ConnTypes, Entries
<1>11. entry' \in Entries /\ (entry'.idleTimer => Clients(entry') = 0)
  BY <1>10 DEF Counts
<1>12. TypeOK'
  BY <1>1, <1>11 DEF TypeOK, SockConnects, GetWorker
<1>13. LifeCycle'
  <2>1. /\ promise' \in {"pending", "fulfilled"}
        /\ inTable'
        /\ proc' # "reaped"
        /\ promise' = "fulfilled" => proc' # "none"
    BY <1>1 DEF SockConnects, GetWorker, LifeCycle, TypeOK, Available
  <2>2. pages' = pages /\ req' = req
    BY DEF SockConnects
  <2> QED BY <1>1, <1>10, <1>11, <2>1, <2>2 DEF LifeCycle
<1>14. UnusedWorkerIsDoomed'
  BY <1>10 DEF UnusedWorkerIsDoomed, Doomed
<1>15. Counts(entry', Cardinality(OpenRequests'), Cardinality(OpenPages'),
              Cardinality(OpenConns'))
  BY <1>3, <1>4, <1>10
<1> QED BY <1>12, <1>13, <1>14, <1>15
        DEF IInv, Counts, CountersMatch, ReservationsBacked, SessionLimit

\* A connection closes.
LEMMA SockClosesIInv ==
  ASSUME IInv, NEW c \in Conns, SockCloses(c)
  PROVE  IInv'
<1> DEFINE h == Cardinality(OpenRequests)
           p == Cardinality(OpenPages)
           s == Cardinality(OpenConns)
<1>1. /\ TypeOK /\ LifeCycle /\ UnusedWorkerIsDoomed
      /\ entry \in Entries
      /\ h \in Nat /\ p \in Nat /\ s \in Nat
      /\ Counts(entry, h, p, s)
  BY OpenSetsFinite, CountsOfIInv DEF IInv, TypeOK
<1>2. /\ OpenRequests' = OpenRequests
      /\ OpenPages' = OpenPages
      /\ OpenConns' = OpenConns \ {c}
      /\ c \in OpenConns
  BY <1>1 DEF SockCloses, OpenRequests, OpenPages, OpenConns, TypeOK
<1>3. Cardinality(OpenConns') = s - 1 /\ s \in Nat \ {0}
  <2>1. Cardinality(OpenConns') = s - 1
    BY <1>2, OpenSetsFinite, CardinalityRemove
  <2>2. s # 0
    BY <1>2, OpenSetsFinite, FS_EmptySet
  <2> QED BY <1>1, <2>1, <2>2
<1>4. /\ entry' = Release(entry, "sock")
      /\ entry' \in Entries
      /\ entry'.closed = entry.closed
      /\ Counts(entry', h, p, s - 1)
      /\ ~entry.closed => Doomed(entry')
  <2> HIDE DEF h, p, s
  <2> QED BY <1>1, <1>3, ReleaseFacts, ReleaseSockCounts, ReleaseDoomed
          DEF ConnTypes, SockCloses
<1>5. entry'.idleTimer => Clients(entry') = 0
  BY <1>4 DEF Counts
<1>6. TypeOK'
  BY <1>1, <1>4 DEF TypeOK, SockCloses
<1>7. LifeCycle'
  <2>1. /\ promise' = promise /\ inTable' = inTable /\ proc' = proc
        /\ promise # "none"
        /\ pages' = pages /\ req' = req
    BY <1>1, <1>2 DEF SockCloses, LifeCycle
  <2> QED BY <1>1, <1>4, <1>5, <2>1 DEF LifeCycle
<1>8. UnusedWorkerIsDoomed'
  <2>1. promise' = promise /\ inTable' = inTable /\ proc' = proc
    BY DEF SockCloses
  <2>2. inTable => ~entry.closed
    BY <1>1, AvailableNotClosed DEF Available
  <2> QED BY <1>4, <2>1, <2>2 DEF UnusedWorkerIsDoomed, Doomed
<1>9. Counts(entry', Cardinality(OpenRequests'), Cardinality(OpenPages'),
             Cardinality(OpenConns'))
  BY <1>2, <1>3, <1>4
<1> QED BY <1>6, <1>7, <1>8, <1>9
        DEF IInv, Counts, CountersMatch, ReservationsBacked, SessionLimit

\* A release timer fires: it backed the reservation it releases.
LEMMA PendingReleaseTimerFiresIInv ==
  ASSUME IInv, PendingReleaseTimerFires
  PROVE  IInv'
<1> DEFINE h == Cardinality(OpenRequests)
           p == Cardinality(OpenPages)
           s == Cardinality(OpenConns)
<1>1. /\ TypeOK /\ LifeCycle /\ UnusedWorkerIsDoomed
      /\ entry \in Entries
      /\ h \in Nat /\ p \in Nat /\ s \in Nat
      /\ Counts(entry, h, p, s)
  BY OpenSetsFinite, CountsOfIInv DEF IInv, TypeOK
<1>2. PICK t \in entry.armed :
        Due(entry, t) /\ entry' = PendingReleaseTimerFired(entry, t)
  BY DEF PendingReleaseTimerFires
<1>3. PICK g \in Entries :
        /\ entry' = Release(g, "pending")
        /\ g.conns = entry.conns
        /\ g.closed = entry.closed
        /\ g.idleTimer = entry.idleTimer
        /\ Len(g.releaseTimers) = Len(entry.releaseTimers) - 1
        /\ QueueInOrder(g)
  BY <1>1, <1>2, FireFacts DEF Counts
<1>4. ~g.closed => g.conns["pending"] <= p + Len(g.releaseTimers) + 1
  <2> HIDE DEF h, p, s
  <2>1. ~entry.closed => entry.conns["pending"] <= p + Len(entry.releaseTimers)
    BY <1>1 DEF Counts
  <2>2. /\ entry.conns["pending"] \in Nat
        /\ Len(entry.releaseTimers) \in Nat
        /\ Len(g.releaseTimers) \in Nat
    BY <1>1, <1>3, EntryTypes
  <2> QED BY <1>1, <1>3, <2>1, <2>2
<1>5. Counts(entry', h, p, s)
  <2> HIDE DEF h, p, s
  <2>1. Clients(g) = Clients(entry)
    BY <1>3 DEF Clients
  <2>2. /\ g.idleTimer => Clients(g) = 0
        /\ MaxRequests > 0 => g.conns["sock"] <= MaxRequests
        /\ ~g.closed => g.conns["http"] = h /\ g.conns["sock"] = s
    BY <1>1, <1>3, <2>1 DEF Counts
  <2>3. Counts(Release(g, "pending"), h, p, s)
    BY <1>1, <1>3, <1>4, <2>2, ReleasePendingCounts
  <2> QED BY <1>3, <2>3
<1>6. /\ entry' \in Entries
      /\ entry'.closed = entry.closed
      /\ ~entry.closed /\ Doomed(entry) => Doomed(entry')
  <2>1. Doomed(entry) => Doomed(g)
    BY <1>3 DEF Doomed, Clients
  <2>2. "pending" \in ConnTypes
    BY DEF ConnTypes
  <2>3. /\ Release(g, "pending") \in Entries
        /\ Release(g, "pending").closed = g.closed
        /\ ~g.closed /\ Doomed(g) => Doomed(Release(g, "pending"))
    BY <2>2, ReleaseFacts, ReleaseDoomed
  <2> QED BY <1>3, <2>1, <2>3
<1>7. entry'.idleTimer => Clients(entry') = 0
  BY <1>5 DEF Counts
<1>8. /\ promise' = promise /\ inTable' = inTable /\ proc' = proc
      /\ pages' = pages /\ req' = req /\ conn' = conn
      /\ promise # "none"
  <2>1. promise # "none"
    BY <1>1, <1>2 DEF LifeCycle, NewEntry
  <2> QED BY <2>1 DEF PendingReleaseTimerFires
<1>9. TypeOK'
  BY <1>1, <1>6, <1>8 DEF TypeOK
<1>10. LifeCycle'
  BY <1>1, <1>6, <1>7, <1>8 DEF LifeCycle
<1>11. UnusedWorkerIsDoomed'
  <2>1. inTable => ~entry.closed
    BY <1>1, AvailableNotClosed DEF Available
  <2> QED BY <1>1, <1>6, <1>8, <2>1 DEF UnusedWorkerIsDoomed, Doomed
<1>12. Counts(entry', Cardinality(OpenRequests'), Cardinality(OpenPages'),
              Cardinality(OpenConns'))
  BY <1>5, <1>8 DEF OpenRequests, OpenPages, OpenConns
<1> QED BY <1>9, <1>10, <1>11, <1>12
        DEF IInv, Counts, CountersMatch, ReservationsBacked, SessionLimit

\* What remains to be shown of a step of the worker that changes no client
\* and no counter: its life cycle, and that it keeps the release timers of
\* an entry in use.
LEMMA WorkerStepIInv ==
  ASSUME IInv,
         UNCHANGED <<req, pages, conn>>,
         TypeOK', LifeCycle', UnusedWorkerIsDoomed',
         entry'.conns = entry.conns,
         QueueInOrder(entry)',
         ~entry'.closed => /\ ~entry.closed
                           /\ entry'.releaseTimers = entry.releaseTimers
  PROVE  IInv'
<1>1. /\ OpenRequests' = OpenRequests
      /\ OpenPages' = OpenPages
      /\ OpenConns' = OpenConns
  BY DEF OpenRequests, OpenPages, OpenConns
<1>2. CountersMatch'
  BY <1>1 DEF IInv, CountersMatch
<1>3. ReservationsBacked'
  BY <1>1 DEF IInv, ReservationsBacked
<1>4. SessionLimit'
  BY DEF IInv, SessionLimit
<1> QED BY <1>2, <1>3, <1>4 DEF IInv

\* Launched changes the process only.
LEMMA LaunchedIInv == ASSUME IInv, Launched PROVE IInv'
<1>1. TypeOK /\ LifeCycle /\ UnusedWorkerIsDoomed /\ QueueInOrder(entry)
  BY DEF IInv
<1>2. TypeOK'
  BY <1>1 DEF TypeOK, Launched
<1>3. LifeCycle'
  BY <1>1 DEF Launched, LifeCycle, OpenRequests, OpenConns
<1>4. UnusedWorkerIsDoomed'
  BY <1>1 DEF Launched, UnusedWorkerIsDoomed
<1> QED BY <1>1, <1>2, <1>3, <1>4, WorkerStepIInv DEF Launched

\* LaunchFails: the entry is closed or merely forgotten.
LEMMA LaunchFailsIInv == ASSUME IInv, LaunchFails PROVE IInv'
<1>1. /\ TypeOK /\ LifeCycle /\ UnusedWorkerIsDoomed /\ QueueInOrder(entry)
      /\ entry \in Entries
  BY DEF IInv, TypeOK
<1>2. /\ Close(entry) \in Entries
      /\ Close(entry).conns = entry.conns
      /\ Close(entry).idleTimer = entry.idleTimer
      /\ QueueInOrder(Close(entry))
      /\ Close(entry).closed
  BY <1>1, CloseFacts
<1>3. /\ entry' \in Entries
      /\ entry'.conns = entry.conns
      /\ entry'.idleTimer = entry.idleTimer
      /\ QueueInOrder(entry')
      /\ ~entry'.closed => entry' = entry
  BY <1>1, <1>2 DEF LaunchFails
<1>4. /\ inTable' = FALSE /\ promise' = "rejected" /\ proc' = "none"
      /\ proc' = proc /\ req' = req /\ pages' = pages /\ conn' = conn
  BY DEF LaunchFails, Reject
<1>5. TypeOK'
  BY <1>1, <1>3, <1>4 DEF TypeOK
<1>6. LifeCycle'
  BY <1>1, <1>3, <1>4 DEF LifeCycle, Clients
<1>7. UnusedWorkerIsDoomed'
  BY <1>4 DEF UnusedWorkerIsDoomed
<1> QED BY <1>1, <1>3, <1>4, <1>5, <1>6, <1>7, WorkerStepIInv

\* BecomesReady arms the idle timer of a worker nobody uses any more.
LEMMA BecomesReadyIInv == ASSUME IInv, BecomesReady PROVE IInv'
<1>1. /\ TypeOK /\ LifeCycle /\ QueueInOrder(entry)
      /\ entry \in Entries
  BY DEF IInv, TypeOK
<1>2. /\ entry' \in Entries
      /\ entry'.conns = entry.conns
      /\ entry'.closed = entry.closed
      /\ entry'.idleTimer <=>
           (entry.idleTimer \/ (Clients(entry) = 0 /\ IdleReaping))
      /\ SameQueue(entry, entry')
      /\ QueueInOrder(entry')
  BY <1>1, StartIdleTimerFacts, SameQueueInOrder DEF BecomesReady
<1>3. /\ promise = "pending" /\ promise' = "fulfilled"
      /\ inTable' = inTable /\ proc' = proc /\ proc # "none"
      /\ req' = req /\ pages' = pages /\ conn' = conn
  BY DEF BecomesReady
<1>4. Clients(entry') = Clients(entry)
  BY <1>2 DEF Clients
<1>5. TypeOK'
  BY <1>1, <1>2, <1>3 DEF TypeOK
<1>6. LifeCycle'
  BY <1>1, <1>2, <1>3, <1>4 DEF LifeCycle
<1>7. UnusedWorkerIsDoomed'
  BY <1>2, <1>4 DEF UnusedWorkerIsDoomed
<1> QED BY <1>1, <1>2, <1>3, <1>5, <1>6, <1>7, WorkerStepIInv DEF SameQueue

\* InitTimesOut forgets the entry and leaves its counters alone.
LEMMA InitTimesOutIInv == ASSUME IInv, InitTimesOut PROVE IInv'
<1>1. TypeOK /\ LifeCycle /\ QueueInOrder(entry)
  BY DEF IInv
<1>2. /\ inTable' = FALSE /\ promise' = "rejected" /\ entry' = entry
      /\ proc' = proc /\ req' = req /\ pages' = pages /\ conn' = conn
      /\ promise = "pending"
  BY DEF InitTimesOut, Reject
<1>3. TypeOK' /\ LifeCycle' /\ UnusedWorkerIsDoomed'
  BY <1>1, <1>2 DEF TypeOK, LifeCycle, UnusedWorkerIsDoomed
<1> QED BY <1>1, <1>2, <1>3, WorkerStepIInv

\* IdleTimerFires signals the process; nobody is counted.
LEMMA IdleTimerFiresIInv == ASSUME IInv, IdleTimerFires PROVE IInv'
<1>1. /\ TypeOK /\ LifeCycle /\ QueueInOrder(entry)
      /\ entry \in Entries
  BY DEF IInv, TypeOK
<1>2. /\ entry' \in Entries
      /\ entry'.conns = entry.conns
      /\ entry'.closed = entry.closed
      /\ entry'.idleTimer = FALSE
      /\ entry'.releaseTimers = entry.releaseTimers
      /\ QueueInOrder(entry')
  BY <1>1 DEF IdleTimerFires, IdleTimerFired, Entries, QueueInOrder
<1>3. /\ proc' = IF proc = "running" THEN "signalled" ELSE proc
      /\ inTable' = inTable /\ promise' = promise
      /\ req' = req /\ pages' = pages /\ conn' = conn
  BY DEF IdleTimerFires
<1>4. promise # "none"
  BY <1>1 DEF IdleTimerFires, LifeCycle, NewEntry
<1>5. TypeOK'
  BY <1>1, <1>2, <1>3 DEF TypeOK
<1>6. LifeCycle'
  BY <1>1, <1>2, <1>3, <1>4 DEF LifeCycle
<1>7. UnusedWorkerIsDoomed'
  BY <1>3 DEF UnusedWorkerIsDoomed
<1> QED BY <1>1, <1>2, <1>3, <1>5, <1>6, <1>7, WorkerStepIInv

\* ProcessExits: the entry does not know yet.
LEMMA ProcessExitsIInv == ASSUME IInv, ProcessExits PROVE IInv'
<1>1. TypeOK /\ LifeCycle /\ QueueInOrder(entry)
  BY DEF IInv
<1>2. /\ proc \in {"running", "signalled"} /\ proc' = "dead"
      /\ inTable' = inTable /\ promise' = promise /\ entry' = entry
      /\ req' = req /\ pages' = pages /\ conn' = conn
  BY DEF ProcessExits
<1>3. TypeOK' /\ LifeCycle' /\ UnusedWorkerIsDoomed'
  BY <1>1, <1>2 DEF TypeOK, LifeCycle, UnusedWorkerIsDoomed
<1> QED BY <1>1, <1>2, <1>3, WorkerStepIInv

\* ExitHandled closes the entry, whose counters stop counting.
LEMMA ExitHandledIInv == ASSUME IInv, ExitHandled PROVE IInv'
<1>1. /\ TypeOK /\ LifeCycle /\ QueueInOrder(entry)
      /\ entry \in Entries
  BY DEF IInv, TypeOK
<1>2. /\ Close(entry) \in Entries
      /\ Close(entry).conns = entry.conns
      /\ Close(entry).idleTimer = entry.idleTimer
      /\ QueueInOrder(Close(entry))
      /\ Close(entry).closed
  BY <1>1, CloseFacts
<1>3. /\ entry' \in Entries
      /\ entry'.conns = entry.conns
      /\ entry'.idleTimer = entry.idleTimer
      /\ QueueInOrder(entry')
      /\ ~entry'.closed => entry' = entry
  BY <1>1, <1>2 DEF ExitHandled
<1>4. /\ proc = "dead" /\ proc' = "reaped"
      /\ inTable' = FALSE
      /\ promise' = IF promise = "pending" THEN "rejected" ELSE promise
      /\ req' = req /\ pages' = pages /\ conn' = conn
  BY DEF ExitHandled
<1>5. promise' \in {"fulfilled", "rejected"}
  BY <1>1, <1>4 DEF TypeOK, LifeCycle
<1>6. TypeOK'
  BY <1>1, <1>3, <1>4, <1>5 DEF TypeOK
<1>7. LifeCycle'
  BY <1>1, <1>3, <1>4, <1>5 DEF LifeCycle, Clients
<1>8. UnusedWorkerIsDoomed'
  BY <1>4 DEF UnusedWorkerIsDoomed
<1> QED BY <1>1, <1>3, <1>4, <1>6, <1>7, <1>8, WorkerStepIInv

\* A request refused or answered changes no counter.
LEMMA AnswerIInv ==
  ASSUME IInv, NEW r \in Requests,
         ProxySuccess(r) \/ \E kind \in UrlKinds : HttpRefused(r, kind)
  PROVE  IInv'
<1>1. TypeOK /\ LifeCycle /\ UnusedWorkerIsDoomed
  BY DEF IInv
<1>2. /\ UNCHANGED <<entry, inTable, promise, proc, pages, conn>>
      /\ req' \in [Requests -> {"new", "open", "succeeded", "done", "refused"}]
      /\ \A q \in Requests :
           /\ req'[q] \in {"open", "succeeded"} <=>
                req[q] \in {"open", "succeeded"}
           /\ req[q] \in {"open", "succeeded", "done"} =>
                req'[q] \in {"open", "succeeded", "done"}
  BY <1>1 DEF TypeOK, ProxySuccess, HttpRefused
<1>3. /\ OpenRequests' = OpenRequests
      /\ OpenPages' = OpenPages
      /\ OpenConns' = OpenConns
  BY <1>2 DEF OpenRequests, OpenPages, OpenConns
<1>4. TypeOK'
  BY <1>1, <1>2 DEF TypeOK
<1>5. LifeCycle'
  BY <1>1, <1>2, <1>3 DEF LifeCycle, TypeOK
<1>6. UnusedWorkerIsDoomed'
  BY <1>1, <1>2 DEF UnusedWorkerIsDoomed
<1>7. CountersMatch' /\ ReservationsBacked' /\ SessionLimit'
  BY <1>2, <1>3
     DEF IInv, CountersMatch, ReservationsBacked, SessionLimit
<1>8. QueueInOrder(entry)'
  BY <1>2 DEF IInv, QueueInOrder
<1> QED BY <1>4, <1>5, <1>6, <1>7, <1>8 DEF IInv

\* A connection that is refused changes no counter either.
LEMMA SockRefusedIInv ==
  ASSUME IInv, NEW c \in Conns, SockRefused(c)
  PROVE  IInv'
<1>1. TypeOK /\ LifeCycle /\ UnusedWorkerIsDoomed
  BY DEF IInv
<1>2. UNCHANGED <<entry, inTable, promise, proc, req, pages>>
  BY DEF SockRefused
<1>3. /\ OpenRequests' = OpenRequests
      /\ OpenPages' = OpenPages
      /\ OpenConns' = OpenConns
  BY <1>1, <1>2
     DEF OpenRequests, OpenPages, OpenConns, TypeOK, SockRefused
<1>4. TypeOK'
  BY <1>1, <1>2 DEF TypeOK, SockRefused
<1>5. LifeCycle'
  BY <1>1, <1>2, <1>3 DEF LifeCycle
<1>6. UnusedWorkerIsDoomed'
  BY <1>1, <1>2 DEF UnusedWorkerIsDoomed
<1>7. CountersMatch' /\ ReservationsBacked' /\ SessionLimit'
  BY <1>2, <1>3
     DEF IInv, CountersMatch, ReservationsBacked, SessionLimit
<1>8. QueueInOrder(entry)'
  BY <1>2 DEF IInv, QueueInOrder
<1> QED BY <1>4, <1>5, <1>6, <1>7, <1>8 DEF IInv

\* The invariant is inductive.
LEMMA StepIInv == IInv /\ [Next]_vars => IInv'
<1> SUFFICES ASSUME IInv, [Next]_vars PROVE IInv'
  OBVIOUS
<1>1. ASSUME NEW r \in Requests, RequestStep(r) PROVE IInv'
  BY <1>1, HttpRequestIInv, AnswerIInv, ResponseEndsIInv DEF RequestStep
<1>2. ASSUME NEW c \in Conns, ConnStep(c) PROVE IInv'
  BY <1>2, SockConnectsIInv, SockRefusedIInv, SockClosesIInv DEF ConnStep
<1>3. CASE WorkerStep
  BY <1>3, LaunchedIInv, LaunchFailsIInv, BecomesReadyIInv, InitTimesOutIInv,
     IdleTimerFiresIInv, PendingReleaseTimerFiresIInv, ProcessExitsIInv,
     ExitHandledIInv DEF WorkerStep
<1>4. CASE UNCHANGED vars
  <2>1. /\ OpenRequests' = OpenRequests
        /\ OpenPages' = OpenPages
        /\ OpenConns' = OpenConns
    BY <1>4 DEF vars, OpenRequests, OpenPages, OpenConns
  <2>2. /\ TypeOK' /\ LifeCycle' /\ QueueInOrder(entry)'
        /\ UnusedWorkerIsDoomed'
    BY <1>4, <2>1 DEF vars, IInv, TypeOK, LifeCycle, UnusedWorkerIsDoomed
  <2>3. CountersMatch' /\ ReservationsBacked' /\ SessionLimit'
    BY <1>4, <2>1
       DEF vars, IInv, CountersMatch, ReservationsBacked, SessionLimit
  <2> QED BY <2>2, <2>3 DEF IInv
<1> QED BY <1>1, <1>2, <1>3, <1>4 DEF Next

-----------------------------------------------------------------------------
(* Theorems                                                                *)

\* The inductive invariant: the counters, the release timers, the admission
\* limit and the life cycle of the worker hold together in every reachable
\* state.
THEOREM InductiveInvariant == Spec => []IInv
<1>1. Init => IInv
  BY InitIInv
<1>2. IInv /\ [Next]_vars => IInv'
  BY StepIInv
<1> QED BY <1>1, <1>2, PTL DEF Spec

\* Type correctness.
THEOREM TypeCorrect == Spec => []TypeOK
<1>1. IInv => TypeOK
  BY DEF IInv
<1> QED BY <1>1, InductiveInvariant, PTL

\* Every acquire() is matched by exactly one release(): the counters of an
\* entry in use are the numbers of open responses and connections.
THEOREM AcquireReleaseMatch == Spec => []CountersMatch
<1>1. IInv => CountersMatch
  BY DEF IInv
<1> QED BY <1>1, InductiveInvariant, PTL

\* No reservation is left without a page or a release timer to end it.
THEOREM ReservationsAreBacked == Spec => []ReservationsBacked
<1>1. IInv => ReservationsBacked
  BY DEF IInv
<1> QED BY <1>1, InductiveInvariant, PTL

\* maxRequests bounds the sessions of a worker.
THEOREM SessionsLimited == Spec => []SessionLimit
<1>1. IInv => SessionLimit
  BY DEF IInv
<1> QED BY <1>1, InductiveInvariant, PTL

\* Release timers fire from the front of their queue.
THEOREM TimersFireInOrder == Spec => []DueTimerAtFront
<1>1. IInv => DueTimerAtFront
  BY DueIsFront DEF IInv, TypeOK, DueTimerAtFront
<1> QED BY <1>1, InductiveInvariant, PTL

\* A ready worker nobody uses has its idle timer armed, or is ending.
THEOREM UnusedWorkersDoomed == Spec => []UnusedWorkerIsDoomed
<1>1. IInv => UnusedWorkerIsDoomed
  BY DEF IInv
<1> QED BY <1>1, InductiveInvariant, PTL

\* Only the idle timeout signals a process, and its timer is armed only when
\* the counters, and so the clients, are none.
LEMMA StepNeverReapedInUse ==
  ASSUME IInv, [Next]_vars, proc = "running", proc' = "signalled"
  PROVE  OpenRequests = {} /\ OpenConns = {} /\ entry.conns["pending"] = 0
<1>1. IdleTimerFires
  BY DEF Next, RequestStep, ConnStep, WorkerStep, vars, HttpRequest,
         HttpRefused, ProxySuccess, ResponseEnds, SockConnects, SockRefused,
         SockCloses, Launched, LaunchFails, BecomesReady, InitTimesOut,
         PendingReleaseTimerFires, ProcessExits, ExitHandled
<1>2. Clients(entry) = 0 /\ ~entry.closed /\ entry \in Entries
  BY <1>1 DEF IInv, TypeOK, LifeCycle, IdleTimerFires
<1>3. /\ entry.conns["http"] = 0
      /\ entry.conns["sock"] = 0
      /\ entry.conns["pending"] = 0
  BY <1>2, EntryTypes DEF Clients
<1>4. Cardinality(OpenRequests) = 0 /\ Cardinality(OpenConns) = 0
  BY <1>2, <1>3 DEF IInv, CountersMatch
<1> QED BY <1>3, <1>4, OpenSetsFinite, FS_EmptySet

\* The idle timeout never interrupts a process that is in use, or about to.
THEOREM IdleTimeoutIsSafe == Spec => NeverReapedInUse
<1>1. IInv /\ [Next]_vars =>
        [(proc = "running" /\ proc' = "signalled")
           => OpenRequests = {} /\ OpenConns = {}
              /\ entry.conns["pending"] = 0]_vars
  BY StepNeverReapedInUse
<1> QED BY <1>1, InductiveInvariant, PTL DEF Spec, NeverReapedInUse

\* Nothing the pool is made of changes.
PoolUnchanged ==
  /\ OpenConns' = OpenConns
  /\ PlacesKept' = PlacesKept
  /\ RefusedRequests' = RefusedRequests
  /\ RefusedConns' = RefusedConns
  /\ Available' = Available

\* The reservations an entry counts are among the places that are kept.
LEMMA CountersOfPool ==
  ASSUME IInv, Available
  PROVE  /\ entry.conns["sock"] = Cardinality(OpenConns)
         /\ entry.conns["pending"] <= PlacesKept
         /\ entry.conns["sock"] \in Nat
         /\ entry.conns["pending"] \in Nat
         /\ PlacesKept \in Nat
<1>1. ~entry.closed
  BY AvailableNotClosed DEF IInv
<1>2. entry \in Entries
  BY DEF IInv, TypeOK
<1> QED BY <1>1, <1>2, EntryTypes, OpenSetsFinite
        DEF IInv, CountersMatch, ReservationsBacked, PlacesKept

\* A request that is admitted keeps a place if it is for an app page.
LEMMA HttpRequestSimulates ==
  ASSUME IInv, NEW r \in Requests, NEW kind \in UrlKinds, HttpRequest(r, kind)
  PROVE  Pool!Keep \/ PoolUnchanged
<1>1. TypeOK /\ LifeCycle /\ entry \in Entries
  BY DEF IInv, TypeOK
<1>2. /\ OpenRequests' = OpenRequests \cup {r}
      /\ r \notin OpenRequests /\ r \notin OpenPages /\ r \notin pages
  BY <1>1 DEF HttpRequest, OpenRequests, OpenPages, TypeOK, LifeCycle
<1>3. /\ OpenConns' = OpenConns
      /\ RefusedRequests' = RefusedRequests
      /\ RefusedConns' = RefusedConns
  BY <1>1 DEF HttpRequest, OpenConns, RefusedRequests, RefusedConns, TypeOK
<1>4. Available = TRUE /\ Available' = TRUE
  BY <1>1 DEF HttpRequest, GetWorker, Available, TypeOK
<1>5. /\ Acquire(entry, "http") \in Entries
      /\ Acquire(entry, "http").releaseTimers = entry.releaseTimers
  BY <1>1, AcquireFacts DEF ConnTypes, SameQueue
<1>6. CASE IsAppPage(kind)
  <2>1. OpenPages' = OpenPages \cup {r}
    BY <1>2, <1>6 DEF HttpRequest, OpenPages
  <2>2. Cardinality(OpenPages') = Cardinality(OpenPages) + 1
    BY <1>2, <2>1, OpenSetsFinite, CardinalityAdd
  <2>3. entry'.releaseTimers = entry.releaseTimers
    BY <1>5, <1>6, AcquireFacts DEF HttpRequest, ConnTypes, SameQueue
  <2>4. PlacesKept' = PlacesKept + 1
    BY <1>1, <2>2, <2>3, OpenSetsFinite, EntryTypes DEF PlacesKept
  <2> QED BY <1>3, <1>4, <2>4 DEF Pool!Keep
<1>7. CASE ~IsAppPage(kind)
  <2>1. OpenPages' = OpenPages
    BY <1>2, <1>7 DEF HttpRequest, OpenPages
  <2>2. entry'.releaseTimers = entry.releaseTimers
    BY <1>5, <1>7 DEF HttpRequest
  <2>3. PlacesKept' = PlacesKept
    BY <2>1, <2>2 DEF PlacesKept
  <2> QED BY <1>3, <1>4, <2>3 DEF PoolUnchanged
<1> QED BY <1>6, <1>7

\* A request that is refused finds every place taken or kept.
LEMMA HttpRefusedSimulates ==
  ASSUME IInv, NEW r \in Requests, NEW kind \in UrlKinds, HttpRefused(r, kind)
  PROVE  Pool!TurnAwayPage(r)
<1>1. TypeOK
  BY DEF IInv
<1>2. /\ OpenConns' = OpenConns
      /\ RefusedRequests' = RefusedRequests \cup {r}
      /\ RefusedConns' = RefusedConns
      /\ Available = TRUE /\ Available' = TRUE
      /\ OpenPages' = OpenPages
  BY <1>1 DEF HttpRefused, OpenConns, RefusedRequests, RefusedConns, TypeOK,
              Available, OpenPages, OpenRequests
<1>3. PlacesKept' = PlacesKept
  BY <1>2 DEF HttpRefused, PlacesKept
<1>4. ~AdmitsRoot(entry)
  BY DEF HttpRefused, AdmitsHttp
<1>5. /\ MaxRequests > 0
      /\ Cardinality(OpenConns) + PlacesKept >= MaxRequests
  BY <1>2, <1>4, CountersOfPool, SessionsAssumption
     DEF AdmitsRoot, SessionCount
<1>6. Pool!Cardinality(OpenConns) = Cardinality(OpenConns)
  BY DEF Pool!Cardinality, Cardinality
<1> QED BY <1>2, <1>3, <1>5, <1>6 DEF Pool!TurnAwayPage, Pool!Limited

\* A response that ends hands its place on to a release timer, or gives it up.
LEMMA ResponseEndsSimulates ==
  ASSUME IInv, NEW r \in Requests, ResponseEnds(r)
  PROVE  Pool!GiveUp \/ PoolUnchanged
<1> DEFINE released == Release(entry, "http")
<1>1. TypeOK /\ entry \in Entries /\ QueueInOrder(entry)
  BY DEF IInv, TypeOK
<1>2. /\ r \in OpenRequests
      /\ OpenRequests' = OpenRequests \ {r}
      /\ pages' = pages
  BY <1>1 DEF ResponseEnds, OpenRequests, TypeOK
<1>3. /\ OpenConns' = OpenConns
      /\ RefusedRequests' = RefusedRequests
      /\ RefusedConns' = RefusedConns
      /\ Available' = Available
  BY <1>1 DEF ResponseEnds, OpenConns, RefusedRequests, RefusedConns, TypeOK,
              Available
<1>4. /\ released \in Entries
      /\ released.releaseTimers = entry.releaseTimers
      /\ QueueInOrder(released)
  <2>1. released \in Entries /\ SameQueue(entry, released)
    BY <1>1, ReleaseFacts DEF ConnTypes
  <2> QED BY <1>1, <2>1, SameQueueInOrder DEF SameQueue
<1>5. CASE r \notin pages
  <2>1. OpenPages' = OpenPages
    BY <1>2, <1>5 DEF OpenPages
  <2>2. entry'.releaseTimers = entry.releaseTimers
    BY <1>4, <1>5 DEF ResponseEnds
  <2> QED BY <1>3, <2>1, <2>2 DEF PoolUnchanged, PlacesKept
<1>6. CASE r \in pages
  <2>1. OpenPages' = OpenPages \ {r} /\ r \in OpenPages
    BY <1>2, <1>6 DEF OpenPages
  <2>2. Cardinality(OpenPages') = Cardinality(OpenPages) - 1
    BY <2>1, OpenSetsFinite, CardinalityRemove
  <2>3. CASE req[r] = "succeeded"
    <3>1. entry' = PushPendingReleaseTimer(released)
      BY <1>6, <2>3 DEF ResponseEnds
    <3>2. Len(entry'.releaseTimers) = Len(entry.releaseTimers) + 1
      BY <1>4, <3>1, PushFacts
    <3>3. PlacesKept' = PlacesKept
      BY <1>1, <2>2, <3>2, OpenSetsFinite, EntryTypes DEF PlacesKept
    <3> QED BY <1>3, <3>3 DEF PoolUnchanged
  <2>4. CASE req[r] # "succeeded"
    <3>1. entry' = Release(released, "pending")
      BY <1>6, <2>4 DEF ResponseEnds
    <3>2. entry'.releaseTimers = entry.releaseTimers
      BY <1>4, <3>1, ReleaseFacts DEF ConnTypes, SameQueue
    <3>3. PlacesKept' = PlacesKept - 1
      BY <1>1, <2>2, <3>2, OpenSetsFinite, EntryTypes DEF PlacesKept
    <3> QED BY <1>3, <3>3 DEF Pool!GiveUp
  <2> QED BY <2>3, <2>4
<1> QED BY <1>5, <1>6

\* A connection that is admitted finds a place, and may use one kept.
LEMMA SockConnectsSimulates ==
  ASSUME IInv, NEW c \in Conns, SockConnects(c)
  PROVE  Pool!Open(c)
<1> DEFINE shifted == ShiftPendingReleaseTimer(entry)
           released == Release(shifted, "pending")
<1>1. TypeOK /\ LifeCycle /\ entry \in Entries /\ QueueInOrder(entry)
  BY DEF IInv, TypeOK
<1>2. /\ OpenConns' = OpenConns \cup {c} /\ c \notin OpenConns
      /\ RefusedRequests' = RefusedRequests
      /\ RefusedConns' = RefusedConns
      /\ Available = TRUE /\ Available' = TRUE
      /\ OpenPages' = OpenPages
      /\ AdmitsSock(entry)
  BY <1>1 DEF SockConnects, GetWorker, Available, OpenConns, RefusedRequests,
              RefusedConns, OpenPages, OpenRequests, TypeOK
<1>3. MaxRequests > 0 => Cardinality(OpenConns) < MaxRequests
  BY <1>2, CountersOfPool, SessionsAssumption
     DEF AdmitsSock, AdmitsRoot, SessionCount
<1>4. /\ shifted \in Entries
      /\ Len(shifted.releaseTimers) \in
           {Len(entry.releaseTimers), Len(entry.releaseTimers) - 1}
  BY <1>1, ShiftFacts
<1>5. entry'.releaseTimers = shifted.releaseTimers
  <2>1. released \in Entries /\ released.releaseTimers = shifted.releaseTimers
    BY <1>4, ReleaseFacts DEF ConnTypes, SameQueue
  <2>2. entry' = Acquire(released, "sock")
    BY DEF SockConnects
  <2> HIDE DEF released
  <2> QED BY <2>1, <2>2, AcquireFacts DEF ConnTypes, SameQueue
<1>6. PlacesKept' \in {PlacesKept, PlacesKept - 1}
  <2>1. Len(entry'.releaseTimers) \in
          {Len(entry.releaseTimers), Len(entry.releaseTimers) - 1}
    BY <1>4, <1>5
  <2>2. PlacesKept' = Cardinality(OpenPages) + Len(entry'.releaseTimers)
    BY <1>2 DEF PlacesKept
  <2>3. Cardinality(OpenPages) \in Nat /\ Len(entry.releaseTimers) \in Nat
    BY <1>1, OpenSetsFinite, EntryTypes
  <2> QED BY <2>1, <2>2, <2>3 DEF PlacesKept
<1>7. Pool!Cardinality(OpenConns) = Cardinality(OpenConns)
  BY DEF Pool!Cardinality, Cardinality
<1> QED BY <1>2, <1>3, <1>6, <1>7 DEF Pool!Open, Pool!Limited

\* A connection that is refused finds every place taken, or more taken and
\* kept than there are.
LEMMA SockRefusedSimulates ==
  ASSUME IInv, NEW c \in Conns, SockRefused(c)
  PROVE  Pool!TurnAwaySession(c)
<1>1. TypeOK
  BY DEF IInv
<1>2. /\ OpenConns' = OpenConns
      /\ RefusedRequests' = RefusedRequests
      /\ RefusedConns' = RefusedConns \cup {c}
      /\ Available = TRUE /\ Available' = TRUE
      /\ OpenPages' = OpenPages
      /\ ~AdmitsSock(entry)
  BY <1>1 DEF SockRefused, OpenConns, RefusedRequests, RefusedConns, TypeOK,
              Available, OpenPages, OpenRequests
<1>3. PlacesKept' = PlacesKept
  BY <1>2 DEF SockRefused, PlacesKept
<1>4. /\ MaxRequests > 0
      /\ \/ Cardinality(OpenConns) >= MaxRequests
         \/ Cardinality(OpenConns) + PlacesKept > MaxRequests
  BY <1>2, CountersOfPool, SessionsAssumption
     DEF AdmitsSock, AdmitsRoot, SessionCount
<1>5. Pool!Cardinality(OpenConns) = Cardinality(OpenConns)
  BY DEF Pool!Cardinality, Cardinality
<1> QED BY <1>2, <1>3, <1>4, <1>5 DEF Pool!TurnAwaySession, Pool!Limited

\* A session that ends touches no place that is kept.
LEMMA SockClosesSimulates ==
  ASSUME IInv, NEW c \in Conns, SockCloses(c)
  PROVE  Pool!Leave(c)
<1>1. TypeOK /\ entry \in Entries
  BY DEF IInv, TypeOK
<1>2. /\ c \in OpenConns /\ OpenConns' = OpenConns \ {c}
      /\ RefusedRequests' = RefusedRequests
      /\ RefusedConns' = RefusedConns
      /\ Available' = Available
      /\ OpenPages' = OpenPages
  BY <1>1 DEF SockCloses, OpenConns, RefusedRequests, RefusedConns, Available,
              OpenPages, OpenRequests, TypeOK
<1>3. entry'.releaseTimers = entry.releaseTimers
  BY <1>1, ReleaseFacts DEF SockCloses, ConnTypes, SameQueue
<1> QED BY <1>2, <1>3 DEF Pool!Leave, PlacesKept

\* A release timer that fires gives up the place it stood for.
LEMMA PendingReleaseTimerFiresSimulates ==
  ASSUME IInv, PendingReleaseTimerFires
  PROVE  Pool!GiveUp
<1>1. entry \in Entries /\ QueueInOrder(entry)
  BY DEF IInv, TypeOK
<1>2. PICK t \in entry.armed :
        Due(entry, t) /\ entry' = PendingReleaseTimerFired(entry, t)
  BY DEF PendingReleaseTimerFires
<1>3. PICK g \in Entries :
        /\ entry' = Release(g, "pending")
        /\ Len(g.releaseTimers) = Len(entry.releaseTimers) - 1
  BY <1>1, <1>2, FireFacts
<1>4. entry'.releaseTimers = g.releaseTimers
  BY <1>3, ReleaseFacts DEF ConnTypes, SameQueue
<1>5. /\ OpenConns' = OpenConns
      /\ RefusedRequests' = RefusedRequests
      /\ RefusedConns' = RefusedConns
      /\ Available' = Available
      /\ OpenPages' = OpenPages
  BY DEF PendingReleaseTimerFires, OpenConns, RefusedRequests, RefusedConns,
         Available, OpenPages, OpenRequests
<1>6. PlacesKept' = PlacesKept - 1
  <2>1. Len(entry'.releaseTimers) = Len(entry.releaseTimers) - 1
    BY <1>3, <1>4
  <2>2. PlacesKept' = Cardinality(OpenPages) + Len(entry'.releaseTimers)
    BY <1>5 DEF PlacesKept
  <2>3. Cardinality(OpenPages) \in Nat /\ Len(entry.releaseTimers) \in Nat
    BY <1>1, OpenSetsFinite, EntryTypes
  <2> QED BY <2>1, <2>2, <2>3 DEF PlacesKept
<1> QED BY <1>5, <1>6 DEF Pool!GiveUp

\* A worker that leaves the table, or never gets into it, takes no session
\* any more; close() may forget the pages served.
LEMMA RetireSimulates ==
  ASSUME IInv, LaunchFails \/ InitTimesOut \/ ExitHandled
  PROVE  Pool!Retire \/ PoolUnchanged
<1>1. TypeOK /\ LifeCycle /\ entry \in Entries /\ QueueInOrder(entry)
  BY DEF IInv, TypeOK
<1>2. /\ OpenConns' = OpenConns
      /\ RefusedRequests' = RefusedRequests
      /\ RefusedConns' = RefusedConns
      /\ OpenPages' = OpenPages
  BY DEF LaunchFails, InitTimesOut, ExitHandled, OpenConns, RefusedRequests,
         RefusedConns, OpenPages, OpenRequests
<1>3. Available' = FALSE /\ Available \in BOOLEAN
  BY <1>1 DEF LaunchFails, InitTimesOut, ExitHandled, Reject, Available,
              LifeCycle, TypeOK
<1>4. entry' \in {entry, Close(entry)}
  BY DEF LaunchFails, InitTimesOut, ExitHandled
<1>5. Len(entry'.releaseTimers) \in 0..Len(entry.releaseTimers)
  <2>1. Len(entry.releaseTimers) \in Nat
    BY <1>1, EntryTypes
  <2>2. Close(entry).releaseTimers = << >>
    BY <1>1 DEF Close, Entries
  <2> QED BY <1>4, <2>1, <2>2
<1>6. PlacesKept' \in 0..PlacesKept
  BY <1>1, <1>2, <1>5, OpenSetsFinite, EntryTypes DEF PlacesKept
<1>7. CASE Available
  BY <1>2, <1>3, <1>6, <1>7 DEF Pool!Retire
<1>8. CASE ~Available
  <2>1. entry' = entry
    BY <1>1, <1>8
       DEF Available, LaunchFails, InitTimesOut, ExitHandled, LifeCycle
  <2> QED BY <1>2, <1>3, <1>8, <2>1 DEF PoolUnchanged, PlacesKept
<1> QED BY <1>3, <1>7, <1>8

\* The steps that only concern the process and its idle timer.
LEMMA ProcessStepSimulates ==
  ASSUME IInv,
         \/ Launched \/ BecomesReady \/ IdleTimerFires \/ ProcessExits
         \/ (\E r \in Requests : ProxySuccess(r)) \/ UNCHANGED vars
  PROVE  PoolUnchanged
<1>1. TypeOK /\ LifeCycle /\ entry \in Entries
  BY DEF IInv, TypeOK
<1>2. /\ OpenConns' = OpenConns
      /\ RefusedRequests' = RefusedRequests
      /\ RefusedConns' = RefusedConns
      /\ OpenRequests' = OpenRequests
      /\ pages' = pages
  BY <1>1 DEF Launched, BecomesReady, IdleTimerFires, ProcessExits,
         ProxySuccess, vars, OpenConns, RefusedRequests, RefusedConns,
         OpenRequests, TypeOK
<1>3. Available' = Available
  BY <1>1 DEF Launched, BecomesReady, IdleTimerFires, ProcessExits,
         ProxySuccess, vars, Available
<1>4. entry'.releaseTimers = entry.releaseTimers
  BY <1>1, StartIdleTimerFacts
     DEF Launched, BecomesReady, IdleTimerFires, ProcessExits, ProxySuccess,
         vars, IdleTimerFired, Entries, SameQueue
<1> QED BY <1>2, <1>3, <1>4 DEF PoolUnchanged, PlacesKept, OpenPages

\* Every step is a step of the abstract session pool, or none at all.
LEMMA StepSimulates ==
  ASSUME IInv, [Next]_vars
  PROVE  [Pool!Next]_(Pool!vars)
<1>1. ASSUME PoolUnchanged PROVE UNCHANGED Pool!vars
  BY <1>1 DEF PoolUnchanged, Pool!vars
<1>2. ASSUME NEW r \in Requests, RequestStep(r)
      PROVE  [Pool!Next]_(Pool!vars)
  <2>1. ASSUME NEW kind \in UrlKinds, HttpRequest(r, kind)
        PROVE  [Pool!Next]_(Pool!vars)
    BY <1>1, <2>1, HttpRequestSimulates DEF Pool!Next
  <2>2. ASSUME NEW kind \in UrlKinds, HttpRefused(r, kind)
        PROVE  [Pool!Next]_(Pool!vars)
    BY <2>2, HttpRefusedSimulates DEF Pool!Next
  <2>3. CASE ProxySuccess(r)
    BY <1>1, <2>3, ProcessStepSimulates
  <2>4. CASE ResponseEnds(r)
    BY <1>1, <2>4, ResponseEndsSimulates DEF Pool!Next
  <2> QED BY <1>2, <2>1, <2>2, <2>3, <2>4 DEF RequestStep
<1>3. ASSUME NEW c \in Conns, ConnStep(c)
      PROVE  [Pool!Next]_(Pool!vars)
  <2>1. Pool!Open(c) \/ Pool!Leave(c) \/ Pool!TurnAwaySession(c)
    BY <1>3, SockConnectsSimulates, SockRefusedSimulates, SockClosesSimulates
       DEF ConnStep
  <2> QED BY <2>1 DEF Pool!Next
<1>4. CASE WorkerStep
  <2>1. CASE LaunchFails \/ InitTimesOut \/ ExitHandled
    BY <1>1, <2>1, RetireSimulates DEF Pool!Next
  <2>2. CASE PendingReleaseTimerFires
    BY <2>2, PendingReleaseTimerFiresSimulates DEF Pool!Next
  <2>3. CASE Launched \/ BecomesReady \/ IdleTimerFires \/ ProcessExits
    BY <1>1, <2>3, ProcessStepSimulates
  <2> QED BY <1>4, <2>1, <2>2, <2>3 DEF WorkerStep
<1>5. CASE UNCHANGED vars
  BY <1>1, <1>5, ProcessStepSimulates
<1> QED BY <1>2, <1>3, <1>4, <1>5 DEF Next

\* The counters, the reservations and the admission rules implement a pool
\* of at most maxRequests sessions that turns nobody away but when its places
\* are taken or kept, and never reopens once retired.
THEOREM SessionPoolImplemented == Spec => ImplementsSessionPool
<1>1. Init => Pool!Init
  <2> SUFFICES ASSUME Init PROVE Pool!Init
    OBVIOUS
  <2>1. OpenConns = {} /\ RefusedRequests = {} /\ RefusedConns = {}
        /\ OpenPages = {} /\ Available = TRUE
    BY DEF Init, OpenConns, RefusedRequests, RefusedConns, OpenPages,
           OpenRequests, Available
  <2>2. Len(entry.releaseTimers) = 0
    BY DEF Init, NewEntry
  <2>3. PlacesKept = 0
    BY <2>1, <2>2, FS_EmptySet DEF PlacesKept
  <2> QED BY <2>1, <2>3 DEF Pool!Init
<1>2. IInv /\ [Next]_vars => [Pool!Next]_(Pool!vars)
  BY StepSimulates
<1> QED BY <1>1, <1>2, InductiveInvariant, PTL
        DEF Spec, ImplementsSessionPool, Pool!Spec

=============================================================================

----------------------- MODULE SchedulerRegistryProofs -----------------------
(***************************************************************************)
(* The invariants of SchedulerRegistry, for any number of apps,            *)
(* schedulers, workers and clients.                                        *)
(***************************************************************************)
EXTENDS SchedulerRegistry, TLAPS

\* The operators on an entry return an entry.
LEMMA EntryOperators ==
  ASSUME NEW e \in Entries
  PROVE  /\ Acquire(e, "http") \in Entries
         /\ Release(e, "http") \in Entries
         /\ StartIdleTimer(e) \in Entries
         /\ IdleTimerFired(e) \in Entries
         /\ Close(e) \in Entries
<1>1. Acquire(e, "http") \in Entries
  <2> DEFINE n == [e.conns EXCEPT !["http"] = @ + 1]
  <2>1. n \in [ConnTypes -> Nat] /\ Acquire(e, "http") = [e EXCEPT !.conns = n, !.idleTimer = FALSE]
    BY DEF Entries, Acquire, ConnTypes
  <2> HIDE DEF n
  <2> QED BY <2>1 DEF Entries
<1>2. IdleTimerFired(e) \in Entries
  BY DEF IdleTimerFired, Entries
<1>3. Close(e) \in Entries
  <2> DEFINE d == e.armed \ {e.releaseTimers[i] : i \in DOMAIN e.releaseTimers}
  <2>1. Close(e) =
          [e EXCEPT !.closed = TRUE, !.armed = d, !.releaseTimers = << >>]
    BY DEF Close, Entries
  <2>2. d \in SUBSET Nat
    BY DEF Entries
  <2>3. << >> \in Seq(Nat)
    OBVIOUS
  <2> HIDE DEF d
  <2> QED BY <2>1, <2>2, <2>3 DEF Entries
<1>4. ASSUME NEW f \in Entries PROVE StartIdleTimer(f) \in Entries
  BY IdleReapingAssumption DEF StartIdleTimer, Clients, Entries, ConnTypes
<1>5. Release(e, "http") \in Entries
  <2> DEFINE n == [e.conns EXCEPT !["http"] = IF @ > 0 THEN @ - 1 ELSE 0]
             f == [e EXCEPT !.conns = n]
  <2>1. n \in [ConnTypes -> Nat] /\ (Release(e, "http") = e \/ Release(e, "http") = StartIdleTimer(f))
    BY DEF Entries, Release, ConnTypes
  <2>2. f \in Entries
    <3> HIDE DEF n
    <3> QED BY <2>1 DEF Entries
  <2> HIDE DEF f
  <2> QED BY <1>4, <2>1, <2>2
<1> QED BY <1>1, <1>2, <1>3, <1>4, <1>5

\* As long as no start has timed out, a scheduler that has a worker is the
\* one the registry has for its app.
LEMMA WorkerOfRegistered ==
  ASSUME IInv, NoStartTimedOut,
         NEW s \in Schedulers, NEW w \in Workers, w \in workers[s]
  PROVE  app[s] \in Apps /\ schedulers[app[s]] = s
<1>1. owner[w] = s
  BY DEF IInv, TableHoldsLiveWorkers
<1>2. PICK a \in Apps : schedulers[a] # None /\ w \in workers[schedulers[a]]
  BY DEF IInv, WorkersReachable, Reachable
<1>3. schedulers[a] \in Schedulers
  BY <1>2 DEF IInv, TypeOK
<1>4. schedulers[a] = s
  BY <1>1, <1>2, <1>3 DEF IInv, TableHoldsLiveWorkers
<1> QED BY <1>2, <1>4 DEF IInv, Isolation

\* Nothing has been requested yet.
LEMMA InitIInv == Init => IInv
<1> SUFFICES ASSUME Init PROVE IInv
  OBVIOUS
<1>1. TypeOK
  BY DEF Init, TypeOK, NewEntry, Entries, ConnTypes
<1>2. /\ TableHoldsLiveWorkers /\ AtMostOneWorker /\ Isolation
      /\ WorkersReachable /\ LifeCycle
  BY DEF Init, TableHoldsLiveWorkers, AtMostOneWorker, Isolation,
         WorkersReachable, LifeCycle
<1> QED BY <1>1, <1>2 DEF IInv

-----------------------------------------------------------------------------
(* Requests                                                                *)

\* A request registers a scheduler, spawns a worker, both, or neither.
LEMMA GetWorkerIInv ==
  ASSUME IInv, NEW a \in Apps, NEW s \in Schedulers, NEW w \in Workers,
         GetWorker(a, s, w)
  PROVE  IInv'
<1>1. /\ TypeOK /\ TableHoldsLiveWorkers /\ AtMostOneWorker /\ Isolation
      /\ LifeCycle
      /\ None \notin Schedulers /\ None \notin Apps
  BY RegistryAssumption DEF IInv
<1>2. /\ GetScheduler(a, s) /\ AcquireWorker(s, w)
      /\ proc' = proc /\ server' = server
  BY DEF GetWorker
<1>3. \/ /\ schedulers[a] = s /\ app[s] = a
         /\ schedulers' = schedulers /\ app' = app
      \/ /\ schedulers[a] = None /\ app[s] = None /\ workers[s] = {}
         /\ schedulers' = [schedulers EXCEPT ![a] = s]
         /\ app' = [app EXCEPT ![s] = a]
  <2>1. CASE schedulers[a] = s /\ UNCHANGED <<schedulers, app>>
    BY <1>1, <2>1 DEF Isolation
  <2>2. CASE /\ schedulers[a] = None /\ app[s] = None
             /\ schedulers' = [schedulers EXCEPT ![a] = s]
             /\ app' = [app EXCEPT ![s] = a]
    <3>1. ASSUME NEW v \in workers[s] PROVE FALSE
      <4>1. v \in Workers
        BY <1>1 DEF TypeOK
      <4>2. owner[v] = s
        BY <1>1, <4>1 DEF TableHoldsLiveWorkers
      <4> QED BY <1>1, <2>2, <4>1, <4>2 DEF LifeCycle
    <3> QED BY <2>2, <3>1
  <2> QED BY <1>2, <2>1, <2>2 DEF GetScheduler
<1>4. /\ schedulers' \in [Apps -> Schedulers \cup {None}]
      /\ app' \in [Schedulers -> Apps \cup {None}]
      /\ schedulers'[a] = s /\ app'[s] = a
      /\ \A r \in Schedulers \ {s} : app'[r] = app[r]
      /\ \A b \in Apps \ {a} : schedulers'[b] = schedulers[b]
      /\ \A r \in Schedulers : app[r] # None => app'[r] = app[r]
  BY <1>1, <1>3 DEF TypeOK
<1>5. ASSUME NEW v \in Workers, owner[v] # None
      PROVE  app'[owner[v]] # None
  <2>1. owner[v] \in Schedulers
    BY <1>1, <1>5 DEF TypeOK
  <2>2. app[owner[v]] # None
    BY <1>1, <1>5 DEF LifeCycle
  <2> QED BY <1>4, <2>1, <2>2
<1>6. Isolation'
  <2> SUFFICES ASSUME NEW b \in Apps, schedulers'[b] # None
               PROVE  app'[schedulers'[b]] = b
    BY DEF Isolation
  <2>1. CASE b = a
    BY <1>4, <2>1
  <2>2. CASE b # a
    BY <1>1, <1>4, <2>2 DEF Isolation, TypeOK
  <2> QED BY <2>1, <2>2
<1>7. entry' \in [Workers -> Entries]
  <2>1. Acquire(entry[w], "http") \in Entries
    BY <1>1, EntryOperators DEF TypeOK
  <2> QED BY <1>1, <1>2, <2>1 DEF AcquireWorker, TypeOK
<1>8. CASE /\ w \in workers[s]
           /\ UNCHANGED <<workers, owner, promise>>
  <2>1. TypeOK'
    BY <1>1, <1>2, <1>4, <1>7, <1>8 DEF TypeOK
  <2>2. TableHoldsLiveWorkers' /\ AtMostOneWorker'
    BY <1>1, <1>2, <1>8 DEF TableHoldsLiveWorkers, AtMostOneWorker
  <2>3. LifeCycle'
    BY <1>1, <1>2, <1>8, <1>5 DEF LifeCycle
  <2>4. WorkersReachable'
    BY <1>3, <1>8, <1>1
       DEF IInv, WorkersReachable, NoStartTimedOut, Reachable, TypeOK
  <2> QED BY <1>6, <2>1, <2>2, <2>3, <2>4 DEF IInv
<1>9. CASE /\ workers[s] = {}
           /\ owner[w] = None
           /\ workers' = [workers EXCEPT ![s] = {w}]
           /\ owner' = [owner EXCEPT ![w] = s]
           /\ promise' = [promise EXCEPT ![w] = "pending"]
  <2>1. promise[w] = "none" /\ proc[w] = "none"
    BY <1>1, <1>9 DEF LifeCycle
  <2>2. TypeOK'
    BY <1>1, <1>2, <1>4, <1>7, <1>9 DEF TypeOK
  <2>3. TableHoldsLiveWorkers'
    <3> SUFFICES ASSUME NEW r \in Schedulers, NEW v \in Workers
                 PROVE  v \in workers'[r] <=>
                          /\ owner'[v] = r
                          /\ promise'[v] \in {"pending", "fulfilled"}
                          /\ proc'[v] # "reaped"
      BY DEF TableHoldsLiveWorkers
    <3>1. v \in workers[r] <=> /\ owner[v] = r
                               /\ promise[v] \in {"pending", "fulfilled"}
                               /\ proc[v] # "reaped"
      BY <1>1 DEF TableHoldsLiveWorkers
    <3>2. CASE v = w
      BY <1>1, <1>2, <1>9, <2>1, <3>1, <3>2 DEF TypeOK
    <3>3. CASE v # w
      BY <1>1, <1>2, <1>9, <3>1, <3>3 DEF TypeOK
    <3> QED BY <3>2, <3>3
  <2>4. AtMostOneWorker'
    BY <1>1, <1>9 DEF AtMostOneWorker, TypeOK
  <2>5. LifeCycle'
    <3> SUFFICES ASSUME NEW v \in Workers
                 PROVE  /\ owner'[v] = None <=> promise'[v] = "none"
                        /\ owner'[v] # None => app'[owner'[v]] # None
                        /\ promise'[v] \in {"none", "launch failed"}
                             => proc'[v] = "none"
                        /\ promise'[v] = "exited during init"
                             => proc'[v] = "reaped"
      BY DEF LifeCycle
    <3>1. CASE v = w
      BY <1>1, <1>2, <1>4, <1>9, <2>1, <3>1 DEF TypeOK
    <3>2. CASE v # w
      <4>1. /\ owner'[v] = owner[v] /\ promise'[v] = promise[v]
            /\ proc'[v] = proc[v]
        BY <1>1, <1>2, <1>9, <3>2 DEF TypeOK
      <4> QED BY <1>1, <1>5, <4>1 DEF LifeCycle
    <3> QED BY <3>1, <3>2
  <2>6. ASSUME NoStartTimedOut', NEW r \in Schedulers, NEW v \in workers'[r]
        PROVE  Reachable(v)'
    <3>1. NoStartTimedOut
      BY <1>1, <1>9, <2>1, <2>6 DEF NoStartTimedOut, TypeOK
    <3>2. CASE r = s
      BY <1>1, <1>4, <1>9, <3>2, <2>6 DEF Reachable, TypeOK
    <3>3. CASE r # s
      <4>1. v \in workers[r] /\ v \in Workers
        BY <1>1, <1>9, <3>3, <2>6 DEF TypeOK
      <4>2. app[r] \in Apps /\ schedulers[app[r]] = r
        BY <3>1, <4>1, WorkerOfRegistered
      <4>3. app[r] # a
        BY <1>1, <1>3, <3>3, <4>2
      <4>4. schedulers'[app[r]] = r /\ v \in workers'[r]
        BY <1>4, <4>2, <4>3, <2>6
      <4> QED BY <1>1, <4>2, <4>4 DEF Reachable
    <3> QED BY <3>2, <3>3
  <2>7. WorkersReachable'
    BY <2>6 DEF WorkersReachable
  <2> QED BY <1>6, <2>2, <2>3, <2>4, <2>5, <2>7 DEF IInv
<1> QED BY <1>2, <1>8, <1>9 DEF AcquireWorker

-----------------------------------------------------------------------------
(* Steps of a worker                                                       *)

\* Steps that leave the tables alone: a start may succeed and a process may
\* move on, as long as it has been launched and its exit is not handled.
LEMMA TablesKept ==
  ASSUME IInv, TypeOK', UNCHANGED tableVars,
         \A v \in Workers :
           /\ \/ promise'[v] = promise[v]
              \/ promise[v] = "pending" /\ promise'[v] = "fulfilled"
           /\ proc'[v] = "reaped" <=> proc[v] = "reaped"
           /\ proc'[v] # proc[v] => promise[v] \notin {"none", "launch failed"}
  PROVE  IInv'
<1>1. /\ TableHoldsLiveWorkers /\ AtMostOneWorker /\ Isolation /\ LifeCycle
      /\ WorkersReachable
      /\ schedulers' = schedulers /\ app' = app /\ workers' = workers
      /\ owner' = owner
  BY DEF IInv, tableVars
<1>2. TableHoldsLiveWorkers'
  <2> SUFFICES ASSUME NEW r \in Schedulers, NEW v \in Workers
               PROVE  v \in workers'[r] <=>
                        /\ owner'[v] = r
                        /\ promise'[v] \in {"pending", "fulfilled"}
                        /\ proc'[v] # "reaped"
    BY DEF TableHoldsLiveWorkers
  <2>1. v \in workers[r] <=> /\ owner[v] = r
                             /\ promise[v] \in {"pending", "fulfilled"}
                             /\ proc[v] # "reaped"
    BY <1>1 DEF TableHoldsLiveWorkers
  <2>2. promise'[v] \in {"pending", "fulfilled"}
          <=> promise[v] \in {"pending", "fulfilled"}
    OBVIOUS
  <2> QED BY <1>1, <2>1, <2>2
<1>3. AtMostOneWorker' /\ Isolation'
  BY <1>1 DEF AtMostOneWorker, Isolation
<1>4. LifeCycle'
  BY <1>1 DEF LifeCycle
<1>5. WorkersReachable'
  BY <1>1 DEF WorkersReachable, NoStartTimedOut, Reachable
<1> QED BY <1>2, <1>3, <1>4, <1>5 DEF IInv

\* Steps that end the life of a worker in its table.  If they also announce
\* its scheduler to be vacant, it is the registered one, or else some start
\* has timed out.
LEMMA WorkerRemoved ==
  ASSUME IInv, TypeOK', NEW w \in Workers, owner[w] # None, Remove(w),
         app' = app, owner' = owner,
         \A v \in Workers \ {w} : promise'[v] = promise[v] /\ proc'[v] = proc[v],
         promise'[w] \notin {"pending", "fulfilled"} \/ proc'[w] = "reaped",
         promise'[w] # "none",
         promise'[w] = "launch failed" => proc'[w] = "none",
         promise'[w] = "exited during init" => proc'[w] = "reaped",
         promise[w] = "took too long" => promise'[w] = "took too long",
         \/ schedulers' = schedulers
         \/ /\ EmitIfVacant(owner[w])
            /\ NoStartTimedOut => w \in workers[owner[w]]
  PROVE  IInv'
<1> DEFINE s == owner[w]
<1>1. /\ TypeOK /\ TableHoldsLiveWorkers /\ AtMostOneWorker /\ Isolation
      /\ LifeCycle
      /\ s \in Schedulers
      /\ workers' = [workers EXCEPT ![s] = @ \ {w}]
  BY DEF IInv, TypeOK, Remove
<1>2. \A r \in Schedulers, v \in Workers :
        v \in workers'[r] <=> v \in workers[r] /\ v # w
  <2> SUFFICES ASSUME NEW r \in Schedulers, NEW v \in Workers
               PROVE  v \in workers'[r] <=> v \in workers[r] /\ v # w
    OBVIOUS
  <2>1. CASE r = s
    BY <1>1, <2>1 DEF TypeOK
  <2>2. CASE r # s
    <3>1. workers'[r] = workers[r]
      BY <1>1, <2>2 DEF TypeOK
    <3>2. v \in workers[r] => owner[v] = r
      BY <1>1 DEF TableHoldsLiveWorkers
    <3> QED BY <2>2, <3>1, <3>2
  <2> QED BY <2>1, <2>2
<1>3. TableHoldsLiveWorkers'
  <2> SUFFICES ASSUME NEW r \in Schedulers, NEW v \in Workers
               PROVE  v \in workers'[r] <=>
                        /\ owner'[v] = r
                        /\ promise'[v] \in {"pending", "fulfilled"}
                        /\ proc'[v] # "reaped"
    BY DEF TableHoldsLiveWorkers
  <2>1. CASE v = w
    BY <1>2, <2>1
  <2>2. CASE v # w
    <3>1. v \in workers'[r] <=> v \in workers[r]
      BY <1>2, <2>2
    <3>2. v \in workers[r] <=> /\ owner[v] = r
                             /\ promise[v] \in {"pending", "fulfilled"}
                             /\ proc[v] # "reaped"
      BY <1>1 DEF TableHoldsLiveWorkers
    <3>3. owner'[v] = owner[v] /\ promise'[v] = promise[v] /\ proc'[v] = proc[v]
      BY <2>2
    <3> QED BY <3>1, <3>2, <3>3
  <2> QED BY <2>1, <2>2
<1>4. AtMostOneWorker'
  <2> SUFFICES ASSUME NEW r \in Schedulers,
                      NEW u \in workers'[r], NEW v \in workers'[r]
               PROVE  u = v
    BY DEF AtMostOneWorker
  <2>1. u \in Workers /\ v \in Workers
    BY DEF TypeOK
  <2>2. u \in workers[r] /\ v \in workers[r]
    BY <1>2, <2>1
  <2> QED BY <1>1, <2>2 DEF AtMostOneWorker
<1>5. \A a \in Apps : schedulers'[a] \in {schedulers[a], None}
  BY <1>1 DEF EmitIfVacant, TypeOK
<1>6. Isolation'
  BY <1>1, <1>5 DEF Isolation
<1>7. LifeCycle'
  <2> SUFFICES ASSUME NEW v \in Workers
               PROVE  /\ owner'[v] = None <=> promise'[v] = "none"
                      /\ owner'[v] # None => app'[owner'[v]] # None
                      /\ promise'[v] \in {"none", "launch failed"}
                           => proc'[v] = "none"
                      /\ promise'[v] = "exited during init"
                           => proc'[v] = "reaped"
    BY DEF LifeCycle
  <2>1. CASE v = w
    BY <1>1, <2>1 DEF LifeCycle
  <2>2. CASE v # w
    BY <1>1, <2>2 DEF LifeCycle
  <2> QED BY <2>1, <2>2
<1>8. WorkersReachable'
  <2> SUFFICES ASSUME NoStartTimedOut', NEW r \in Schedulers,
                      NEW v \in workers'[r]
               PROVE  Reachable(v)'
    BY DEF WorkersReachable
  <2>1. v \in Workers /\ v \in workers[r]
    <3>1. v \in Workers
      BY DEF TypeOK
    <3> QED BY <1>2, <3>1
  <2>2. NoStartTimedOut
    <3> SUFFICES ASSUME NEW u \in Workers PROVE promise[u] # "took too long"
      BY DEF NoStartTimedOut
    <3>1. CASE u = w
      BY <3>1 DEF NoStartTimedOut
    <3>2. CASE u # w
      BY <3>2 DEF NoStartTimedOut
    <3> QED BY <3>1, <3>2
  <2>3. app[r] \in Apps /\ schedulers[app[r]] = r
    BY <2>1, <2>2, WorkerOfRegistered
  <2>4. schedulers'[app[r]] = r
    <3>1. CASE schedulers' = schedulers
      BY <2>3, <3>1
    <3>2. CASE EmitIfVacant(s) /\ w \in workers[s]
      <4>1. CASE workers'[s] = {}
        <5>1. app[s] \in Apps /\ schedulers[app[s]] = s
          BY <1>1, <2>2, <3>2, WorkerOfRegistered
        <5>2. r # s
          BY <4>1
        <5>3. app[r] # app[s]
          BY <2>3, <5>1, <5>2
        <5>4. schedulers' = [schedulers EXCEPT ![app[s]] = None]
          BY <3>2, <4>1 DEF EmitIfVacant
        <5> QED BY <1>1, <2>3, <5>3, <5>4 DEF TypeOK
      <4>2. CASE workers'[s] # {}
        BY <2>3, <3>2, <4>2 DEF EmitIfVacant
      <4> QED BY <4>1, <4>2
    <3> QED BY <2>2, <3>1, <3>2
  <2> QED BY <1>1, <2>3, <2>4, RegistryAssumption DEF Reachable
<1> QED BY <1>3, <1>4, <1>6, <1>7, <1>8 DEF IInv

\* The starts and ends of workers, one by one.
LEMMA WorkerStepIInv ==
  ASSUME IInv, NEW w \in Workers, WorkerStep(w)
  PROVE  IInv'
<1>1. /\ TypeOK /\ TableHoldsLiveWorkers /\ LifeCycle
      /\ entry[w] \in Entries
  BY DEF IInv, TypeOK
<1>2. CASE ClientLeaves(w)
  <2>1. TypeOK'
    BY <1>1, <1>2, EntryOperators DEF ClientLeaves, TypeOK, tableVars
  <2> QED BY <1>2, <2>1, TablesKept DEF ClientLeaves
<1>3. CASE Launched(w)
  <2>1. TypeOK'
    BY <1>1, <1>3 DEF Launched, TypeOK, tableVars
  <2> QED BY <1>1, <1>3, <2>1, TablesKept DEF Launched, TypeOK
<1>4. CASE BecomesReady(w)
  <2>1. TypeOK'
    BY <1>1, <1>4, EntryOperators DEF BecomesReady, TypeOK, tableVars
  <2> QED BY <1>1, <1>4, <2>1, TablesKept DEF BecomesReady, TypeOK
<1>5. CASE IdleTimerFires(w)
  <2>1. TypeOK'
    BY <1>1, <1>5, EntryOperators DEF IdleTimerFires, TypeOK, tableVars
  <2>2. proc[w] = "running" => promise[w] \notin {"none", "launch failed"}
    BY <1>1 DEF LifeCycle
  <2> QED BY <1>1, <1>5, <2>1, <2>2, TablesKept DEF IdleTimerFires, TypeOK
<1>6. CASE ProcessExits(w)
  <2>1. TypeOK'
    BY <1>1, <1>6 DEF ProcessExits, TypeOK, tableVars
  <2>2. promise[w] \notin {"none", "launch failed"}
    BY <1>1, <1>6 DEF LifeCycle, ProcessExits
  <2> QED BY <1>1, <1>6, <2>1, <2>2, TablesKept DEF ProcessExits, TypeOK
<1>7. CASE AllocFails(w)
  <2>1. /\ owner[w] # None /\ promise'[w] = "launch failed"
        /\ proc'[w] = "none" /\ promise[w] = "pending"
        /\ \A v \in Workers \ {w} : promise'[v] = promise[v]
                                    /\ proc'[v] = proc[v]
    BY <1>1, <1>7 DEF AllocFails, LifeCycle, TypeOK
  <2>2. TypeOK'
    BY <1>1, <1>7, <2>1 DEF AllocFails, TypeOK, Remove, Rejections
  <2> QED BY <1>7, <2>1, <2>2, WorkerRemoved DEF AllocFails
<1>8. CASE LaunchFails(w)
  <2>1. /\ owner[w] # None /\ promise'[w] = "launch failed"
        /\ proc'[w] = "none" /\ promise[w] = "pending"
        /\ owner' = owner /\ app' = app
        /\ \A v \in Workers \ {w} : promise'[v] = promise[v]
                                    /\ proc'[v] = proc[v]
        /\ Remove(w) /\ EmitIfVacant(owner[w])
    BY <1>1, <1>8 DEF LaunchFails, LifeCycle, TypeOK
  <2>2. owner[w] \in Schedulers
    BY <1>1, <2>1 DEF TypeOK
  <2>3. w \in workers[owner[w]]
    BY <1>1, <1>8, <2>1, <2>2 DEF TableHoldsLiveWorkers, LaunchFails
  <2>4. /\ schedulers' \in [Apps -> Schedulers \cup {None}]
        /\ workers' \in [Schedulers -> SUBSET Workers]
    BY <1>1, <2>1 DEF TypeOK, EmitIfVacant, Remove
  <2>5. entry' \in [Workers -> Entries]
    BY <1>1, <1>8, EntryOperators DEF TypeOK, LaunchFails
  <2>6. TypeOK'
    BY <1>1, <1>8, <2>4, <2>5 DEF LaunchFails, TypeOK, Rejections
  <2> QED BY <2>1, <2>3, <2>6, WorkerRemoved
<1>9. CASE InitTimesOut(w)
  <2>1. /\ owner[w] # None /\ promise'[w] = "took too long"
        /\ promise[w] = "pending"
        /\ \A v \in Workers \ {w} : promise'[v] = promise[v]
                                    /\ proc'[v] = proc[v]
    BY <1>1, <1>9 DEF InitTimesOut, LifeCycle, TypeOK
  <2>2. TypeOK'
    BY <1>1, <1>9, <2>1 DEF InitTimesOut, TypeOK, Remove, Rejections
  <2> QED BY <1>9, <2>1, <2>2, WorkerRemoved DEF InitTimesOut
<1>10. CASE ExitHandled(w)
  <2>1. /\ owner[w] # None
        /\ proc[w] = "dead" /\ proc'[w] = "reaped"
        /\ promise[w] \notin {"none", "launch failed", "exited during init"}
        /\ promise'[w] = IF promise[w] = "pending"
                         THEN "exited during init" ELSE promise[w]
        /\ owner' = owner /\ app' = app
        /\ \A v \in Workers \ {w} : promise'[v] = promise[v]
                                    /\ proc'[v] = proc[v]
        /\ Remove(w) /\ EmitIfVacant(owner[w])
    BY <1>1, <1>10 DEF ExitHandled, LifeCycle, TypeOK
  <2>2. owner[w] \in Schedulers
    BY <1>1, <2>1 DEF TypeOK
  <2>3. NoStartTimedOut => w \in workers[owner[w]]
    BY <1>1, <2>1, <2>2
       DEF TableHoldsLiveWorkers, NoStartTimedOut, TypeOK, Rejections
  <2>4. /\ schedulers' \in [Apps -> Schedulers \cup {None}]
        /\ workers' \in [Schedulers -> SUBSET Workers]
    BY <1>1, <2>1 DEF TypeOK, EmitIfVacant, Remove
  <2>5. entry' \in [Workers -> Entries]
    BY <1>1, <1>10, EntryOperators DEF TypeOK, ExitHandled
  <2>6. TypeOK'
    BY <1>1, <1>10, <2>4, <2>5 DEF ExitHandled, TypeOK, Rejections
  <2> QED BY <2>1, <2>3, <2>6, WorkerRemoved
<1> QED BY <1>2, <1>3, <1>4, <1>5, <1>6, <1>7, <1>8, <1>9, <1>10
        DEF WorkerStep

-----------------------------------------------------------------------------
(* Shutdown                                                                *)

\* A shutdown signals processes that are running, and changes no table.
LEMMA ShutdownIInv ==
  ASSUME IInv, GracefulShutdown \/ DrainTimerFires \/ LastDitchShutdown
  PROVE  IInv'
<1>1. TypeOK /\ LifeCycle
  BY DEF IInv
<1>2. /\ UNCHANGED tableVars /\ promise' = promise /\ entry' = entry
      /\ server' \in {"draining", "exited"}
      /\ proc' = proc \/ KillWorkers
  BY DEF GracefulShutdown, DrainTimerFires, LastDitchShutdown, workerVars
<1>3. \A v \in Workers :
        \/ proc'[v] = proc[v]
        \/ proc[v] = "running" /\ proc'[v] = "signalled"
  BY <1>2 DEF KillWorkers
<1>4. proc' \in [Workers -> {"none", "running", "signalled", "dead", "reaped"}]
  <2>1. CASE proc' = proc
    BY <1>1, <2>1 DEF TypeOK
  <2>2. CASE KillWorkers
    BY <1>1, <2>2 DEF TypeOK, KillWorkers
  <2> QED BY <1>2, <2>1, <2>2
<1>5. TypeOK'
  BY <1>1, <1>2, <1>4 DEF TypeOK, tableVars
<1>6. \A v \in Workers :
        proc'[v] # proc[v] => promise[v] \notin {"none", "launch failed"}
  BY <1>1, <1>3 DEF LifeCycle
<1> QED BY <1>2, <1>3, <1>5, <1>6, TablesKept

\* The invariant is inductive.
LEMMA StepIInv == IInv /\ [Next]_vars => IInv'
<1> SUFFICES ASSUME IInv, [Next]_vars PROVE IInv'
  OBVIOUS
<1>1. ASSUME NEW a \in Apps, NEW s \in Schedulers, NEW w \in Workers,
             GetWorker(a, s, w)
      PROVE  IInv'
  BY <1>1, GetWorkerIInv
<1>2. ASSUME NEW w \in Workers, WorkerStep(w) PROVE IInv'
  BY <1>2, WorkerStepIInv
<1>3. CASE GracefulShutdown \/ DrainTimerFires \/ LastDitchShutdown
  BY <1>3, ShutdownIInv
<1>4. CASE UNCHANGED vars
  <2>1. TypeOK'
    BY <1>4 DEF vars, IInv, TypeOK
  <2> QED BY <1>4, <2>1, TablesKept DEF vars, tableVars
<1> QED BY <1>1, <1>2, <1>3, <1>4 DEF Next

-----------------------------------------------------------------------------
(* Theorems                                                                *)

\* The registry, the tables and the workers stay consistent.
THEOREM InductiveInvariant == Spec => []IInv
<1>1. Init => IInv
  BY InitIInv
<1>2. IInv /\ [Next]_vars => IInv'
  BY StepIInv
<1> QED BY <1>1, <1>2, PTL DEF Spec

\* Type correctness.
THEOREM TypeCorrect == Spec => []TypeOK
<1>1. IInv => TypeOK
  BY DEF IInv
<1> QED BY <1>1, InductiveInvariant, PTL

\* No failed start and no handled exit leaves its worker in a table.
THEOREM TablesHoldLiveWorkers == Spec => []TableHoldsLiveWorkers
<1>1. IInv => TableHoldsLiveWorkers
  BY DEF IInv
<1> QED BY <1>1, InductiveInvariant, PTL

\* A simple scheduler never has two workers.
THEOREM OneWorkerEach == Spec => []AtMostOneWorker
<1>1. IInv => AtMostOneWorker
  BY DEF IInv
<1> QED BY <1>1, InductiveInvariant, PTL

\* Requests for one app never reach the scheduler of another.
THEOREM AppsIsolated == Spec => []Isolation
<1>1. IInv => Isolation
  BY DEF IInv
<1> QED BY <1>1, InductiveInvariant, PTL

\* Unless some start has timed out, the registry leads to every worker in
\* use.
THEOREM WorkersAreReachable == Spec => []WorkersReachable
<1>1. IInv => WorkersReachable
  BY DEF IInv
<1> QED BY <1>1, InductiveInvariant, PTL

\* Unless some start has timed out, a shutdown misses no ready worker: they
\* are in the table of a scheduler the registry has.
LEMMA StepReadyWorkersSignalled ==
  ASSUME IInv, [Next]_vars, server = "up", server' # "up", NoStartTimedOut,
         NEW w \in Workers, promise[w] = "fulfilled"
  PROVE  proc'[w] # "running"
<1>1. KillWorkers
  BY DEF Next, WorkerStep, vars, GetWorker, ClientLeaves, Launched,
         AllocFails, LaunchFails, BecomesReady, InitTimesOut, IdleTimerFires,
         ProcessExits, ExitHandled, DrainTimerFires, GracefulShutdown,
         LastDitchShutdown
<1>2. CASE proc[w] # "running"
  BY <1>1, <1>2 DEF KillWorkers
<1>3. CASE proc[w] = "running"
  <2>1. owner[w] \in Schedulers
    BY DEF IInv, TypeOK, LifeCycle
  <2>2. w \in workers[owner[w]]
    BY <1>3, <2>1 DEF IInv, TableHoldsLiveWorkers
  <2>3. Reachable(w)
    BY <2>1, <2>2 DEF IInv, WorkersReachable
  <2> QED BY <1>1, <1>3, <2>3 DEF KillWorkers
<1> QED BY <1>2, <1>3

\* Both shutdown paths signal every ready worker, unless some start has timed
\* out.
THEOREM ShutdownSignalsReadyWorkers == Spec => ReadyWorkersSignalled
<1>1. IInv /\ [Next]_vars =>
        [(server = "up" /\ server' # "up" /\ NoStartTimedOut)
           => \A w \in Workers :
                promise[w] = "fulfilled" => proc'[w] # "running"]_vars
  BY StepReadyWorkersSignalled
<1> QED BY <1>1, InductiveInvariant, PTL DEF Spec, ReadyWorkersSignalled

=============================================================================

------------------------- MODULE WorkerStartProofs -------------------------
(***************************************************************************)
(* The invariants of WorkerProcess and WorkerStart, which are inductive,   *)
(* for any settings of apps, number of attempts and number of clients; and *)
(* that a worker that starts as WorkerStart has it takes no steps but      *)
(* those of WorkerLife, on which SchedulerRegistry and ProxySystem build.  *)
(***************************************************************************)
EXTENDS WorkerStart, TLAPS

USE WorkerProcessAssumption

-----------------------------------------------------------------------------
(* The process                                                             *)

LEMMA InitInv == Init => Inv
<1> SUFFICES ASSUME Init PROVE Inv
  OBVIOUS
<1>1. MaxKills["idle"] \in Nat /\ MaxKills["force"] \in Nat
  OBVIOUS
<1>2. TypeOK
  <2>1. timers \in [Pids -> 0 .. MaxKills["idle"]]
    BY <1>1 DEF Init
  <2>2. \A k \in {"idle", "force"} : kills[k] <= MaxKills[k]
    BY <1>1 DEF Init
  <2>3. signals \in [Pids -> SUBSET Signals] /\ kills \in [{"idle", "force"} -> Nat]
    BY DEF Init
  <2> QED BY <2>1, <2>2, <2>3 DEF Init, TypeOK
<1>3. ShinyStreamEnded /\ NoTimerOutlives /\ Stages
  BY DEF Init, ShinyStreamEnded, StreamEnded, NoTimerOutlives, Stages, Pids
<1> QED BY <1>2, <1>3 DEF Inv

\* A launch does nothing about signals and timers but to create a process.
LEMMA LaunchingInv ==
  ASSUME Inv, Launching
  PROVE  Inv'
<1>1. TypeOK /\ ShinyStreamEnded /\ NoTimerOutlives /\ Stages
  BY DEF Inv
<1>2. CASE Exists
  BY <1>1, <1>2 DEF Exists, os, server, Inv, TypeOK, ShinyStreamEnded, StreamEnded,
                    NoTimerOutlives, Stages, Refuses
<1>3. CASE CreateLog
  BY <1>1, <1>3 DEF CreateLog, os, server, Inv, TypeOK, ShinyStreamEnded, StreamEnded,
                    NoTimerOutlives, Stages, Refuses
<1>4. CASE CreateLogFails
  BY <1>1, <1>4 DEF CreateLogFails, os, server, Inv, TypeOK, ShinyStreamEnded, StreamEnded,
                    NoTimerOutlives, Stages, Refuses
<1>5. CASE ResolvePython
  BY <1>1, <1>5 DEF ResolvePython, os, server, Inv, TypeOK, ShinyStreamEnded, StreamEnded,
                    NoTimerOutlives, Stages, Refuses
<1>6. CASE Stat
  BY <1>1, <1>6 DEF Stat, os, server, Inv, TypeOK, ShinyStreamEnded, StreamEnded,
                    NoTimerOutlives, Stages, Refuses
<1>7. CASE Spawn
  BY <1>1, <1>7 DEF Spawn, server, Inv, TypeOK, ShinyStreamEnded, StreamEnded,
                    NoTimerOutlives, Stages, Refuses, Pids
<1>8. CASE Abort
  BY <1>1, <1>8 DEF Abort, EndStream, os, server, Inv, TypeOK, ShinyStreamEnded, StreamEnded,
                    NoTimerOutlives, Stages, Refuses
<1> QED BY <1>2, <1>3, <1>4, <1>5, <1>6, <1>7, <1>8 DEF Launching

\* There is a process only after a launch, and it does nothing to the server's
\* variables.
LEMMA ProcessesInv ==
  ASSUME Inv, Processes
  PROVE  Inv'
<1>1. TypeOK /\ ShinyStreamEnded /\ NoTimerOutlives /\ Stages
  BY DEF Inv
<1>2. UNCHANGED <<launch, server>>
  BY DEF Processes, Su, Writes, Forward, Quit, SuEnds, Obey
<1>3. /\ process' \in [Pids -> {"none", "running", "dead"}]
      /\ process["child"] = "none" => process'["child"] = "none"
  BY <1>1 DEF Processes, Su, Writes, Forward, Quit, SuEnds, Obey, TypeOK, Pids, Running, App
<1>4. signals' \in [Pids -> SUBSET Signals]
  BY <1>1 DEF Processes, Su, Writes, Forward, Quit, SuEnds, Obey, TypeOK, Pids, Signals
<1>5. announced' \in {"no", "written", "read"}
  BY <1>1 DEF Processes, Su, Writes, Forward, Quit, SuEnds, Obey, TypeOK
<1>6. status' \in {"none", "zero", "failure", "signal"}
  BY <1>1 DEF Processes, Su, Writes, Forward, Quit, SuEnds, Obey, TypeOK
<1>7. TypeOK'
  BY <1>1, <1>2, <1>3, <1>4, <1>5, <1>6 DEF TypeOK, launch, server
<1>8. ShinyStreamEnded' /\ NoTimerOutlives' /\ Stages'
  BY <1>1, <1>2, <1>3 DEF ShinyStreamEnded, StreamEnded, NoTimerOutlives, Stages, Refuses,
                          launch, server
<1> QED BY <1>7, <1>8 DEF Inv

LEMMA SendTypes ==
  ASSUME TypeOK, NEW p \in Pids, NEW signal \in Signals, Send(p, signal)
  PROVE  signals' \in [Pids -> SUBSET Signals]
BY DEF Send, TypeOK

LEMMA PidType == TypeOK => Pid \in Pids
BY DEF Pid, App, Pids

LEMMA ServerInv ==
  ASSUME Inv, Server
  PROVE  Inv'
<1>1. TypeOK /\ ShinyStreamEnded /\ NoTimerOutlives /\ Stages
  BY DEF Inv
<1>2. "SIGINT" \in Signals /\ "SIGTERM" \in Signals /\ "child" \in Pids /\ Pid \in Pids
  BY <1>1, PidType DEF Signals, Pids
<1> USE <1>1 DEF Inv, TypeOK, ShinyStreamEnded, StreamEnded, NoTimerOutlives, Stages, Refuses,
             launch, server
<1>3. CASE Announced
  BY <1>3 DEF Announced
<1>4. CASE IdleTimeout
  <2>1. signals' \in [Pids -> SUBSET Signals]
    BY <1>2, <1>4, SendTypes DEF IdleTimeout
  <2>2. /\ timers' \in [Pids -> Nat]
        /\ \A p \in Pids : timers'[p] <= timers[p] + 1
        /\ exited => timers' = timers
    BY <1>2, <1>4 DEF IdleTimeout, Arm
  <2>3. /\ kills' = [kills EXCEPT !["idle"] = @ + 1] /\ timedOut' = TRUE
        /\ kills'["idle"] = kills["idle"] + 1 /\ kills'["force"] = kills["force"]
        /\ stage = "launched" /\ kills["idle"] < MaxKills["idle"]
        /\ UNCHANGED <<launch, process, announced, status, exited>>
    BY <1>4 DEF IdleTimeout
  <2>4. TypeOK'
    BY <2>1, <2>2, <2>3
  <2> QED BY <2>2, <2>3, <2>4
<1>5. CASE Shutdown
  <2>1. signals' \in [Pids -> SUBSET Signals]
    BY <1>2, <1>5, SendTypes DEF Shutdown
  <2> QED BY <1>5, <2>1 DEF Shutdown
<1>6. CASE ExitHandled
  BY <1>6 DEF ExitHandled, Cleared, os
<1>7. CASE StdinFails
  <2>1. signals' \in [Pids -> SUBSET Signals]
    BY <1>2, <1>7, SendTypes DEF StdinFails
  <2> QED BY <1>7, <2>1 DEF StdinFails
<1>8. CASE StderrEnds
  BY <1>8 DEF StderrEnds, EndStream, os, server
<1>9. ASSUME NEW p \in Pids, KillTimer(p) PROVE Inv'
  <2>1. signals' \in [Pids -> SUBSET Signals]
    BY <1>2, <1>9, SendTypes DEF KillTimer
  <2>2. /\ timers' \in [Pids -> 0 .. MaxKills["idle"]]
        /\ \A q \in Pids : timers'[q] <= timers[q]
        /\ timers[p] > 0
    BY <1>9 DEF KillTimer
  <2> QED BY <1>9, <2>1, <2>2 DEF KillTimer
<1> QED BY <1>3, <1>4, <1>5, <1>6, <1>7, <1>8, <1>9 DEF Server

\* A launch of an app in R that is not refused leaves no log open, no timer of
\* kill() outlives the process; in whatever order the signals come.
THEOREM ProcessInvariant == Spec => []Inv
<1>1. Inv /\ UNCHANGED vars => Inv'
  BY DEF vars, Inv, TypeOK, ShinyStreamEnded, StreamEnded, NoTimerOutlives, Stages, Refuses
<1>2. Inv /\ [Next]_vars => Inv'
  BY <1>1, LaunchingInv, ProcessesInv, ServerInv DEF Next
<1> QED BY <1>2, InitInv, PTL DEF Spec

-----------------------------------------------------------------------------
(* The worker                                                              *)

USE WorkerStartAssumption

\* Every step of the worker is one of its process or leaves that alone.
LEMMA ProcessStepOrNone == [StartNext]_allVars => [Next]_vars
<1> SUFFICES ASSUME StartNext PROVE [Next]_vars
  BY DEF allVars
<1>1. CASE Spawning
  <2>1. CASE Alloc
    BY <2>1 DEF Alloc
  <2>2. CASE AllocFails
    BY <2>2 DEF AllocFails, Exists, Next, Launching
  <2>3. CASE LaunchStep \/ LaunchFails
    BY <2>3 DEF LaunchStep, LaunchFails, Next
  <2>4. CASE LaunchSucceeds
    BY <2>4 DEF LaunchSucceeds, Next, Launching
  <2> QED BY <1>1, <2>1, <2>2, <2>3, <2>4 DEF Spawning
<1>2. CASE Retry \/ Connected \/ Listens \/ Taken \/ ClientComes \/ ClientLeaves
  BY <1>2 DEF Retry, Connected, Listens, Taken, ClientComes, ClientLeaves
<1>3. CASE ProcessStep \/ SignalStep \/ ShutDown \/ Exit \/ IdleTimerFires
  BY <1>3 DEF ProcessStep, SignalStep, ShutDown, Exit, IdleTimerFires, Next, Server
<1> QED BY <1>1, <1>2, <1>3 DEF StartNext

LEMMA InvStep == Inv /\ [Next]_vars => Inv'
<1>1. Inv /\ UNCHANGED vars => Inv'
  BY DEF vars, Inv, TypeOK, ShinyStreamEnded, StreamEnded, NoTimerOutlives, Stages, Refuses
<1> QED BY <1>1, LaunchingInv, ProcessesInv, ServerInv DEF Next

\* What the invariant says of the entry, the promise and the attempts.
Entry == StartTypeOK /\ Settled /\ Counted

LEMMA InitStartInv == StartInit => StartInv
<1> SUFFICES ASSUME StartInit PROVE StartInv
  OBVIOUS
<1>1. Inv
  BY InitInv DEF StartInit
<1>2. stage = "exists" /\ ~exited
  BY DEF StartInit, Init
<1>3. StartTypeOK
  <2>1. 0 \in 0 .. MaxAttempts + 1 /\ 1 \in 0 .. MaxVisits + 1 /\ 0 \in 0 .. MaxVisits
    OBVIOUS
  <2>2. watching \in BOOLEAN /\ closed \in BOOLEAN /\ idleTimer \in BOOLEAN /\ lost \in BOOLEAN
    BY DEF StartInit
  <2> QED BY <2>1, <2>2 DEF StartInit, StartTypeOK
<1>4. Settled
  BY <1>2 DEF StartInit, Settled
<1>5. Counted
  BY DEF StartInit, Counted
<1> QED BY <1>1, <1>3, <1>4, <1>5 DEF StartInv

LEMMA SpawningEntry ==
  ASSUME StartInv, Spawning
  PROVE  Entry'
<1> USE DEF StartInv, Entry, StartTypeOK, Settled, Counted
<1>1. CASE Alloc
  BY <1>1 DEF Alloc, vars, entryVars
<1>2. CASE AllocFails
  BY <1>2 DEF AllocFails, Settle, server
<1>3. Launching => stage # "launched" /\ stage # "failed" /\ exited' = exited
  BY DEF Launching, Exists, CreateLog, CreateLogFails, ResolvePython, Stat, Spawn, Abort, server
<1>4. CASE LaunchStep
  BY <1>3, <1>4 DEF LaunchStep, starting, entryVars
<1>5. CASE LaunchFails
  BY <1>3, <1>5 DEF LaunchFails, Settle
<1>6. CASE LaunchSucceeds
  BY <1>6 DEF LaunchSucceeds, Spawn, Attempt, server, entryVars
<1> QED BY <1>1, <1>2, <1>4, <1>5, <1>6 DEF Spawning

\* What a promise and a timer are, as formulas.
LEMMA SettleFacts ==
  ASSUME NEW outcome, Settle(outcome)
  PROVE  /\ handle' = IF handle = "pending" THEN outcome ELSE handle
         /\ listed' \in BOOLEAN
         /\ listed' <=> listed /\ (handle # "pending" \/ outcome = "fulfilled")
BY Zenon DEF Settle

LEMMA TimerFacts ==
  ASSUME NEW count, StartIdleTimer(count)
  PROVE  /\ idleTimer' \in BOOLEAN /\ lost' \in BOOLEAN
         /\ idleTimer' <=> idleTimer \/ count = 0
BY Zenon DEF StartIdleTimer

LEMMA ConnectingEntry ==
  ASSUME StartInv, Retry \/ Connected
  PROVE  Entry'
<1> USE DEF StartInv, Entry, StartTypeOK, Settled, Counted
<1>1. CASE Retry
  <2>1. CASE elapsed' > MaxAttempts \/ exited
    <3>1. Settle("rejected") /\ connect' = "rejected" /\ accepted' = accepted
      BY <1>1, <2>1 DEF Retry
    <3> QED BY <1>1, <3>1, SettleFacts DEF Retry, vars
  <2>2. CASE ~(elapsed' > MaxAttempts \/ exited)
    BY <1>1, <2>2 DEF Retry, Attempt, vars
  <2> QED BY <2>1, <2>2
<1>2. CASE Connected
  <2>1. CASE connect = "pending"
    <3>1. Settle("fulfilled") /\ StartIdleTimer(clients) /\ connect' = "resolved"
      BY <1>2, <2>1 DEF Connected
    <3> QED BY <1>2, <2>1, <3>1, SettleFacts, TimerFacts DEF Connected, vars
  <2>2. CASE connect # "pending"
    BY <1>2, <2>2 DEF Connected, vars
  <2> QED BY <2>1, <2>2
<1> QED BY <1>1, <1>2

LEMMA ProcessEntry ==
  ASSUME StartInv, Listens \/ Taken \/ ProcessStep \/ SignalStep \/ ShutDown \/ Exit
  PROVE  Entry'
<1> USE DEF StartInv, Entry, StartTypeOK, Settled, Counted
<1>1. CASE Listens \/ Taken
  BY <1>1 DEF Listens, Taken, vars, entryVars
<1>2. CASE ProcessStep
  <2>1. UNCHANGED <<stage, exited>>
    BY <1>2 DEF ProcessStep, Processes, Su, Writes, Forward, Quit, SuEnds, Obey, launch, server
  <2> QED BY <1>2, <2>1 DEF ProcessStep, entryVars
<1>3. CASE SignalStep \/ ShutDown
  <2>1. UNCHANGED <<stage, exited>>
    BY <1>3 DEF SignalStep, ShutDown, Announced, StdinFails, StderrEnds, KillTimer, Shutdown,
                launch, server
  <2> QED BY <1>3, <2>1 DEF SignalStep, ShutDown, starting, entryVars
<1>4. CASE Exit
  <2>1. stage = "launched"
    BY <1>4 DEF Exit, ExitHandled, Inv, Stages
  <2> QED BY <1>4, <2>1 DEF Exit, ExitHandled
<1> QED BY <1>1, <1>2, <1>3, <1>4

LEMMA ClientEntry ==
  ASSUME StartInv, ClientComes \/ ClientLeaves \/ IdleTimerFires
  PROVE  Entry'
<1> USE DEF StartInv, Entry, StartTypeOK, Settled, Counted
<1>1. CASE ClientComes
  <2>1. visits' = visits + 1 /\ clients' = clients + 1 /\ visits < MaxVisits
    BY <1>1 DEF ClientComes
  <2>2. idleTimer' \in BOOLEAN /\ ~idleTimer'
    BY <1>1 DEF ClientComes
  <2>3. UNCHANGED <<stage, exited, starting, listed, closed, lost>>
    BY <1>1 DEF ClientComes, vars
  <2> QED BY <2>1, <2>2, <2>3 DEF starting
<1>2. CASE ClientLeaves
  <2>1. CASE closed
    BY <1>2, <2>1 DEF ClientLeaves, vars, starting
  <2>2. CASE ~closed
    <3>1. StartIdleTimer(clients') /\ clients' = clients - 1 /\ clients > 0
      BY <1>2, <2>2 DEF ClientLeaves
    <3> QED BY <1>2, <2>2, <3>1, TimerFacts DEF ClientLeaves, vars, starting
  <2> QED BY <2>1, <2>2
<1>3. CASE IdleTimerFires
  <2>1. UNCHANGED <<stage, exited>>
    BY <1>3 DEF IdleTimerFires, IdleTimeout, launch, vars
  <2> QED BY <1>3, <2>1 DEF IdleTimerFires, starting
<1> QED BY <1>1, <1>2, <1>3

LEMMA StepStartInv == StartInv /\ [StartNext]_allVars => StartInv'
<1> SUFFICES ASSUME StartInv, [StartNext]_allVars PROVE StartInv'
  OBVIOUS
<1>1. Inv'
  BY InvStep, ProcessStepOrNone DEF StartInv
<1>2. Entry'
  <2>1. CASE UNCHANGED allVars
    BY <2>1 DEF allVars, vars, starting, entryVars, StartInv, Entry, StartTypeOK, Settled, Counted
  <2> QED BY <2>1, SpawningEntry, ConnectingEntry, ProcessEntry, ClientEntry DEF StartNext
<1> QED BY <1>1, <1>2 DEF StartInv, Entry

(***************************************************************************)
(* Whatever order attempts, timeouts, exits and clients come in: a worker  *)
(* that was given up is not listed, one that is listed and ready has been  *)
(* connected to, and the idle timer of an entry that lives does not run    *)
(* while somebody uses it.                                                 *)
(***************************************************************************)
THEOREM StartInvariant == StartSpec => []StartInv
BY InitStartInv, StepStartInv, PTL DEF StartSpec

\* The process of a worker is one of WorkerProcess, with any port, any attempts
\* and any clients.
THEOREM StartImplementsProcess == StartSpec => Spec
<1>1. StartInit => Init
  BY DEF StartInit
<1> QED BY <1>1, ProcessStepOrNone, PTL DEF StartSpec, Spec

-----------------------------------------------------------------------------
(* Refinement of WorkerLife                                                *)

\* The phases of a worker's process, as WorkerLife has them.
Phase == IF exited THEN "ended" ELSE IF watching THEN "running" ELSE "none"

\* The steps of WorkerLife, on the worker's own state.
LifeStep ==
  \/ /\ handle = "pending" /\ Phase = "none" /\ Phase' = "running"
     /\ UNCHANGED <<handle, listed>>
  \/ /\ handle = "pending" /\ Phase = "none" /\ Phase' = "none"
     /\ handle' = "rejected" /\ listed' = FALSE
  \/ /\ handle = "pending" /\ Phase = "running" /\ Phase' = "running" /\ listed
     /\ handle' = "fulfilled" /\ listed' = listed
  \/ /\ handle = "pending" /\ Phase = "running" /\ Phase' = "running"
     /\ handle' = "rejected" /\ listed' = FALSE
  \/ /\ Phase = "running" /\ Phase' = "ended" /\ listed' = FALSE
     /\ handle' = IF handle = "pending" THEN "rejected" ELSE handle
  \/ UNCHANGED <<handle, Phase, listed>>

LEMMA LifeStepIsNext == LifeStep => [Life!Next]_<<handle, Phase, listed>>
BY DEF LifeStep, Phase, Life!Next, Life!Starts, Life!Fails, Life!Ready, Life!TakesTooLong, Life!Ends

\* Nothing the entry hears of.
LEMMA LifeUnheard ==
  ASSUME UNCHANGED <<handle, listed, watching, exited>>
  PROVE  LifeStep
BY DEF LifeStep, Phase

LEMMA LifeSpawning ==
  ASSUME StartInv, Spawning
  PROVE  LifeStep
<1>1. Launching => stage # "launched" /\ stage # "failed" /\ exited' = exited
  BY DEF Launching, Exists, CreateLog, CreateLogFails, ResolvePython, Stat, Spawn, Abort, server
<1>2. stage \notin {"launched", "failed"} =>
        handle = "pending" /\ ~watching /\ ~exited
  BY DEF StartInv, Settled
<1>3. CASE Alloc \/ LaunchStep
  BY <1>1, <1>3, LifeUnheard DEF Alloc, LaunchStep, vars, starting, entryVars
<1>4. CASE AllocFails \/ LaunchFails
  <2>1. Settle("rejected") /\ ~watching /\ ~exited /\ handle = "pending"
        /\ UNCHANGED <<watching, exited>>
    BY <1>1, <1>2, <1>4 DEF AllocFails, LaunchFails, server
  <2> QED BY <2>1, SettleFacts DEF LifeStep, Phase
<1>5. CASE LaunchSucceeds
  <2>1. handle = "pending" /\ ~watching /\ ~exited /\ watching' = TRUE
        /\ UNCHANGED <<handle, listed, exited>>
    BY <1>2, <1>5 DEF LaunchSucceeds, Spawn, server, entryVars
  <2> QED BY <2>1 DEF LifeStep, Phase
<1> QED BY <1>3, <1>4, <1>5 DEF Spawning

LEMMA LifeConnecting ==
  ASSUME StartInv, Retry \/ Connected
  PROVE  LifeStep
<1>1. listed \in BOOLEAN /\ handle \in {"pending", "fulfilled", "rejected"}
      /\ UNCHANGED <<watching, exited>>
  BY DEF StartInv, StartTypeOK, Retry, Connected, vars
<1>2. \/ UNCHANGED <<handle, listed>>
      \/ connect = "pending" /\ (Settle("rejected") \/ Settle("fulfilled"))
  BY DEF Retry, Connected
<1>3. CASE connect = "pending" /\ (Settle("rejected") \/ Settle("fulfilled"))
  <2>1. watching
    BY <1>3 DEF StartInv, Settled
  <2>2. CASE handle = "pending"
    <3>1. listed /\ ~exited
      BY <2>2 DEF StartInv, Settled
    <3> QED BY <1>1, <1>3, <2>1, <2>2, <3>1, SettleFacts DEF LifeStep, Phase
  <2>3. CASE handle # "pending"
    <3>1. handle' = handle /\ listed' = listed
      BY <1>1, <1>3, <2>3, SettleFacts
    <3> QED BY <1>1, <3>1, LifeUnheard
  <2> QED BY <2>2, <2>3
<1> QED BY <1>1, <1>2, <1>3, LifeUnheard

LEMMA LifeExit ==
  ASSUME StartInv, Exit
  PROVE  LifeStep
<1>1. process["child"] = "dead" /\ ~exited /\ exited'
  BY DEF Exit, ExitHandled
<1>2. watching
  BY <1>1 DEF StartInv, Settled, Inv, Stages
<1>3. watching' = watching /\ listed' = FALSE
      /\ handle' = IF handle = "pending" THEN "rejected" ELSE handle
  BY DEF Exit
<1> QED BY <1>1, <1>2, <1>3 DEF LifeStep, Phase

LEMMA LifeOtherwise ==
  ASSUME \/ UNCHANGED allVars
         \/ Listens \/ Taken \/ ProcessStep \/ SignalStep \/ ShutDown
         \/ ClientComes \/ ClientLeaves \/ IdleTimerFires
  PROVE  LifeStep
<1>1. UNCHANGED <<handle, listed, watching>>
  BY DEF allVars, Listens, Taken, ProcessStep, SignalStep, ShutDown, ClientComes, ClientLeaves,
         IdleTimerFires, starting, entryVars
<1>2. UNCHANGED exited
  <2>1. CASE ProcessStep
    BY <2>1 DEF ProcessStep, Processes, Su, Writes, Forward, Quit, SuEnds, Obey, server
  <2>2. CASE SignalStep \/ ShutDown \/ IdleTimerFires
    BY <2>2 DEF SignalStep, ShutDown, IdleTimerFires, Announced, StdinFails, StderrEnds, KillTimer,
                Shutdown, IdleTimeout, server, vars
  <2>3. CASE Listens \/ Taken \/ ClientComes \/ ClientLeaves \/ UNCHANGED allVars
    BY <2>3 DEF Listens, Taken, ClientComes, ClientLeaves, allVars, vars
  <2> QED BY <2>1, <2>2, <2>3
<1> QED BY <1>1, <1>2, LifeUnheard

(***************************************************************************)
(* A worker's promise is settled once and its entry taken from the table   *)
(* once, by its failure to start, its exit or the timeout, whichever comes *)
(* first; and it is never ready when its process has ended.                *)
(***************************************************************************)
THEOREM WorkerLifeImplemented == StartSpec => ImplementsWorkerLife
<1>1. StartInit => Life!Init
  <2> SUFFICES ASSUME StartInit PROVE Life!Init
    OBVIOUS
  <2>1. ~exited /\ ~watching
    BY DEF StartInit, Init
  <2> QED BY <2>1 DEF StartInit, Life!Init
<1>2. StartInv /\ [StartNext]_allVars => [Life!Next]_<<handle, Phase, listed>>
  <2> SUFFICES ASSUME StartInv, [StartNext]_allVars PROVE LifeStep
    BY LifeStepIsNext
  <2> QED BY LifeSpawning, LifeConnecting, LifeExit, LifeOtherwise DEF StartNext
<1> QED BY <1>1, <1>2, StartInvariant, PTL DEF StartSpec, ImplementsWorkerLife, Life!Spec, Phase

-----------------------------------------------------------------------------
(* The log                                                                 *)

\* The server has not ended a process that is to be heard of for being idle.
NotIdle == log # "deleted" /\ (exited \/ config.preserveLogs \/ ~timedOut)

\* While somebody uses the process its idle timer does not go off: what has
\* run since before the launch was stopped by the next client.
LEMMA LogStep ==
  ASSUME StartInv, [StartNext]_allVars, config.preserveLogs \/ InUse, NotIdle
  PROVE  NotIdle'
<1>1. CASE IdleTimerFires
  <2>1. CASE ~watching
    BY <1>1, <2>1 DEF IdleTimerFires, NotIdle, vars
  <2>2. CASE watching
    <3>1. stage = "launched"
      BY <2>2 DEF StartInv, Settled
    <3>2. exited \/ config.preserveLogs
      BY <1>1, <2>2, <3>1 DEF IdleTimerFires, InUse, StartInv, StartTypeOK, Settled
    <3> QED BY <1>1, <2>2, <3>2 DEF IdleTimerFires, IdleTimeout, launch, NotIdle
  <2> QED BY <2>1, <2>2
<1>2. CASE Exit
  BY <1>2 DEF Exit, ExitHandled, DeletesLog, NotIdle
<1>3. CASE Spawning
  BY <1>3 DEF Spawning, Alloc, AllocFails, LaunchStep, LaunchFails, LaunchSucceeds, Launching,
         Exists, CreateLog, CreateLogFails, ResolvePython, Stat, Spawn, Abort, server, vars, NotIdle
<1>4. CASE ProcessStep
  BY <1>4 DEF ProcessStep, Processes, Su, Writes, Forward, Quit, SuEnds, Obey, launch, server, NotIdle
<1>5. CASE SignalStep \/ ShutDown
  BY <1>5 DEF SignalStep, ShutDown, Announced, Shutdown, StdinFails, StderrEnds, KillTimer,
         launch, server, NotIdle
<1>6. CASE \/ UNCHANGED allVars
           \/ Retry \/ Connected \/ Listens \/ Taken \/ ClientComes \/ ClientLeaves
  BY <1>6 DEF Retry, Connected, Listens, Taken, ClientComes, ClientLeaves, allVars, vars, NotIdle
<1> QED BY <1>1, <1>2, <1>3, <1>4, <1>5, <1>6 DEF StartNext

(***************************************************************************)
(* Whatever comes first of crash, shutdown and timers: a log is deleted    *)
(* only if nobody used the worker for a while after its launch and before  *)
(* the server heard of its end, and never if preserve_logs is set.         *)
(***************************************************************************)
THEOREM LogsAreKept == StartSpec => LogKept
<1>1. StartInit => NotIdle
  BY DEF StartInit, Init, NotIdle
<1>2. StartInv /\ (config.preserveLogs \/ InUse) /\ NotIdle /\ [StartNext]_allVars => NotIdle'
  BY LogStep
<1>3. NotIdle => log # "deleted"
  BY DEF NotIdle
<1> QED BY <1>1, <1>2, <1>3, StartInvariant, PTL DEF StartSpec, LogKept

=============================================================================

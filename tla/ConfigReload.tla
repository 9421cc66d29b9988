---------------------------- MODULE ConfigReload ----------------------------
(***************************************************************************)
(* lib/main.js: loading of the configuration at startup and on SIGHUP,     *)
(* serialised by qutil.serialized, and what it does to the listeners.      *)
(*                                                                         *)
(* The configuration file is edited at any time; its contents are numbered *)
(* in the order they are written.  A load reads the file (Read), reads the *)
(* schema, and then checks and applies what it has read in one handler     *)
(* (LoadFails, LoadApplied); the promises that follow are settled before   *)
(* any other event is handled, and so is the start of the next load.       *)
(***************************************************************************)
EXTENDS Naturals, Sequences, SequencesExt, FiniteSets

CONSTANTS
  Addresses, Wildcards, Overlapping, BadPorts, MaxServers,  \* see Listeners
  Contents,       \* what is written to the file: [valid, exits, addresses], in order
  MaxSignals      \* bound: SIGHUPs

ASSUME ConfigReloadAssumption ==
  /\ Wildcards \subseteq Addresses
  /\ BadPorts \subseteq Addresses
  /\ \A a, b \in Addresses : <<a, b>> \in Overlapping => <<b, a>> \in Overlapping
  /\ MaxServers \in Nat
  /\ Contents \in Seq([valid : BOOLEAN, exits : BOOLEAN, addresses : Seq(Addresses)])
  /\ Contents # << >>
  /\ MaxSignals \in Nat

Versions == DOMAIN Contents

VARIABLES
  servers, table, wanted, refused, foreign,   \* see Listeners
  file,       \* the version in the configuration file
  loads,      \* the loads under way; currentPromise is that of the last one
  waiting,    \* calls of loadConfig_p that wait for currentPromise
  router,     \* the version indirectRouter delegates to, 0 before the first
  sockjs,     \* the version sockjsHandler was made from, 0 before the first
  server,     \* "starting", "up", "draining" or "exited"
  signals,    \* SIGHUPs so far
  due,        \* the version in the file at the last SIGHUP
  latest      \* the version read last

listeners == <<servers, table, wanted, refused, foreign>>
vars == <<listeners, file, loads, waiting, router, sockjs, server, signals, due, latest>>

L == INSTANCE Listeners

TypeOK ==
  /\ L!TypeOK
  /\ file \in Versions
  /\ loads \in Seq([stage : {"reading", "read"}, version : {0} \cup Versions,
                    startup : BOOLEAN])
  /\ waiting \in 0 .. MaxSignals
  /\ router \in {0} \cup Versions /\ sockjs \in {0} \cup Versions
  /\ due \in {0} \cup Versions /\ latest \in {0} \cup Versions
  /\ server \in {"starting", "up", "draining", "exited"}
  /\ signals \in 0 .. MaxSignals

Started == [stage |-> "reading", version |-> 0, startup |-> FALSE]

Init ==
  /\ L!Init
  /\ file = 1
  /\ loads = <<[Started EXCEPT !.startup = TRUE]>>
  /\ waiting = 0
  /\ router = 0
  /\ sockjs = 0
  /\ server = "starting"
  /\ signals = 0
  /\ due = 1
  /\ latest = 0

\* Somebody saves the configuration file.
Edit ==
  /\ file < Len(Contents)
  /\ server # "exited"
  /\ file' = file + 1
  /\ UNCHANGED <<listeners, loads, waiting, router, sockjs, server, signals, due, latest>>

\* Mutant of LoadConfig: a call during a load gets that load's promise.
LoadConfigShared ==
  /\ loads' = IF loads = << >> THEN <<Started>> ELSE loads
  /\ UNCHANGED waiting

\* Mutant of LoadConfig: no serialisation.
LoadConfigAtOnce == loads' = Append(loads, Started) /\ UNCHANGED waiting

\* loadConfig_p as wrapped by qutil.serialized.
LoadConfig ==
  IF loads = << >> THEN loads' = <<Started>> /\ UNCHANGED waiting
  ELSE waiting' = waiting + 1 /\ UNCHANGED loads

Sighup ==
  /\ server # "exited"
  /\ signals < MaxSignals
  /\ signals' = signals + 1
  /\ due' = file
  /\ LoadConfig
  /\ UNCHANGED <<listeners, file, router, sockjs, server, latest>>

\* A load's promise is settled.  The first of the calls that wait for it
\* starts a load, and the others wait for that one.
Settled(i) ==
  IF waiting = 0 THEN loads' = RemoveAt(loads, i) /\ UNCHANGED waiting
  ELSE loads' = Append(RemoveAt(loads, i), Started) /\ waiting' = waiting - 1

Read(i) ==
  /\ server # "exited"
  /\ loads[i].stage = "reading"
  /\ loads' = [loads EXCEPT ![i].stage = "read", ![i].version = file]
  /\ latest' = file
  /\ UNCHANGED <<listeners, file, waiting, router, sockjs, server, signals, due>>

Exited == server' = "exited" /\ loads' = << >> /\ waiting' = 0

\* A load that fails at startup ends the process.
Failed(i) ==
  IF loads[i].startup THEN Exited ELSE Settled(i) /\ UNCHANGED server

Ready(i) == server # "exited" /\ loads[i].stage = "read"

\* createRouter_p fails, or "new ConfigRouter" calls process.exit.
LoadFails(i) ==
  LET content == Contents[loads[i].version]
  IN  /\ Ready(i)
      /\ ~content.valid
      /\ IF content.exits THEN Exited ELSE Failed(i)
      /\ UNCHANGED <<listeners, file, router, sockjs, signals, due, latest>>

UpIfStarting == server' = IF server = "starting" THEN "up" ELSE server

\* Mutant of LoadApplied: the listeners are left as they are.
LoadAppliedToRouter(i) ==
  LET v == loads[i].version
  IN  /\ Ready(i)
      /\ Contents[v].valid
      /\ router' = v
      /\ sockjs' = v
      /\ UpIfStarting
      /\ Settled(i)
      /\ UNCHANGED <<listeners, file, signals, due, latest>>

\* setAddresses may throw when the router has been replaced already.
LoadApplied(i) ==
  LET v == loads[i].version
      addresses == Contents[v].addresses
  IN  /\ Ready(i)
      /\ Contents[v].valid
      /\ router' = v
      /\ L!SetAddresses(addresses)
      /\ IF L!Throws(addresses) THEN Failed(i) /\ UNCHANGED sockjs
         ELSE sockjs' = v /\ UpIfStarting /\ Settled(i)
      /\ UNCHANGED <<file, signals, due, latest>>

\* SIGINT, SIGTERM or SIGABRT: listeners are destroyed, and 500 ms later the
\* process ends.  A load in between goes on.
GracefulShutdown ==
  /\ server \in {"starting", "up"}
  /\ server' = "draining"
  /\ L!Destroy
  /\ UNCHANGED <<file, loads, waiting, router, sockjs, signals, due, latest>>

Exit ==
  /\ server = "draining"
  /\ Exited
  /\ UNCHANGED <<listeners, file, router, sockjs, signals, due, latest>>

ListenerEvent ==
  /\ server # "exited"
  /\ \/ \E i \in DOMAIN servers : L!CloseEvent(i)
     \/ \E a \in Addresses : L!OtherProcess(a)
  /\ UNCHANGED <<file, loads, waiting, router, sockjs, server, signals, due, latest>>

Next ==
  \/ Edit
  \/ Sighup
  \/ \E i \in DOMAIN loads : Read(i) \/ LoadFails(i) \/ LoadApplied(i)
  \/ GracefulShutdown
  \/ Exit
  \/ ListenerEvent

Spec == Init /\ [][Next]_vars

(***************************************************************************)
(* No SIGHUP is lost: whenever no load is under way, what was in the file  *)
(* at the last SIGHUP, or something newer, has been read.  A signal may    *)
(* find a load that has read the file already.                             *)
(***************************************************************************)
NoLostReload == server # "exited" /\ loads = << >> => latest >= due

(***************************************************************************)
(* Loads take effect in the order of what they read: an older              *)
(* configuration never replaces a newer one.                               *)
(***************************************************************************)
NeverOlder == [][router' >= router /\ sockjs' >= sockjs]_vars

(***************************************************************************)
(* Requests are routed, addresses listened on and SockJS served by one and *)
(* the same configuration, except after a load that failed half way, in    *)
(* setAddresses.  Once the server is being shut down there may be no       *)
(* listeners, or those of a load that was late.                            *)
(***************************************************************************)
OneConfiguration ==
  server = "up" =>
    /\ router # 0
    /\ wanted = ToSet(Contents[router].addresses)
    /\ sockjs # router => wanted \cap BadPorts # {}

\* What makes these inductive: there is one load at a time, and one to come for
\* a signal that the present one is too late for ...
Serialized ==
  /\ Len(loads) <= 1
  /\ loads = << >> => waiting = 0
  /\ server # "exited" /\ latest < due =>
       waiting > 0 \/ \E i \in DOMAIN loads : loads[i].stage = "reading"

\* ... so that what is applied is what was read last.
InOrder ==
  /\ due <= file /\ latest <= file /\ router <= latest /\ sockjs <= latest
  /\ \A i \in DOMAIN loads : loads[i].stage = "read" => loads[i].version = latest /\ latest # 0

(***************************************************************************)
(* The invariants of Listeners, with reloads, signals, a shutdown, other   *)
(* processes and late "close" events interleaved: no listener is lost to   *)
(* the "close" event of a former one, and each reload leaves the server    *)
(* listening on what the configuration says.                               *)
(***************************************************************************)
Inv ==
  /\ TypeOK
  /\ L!TableHoldsListeners
  /\ L!ListensAsConfigured
  /\ Serialized
  /\ InOrder

(***************************************************************************)
(* A reload does not disturb the listeners that both configurations have,  *)
(* and none of the new ones is refused because of an old one.              *)
(***************************************************************************)
ListenersUndisturbed == L!Undisturbed /\ L!RefusedForCause

=============================================================================

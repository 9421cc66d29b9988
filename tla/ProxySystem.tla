---------------------------- MODULE ProxySystem ----------------------------
(***************************************************************************)
(* The two kinds of clients of one worker: HTTP requests (HttpProxy) and a *)
(* browser's channels (SockProxy).  What they share is the worker, of      *)
(* which they know its promise and that it is in the table of its          *)
(* scheduler (WorkerLife, which WorkerStart implements), and the           *)
(* connections to it, which break when its process ends.                   *)
(***************************************************************************)
EXTENDS SockProxy, HttpProxy

VARIABLES promise, proc, listed

life == <<promise, proc, listed>>
systemVars == <<vars, httpVars, life>>

Worker == INSTANCE WorkerLife

SystemInit == Init /\ HttpInit /\ Worker!Init

\* getWorker finds the entry: those who come later are another worker's.
Acquires ==
  /\ listed
  /\ \/ \E c \in Channels : Connect(c) /\ UNCHANGED httpVars
     \/ \E r \in Requests : GetWorker(r) /\ UNCHANGED vars
  /\ UNCHANGED life

\* The callbacks of the worker's promise.
Told ==
  /\ \/ /\ promise = "fulfilled"
        /\ \/ \E c \in Channels : HandleResolves(c) /\ UNCHANGED httpVars
           \/ \E r \in Requests : Resolved(r) /\ UNCHANGED vars
     \/ /\ promise = "rejected"
        /\ \/ \E c \in Channels : HandleRejected(c) /\ UNCHANGED httpVars
           \/ \E r \in Requests : Rejected(r) /\ UNCHANGED vars
  /\ UNCHANGED life

ChannelStep ==
  /\ \/ \E c \in Channels :
          \/ Open(c) \/ Message(c) \/ ChannelClosed(c) \/ RouteRefused(c)
          \/ WsOpens(c) \/ WsFails(c) \/ WsCloses(c) \/ Report(c)
     \/ InvalidPacket \/ ConnClosed
  /\ UNCHANGED <<httpVars, life>>

RequestStep == (\E r \in Requests : HttpStep(r)) /\ UNCHANGED <<vars, life>>

WorkerStep == Worker!Next /\ UNCHANGED <<vars, httpVars>>

SystemNext == Acquires \/ Told \/ ChannelStep \/ RequestStep \/ WorkerStep

SystemSpec == SystemInit /\ [][SystemNext]_systemVars

(***************************************************************************)
(* Callbacks are called, routers answer, the tail of a log is read or      *)
(* reading it fails.  The connections to a process that has ended break.   *)
(* A socket on which nothing moves, because nobody is left to write to it, *)
(* times out.  A browser need not go away, nor an app answer.              *)
(***************************************************************************)
Disconnected(c) == proc = "ended" /\ (WsFails(c) \/ WsCloses(c))

TimesOut(r) == upstream[r] = "over" /\ tails[r] = 0 /\ ~Over(r) /\ Breaks(r)

Routed(r) == Abort(r) \/ Unrouted(r) \/ NoWorker(r) \/ GetWorker(r)

SystemFairness ==
  /\ \A c \in Channels :
       /\ WF_systemVars((HandleResolves(c) \/ HandleRejected(c)) /\ Told)
       /\ WF_systemVars((Disconnected(c) \/ Report(c)) /\ ChannelStep)
  /\ \A r \in Requests :
       /\ WF_systemVars(Routed(r) /\ (RequestStep \/ Acquires))
       /\ WF_systemVars((Resolved(r) \/ Rejected(r)) /\ Told)
       /\ WF_systemVars(LogRead(r) /\ RequestStep)
       /\ WF_systemVars(proc = "ended" /\ ProxyFails(r) /\ RequestStep)
       /\ WF_systemVars((TimesOut(r) \/ Finish(r) \/ Close(r)) /\ RequestStep)

FairSystem == SystemSpec /\ SystemFairness

(***************************************************************************)
(* When a worker fails to start or ends, all who wait for it or are        *)
(* connected to it are told, in whatever order they hear of it: a response *)
(* is over, be it that no error page can be made or that the head of       *)
(* another has been sent, and a channel is closed.                         *)
(***************************************************************************)
Lost == promise = "rejected" \/ proc = "ended"

EveryoneIsTold ==
  /\ \A r \in Requests :
       Lost /\ handler[r] # "none" ~> handler[r] = "done" /\ Over(r) /\ "http" \notin uses[r]
  /\ \A c \in Channels : Lost /\ Attached(c) ~> channel[c] = "closed"

=============================================================================

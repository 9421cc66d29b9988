----------------------------- MODULE SockProxy -----------------------------
(***************************************************************************)
(* One SockJS connection of a browser and the channels multiplexed over    *)
(* it: lib/proxy/multiplex.js, and the part of lib/proxy/sockjs.js that    *)
(* finds the app of a channel, connects it to the worker by a web socket   *)
(* and passes its messages on.  What the worker's entry sees of it is      *)
(* held: acquire("sock") without its release("sock").                      *)
(***************************************************************************)
EXTENDS Naturals, Sequences

CONSTANTS
  Channels,      \* the ids the browser opens, each used once
  MaxMessages    \* bound on the messages of a channel

ASSUME SockProxyAssumption == MaxMessages \in Nat

VARIABLES
  conn,      \* readyState of the SockJS connection
  channel,   \* readyState of a MultiplexChannel; "none" before it exists
  table,     \* MultiplexSocket.$channels
  told,      \* the browser has closed the channel itself
  stage,     \* how far connecting the channel has got
  held,      \* acquire("sock") has been called, and release("sock") not yet
  ws,        \* the web socket to the worker
  sent,      \* the number of messages the browser has sent
  queue,     \* connEventQueue, or before that the data held by pause()
  toWorker   \* the messages sent to the web socket

vars == <<conn, channel, table, told, stage, held, ws, sent, queue, toWorker>>

Stages ==
  {"none",
   "routing",     \* waiting for getAppSpec_p
   "refused",     \* no app, no access, no capacity
   "waiting",     \* connectToApp is waiting for the worker's handle
   "proxied",     \* connectToApp is done
   "reporting"}   \* the web socket has closed: reading the log's tail

Init ==
  /\ conn = "open"
  /\ channel = [c \in Channels |-> "none"]
  /\ table = {}
  /\ told = {}
  /\ stage = [c \in Channels |-> "none"]
  /\ held = {}
  /\ ws = [c \in Channels |-> "none"]
  /\ sent = [c \in Channels |-> 0]
  /\ queue = [c \in Channels |-> <<>>]
  /\ toWorker = [c \in Channels |-> <<>>]

-----------------------------------------------------------------------------
(* MultiplexSocket                                                         *)

\* Mutant of Attached: only once the web socket has been made.
AttachedLate(c) == stage[c] \in {"proxied", "reporting"}

\* The handlers of connectToApp are attached to the close event.
Attached(c) == stage[c] \in {"waiting", "proxied", "reporting"}

CloseSocket(w) == IF w \in {"connecting", "open"} THEN "closed" ELSE w

\* _destroy() of the channels in C, and the handlers of their close events:
\* the web socket is closed, and release("sock") called at the first of them.
Destroy(C) ==
  /\ channel' = [c \in Channels |-> IF c \in C THEN "closed" ELSE channel[c]]
  /\ held' = held \ {c \in C : Attached(c)}
  /\ ws' = [c \in Channels |->
              IF c \in C /\ Attached(c) THEN CloseSocket(ws[c]) ELSE ws[c]]

\* "o": ids in the table are not opened again.
Open(c) ==
  /\ conn = "open"
  /\ channel[c] = "none"
  /\ channel' = [channel EXCEPT ![c] = "open"]
  /\ table' = table \cup {c}
  /\ stage' = [stage EXCEPT ![c] = "routing"]
  /\ UNCHANGED <<conn, told, held, ws, sent, queue, toWorker>>

\* Mutant of Message: sent on as soon as there is a web socket.
MessageAtOnce(c) ==
  /\ conn = "open"
  /\ c \in table \ told
  /\ sent[c] < MaxMessages
  /\ sent' = [sent EXCEPT ![c] = @ + 1]
  /\ \/ /\ ws[c] \in {"connecting", "open"}
        /\ toWorker' = [toWorker EXCEPT ![c] = Append(@, sent'[c])]
        /\ UNCHANGED queue
     \/ /\ ws[c] = "none"
        /\ queue' = [queue EXCEPT ![c] = Append(@, sent'[c])]
        /\ UNCHANGED toWorker
  /\ UNCHANGED <<conn, channel, table, told, stage, held, ws>>

\* "m": whatever state the channel is in.  It is queued until the web socket
\* opens; nobody takes it when there will be none or it has closed.
Message(c) ==
  /\ conn = "open"
  /\ c \in table \ told
  /\ sent[c] < MaxMessages
  /\ sent' = [sent EXCEPT ![c] = @ + 1]
  /\ \/ /\ ws[c] = "open"
        /\ toWorker' = [toWorker EXCEPT ![c] = Append(@, sent'[c])]
        /\ UNCHANGED queue
     \/ /\ ws[c] \in {"none", "connecting"} /\ stage[c] # "refused"
        /\ queue' = [queue EXCEPT ![c] = Append(@, sent'[c])]
        /\ UNCHANGED toWorker
     \/ /\ ws[c] = "closed" \/ stage[c] = "refused"
        /\ UNCHANGED <<queue, toWorker>>
  /\ UNCHANGED <<conn, channel, table, told, stage, held, ws>>

\* "c"
ChannelClosed(c) ==
  /\ conn = "open"
  /\ c \in table \ told
  /\ told' = told \cup {c}
  /\ Destroy({c})
  /\ UNCHANGED <<conn, table, stage, sent, queue, toWorker>>

\* A packet that does not parse closes the connection.
InvalidPacket ==
  /\ conn = "open"
  /\ conn' = "closing"
  /\ UNCHANGED <<channel, table, told, stage, held, ws, sent, queue,
                 toWorker>>

\* The connection has gone away: all its channels with it, closed or not.
ConnClosed ==
  /\ conn # "closed"
  /\ conn' = "closed"
  /\ Destroy(table)
  /\ table' = {}
  /\ UNCHANGED <<told, stage, sent, queue, toWorker>>

-----------------------------------------------------------------------------
(* handleMultiplexChannel                                                  *)

\* No such app: the channel is left as it is.  An app that does not allow
\* reconnection, and a worker without capacity: it is closed.
RouteRefused(c) ==
  /\ stage[c] = "routing"
  /\ stage' = [stage EXCEPT ![c] = "refused"]
  /\ \/ UNCHANGED <<channel, held, ws>>
     \/ channel' = [channel EXCEPT ![c] = "closed"] /\ UNCHANGED <<held, ws>>
  /\ UNCHANGED <<conn, table, told, sent, queue, toWorker>>

\* connectToApp, whatever has become of the channel meanwhile: pause() holds
\* back data, but not a close event.
Connect(c) ==
  /\ stage[c] = "routing"
  /\ stage' = [stage EXCEPT ![c] = "waiting"]
  /\ held' = held \cup {c}
  /\ UNCHANGED <<conn, channel, table, told, ws, sent, queue, toWorker>>

\* Mutant of HandleResolves: does not look at the channel's readyState.
HandleResolvesUnchecked(c) ==
  /\ stage[c] = "waiting"
  /\ stage' = [stage EXCEPT ![c] = "proxied"]
  /\ ws' = [ws EXCEPT ![c] = "connecting"]
  /\ UNCHANGED <<conn, channel, table, told, held, sent, queue, toWorker>>

\* The worker is ready.
HandleResolves(c) ==
  /\ stage[c] = "waiting"
  /\ stage' = [stage EXCEPT ![c] = "proxied"]
  /\ ws' = [ws EXCEPT ![c] = IF channel[c] = "open" THEN "connecting" ELSE @]
  /\ UNCHANGED <<conn, channel, table, told, held, sent, queue, toWorker>>

\* It failed to start.
HandleRejected(c) ==
  /\ stage[c] = "waiting"
  /\ stage' = [stage EXCEPT ![c] = "proxied"]
  /\ Destroy({c})
  /\ UNCHANGED <<conn, table, told, sent, queue, toWorker>>

\* Mutant of WsOpens: the early events are replayed last first.
WsOpensReversed(c) ==
  /\ ws[c] = "connecting"
  /\ ws' = [ws EXCEPT ![c] = "open"]
  /\ toWorker' = [toWorker EXCEPT ![c] =
                    @ \o [i \in 1..Len(queue[c]) |->
                            queue[c][Len(queue[c]) + 1 - i]]]
  /\ queue' = [queue EXCEPT ![c] = <<>>]
  /\ UNCHANGED <<conn, channel, table, told, stage, held, sent>>

\* onopen: what has been queued is sent first.
WsOpens(c) ==
  /\ ws[c] = "connecting"
  /\ ws' = [ws EXCEPT ![c] = "open"]
  /\ toWorker' = [toWorker EXCEPT ![c] = @ \o queue[c]]
  /\ queue' = [queue EXCEPT ![c] = <<>>]
  /\ UNCHANGED <<conn, channel, table, told, stage, held, sent>>

\* onerror
WsFails(c) ==
  /\ ws[c] = "connecting"
  /\ Destroy({c})
  /\ UNCHANGED <<conn, table, told, stage, sent, queue, toWorker>>

\* onclose, on the worker's initiative.
WsCloses(c) ==
  /\ ws[c] \in {"connecting", "open"}
  /\ ws' = [ws EXCEPT ![c] = "closed"]
  /\ stage' = [stage EXCEPT ![c] = IF channel[c] = "open" THEN "reporting" ELSE @]
  /\ UNCHANGED <<conn, channel, table, told, held, sent, queue, toWorker>>

\* The browser has been told; conn.close().
Report(c) ==
  /\ stage[c] = "reporting"
  /\ stage' = [stage EXCEPT ![c] = "proxied"]
  /\ Destroy({c})
  /\ UNCHANGED <<conn, table, told, sent, queue, toWorker>>

-----------------------------------------------------------------------------
Next ==
  \/ \E c \in Channels :
       \/ Open(c)
       \/ Message(c)
       \/ ChannelClosed(c)
       \/ RouteRefused(c)
       \/ Connect(c)
       \/ HandleResolves(c)
       \/ HandleRejected(c)
       \/ WsOpens(c)
       \/ WsFails(c)
       \/ WsCloses(c)
       \/ Report(c)
  \/ InvalidPacket
  \/ ConnClosed

Spec == Init /\ [][Next]_vars

-----------------------------------------------------------------------------
(* Properties                                                              *)

TypeOK ==
  /\ conn \in {"open", "closing", "closed"}
  /\ channel \in [Channels -> {"none", "open", "closed"}]
  /\ table \in SUBSET Channels
  /\ told \in SUBSET Channels
  /\ stage \in [Channels -> Stages]
  /\ held \in SUBSET Channels
  /\ ws \in [Channels -> {"none", "connecting", "open", "closed"}]
  /\ sent \in [Channels -> 0..MaxMessages]
  /\ queue \in [Channels -> Seq(1..MaxMessages)]
  /\ toWorker \in [Channels -> Seq(1..MaxMessages)]

\* sockjs.js: "Must, must, must match up acquire() and release() calls": a
\* channel that closes, whoever closes it and however far it has got, is not
\* counted any more; and one that stays open has not been released early.
ReleasedOnClose ==
  [][\A c \in Channels :
       /\ channel[c] = "open" /\ channel'[c] = "closed" => c \notin held'
       /\ c \in held /\ channel'[c] = "open" => c \in held']_vars

\* When the browser has gone, the worker does not count it any more.
ReleasedWithConn == conn = "closed" => held = {}

\* A web socket to the worker belongs to an open channel, and as long as it
\* exists the worker counts the channel, so that it is not taken for idle.
SocketsAreCounted ==
  \A c \in Channels :
    ws[c] \in {"connecting", "open"} => channel[c] = "open" /\ c \in held

Upto(n) == [i \in 1..n |-> i]

\* Whatever the browser has sent, early or not, the worker has been sent, once
\* and in order.
MessagesPassedOn ==
  \A c \in Channels :
    ws[c] = "open" => toWorker[c] = Upto(sent[c])

\* "Channels cannot outlive their underlying connections" (multiplex.js), and
\* nor do their web sockets.
NothingOutlivesConn ==
  conn = "closed" => \A c \in Channels : /\ channel[c] # "open"
                                         /\ ws[c] \notin {"connecting", "open"}

\* What makes the invariants above inductive: how the table, the stage of a
\* channel and its web socket hang together ...
Stage(c) ==
  /\ channel[c] = "none" <=> stage[c] = "none"
  /\ channel[c] = "open" => c \in table /\ conn # "closed"
  /\ c \in table => channel[c] # "none"
  /\ ws[c] # "none" => stage[c] \in {"proxied", "reporting"}
  /\ ws[c] \in {"connecting", "open"} => channel[c] = "open"

\* ... when release("sock") is still to come ...
Accounting(c) ==
  /\ Attached(c) /\ channel[c] = "open" => c \in held
  /\ c \in held => Attached(c)

\* ... and where the messages are until the web socket opens.
Passing(c) ==
  /\ ws[c] = "open" => toWorker[c] = Upto(sent[c])
  /\ ws[c] \in {"none", "connecting"} => toWorker[c] = <<>>
  /\ ws[c] \in {"none", "connecting"} /\ stage[c] # "refused"
       => queue[c] = Upto(sent[c])

IInv ==
  /\ TypeOK
  /\ \A c \in Channels : Stage(c) /\ Accounting(c) /\ Passing(c)

=============================================================================

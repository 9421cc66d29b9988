---------------------------- MODULE RobustSockJS ----------------------------
(***************************************************************************)
(* lib/proxy/robust-sockjs.js: one session, by its id, over a succession   *)
(* of SockJS connections that may each break at any moment, with the two   *)
(* ends noticing at different times.  The server's end is the RobustConn   *)
(* of the registry; the client's end (BufferedResendConnection) and the    *)
(* message buffers and receivers of both belong to shiny-server-client and *)
(* are modelled from what the server's comments and calls require of them. *)
(***************************************************************************)
EXTENDS Naturals, Sequences

CONSTANTS
  MaxConns,     \* bound: SockJS connections the client attempts
  MaxMessages   \* bound: messages written by each side

Sides == {"client", "server"}

ASSUME RobustAssumption ==
  /\ MaxConns \in Nat
  /\ MaxMessages \in [Sides -> Nat]

\* Connections, in the order the client attempts them.
Conns == 1 .. MaxConns
None == 0

Peer(side) == IF side = "client" THEN "server" ELSE "client"

VARIABLES
  session,      \* of the id in the registry: "none", "live", "ended"
  nascent,      \* RobustConn.nascent
  current,      \* RobustConn._conn
  withheld,     \* the timer of the withheld close and end events is running
  end,          \* by side, its message buffer and receiver
  received,     \* by side, the messages handed to the layer above
  url,          \* of a connection: "n" (new session) or "o" (open session)
  ready,        \* the server's view of a connection
  wire,         \* by connection and side, the messages on their way there
  clientState,
  clientConn,   \* the connection the client uses or attempts
  opened        \* the client has seen one of its connections open

sessionVars == <<session, nascent, current, withheld>>
linkVars == <<url, ready, wire>>
clientVars == <<clientState, clientConn, opened>>
vars == <<sessionVars, end, received, linkVars, clientVars>>

Ids == UNION {0 .. MaxMessages[side] : side \in Sides}
Messages == [kind : {"data", "ack", "CONTINUE"}, id : Ids]

\* MessageBuffer holds the messages from first up to next - 1; nextIn is the
\* id MessageReceiver expects next; expectContinue is RobustConn's field, and
\* its counterpart in the client.
NewEnd ==
  [first |-> 0, next |-> 0, nextIn |-> 0, ackDue |-> FALSE,
   expectContinue |-> FALSE]

-----------------------------------------------------------------------------
(* Message buffer and receiver                                             *)

GetMessagesFrom(e, id) ==
  [i \in 1..(e.next - id) |-> [kind |-> "data", id |-> id + i - 1]]

Discard(e, id) == [e EXCEPT !.first = IF id > @ THEN id ELSE @]

\* What the emit handler of a RobustConn does with a message: the end
\* afterwards, what it writes back, what it hands on, and whether it failed.
Outcome(e, replies, data) ==
  [end |-> e, replies |-> replies, data |-> data, ok |-> TRUE]

\* Mutant of HandleContinue: what the other end has received stays in the
\* buffer.
HandleContinueKeeps(e, id) ==
  Outcome([e EXCEPT !.expectContinue = FALSE], GetMessagesFrom(e, id), <<>>)

\* The other end has resumed: what it has received is discarded, the rest is
\* sent again.
HandleContinue(e, id) ==
  Outcome([Discard(e, id) EXCEPT !.expectContinue = FALSE],
          GetMessagesFrom(e, id), <<>>)

HandleData(e, id) ==
  Outcome([e EXCEPT !.nextIn = id + 1, !.ackDue = TRUE], <<>>, <<id>>)

Handle(e, m) ==
  IF m.kind = "ack" /\ m.id <= e.next
  THEN Outcome(Discard(e, m.id), <<>>, <<>>)
  ELSE IF e.expectContinue /\ m.kind = "CONTINUE" /\ m.id \in e.first..e.next
  THEN HandleContinue(e, m.id)
  ELSE IF ~e.expectContinue /\ m.kind = "data"
  THEN HandleData(e, m.id)
  ELSE [Outcome(e, <<>>, <<>>) EXCEPT !.ok = FALSE]

-----------------------------------------------------------------------------
Init ==
  /\ session = "none"
  /\ nascent = FALSE
  /\ current = None
  /\ withheld = FALSE
  /\ end = [side \in Sides |-> NewEnd]
  /\ received = [side \in Sides |-> <<>>]
  /\ url = [c \in Conns |-> "none"]
  /\ ready = [c \in Conns |-> "none"]
  /\ wire = [c \in Conns |-> [side \in Sides |-> <<>>]]
  /\ clientState = "disconnected"
  /\ clientConn = None
  /\ opened = FALSE

-----------------------------------------------------------------------------
(* The registry                                                            *)

\* Mutant of Replace: the timer of the withheld events is not cleared.
ReplaceKeepsTimer(c) ==
  /\ current' = c
  /\ ready' = [b \in Conns |-> IF b = c THEN "open"
                               ELSE IF b = current THEN "closed"
                               ELSE ready[b]]
  /\ UNCHANGED withheld

\* set(): the connection in use is retired and closed, and its events are no
\* longer seen; pending close events are forgotten.
Replace(c) ==
  /\ current' = c
  /\ withheld' = FALSE
  /\ ready' = [b \in Conns |-> IF b = c THEN "open"
                               ELSE IF b = current THEN "closed"
                               ELSE ready[b]]

\* Mutant of Resume: CONTINUE is sent, and not waited for.
ResumeAtOnce(c) ==
  /\ session = "live"
  /\ url[c] = "o"
  /\ Replace(c)
  /\ wire' = [wire EXCEPT ![c]["client"] =
                <<[kind |-> "CONTINUE", id |-> end["server"].nextIn]>>]
  /\ UNCHANGED <<session, nascent, end, received, url, clientVars>>

\* set(conn, true)
Resume(c) ==
  /\ session = "live"
  /\ url[c] = "o"
  /\ Replace(c)
  /\ wire' = [wire EXCEPT ![c]["client"] =
                <<[kind |-> "CONTINUE", id |-> end["server"].nextIn]>>]
  /\ end' = [end EXCEPT !["server"].expectContinue = TRUE]
  /\ UNCHANGED <<session, nascent, received, url, clientVars>>

\* set(conn, false), on a RobustConn that has not received anything.
ResumeNascent(c) ==
  /\ session = "live"
  /\ url[c] = "n"
  /\ nascent
  /\ Replace(c)
  /\ wire' = [wire EXCEPT ![c]["client"] = GetMessagesFrom(end["server"], 0)]
  /\ UNCHANGED <<session, nascent, end, received, url, clientVars>>

Create(c) ==
  /\ session # "live"
  /\ url[c] = "n"
  /\ session' = "live"
  /\ nascent' = TRUE
  /\ Replace(c)
  /\ end' = [end EXCEPT !["server"] = NewEnd]
  /\ UNCHANGED <<received, url, wire, clientVars>>

\* BAD_IDENTIFIER: an id that is taken, or unknown.
Refuse(c) ==
  /\ \/ url[c] = "n" /\ session = "live" /\ ~nascent
     \/ url[c] = "o" /\ session # "live"
  /\ ready' = [ready EXCEPT ![c] = "refused"]
  /\ UNCHANGED <<sessionVars, end, received, url, wire, clientVars>>

\* robustify, for a connection that has reached the server.
Robustify(c) ==
  /\ url[c] # "none"
  /\ ready[c] = "none"
  /\ \/ Resume(c)
     \/ ResumeNascent(c)
     \/ Create(c)
     \/ Refuse(c)

\* A connection breaks, and the server hears of it: end and close of the one
\* in use are withheld.
ServerDisconnects(c) ==
  /\ ready[c] \in {"open", "closing"}
  /\ ready' = [ready EXCEPT ![c] = "closed"]
  /\ withheld' = (withheld \/ c = current)
  /\ UNCHANGED <<session, nascent, current, end, received, url, wire, clientVars>>

\* Nobody has come back in time.  An attempt that the client has given up is
\* by now too old to reach the server.
WithheldTimerFires ==
  /\ withheld
  /\ withheld' = FALSE
  /\ session' = "ended"
  /\ ready' = [c \in Conns |->
                 IF url[c] = "n" /\ ready[c] = "none" /\ c # clientConn
                 THEN "closed" ELSE ready[c]]
  /\ UNCHANGED <<nascent, current, end, received, url, wire, clientVars>>

-----------------------------------------------------------------------------
(* The client                                                              *)

ClientConnects(c) ==
  /\ clientState = "disconnected"
  /\ url[c] = "none"
  /\ \A b \in Conns : b < c => url[b] # "none"
  /\ url' = [url EXCEPT ![c] = IF opened THEN "o" ELSE "n"]
  /\ clientConn' = c
  /\ clientState' = "connecting"
  /\ UNCHANGED <<sessionVars, end, received, ready, wire, opened>>

ClientOpens ==
  /\ clientState = "connecting"
  /\ ready[clientConn] \in {"open", "closed"}
  /\ clientState' = "open"
  /\ opened' = TRUE
  /\ IF url[clientConn] = "o"
     THEN /\ wire' = [wire EXCEPT ![clientConn]["server"] =
                        <<[kind |-> "CONTINUE", id |-> end["client"].nextIn]>>]
          /\ end' = [end EXCEPT !["client"].expectContinue = TRUE]
     ELSE UNCHANGED <<wire, end>>
  /\ UNCHANGED <<sessionVars, received, url, ready, clientConn>>

\* It notices a break, or gives up an attempt.
ClientDisconnects ==
  /\ clientState \in {"connecting", "open"}
  /\ clientState' = "disconnected"
  /\ clientConn' = None
  /\ UNCHANGED <<sessionVars, end, received, linkVars, opened>>

ClientRefused ==
  /\ clientState = "connecting"
  /\ ready[clientConn] = "refused"
  /\ clientState' = "refused"
  /\ UNCHANGED <<sessionVars, end, received, linkVars, clientConn, opened>>

-----------------------------------------------------------------------------
(* Either side                                                             *)

Conn(side) == IF side = "server" THEN current ELSE clientConn

\* readyState = 1
IsOpen(side) ==
  IF side = "server" THEN session # "none" /\ ready[current] = "open"
  ELSE clientState = "open"

\* write(): the layer above writes once the session is established.
MayWrite(side) ==
  /\ end[side].next < MaxMessages[side]
  /\ IF side = "server" THEN session = "live"
     ELSE opened /\ clientState \in {"disconnected", "connecting", "open"}

\* Mutant of Write: does not wait for CONTINUE.
WriteAtOnce(side) ==
  /\ MayWrite(side)
  /\ end' = [end EXCEPT ![side].next = @ + 1]
  /\ IF IsOpen(side)
     THEN wire' = [wire EXCEPT ![Conn(side)][Peer(side)] =
                     Append(@, [kind |-> "data", id |-> end[side].next])]
     ELSE UNCHANGED wire
  /\ UNCHANGED <<sessionVars, received, url, ready, clientVars>>

Write(side) ==
  /\ MayWrite(side)
  /\ end' = [end EXCEPT ![side].next = @ + 1]
  /\ IF IsOpen(side) /\ ~end[side].expectContinue
     THEN wire' = [wire EXCEPT ![Conn(side)][Peer(side)] =
                     Append(@, [kind |-> "data", id |-> end[side].next])]
     ELSE UNCHANGED wire
  /\ UNCHANGED <<sessionVars, received, url, ready, clientVars>>

\* onacktimeout
SendAck(side) ==
  /\ end[side].ackDue
  /\ end' = [end EXCEPT ![side].ackDue = FALSE]
  /\ IF IsOpen(side)
     THEN wire' = [wire EXCEPT ![Conn(side)][Peer(side)] =
                     Append(@, [kind |-> "ack", id |-> end[side].nextIn])]
     ELSE UNCHANGED wire
  /\ UNCHANGED <<sessionVars, received, url, ready, clientVars>>

\* The emit of a connection in use, for the event "data"; an error closes it
\* (BAD_PROTOCOL).
Receive(side) ==
  /\ IsOpen(side)
  /\ wire[Conn(side)][side] # <<>>
  /\ LET c == Conn(side)
         o == Handle(end[side], Head(wire[c][side]))
     IN /\ end' = [end EXCEPT ![side] = o.end]
        /\ received' = [received EXCEPT ![side] = @ \o o.data]
        /\ wire' = [wire EXCEPT ![c] = [s \in Sides |->
                      IF s = side THEN Tail(@[s]) ELSE @[s] \o o.replies]]
        /\ IF side = "server"
           THEN /\ nascent' = FALSE
                /\ ready' = IF o.ok THEN ready
                            ELSE [ready EXCEPT ![c] = "closing"]
                /\ UNCHANGED clientState
           ELSE /\ clientState' = IF o.ok THEN clientState ELSE "failed"
                /\ UNCHANGED <<nascent, ready>>
  /\ UNCHANGED <<session, current, withheld, url, clientConn, opened>>

-----------------------------------------------------------------------------
Next ==
  \/ \E c \in Conns : \/ Robustify(c)
                      \/ ServerDisconnects(c)
                      \/ ClientConnects(c)
  \/ WithheldTimerFires
  \/ ClientOpens
  \/ ClientDisconnects
  \/ ClientRefused
  \/ \E side \in Sides : Write(side) \/ SendAck(side) \/ Receive(side)

Spec == Init /\ [][Next]_vars

\* Both ends notice in the end when the other has left a connection (SockJS
\* heartbeats), the network delivers, and the client tries again as long as
\* it has connections left.
Fairness ==
  /\ \A c \in Conns :
       /\ WF_vars(Robustify(c))
       /\ WF_vars(clientConn # c /\ ServerDisconnects(c))
  /\ WF_vars(\E c \in Conns : ClientConnects(c))
  /\ WF_vars(ClientOpens)
  /\ WF_vars(/\ clientConn # None
             /\ ready[clientConn] \in {"closed", "closing"}
             /\ ClientDisconnects)
  /\ WF_vars(ClientRefused)
  /\ \A side \in Sides : WF_vars(Receive(side)) /\ WF_vars(SendAck(side))

FairSpec == Spec /\ Fairness

-----------------------------------------------------------------------------
(* Properties                                                              *)

TypeOK ==
  /\ session \in {"none", "live", "ended"}
  /\ nascent \in BOOLEAN
  /\ current \in Conns \cup {None}
  /\ withheld \in BOOLEAN
  /\ end \in [Sides -> [first : Ids, next : Ids, nextIn : Ids,
                        ackDue : BOOLEAN, expectContinue : BOOLEAN]]
  /\ received \in [Sides -> Seq(Ids)]
  /\ url \in [Conns -> {"none", "n", "o"}]
  /\ ready \in [Conns -> {"none", "open", "closing", "closed", "refused"}]
  /\ wire \in [Conns -> [Sides -> Seq(Messages)]]
  /\ clientState \in {"disconnected", "connecting", "open", "refused", "failed"}
  /\ clientConn \in Conns \cup {None}
  /\ opened \in BOOLEAN

\* Across any number of reconnections both directions are streams that lose,
\* repeat and reorder nothing.
Stream == INSTANCE ReliableStream
  WITH written <- [side \in Sides |-> end[side].next]

ImplementsReliableStream == Stream!Spec

\* What the other side has not received yet is still in the buffer, so that
\* it can be sent again.
NothingDiscardedEarly ==
  \A side \in Sides :
    /\ end[side].first <= end[Peer(side)].nextIn
    /\ end[Peer(side)].nextIn <= end[side].next

\* No handshake fails: neither end ever closes a connection because of a
\* message it did not expect.
NoProtocolErrors ==
  /\ \A c \in Conns : ready[c] # "closing"
  /\ clientState # "failed"

\* Only a client whose session has ended is refused, not one that comes late,
\* twice, or before the server has noticed that it was gone.
RefusedOnlyIfEnded ==
  (/\ clientConn # None
   /\ ready[clientConn] = "refused") => session = "ended"

\* What makes these inductive.  What has been handed on is what is counted ...
Counted ==
  \A side \in Sides :
    /\ Len(received[side]) = end[side].nextIn
    /\ end[side].next <= MaxMessages[side]

\* ... the registry has at most one connection open, the current one, and a
\* session that has ended is not begun again once the client has seen it ...
Registry ==
  /\ session = "none" => current = None /\ \A c \in Conns : ready[c] = "none"
  /\ session # "none" => current \in Conns /\ ready[current] \in {"open", "closed"}
  /\ withheld => session = "live"
  /\ withheld \/ session = "ended" => ready[current] = "closed"
  /\ \A c \in Conns :
       /\ ready[c] = "open" => c = current
       /\ url[c] = "none" => ready[c] = "none"
       /\ ready[c] = "none" => \A side \in Sides : wire[c][side] = << >>
  /\ /\ session = "ended"
     /\ opened \/ (clientConn # None /\ ready[clientConn] # "none")
     => \A c \in Conns : url[c] = "n" => ready[c] # "none"

\* ... the client knows whether there is a session to come back to ...
Client ==
  /\ clientState = "disconnected" <=> clientConn = None
  /\ clientConn # None => url[clientConn] # "none"
  /\ clientState = "connecting" => (url[clientConn] = "o" <=> opened)
  /\ clientState = "open" => opened /\ ready[clientConn] \in {"open", "closed"}
  /\ clientState = "refused" => ready[clientConn] = "refused"
  /\ clientConn # None /\ ready[clientConn] = "refused" => opened
  /\ clientConn # None /\ url[clientConn] = "n" => \A c \in Conns : url[c] # "o"
  /\ \A side \in Sides : end[side].expectContinue => \E c \in Conns : url[c] = "o"
  /\ \A c \in Conns : url[c] = "o" => opened
  /\ opened => session # "none"
  /\ ~opened =>
       /\ end["client"] = NewEnd /\ end["server"].nextIn = 0
       /\ \A c \in Conns : wire[c]["server"] = << >>
       /\ session = "live" => nascent

\* The data in w are the messages from a up to b - 1, once each and in order.
Carries(w, a, b) ==
  /\ a <= b
  /\ \A i \in DOMAIN w : w[i].kind = "data" => w[i].id \in a .. b - 1
  /\ \A i, j \in DOMAIN w :
       w[i].kind = "data" /\ w[j].kind = "data" /\ i < j => w[i].id < w[j].id
  /\ \A n \in a .. b - 1 : \E i \in DOMAIN w : w[i].kind = "data" /\ w[i].id = n

\* ... the messages w on their way to the end e, from the end p, are what e
\* can take: CONTINUE first if it is awaited, and what e does not have yet.
Acceptable(w, e, p, awaited) ==
  /\ awaited /\ w # << >> => w[1].kind = "CONTINUE" /\ e.first <= w[1].id
  /\ \A i \in DOMAIN w :
       /\ w[i].kind = "CONTINUE" => i = 1 /\ awaited
       /\ w[i].kind # "data" => w[i].id <= p.nextIn
  /\ \E b \in 0 .. p.next : Carries(w, e.nextIn, b)

\* The same when both use one connection: everything written is on its way
\* unless the writer waits for CONTINUE, and then that is.
Complete(w, e, p, awaited) ==
  /\ awaited => w # << >> /\ w[1].id = p.nextIn
  /\ Carries(w, e.nextIn, IF p.expectContinue THEN e.nextIn ELSE p.next)

\* That of the connection each end reads from, or is about to: a client that
\* connects again is going to wait for CONTINUE.
Underway ==
  LET client == end["client"]
      server == end["server"]
      toClient == wire[clientConn]["client"]
      toServer == wire[current]["server"]
  IN  /\ session # "none" /\ ready[current] = "open" =>
           Acceptable(toServer, server, client, server.expectContinue)
      /\ clientState = "connecting" /\ ready[clientConn] \in {"open", "closed"} =>
           Acceptable(toClient, client, server, opened)
      /\ clientState = "open" =>
           Acceptable(toClient, client, server, client.expectContinue)
      /\ clientState = "connecting" /\ ready[clientConn] = "open" =>
           /\ Complete(toClient, client, server, opened)
           /\ toServer = << >>
           /\ opened => server.expectContinue
      /\ clientState = "open" /\ ready[clientConn] = "open" =>
           /\ Complete(toClient, client, server, client.expectContinue)
           /\ Complete(toServer, server, client, server.expectContinue)

\* The invariant of the registry, the two ends and what is on its way.
Inv ==
  /\ TypeOK
  /\ NothingDiscardedEarly
  /\ NoProtocolErrors
  /\ RefusedOnlyIfEnded
  /\ Counted
  /\ Registry
  /\ Client
  /\ Underway

\* A session is never given up while its connection is open.
EndsOnlyIfDisconnected ==
  [][(session = "live" /\ session' = "ended") => ready[current] = "closed"]_vars

GivenUp ==
  \/ session = "ended"
  \/ clientState = "disconnected" /\ \A c \in Conns : url[c] # "none"

\* Every message that was written is acknowledged, which it is only when it has
\* arrived, and leaves the buffer, if need be with the next CONTINUE; unless the
\* session ends, or the client has no connection left to try.
EventuallyDiscarded ==
  \A side \in Sides :
    opened ~> (end[side].first = end[side].next \/ GivenUp)

=============================================================================

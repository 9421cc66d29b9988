------------------------- MODULE ProxySystemProofs -------------------------
(***************************************************************************)
(* The invariants of SockProxy and of ProxySystem, for any number of       *)
(* channels, messages and requests.  First those of the channels alone:    *)
(* IInv is inductive, and the properties of SockProxy follow from it.      *)
(* They hold in the whole system too: a step of it is a step of SockProxy  *)
(* or changes nothing of it, whatever the worker lets happen.  Those of    *)
(* the requests are shown here for the system: HttpInv is inductive.       *)
(***************************************************************************)
EXTENDS ProxySystem, SequenceTheorems, TLAPS

-----------------------------------------------------------------------------
(* The channels                                                            *)

USE SockProxyAssumption

\* Sending one more message extends what has been sent.
LEMMA UptoNext ==
  ASSUME NEW n \in Nat
  PROVE  /\ Upto(0) = <<>>
         /\ Append(Upto(n), n + 1) = Upto(n + 1)
         /\ Upto(n) \in Seq(1..n)
         /\ <<>> \o Upto(n) = Upto(n)
BY DEF Upto

\* The parts of the invariant that concern one channel depend on nothing
\* but the variables at that channel, the table and whether there is still a
\* connection.
LEMMA OtherChannel ==
  ASSUME NEW c \in Channels, Stage(c), Accounting(c), Passing(c),
         channel'[c] = channel[c], stage'[c] = stage[c], ws'[c] = ws[c],
         sent'[c] = sent[c], queue'[c] = queue[c],
         toWorker'[c] = toWorker[c],
         c \in table' <=> c \in table, c \in held' <=> c \in held,
         conn' = "closed" => conn = "closed"
  PROVE  Stage(c)' /\ Accounting(c)' /\ Passing(c)'
BY DEF Stage, Accounting, Passing, Attached

\* What Destroy does to one channel.
LEMMA DestroyChannel ==
  ASSUME TypeOK, NEW C \in SUBSET Channels, Destroy(C), NEW c \in Channels
  PROVE  /\ channel'[c] = IF c \in C THEN "closed" ELSE channel[c]
         /\ c \in held' <=> c \in held /\ ~(c \in C /\ Attached(c))
         /\ ws'[c] = IF c \in C /\ Attached(c) THEN CloseSocket(ws[c])
                     ELSE ws[c]
<1>1. channel'[c] = IF c \in C THEN "closed" ELSE channel[c]
  BY DEF Destroy
<1>2. c \in held' <=> c \in held /\ ~(c \in C /\ Attached(c))
  <2>1. held' = held \ {d \in C : Attached(d)}
    BY DEF Destroy
  <2>2. c \in {d \in C : Attached(d)} <=> c \in C /\ Attached(c)
    OBVIOUS
  <2> QED BY <2>1, <2>2
<1>3. ws'[c] = IF c \in C /\ Attached(c) THEN CloseSocket(ws[c]) ELSE ws[c]
  BY DEF Destroy
<1> QED BY <1>1, <1>2, <1>3

\* It keeps the types of the variables it changes.
LEMMA DestroyTypes ==
  ASSUME TypeOK, NEW C \in SUBSET Channels, Destroy(C)
  PROVE  /\ channel' \in [Channels -> {"none", "open", "closed"}]
         /\ ws' \in [Channels -> {"none", "connecting", "open", "closed"}]
         /\ held' \in SUBSET Channels
BY DEF TypeOK, Destroy, CloseSocket

\* Destroying channels of the table keeps the invariant, whether or not the
\* connection goes away with them, and even if the step in which it happens
\* ends a stage.
LEMMA DestroyIInv ==
  ASSUME IInv, NEW C \in SUBSET Channels, Destroy(C),
         \A c \in C : channel[c] # "none",
         conn' \in {"open", "closing", "closed"},
         told' \in SUBSET Channels,
         \/ conn' = conn /\ table' = table
         \/ table \subseteq C /\ table' = {},
         \A c \in Channels \ C : stage'[c] = stage[c],
         \A c \in C : \/ stage'[c] = stage[c]
                      \/ Attached(c) /\ stage'[c] = "proxied",
         stage' \in [Channels -> Stages],
         UNCHANGED <<sent, queue, toWorker>>
  PROVE  IInv'
<1>1. TypeOK /\ \A c \in Channels : Stage(c) /\ Accounting(c) /\ Passing(c)
  BY DEF IInv
<1>2. TypeOK'
  BY <1>1, DestroyTypes DEF TypeOK
<1>3. ASSUME NEW c \in Channels
      PROVE  Stage(c)' /\ Accounting(c)' /\ Passing(c)'
  <2>1. Stage(c) /\ Accounting(c) /\ Passing(c)
    BY <1>1
  <2>2. /\ channel'[c] = IF c \in C THEN "closed" ELSE channel[c]
        /\ c \in held' <=> c \in held /\ ~(c \in C /\ Attached(c))
        /\ ws'[c] = IF c \in C /\ Attached(c) THEN CloseSocket(ws[c])
                    ELSE ws[c]
    BY <1>1, DestroyChannel
  <2>3. CASE c \in C
    <3>1. /\ channel[c] # "none" /\ channel'[c] = "closed"
          /\ stage'[c] = stage[c] \/ (Attached(c) /\ stage'[c] = "proxied")
      BY <2>2, <2>3
    <3>2. ws[c] \in {"none", "connecting", "open", "closed"}
      BY <1>1 DEF TypeOK
    <3>3. /\ ws'[c] \notin {"connecting", "open"}
          /\ ws'[c] = "none" => ws[c] = "none"
          /\ ws'[c] # "none" => ws[c] # "none"
      BY <2>1, <2>2, <2>3, <3>1, <3>2 DEF Stage, Attached, CloseSocket
    <3>4. Stage(c)'
      BY <2>1, <2>2, <2>3, <3>1, <3>3 DEF Stage, Attached
    <3>5. Accounting(c)'
      BY <2>1, <2>2, <2>3, <3>1 DEF Accounting, Attached
    <3>6. Passing(c)'
      BY <2>1, <3>1, <3>3 DEF Passing, Attached
    <3> QED BY <3>4, <3>5, <3>6
  <2>4. CASE c \notin C
    <3>3. /\ channel'[c] = channel[c] /\ stage'[c] = stage[c] /\ ws'[c] = ws[c]
          /\ sent'[c] = sent[c] /\ queue'[c] = queue[c]
          /\ toWorker'[c] = toWorker[c]
          /\ c \in held' <=> c \in held
      BY <2>2, <2>4
    <3>1. CASE conn' = conn /\ table' = table
      BY <2>1, <3>1, <3>3, OtherChannel
    <3>2. CASE table \subseteq C /\ table' = {}
      <4>1. channel[c] # "open"
        BY <2>1, <2>4, <3>2 DEF Stage
      <4>2. c \notin table'
        BY <3>2
      <4> QED BY <2>1, <3>3, <4>1, <4>2 DEF Stage, Accounting, Passing, Attached
    <3> QED BY <3>1, <3>2
  <2> QED BY <2>3, <2>4
<1> QED BY <1>2, <1>3 DEF IInv

\* Nothing has been opened yet.
LEMMA InitIInv == Init => IInv
<1> SUFFICES ASSUME Init PROVE IInv
  OBVIOUS
<1>1. TypeOK
  BY DEF Init, TypeOK, Stages
<1>2. ASSUME NEW c \in Channels
      PROVE  Stage(c) /\ Accounting(c) /\ Passing(c)
  BY UptoNext DEF Init, Stage, Accounting, Passing, Attached
<1> QED BY <1>1, <1>2 DEF IInv

\* A message is sent on, queued or dropped.
LEMMA MessageIInv ==
  ASSUME IInv, NEW c \in Channels, Message(c)
  PROVE  IInv'
<1>1. TypeOK /\ \A d \in Channels : Stage(d) /\ Accounting(d) /\ Passing(d)
  BY DEF IInv
<1>2. /\ sent[c] \in Nat /\ sent[c] < MaxMessages
      /\ sent' = [sent EXCEPT ![c] = sent[c] + 1]
      /\ sent'[c] = sent[c] + 1
      /\ sent'[c] \in 1..MaxMessages
  BY <1>1 DEF Message, TypeOK
<1>3. TypeOK'
  <2>1. sent' \in [Channels -> 0..MaxMessages]
    BY <1>1, <1>2 DEF TypeOK
  <2>2. ASSUME NEW q \in Seq(1..MaxMessages)
        PROVE  Append(q, sent'[c]) \in Seq(1..MaxMessages)
    BY <1>2, <2>2
  <2>3. queue' \in [Channels -> Seq(1..MaxMessages)]
    <3>1. \/ queue' = queue
          \/ queue' = [queue EXCEPT ![c] = Append(queue[c], sent'[c])]
      BY DEF Message
    <3>2. queue \in [Channels -> Seq(1..MaxMessages)]
      BY <1>1 DEF TypeOK
    <3>3. Append(queue[c], sent'[c]) \in Seq(1..MaxMessages)
      BY <2>2, <3>2
    <3> QED BY <3>1, <3>2, <3>3
  <2>4. toWorker' \in [Channels -> Seq(1..MaxMessages)]
    <3>1. \/ toWorker' = toWorker
          \/ toWorker' = [toWorker EXCEPT ![c] = Append(toWorker[c], sent'[c])]
      BY DEF Message
    <3>2. toWorker \in [Channels -> Seq(1..MaxMessages)]
      BY <1>1 DEF TypeOK
    <3>3. Append(toWorker[c], sent'[c]) \in Seq(1..MaxMessages)
      BY <2>2, <3>2
    <3> QED BY <3>1, <3>2, <3>3
  <2> QED BY <1>1, <2>1, <2>3, <2>4 DEF Message, TypeOK
<1>4. ASSUME NEW d \in Channels
      PROVE  Stage(d)' /\ Accounting(d)' /\ Passing(d)'
  <2>1. CASE d # c
    <3>1. /\ sent'[d] = sent[d] /\ queue'[d] = queue[d]
          /\ toWorker'[d] = toWorker[d]
      BY <1>1, <2>1 DEF Message, TypeOK
    <3> QED BY <1>1, <3>1, OtherChannel DEF Message
  <2>2. CASE d = c
    <3>1. Stage(c)' /\ Accounting(c)'
      BY <1>1 DEF Message, Stage, Accounting, Attached
    <3> SUFFICES Passing(c)'
      BY <2>2, <3>1
    <3>2. Append(Upto(sent[c]), sent'[c]) = Upto(sent'[c])
      BY <1>2, UptoNext
    <3>3. CASE ws[c] = "open"
      <4>1. toWorker'[c] = Append(toWorker[c], sent'[c]) /\ ws'[c] = "open"
        <5>1. toWorker' = [toWorker EXCEPT ![c] = Append(toWorker[c], sent'[c])]
          <6>1. /\ ~(ws[c] \in {"none", "connecting"} /\ stage[c] # "refused")
                /\ ~(ws[c] = "closed" \/ stage[c] = "refused")
            BY <1>1, <3>3 DEF Stage
          <6> QED BY <6>1 DEF Message
        <5> QED BY <1>1, <3>3, <5>1 DEF Message, TypeOK
      <4>2. toWorker[c] = Upto(sent[c])
        BY <1>1, <3>3 DEF Passing
      <4> QED BY <3>2, <4>1, <4>2 DEF Passing
    <3>4. CASE ws[c] \in {"none", "connecting"} /\ stage[c] # "refused"
      <4>1. /\ queue'[c] = Append(queue[c], sent'[c])
            /\ toWorker'[c] = toWorker[c]
            /\ ws'[c] = ws[c] /\ stage'[c] = stage[c]
        BY <1>1, <3>4 DEF Message, TypeOK
      <4>2. queue[c] = Upto(sent[c]) /\ toWorker[c] = <<>>
        BY <1>1, <3>4 DEF Passing
      <4> QED BY <3>2, <3>4, <4>1, <4>2 DEF Passing
    <3>5. CASE ws[c] = "closed" \/ (ws[c] # "open" /\ stage[c] = "refused")
      <4>1. /\ toWorker'[c] = toWorker[c]
            /\ ws'[c] = ws[c] /\ stage'[c] = stage[c]
        BY <1>1, <3>5 DEF Message, TypeOK
      <4>2. ws[c] \in {"none", "connecting"} => toWorker[c] = <<>>
        BY <1>1 DEF Passing
      <4> QED BY <3>5, <4>1, <4>2 DEF Passing
    <3>6. ws[c] \in {"none", "connecting", "open", "closed"}
      BY <1>1 DEF TypeOK
    <3> QED BY <3>3, <3>4, <3>5, <3>6
  <2> QED BY <2>1, <2>2
<1> QED BY <1>3, <1>4 DEF IInv

\* Steps that change one channel's stage or web socket, and no message but
\* those that the opening of the web socket passes on.
LEMMA ConnectingIInv ==
  ASSUME IInv, NEW c \in Channels,
         \/ Open(c) \/ RouteRefused(c) \/ Connect(c) \/ HandleResolves(c)
         \/ WsOpens(c) \/ WsCloses(c)
  PROVE  IInv'
<1>1. TypeOK /\ \A d \in Channels : Stage(d) /\ Accounting(d) /\ Passing(d)
  BY DEF IInv
<1>2. /\ sent[c] \in Nat
      /\ queue[c] \in Seq(1..MaxMessages)
      /\ channel[c] \in {"none", "open", "closed"}
      /\ ws[c] \in {"none", "connecting", "open", "closed"}
      /\ stage[c] \in Stages
  BY <1>1 DEF TypeOK
<1>3. Stage(c) /\ Accounting(c) /\ Passing(c)
  BY <1>1
<1>4. CASE Open(c)
  <2>1. TypeOK'
    BY <1>1, <1>4 DEF TypeOK, Open, Stages
  <2>2. ASSUME NEW d \in Channels
        PROVE  Stage(d)' /\ Accounting(d)' /\ Passing(d)'
    <3>1. CASE d = c
      BY <1>1, <1>3, <1>4, <3>1
         DEF Open, TypeOK, Stage, Accounting, Passing, Attached
    <3>2. CASE d # c
      BY <1>1, <1>4, <3>2, OtherChannel DEF Open, TypeOK
    <3> QED BY <3>1, <3>2
  <2> QED BY <2>1, <2>2 DEF IInv
<1>5. CASE RouteRefused(c)
  <2>1. TypeOK'
    BY <1>1, <1>5 DEF TypeOK, RouteRefused, Stages
  <2>2. ASSUME NEW d \in Channels
        PROVE  Stage(d)' /\ Accounting(d)' /\ Passing(d)'
    <3>1. CASE d = c
      BY <1>1, <1>2, <1>3, <1>5, <3>1
         DEF RouteRefused, TypeOK, Stage, Accounting, Passing, Attached
    <3>2. CASE d # c
      BY <1>1, <1>5, <3>2, OtherChannel DEF RouteRefused, TypeOK
    <3> QED BY <3>1, <3>2
  <2> QED BY <2>1, <2>2 DEF IInv
<1>6. CASE Connect(c)
  <2>1. TypeOK'
    BY <1>1, <1>6 DEF TypeOK, Connect, Stages
  <2>2. ASSUME NEW d \in Channels
        PROVE  Stage(d)' /\ Accounting(d)' /\ Passing(d)'
    <3>1. CASE d = c
      BY <1>1, <1>2, <1>3, <1>6, <3>1
         DEF Connect, TypeOK, Stage, Accounting, Passing, Attached
    <3>2. CASE d # c
      BY <1>1, <1>6, <3>2, OtherChannel DEF Connect, TypeOK
    <3> QED BY <3>1, <3>2
  <2> QED BY <2>1, <2>2 DEF IInv
<1>7. CASE HandleResolves(c)
  <2>1. TypeOK'
    BY <1>1, <1>7 DEF TypeOK, HandleResolves, Stages
  <2>2. ASSUME NEW d \in Channels
        PROVE  Stage(d)' /\ Accounting(d)' /\ Passing(d)'
    <3>1. CASE d = c
      BY <1>1, <1>2, <1>3, <1>7, <3>1
         DEF HandleResolves, TypeOK, Stage, Accounting, Passing, Attached
    <3>2. CASE d # c
      BY <1>1, <1>7, <3>2, OtherChannel DEF HandleResolves, TypeOK
    <3> QED BY <3>1, <3>2
  <2> QED BY <2>1, <2>2 DEF IInv
<1>8. CASE WsOpens(c)
  <2>1. /\ toWorker[c] = <<>> /\ queue[c] = Upto(sent[c])
        /\ toWorker'[c] = Upto(sent[c])
    BY <1>1, <1>2, <1>3, <1>8, UptoNext DEF WsOpens, TypeOK, Passing, Stage
  <2>2. TypeOK'
    <3>1. toWorker[c] \o queue[c] \in Seq(1..MaxMessages)
      BY <1>1 DEF TypeOK
    <3> QED BY <1>1, <1>8, <3>1 DEF TypeOK, WsOpens
  <2>3. ASSUME NEW d \in Channels
        PROVE  Stage(d)' /\ Accounting(d)' /\ Passing(d)'
    <3>1. CASE d = c
      BY <1>1, <1>3, <1>8, <2>1, <3>1
         DEF WsOpens, TypeOK, Stage, Accounting, Passing, Attached
    <3>2. CASE d # c
      BY <1>1, <1>8, <3>2, OtherChannel DEF WsOpens, TypeOK
    <3> QED BY <3>1, <3>2
  <2> QED BY <2>2, <2>3 DEF IInv
<1>9. CASE WsCloses(c)
  <2>1. TypeOK'
    BY <1>1, <1>9 DEF TypeOK, WsCloses, Stages
  <2>2. ASSUME NEW d \in Channels
        PROVE  Stage(d)' /\ Accounting(d)' /\ Passing(d)'
    <3>1. CASE d = c
      BY <1>1, <1>2, <1>3, <1>9, <3>1
         DEF WsCloses, TypeOK, Stage, Accounting, Passing, Attached
    <3>2. CASE d # c
      BY <1>1, <1>9, <3>2, OtherChannel DEF WsCloses, TypeOK
    <3> QED BY <3>1, <3>2
  <2> QED BY <2>1, <2>2 DEF IInv
<1> QED BY <1>4, <1>5, <1>6, <1>7, <1>8, <1>9

\* Steps that destroy channels.
LEMMA DestroyingIInv ==
  ASSUME IInv,
         \/ \E c \in Channels : \/ ChannelClosed(c) \/ HandleRejected(c)
                                \/ WsFails(c) \/ Report(c)
         \/ ConnClosed
  PROVE  IInv'
<1>1. TypeOK /\ \A d \in Channels : Stage(d) /\ Accounting(d) /\ Passing(d)
  BY DEF IInv
<1>2. ASSUME NEW c \in Channels, ChannelClosed(c) PROVE IInv'
  <2>1. channel[c] # "none"
    BY <1>1, <1>2 DEF ChannelClosed, Stage
  <2> QED BY <1>1, <1>2, <2>1, DestroyIInv DEF ChannelClosed, TypeOK
<1>3. ASSUME NEW c \in Channels, HandleRejected(c) \/ Report(c) PROVE IInv'
  <2>1. channel[c] # "none" /\ Attached(c)
    BY <1>1, <1>3 DEF HandleRejected, Report, Stage, Attached
  <2>2. /\ stage' = [stage EXCEPT ![c] = "proxied"]
        /\ Destroy({c})
        /\ UNCHANGED <<conn, table, told, sent, queue, toWorker>>
    BY <1>3 DEF HandleRejected, Report
  <2>3. /\ stage' \in [Channels -> Stages]
        /\ stage'[c] = "proxied"
        /\ \A d \in Channels \ {c} : stage'[d] = stage[d]
    BY <1>1, <2>2 DEF TypeOK, Stages
  <2> QED BY <1>1, <2>1, <2>2, <2>3, DestroyIInv DEF TypeOK
<1>4. ASSUME NEW c \in Channels, WsFails(c) PROVE IInv'
  <2>1. channel[c] # "none"
    BY <1>1, <1>4 DEF WsFails, Stage
  <2> QED BY <1>1, <1>4, <2>1, DestroyIInv DEF WsFails, TypeOK
<1>5. CASE ConnClosed
  <2>1. \A c \in table : channel[c] # "none"
    BY <1>1 DEF Stage, TypeOK
  <2> QED BY <1>1, <1>5, <2>1, DestroyIInv DEF ConnClosed, TypeOK
<1> QED BY <1>2, <1>3, <1>4, <1>5

\* IInv is inductive.
LEMMA StepIInv == IInv /\ [Next]_vars => IInv'
<1> SUFFICES ASSUME IInv, [Next]_vars PROVE IInv'
  OBVIOUS
<1>1. CASE InvalidPacket
  BY <1>1 DEF InvalidPacket, IInv, TypeOK, Stage, Accounting, Passing, Attached
<1>2. CASE ConnClosed
  BY <1>2, DestroyingIInv
<1>3. CASE UNCHANGED vars
  BY <1>3 DEF vars, IInv, TypeOK, Stage, Accounting, Passing, Attached
<1>4. ASSUME NEW c \in Channels,
             \/ Open(c) \/ RouteRefused(c) \/ Connect(c) \/ HandleResolves(c)
             \/ WsOpens(c) \/ WsCloses(c)
      PROVE  IInv'
  BY <1>4, ConnectingIInv
<1>5. ASSUME NEW c \in Channels,
             \/ ChannelClosed(c) \/ HandleRejected(c) \/ WsFails(c) \/ Report(c)
      PROVE  IInv'
  BY <1>5, DestroyingIInv
<1>6. ASSUME NEW c \in Channels, Message(c) PROVE IInv'
  BY <1>6, MessageIInv
<1> QED BY <1>1, <1>2, <1>3, <1>4, <1>5, <1>6 DEF Next

-----------------------------------------------------------------------------
(* The theorems                                                            *)

\* The invariant the other theorems follow from: table, stages, accounting
\* and messages of multiplex.js and sockjs.js hang together as stated.
THEOREM InductiveInvariant == Spec => []IInv
BY InitIInv, StepIInv, PTL DEF Spec

\* Type correctness of every variable.
THEOREM TypeCorrect == Spec => []TypeOK
<1>1. IInv => TypeOK
  BY DEF IInv
<1> QED BY <1>1, InductiveInvariant, PTL

\* connectToApp: a web socket to the worker belongs to an open channel that
\* the worker counts.
THEOREM SocketsCounted == Spec => []SocketsAreCounted
<1>1. IInv => SocketsAreCounted
  BY DEF IInv, Stage, Accounting, Attached, SocketsAreCounted
<1> QED BY <1>1, InductiveInvariant, PTL

\* wsClient.onopen: early messages reach the worker before later ones, and
\* none is lost or repeated.
THEOREM MessagesArePassedOn == Spec => []MessagesPassedOn
<1>1. IInv => MessagesPassedOn
  BY DEF IInv, Passing, MessagesPassedOn
<1> QED BY <1>1, InductiveInvariant, PTL

\* The close handler of MultiplexSocket reaches every channel, and with it
\* every web socket.
THEOREM ConnTakesAllWithIt == Spec => []NothingOutlivesConn
<1>1. IInv => NothingOutlivesConn
  BY DEF IInv, Stage, NothingOutlivesConn
<1> QED BY <1>1, InductiveInvariant, PTL

\* The close handler of connectToApp: it is attached together with
\* acquire("sock") and calls release("sock") when the channel is closed, and
\* nothing else does.
LEMMA ReleasedByStep ==
  ASSUME IInv, Next, NEW c \in Channels
  PROVE  /\ channel[c] = "open" /\ channel'[c] = "closed" => c \notin held'
         /\ c \in held /\ channel'[c] = "open" => c \in held'
<1>1. /\ TypeOK
      /\ c \in held => Attached(c)
      /\ channel[c] = "open" => c \in table
      /\ channel[c] \in {"none", "open", "closed"}
  BY DEF IInv, Accounting, Stage, TypeOK
<1>2. ASSUME NEW C \in SUBSET Channels, Destroy(C)
      PROVE  /\ channel[c] = "open" /\ channel'[c] = "closed" => c \notin held'
             /\ c \in held /\ channel'[c] = "open" => c \in held'
  BY <1>1, <1>2, DestroyChannel
<1>3. CASE ConnClosed
  <2>1. table \in SUBSET Channels
    BY <1>1 DEF TypeOK
  <2> QED BY <1>2, <1>3, <2>1 DEF ConnClosed
<1>4. CASE InvalidPacket
  BY <1>1, <1>4 DEF InvalidPacket
<1>5. ASSUME NEW d \in Channels,
             \/ ChannelClosed(d) \/ HandleRejected(d) \/ WsFails(d) \/ Report(d)
      PROVE  /\ channel[c] = "open" /\ channel'[c] = "closed" => c \notin held'
             /\ c \in held /\ channel'[c] = "open" => c \in held'
  <2>1. Destroy({d}) /\ {d} \in SUBSET Channels
    BY <1>5 DEF ChannelClosed, HandleRejected, WsFails, Report
  <2> QED BY <1>2, <2>1
<1>6. ASSUME NEW d \in Channels, RouteRefused(d)
      PROVE  /\ channel[c] = "open" /\ channel'[c] = "closed" => c \notin held'
             /\ c \in held /\ channel'[c] = "open" => c \in held'
  <2>1. held' = held /\ stage[d] = "routing"
    BY <1>6 DEF RouteRefused
  <2>2. CASE c = d
    BY <1>1, <2>1, <2>2 DEF Attached
  <2>3. CASE c # d
    BY <1>1, <1>6, <2>1, <2>3 DEF RouteRefused, TypeOK
  <2> QED BY <2>2, <2>3
<1>7. ASSUME NEW d \in Channels, Open(d)
      PROVE  /\ channel[c] = "open" /\ channel'[c] = "closed" => c \notin held'
             /\ c \in held /\ channel'[c] = "open" => c \in held'
  BY <1>1, <1>7 DEF Open, TypeOK
<1>8. ASSUME NEW d \in Channels,
             \/ Message(d) \/ Connect(d) \/ HandleResolves(d)
             \/ WsOpens(d) \/ WsCloses(d)
      PROVE  /\ channel[c] = "open" /\ channel'[c] = "closed" => c \notin held'
             /\ c \in held /\ channel'[c] = "open" => c \in held'
  <2>1. channel' = channel /\ held \subseteq held'
    BY <1>8 DEF Message, Connect, HandleResolves, WsOpens, WsCloses
  <2> QED BY <1>1, <2>1
<1> QED BY <1>3, <1>4, <1>5, <1>6, <1>7, <1>8 DEF Next

\* "Must, must, must match up acquire() and release() calls": what is closed
\* is not counted, and what is open stays counted.
THEOREM ReleasedWhenClosed == Spec => ReleasedOnClose
<1>1. IInv /\ [Next]_vars =>
        [\A c \in Channels :
           /\ channel[c] = "open" /\ channel'[c] = "closed" => c \notin held'
           /\ c \in held /\ channel'[c] = "open" => c \in held']_vars
  BY ReleasedByStep
<1> QED BY <1>1, InductiveInvariant, PTL DEF Spec, ReleasedOnClose

-----------------------------------------------------------------------------
(* The channels and the requests together                                  *)

\* Every step is one of the channels' or leaves them alone.
LEMMA ChannelsStep == [SystemNext]_systemVars => [Next]_vars
<1> SUFFICES ASSUME SystemNext PROVE [Next]_vars
  BY DEF systemVars
<1>1. CASE Acquires
  BY <1>1 DEF Acquires, Next
<1>2. CASE Told
  BY <1>2 DEF Told, Next
<1>3. CASE ChannelStep
  BY <1>3 DEF ChannelStep, Next
<1>4. CASE RequestStep \/ WorkerStep
  BY <1>4 DEF RequestStep, WorkerStep
<1> QED BY <1>1, <1>2, <1>3, <1>4 DEF SystemNext

(***************************************************************************)
(* The parts of the invariant that concern one request depend on nothing   *)
(* but the variables at that request.                                      *)
(***************************************************************************)
RequestInv(r) ==
  /\ upstream[r] = "open" => "http" \in uses[r]
  /\ "pending" \in uses[r] => "http" \in uses[r]
  /\ "http" \in uses[r] => response[r] # "closed"
  /\ "timed" \in uses[r] => success[r] /\ answer[r] = "app"
  /\ Progress(r)

Same(r) ==
  /\ handler'[r] = handler[r] /\ writable'[r] = writable[r]
  /\ response'[r] = response[r] /\ answer'[r] = answer[r] /\ tails'[r] = tails[r]
  /\ upstream'[r] = upstream[r] /\ success'[r] = success[r] /\ uses'[r] = uses[r]

LEMMA HttpInvParts == HttpInv <=> HttpTypeOK /\ \A r \in Requests : RequestInv(r)
BY DEF HttpInv, RequestsAreCounted, RequestInv

LEMMA OtherRequest ==
  ASSUME NEW r \in Requests, RequestInv(r), Same(r)
  PROVE  RequestInv(r)'
BY DEF RequestInv, Same, Progress

\* What is left to show of a step that concerns one request.
LEMMA OneRequest ==
  ASSUME HttpInv, HttpTypeOK', NEW r \in Requests, RequestInv(r)',
         \A q \in Requests \ {r} : Same(q)
  PROVE  HttpInv'
<1>1. \A q \in Requests : RequestInv(q)
  BY HttpInvParts
<1>2. ASSUME NEW q \in Requests PROVE RequestInv(q)'
  <2>1. CASE q = r
    BY <2>1
  <2>2. CASE q # r
    BY <1>1, <2>2, OtherRequest
  <2> QED BY <2>1, <2>2
<1> QED BY <1>2 DEF HttpInv, RequestsAreCounted, RequestInv

LEMMA HttpInitInv == HttpInit => HttpInv
BY DEF HttpInit, HttpInv, HttpTypeOK, RequestsAreCounted, Progress, Answers

\* What a step that concerns the request r has to keep.
Kept(r) == HttpTypeOK' /\ RequestInv(r)' /\ \A q \in Requests \ {r} : Same(q)

\* Before anything is written.
LEMMA EarlySteps ==
  ASSUME HttpInv, NEW r \in Requests, Request(r) \/ Abort(r) \/ GetWorker(r) \/ Resolved(r)
  PROVE  Kept(r)
<1>1. HttpTypeOK /\ RequestInv(r)
  BY HttpInvParts
<1>2. CASE Request(r)
  BY <1>1, <1>2 DEF Request, Kept, HttpTypeOK, RequestInv, Progress, Same
<1>3. CASE Abort(r)
  BY <1>1, <1>3 DEF Abort, Kept, HttpTypeOK, RequestInv, Progress, Same
<1>4. CASE GetWorker(r)
  BY <1>1, <1>4 DEF GetWorker, Kept, HttpTypeOK, RequestInv, Progress, Same
<1>5. CASE Resolved(r)
  BY <1>1, <1>5 DEF Resolved, Kept, HttpTypeOK, RequestInv, Progress, Same
<1> QED BY <1>2, <1>3, <1>4, <1>5

\* The server answers a request that has not been proxied.
LEMMA AnsweringSteps ==
  ASSUME HttpInv, NEW r \in Requests, Unrouted(r) \/ NoWorker(r) \/ Rejected(r)
  PROVE  Kept(r)
<1>1. HttpTypeOK /\ RequestInv(r)
  BY HttpInvParts
<1>2. /\ handler[r] \in {"routing", "waiting"}
      /\ handler' = [handler EXCEPT ![r] = "done"]
      /\ UNCHANGED <<writable, upstream, success, page, uses>>
  BY DEF Unrouted, NoWorker, Rejected
<1>3. \/ \E what \in Answers : Send(r, what) /\ UNCHANGED tails
      \/ Error500(r) /\ UNCHANGED <<response, answer>>
      \/ UNCHANGED <<response, answer, tails>>
      \/ /\ Error500(r) /\ writable[r]
         /\ response' = [response EXCEPT ![r] = "head"]
         /\ \E what \in Answers : answer' = [answer EXCEPT ![r] = what]
  BY DEF Unrouted, NoWorker, Rejected, SendPage, Answers
<1>4. CASE \E what \in Answers : Send(r, what) /\ UNCHANGED tails
  BY <1>1, <1>2, <1>4 DEF Send, Kept, HttpTypeOK, RequestInv, Progress, Same
<1>5. CASE Error500(r) /\ UNCHANGED <<response, answer>>
  BY <1>1, <1>2, <1>5 DEF Error500, Kept, HttpTypeOK, RequestInv, Progress, Same
<1>6. CASE UNCHANGED <<response, answer, tails>>
  BY <1>1, <1>2, <1>6 DEF Kept, HttpTypeOK, RequestInv, Progress, Same
<1>7. CASE /\ Error500(r) /\ writable[r]
           /\ response' = [response EXCEPT ![r] = "head"]
           /\ \E what \in Answers : answer' = [answer EXCEPT ![r] = what]
  BY <1>1, <1>2, <1>7 DEF Error500, Kept, HttpTypeOK, RequestInv, Progress, Same
<1> QED BY <1>3, <1>4, <1>5, <1>6, <1>7

\* The proxied request, and an error page that is late.
LEMMA ProxyingSteps ==
  ASSUME HttpInv, NEW r \in Requests,
         AppResponds(r) \/ AppEnds(r) \/ ProxyFails(r) \/ ProxyStops(r) \/ LogRead(r)
  PROVE  Kept(r)
<1>1. HttpTypeOK /\ RequestInv(r)
  BY HttpInvParts
<1>2. CASE AppResponds(r)
  BY <1>1, <1>2 DEF AppResponds, Kept, HttpTypeOK, RequestInv, Progress, Same, Answers
<1>3. CASE AppEnds(r)
  BY <1>1, <1>3 DEF AppEnds, Send, Kept, HttpTypeOK, RequestInv, Progress, Same, Answers
<1>4. CASE ProxyFails(r)
  BY <1>1, <1>4 DEF ProxyFails, Error500, Kept, HttpTypeOK, RequestInv, Progress, Same
<1>5. CASE ProxyStops(r)
  BY <1>1, <1>5 DEF ProxyStops, Kept, HttpTypeOK, RequestInv, Progress, Same
<1>6. CASE LogRead(r)
  BY <1>1, <1>6 DEF LogRead, Send, Over, Kept, HttpTypeOK, RequestInv, Progress, Same, Answers
<1> QED BY <1>2, <1>3, <1>4, <1>5, <1>6

\* The end of a response: what is counted is released.
LEMMA EndingSteps ==
  ASSUME HttpInv, NEW r \in Requests, Breaks(r) \/ Finish(r) \/ Close(r)
  PROVE  Kept(r)
<1>1. HttpTypeOK /\ RequestInv(r)
  BY HttpInvParts
<1>2. CASE Breaks(r)
  BY <1>1, <1>2 DEF Breaks, Kept, HttpTypeOK, RequestInv, Progress, Same
<1>3. CASE Finish(r)
  BY <1>1, <1>3 DEF Finish, Cleanup, Kept, HttpTypeOK, RequestInv, Progress, Same
<1>4. CASE Close(r)
  BY <1>1, <1>4 DEF Close, Cleanup, Error500, Kept, HttpTypeOK, RequestInv, Progress, Same
<1> QED BY <1>2, <1>3, <1>4

LEMMA HttpInvStep == HttpInv /\ [SystemNext]_systemVars => HttpInv'
<1> SUFFICES ASSUME HttpInv, [SystemNext]_systemVars PROVE HttpInv'
  OBVIOUS
<1>1. ASSUME NEW r \in Requests, Kept(r) PROVE HttpInv'
  BY <1>1, OneRequest DEF Kept
<1>2. CASE UNCHANGED httpVars
  BY <1>2 DEF httpVars, HttpInv, HttpTypeOK, RequestsAreCounted, Progress
<1>3. CASE Acquires
  BY <1>1, <1>2, <1>3, EarlySteps DEF Acquires
<1>4. CASE Told
  BY <1>1, <1>2, <1>4, EarlySteps, AnsweringSteps DEF Told
<1>5. CASE RequestStep
  BY <1>1, <1>5, EarlySteps, AnsweringSteps, ProxyingSteps, EndingSteps DEF RequestStep, HttpStep
<1>6. CASE ChannelStep \/ WorkerStep \/ UNCHANGED systemVars
  BY <1>2, <1>6 DEF ChannelStep, WorkerStep, systemVars
<1> QED BY <1>3, <1>4, <1>5, <1>6 DEF SystemNext

\* The server's uses of a worker for HTTP requests are counted as long as they
\* last and no longer (http.js, acquire and release).
THEOREM RequestsCounted == SystemSpec => []HttpInv
<1>1. SystemInit => HttpInv
  BY HttpInitInv DEF SystemInit
<1> QED BY <1>1, HttpInvStep, PTL DEF SystemSpec

\* Whatever the worker and the requests do, the channels are as SockProxy has
\* them: its specification, and so its theorems, hold in the system.
THEOREM SystemImplementsSockProxy == SystemSpec => Spec
<1>1. SystemInit => Init
  BY DEF SystemInit
<1> QED BY <1>1, ChannelsStep, PTL DEF SystemSpec, Spec

\* The inductive invariant of the channels, in the system.
THEOREM SystemChannels == SystemSpec => []IInv
BY SystemImplementsSockProxy, InductiveInvariant, PTL

(***************************************************************************)
(* The entry of a worker is not taken for idle while anything is connected *)
(* to the process: every web socket and every proxied request is counted.  *)
(***************************************************************************)
THEOREM ConnectionsCounted == SystemSpec => [](SocketsAreCounted /\ RequestsAreCounted)
<1>1. HttpInv => RequestsAreCounted
  BY DEF HttpInv
<1> QED BY <1>1, RequestsCounted, SystemImplementsSockProxy, SocketsCounted, PTL

=============================================================================

--------------------------- MODULE ReliableStream ---------------------------
(***************************************************************************)
(* What lib/proxy/robust-sockjs.js promises to the layers above it: two    *)
(* streams of messages, one per direction, that lose, repeat and reorder   *)
(* nothing.  Messages are numbered in the order they were written.         *)
(***************************************************************************)
EXTENDS Naturals, Sequences

CONSTANT MaxMessages  \* bound: messages written by each side

Sides == {"client", "server"}

Peer(side) == IF side = "client" THEN "server" ELSE "client"

VARIABLES
  written,   \* by each side, how many messages it has written
  received   \* by each side, the messages handed to it

vars == <<written, received>>

Init ==
  /\ written = [side \in Sides |-> 0]
  /\ received = [side \in Sides |-> <<>>]

Write(side) ==
  /\ written[side] < MaxMessages[side]
  /\ written' = [written EXCEPT ![side] = @ + 1]
  /\ UNCHANGED received

Receive(side) ==
  /\ Len(received[side]) < written[Peer(side)]
  /\ received' = [received EXCEPT ![side] = Append(@, Len(@))]
  /\ UNCHANGED written

\* A session that never got under way may be replaced by a new one.
StartOver ==
  /\ \A side \in Sides : received[side] = <<>>
  /\ written' = [side \in Sides |-> 0]
  /\ UNCHANGED received

Next ==
  \/ \E side \in Sides : Write(side) \/ Receive(side)
  \/ StartOver

Spec == Init /\ [][Next]_vars

=============================================================================

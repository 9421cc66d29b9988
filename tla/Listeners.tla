----------------------------- MODULE Listeners -----------------------------
(***************************************************************************)
(* lib/server/server.js: the class Server, which listens on a changing set *)
(* of addresses with one http.Server for each.                             *)
(*                                                                         *)
(* Binding an IP literal happens in the tick after listen(), before any    *)
(* other event can be handled, so setAddresses is one step together with   *)
(* the "listening" and "error" events of the servers it opens.  What comes *)
(* at any later time is the "close" event of a server: Node emits it when  *)
(* the last connection of a server that was closed has ended.              *)
(*                                                                         *)
(* An address is an IP address and a port in normal form, which is what    *)
(* addressToKey makes of it.                                               *)
(*                                                                         *)
(* These are the state, the operations and the properties of a Server; in  *)
(* ConfigReload the configuration calls them.                              *)
(***************************************************************************)
EXTENDS Naturals, Sequences, SequencesExt, FiniteSets

CONSTANTS
  Addresses,      \* everything this process may be told to listen on
  Wildcards,      \* those whose host is "::" or "0.0.0.0"
  Overlapping,    \* pairs of different addresses that exclude one another
  BadPorts,       \* those whose port is not below 65536
  MaxServers      \* bound: http.Servers created

VARIABLES
  servers,   \* the http.Servers in the order of their creation
  table,     \* $wildcards and $hosts: a server's number by address, 0 if none
  wanted,    \* the argument of the last setAddresses, as a set
  refused,   \* the addresses its bind failed on
  foreign    \* addresses that other processes listen on

vars == <<servers, table, wanted, refused, foreign>>

ServerStates == {"listening", "failed", "closing", "closed"}

TypeOK ==
  /\ servers \in Seq([key : Addresses, state : ServerStates])
  /\ table \in [Addresses -> 0 .. Len(servers)]
  /\ wanted \subseteq Addresses
  /\ refused \subseteq Addresses
  /\ foreign \subseteq Addresses

Init ==
  /\ servers = << >>
  /\ table = [a \in Addresses |-> 0]
  /\ wanted = {}
  /\ refused = {}
  /\ foreign = {}

Listening(ss) == {ss[i].key : i \in {j \in DOMAIN ss : ss[j].state = "listening"}}

Conflict(a, b) == a = b \/ <<a, b>> \in Overlapping

\* bind() fails on an address that somebody listens on.
Busy(a, ss) == \E b \in Listening(ss) \cup foreign : Conflict(a, b)

Keys(t) == {a \in Addresses : t[a] # 0}

(***************************************************************************)
(* setAddresses, first half: what is no longer wanted is closed.  The      *)
(* socket is gone at once; the "close" event comes later.                  *)
(***************************************************************************)
ClosedServers(keys) ==
  [i \in DOMAIN servers |->
     IF servers[i].state = "listening" /\ \E k \in keys : table[k] = i
     THEN [servers[i] EXCEPT !.state = "closing"]
     ELSE servers[i]]

ClosedTable(keys) == [a \in Addresses |-> IF a \in keys THEN 0 ELSE table[a]]

(***************************************************************************)
(* Second half: the new ones are opened, in one pass over the list for the *)
(* wildcards and in another for the hosts.  A port out of range is an      *)
(* exception: what is left is not opened.                                  *)
(***************************************************************************)
Passes(addrs) == addrs \o addrs

ToOpen(addrs, n) ==
  LET a == Passes(addrs)[n]
  IN  (n <= Len(addrs) <=> a \in Wildcards) /\ table[a] = 0

Throws(addrs) == \E a \in ToSet(addrs) \cap BadPorts : table[a] = 0

Reached(addrs, n) == \A m \in 1 .. n : ToOpen(addrs, m) => Passes(addrs)[m] \notin BadPorts

OpenOne(st, a) ==
  IF st.table[a] # 0 \/ a \in st.refused THEN st      \* _.uniq
  ELSE IF Busy(a, st.servers)
  THEN [st EXCEPT !.servers = Append(@, [key |-> a, state |-> "failed"]),
                  !.refused = @ \cup {a}]
  ELSE [st EXCEPT !.servers = Append(@, [key |-> a, state |-> "listening"]),
                  !.table[a] = Len(st.servers) + 1]

OpenAll(start, addrs) ==
  LET opening[n \in 0 .. 2 * Len(addrs)] ==
        IF n = 0 THEN start
        ELSE IF ToOpen(addrs, n) /\ Reached(addrs, n)
        THEN OpenOne(opening[n - 1], Passes(addrs)[n])
        ELSE opening[n - 1]
  IN  opening[2 * Len(addrs)]

\* Mutant of Opened: the servers to close are closed only afterwards.
OpenedBeforeClosing(addrs, keys) ==
  LET st == OpenAll([servers |-> servers, table |-> table, refused |-> {}], addrs)
  IN  [st EXCEPT !.servers = [i \in DOMAIN @ |->
                     IF \E k \in keys : table[k] = i THEN [@[i] EXCEPT !.state = "closing"] ELSE @[i]],
                 !.table = [a \in Addresses |-> IF a \in keys THEN 0 ELSE @[a]]]

\* The tables after closing keys and opening what is new in addrs.
Opened(addrs, keys) ==
  OpenAll([servers |-> ClosedServers(keys), table |-> ClosedTable(keys), refused |-> {}], addrs)

SetAddresses(addrs) ==
  LET st == Opened(addrs, Keys(table) \ ToSet(addrs))
  IN  /\ Len(st.servers) <= MaxServers
      /\ servers' = st.servers
      /\ table' = st.table
      /\ refused' = st.refused
      /\ wanted' = ToSet(addrs)
      /\ UNCHANGED foreign

Destroy ==
  /\ servers' = ClosedServers(Keys(table))
  /\ table' = ClosedTable(Keys(table))
  /\ wanted' = {}
  /\ refused' = {}
  /\ UNCHANGED foreign

\* Mutant of RemoveFromTable: whatever is in the table is removed.
RemoveFromTableAny(i) == [table EXCEPT ![servers[i].key] = 0]

RemoveFromTable(i) ==
  [a \in Addresses |-> IF a = servers[i].key /\ table[a] = i THEN 0 ELSE table[a]]

\* The last connection of a closed server has ended: its "close" event.
CloseEvent(i) ==
  /\ servers[i].state = "closing"
  /\ servers' = [servers EXCEPT ![i].state = "closed"]
  /\ table' = RemoveFromTable(i)
  /\ UNCHANGED <<wanted, refused, foreign>>

\* Another process starts or stops listening.
OtherProcess(a) ==
  /\ foreign' = IF a \in foreign THEN foreign \ {a} ELSE foreign \cup {a}
  /\ a \in foreign \/ ~Busy(a, servers)
  /\ UNCHANGED <<servers, table, wanted, refused>>

(***************************************************************************)
(* Every listening http.Server is in the table under its address and the   *)
(* table holds no others: a listener that is not in it could never be      *)
(* closed, and its address never opened again.  The identity check of      *)
(* removeFromTable is what the late "close" event of an earlier server on  *)
(* the same address needs.                                                 *)
(***************************************************************************)
TableHoldsListeners ==
  /\ \A i \in DOMAIN servers :
       (servers[i].state = "listening") <=> (table[servers[i].key] = i)
  /\ \A a \in Keys(table) : servers[table[a]].key = a

(***************************************************************************)
(* After setAddresses this process listens on nothing it was not told to,  *)
(* and on everything it was told to but what it could not bind, or what an *)
(* exception kept it from.  Nothing it bound is lost later.                *)
(***************************************************************************)
ListensAsConfigured ==
  /\ Listening(servers) \subseteq wanted
  /\ wanted \cap BadPorts = {} => Listening(servers) = wanted \ refused

(***************************************************************************)
(* Addresses that do not exclude one another, and that no other process    *)
(* has, are never refused: no old listener is in the way of a new one.     *)
(* That takes closing before opening.                                      *)
(***************************************************************************)
RefusedForCause ==
  [][\A a \in refused' \ refused :
       \E b \in foreign \cup (wanted' \ {a}) : Conflict(a, b)]_vars

(***************************************************************************)
(* The class comment, server.js:38: "Any host/port combinations that are   *)
(* already being listened on are undisturbed".                             *)
(***************************************************************************)
Undisturbed ==
  [][\A a \in Keys(table) \cap wanted' : table'[a] = table[a]]_vars

=============================================================================

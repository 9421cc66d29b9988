---------------------------- MODULE SessionPool ----------------------------
(***************************************************************************)
(* What `simple_scheduler maxRequests;` promises about one worker process. *)
(* At most Limit sessions are open at any time.  Whoever is served an app  *)
(* page has a place kept for the session to come.  A page is turned away   *)
(* only if every place is taken or kept, a session only if every place is  *)
(* taken, or more are taken and kept than there are (documents keep places *)
(* that need not exist).  A worker that no longer takes sessions never     *)
(* takes one again.                                                        *)
(***************************************************************************)
EXTENDS Naturals, FiniteSets

CONSTANTS
  Pages,     \* the requests for pages
  Conns,     \* the browser connections that may ask for a session
  Limit      \* maxRequests, 0 when there is no limit

VARIABLES
  sessions,         \* the connections that hold a session
  kept,             \* how many places are kept
  refusedPages,     \* the requests that have been turned away
  refusedSessions,  \* the connections that have been turned away
  accepting         \* the worker may still be given sessions

vars == <<sessions, kept, refusedPages, refusedSessions, accepting>>

Limited == Limit > 0

Init ==
  /\ sessions = {}
  /\ kept = 0
  /\ refusedPages = {}
  /\ refusedSessions = {}
  /\ accepting = TRUE

Keep ==
  /\ accepting
  /\ kept' = kept + 1
  /\ UNCHANGED <<sessions, refusedPages, refusedSessions, accepting>>

\* The page failed, or the session has not come in time.
GiveUp ==
  /\ kept' = kept - 1
  /\ UNCHANGED <<sessions, refusedPages, refusedSessions, accepting>>

Open(c) ==
  /\ accepting
  /\ c \notin sessions
  /\ Limited => Cardinality(sessions) < Limit
  /\ sessions' = sessions \cup {c}
  /\ kept' \in {kept, kept - 1}
  /\ UNCHANGED <<refusedPages, refusedSessions, accepting>>

Leave(c) ==
  /\ c \in sessions
  /\ sessions' = sessions \ {c}
  /\ UNCHANGED <<kept, refusedPages, refusedSessions, accepting>>

TurnAwayPage(p) ==
  /\ accepting
  /\ Limited
  /\ Cardinality(sessions) + kept >= Limit
  /\ refusedPages' = refusedPages \cup {p}
  /\ UNCHANGED <<sessions, kept, refusedSessions, accepting>>

TurnAwaySession(c) ==
  /\ accepting
  /\ Limited
  /\ \/ Cardinality(sessions) >= Limit
     \/ Cardinality(sessions) + kept > Limit
  /\ refusedSessions' = refusedSessions \cup {c}
  /\ UNCHANGED <<sessions, kept, refusedPages, accepting>>

\* The places waited for are forgotten, those of pages being served not yet.
Retire ==
  /\ accepting
  /\ accepting' = FALSE
  /\ kept' \in 0..kept
  /\ UNCHANGED <<sessions, refusedPages, refusedSessions>>

Next ==
  \/ Keep
  \/ GiveUp
  \/ Retire
  \/ \E p \in Pages : TurnAwayPage(p)
  \/ \E c \in Conns : Open(c) \/ Leave(c) \/ TurnAwaySession(c)

Spec == Init /\ [][Next]_vars

=============================================================================

----------------------------- MODULE WorkerLife -----------------------------
(***************************************************************************)
(* What the rest of the server relies on of one worker: its promise is     *)
(* settled once, its entry leaves the table once, and its process starts   *)
(* at most once and is heard of when it ends.  SchedulerRegistry is built  *)
(* on these steps; WorkerStart is shown to take no others.                 *)
(***************************************************************************)

VARIABLES
  promise,   \* of the worker's handle
  proc,      \* "none", "running", or "ended": its exit has been handled
  listed     \* its entry is in the table

Init ==
  /\ promise = "pending"
  /\ proc = "none"
  /\ listed = TRUE

Starts ==
  /\ promise = "pending" /\ proc = "none"
  /\ proc' = "running"
  /\ UNCHANGED <<promise, listed>>

\* Before there is a process.
Fails ==
  /\ promise = "pending" /\ proc = "none"
  /\ promise' = "rejected"
  /\ listed' = FALSE
  /\ UNCHANGED proc

Ready ==
  /\ promise = "pending" /\ proc = "running" /\ listed
  /\ promise' = "fulfilled"
  /\ UNCHANGED <<proc, listed>>

TakesTooLong ==
  /\ promise = "pending" /\ proc = "running"
  /\ promise' = "rejected"
  /\ listed' = FALSE
  /\ UNCHANGED proc

\* What is rejected is not listed, and what has ended is not either.
Ends ==
  /\ proc = "running"
  /\ proc' = "ended"
  /\ listed' = FALSE
  /\ promise' = IF promise = "pending" THEN "rejected" ELSE promise

Next == Starts \/ Fails \/ Ready \/ TakesTooLong \/ Ends

Spec == Init /\ [][Next]_<<promise, proc, listed>>

=============================================================================

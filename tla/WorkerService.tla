---------------------------- MODULE WorkerService ----------------------------
(***************************************************************************)
(* What a Worker promises the object that owns it (drivers/worker.h): its   *)
(* hooks are called by at most one thread at a time, from the start() that  *)
(* found it stopped until the end of onStop, and a stop() returns only when *)
(* that activity is over.  Module Worker is shown to implement this.        *)
(***************************************************************************)

VARIABLES
  active,    \* between a successful start() and the end of that run's onStop
  stopping   \* the owner is inside stop()

svars == <<active, stopping>>

Init == active = FALSE /\ stopping = FALSE

\* start() found the worker stopped; the owner is not inside stop().
Start == /\ ~active /\ ~stopping
         /\ active' = TRUE
         /\ UNCHANGED stopping

\* The run's onStop has returned, because of stop() or on the thread's own.
End == /\ active
       /\ active' = FALSE
       /\ UNCHANGED stopping

StopCall == /\ ~stopping
            /\ stopping' = TRUE
            /\ UNCHANGED active

StopReturn == /\ stopping /\ ~active
              /\ stopping' = FALSE
              /\ UNCHANGED active

Next == Start \/ End \/ StopCall \/ StopReturn

Spec == Init /\ [][Next]_svars
=============================================================================

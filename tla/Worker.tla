------------------------------- MODULE Worker -------------------------------
(***************************************************************************)
(* The thread wrapper every background activity of ocvm is built on         *)
(* (drivers/worker.cpp): TtyReader, ModemDriver and ServerPool are Workers. *)
(* One controller thread, the owner, calls start(), stop() and the derived   *)
(* class's own locked methods (make_lock); each successful start() creates a *)
(* thread that runs proc(), which calls the hooks onStart, runOnce, onStop.  *)
(*                                                                           *)
(* Threads are numbered by the start() that made them.  A critical section   *)
(* that calls no hook is one step, since what it touches is read elsewhere   *)
(* only under _m (the one exception, while (_continue), is a step of its     *)
(* own); a hook is a pair of steps with _m held between them.                *)
(***************************************************************************)
EXTENDS Integers

CONSTANT MaxStarts      \* bound: successful start() calls in a behaviour

ASSUME MaxStartsAssumption == MaxStarts \in Nat

Threads == 1..MaxStarts

None  == 0              \* nullptr in _pthread, nobody in _m
Owner == -1             \* the controller thread, as holder of _m

VARIABLES
  continue,   \* _continue
  running,    \* _running
  pthread,    \* _pthread: the last thread created and not deleted, or None
  m,          \* holder of _m
  made,       \* threads created so far (history)
  tpc,        \* where each thread stands in proc()
  opc         \* where the owner stands

vars == <<continue, running, pthread, m, made, tpc, opc>>

TypeOK ==
  /\ continue \in BOOLEAN
  /\ running \in BOOLEAN
  /\ pthread \in 0..MaxStarts
  /\ m \in Threads \cup {None, Owner}
  /\ made \in 0..MaxStarts
  /\ tpc \in [Threads -> {"unborn", "boot", "onStart", "test", "acquire",
                          "runOnce", "final", "onStop", "done"}]
  /\ opc \in {"idle", "start", "signal", "join", "cleanup", "use", "using"}

Init ==
  /\ continue = FALSE
  /\ running = FALSE
  /\ pthread = None
  /\ m = None
  /\ made = 0
  /\ tpc = [t \in Threads |-> "unborn"]
  /\ opc = "idle"

-----------------------------------------------------------------------------
(* The owner *)

isRunning == pthread # None /\ running

\* The owner makes up its mind to call start(), stop() or a locked method.
Call ==
  /\ opc = "idle"
  /\ opc' \in {"start", "signal", "use"}
  /\ UNCHANGED <<continue, running, pthread, m, made, tpc>>

\* start(): refused while isRunning(); a _pthread left by a run that ended by
\* itself is overwritten, its thread is never joined.
StartRefused ==
  /\ opc = "start" /\ m = None
  /\ isRunning
  /\ opc' = "idle"
  /\ UNCHANGED <<continue, running, pthread, m, made, tpc>>

StartAccepted ==
  /\ opc = "start" /\ m = None
  /\ ~isRunning
  /\ made < MaxStarts
  /\ running' = TRUE
  /\ continue' = TRUE
  /\ made' = made + 1
  /\ pthread' = made + 1
  /\ tpc' = [tpc EXCEPT ![made + 1] = "boot"]
  /\ opc' = "idle"
  /\ UNCHANGED m

\* The behaviour's starts are used up: the owner makes no further one.
StartExhausted ==
  /\ opc = "start" /\ made = MaxStarts /\ ~isRunning
  /\ opc' = "idle"
  /\ UNCHANGED <<continue, running, pthread, m, made, tpc>>

\* Mutant: stop() does not clear _continue.
StopUnsaid ==
  /\ opc = "signal" /\ m = None
  /\ opc' = "join"
  /\ UNCHANGED <<continue, running, pthread, m, made, tpc>>

\* stop(), first block.
StopSignal ==
  /\ opc = "signal" /\ m = None
  /\ continue' = FALSE
  /\ opc' = "join"
  /\ UNCHANGED <<running, pthread, m, made, tpc>>

\* Mutant: stop() does not join.
StopUnjoined ==
  /\ opc = "join"
  /\ opc' = "cleanup"
  /\ UNCHANGED <<continue, running, pthread, m, made, tpc>>

\* stop(): if (_pthread) _pthread->join().  No lock is held.
StopJoin ==
  /\ opc = "join"
  /\ pthread # None => tpc[pthread] = "done"
  /\ opc' = "cleanup"
  /\ UNCHANGED <<continue, running, pthread, m, made, tpc>>

\* stop(), last block, and the return to the caller.
StopCleanup ==
  /\ opc = "cleanup" /\ m = None
  /\ running' = FALSE
  /\ pthread' = None
  /\ opc' = "idle"
  /\ UNCHANGED <<continue, m, made, tpc>>

\* A derived class's method under make_lock() (ModemDriver::send).
UseLock ==
  /\ opc = "use" /\ m = None
  /\ m' = Owner
  /\ opc' = "using"
  /\ UNCHANGED <<continue, running, pthread, made, tpc>>

UseUnlock ==
  /\ opc = "using"
  /\ m' = None
  /\ opc' = "idle"
  /\ UNCHANGED <<continue, running, pthread, made, tpc>>

Controller == \/ Call \/ StartRefused \/ StartAccepted \/ StartExhausted
              \/ StopSignal \/ StopJoin \/ StopCleanup \/ UseLock \/ UseUnlock

-----------------------------------------------------------------------------
(* proc() on thread t *)

Goto(t, from, to) == tpc[t] = from /\ tpc' = [tpc EXCEPT ![t] = to]
Lock(t)   == m = None /\ m' = t
Unlock(t) == m' = None

\* _continue = _continue && onStart(): the hook is not called after a stop().
BootSkip(t) ==
  /\ Goto(t, "boot", "test")
  /\ m = None /\ ~continue
  /\ UNCHANGED <<continue, running, pthread, m, made, opc>>

\* Mutant: onStart is called without the lock.
OnStartUnlocked(t) ==
  /\ Goto(t, "boot", "onStart")
  /\ m = None /\ continue
  /\ UNCHANGED <<continue, running, pthread, m, made, opc>>

OnStartBegin(t) ==
  /\ Goto(t, "boot", "onStart")
  /\ Lock(t) /\ continue
  /\ UNCHANGED <<continue, running, pthread, made, opc>>

OnStartEnd(t) ==
  /\ Goto(t, "onStart", "test")
  /\ continue' \in BOOLEAN              \* what onStart returns
  /\ Unlock(t)
  /\ UNCHANGED <<running, pthread, made, opc>>

\* while (_continue), read without the lock (and the 1 ms sleep before it).
LoopTest(t) ==
  /\ Goto(t, "test", IF continue THEN "acquire" ELSE "final")
  /\ UNCHANGED <<continue, running, pthread, m, made, opc>>

RunOnceBegin(t) ==
  /\ Goto(t, "acquire", "runOnce")
  /\ Lock(t)
  /\ UNCHANGED <<continue, running, pthread, made, opc>>

\* Mutant: _running is cleared with the break, before onStop.
RunOnceEndNotRunning(t) ==
  /\ \/ Goto(t, "runOnce", "test") /\ UNCHANGED running
     \/ Goto(t, "runOnce", "final") /\ running' = FALSE
  /\ Unlock(t)
  /\ UNCHANGED <<continue, pthread, made, opc>>

\* runOnce returned true, or false (the break).
RunOnceEnd(t) ==
  /\ Goto(t, "runOnce", "test") \/ Goto(t, "runOnce", "final")
  /\ Unlock(t)
  /\ UNCHANGED <<continue, running, pthread, made, opc>>

OnStopBegin(t) ==
  /\ Goto(t, "final", "onStop")
  /\ Lock(t)
  /\ UNCHANGED <<continue, running, pthread, made, opc>>

\* Mutant: _running is not cleared.
OnStopStillRunning(t) ==
  /\ Goto(t, "onStop", "done")
  /\ Unlock(t)
  /\ UNCHANGED <<continue, running, pthread, made, opc>>

\* onStop returned; _running = false; the lock goes and the thread ends.
OnStopEnd(t) ==
  /\ Goto(t, "onStop", "done")
  /\ running' = FALSE
  /\ Unlock(t)
  /\ UNCHANGED <<continue, pthread, made, opc>>

Proc(t) == \/ BootSkip(t) \/ OnStartBegin(t) \/ OnStartEnd(t)
           \/ LoopTest(t) \/ RunOnceBegin(t) \/ RunOnceEnd(t)
           \/ OnStopBegin(t) \/ OnStopEnd(t)

Next == Controller \/ \E t \in Threads : Proc(t)

Spec == Init /\ [][Next]_vars

\* Hooks return and threads are scheduled (weak fairness).  The mutex is not
\* held for ever against a waiter: each holder lets go and, in the loop, sleeps
\* before it locks again (strong fairness of the steps that lock).
Fairness ==
  /\ SF_vars(StopSignal) /\ WF_vars(StopJoin) /\ SF_vars(StopCleanup)
  /\ WF_vars(UseUnlock)
  /\ \A t \in Threads :
       /\ WF_vars(Proc(t))
       /\ SF_vars(BootSkip(t) \/ OnStartBegin(t))
       /\ SF_vars(RunOnceBegin(t)) /\ SF_vars(OnStopBegin(t))

FairSpec == Spec /\ Fairness

-----------------------------------------------------------------------------
(* Properties *)

Alive(t)  == tpc[t] \notin {"unborn", "done"}
InHook(t) == tpc[t] \in {"onStart", "runOnce", "onStop"}

\* The hooks of two runs never overlap: although start() forgets a thread whose
\* run ended by itself, at most one thread of a worker is ever in proc().
OneRunAtATime == \A s, t \in Threads : Alive(s) /\ Alive(t) => s = t

\* When stop() has returned (or start() was never called) no thread of this
\* worker is in proc(), the forgotten ones included: the owner may be destroyed.
QuietWhenStopped == pthread = None => ~running /\ \A t \in Threads : ~Alive(t)

\* A stop() request is not overwritten by the result of a late onStart.
StopNotLost == opc \in {"join", "cleanup"} => ~continue

\* start() answers "already running" only while there is a thread of the worker
\* still to finish, and it is the one stop() would join.
RefusalIsHonest == running => pthread # None /\ Alive(pthread)

\* While the derived class holds the lock, no hook is being run.
LockedMethodsExcludeHooks ==
  opc = "using" => \A t \in Threads : ~InHook(t)

\* stop() returns, whatever the hooks answer.
StopReturns == opc \in {"signal", "join", "cleanup"} ~> opc = "idle"

\* Refinement: the worker implements its service.
Service == INSTANCE WorkerService WITH
             active <- running,
             stopping <- opc \in {"join", "cleanup"}
ServiceSpec == Service!Spec
=============================================================================

----------------------------- MODULE PausedWorker -----------------------------
(***************************************************************************)
(* A worker thread that signals pause, resume and stop (04_thread/6_bvn):  *)
(* the handler takes the same mutex as the worker and signals the          *)
(* condition variable the worker waits on.                                 *)
(*                                                                         *)
(* The kernel runs a handler on any thread that does not block the signal, *)
(* wherever that thread is; signal() blocks the signal itself, and only    *)
(* that one, while its handler runs, so handlers nest.  A thread therefore *)
(* has its own position and, above it, a stack of interrupted handlers.    *)
(***************************************************************************)
EXTENDS Naturals, Sequences

CONSTANT MaxSignals   \* how many signals are sent (a bound)

ASSUME MaxSignalsAssumption == MaxSignals \in Nat

Threads == {"main", "worker"}
Signals == {"SIGUSR1", "SIGUSR2", "SIGINT"}
Nobody == "nobody"

VARIABLES
  paused, stop,  \* the two flags
  mutex,         \* its owner
  pc,            \* each thread's position in main or worker_function
  handlers,      \* each thread's running handlers, the innermost first
  woken,         \* TRUE if the waiting worker has been signalled
  pending,       \* signals sent and not yet handled
  sent           \* how many were sent

flags == <<paused, stop>>
kernel == <<pending, sent>>
vars == <<flags, mutex, pc, handlers, woken, kernel>>

Init ==
  /\ paused = FALSE /\ stop = FALSE
  /\ mutex = Nobody
  /\ pc = [t \in Threads |-> IF t = "main" THEN "register" ELSE "unborn"]
  /\ handlers = [t \in Threads |-> <<>>]
  /\ woken = FALSE
  /\ pending = {}
  /\ sent = 0

Ended == pc["main"] \in {"done", "failed", "killed"}

-----------------------------------------------------------------------------
(* Signals.                                                                *)

\* Somebody runs kill(1) or presses Ctrl-C.  A signal that is already pending
\* merges with it; before the handlers are installed it ends the program.
Send(s) ==
  /\ ~Ended
  /\ sent < MaxSignals
  /\ sent' = sent + 1
  /\ IF pc["main"] = "register"
       THEN pc' = [pc EXCEPT !["main"] = "killed"] /\ UNCHANGED pending
       ELSE pending' = pending \cup {s} /\ UNCHANGED pc
  /\ UNCHANGED <<flags, mutex, handlers, woken>>

\* Threads that can be interrupted.  Once main is past its join nothing that
\* a handler does is read any more.
Interruptible(t) ==
  IF t = "main" THEN pc[t] \in {"create", "join"} ELSE pc[t] \notin {"unborn", "exited"}

Handling(t) == {handlers[t][i].sig : i \in 1..Len(handlers[t])}

\* The handler starts on thread t.
Deliver(t, s) ==
  /\ s \in pending
  /\ ~Ended
  /\ Interruptible(t)
  /\ s \notin Handling(t)
  /\ handlers' = [handlers EXCEPT ![t] = <<[sig |-> s, at |-> "lock"]>> \o @]
  /\ pending' = pending \ {s}
  /\ UNCHANGED <<flags, mutex, pc, woken, sent>>

\* Innermost handler of t moves on.
Handler(t, from, to) ==
  /\ handlers[t] # <<>>
  /\ handlers[t][1].at = from
  /\ handlers' = [handlers EXCEPT ![t][1].at = to]

\* Mutant: a recursive mutex.
HandlerLockRecursive(t) ==
  /\ mutex \in {Nobody, t}
  /\ mutex' = t
  /\ Handler(t, "lock", "set")
  /\ UNCHANGED <<flags, pc, woken, kernel>>

\* The mutex is a default one: its owner blocks like everybody else.
HandlerLock(t) ==
  /\ mutex = Nobody
  /\ mutex' = t
  /\ Handler(t, "lock", "set")
  /\ UNCHANGED <<flags, pc, woken, kernel>>

\* Mutant: SIGINT sets the flags and forgets the condition variable.
HandlerSetSilent(t) ==
  /\ LET s == handlers[t][1].sig IN
     /\ Handler(t, "set", IF s = "SIGUSR2" THEN "signal" ELSE "unlock")
     /\ paused' = (s = "SIGUSR1")
     /\ stop' = (stop \/ s = "SIGINT")
  /\ UNCHANGED <<mutex, pc, woken, kernel>>

\* SIGUSR1 pauses; SIGUSR2 resumes; SIGINT stops and resumes.
HandlerSet(t) ==
  /\ handlers[t] # <<>>
  /\ LET s == handlers[t][1].sig IN
     /\ Handler(t, "set", IF s = "SIGUSR1" THEN "unlock" ELSE "signal")
     /\ paused' = (s = "SIGUSR1")
     /\ stop' = (stop \/ s = "SIGINT")
  /\ UNCHANGED <<mutex, pc, woken, kernel>>

\* pthread_cond_signal: a waiter is woken, without one the call is lost.
HandlerSignal(t) ==
  /\ Handler(t, "signal", "unlock")
  /\ woken' = (woken \/ pc["worker"] = "waiting")
  /\ UNCHANGED <<flags, mutex, pc, kernel>>

\* Mutant: an early return out of the SIGUSR1 branch keeps the mutex.
HandlerReturnLocked(t) ==
  /\ handlers[t] # <<>>
  /\ handlers[t][1].at = "unlock"
  /\ mutex' = IF handlers[t][1].sig = "SIGUSR1" THEN mutex ELSE Nobody
  /\ handlers' = [handlers EXCEPT ![t] = Tail(@)]
  /\ UNCHANGED <<flags, pc, woken, kernel>>

\* Unlock and return to what was interrupted.
HandlerUnlock(t) ==
  /\ handlers[t] # <<>>
  /\ handlers[t][1].at = "unlock"
  /\ mutex' = Nobody
  /\ handlers' = [handlers EXCEPT ![t] = Tail(@)]
  /\ UNCHANGED <<flags, pc, woken, kernel>>

sig_handler1(t) == HandlerLock(t) \/ HandlerSet(t) \/ HandlerSignal(t) \/ HandlerUnlock(t)

-----------------------------------------------------------------------------
(* The worker, while no handler runs on it.                                *)

Goto(t, from, to) ==
  /\ handlers[t] = <<>>
  /\ pc[t] = from
  /\ pc' = [pc EXCEPT ![t] = to]

\* while (!stop) outside the mutex
TestStop ==
  /\ Goto("worker", "test", IF stop THEN "exited" ELSE "lock")
  /\ UNCHANGED <<flags, mutex, handlers, woken, kernel>>

Lock ==
  /\ Goto("worker", "lock", "loop")
  /\ mutex = Nobody
  /\ mutex' = "worker"
  /\ UNCHANGED <<flags, handlers, woken, kernel>>

\* pthread_cond_wait releases the mutex and starts to wait in one step.
Wait ==
  /\ ~stop /\ paused
  /\ Goto("worker", "loop", "waiting")
  /\ mutex' = Nobody
  /\ woken' = FALSE
  /\ UNCHANGED <<flags, handlers, kernel>>

\* It returns with the mutex, and the loop tests the flags again.
WakeUp ==
  /\ Goto("worker", "waiting", "loop")
  /\ woken
  /\ mutex = Nobody
  /\ mutex' = "worker"
  /\ woken' = FALSE
  /\ UNCHANGED <<flags, handlers, kernel>>

Unlock ==
  /\ stop \/ ~paused
  /\ Goto("worker", "loop", "check")
  /\ mutex' = Nobody
  /\ UNCHANGED <<flags, handlers, woken, kernel>>

\* if (stop) break; otherwise print and sleep.
CheckStop ==
  /\ Goto("worker", "check", IF stop THEN "exited" ELSE "test")
  /\ UNCHANGED <<flags, mutex, handlers, woken, kernel>>

\* Mutant: the flags are tested without the mutex, which is taken for the
\* wait only.
WorkerTestsUnlocked ==
  \/ TestStop
  \/ /\ Goto("worker", "lock", IF ~stop /\ paused THEN "loop" ELSE "check")
     /\ UNCHANGED <<flags, mutex, handlers, woken, kernel>>
  \/ /\ Goto("worker", "loop", "waiting")
     /\ mutex = Nobody
     /\ woken' = FALSE
     /\ UNCHANGED <<flags, mutex, handlers, kernel>>
  \/ /\ Goto("worker", "waiting", "lock")
     /\ woken /\ mutex = Nobody
     /\ woken' = FALSE
     /\ UNCHANGED <<flags, mutex, handlers, kernel>>
  \/ CheckStop

worker_function == TestStop \/ Lock \/ Wait \/ WakeUp \/ Unlock \/ CheckStop

-----------------------------------------------------------------------------
(* The main thread, while no handler runs on it.                           *)

Register ==
  /\ Goto("main", "register", "create")
  /\ UNCHANGED <<flags, mutex, handlers, woken, kernel>>

Create ==
  /\ handlers["main"] = <<>>
  /\ pc["main"] = "create"
  /\ pc' = [pc EXCEPT !["main"] = "join", !["worker"] = "test"]
  /\ UNCHANGED <<flags, mutex, handlers, woken, kernel>>

CreateFails ==
  /\ Goto("main", "create", "failed")
  /\ UNCHANGED <<flags, mutex, handlers, woken, kernel>>

\* pthread_join, the two destroys, return.
Join ==
  /\ Goto("main", "join", "done")
  /\ pc["worker"] = "exited"
  /\ UNCHANGED <<flags, mutex, handlers, woken, kernel>>

main == Register \/ Create \/ Join

-----------------------------------------------------------------------------

Thread(t) ==
  /\ ~Ended
  /\ \/ sig_handler1(t)
     \/ t = "main" /\ (main \/ CreateFails)
     \/ t = "worker" /\ worker_function

Next ==
  \/ \E t \in Threads : Thread(t)
  \/ \E s \in Signals : Send(s)
  \/ \E t \in Threads, s \in Signals : Deliver(t, s)

Spec == Init /\ [][Next]_vars

\* Both threads run when they can and pending signals are delivered.
Fairness ==
  /\ \A t \in Threads : WF_vars(~Ended /\ sig_handler1(t))
  /\ WF_vars(~Ended /\ main)
  /\ WF_vars(~Ended /\ worker_function)
  /\ \A s \in Signals : WF_vars(\E t \in Threads : Deliver(t, s))

FairSpec == Spec /\ Fairness

-----------------------------------------------------------------------------
(* Properties.                                                             *)

MainLabels == {"register", "create", "join", "done", "failed", "killed"}
WorkerLabels == {"unborn", "test", "lock", "loop", "waiting", "check", "exited"}
HandlerLabels == {"lock", "set", "signal", "unlock"}

\* Every variable has its type; only a waiter is marked as woken, and no
\* signal interrupts its own handler.
TypeOK ==
  /\ paused \in BOOLEAN /\ stop \in BOOLEAN
  /\ mutex \in Threads \cup {Nobody}
  /\ pc \in [Threads -> MainLabels \cup WorkerLabels]
  /\ pc["main"] \in MainLabels /\ pc["worker"] \in WorkerLabels
  /\ handlers \in [Threads -> Seq([sig : Signals, at : HandlerLabels])]
  /\ woken \in BOOLEAN /\ (woken => pc["worker"] = "waiting")
  /\ \A t \in Threads : \A i, j \in 1..Len(handlers[t]) :
       handlers[t][i].sig = handlers[t][j].sig => i = j
  /\ pending \subseteq Signals
  /\ sent \in 0..MaxSignals

\* The innermost handler on t waits for the mutex that t itself holds, in code
\* the handler interrupted.
SelfLocked(t) ==
  mutex = t /\ handlers[t] # <<>> /\ handlers[t][1].at = "lock"

\* The handler locks the mutex again in two situations only: it interrupted
\* the worker between its lock and its unlock (41-46), or it interrupted
\* another handler (17-33).  A signal that finds main in its join and no
\* other handler running is harmless.
SelfLockNeedsHolder ==
  \A t \in Threads : SelfLocked(t) =>
    \/ t = "worker" /\ pc[t] = "loop"
    \/ \E i \in 1..Len(handlers[t]) : handlers[t][i].at # "lock"

\* Such a program is stuck for good: no further signal, SIGINT included, gets
\* it out.
SelfLockIsPermanent == [][\A t \in Threads : SelfLocked(t) => SelfLocked(t)']_vars

\* No wake-up is lost: while the worker waits unsignalled although it is to
\* go on, the handler that said so has yet to call pthread_cond_signal.
NoLostWakeUp ==
  pc["worker"] = "waiting" /\ ~woken /\ (stop \/ ~paused) =>
    \E t \in Threads : \E i \in 1..Len(handlers[t]) : handlers[t][i].at = "signal"

\* Once stop is set the program ends, also if SIGUSR1 pauses it again after
\* that, unless a handler has locked itself out.
StopEnds == stop ~> Ended \/ \E t \in Threads : SelfLocked(t)
=============================================================================

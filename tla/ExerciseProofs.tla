----------------------------- MODULE ExerciseProofs -----------------------------
(* Theorems about the two exercises that put threads, signals and blocking   *)
(* calls together: 04_thread/6_bvn (PausedWorker), for every number of       *)
(* signals, and the programs of 06_pipe_fifo (FifoExercise), for every       *)
(* number of messages.                                                       *)
EXTENDS PausedWorker, FifoExercise, SequenceTheorems, TLAPS

-----------------------------------------------------------------------------
(* 04_thread/6_bvn: PausedWorker.                                          *)

Frame == [sig : Signals, at : HandlerLabels]

\* The positions that hold the mutex: past the lock of a handler that runs on
\* t, or between the worker's lock and its unlock.
Holds(t) ==
  \/ t = "worker" /\ pc[t] = "loop"
  \/ \E i \in 1..Len(handlers[t]) : handlers[t][i].at # "lock"

\* A thread that owns the mutex is at such a position, and only it is.
OwnerInv == \A t \in Threads : mutex = t <=> Holds(t)

\* A thread is at one such position only: a handler that interrupts another
\* one, or the worker with the mutex, is still before its lock.
OnceInv ==
  \A t \in Threads : \A i \in 1..Len(handlers[t]) :
    handlers[t][i].at # "lock" =>
      /\ ~(t = "worker" /\ pc[t] = "loop")
      /\ \A j \in 1..Len(handlers[t]) : handlers[t][j].at # "lock" => i = j

\* The worker is born when main creates it, and nothing interrupts it before.
BornInv ==
  pc["main"] \in {"register", "create", "failed"} =>
    pc["worker"] = "unborn" /\ handlers["worker"] = <<>>

IInv == TypeOK /\ OwnerInv /\ OnceInv /\ BornInv /\ NoLostWakeUp

-----------------------------------------------------------------------------
(* The stack of handlers.                                                  *)

\* What Deliver puts on a stack: the new handler, and the others one further
\* down.
LEMMA Push ==
  ASSUME NEW f \in Frame, NEW h \in Seq(Frame)
  PROVE  /\ <<f>> \o h \in Seq(Frame)
         /\ Len(<<f>> \o h) = Len(h) + 1
         /\ (<<f>> \o h)[1] = f
         /\ \A i \in 1..Len(h) : (<<f>> \o h)[i + 1] = h[i]
         /\ \A i \in 1..Len(<<f>> \o h) : i = 1 \/ (i - 1 \in 1..Len(h) /\ (<<f>> \o h)[i] = h[i - 1])
  OBVIOUS

\* What the return of a handler leaves: the others, one further up.
LEMMA Pop ==
  ASSUME NEW h \in Seq(Frame), h # <<>>
  PROVE  /\ Tail(h) \in Seq(Frame)
         /\ Len(Tail(h)) = Len(h) - 1
         /\ \A i \in 1..Len(Tail(h)) : i + 1 \in 1..Len(h) /\ Tail(h)[i] = h[i + 1]
  OBVIOUS

\* A handler's step changes its own label only.
LEMMA Move ==
  ASSUME TypeOK, NEW t \in Threads, NEW from \in HandlerLabels, NEW to \in HandlerLabels,
         Handler(t, from, to)
  PROVE  /\ handlers' \in [Threads -> Seq(Frame)]
         /\ 1 \in 1..Len(handlers[t]) /\ handlers[t][1].at = from
         /\ \A u \in Threads : Len(handlers'[u]) = Len(handlers[u])
         /\ \A u \in Threads \ {t} : handlers'[u] = handlers[u]
         /\ handlers'[t][1].at = to /\ handlers'[t][1].sig = handlers[t][1].sig
         /\ \A i \in 2..Len(handlers[t]) : handlers'[t][i] = handlers[t][i]
<1> DEFINE h == handlers[t]
           f == [h[1] EXCEPT !.at = to]
           g == [h EXCEPT ![1] = f]
<1>1. h \in Seq(Frame) /\ h # <<>> /\ h[1].at = from
  BY DEF TypeOK, Handler, Frame
<1>2. 1 \in 1..Len(h) /\ h[1] \in Frame
  BY <1>1
<1>3. f \in Frame /\ f.at = to /\ f.sig = h[1].sig
  BY <1>2 DEF Frame
<1>4. /\ g \in Seq(Frame) /\ Len(g) = Len(h) /\ g[1] = f
      /\ \A i \in 2..Len(h) : g[i] = h[i]
  BY <1>1, <1>2, <1>3, ExceptSeq
<1>5. handlers' = [handlers EXCEPT ![t] = g]
  BY DEF Handler
<1>6. handlers \in [Threads -> Seq(Frame)]
  BY DEF TypeOK, Frame
<1>7. handlers'[t] = g /\ \A u \in Threads \ {t} : handlers'[u] = handlers[u]
  BY <1>5, <1>6
<1>8. handlers' \in [Threads -> Seq(Frame)]
  BY <1>4, <1>5, <1>6
<1> HIDE DEF g, f
<1> QED BY <1>1, <1>2, <1>3, <1>4, <1>7, <1>8

-----------------------------------------------------------------------------
(* The invariant.                                                          *)

\* Statements of the two threads outside their handlers leave the stacks
\* alone; only the worker's take and give back the mutex (36-57).
LEMMA ThreadStep ==
  ASSUME IInv, worker_function \/ main \/ CreateFails
  PROVE  IInv'
<1> USE DEF IInv, flags, kernel, Goto, Threads, Nobody
<1>1. /\ handlers' = handlers /\ paused' = paused /\ stop' = stop
      /\ pending' = pending /\ sent' = sent
  BY DEF worker_function, main, TestStop, Lock, Wait, WakeUp, Unlock, CheckStop,
         Register, Create, CreateFails, Join
<1>2. TypeOK'
  <2>1. /\ pc' \in [Threads -> MainLabels \cup WorkerLabels]
        /\ pc'["main"] \in MainLabels /\ pc'["worker"] \in WorkerLabels
    <3>1. CASE worker_function
      BY <3>1 DEF TypeOK, MainLabels, WorkerLabels,
           worker_function, TestStop, Lock, Wait, WakeUp, Unlock, CheckStop
    <3>2. CASE main \/ CreateFails
      BY <3>2 DEF TypeOK, MainLabels, WorkerLabels, main, Register, Create, CreateFails, Join
    <3> QED BY <3>1, <3>2
  <2>2. mutex' \in Threads \cup {Nobody} /\ woken' \in BOOLEAN
    BY DEF TypeOK, worker_function, main, TestStop, Lock, Wait, WakeUp,
       Unlock, CheckStop, Register, Create, CreateFails, Join
  <2>3. woken' => pc'["worker"] = "waiting"
    BY DEF TypeOK, BornInv, worker_function, main, TestStop, Lock, Wait, WakeUp,
       Unlock, CheckStop, Register, Create, CreateFails, Join
  <2> QED BY <1>1, <2>1, <2>2, <2>3 DEF TypeOK
<1>3. OwnerInv' /\ OnceInv'
  <2> USE DEF TypeOK, MainLabels, WorkerLabels, BornInv, OwnerInv, OnceInv, Holds
  <2>1. CASE TestStop \/ CheckStop
    BY <2>1, <1>1 DEF TestStop, CheckStop
  <2>2. CASE main \/ CreateFails
    BY <2>2, <1>1 DEF main, Register, Create, CreateFails, Join
  <2>3. CASE Lock \/ WakeUp
    BY <2>3, <1>1 DEF Lock, WakeUp
  <2>4. CASE Wait \/ Unlock
    BY <2>4, <1>1 DEF Wait, Unlock
  <2> QED BY <2>1, <2>2, <2>3, <2>4 DEF worker_function
<1>4. NoLostWakeUp'
  BY <1>1 DEF NoLostWakeUp, TypeOK, worker_function, main, TestStop, Lock, Wait, WakeUp,
       Unlock, CheckStop, Register, Create, CreateFails, Join
<1>5. BornInv'
  BY <1>1 DEF BornInv, TypeOK, worker_function, main, TestStop, Lock, Wait, WakeUp,
       Unlock, CheckStop, Register, Create, CreateFails, Join
<1> QED BY <1>2, <1>3, <1>4, <1>5

\* A signal that is sent ends the program before main has registered the
\* handlers, and is pending after that.
LEMMA SendStep ==
  ASSUME IInv, NEW s \in Signals, Send(s)
  PROVE  IInv'
<1> USE DEF IInv, Send, flags
<1>1. TypeOK'
  BY MaxSignalsAssumption DEF TypeOK, Threads, MainLabels, WorkerLabels
<1>2. OwnerInv' /\ OnceInv'
  BY DEF TypeOK, OwnerInv, OnceInv, Holds, Threads
<1>3. NoLostWakeUp'
  BY DEF TypeOK, NoLostWakeUp, Threads
<1>4. BornInv'
  BY DEF TypeOK, BornInv, Threads
<1> QED BY <1>1, <1>2, <1>3, <1>4

\* A handler starts before its lock, above whatever it interrupts: it holds
\* nothing and takes nothing from those below (15-17).
LEMMA DeliverStep ==
  ASSUME IInv, NEW t \in Threads, NEW s \in Signals, Deliver(t, s)
  PROVE  IInv'
<1> DEFINE f == [sig |-> s, at |-> "lock"]
           h == handlers[t]
<1>1. f \in Frame /\ f.at = "lock" /\ f.sig = s
  BY DEF Frame, HandlerLabels
<1>2. handlers \in [Threads -> Seq(Frame)]
  BY DEF IInv, TypeOK, Frame
<1>3. handlers' = [handlers EXCEPT ![t] = <<f>> \o h]
  BY DEF Deliver
<1>4. /\ <<f>> \o h \in Seq(Frame) /\ Len(<<f>> \o h) = Len(h) + 1 /\ Len(h) \in Nat
      /\ \A i \in 1..Len(h) : (<<f>> \o h)[i + 1] = h[i]
      /\ \A i \in 1..Len(<<f>> \o h) :
           (i = 1 /\ (<<f>> \o h)[i] = f) \/ (i - 1 \in 1..Len(h) /\ (<<f>> \o h)[i] = h[i - 1])
  BY <1>1, <1>2, Push
<1>5. /\ handlers' \in [Threads -> Seq(Frame)]
      /\ \A u \in Threads \ {t} : handlers'[u] = handlers[u]
      /\ handlers'[t] = <<f>> \o h
  BY <1>2, <1>3, <1>4
<1>6. /\ Len(handlers'[t]) = Len(h) + 1 /\ Len(h) \in Nat
      /\ \A i \in 1..Len(h) : i + 1 \in 1..Len(handlers'[t]) /\ handlers'[t][i + 1] = h[i]
      /\ \A i \in 1..Len(handlers'[t]) :
           (i = 1 /\ handlers'[t][i] = f) \/ (i - 1 \in 1..Len(h) /\ handlers'[t][i] = h[i - 1])
  BY <1>4, <1>5
<1>7. /\ pc' = pc /\ mutex' = mutex /\ paused' = paused /\ stop' = stop
      /\ woken' = woken /\ sent' = sent /\ pending' \subseteq Signals
  BY DEF Deliver, flags, IInv, TypeOK
<1>8. \A i \in 1..Len(h) : h[i].sig # s
  BY DEF Deliver, Handling
<1> HIDE DEF f
<1>9. \A u \in Threads : \A i, j \in 1..Len(handlers'[u]) :
        handlers'[u][i].sig = handlers'[u][j].sig => i = j
  <2>1. \A i \in 1..Len(handlers'[t]) \ {1} :
          i - 1 \in 1..Len(h) /\ handlers'[t][i] = h[i - 1] /\ handlers'[t][i].sig # s
    BY <1>6, <1>8
  <2>2. \A i, j \in 1..Len(h) : h[i].sig = h[j].sig => i = j
    BY DEF IInv, TypeOK
  <2>3. ASSUME NEW i \in 1..Len(handlers'[t]), NEW j \in 1..Len(handlers'[t]),
               handlers'[t][i].sig = handlers'[t][j].sig
        PROVE  i = j
    <3>1. CASE i = 1 \/ j = 1
      <4>1. handlers'[t][1].sig = s
        <5>1. 1 \in 1..Len(handlers'[t]) /\ ~(1 - 1 \in 1..Len(h))
          BY <1>6
        <5>2. handlers'[t][1] = f
          BY <5>1, <1>6
        <5> QED BY <5>2, <1>1
      <4>2. i = 1 => j \notin 1..Len(handlers'[t]) \ {1}
        BY <4>1, <2>1, <2>3
      <4>3. j = 1 => i \notin 1..Len(handlers'[t]) \ {1}
        BY <4>1, <2>1, <2>3
      <4> QED BY <4>2, <4>3, <3>1, <2>3
    <3>2. CASE i # 1 /\ j # 1
      <4>1. i - 1 \in 1..Len(h) /\ handlers'[t][i] = h[i - 1]
        BY <3>2, <2>1
      <4>2. j - 1 \in 1..Len(h) /\ handlers'[t][j] = h[j - 1]
        BY <3>2, <2>1
      <4>3. i - 1 = j - 1
        BY <4>1, <4>2, <2>2, <2>3
      <4> QED BY <4>3
    <3> QED BY <3>1, <3>2
  <2>4. ASSUME NEW u \in Threads \ {t}, NEW i \in 1..Len(handlers'[u]), NEW j \in 1..Len(handlers'[u]),
               handlers'[u][i].sig = handlers'[u][j].sig
        PROVE  i = j
    BY <2>4, <1>5 DEF IInv, TypeOK
  <2> QED BY <2>3, <2>4
<1>10. TypeOK'
  BY <1>5, <1>7, <1>9 DEF IInv, TypeOK, Frame
<1>11. \A u \in Threads : Holds(u)' <=> Holds(u)
  <2> TAKE u \in Threads
  <2>1. CASE u # t
    BY <2>1, <1>5, <1>7 DEF Holds
  <2>2. CASE u = t
    <3>1. (\E i \in 1..Len(handlers'[t]) : handlers'[t][i].at # "lock")
            => \E i \in 1..Len(h) : h[i].at # "lock"
      BY <1>1, <1>6
    <3>2. (\E i \in 1..Len(h) : h[i].at # "lock")
            => \E i \in 1..Len(handlers'[t]) : handlers'[t][i].at # "lock"
      BY <1>6
    <3> QED BY <2>2, <3>1, <3>2, <1>7 DEF Holds
  <2> QED BY <2>1, <2>2
<1>12. OwnerInv'
  BY <1>7, <1>11 DEF IInv, OwnerInv
<1>13. OnceInv'
  <2> SUFFICES ASSUME NEW u \in Threads, NEW i \in 1..Len(handlers'[u]),
                      handlers'[u][i].at # "lock"
               PROVE  /\ ~(u = "worker" /\ pc'[u] = "loop")
                      /\ \A j \in 1..Len(handlers'[u]) : handlers'[u][j].at # "lock" => i = j
    BY DEF OnceInv
  <2>1. CASE u # t
    BY <2>1, <1>5, <1>7 DEF IInv, OnceInv
  <2>2. CASE u = t
    <3>1. i - 1 \in 1..Len(h) /\ h[i - 1].at # "lock"
      BY <2>2, <1>1, <1>6
    <3>2. /\ ~(t = "worker" /\ pc[t] = "loop")
          /\ \A j \in 1..Len(h) : h[j].at # "lock" => i - 1 = j
      BY <3>1 DEF IInv, OnceInv
    <3>3. ASSUME NEW j \in 1..Len(handlers'[t]), handlers'[t][j].at # "lock"
          PROVE  i = j
      <4>1. j - 1 \in 1..Len(h) /\ h[j - 1].at # "lock"
        BY <3>3, <1>1, <1>6
      <4>2. i - 1 = j - 1
        BY <4>1, <3>2
      <4> QED BY <4>2
    <3> QED BY <2>2, <3>2, <3>3, <1>7
  <2> QED BY <2>1, <2>2
<1>14. BornInv'
  BY <1>5, <1>7 DEF IInv, BornInv, Deliver, Interruptible, Threads
<1>15. NoLostWakeUp'
  <2> SUFFICES ASSUME NEW u \in Threads, NEW i \in 1..Len(handlers[u]),
                      handlers[u][i].at = "signal"
               PROVE  \E v \in Threads : \E j \in 1..Len(handlers'[v]) :
                        handlers'[v][j].at = "signal"
    BY <1>7 DEF IInv, NoLostWakeUp
  <2>1. CASE u # t
    BY <2>1, <1>5
  <2>2. CASE u = t
    BY <2>2, <1>6
  <2> QED BY <2>1, <2>2
<1> QED BY <1>10, <1>12, <1>13, <1>14, <1>15 DEF IInv

\* What a step inside a handler leaves as it is: the types of the stacks and
\* everything in them but the innermost label.
LEMMA MoveTypes ==
  ASSUME IInv, NEW t \in Threads, NEW from \in HandlerLabels, NEW to \in HandlerLabels,
         Handler(t, from, to), pc' = pc, pending' = pending, sent' = sent,
         paused' \in BOOLEAN, stop' \in BOOLEAN,
         mutex' \in Threads \cup {Nobody},
         woken' \in BOOLEAN, woken' => pc["worker"] = "waiting"
  PROVE  TypeOK' /\ BornInv'
<1>1. /\ handlers' \in [Threads -> Seq(Frame)]
      /\ 1 \in 1..Len(handlers[t]) /\ handlers[t][1].at = from
      /\ \A u \in Threads : Len(handlers'[u]) = Len(handlers[u])
      /\ \A u \in Threads \ {t} : handlers'[u] = handlers[u]
      /\ handlers'[t][1].at = to /\ handlers'[t][1].sig = handlers[t][1].sig
      /\ \A i \in 2..Len(handlers[t]) : handlers'[t][i] = handlers[t][i]
  BY Move DEF IInv
<1>2. \A u \in Threads : \A i \in 1..Len(handlers'[u]) : handlers'[u][i].sig = handlers[u][i].sig
  <2> TAKE u \in Threads
  <2> TAKE i \in 1..Len(handlers'[u])
  <2>1. CASE u # t
    BY <2>1, <1>1
  <2>2. CASE u = t /\ i = 1
    BY <2>2, <1>1
  <2>3. CASE u = t /\ i # 1
    <3>1. Len(handlers[t]) \in Nat
      BY DEF IInv, TypeOK
    <3>2. i \in 2..Len(handlers[t])
      BY <2>3, <1>1, <3>1
    <3> QED BY <3>2, <2>3, <1>1
  <2> QED BY <2>1, <2>2, <2>3
<1>3. \A u \in Threads : \A i, j \in 1..Len(handlers'[u]) :
        handlers'[u][i].sig = handlers'[u][j].sig => i = j
  BY <1>1, <1>2 DEF IInv, TypeOK
<1>4. TypeOK'
  <2>1. handlers' \in [Threads -> Seq([sig : Signals, at : HandlerLabels])]
    BY <1>1 DEF Frame
  <2> QED BY <1>3, <2>1 DEF IInv, TypeOK
<1>5. handlers[t] # <<>>
  BY DEF Handler
<1>6. BornInv'
  BY <1>1, <1>5 DEF IInv, BornInv, Threads
<1> QED BY <1>4, <1>6

\* The mutex passes to a handler only when no position holds it (17).
LEMMA HandlerLockStep ==
  ASSUME IInv, NEW t \in Threads, HandlerLock(t)
  PROVE  IInv'
<1>1. Handler(t, "lock", "set") /\ "lock" \in HandlerLabels /\ "set" \in HandlerLabels
  BY DEF HandlerLock, HandlerLabels
<1>2. /\ mutex = Nobody /\ mutex' = t
      /\ paused' = paused /\ stop' = stop /\ pc' = pc /\ woken' = woken
      /\ pending' = pending /\ sent' = sent
  BY DEF HandlerLock, flags, kernel
<1>3. /\ 1 \in 1..Len(handlers[t])
      /\ \A u \in Threads : Len(handlers'[u]) = Len(handlers[u])
      /\ \A u \in Threads \ {t} : handlers'[u] = handlers[u]
      /\ handlers'[t][1].at = "set"
      /\ \A i \in 2..Len(handlers[t]) : handlers'[t][i] = handlers[t][i]
      /\ Len(handlers[t]) \in Nat
  <2>1. TypeOK
    BY DEF IInv
  <2>2. Len(handlers[t]) \in Nat
    BY DEF IInv, TypeOK
  <2> QED BY <1>1, <2>1, <2>2, Move
<1>4. TypeOK' /\ BornInv'
  BY <1>1, <1>2, MoveTypes DEF IInv, TypeOK
<1>5. \A u \in Threads : ~Holds(u)
  BY <1>2 DEF IInv, OwnerInv, Threads, Nobody
<1>6. \A i \in 1..Len(handlers'[t]) : handlers'[t][i].at # "lock" => i = 1
  <2> TAKE i \in 1..Len(handlers'[t])
  <2>1. CASE i # 1
    <3>1. i \in 2..Len(handlers[t]) /\ i \in 1..Len(handlers[t])
      BY <2>1, <1>3
    <3> QED BY <3>1, <1>3, <1>5 DEF Holds
  <2> QED BY <2>1
<1>7. \A u \in Threads \ {t} : ~Holds(u)'
  BY <1>2, <1>3, <1>5 DEF Holds
<1>8. Holds(t)'
  BY <1>3 DEF Holds
<1>9. OwnerInv'
  BY <1>2, <1>7, <1>8 DEF OwnerInv
<1>10. OnceInv'
  <2> SUFFICES ASSUME NEW u \in Threads, NEW i \in 1..Len(handlers'[u]),
                      handlers'[u][i].at # "lock"
               PROVE  /\ ~(u = "worker" /\ pc'[u] = "loop")
                      /\ \A j \in 1..Len(handlers'[u]) : handlers'[u][j].at # "lock" => i = j
    BY DEF OnceInv
  <2>1. u = t
    BY <1>7 DEF Holds
  <2>2. ~(t = "worker" /\ pc[t] = "loop")
    BY <1>5 DEF Holds
  <2> QED BY <2>1, <2>2, <1>2, <1>6
<1>11. NoLostWakeUp'
  BY <1>2, <1>5, <1>7 DEF IInv, NoLostWakeUp, Holds
<1> QED BY <1>4, <1>9, <1>10, <1>11 DEF IInv

\* Between its lock and its unlock a handler keeps the mutex; the one that
\* stops or resumes the worker is about to signal it (18-32).
LEMMA HandlerMoveStep ==
  ASSUME IInv, NEW t \in Threads, HandlerSet(t) \/ HandlerSignal(t)
  PROVE  IInv'
<1>1. PICK from \in {"set", "signal"}, to \in {"signal", "unlock"} :
        /\ Handler(t, from, to)
        /\ from = "signal" => to = "unlock" /\ HandlerSignal(t)
        /\ from = "set" => HandlerSet(t)
  BY DEF HandlerSet, HandlerSignal
<1>2. from \in HandlerLabels /\ to \in HandlerLabels
  BY DEF HandlerLabels
<1>3. /\ mutex' = mutex /\ pc' = pc /\ pending' = pending /\ sent' = sent
      /\ paused' \in BOOLEAN /\ stop' \in BOOLEAN
  BY DEF HandlerSet, HandlerSignal, flags, kernel, IInv, TypeOK
<1>4. /\ 1 \in 1..Len(handlers[t]) /\ handlers[t][1].at = from
      /\ \A u \in Threads : Len(handlers'[u]) = Len(handlers[u])
      /\ \A u \in Threads \ {t} : handlers'[u] = handlers[u]
      /\ handlers'[t][1].at = to
      /\ \A i \in 2..Len(handlers[t]) : handlers'[t][i] = handlers[t][i]
      /\ Len(handlers[t]) \in Nat
  <2>1. TypeOK
    BY DEF IInv
  <2>2. Len(handlers[t]) \in Nat
    BY DEF IInv, TypeOK
  <2> QED BY <1>1, <1>2, <2>1, <2>2, Move
<1>5. woken' \in BOOLEAN /\ (woken' => pc["worker"] = "waiting")
  BY DEF HandlerSet, HandlerSignal, IInv, TypeOK
<1>6. TypeOK' /\ BornInv'
  BY <1>1, <1>2, <1>3, <1>5, MoveTypes DEF IInv, TypeOK
<1>7. \A u \in Threads : \A i \in 1..Len(handlers[u]) :
        i \in 1..Len(handlers'[u]) /\ (handlers'[u][i].at # "lock" <=> handlers[u][i].at # "lock")
  <2> TAKE u \in Threads
  <2> TAKE i \in 1..Len(handlers[u])
  <2>1. CASE u = t /\ i # 1
    <3>1. i \in 2..Len(handlers[t])
      BY <2>1, <1>4
    <3> QED BY <3>1, <2>1, <1>4
  <2>2. CASE u = t /\ i = 1
    BY <2>2, <1>4
  <2>3. CASE u # t
    BY <2>3, <1>4
  <2> QED BY <2>1, <2>2, <2>3
<1>8. OwnerInv'
  BY <1>3, <1>4, <1>7 DEF IInv, OwnerInv, Holds
<1>9. OnceInv'
  BY <1>3, <1>4, <1>7 DEF IInv, OnceInv
<1>10. NoLostWakeUp'
  <2> SUFFICES ASSUME pc["worker"] = "waiting", ~woken', stop' \/ ~paused'
               PROVE  \E u \in Threads : \E i \in 1..Len(handlers'[u]) : handlers'[u][i].at = "signal"
    BY <1>3 DEF NoLostWakeUp
  <2>1. from = "set" /\ HandlerSet(t)
    BY <1>1 DEF HandlerSignal
  <2>2. CASE to = "signal"
    BY <2>2, <1>4
  <2>3. CASE to = "unlock"
    <3>1. handlers[t][1].sig = "SIGUSR1"
      BY <2>1, <2>3, <1>4 DEF HandlerSet, Handler, IInv, TypeOK, Frame
    <3>2. stop /\ ~woken
      BY <3>1, <2>1 DEF HandlerSet, IInv, TypeOK
    <3>3. PICK u \in Threads : \E i \in 1..Len(handlers[u]) : handlers[u][i].at = "signal"
      BY <3>2 DEF IInv, NoLostWakeUp
    <3>4. PICK i \in 1..Len(handlers[u]) : handlers[u][i].at = "signal"
      BY <3>3
    <3>5. CASE u = t
      <4>1. i \in 2..Len(handlers[t])
        BY <3>4, <3>5, <2>1, <1>4
      <4> QED BY <4>1, <3>4, <3>5, <1>4
    <3>6. CASE u # t
      BY <3>4, <3>6, <1>4
    <3> QED BY <3>5, <3>6
  <2> QED BY <2>2, <2>3
<1> QED BY <1>6, <1>8, <1>9, <1>10 DEF IInv

\* The handler that returns was the only position with the mutex, and leaves
\* none (33-34).
LEMMA HandlerUnlockStep ==
  ASSUME IInv, NEW t \in Threads, HandlerUnlock(t)
  PROVE  IInv'
<1> DEFINE h == handlers[t]
<1>1. handlers \in [Threads -> Seq(Frame)]
  BY DEF IInv, TypeOK, Frame
<1>2. /\ h \in Seq(Frame) /\ h # <<>> /\ h[1].at = "unlock" /\ 1 \in 1..Len(h)
      /\ handlers' = [handlers EXCEPT ![t] = Tail(h)]
  BY <1>1 DEF HandlerUnlock
<1>3. /\ mutex' = Nobody /\ pc' = pc /\ paused' = paused /\ stop' = stop
      /\ woken' = woken /\ pending' = pending /\ sent' = sent
  BY DEF HandlerUnlock, flags, kernel
<1>4. /\ Tail(h) \in Seq(Frame) /\ Len(Tail(h)) = Len(h) - 1 /\ Len(h) \in Nat
      /\ \A i \in 1..Len(Tail(h)) : i + 1 \in 1..Len(h) /\ Tail(h)[i] = h[i + 1]
  BY <1>2, Pop
<1>5. /\ handlers' \in [Threads -> Seq(Frame)]
      /\ \A u \in Threads \ {t} : handlers'[u] = handlers[u]
      /\ handlers'[t] = Tail(h)
  BY <1>1, <1>2, <1>4
<1>6. /\ Len(handlers'[t]) = Len(h) - 1 /\ Len(h) \in Nat
      /\ \A i \in 1..Len(handlers'[t]) : i + 1 \in 1..Len(h) /\ handlers'[t][i] = h[i + 1]
  BY <1>4, <1>5
<1>7. \A u \in Threads : \A i, j \in 1..Len(handlers'[u]) :
        handlers'[u][i].sig = handlers'[u][j].sig => i = j
  <2>1. \A i, j \in 1..Len(h) : h[i].sig = h[j].sig => i = j
    BY DEF IInv, TypeOK
  <2>2. ASSUME NEW i \in 1..Len(handlers'[t]), NEW j \in 1..Len(handlers'[t]),
               handlers'[t][i].sig = handlers'[t][j].sig
        PROVE  i = j
    <3>1. i + 1 \in 1..Len(h) /\ j + 1 \in 1..Len(h)
      BY <1>6
    <3>2. handlers'[t][i] = h[i + 1] /\ handlers'[t][j] = h[j + 1]
      BY <1>6
    <3>3. i + 1 = j + 1
      BY <3>1, <3>2, <2>1, <2>2
    <3> QED BY <3>3
  <2>3. ASSUME NEW u \in Threads \ {t}
        PROVE  \A i, j \in 1..Len(handlers'[u]) : handlers'[u][i].sig = handlers'[u][j].sig => i = j
    BY <2>3, <1>5 DEF IInv, TypeOK
  <2> QED BY <2>2, <2>3
<1>8. TypeOK'
  BY <1>3, <1>5, <1>7 DEF IInv, TypeOK, Frame
<1>9. BornInv'
  BY <1>2, <1>3, <1>5 DEF IInv, BornInv, Threads
<1>10. mutex = t
  BY <1>2 DEF IInv, OwnerInv, Holds
<1>11. \A i \in 1..Len(handlers'[t]) : handlers'[t][i].at = "lock"
  <2> TAKE i \in 1..Len(handlers'[t])
  <2>1. i + 1 \in 1..Len(h) /\ handlers'[t][i] = h[i + 1] /\ i + 1 # 1
    BY <1>6
  <2> QED BY <2>1, <1>2 DEF IInv, OnceInv
<1>12. ~(t = "worker" /\ pc[t] = "loop")
  BY <1>2 DEF IInv, OnceInv
<1>13. \A u \in Threads : ~Holds(u)'
  <2> TAKE u \in Threads
  <2>1. CASE u = t
    BY <2>1, <1>3, <1>11, <1>12 DEF Holds
  <2>2. CASE u # t
    BY <2>2, <1>3, <1>5, <1>10 DEF IInv, OwnerInv, Holds
  <2> QED BY <2>1, <2>2
<1>14. OwnerInv'
  BY <1>3, <1>13 DEF OwnerInv, Threads, Nobody
<1>15. OnceInv'
  BY <1>13 DEF OnceInv, Holds
<1>16. NoLostWakeUp'
  <2> SUFFICES ASSUME NEW u \in Threads, NEW i \in 1..Len(handlers[u]),
                      handlers[u][i].at = "signal"
               PROVE  FALSE
    BY <1>3 DEF IInv, NoLostWakeUp
  <2>1. Holds(u)
    BY DEF Holds
  <2>2. u = t
    BY <2>1, <1>10 DEF IInv, OwnerInv
  <2>3. i = 1
    BY <2>2, <1>2 DEF IInv, OnceInv
  <2> QED BY <2>2, <2>3, <1>2
<1> QED BY <1>8, <1>9, <1>14, <1>15, <1>16 DEF IInv

\* At the start no handler runs and nobody has the mutex (8-13).
LEMMA InitInv == Init => IInv
<1> SUFFICES ASSUME Init PROVE IInv
  OBVIOUS
<1>1. \A t \in Threads : handlers[t] = <<>> /\ handlers[t] \in Seq(Frame) /\ Len(handlers[t]) = 0
  BY DEF Init
<1>2. TypeOK
  <2>1. /\ pc \in [Threads -> MainLabels \cup WorkerLabels]
        /\ pc["main"] \in MainLabels /\ pc["worker"] \in WorkerLabels
    BY DEF Init, Threads, MainLabels, WorkerLabels
  <2>2. handlers \in [Threads -> Seq([sig : Signals, at : HandlerLabels])]
    BY <1>1 DEF Init, Frame
  <2>3. sent \in 0..MaxSignals
    BY MaxSignalsAssumption DEF Init
  <2>4. \A t \in Threads : \A i, j \in 1..Len(handlers[t]) :
          handlers[t][i].sig = handlers[t][j].sig => i = j
    BY <1>1
  <2> QED BY <2>1, <2>2, <2>3, <2>4 DEF Init, TypeOK, Nobody
<1>3. OwnerInv /\ OnceInv
  BY <1>1 DEF Init, OwnerInv, OnceInv, Holds, Threads, Nobody
<1>4. BornInv /\ NoLostWakeUp
  BY <1>1 DEF Init, BornInv, NoLostWakeUp, Threads
<1> QED BY <1>2, <1>3, <1>4 DEF IInv

\* Every step keeps the invariant.
LEMMA NextStep == IInv /\ [Next]_vars => IInv'
<1> SUFFICES ASSUME IInv, [Next]_vars PROVE IInv'
  OBVIOUS
<1>1. ASSUME NEW t \in Threads, Thread(t) PROVE IInv'
  BY <1>1, HandlerLockStep, HandlerMoveStep, HandlerUnlockStep, ThreadStep DEF Thread, sig_handler1
<1>2. ASSUME NEW s \in Signals, Send(s) PROVE IInv'
  BY <1>2, SendStep
<1>3. ASSUME NEW t \in Threads, NEW s \in Signals, Deliver(t, s) PROVE IInv'
  BY <1>3, DeliverStep
<1>4. CASE UNCHANGED vars
  <2> USE <1>4 DEF vars, flags, kernel, IInv
  <2>1. TypeOK' /\ BornInv'
    BY DEF TypeOK, BornInv
  <2>2. OwnerInv' /\ OnceInv'
    BY DEF OwnerInv, OnceInv, Holds
  <2>3. NoLostWakeUp'
    BY DEF NoLostWakeUp
  <2> QED BY <2>1, <2>2, <2>3
<1> QED BY <1>1, <1>2, <1>3, <1>4 DEF Next

-----------------------------------------------------------------------------
(* The theorems.                                                           *)

\* The invariant is inductive.
THEOREM InductiveInvariant == Spec => []IInv
  BY InitInv, NextStep, PTL DEF Spec

\* Every variable keeps its type.
THEOREM TypeCorrectness == Spec => []TypeOK
<1>1. IInv => TypeOK
  BY DEF IInv
<1> QED BY <1>1, InductiveInvariant, PTL

\* No resume or stop signal is lost between the worker's test and its wait.
THEOREM NoLostWakeUpTheorem == Spec => []NoLostWakeUp
<1>1. IInv => NoLostWakeUp
  BY DEF IInv
<1> QED BY <1>1, InductiveInvariant, PTL

\* A handler locks itself out only over the worker's critical section or over
\* another handler's.
THEOREM SelfLockTheorem == Spec => []SelfLockNeedsHolder
<1>1. IInv => SelfLockNeedsHolder
  BY DEF IInv, OwnerInv, Holds, SelfLockNeedsHolder, SelfLocked
<1> QED BY <1>1, InductiveInvariant, PTL

\* Once it has, no step of anybody and no signal lets it go.
LEMMA SelfLockStep ==
  ASSUME IInv, Next, NEW t \in Threads, SelfLocked(t)
  PROVE  SelfLocked(t)'
<1>1. mutex = t /\ handlers[t] # <<>> /\ handlers[t][1].at = "lock"
  BY DEF SelfLocked
<1>2. \A u \in Threads : Holds(u) => u = t
  BY <1>1 DEF IInv, OwnerInv
<1>3. ASSUME NEW u \in Threads, sig_handler1(u) PROVE SelfLocked(t)'
  <2>1. CASE HandlerLock(u)
    BY <2>1, <1>1 DEF HandlerLock, Threads, Nobody
  <2>2. ASSUME NEW from \in {"set", "signal", "unlock"}, handlers[u] # <<>>, handlers[u][1].at = from
        PROVE  u = t /\ FALSE
    <3>1. 1 \in 1..Len(handlers[u])
      BY <2>2 DEF IInv, TypeOK
    <3>2. u = t
      BY <3>1, <2>2, <1>2 DEF Holds
    <3> QED BY <3>2, <2>2, <1>1
  <2>3. CASE HandlerSet(u) \/ HandlerSignal(u) \/ HandlerUnlock(u)
    BY <2>2, <2>3 DEF HandlerSet, HandlerSignal, HandlerUnlock, Handler
  <2> QED BY <1>3, <2>1, <2>3 DEF sig_handler1
<1>4. CASE worker_function
  <2>1. handlers["worker"] = <<>> /\ handlers' = handlers
    BY <1>4 DEF worker_function, TestStop, Lock, Wait, WakeUp, Unlock, CheckStop, Goto
  <2>2. t # "worker"
    BY <2>1, <1>1
  <2>3. ~Holds("worker")
    BY <2>2, <1>2 DEF Threads
  <2>4. pc["worker"] # "loop"
    BY <2>3 DEF Holds
  <2>5. mutex' = mutex
    BY <2>4, <1>1, <1>4 DEF worker_function, TestStop, Lock, Wait, WakeUp, Unlock, CheckStop, Goto,
         Threads, Nobody
  <2> QED BY <2>1, <2>5, <1>1 DEF SelfLocked
<1>5. CASE main \/ CreateFails
  BY <1>1, <1>5 DEF main, Register, Create, CreateFails, Join, Goto, SelfLocked
<1>6. ASSUME NEW s \in Signals, Send(s) PROVE SelfLocked(t)'
  BY <1>1, <1>6 DEF Send, SelfLocked
<1>7. ASSUME NEW u \in Threads, NEW s \in Signals, Deliver(u, s) PROVE SelfLocked(t)'
  <2> DEFINE f == [sig |-> s, at |-> "lock"]
  <2>1. mutex' = mutex /\ handlers' = [handlers EXCEPT ![u] = <<f>> \o @]
    BY <1>7 DEF Deliver
  <2>2. handlers \in [Threads -> Seq(Frame)] /\ f \in Frame
    BY DEF IInv, TypeOK, Frame, HandlerLabels
  <2>3. /\ (<<f>> \o handlers[u])[1] = f /\ Len(<<f>> \o handlers[u]) = Len(handlers[u]) + 1
        /\ Len(handlers[u]) \in Nat
    BY <2>2, Push
  <2>4. CASE u = t
    BY <2>1, <2>2, <2>3, <2>4, <1>1 DEF SelfLocked
  <2>5. CASE u # t
    BY <2>1, <2>2, <2>5, <1>1 DEF SelfLocked
  <2> QED BY <2>4, <2>5
<1> QED BY <1>3, <1>4, <1>5, <1>6, <1>7 DEF Next, Thread

\* The self-lock is permanent.
THEOREM SelfLockPermanent == Spec => SelfLockIsPermanent
<1>1. IInv /\ [Next]_vars => [\A t \in Threads : SelfLocked(t) => SelfLocked(t)']_vars
  BY SelfLockStep
<1> QED BY <1>1, InductiveInvariant, PTL DEF Spec, SelfLockIsPermanent

-----------------------------------------------------------------------------
(* 06_pipe_fifo: FifoExercise.  One conjunct of the invariant per program,   *)
(* and MeetingInv for what the two programs of the exercise share.           *)

\* A parent that writes to its child: the parent keeps the write end, the child
\* its end and for one step a copy of the other; nothing is lost in between.
RelatedInv ==
  version = "related_pipe" =>
    /\ place \in [Actors -> Nat] /\ place["writer"] = 0 /\ place["reader"] = 0
    /\ place["parent"] \in 1..8 /\ place["child"] \in 0..4
    /\ killed = {} /\ met = {} /\ waiting \subseteq handling /\ handling \subseteq {"parent"}
    /\ place["parent"] = 1 => handling = {}
    /\ place["child"] = 0 <=> place["parent"] \in {1, 8}
    /\ ends = {e \in {"parent", "child", "copy"} :
                 \/ e = "parent" /\ place["parent"] \in 2..6
                 \/ e = "child" /\ place["child"] \in 1..3
                 \/ e = "copy" /\ place["child"] = 1}
    /\ data \in Nat /\ printed \in Nat /\ written = printed + data
    /\ place["child"] \in 3..4 => place["parent"] = 7 /\ data = 0
    /\ written = CASE place["parent"] \in 4..6 -> place["parent"] - 3
                [] place["parent"] = 7 -> 3
                [] OTHER -> 0

\* A producer and a consumer of whom neither has overtaken the other are in
\* the same round, or the producer is a round ahead and its message waits.
NamedInv ==
  version = "named_pipe" =>
    /\ place \in [Actors -> Nat] /\ place["writer"] = 0 /\ place["reader"] = 0
    /\ place["parent"] \in 1..6 /\ place["child"] \in 1..5
    /\ data \in Nat /\ written \in Nat /\ printed \in Nat /\ waiting = {} /\ killed \subseteq {"parent"}
    /\ place["parent"] > 1 \/ place["child"] > 1 => fifo
    /\ met \subseteq {"parent", "child"} /\ ends \subseteq {"parent", "child"}
    /\ ("parent" \in ends => "parent" \notin killed)
    /\ ~overlap =>
         /\ killed = {} /\ written = printed + data
         /\ "parent" \in ends <=> place["parent"] \in 4..6
         /\ "child" \in ends <=> place["child"] \in 3..5
         /\ \/ /\ met = {} /\ data = 0
               /\ \/ place["parent"] <= 3 /\ place["child"] <= 3
                  \/ place["parent"] = 4 /\ place["child"] <= 2
            \/ /\ met = {"parent", "child"}
               /\ \/ place["parent"] \in {4, 5} /\ place["child"] \in {3, 4} /\ data = 0
                  \/ place["parent"] = 6 /\ place["child"] \in {3, 4} /\ data = 1
                  \/ place["parent"] = 6 /\ place["child"] = 5 /\ data = 0
            \/ met = {"parent"} /\ place["parent"] = 6 /\ place["child"] = 2 /\ data = 0
            \/ /\ met = {"child"} /\ place["parent"] \in {2, 3}
               /\ \/ place["child"] \in {3, 4} /\ data = 1
                  \/ place["child"] = 5 /\ data = 0

\* The exercise: what its writer has open, who has met whom, what the FIFO holds.
MeetingInv ==
  version \in {"bvn", "vdvd"} =>
    /\ place \in [Actors -> Nat]
    /\ data \in Nat /\ written \in Nat /\ printed \in Nat
    /\ "parent" \notin killed /\ ("parent" \in waiting => "parent" \in handling)
    /\ got # "end"
    /\ ends \subseteq {"writer", "reader"} /\ met \subseteq {"writer", "reader"}
    /\ "writer" \in ends <=> place["writer"] \in 2..4
    /\ place["writer"] \in {3, 4} => "writer" \in met
    /\ "writer" \in met => place["reader"] >= 2 /\ place["writer"] \in 2..4
    /\ "reader" \in met => place["writer"] >= 2
    /\ "writer" \in met /\ place["writer"] <= 3 =>
         "reader" \in ends /\ place["reader"] \in {2, 3}
    /\ place["writer"] <= 3 => data = 0
    /\ "child" \notin killed =>
         /\ place["reader"] \in 2..3 => "reader" \in ends
         /\ place["reader"] \in 2..3 /\ place["writer"] = 2 => met = {"writer", "reader"}
         /\ place["reader"] \in 2..3 /\ place["writer"] >= 3 =>
              "reader" \in met /\ (place["writer"] >= 4 => data = 1)
         /\ "reader" \in ends => "reader" \in met \/ (place["reader"] = 2 /\ place["writer"] <= 1)

\* Its variant vdvd: the two unlinks come after both opens, and the child is
\* killed only before it has a thread.
VdvdInv ==
  version = "vdvd" =>
    /\ place["parent"] \in 1..8 /\ place["writer"] \in 0..5
    /\ place["child"] \in 0..5 /\ place["reader"] \in 0..6
    /\ place["parent"] <= 2 => place["child"] = 0
    /\ place["parent"] \in 3..7 => place["child"] > 0
    /\ place["writer"] > 0 <=> place["parent"] \in 5..8 /\ place["child"] > 0
    /\ place["reader"] > 0 <=> place["child"] \in 3..5
    /\ place["parent"] \in 2..7 /\ place["child"] <= 4 => fifo
    /\ place["parent"] \in 7..8 => place["writer"] \in {0, 5}
    /\ place["child"] \in 4..5 => place["reader"] = 6
    /\ place["reader"] >= 3 => place["writer"] >= 2
    /\ place["writer"] >= 3 => place["reader"] >= 2
    /\ place["parent"] \in 4..8 /\ place["child"] > 0 => "parent" \in handling
    /\ place["child"] >= 2 => "child" \in handling
    /\ "child" \in killed => place["child"] = 1
    /\ "reader" \in ends <=> place["reader"] \in 2..5

\* The exercise's first program: the FIFO is there from mkfifo on, or both
\* opens fail; the child is signalled when the writer is done.
BvnInv ==
  version = "bvn" =>
    /\ place["parent"] \in 1..6 /\ place["writer"] \in 0..6
    /\ place["child"] \in 0..3 /\ place["reader"] \in 0..6
    /\ place["parent"] = 1 => place["child"] = 0
    /\ place["child"] = 0 => place["parent"] \in {1, 6} /\ place["writer"] = 0
    /\ place["child"] <= 1 => place["reader"] = 0
    /\ place["child"] = 2 => place["reader"] > 0
    /\ place["child"] = 3 => place["reader"] \in {0, 6}
    /\ place["parent"] <= 4 => place["writer"] = 0
    /\ place["parent"] = 5 => place["writer"] > 0
    /\ place["parent"] = 6 => place["writer"] \in {0, 6}
    /\ place["parent"] \in 3..5 \/ place["writer"] > 0 => "parent" \in handling
    /\ ~fifo => /\ ends = {} /\ met = {}
                /\ place["writer"] \in {0, 1, 6} /\ place["reader"] \in {0, 1, 6}
    /\ "child" \in waiting \/ "child" \in killed => place["writer"] = 6 /\ fifo
    /\ "reader" \in ends <=> place["reader"] \in 2..4 /\ "child" \notin killed
    /\ place["reader"] \in 3..5 => place["writer"] >= 2
    /\ place["writer"] \in 3..6 /\ fifo => place["reader"] >= 2

\* What else there is to say about types.
KindInv ==
  /\ fifo \in BOOLEAN /\ overlap \in BOOLEAN
  /\ got \in {"nothing", "message", "end"}
  /\ \A S \in {handling, waiting, heard, killed} : S \subseteq Processes

FifoInv == KindInv /\ RelatedInv /\ NamedInv /\ MeetingInv /\ VdvdInv /\ BvnInv

-----------------------------------------------------------------------------
(* Where a thread of each program is when it makes a call.                 *)

\* Partners, as positions in the tables.
LEMMA Partners ==
  /\ Actors = {"parent", "writer", "child", "reader"} /\ Processes = {"parent", "child"}
  /\ Other["parent"] = "child" /\ Other["child"] = "parent"
  /\ Other["writer"] = "reader" /\ Other["reader"] = "writer"
  /\ ProcessOf["parent"] = "parent" /\ ProcessOf["writer"] = "parent"
  /\ ProcessOf["child"] = "child" /\ ProcessOf["reader"] = "child"
  /\ ThreadOf["parent"] = "writer" /\ ThreadOf["child"] = "reader"
BY DEF Actors, Processes, Other, ProcessOf, ThreadOf

\* The calls of 2_related_pipe.
LEMMA RelatedAt ==
  ASSUME version = "related_pipe", place \in [Actors -> Nat]
  PROVE  /\ End("parent") = 8 /\ End("child") = 4
         /\ \A p \in Processes : Running(p) <=> place[p] \in 1..(End(p) - 1) /\ p \notin killed
         /\ \A a \in Actors : \A call : At(a, call) =>
              /\ a \in Processes /\ Running(a) /\ After(a) = place[a] + 1
              /\ a = "parent" => \/ place[a] = 1 /\ call = "fork"
                                 \/ place[a] = 2 /\ call = "signal"
                                 \/ place[a] \in 3..5 /\ call = "write"
                                 \/ place[a] = 6 /\ call = "close"
                                 \/ place[a] = 7 /\ call = "pause"
              /\ a = "child" => \/ place[a] = 1 /\ call = "close_copy"
                                \/ place[a] = 2 /\ call = "read"
                                \/ place[a] = 3 /\ call = "exit"
<1>1. /\ Code[version]["parent"] =
           <<"fork", "signal", "write", "write", "write", "close", "pause">>
      /\ Code[version]["child"] = <<"close_copy", "read", "exit">>
      /\ Code[version]["writer"] = <<>> /\ Code[version]["reader"] = <<>>
  BY DEF Code, RelatedPipe
<1>2. End("parent") = 8 /\ End("child") = 4
  BY <1>1 DEF End
<1>3. ASSUME NEW a \in Actors, NEW call, At(a, call)
      PROVE  /\ a \in Processes /\ Running(a) /\ After(a) = place[a] + 1
             /\ a = "parent" => \/ place[a] = 1 /\ call = "fork"
                                \/ place[a] = 2 /\ call = "signal"
                                \/ place[a] \in 3..5 /\ call = "write"
                                \/ place[a] = 6 /\ call = "close"
                                \/ place[a] = 7 /\ call = "pause"
             /\ a = "child" => \/ place[a] = 1 /\ call = "close_copy"
                               \/ place[a] = 2 /\ call = "read"
                               \/ place[a] = 3 /\ call = "exit"
  <2>1. /\ Running(ProcessOf[a]) /\ place[a] \in DOMAIN Code[version][a]
        /\ Code[version][a][place[a]] = call
    BY <1>3 DEF At
  <2>2. a = "parent" \/ a = "child"
    BY <1>1, <2>1, Partners
  <2>3. CASE a = "parent"
    <3>1. place[a] \in 1..7 /\ Code[version]["parent"][place[a]] = call
      BY <1>1, <2>1, <2>3
    <3> QED BY <1>1, <2>1, <2>3, <3>1, Partners DEF After
  <2>4. CASE a = "child"
    <3>1. place[a] \in 1..3 /\ Code[version]["child"][place[a]] = call
      BY <1>1, <2>1, <2>4
    <3> QED BY <1>1, <2>1, <2>4, <3>1, Partners DEF After
  <2> QED BY <2>2, <2>3, <2>4
<1> QED BY <1>2, <1>3 DEF Running

\* The calls of 3_named_pipe.
LEMMA NamedAt ==
  ASSUME version = "named_pipe", place \in [Actors -> Nat]
  PROVE  /\ End("parent") = 7 /\ End("child") = 6
         /\ \A p \in Processes : Running(p) <=> place[p] \in 1..(End(p) - 1) /\ p \notin killed
         /\ \A a \in Actors : \A call : At(a, call) =>
              /\ a \in Processes /\ Running(a)
              /\ After(a) = IF place[a] = End(a) - 1 THEN 2 ELSE place[a] + 1
              /\ a = "parent" => \/ place[a] = 1 /\ call = "mkfifo"
                                 \/ place[a] = 2 /\ call = "type"
                                 \/ place[a] = 3 /\ call = "open"
                                 \/ place[a] = 4 /\ call = "opened"
                                 \/ place[a] = 5 /\ call = "write"
                                 \/ place[a] = 6 /\ call = "close"
              /\ a = "child" => \/ place[a] = 1 /\ call = "mkfifo"
                                \/ place[a] = 2 /\ call = "open"
                                \/ place[a] = 3 /\ call = "opened"
                                \/ place[a] = 4 /\ call = "read"
                                \/ place[a] = 5 /\ call = "close"
<1>1. /\ Code[version]["parent"] = <<"mkfifo", "type", "open", "opened", "write", "close">>
      /\ Code[version]["child"] = <<"mkfifo", "open", "opened", "read", "close">>
      /\ Code[version]["writer"] = <<>>
      /\ Code[version]["reader"] = <<>>
  BY DEF Code, NamedPipe
<1>2. End("parent") = 7 /\ End("child") = 6
  BY <1>1 DEF End
<1>3. ASSUME NEW a \in Actors, NEW call, At(a, call)
      PROVE  /\ a \in Processes /\ Running(a)
             /\ After(a) = IF place[a] = End(a) - 1 THEN 2 ELSE place[a] + 1
             /\ a = "parent" => \/ place[a] = 1 /\ call = "mkfifo"
                                \/ place[a] = 2 /\ call = "type"
                                \/ place[a] = 3 /\ call = "open"
                                \/ place[a] = 4 /\ call = "opened"
                                \/ place[a] = 5 /\ call = "write"
                                \/ place[a] = 6 /\ call = "close"
             /\ a = "child" => \/ place[a] = 1 /\ call = "mkfifo"
                               \/ place[a] = 2 /\ call = "open"
                               \/ place[a] = 3 /\ call = "opened"
                               \/ place[a] = 4 /\ call = "read"
                               \/ place[a] = 5 /\ call = "close"
  <2>1. /\ Running(ProcessOf[a]) /\ place[a] \in DOMAIN Code[version][a]
        /\ Code[version][a][place[a]] = call
    BY <1>3 DEF At
  <2>2. a = "parent" \/ a = "child"
    BY <1>1, <2>1, Partners
  <2>3. CASE a = "parent"
    <3>1. place[a] \in 1..6 /\ Code[version]["parent"][place[a]] = call
      BY <1>1, <2>1, <2>3
    <3> QED BY <1>1, <1>2, <2>1, <2>3, <3>1, Partners DEF After
  <2>4. CASE a = "child"
    <3>1. place[a] \in 1..5 /\ Code[version]["child"][place[a]] = call
      BY <1>1, <2>1, <2>4
    <3> QED BY <1>1, <1>2, <2>1, <2>4, <3>1, Partners DEF After
  <2> QED BY <2>2, <2>3, <2>4
<1> QED BY <1>2, <1>3 DEF Running

\* The calls of 4_bvn/vdvd.
LEMMA VdvdAt ==
  ASSUME version = "vdvd", place \in [Actors -> Nat]
  PROVE  /\ End("parent") = 8 /\ End("writer") = 5 /\ End("child") = 5 /\ End("reader") = 6
         /\ \A p \in Processes : Running(p) <=> place[p] \in 1..(End(p) - 1) /\ p \notin killed
         /\ \A a \in Actors : \A call : At(a, call) =>
              /\ Running(ProcessOf[a])
              /\ After(a) = place[a] + 1
              /\ a = "parent" => \/ place[a] = 1 /\ call = "mkfifo"
                                 \/ place[a] = 2 /\ call = "fork"
                                 \/ place[a] = 3 /\ call = "signal"
                                 \/ place[a] = 4 /\ call = "create"
                                 \/ place[a] = 5 /\ call = "kill"
                                 \/ place[a] = 6 /\ call = "join"
                                 \/ place[a] = 7 /\ call = "unlink"
              /\ a = "writer" => \/ place[a] = 1 /\ call = "open"
                                 \/ place[a] = 2 /\ call = "opened"
                                 \/ place[a] = 3 /\ call = "write"
                                 \/ place[a] = 4 /\ call = "close"
              /\ a = "child" => \/ place[a] = 1 /\ call = "signal"
                                \/ place[a] = 2 /\ call = "create"
                                \/ place[a] = 3 /\ call = "join"
                                \/ place[a] = 4 /\ call = "unlink"
              /\ a = "reader" => \/ place[a] = 1 /\ call = "open"
                                 \/ place[a] = 2 /\ call = "opened"
                                 \/ place[a] = 3 /\ call = "read"
                                 \/ place[a] = 4 /\ call = "kill"
                                 \/ place[a] = 5 /\ call = "close"
<1>1. /\ Code[version]["parent"] = <<"mkfifo", "fork", "signal", "create", "kill", "join", "unlink">>
      /\ Code[version]["writer"] = <<"open", "opened", "write", "close">>
      /\ Code[version]["child"] = <<"signal", "create", "join", "unlink">>
      /\ Code[version]["reader"] = <<"open", "opened", "read", "kill", "close">>
  BY DEF Code, Vdvd
<1>2. End("parent") = 8 /\ End("writer") = 5 /\ End("child") = 5 /\ End("reader") = 6
  BY <1>1 DEF End
<1>3. ASSUME NEW a \in Actors, NEW call, At(a, call)
      PROVE  /\ Running(ProcessOf[a])
             /\ After(a) = place[a] + 1
             /\ a = "parent" => \/ place[a] = 1 /\ call = "mkfifo"
                                \/ place[a] = 2 /\ call = "fork"
                                \/ place[a] = 3 /\ call = "signal"
                                \/ place[a] = 4 /\ call = "create"
                                \/ place[a] = 5 /\ call = "kill"
                                \/ place[a] = 6 /\ call = "join"
                                \/ place[a] = 7 /\ call = "unlink"
             /\ a = "writer" => \/ place[a] = 1 /\ call = "open"
                                \/ place[a] = 2 /\ call = "opened"
                                \/ place[a] = 3 /\ call = "write"
                                \/ place[a] = 4 /\ call = "close"
             /\ a = "child" => \/ place[a] = 1 /\ call = "signal"
                               \/ place[a] = 2 /\ call = "create"
                               \/ place[a] = 3 /\ call = "join"
                               \/ place[a] = 4 /\ call = "unlink"
             /\ a = "reader" => \/ place[a] = 1 /\ call = "open"
                                \/ place[a] = 2 /\ call = "opened"
                                \/ place[a] = 3 /\ call = "read"
                                \/ place[a] = 4 /\ call = "kill"
                                \/ place[a] = 5 /\ call = "close"
  <2>1. /\ Running(ProcessOf[a]) /\ place[a] \in DOMAIN Code[version][a]
        /\ Code[version][a][place[a]] = call
    BY <1>3 DEF At
  <2>2. CASE a = "parent"
    <3>1. place[a] \in 1..7 /\ Code[version]["parent"][place[a]] = call
      BY <1>1, <2>1, <2>2
    <3> QED BY <1>1, <1>2, <2>1, <2>2, <3>1, Partners DEF After
  <2>3. CASE a = "writer"
    <3>1. place[a] \in 1..4 /\ Code[version]["writer"][place[a]] = call
      BY <1>1, <2>1, <2>3
    <3> QED BY <1>1, <1>2, <2>1, <2>3, <3>1, Partners DEF After
  <2>4. CASE a = "child"
    <3>1. place[a] \in 1..4 /\ Code[version]["child"][place[a]] = call
      BY <1>1, <2>1, <2>4
    <3> QED BY <1>1, <1>2, <2>1, <2>4, <3>1, Partners DEF After
  <2>5. CASE a = "reader"
    <3>1. place[a] \in 1..5 /\ Code[version]["reader"][place[a]] = call
      BY <1>1, <2>1, <2>5
    <3> QED BY <1>1, <1>2, <2>1, <2>5, <3>1, Partners DEF After
  <2> QED BY <2>2, <2>3, <2>4, <2>5, Partners
<1> QED BY <1>2, <1>3 DEF Running

\* The calls of 4_bvn.
LEMMA BvnAt ==
  ASSUME version = "bvn", place \in [Actors -> Nat]
  PROVE  /\ End("parent") = 6 /\ End("writer") = 6 /\ End("child") = 3 /\ End("reader") = 6
         /\ \A p \in Processes : Running(p) <=> place[p] \in 1..(End(p) - 1) /\ p \notin killed
         /\ \A a \in Actors : \A call : At(a, call) =>
              /\ Running(ProcessOf[a])
              /\ After(a) = place[a] + 1
              /\ a = "parent" => \/ place[a] = 1 /\ call = "fork"
                                 \/ place[a] = 2 /\ call = "signal"
                                 \/ place[a] = 3 /\ call = "mkfifo"
                                 \/ place[a] = 4 /\ call = "create"
                                 \/ place[a] = 5 /\ call = "join"
              /\ a = "writer" => \/ place[a] = 1 /\ call = "open"
                                 \/ place[a] = 2 /\ call = "opened"
                                 \/ place[a] = 3 /\ call = "write"
                                 \/ place[a] = 4 /\ call = "close"
                                 \/ place[a] = 5 /\ call = "kill"
              /\ a = "child" => \/ place[a] = 1 /\ call = "create"
                                \/ place[a] = 2 /\ call = "join"
              /\ a = "reader" => \/ place[a] = 1 /\ call = "open"
                                 \/ place[a] = 2 /\ call = "opened"
                                 \/ place[a] = 3 /\ call = "read"
                                 \/ place[a] = 4 /\ call = "close"
                                 \/ place[a] = 5 /\ call = "kill"
<1>1. /\ Code[version]["parent"] = <<"fork", "signal", "mkfifo", "create", "join">>
      /\ Code[version]["writer"] = <<"open", "opened", "write", "close", "kill">>
      /\ Code[version]["child"] = <<"create", "join">>
      /\ Code[version]["reader"] = <<"open", "opened", "read", "close", "kill">>
  BY DEF Code, Bvn
<1>2. End("parent") = 6 /\ End("writer") = 6 /\ End("child") = 3 /\ End("reader") = 6
  BY <1>1 DEF End
<1>3. ASSUME NEW a \in Actors, NEW call, At(a, call)
      PROVE  /\ Running(ProcessOf[a])
             /\ After(a) = place[a] + 1
             /\ a = "parent" => \/ place[a] = 1 /\ call = "fork"
                                \/ place[a] = 2 /\ call = "signal"
                                \/ place[a] = 3 /\ call = "mkfifo"
                                \/ place[a] = 4 /\ call = "create"
                                \/ place[a] = 5 /\ call = "join"
             /\ a = "writer" => \/ place[a] = 1 /\ call = "open"
                                \/ place[a] = 2 /\ call = "opened"
                                \/ place[a] = 3 /\ call = "write"
                                \/ place[a] = 4 /\ call = "close"
                                \/ place[a] = 5 /\ call = "kill"
             /\ a = "child" => \/ place[a] = 1 /\ call = "create"
                               \/ place[a] = 2 /\ call = "join"
             /\ a = "reader" => \/ place[a] = 1 /\ call = "open"
                                \/ place[a] = 2 /\ call = "opened"
                                \/ place[a] = 3 /\ call = "read"
                                \/ place[a] = 4 /\ call = "close"
                                \/ place[a] = 5 /\ call = "kill"
  <2>1. /\ Running(ProcessOf[a]) /\ place[a] \in DOMAIN Code[version][a]
        /\ Code[version][a][place[a]] = call
    BY <1>3 DEF At
  <2>2. CASE a = "parent"
    <3>1. place[a] \in 1..5 /\ Code[version]["parent"][place[a]] = call
      BY <1>1, <2>1, <2>2
    <3> QED BY <1>1, <1>2, <2>1, <2>2, <3>1, Partners DEF After
  <2>3. CASE a = "writer"
    <3>1. place[a] \in 1..5 /\ Code[version]["writer"][place[a]] = call
      BY <1>1, <2>1, <2>3
    <3> QED BY <1>1, <1>2, <2>1, <2>3, <3>1, Partners DEF After
  <2>4. CASE a = "child"
    <3>1. place[a] \in 1..2 /\ Code[version]["child"][place[a]] = call
      BY <1>1, <2>1, <2>4
    <3> QED BY <1>1, <1>2, <2>1, <2>4, <3>1, Partners DEF After
  <2>5. CASE a = "reader"
    <3>1. place[a] \in 1..5 /\ Code[version]["reader"][place[a]] = call
      BY <1>1, <2>1, <2>5
    <3> QED BY <1>1, <1>2, <2>1, <2>5, <3>1, Partners DEF After
  <2> QED BY <2>2, <2>3, <2>4, <2>5, Partners
<1> QED BY <1>2, <1>3 DEF Running

-----------------------------------------------------------------------------
(* The pipe, and the FIFO that is opened anew for each message.            *)

\* A step of 2_related_pipe.
LEMMA RelatedStep ==
  ASSUME RelatedInv, version = "related_pipe", FifoNext
  PROVE  RelatedInv'
<1> USE Partners DEF Advance, GiveUp, fifoVars, signalVars, countVars
<1>1. place \in [Actors -> Nat]
  BY DEF RelatedInv
<1>2. ASSUME NEW a \in Actors, Write(a) PROVE RelatedInv'
  <2>1. a = "parent" /\ place[a] \in 3..5 /\ place' = [place EXCEPT ![a] = place[a] + 1]
    BY <1>1, <1>2, RelatedAt DEF Write, RelatedInv
  <2> QED BY <1>2, <2>1 DEF Write, RelatedInv
<1>3. ASSUME NEW a \in Actors, Read(a) PROVE RelatedInv'
  <2>1. a = "child" /\ place[a] = 2 /\ (data = 0 => place' = [place EXCEPT ![a] = 3])
    BY <1>1, <1>3, RelatedAt DEF Read
  <2>2. data = 0 => place["parent"] = 7
    BY <1>3, <2>1 DEF Read, RelatedInv
  <2> QED BY <1>3, <2>1, <2>2 DEF Read, RelatedInv
<1>4. ASSUME NEW a \in Actors, Close(a) PROVE RelatedInv'
  <2>1. At(a, "close") /\ place' = [place EXCEPT ![a] = After(a)]
    BY <1>4 DEF Close
  <2>2. a = "parent" /\ place[a] = 6 /\ After(a) = 7
    BY <1>1, <2>1, RelatedAt
  <2>3. "child" \in ends' /\ data' = data
    BY <1>4, <2>1, <2>2 DEF Close, RelatedInv
  <2> QED BY <1>4, <2>1, <2>2 DEF Close, RelatedInv
<1>5. ASSUME NEW p \in Processes, Signal(p) PROVE RelatedInv'
  <2>1. At(p, "signal") /\ place' = [place EXCEPT ![p] = After(p)]
    BY <1>5 DEF Signal
  <2>2. p = "parent" /\ place[p] = 2 /\ After(p) = 3
    BY <1>1, <2>1, RelatedAt
  <2> QED BY <1>5, <2>1, <2>2 DEF Signal, RelatedInv
<1>6. ASSUME Fork PROVE RelatedInv'
  <2>1. At("parent", "fork") /\ place' = [place EXCEPT !["parent"] = place["parent"] + 1, !["child"] = 1]
    BY <1>6 DEF Fork
  <2>2. place["parent"] = 1
    BY <1>1, <2>1, RelatedAt
  <2> QED BY <1>6, <2>1, <2>2 DEF Fork, RelatedInv
<1>7. ASSUME ForkFails PROVE RelatedInv'
  <2>1. At("parent", "fork") /\ place' = [place EXCEPT !["parent"] = End("parent")]
    BY <1>7 DEF ForkFails
  <2>2. place["parent"] = 1 /\ End("parent") = 8
    BY <1>1, <2>1, RelatedAt
  <2> QED BY <1>7, <2>1, <2>2 DEF ForkFails, RelatedInv
<1>8. ASSUME CloseCopy("child") PROVE RelatedInv'
  <2>1. At("child", "close_copy") /\ place' = [place EXCEPT !["child"] = After("child")]
    BY <1>8 DEF CloseCopy
  <2>2. place["child"] = 1 /\ After("child") = 2
    BY <1>1, <2>1, RelatedAt
  <2> QED BY <1>8, <2>1, <2>2 DEF CloseCopy, RelatedInv
<1>9. ASSUME Exit("child") PROVE RelatedInv'
  <2>1. At("child", "exit") /\ place' = [place EXCEPT !["child"] = After("child")]
    BY <1>9 DEF Exit
  <2>2. place["child"] = 3 /\ After("child") = 4
    BY <1>1, <2>1, RelatedAt
  <2> QED BY <1>9, <2>1, <2>2 DEF Exit, RelatedInv
<1>10. ASSUME NEW p \in Processes, DeliverSignal(p) PROVE RelatedInv'
  <2>1. p \in handling
    BY <1>10 DEF DeliverSignal, RelatedInv
  <2> QED BY <1>10, <2>1 DEF DeliverSignal, RelatedInv
<1>11. ASSUME NEW a \in Actors
       PROVE  ~(\/ Open(a) \/ OpenFails(a) \/ Opened(a) \/ Kill(a) \/ CreateThread(a) \/ JoinThread(a)
                \/ Mkfifo(a) \/ Unlink(a) \/ CreateThreadFails(a) \/ MkfifoFails \/ Type)
  BY <1>1, RelatedAt DEF Open, OpenFails, Opened, Kill, CreateThread, JoinThread, Mkfifo, Unlink,
     CreateThreadFails, MkfifoFails, Type
<1> QED BY <1>2, <1>3, <1>4, <1>5, <1>6, <1>7, <1>8, <1>9, <1>10, <1>11 DEF FifoNext, Actor

\* A step of 3_named_pipe.
LEMMA NamedStep ==
  ASSUME NamedInv, KindInv, version = "named_pipe", FifoNext
  PROVE  NamedInv'
<1> USE Partners DEF Advance, GiveUp, fifoVars, signalVars, countVars
<1>1. place \in [Actors -> Nat] /\ overlap \in BOOLEAN
  BY DEF NamedInv, KindInv
<1>2. ASSUME NEW a \in Actors, Open(a) PROVE NamedInv'
  <2>1. At(a, "open") /\ place' = [place EXCEPT ![a] = After(a)]
    BY <1>2 DEF Open
  <2>2. /\ \/ a = "parent" /\ place[a] = 3 /\ After(a) = 4
           \/ a = "child" /\ place[a] = 2 /\ After(a) = 3
        /\ a \notin killed
    BY <1>1, <2>1, NamedAt
  <2>3. /\ ends' = ends \cup {a} /\ met' = IF Other[a] \in ends THEN {a, Other[a]} ELSE met
        /\ ~overlap' => ~overlap /\ Other[a] \notin met
        /\ UNCHANGED <<version, fifo, data, written, printed, waiting, killed>>
    BY <1>1, <1>2 DEF Open
  <2>4. CASE a = "parent"
    BY <2>1, <2>2, <2>3, <2>4 DEF NamedInv
  <2>5. CASE a = "child"
    BY <2>1, <2>2, <2>3, <2>5 DEF NamedInv
  <2> QED BY <2>2, <2>4, <2>5
<1>3. ASSUME NEW a \in Actors, Opened(a) PROVE NamedInv'
  <2>1. At(a, "opened") /\ place' = [place EXCEPT ![a] = After(a)]
    BY <1>3 DEF Opened
  <2>2. \/ a = "parent" /\ place[a] = 4 /\ After(a) = 5
        \/ a = "child" /\ place[a] = 3 /\ After(a) = 4
    BY <1>1, <2>1, NamedAt
  <2> QED BY <1>3, <2>1, <2>2 DEF Opened, NamedInv
<1>4. ASSUME NEW a \in Actors, Write(a) PROVE NamedInv'
  <2>1. /\ a = "parent" /\ place[a] = 5
        /\ "child" \in ends => place' = [place EXCEPT ![a] = 6]
    BY <1>1, <1>4, NamedAt DEF Write
  <2> QED BY <1>4, <2>1 DEF Write, NamedInv
<1>5. ASSUME NEW a \in Actors, Read(a) PROVE NamedInv'
  <2>1. a = "child" /\ place[a] = 4 /\ place' = [place EXCEPT ![a] = 5]
    BY <1>1, <1>5, NamedAt DEF Read
  <2>2. ~overlap => data = 1
    BY <1>5, <2>1 DEF Read, NamedInv
  <2> QED BY <1>5, <2>1, <2>2 DEF Read, NamedInv
<1>6. ASSUME NEW a \in Actors, Close(a) PROVE NamedInv'
  <2>1. At(a, "close") /\ place' = [place EXCEPT ![a] = After(a)]
    BY <1>6 DEF Close
  <2>2. \/ a = "parent" /\ place[a] = 6 /\ After(a) = 2
        \/ a = "child" /\ place[a] = 5 /\ After(a) = 2
    BY <1>1, <2>1, NamedAt
  <2> QED BY <1>6, <2>1, <2>2 DEF Close, NamedInv
<1>7. ASSUME NEW p \in Processes, Mkfifo(p) PROVE NamedInv'
  <2>1. At(p, "mkfifo") /\ place' = [place EXCEPT ![p] = After(p)]
    BY <1>7 DEF Mkfifo
  <2>2. place[p] = 1 /\ After(p) = 2
    BY <1>1, <2>1, NamedAt
  <2> QED BY <1>7, <2>1, <2>2 DEF Mkfifo, NamedInv
<1>8. ASSUME Type PROVE NamedInv'
  <2>1. At("parent", "type") /\ place' = [place EXCEPT !["parent"] = After("parent")]
    BY <1>8 DEF Type
  <2>2. place["parent"] = 2 /\ After("parent") = 3
    BY <1>1, <2>1, NamedAt
  <2> QED BY <1>8, <2>1, <2>2 DEF Type, NamedInv
<1>9. ASSUME NEW a \in Actors PROVE ~OpenFails(a)
  <2>1. ASSUME OpenFails(a) PROVE FALSE
    <3>1. place["parent"] > 1 \/ place["child"] > 1
      BY <1>1, <2>1, NamedAt DEF OpenFails
    <3> QED BY <2>1, <3>1 DEF OpenFails, NamedInv
  <2> QED BY <2>1
<1>10. ASSUME NEW a \in Actors
       PROVE  ~(\/ Kill(a) \/ CreateThread(a) \/ JoinThread(a) \/ Unlink(a) \/ Signal(a) \/ Fork \/ ForkFails
                \/ CloseCopy(a) \/ Exit(a) \/ CreateThreadFails(a) \/ MkfifoFails)
  BY <1>1, NamedAt DEF Kill, CreateThread, JoinThread, Unlink, Signal, Fork, ForkFails, CloseCopy, Exit,
     CreateThreadFails, MkfifoFails
<1>11. ASSUME NEW p \in Processes PROVE ~DeliverSignal(p)
  BY DEF DeliverSignal, NamedInv
<1> QED BY <1>2, <1>3, <1>4, <1>5, <1>6, <1>7, <1>8, <1>9, <1>10, <1>11 DEF FifoNext, Actor

-----------------------------------------------------------------------------
(* The exercise.                                                           *)

\* A step of the exercise's variant vdvd.
LEMMA VdvdStep ==
  ASSUME KindInv, MeetingInv, VdvdInv, version = "vdvd", FifoNext
  PROVE  MeetingInv' /\ VdvdInv'
<1> USE Partners DEF Advance, GiveUp, fifoVars, signalVars, countVars
<1>1. place \in [Actors -> Nat]
  BY DEF MeetingInv
<1>2. ASSUME NEW a \in Actors, Open(a) PROVE MeetingInv' /\ VdvdInv'
  <2>1. At(a, "open") /\ place' = [place EXCEPT ![a] = After(a)]
    BY <1>2 DEF Open
  <2>2. /\ \/ a = "writer" /\ place[a] = 1 /\ After(a) = 2
           \/ a = "reader" /\ place[a] = 1 /\ After(a) = 2
        /\ ProcessOf[a] \notin killed
    BY <1>1, <2>1, VdvdAt
  <2>3. MeetingInv' BY <1>2, <2>1, <2>2 DEF Open, MeetingInv, VdvdInv
  <2>4. VdvdInv' BY <1>2, <2>1, <2>2 DEF Open, VdvdInv, MeetingInv
  <2> QED BY <2>3, <2>4
<1>3. ASSUME NEW a \in Actors, Opened(a) PROVE MeetingInv' /\ VdvdInv'
  <2>1. At(a, "opened") /\ place' = [place EXCEPT ![a] = After(a)]
    BY <1>3 DEF Opened
  <2>2. /\ \/ a = "writer" /\ place[a] = 2 /\ After(a) = 3
           \/ a = "reader" /\ place[a] = 2 /\ After(a) = 3
        /\ ProcessOf[a] \notin killed
    BY <1>1, <2>1, VdvdAt
  <2>3. MeetingInv' BY <1>3, <2>1, <2>2 DEF Opened, MeetingInv, VdvdInv
  <2>4. VdvdInv' BY <1>3, <2>1, <2>2 DEF Opened, VdvdInv, MeetingInv
  <2> QED BY <2>3, <2>4
<1>4. ASSUME NEW a \in Actors, Read(a) PROVE MeetingInv' /\ VdvdInv'
  <2>1. At(a, "read") /\ place' = [place EXCEPT ![a] = After(a)]
    BY <1>4 DEF Read
  <2>2. /\ a = "reader" /\ place[a] = 3 /\ After(a) = 4
        /\ "child" \notin killed
    BY <1>1, <2>1, VdvdAt
  <2>3. data > 0 /\ place["writer"] >= 4
    BY <1>4, <2>1, <2>2 DEF Read, MeetingInv, VdvdInv
  <2>4. MeetingInv' BY <1>4, <2>1, <2>2, <2>3 DEF Read, MeetingInv, VdvdInv
  <2>5. VdvdInv' BY <1>4, <2>1, <2>2, <2>3 DEF Read, VdvdInv, MeetingInv
  <2> QED BY <2>4, <2>5
<1>5. ASSUME NEW a \in Actors, Close(a) PROVE MeetingInv' /\ VdvdInv'
  <2>1. At(a, "close") /\ place' = [place EXCEPT ![a] = After(a)]
    BY <1>5 DEF Close
  <2>2. /\ \/ a = "writer" /\ place[a] = 4 /\ After(a) = 5
           \/ a = "reader" /\ place[a] = 5 /\ After(a) = 6
        /\ ProcessOf[a] \notin killed
    BY <1>1, <2>1, VdvdAt
  <2>3. MeetingInv' BY <1>5, <2>1, <2>2 DEF Close, MeetingInv, VdvdInv
  <2>4. VdvdInv' BY <1>5, <2>1, <2>2 DEF Close, VdvdInv, MeetingInv
  <2> QED BY <2>3, <2>4
<1>6. ASSUME NEW a \in Actors, Kill(a) PROVE MeetingInv' /\ VdvdInv'
  <2>1. At(a, "kill") /\ place' = [place EXCEPT ![a] = After(a)]
    BY <1>6 DEF Kill
  <2>2. \/ a = "parent" /\ place[a] = 5 /\ After(a) = 6
        \/ a = "reader" /\ place[a] = 4 /\ After(a) = 5
    BY <1>1, <2>1, VdvdAt
  <2>3. MeetingInv' BY <1>6, <2>1, <2>2 DEF Kill, MeetingInv, VdvdInv
  <2>4. VdvdInv' BY <1>6, <2>1, <2>2 DEF Kill, VdvdInv, MeetingInv
  <2> QED BY <2>3, <2>4
<1>7. ASSUME NEW p \in Processes, CreateThread(p) PROVE MeetingInv' /\ VdvdInv'
  <2>1. At(p, "create") /\ place' = [place EXCEPT ![p] = place[p] + 1, ![ThreadOf[p]] = 1]
    BY <1>7 DEF CreateThread
  <2>2. \/ p = "parent" /\ place[p] = 4 /\ p \notin killed
        \/ p = "child" /\ place[p] = 2 /\ p \notin killed
    BY <1>1, <2>1, VdvdAt
  <2>3. MeetingInv' BY <1>7, <2>1, <2>2 DEF CreateThread, MeetingInv, VdvdInv
  <2>4. VdvdInv' BY <1>7, <2>1, <2>2 DEF CreateThread, VdvdInv, MeetingInv
  <2> QED BY <2>3, <2>4
<1>8. ASSUME NEW p \in Processes, JoinThread(p) PROVE MeetingInv' /\ VdvdInv'
  <2>1. At(p, "join") /\ place' = [place EXCEPT ![p] = After(p)] /\ place[ThreadOf[p]] = End(ThreadOf[p])
    BY <1>8 DEF JoinThread
  <2>2. \/ p = "parent" /\ place[p] = 6 /\ After(p) = 7 /\ place["writer"] = 5
        \/ p = "child" /\ place[p] = 3 /\ After(p) = 4 /\ place["reader"] = 6
    BY <1>1, <2>1, VdvdAt
  <2>3. MeetingInv' BY <1>8, <2>1, <2>2 DEF JoinThread, MeetingInv, VdvdInv
  <2>4. VdvdInv' BY <1>8, <2>1, <2>2 DEF JoinThread, VdvdInv, MeetingInv
  <2> QED BY <2>3, <2>4
<1>9. ASSUME NEW p \in Processes, Mkfifo(p) PROVE MeetingInv' /\ VdvdInv'
  <2>1. At(p, "mkfifo") /\ place' = [place EXCEPT ![p] = After(p)]
    BY <1>9 DEF Mkfifo
  <2>2. p = "parent" /\ place[p] = 1 /\ After(p) = 2
    BY <1>1, <2>1, VdvdAt
  <2>3. MeetingInv' BY <1>9, <2>1, <2>2 DEF Mkfifo, MeetingInv, VdvdInv
  <2>4. VdvdInv' BY <1>9, <2>1, <2>2 DEF Mkfifo, VdvdInv, MeetingInv
  <2> QED BY <2>3, <2>4
<1>10. ASSUME NEW p \in Processes, Signal(p) PROVE MeetingInv' /\ VdvdInv'
  <2>1. At(p, "signal") /\ place' = [place EXCEPT ![p] = After(p)]
    BY <1>10 DEF Signal
  <2>2. \/ p = "parent" /\ place[p] = 3 /\ After(p) = 4
        \/ p = "child" /\ place[p] = 1 /\ After(p) = 2 /\ p \notin killed
    BY <1>1, <2>1, VdvdAt
  <2>3. MeetingInv' BY <1>10, <2>1, <2>2 DEF Signal, MeetingInv, VdvdInv
  <2>4. VdvdInv' BY <1>10, <2>1, <2>2 DEF Signal, VdvdInv, MeetingInv
  <2> QED BY <2>3, <2>4
<1>11. ASSUME NEW p \in Processes, Unlink(p) PROVE MeetingInv' /\ VdvdInv'
  <2>1. At(p, "unlink") /\ place' = [place EXCEPT ![p] = After(p)]
    BY <1>11 DEF Unlink
  <2>2. \/ p = "parent" /\ place[p] = 7 /\ After(p) = 8
        \/ p = "child" /\ place[p] = 4 /\ After(p) = 5
    BY <1>1, <2>1, VdvdAt
  <2>3. MeetingInv' BY <1>11, <2>1, <2>2 DEF Unlink, MeetingInv, VdvdInv
  <2>4. VdvdInv' BY <1>11, <2>1, <2>2 DEF Unlink, VdvdInv, MeetingInv
  <2> QED BY <2>3, <2>4
<1>12. ASSUME Fork PROVE MeetingInv' /\ VdvdInv'
  <2>1. At("parent", "fork") /\ place' = [place EXCEPT !["parent"] = place["parent"] + 1, !["child"] = 1]
    BY <1>12 DEF Fork
  <2>2. place["parent"] = 2
    BY <1>1, <2>1, VdvdAt
  <2>3. MeetingInv' BY <1>12, <2>1, <2>2 DEF Fork, MeetingInv, VdvdInv
  <2>4. VdvdInv' BY <1>12, <2>1, <2>2 DEF Fork, VdvdInv, MeetingInv
  <2> QED BY <2>3, <2>4
<1>13. ASSUME ForkFails PROVE MeetingInv' /\ VdvdInv'
  <2>1. At("parent", "fork") /\ place' = [place EXCEPT !["parent"] = End("parent")]
    BY <1>13 DEF ForkFails
  <2>2. place["parent"] = 2 /\ End("parent") = 8
    BY <1>1, <2>1, VdvdAt
  <2>3. MeetingInv' BY <1>13, <2>1, <2>2 DEF ForkFails, MeetingInv, VdvdInv
  <2>4. VdvdInv' BY <1>13, <2>1, <2>2 DEF ForkFails, VdvdInv, MeetingInv
  <2> QED BY <2>3, <2>4
<1>14. ASSUME MkfifoFails PROVE MeetingInv' /\ VdvdInv'
  <2>1. At("parent", "mkfifo") /\ place' = [place EXCEPT !["parent"] = End("parent")]
    BY <1>14 DEF MkfifoFails
  <2>2. place["parent"] = 1 /\ End("parent") = 8
    BY <1>1, <2>1, VdvdAt
  <2>3. MeetingInv' BY <1>14, <2>1, <2>2 DEF MkfifoFails, MeetingInv, VdvdInv
  <2>4. VdvdInv' BY <1>14, <2>1, <2>2 DEF MkfifoFails, VdvdInv, MeetingInv
  <2> QED BY <2>3, <2>4
<1>15. ASSUME NEW a \in Actors, Write(a) PROVE MeetingInv' /\ VdvdInv'
  <2>1. a = "writer" /\ place[a] = 3 /\ After(a) = 4
    BY <1>1, <1>15, VdvdAt DEF Write
  <2>2. "reader" \in ends
    BY <2>1 DEF MeetingInv
  <2>3. place' = [place EXCEPT ![a] = After(a)] /\ data' = data + 1 /\ written' = written + 1
        /\ UNCHANGED <<version, ends, killed, fifo, met, got, printed, handling, waiting>>
    BY <1>15, <2>1, <2>2 DEF Write
  <2>4. MeetingInv' BY <2>1, <2>2, <2>3 DEF MeetingInv, VdvdInv
  <2>5. VdvdInv' BY <2>1, <2>2, <2>3 DEF VdvdInv, MeetingInv
  <2> QED BY <2>4, <2>5
<1>16. ASSUME NEW p \in Processes, DeliverSignal(p) PROVE MeetingInv' /\ VdvdInv'
  <2>1. CASE p \in handling
    <3>1. UNCHANGED <<version, place, ends, data, killed, fifo, met, got, written, printed, handling>>
          /\ waiting' = waiting \ {p}
      BY <1>16, <2>1 DEF DeliverSignal
    <3> QED BY <3>1 DEF MeetingInv, VdvdInv
  <2>2. CASE p \notin handling
    <3>1. /\ p = "child" /\ p \in waiting /\ p \notin killed
          /\ killed' = killed \cup {p} /\ ends' = ends \ {"reader"}
          /\ data' = IF ends' = {} THEN 0 ELSE data
          /\ UNCHANGED <<version, place, fifo, met, got, written, printed, handling>>
          /\ waiting' = waiting \ {p}
      BY <1>16, <2>2, VdvdAt, <1>1 DEF DeliverSignal, MeetingInv
    <3>2. place["child"] = 1 /\ place["reader"] = 0
      BY <1>16, <2>2, <3>1, <1>1, VdvdAt DEF DeliverSignal, VdvdInv
    <3>3. MeetingInv' BY <3>1, <3>2 DEF MeetingInv, VdvdInv
    <3>4. VdvdInv' BY <3>1, <3>2 DEF VdvdInv, MeetingInv
    <3> QED BY <3>3, <3>4
  <2> QED BY <2>1, <2>2
<1>17. ASSUME NEW a \in Actors PROVE ~OpenFails(a)
  <2> SUFFICES ASSUME OpenFails(a) PROVE FALSE
    OBVIOUS
  <2>1. (a = "writer" \/ a = "reader") /\ place[a] = 1
    BY <1>1, VdvdAt DEF OpenFails
  <2>2. fifo
    BY <1>1, <2>1, VdvdAt DEF OpenFails, VdvdInv
  <2> QED BY <2>2 DEF OpenFails
<1>18. ASSUME NEW a \in Actors PROVE ~(CloseCopy(a) \/ Exit(a) \/ CreateThreadFails(a) \/ Type)
  BY <1>1, VdvdAt DEF CloseCopy, Exit, CreateThreadFails, Type
<1> QED BY <1>2, <1>3, <1>4, <1>5, <1>6, <1>7, <1>8, <1>9, <1>10, <1>11, <1>12, <1>13,
     <1>14, <1>15, <1>16, <1>17, <1>18
     DEF FifoNext, Actor

\* A step of the exercise's first program.
LEMMA BvnStep ==
  ASSUME KindInv, MeetingInv, BvnInv, version = "bvn", FifoNext
  PROVE  MeetingInv' /\ BvnInv'
<1> USE Partners DEF Advance, GiveUp, fifoVars, signalVars, countVars
<1>1. place \in [Actors -> Nat]
  BY DEF MeetingInv
<1>2. ASSUME NEW a \in Actors, Open(a) PROVE MeetingInv' /\ BvnInv'
  <2>1. At(a, "open") /\ place' = [place EXCEPT ![a] = After(a)]
    BY <1>2 DEF Open
  <2>2. /\ \/ a = "writer" /\ place[a] = 1 /\ After(a) = 2
           \/ a = "reader" /\ place[a] = 1 /\ After(a) = 2
        /\ ProcessOf[a] \notin killed
    BY <1>1, <2>1, BvnAt
  <2>3. MeetingInv' BY <1>2, <2>1, <2>2 DEF Open, MeetingInv, BvnInv
  <2>4. BvnInv' BY <1>2, <2>1, <2>2 DEF Open, BvnInv, MeetingInv
  <2> QED BY <2>3, <2>4
<1>3. ASSUME NEW a \in Actors, Opened(a) PROVE MeetingInv' /\ BvnInv'
  <2>1. At(a, "opened") /\ place' = [place EXCEPT ![a] = After(a)]
    BY <1>3 DEF Opened
  <2>2. /\ \/ a = "writer" /\ place[a] = 2 /\ After(a) = 3
           \/ a = "reader" /\ place[a] = 2 /\ After(a) = 3
        /\ ProcessOf[a] \notin killed
    BY <1>1, <2>1, BvnAt
  <2>3. MeetingInv' BY <1>3, <2>1, <2>2 DEF Opened, MeetingInv, BvnInv
  <2>4. BvnInv' BY <1>3, <2>1, <2>2 DEF Opened, BvnInv, MeetingInv
  <2> QED BY <2>3, <2>4
<1>4. ASSUME NEW a \in Actors, OpenFails(a) PROVE MeetingInv' /\ BvnInv'
  <2>1. At(a, "open") /\ place' = [place EXCEPT ![a] = End(a)]
    BY <1>4 DEF OpenFails
  <2>2. \/ a = "writer" /\ place[a] = 1 /\ End(a) = 6
        \/ a = "reader" /\ place[a] = 1 /\ End(a) = 6
    BY <1>1, <2>1, BvnAt
  <2>3. MeetingInv' BY <1>4, <2>1, <2>2 DEF OpenFails, MeetingInv, BvnInv
  <2>4. BvnInv' BY <1>4, <2>1, <2>2 DEF OpenFails, BvnInv, MeetingInv
  <2> QED BY <2>3, <2>4
<1>5. ASSUME NEW a \in Actors, Read(a) PROVE MeetingInv' /\ BvnInv'
  <2>1. At(a, "read") /\ place' = [place EXCEPT ![a] = After(a)]
    BY <1>5 DEF Read
  <2>2. /\ a = "reader" /\ place[a] = 3 /\ After(a) = 4
        /\ "child" \notin killed
    BY <1>1, <2>1, BvnAt
  <2>3. data > 0 /\ place["writer"] >= 4
    BY <1>5, <2>1, <2>2 DEF Read, MeetingInv, BvnInv
  <2>4. MeetingInv' BY <1>5, <2>1, <2>2, <2>3 DEF Read, MeetingInv, BvnInv
  <2>5. BvnInv' BY <1>5, <2>1, <2>2, <2>3 DEF Read, BvnInv, MeetingInv
  <2> QED BY <2>4, <2>5
<1>6. ASSUME NEW a \in Actors, Close(a) PROVE MeetingInv' /\ BvnInv'
  <2>1. At(a, "close") /\ place' = [place EXCEPT ![a] = After(a)]
    BY <1>6 DEF Close
  <2>2. /\ \/ a = "writer" /\ place[a] = 4 /\ After(a) = 5
           \/ a = "reader" /\ place[a] = 4 /\ After(a) = 5
        /\ ProcessOf[a] \notin killed
    BY <1>1, <2>1, BvnAt
  <2>3. MeetingInv' BY <1>6, <2>1, <2>2 DEF Close, MeetingInv, BvnInv
  <2>4. BvnInv' BY <1>6, <2>1, <2>2 DEF Close, BvnInv, MeetingInv
  <2> QED BY <2>3, <2>4
<1>7. ASSUME NEW a \in Actors, Kill(a) PROVE MeetingInv' /\ BvnInv'
  <2>1. At(a, "kill") /\ place' = [place EXCEPT ![a] = After(a)]
    BY <1>7 DEF Kill
  <2>2. \/ a = "writer" /\ place[a] = 5 /\ After(a) = 6
        \/ a = "reader" /\ place[a] = 5 /\ After(a) = 6
    BY <1>1, <2>1, BvnAt
  <2>3. MeetingInv' BY <1>7, <2>1, <2>2 DEF Kill, MeetingInv, BvnInv
  <2>4. BvnInv' BY <1>7, <2>1, <2>2 DEF Kill, BvnInv, MeetingInv
  <2> QED BY <2>3, <2>4
<1>8. ASSUME NEW p \in Processes, CreateThread(p) PROVE MeetingInv' /\ BvnInv'
  <2>1. At(p, "create") /\ place' = [place EXCEPT ![p] = place[p] + 1, ![ThreadOf[p]] = 1]
    BY <1>8 DEF CreateThread
  <2>2. \/ p = "parent" /\ place[p] = 4 /\ p \notin killed
        \/ p = "child" /\ place[p] = 1 /\ p \notin killed
    BY <1>1, <2>1, BvnAt
  <2>3. MeetingInv' BY <1>8, <2>1, <2>2 DEF CreateThread, MeetingInv, BvnInv
  <2>4. BvnInv' BY <1>8, <2>1, <2>2 DEF CreateThread, BvnInv, MeetingInv
  <2> QED BY <2>3, <2>4
<1>9. ASSUME NEW p \in Processes, JoinThread(p) PROVE MeetingInv' /\ BvnInv'
  <2>1. At(p, "join") /\ place' = [place EXCEPT ![p] = After(p)] /\ place[ThreadOf[p]] = End(ThreadOf[p])
    BY <1>9 DEF JoinThread
  <2>2. \/ p = "parent" /\ place[p] = 5 /\ After(p) = 6 /\ place["writer"] = 6
        \/ p = "child" /\ place[p] = 2 /\ After(p) = 3 /\ place["reader"] = 6
    BY <1>1, <2>1, BvnAt
  <2>3. MeetingInv' BY <1>9, <2>1, <2>2 DEF JoinThread, MeetingInv, BvnInv
  <2>4. BvnInv' BY <1>9, <2>1, <2>2 DEF JoinThread, BvnInv, MeetingInv
  <2> QED BY <2>3, <2>4
<1>10. ASSUME NEW p \in Processes, Mkfifo(p) PROVE MeetingInv' /\ BvnInv'
  <2>1. At(p, "mkfifo") /\ place' = [place EXCEPT ![p] = After(p)]
    BY <1>10 DEF Mkfifo
  <2>2. p = "parent" /\ place[p] = 3 /\ After(p) = 4
    BY <1>1, <2>1, BvnAt
  <2>3. MeetingInv' BY <1>10, <2>1, <2>2 DEF Mkfifo, MeetingInv, BvnInv
  <2>4. BvnInv' BY <1>10, <2>1, <2>2 DEF Mkfifo, BvnInv, MeetingInv
  <2> QED BY <2>3, <2>4
<1>11. ASSUME NEW p \in Processes, Signal(p) PROVE MeetingInv' /\ BvnInv'
  <2>1. At(p, "signal") /\ place' = [place EXCEPT ![p] = After(p)]
    BY <1>11 DEF Signal
  <2>2. p = "parent" /\ place[p] = 2 /\ After(p) = 3
    BY <1>1, <2>1, BvnAt
  <2>3. MeetingInv' BY <1>11, <2>1, <2>2 DEF Signal, MeetingInv, BvnInv
  <2>4. BvnInv' BY <1>11, <2>1, <2>2 DEF Signal, BvnInv, MeetingInv
  <2> QED BY <2>3, <2>4
<1>12. ASSUME Fork PROVE MeetingInv' /\ BvnInv'
  <2>1. At("parent", "fork") /\ place' = [place EXCEPT !["parent"] = place["parent"] + 1, !["child"] = 1]
    BY <1>12 DEF Fork
  <2>2. place["parent"] = 1
    BY <1>1, <2>1, BvnAt
  <2>3. MeetingInv' BY <1>12, <2>1, <2>2 DEF Fork, MeetingInv, BvnInv
  <2>4. BvnInv' BY <1>12, <2>1, <2>2 DEF Fork, BvnInv, MeetingInv
  <2> QED BY <2>3, <2>4
<1>13. ASSUME ForkFails PROVE MeetingInv' /\ BvnInv'
  <2>1. At("parent", "fork") /\ place' = [place EXCEPT !["parent"] = End("parent")]
    BY <1>13 DEF ForkFails
  <2>2. place["parent"] = 1 /\ End("parent") = 6
    BY <1>1, <2>1, BvnAt
  <2>3. MeetingInv' BY <1>13, <2>1, <2>2 DEF ForkFails, MeetingInv, BvnInv
  <2>4. BvnInv' BY <1>13, <2>1, <2>2 DEF ForkFails, BvnInv, MeetingInv
  <2> QED BY <2>3, <2>4
<1>14. ASSUME NEW p \in Processes, CreateThreadFails(p) PROVE MeetingInv' /\ BvnInv'
  <2>1. At(p, "create") /\ place' = [place EXCEPT ![p] = End(p)]
    BY <1>14 DEF CreateThreadFails
  <2>2. \/ p = "parent" /\ place[p] = 4 /\ End(p) = 6
        \/ p = "child" /\ place[p] = 1 /\ End(p) = 3
    BY <1>1, <2>1, BvnAt
  <2>3. MeetingInv' BY <1>14, <2>1, <2>2 DEF CreateThreadFails, MeetingInv, BvnInv
  <2>4. BvnInv' BY <1>14, <2>1, <2>2 DEF CreateThreadFails, BvnInv, MeetingInv
  <2> QED BY <2>3, <2>4
<1>15. ASSUME MkfifoFails PROVE MeetingInv' /\ BvnInv'
  <2>1. At("parent", "mkfifo") /\ place' = [place EXCEPT !["parent"] = After("parent")]
    BY <1>15 DEF MkfifoFails
  <2>2. place["parent"] = 3 /\ After("parent") = 4
    BY <1>1, <2>1, BvnAt
  <2>3. MeetingInv' BY <1>15, <2>1, <2>2 DEF MkfifoFails, MeetingInv, BvnInv
  <2>4. BvnInv' BY <1>15, <2>1, <2>2 DEF MkfifoFails, BvnInv, MeetingInv
  <2> QED BY <2>3, <2>4
<1>16. ASSUME NEW a \in Actors, Write(a) PROVE MeetingInv' /\ BvnInv'
  <2>1. a = "writer" /\ place[a] = 3 /\ After(a) = 4
    BY <1>1, <1>16, BvnAt DEF Write
  <2>2. "reader" \in ends
    BY <2>1 DEF MeetingInv
  <2>3. place' = [place EXCEPT ![a] = After(a)] /\ data' = data + 1 /\ written' = written + 1
        /\ UNCHANGED <<version, ends, killed, fifo, met, got, printed, handling, waiting>>
    BY <1>16, <2>1, <2>2 DEF Write
  <2>4. MeetingInv' BY <2>1, <2>2, <2>3 DEF MeetingInv, BvnInv
  <2>5. BvnInv' BY <2>1, <2>2, <2>3 DEF BvnInv, MeetingInv
  <2> QED BY <2>4, <2>5
<1>17. ASSUME NEW p \in Processes, DeliverSignal(p) PROVE MeetingInv' /\ BvnInv'
  <2>1. CASE p \in handling
    <3>1. UNCHANGED <<version, place, ends, data, killed, fifo, met, got, written, printed, handling>>
          /\ waiting' = waiting \ {p}
      BY <1>17, <2>1 DEF DeliverSignal
    <3> QED BY <3>1 DEF MeetingInv, BvnInv
  <2>2. CASE p \notin handling
    <3>1. /\ p = "child" /\ p \in waiting /\ p \notin killed
          /\ killed' = killed \cup {p} /\ ends' = ends \ {"reader"}
          /\ data' = IF ends' = {} THEN 0 ELSE data
          /\ UNCHANGED <<version, place, fifo, met, got, written, printed, handling>>
          /\ waiting' = waiting \ {p}
      BY <1>17, <2>2, BvnAt, <1>1 DEF DeliverSignal, MeetingInv
    <3>2. place["writer"] = 6 /\ fifo
      BY <1>17, <2>2, <3>1, <1>1, BvnAt DEF DeliverSignal, BvnInv
    <3>3. MeetingInv' BY <3>1, <3>2 DEF MeetingInv, BvnInv
    <3>4. BvnInv' BY <3>1, <3>2 DEF BvnInv, MeetingInv
    <3> QED BY <3>3, <3>4
  <2> QED BY <2>1, <2>2
<1>18. ASSUME NEW a \in Actors PROVE ~(CloseCopy(a) \/ Exit(a) \/ Unlink(a) \/ Type)
  BY <1>1, BvnAt DEF CloseCopy, Exit, Unlink, Type
<1> QED BY <1>2, <1>3, <1>4, <1>5, <1>6, <1>7, <1>8, <1>9, <1>10, <1>11, <1>12, <1>13,
     <1>14, <1>15, <1>16, <1>17, <1>18
     DEF FifoNext, Actor

-----------------------------------------------------------------------------
(* The theorems.                                                           *)

\* A step keeps the program and its sets within their types.
LEMMA KindStep == ASSUME KindInv, FifoNext PROVE KindInv' /\ version' = version
<1> USE Partners DEF fifoVars, signalVars, countVars
<1>1. ASSUME NEW a \in Actors, Actor(a) PROVE KindInv' /\ version' = version
  <2>1. CASE Open(a) BY <2>1 DEF Open, KindInv
  <2>2. CASE OpenFails(a) \/ Opened(a) \/ Close(a)
    BY <2>2 DEF OpenFails, Opened, Close, KindInv
  <2>3. CASE Write(a) BY <2>3 DEF Write, KindInv
  <2>4. CASE Read(a) BY <2>4 DEF Read, KindInv
  <2>5. CASE Kill(a) BY <2>5 DEF Kill, KindInv
  <2>6. CASE a \in Processes /\ (CreateThread(a) \/ JoinThread(a) \/ Mkfifo(a) \/ Unlink(a) \/ Signal(a))
    BY <2>6 DEF CreateThread, JoinThread, Mkfifo, Unlink, Signal, KindInv
  <2>7. CASE a = "parent" /\ Fork BY <2>7 DEF Fork, KindInv
  <2>8. CASE a = "child" /\ (CloseCopy(a) \/ Exit(a))
    BY <2>8 DEF CloseCopy, Exit, KindInv
  <2> QED BY <1>1, <2>1, <2>2, <2>3, <2>4, <2>5, <2>6, <2>7, <2>8 DEF Actor
<1>2. ASSUME NEW p \in Processes, DeliverSignal(p) PROVE KindInv' /\ version' = version
  BY <1>2 DEF DeliverSignal, KindInv
<1>3. ASSUME NEW p \in Processes, CreateThreadFails(p) \/ ForkFails \/ MkfifoFails \/ Type
      PROVE  KindInv' /\ version' = version
  BY <1>3 DEF CreateThreadFails, ForkFails, MkfifoFails, Type, KindInv
<1> QED BY <1>1, <1>2, <1>3 DEF FifoNext

\* The processes have not made a call yet; at most the FIFO is there.
LEMMA FifoInitInv == FifoInit => FifoInv
<1> SUFFICES ASSUME FifoInit PROVE FifoInv
  OBVIOUS
<1> USE Partners DEF FifoInit
<1>1. place \in [Actors -> Nat] /\ place["writer"] = 0 /\ place["reader"] = 0 /\ place["parent"] = 1
      /\ place["child"] = IF version = "named_pipe" THEN 1 ELSE 0
  OBVIOUS
<1>2. KindInv BY DEF KindInv
<1>3. RelatedInv BY <1>1 DEF RelatedInv
<1>4. NamedInv BY <1>1 DEF NamedInv
<1>5. MeetingInv BY <1>1 DEF MeetingInv
<1>6. VdvdInv BY <1>1 DEF VdvdInv
<1>7. BvnInv BY <1>1 DEF BvnInv
<1> QED BY <1>2, <1>3, <1>4, <1>5, <1>6, <1>7 DEF FifoInv

\* The invariant is inductive, program by program.
THEOREM FifoInductiveInvariant == FifoSpec => []FifoInv
<1>1. ASSUME FifoInv, FifoNext PROVE FifoInv'
  <2>1. KindInv' /\ version' = version
    BY <1>1, KindStep DEF FifoInv
  <2>2. RelatedInv'
    BY <1>1, <2>1, RelatedStep DEF FifoInv, RelatedInv
  <2>3. NamedInv'
    BY <1>1, <2>1, NamedStep DEF FifoInv, NamedInv
  <2>4. VdvdInv'
    BY <1>1, <2>1, VdvdStep DEF FifoInv, VdvdInv
  <2>5. BvnInv'
    BY <1>1, <2>1, BvnStep DEF FifoInv, BvnInv
  <2>6. MeetingInv'
    BY <1>1, <2>1, VdvdStep, BvnStep DEF FifoInv, MeetingInv
  <2> QED BY <2>1, <2>2, <2>3, <2>4, <2>5, <2>6 DEF FifoInv
<1>2. ASSUME FifoInv, UNCHANGED allVars PROVE FifoInv'
  <2> USE <1>2 DEF FifoInv, allVars, fifoVars, signalVars, countVars
  <2>1. KindInv' BY DEF KindInv
  <2>2. RelatedInv' BY DEF RelatedInv
  <2>3. NamedInv' BY DEF NamedInv
  <2>4. MeetingInv' BY DEF MeetingInv
  <2>5. VdvdInv' BY DEF VdvdInv
  <2>6. BvnInv' BY DEF BvnInv
  <2> QED BY <2>1, <2>2, <2>3, <2>4, <2>5, <2>6
<1> QED BY <1>1, <1>2, FifoInitInv, PTL DEF FifoSpec

\* The FIFO of vdvd exists at both opens.
THEOREM FifoThereTheorem == FifoSpec => []FifoThereInVdvd
<1>1. FifoInv => FifoThereInVdvd
  <2> SUFFICES ASSUME FifoInv, version = "vdvd", NEW a \in {"reader", "writer"}, At(a, "open")
               PROVE  fifo
    BY DEF FifoThereInVdvd
  <2>1. place[a] = 1 /\ place \in [Actors -> Nat]
    BY VdvdAt, Partners DEF FifoInv, MeetingInv
  <2>2. Running(ProcessOf[a])
    BY DEF At
  <2> QED BY <2>1, <2>2, VdvdAt, Partners DEF FifoInv, VdvdInv
<1> QED BY <1>1, FifoInductiveInvariant, PTL

\* Messages are printed one by one as long as nobody has overtaken the other.
THEOREM OneByOneTheorem == FifoSpec => []OneByOne
<1>1. FifoInv => OneByOne
  BY DEF FifoInv, NamedInv, OneByOne
<1> QED BY <1>1, FifoInductiveInvariant, PTL

\* Whoever's read returns in the exercise has the message and not the end of
\* the FIFO, and no signal ends the parent; the child of 2_related_pipe ends
\* after three messages, and no signal ends anybody.
MessagesArrive ==
  /\ version \in {"bvn", "vdvd"} => got # "end" /\ "parent" \notin killed
  /\ version = "related_pipe" =>
       killed = {} /\ written = printed + data /\ (place["child"] \in {3, 4} => printed = 3)

\* The safe half of MessageArrives and of HangsInOpenOnly.
THEOREM MessagesTheorem == FifoSpec => []MessagesArrive
<1>1. FifoInv => MessagesArrive
  BY DEF FifoInv, MeetingInv, RelatedInv, MessagesArrive
<1> QED BY <1>1, FifoInductiveInvariant, PTL

\* Every variable has its type.
THEOREM FifoTypeCorrectness == FifoSpec => []FifoTypeOK
<1> DEFINE Known == version \in Versions
<1>1. FifoSpec => []Known
  <2>1. FifoInit => Known BY DEF FifoInit
  <2>2. ASSUME KindInv, Known, [FifoNext]_allVars PROVE Known'
    BY <2>2, KindStep DEF allVars
  <2>3. FifoInv => KindInv BY DEF FifoInv
  <2> HIDE DEF Known
  <2> QED BY <2>1, <2>2, <2>3, FifoInductiveInvariant, PTL DEF FifoSpec
<1>2. ASSUME FifoInv, Known PROVE FifoTypeOK
  <2>1. KindInv BY <1>2 DEF FifoInv
  <2> USE Partners
  <2>2. CASE version = "related_pipe"
    <3>1. RelatedInv BY <1>2 DEF FifoInv
    <3>2. End("writer") = 1 /\ End("reader") = 1
      BY <2>2 DEF End, Code, RelatedPipe
    <3> QED BY <1>2, <2>1, <2>2, <3>1, <3>2, RelatedAt DEF RelatedInv, KindInv, FifoTypeOK
  <2>3. CASE version = "named_pipe"
    <3>1. NamedInv BY <1>2 DEF FifoInv
    <3>2. End("writer") = 1 /\ End("reader") = 1
      BY <2>3 DEF End, Code, NamedPipe
    <3> QED BY <1>2, <2>1, <2>3, <3>1, <3>2, NamedAt DEF NamedInv, KindInv, FifoTypeOK
  <2>4. CASE version = "vdvd"
    <3>1. MeetingInv /\ VdvdInv BY <1>2 DEF FifoInv
    <3> QED BY <1>2, <2>1, <2>4, <3>1, VdvdAt DEF MeetingInv, VdvdInv, KindInv, FifoTypeOK
  <2>5. CASE version = "bvn"
    <3>1. MeetingInv /\ BvnInv BY <1>2 DEF FifoInv
    <3> QED BY <1>2, <2>1, <2>5, <3>1, BvnAt DEF MeetingInv, BvnInv, KindInv, FifoTypeOK
  <2> QED BY <1>2, <2>2, <2>3, <2>4, <2>5, VersionsAssumption
<1> HIDE DEF Known
<1> QED BY <1>1, <1>2, FifoInductiveInvariant, PTL

\* Thread a can make its next call.  Only join, a FIFO's open and read wait.
CanCall(a) ==
  /\ Running(ProcessOf[a]) /\ place[a] \in 1..(End(a) - 1)
  /\ At(a, "join") => place[ThreadOf[a]] = End(ThreadOf[a])
  /\ At(a, "opened") => a \in met
  /\ At(a, "read") => data > 0 \/ {Other[a], "copy"} \cap ends = {}

\* The exercise stands still only at its end, or when an open waits for a
\* process that has ended: join, open and read never wait for each other.
NoOtherStandstill ==
  version \in {"bvn", "vdvd"} =>
    \/ \E a \in Actors : CanCall(a)
    \/ \A p \in Processes : ~Running(p)
    \/ \E a \in {"reader", "writer"} : Stranded(a)

\* Both threads of the exercise make open their first call.
LEMMA OpenedCall ==
  ASSUME version \in {"bvn", "vdvd"}, NEW a \in {"writer", "reader"}, place[a] = 2,
         Running(ProcessOf[a])
  PROVE  At(a, "opened")
<1>1. CASE version = "bvn" BY <1>1 DEF At, Code, Bvn
<1>2. CASE version = "vdvd" BY <1>2 DEF At, Code, Vdvd
<1> QED BY <1>1, <1>2

\* The safe half of HangsInOpenOnly.
THEOREM StandstillTheorem == FifoSpec => []NoOtherStandstill
<1>1. ASSUME FifoInv, version = "vdvd", \A a \in Actors : ~CanCall(a),
             NEW p \in Processes, Running(p)
      PROVE  Stranded("writer")
  <2> USE Partners
  <2>1. place \in [Actors -> Nat] /\ MeetingInv /\ VdvdInv
    BY <1>1 DEF FifoInv, MeetingInv
  <2>2. Running("parent") => place["parent"] = 6 /\ place["writer"] \in 1..4
    BY <1>1, <2>1, VdvdAt DEF CanCall, VdvdInv
  <2>3. Running("child") => place["child"] = 3 /\ place["reader"] \in 1..5
    BY <1>1, <2>1, VdvdAt DEF CanCall, VdvdInv
  <2>4. Running("parent") => place["writer"] = 2 /\ "writer" \notin met
    BY <1>1, <2>1, <2>2, VdvdAt DEF CanCall, VdvdInv
  <2>5. Running("child") => \/ place["reader"] = 2 /\ "reader" \notin met
                            \/ place["reader"] = 3 /\ data = 0 /\ "writer" \in ends
    BY <1>1, <2>1, <2>3, VdvdAt DEF CanCall, VdvdInv, MeetingInv
  <2>6. ~(Running("parent") /\ Running("child"))
    BY <1>1, <2>1, <2>4, <2>5, VdvdAt DEF MeetingInv
  <2>7. ~Running("child")
    BY <1>1, <2>1, <2>3, <2>5, <2>6, VdvdAt DEF MeetingInv, VdvdInv
  <2>8. Running("parent") BY <1>1, <2>7
  <2> QED BY <1>1, <2>4, <2>7, <2>8, OpenedCall DEF Stranded
<1>2. ASSUME FifoInv, version = "bvn", \A a \in Actors : ~CanCall(a),
             NEW p \in Processes, Running(p)
      PROVE  Stranded("writer") \/ Stranded("reader")
  <2> USE Partners
  <2>1. place \in [Actors -> Nat] /\ MeetingInv /\ BvnInv
    BY <1>2 DEF FifoInv, MeetingInv
  <2>2. Running("parent") => place["parent"] = 5 /\ place["writer"] \in 1..5
    BY <1>2, <2>1, BvnAt DEF CanCall, BvnInv
  <2>3. Running("child") => place["child"] = 2 /\ place["reader"] \in 1..5
    BY <1>2, <2>1, BvnAt DEF CanCall, BvnInv
  <2>4. Running("parent") => place["writer"] = 2 /\ "writer" \notin met
    BY <1>2, <2>1, <2>2, BvnAt DEF CanCall, BvnInv
  <2>5. Running("child") => \/ place["reader"] = 2 /\ "reader" \notin met
                            \/ place["reader"] = 3 /\ data = 0 /\ "writer" \in ends
    BY <1>2, <2>1, <2>3, BvnAt DEF CanCall, BvnInv, MeetingInv
  <2>6. ~(Running("parent") /\ Running("child"))
    BY <1>2, <2>1, <2>4, <2>5, BvnAt DEF MeetingInv
  <2>7. CASE Running("parent")
    BY <1>2, <2>4, <2>6, <2>7, OpenedCall DEF Stranded
  <2>8. CASE Running("child")
    <3>1. place["reader"] = 2 /\ "reader" \notin met
      BY <1>2, <2>1, <2>3, <2>5, <2>6, <2>8, BvnAt DEF MeetingInv, BvnInv
    <3> QED BY <1>2, <2>6, <2>8, <3>1, OpenedCall DEF Stranded
  <2> QED BY <1>2, <2>7, <2>8
<1>3. FifoInv => NoOtherStandstill
  BY <1>1, <1>2 DEF NoOtherStandstill
<1> QED BY <1>3, FifoInductiveInvariant, PTL

=============================================================================

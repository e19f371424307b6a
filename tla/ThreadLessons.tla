----------------------------- MODULE ThreadLessons ----------------------------
(***************************************************************************)
(* The lessons of 04_thread and 09_semaphore in which threads, or a        *)
(* parent's children, share a counter under one mutex:                     *)
(*   "mutex"      04_thread/3_Mutex           two locks in one thread      *)
(*   "condition"  04_thread/4_condition_variable                           *)
(*   "polling"    04_thread/5_poling                                       *)
(*   "buffer"     09_semaphore/2_producer_consumer                         *)
(*   "sample"     09_semaphore/3_sample       products that may be skipped *)
(*   "limit"      09_semaphore/4_sample       a producer that gives up     *)
(* Each program is a table of calls; there is one action per kind of call. *)
(* A thread that has not been created yet is one that has not taken its    *)
(* first step, and sleep is left to the scheduler.                         *)
(***************************************************************************)
EXTENDS Integers, Sequences, FiniteSets

CONSTANTS
  Threshold,     \* THREADHOLD, and the 5 of the limit lesson
  BufferSize,    \* BUFFER_SIZE
  MaxProducts    \* products the sample makes (a bound; the code goes on)

ASSUME SizesAssumption ==
  Threshold \in Nat \ {0} /\ BufferSize \in Nat \ {0} /\ MaxProducts \in Nat

Lessons == {"mutex", "condition", "polling", "buffer", "sample", "limit"}
Threads == {"main", "t1", "t2", "t3"}
Nobody == "nobody"

VARIABLES
  lesson,    \* which program this is
  pc,        \* position in the thread's row; one past its end when it is over
  mutex,     \* lock1, lock or mutex: who has it
  full,      \* the semaphore that counts products: full or semaphore
  empty,     \* the semaphore empty
  counter,   \* counter, or buffer; the things in the buffer lesson
  available, \* product_available
  consumed,  \* products consumed in the sample
  woken      \* TRUE if main, waiting on the condition, has been signalled

semaphores == <<full, empty>>
data == <<counter, available, consumed>>
vars == <<lesson, pc, mutex, semaphores, data, woken>>

Once == {"mutex", "condition", "polling"}   \* the others repeat their rows

\* Mutants, one lesson's rows each: the sample's producer does not announce
\* its products; the buffer's announces them before it makes them; its mutex is
\* taken first.
CodeWithoutPost ==
  [l \in Lessons |->
     [main |-> <<>>,
      t1   |-> <<"lock", "make", "unlock">>,
      t2   |-> <<"wait_full", "lock", "take", "unlock">>,
      t3   |-> <<"wait_full", "lock", "take", "unlock">>]]

CodeBufferPostsFirst ==
  [l \in Lessons |->
     [main |-> <<>>,
      t1   |-> <<"wait_empty", "post_full", "lock", "make", "unlock">>,
      t2   |-> <<"wait_full", "lock", "take", "unlock", "post_empty">>,
      t3   |-> <<>>]]

CodeMutexFirst ==
  [l \in Lessons |->
     [main |-> <<>>,
      t1   |-> <<"lock", "wait_empty", "make", "post_full", "unlock">>,
      t2   |-> <<"lock", "wait_full", "take", "unlock", "post_empty">>,
      t3   |-> <<>>]]

\* The calls of each thread, one table for each lesson's main.c: t1 and t2 are
\* handle_th1 and handle_th2, or t1 is the producer, t2 and t3 its consumers.
Mutex ==
  [main |-> <<"join">>,
   t1   |-> <<"lock", "count", "unlock">>,
   t2   |-> <<"lock", "count", "lock">>,
   t3   |-> <<>>]

ConditionVariable ==
  [main |-> <<"lock", "wait", "wake", "unlock", "join">>,
   t1   |-> <<"lock", "count_up", "signal", "unlock">>,
   t2   |-> <<>>,
   t3   |-> <<>>]

Polling ==
  [main |-> <<"poll", "join">>,
   t1   |-> <<"lock", "count_up", "unlock">>,
   t2   |-> <<>>,
   t3   |-> <<>>]

BoundedBuffer ==
  [main |-> <<>>,
   t1   |-> <<"wait_empty", "lock", "make", "post_full", "unlock">>,
   t2   |-> <<"wait_full", "lock", "take", "unlock", "post_empty">>,
   t3   |-> <<>>]

Sample ==
  [main |-> <<>>,
   t1   |-> <<"lock", "make", "unlock", "post_full">>,
   t2   |-> <<"wait_full", "lock", "take", "unlock">>,
   t3   |-> <<"wait_full", "lock", "take", "unlock">>]

Limit ==
  [main |-> <<"join">>,
   t1   |-> <<"test", "lock", "make", "unlock", "post_full">>,
   t2   |-> <<"test", "wait_full", "lock", "take", "unlock">>,
   t3   |-> <<"test", "wait_full", "lock", "take", "unlock">>]

Code == [mutex |-> Mutex, condition |-> ConditionVariable, polling |-> Polling,
         buffer |-> BoundedBuffer, sample |-> Sample, limit |-> Limit]

Row(t) == Code[lesson][t]
End(t) == Len(Row(t)) + 1
Over(t) == pc[t] = End(t)

At(t, call) == ~Over(t) /\ Row(t)[pc[t]] = call

After(t) == IF pc[t] = Len(Row(t)) /\ lesson \notin Once /\ t # "main" THEN 1 ELSE pc[t] + 1
Advance(t, call) == At(t, call) /\ pc' = [pc EXCEPT ![t] = After(t)]

Init ==
  /\ lesson \in Lessons
  /\ pc = [t \in Threads |-> 1]
  /\ mutex = Nobody
  /\ full = 0
  /\ empty = BufferSize
  /\ counter = IF lesson = "mutex" THEN 2 ELSE 0
  /\ available = 0
  /\ consumed = 0
  /\ woken = FALSE

-----------------------------------------------------------------------------
(* The mutex and the semaphores.                                           *)

Lock(t) ==
  /\ mutex = Nobody
  /\ Advance(t, "lock")
  /\ mutex' = t
  /\ UNCHANGED <<lesson, semaphores, data, woken>>

Unlock(t) ==
  /\ Advance(t, "unlock")
  /\ mutex' = Nobody
  /\ UNCHANGED <<lesson, semaphores, data, woken>>

WaitFull(t) ==
  /\ full > 0
  /\ Advance(t, "wait_full")
  /\ full' = full - 1
  /\ UNCHANGED <<lesson, mutex, empty, data, woken>>

PostFull(t) ==
  /\ Advance(t, "post_full")
  /\ full' = full + 1
  /\ UNCHANGED <<lesson, mutex, empty, data, woken>>

WaitEmpty(t) ==
  /\ empty > 0
  /\ Advance(t, "wait_empty")
  /\ empty' = empty - 1
  /\ UNCHANGED <<lesson, mutex, full, data, woken>>

PostEmpty(t) ==
  /\ Advance(t, "post_empty")
  /\ empty' = empty + 1
  /\ UNCHANGED <<lesson, mutex, full, data, woken>>

-----------------------------------------------------------------------------
(* 04_thread.                                                              *)

\* ++counter
Count(t) ==
  /\ Advance(t, "count")
  /\ counter' = counter + 1
  /\ UNCHANGED <<lesson, mutex, semaphores, available, consumed, woken>>

\* while (counter < THREADHOLD) counter += 1, with the lock in hand
CountUp(t) ==
  /\ At(t, "count_up")
  /\ IF counter < Threshold
       THEN counter' = counter + 1 /\ UNCHANGED pc
       ELSE Advance(t, "count_up") /\ UNCHANGED counter
  /\ UNCHANGED <<lesson, mutex, semaphores, available, consumed, woken>>

\* while (1) if (counter == THREADHOLD) break, without the lock
Poll(t) ==
  /\ counter = Threshold
  /\ Advance(t, "poll")
  /\ UNCHANGED <<lesson, mutex, semaphores, data, woken>>

\* pthread_cond_wait: release the mutex and sleep, whatever counter is.
Wait(t) ==
  /\ Advance(t, "wait")
  /\ mutex' = Nobody
  /\ woken' = FALSE
  /\ UNCHANGED <<lesson, semaphores, data>>

\* It returns with the mutex; unless counter is THREADHOLD, wait again.  Only a
\* signal wakes a thread here: POSIX also allows pthread_cond_wait to return
\* without one, but no program can count on it.
Wake(t) ==
  /\ woken /\ mutex = Nobody
  /\ mutex' = t
  /\ At(t, "wake")
  /\ pc' = [pc EXCEPT ![t] = IF counter = Threshold THEN @ + 1 ELSE @ - 1]
  /\ UNCHANGED <<lesson, semaphores, data, woken>>

\* pthread_cond_signal: without a waiter nothing happens.
Signal(t) ==
  /\ Advance(t, "signal")
  /\ woken' = (woken \/ At("main", "wake"))
  /\ UNCHANGED <<lesson, mutex, semaphores, data>>

\* pthread_join of every thread, return.
Join(t) ==
  /\ \A u \in Threads \ {t} : Over(u)
  /\ Advance(t, "join")
  /\ UNCHANGED <<lesson, mutex, semaphores, data, woken>>

-----------------------------------------------------------------------------
(* 09_semaphore.                                                           *)

\* The limit lesson's loop conditions, read without the mutex.
Test(t) ==
  /\ IF counter = Threshold
       THEN At(t, "test") /\ pc' = [pc EXCEPT ![t] = End(t)]
       ELSE Advance(t, "test")
  /\ UNCHANGED <<lesson, mutex, semaphores, data, woken>>

\* Mutant: the producer that gives up hands the mutex back.
MakeUnlocks(t) ==
  /\ lesson = "limit"
  /\ counter' = counter + 1
  /\ IF counter' = Threshold
       THEN At(t, "make") /\ pc' = [pc EXCEPT ![t] = End(t)] /\ mutex' = Nobody
       ELSE Advance(t, "make") /\ UNCHANGED mutex
  /\ UNCHANGED <<lesson, semaphores, available, consumed, woken>>

\* A thing for the buffer, a numbered product, or buffer++.  At the limit
\* the producer calls pthread_exit with the mutex in its hand.
Make(t) ==
  /\ lesson = "sample" => counter < MaxProducts
  /\ counter' = counter + 1
  /\ available' = IF lesson = "sample" THEN 1 ELSE available
  /\ IF lesson = "limit" /\ counter' = Threshold
       THEN At(t, "make") /\ pc' = [pc EXCEPT ![t] = End(t)]
       ELSE Advance(t, "make")
  /\ UNCHANGED <<lesson, mutex, semaphores, consumed, woken>>

\* The sample consumes the product if it is still available.
Take(t) ==
  /\ Advance(t, "take")
  /\ IF lesson = "sample"
       THEN consumed' = consumed + available /\ available' = 0 /\ UNCHANGED counter
       ELSE counter' = counter - 1 /\ UNCHANGED <<available, consumed>>
  /\ UNCHANGED <<lesson, mutex, semaphores, woken>>

-----------------------------------------------------------------------------

Thread(t) ==
  \/ Lock(t) \/ Unlock(t)
  \/ WaitFull(t) \/ PostFull(t) \/ WaitEmpty(t) \/ PostEmpty(t)
  \/ Count(t) \/ CountUp(t) \/ Poll(t) \/ Wait(t) \/ Wake(t) \/ Signal(t) \/ Join(t)
  \/ Test(t) \/ Make(t) \/ Take(t)

Next == \E t \in Threads : Thread(t)

Spec == Init /\ [][Next]_vars

\* Every thread runs when it can; mutex and semaphores promise no order.
FairSpec == Spec /\ \A t \in Threads : WF_vars(Thread(t))

-----------------------------------------------------------------------------
(* Properties.                                                             *)

\* Every variable has its type; semaphores do not get below zero.
TypeOK ==
  /\ lesson \in Lessons
  /\ pc \in [Threads -> 1..6] /\ \A t \in Threads : pc[t] <= End(t)
  /\ mutex \in Threads \cup {Nobody}
  /\ full \in Nat /\ empty \in Nat
  /\ counter \in Nat /\ available \in {0, 1} /\ consumed \in Nat
  /\ woken \in BOOLEAN

\* How many threads are about to make one of these calls.
Before(calls) == Cardinality({t \in Threads : \E c \in calls : At(t, c)})

\* In the buffer lesson full, which the parent prints as "Items in the buffer"
\* (line 81), is the number of things in it, apart from one made and not yet
\* posted and one waited for and not yet taken.
BufferTokens ==
  /\ counter = full + Before({"post_full"})
                 + Cardinality({t \in {"t2"} : At(t, "lock") \/ At(t, "take")})
  /\ counter <= BufferSize

\* The limit lesson's buffer is the semaphore plus what is on its way in or
\* out plus the last product, which is never announced.
LimitTokens ==
  /\ counter = full + Before({"post_full"})
                 + (IF At("t1", "unlock") \/ Over("t1") THEN 1 ELSE 0)
                 + Cardinality({t \in {"t2", "t3"} : At(t, "lock") \/ At(t, "take")})
  /\ counter <= Threshold

\* A semaphore stands for the things it announces, whatever the threads are
\* doing: the buffer never holds more than it has room for, and the limit
\* lesson's never goes below zero, although its consumers decrement it without
\* a test (2_producer_consumer 36-68, 4_sample 36-52).
SemaphoreCountsThings ==
  /\ lesson = "buffer" => BufferTokens
  /\ lesson = "limit" => LimitTokens

\* The sample announces each product, but the flag holds only the last one
\* (3_sample 16-45).  No product is consumed twice, though two consumers may
\* have been woken for one; and a product that is available is not forgotten:
\* somebody is on the way to it.
OneTakerPerProduct ==
  lesson = "sample" =>
    /\ consumed + available <= counter
    /\ available = 1 =>
         \/ full > 0 \/ At("t1", "unlock") \/ At("t1", "post_full")
         \/ \E t \in {"t2", "t3"} : At(t, "lock") \/ At(t, "take")

\* Neither the producer nor the consumer of the buffer lesson ever stops for
\* the other: mutex and semaphores are taken in an order that cannot deadlock.
BothKeepGoing ==
  lesson = "buffer" => []<>At("t1", "make") /\ []<>At("t2", "take")

\* How a lesson hangs.  mutex: the second thread locks lock1 again (41).
\* condition: the thread signalled before main waited (54).  limit: the
\* producer left with the mutex (24), and a consumer was past its test (39).
Stuck ==
  \/ lesson = "mutex" /\ mutex = "t2" /\ At("t2", "lock")
  \/ lesson = "condition" /\ Over("t1") /\ At("main", "wake") /\ ~woken
  \/ lesson = "limit" /\ Over("t1") /\ mutex = "t1" /\ \E t \in {"t2", "t3"} : At(t, "lock")

\* The three thread lessons, and the limit lesson once it is at the limit,
\* return from main or hang in exactly these ways; polling always returns.
EndsOrStuck ==
  lesson \in Once \/ (lesson = "limit" /\ counter = Threshold) ~> Over("main") \/ Stuck
=============================================================================

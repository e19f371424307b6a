------------------------- MODULE ThreadLessonsProofs --------------------------
(***************************************************************************)
(* Safety of ThreadLessons for every buffer size, threshold and number of  *)
(* products.                                                               *)
(***************************************************************************)
EXTENDS ThreadLessons, FiniteSetTheorems, TLAPS

-----------------------------------------------------------------------------
(* The inductive invariant: one conjunct for each lesson on semaphores, by *)
(* the positions of its threads.                                           *)

One(condition) == IF condition THEN 1 ELSE 0

\* 2_producer_consumer: things and room are accounted for by the positions of
\* the producer (t1) and the consumer (t2).
BufferInv ==
  lesson = "buffer" =>
    /\ pc["t1"] \in 1..5 /\ pc["t2"] \in 1..5
    /\ counter = full + One(pc["t1"] = 4) + One(pc["t2"] \in {2, 3})
    /\ empty + full + One(pc["t1"] \in {2, 3, 4}) + One(pc["t2"] \in 2..5) = BufferSize

\* 3_sample: a product is lost or consumed once, and an available one announced.
SampleInv ==
  lesson = "sample" =>
    /\ pc["t1"] \in 1..4 /\ pc["t2"] \in 1..4 /\ pc["t3"] \in 1..4
    /\ consumed + available <= counter
    /\ available = 1 =>
         full > 0 \/ pc["t1"] \in {3, 4} \/ pc["t2"] \in {2, 3} \/ pc["t3"] \in {2, 3}

\* 4_sample: the producer is at its end if and only if the buffer was at its
\* limit once, and it took the mutex there.
LimitInv ==
  lesson = "limit" =>
    /\ pc["t1"] \in 1..6 /\ pc["t2"] \in 1..6 /\ pc["t3"] \in 1..6
    /\ counter = full + One(pc["t1"] \in 4..6)
                   + One(pc["t2"] \in {3, 4}) + One(pc["t3"] \in {3, 4})
    /\ pc["t1"] < 6 => counter < Threshold
    /\ counter <= Threshold

IInv == TypeOK /\ BufferInv /\ SampleInv /\ LimitInv

-----------------------------------------------------------------------------
(* The rows.                                                               *)

\* The row of each thread of the lessons on semaphores.
LEMMA BufferRows ==
  ASSUME lesson = "buffer"
  PROVE  /\ Row("main") = <<>> /\ Row("t3") = <<>>
         /\ Row("t1") = <<"wait_empty", "lock", "make", "post_full", "unlock">>
         /\ Row("t2") = <<"wait_full", "lock", "take", "unlock", "post_empty">>
BY DEF Row, Code, BoundedBuffer

\* The calls of 3_sample's threads, written out.
LEMMA SampleRows ==
  ASSUME lesson = "sample"
  PROVE  /\ Row("main") = <<>>
         /\ Row("t1") = <<"lock", "make", "unlock", "post_full">>
         /\ Row("t2") = <<"wait_full", "lock", "take", "unlock">>
         /\ Row("t3") = <<"wait_full", "lock", "take", "unlock">>
BY DEF Row, Code, Sample

\* The calls of the limit lesson's threads, written out.
LEMMA LimitRows ==
  ASSUME lesson = "limit"
  PROVE  /\ Row("main") = <<"join">>
         /\ Row("t1") = <<"test", "lock", "make", "unlock", "post_full">>
         /\ Row("t2") = <<"test", "wait_full", "lock", "take", "unlock">>
         /\ Row("t3") = <<"test", "wait_full", "lock", "take", "unlock">>
BY DEF Row, Code, Limit

\* And of the three on threads.
LEMMA MutexRows ==
  ASSUME lesson = "mutex"
  PROVE  /\ Row("main") = <<"join">> /\ Row("t3") = <<>>
         /\ Row("t1") = <<"lock", "count", "unlock">>
         /\ Row("t2") = <<"lock", "count", "lock">>
BY DEF Row, Code, Mutex

\* The calls of the condition-variable lesson's threads, written out.
LEMMA ConditionRows ==
  ASSUME lesson = "condition"
  PROVE  /\ Row("main") = <<"lock", "wait", "wake", "unlock", "join">>
         /\ Row("t1") = <<"lock", "count_up", "signal", "unlock">>
         /\ Row("t2") = <<>> /\ Row("t3") = <<>>
BY DEF Row, Code, ConditionVariable

\* The calls of the polling lesson's threads, written out.
LEMMA PollingRows ==
  ASSUME lesson = "polling"
  PROVE  /\ Row("main") = <<"poll", "join">>
         /\ Row("t1") = <<"lock", "count_up", "unlock">>
         /\ Row("t2") = <<>> /\ Row("t3") = <<>>
BY DEF Row, Code, Polling

\* No row is longer than five calls or begins with wake, and the lessons on
\* threads use no semaphore and take nothing.
LEMMA RowShape ==
  ASSUME lesson \in Lessons, NEW t \in Threads
  PROVE  /\ Len(Row(t)) \in 0..5
         /\ Len(Row(t)) > 0 => Row(t)[1] # "wake"
         /\ lesson \in Once => \A i \in 1..Len(Row(t)) :
              Row(t)[i] \notin {"take", "wait_full", "wait_empty"}
<1> USE DEF Threads, Once
<1>1. CASE lesson = "mutex" BY <1>1, MutexRows
<1>2. CASE lesson = "condition" BY <1>2, ConditionRows
<1>3. CASE lesson = "polling" BY <1>3, PollingRows
<1>4. CASE lesson = "buffer" BY <1>4, BufferRows
<1>5. CASE lesson = "sample" BY <1>5, SampleRows
<1>6. CASE lesson = "limit" BY <1>6, LimitRows
<1> QED BY <1>1, <1>2, <1>3, <1>4, <1>5, <1>6 DEF Lessons

\* A thread at a call is inside its row, and goes on in it, to its beginning
\* or to its end.
LEMMA Positions ==
  ASSUME TypeOK, NEW t \in Threads, NEW call, At(t, call)
  PROVE  /\ pc[t] \in 1..Len(Row(t)) /\ Row(t)[pc[t]] = call
         /\ End(t) \in 1..6 /\ After(t) \in 1..End(t)
<1> DEFINE len == Len(Row(t))
<1>1. pc[t] \in 1..6 /\ pc[t] <= End(t) /\ len \in 0..5
  BY RowShape DEF TypeOK
<1>2. pc[t] # End(t) /\ Row(t)[pc[t]] = call
  BY DEF At, Over
<1>3. End(t) = len + 1
  BY DEF End
<1> HIDE DEF len
<1>4. pc[t] \in 1..len /\ End(t) \in 1..6
  BY <1>1, <1>2, <1>3
<1>5. After(t) = 1 \/ After(t) = pc[t] + 1
  BY DEF After
<1>6. After(t) \in 1..End(t)
  BY <1>1, <1>3, <1>4, <1>5
<1> QED BY <1>2, <1>4, <1>6 DEF len

\* Where a thread of each lesson on semaphores is when it makes a call.
LEMMA BufferAt ==
  ASSUME TypeOK, lesson = "buffer", NEW t \in Threads, NEW call, At(t, call)
  PROVE  /\ \/ /\ t = "t1"
               /\ \/ pc[t] = 1 /\ call = "wait_empty"
                  \/ pc[t] = 2 /\ call = "lock"
                  \/ pc[t] = 3 /\ call = "make"
                  \/ pc[t] = 4 /\ call = "post_full"
                  \/ pc[t] = 5 /\ call = "unlock"
            \/ /\ t = "t2"
               /\ \/ pc[t] = 1 /\ call = "wait_full"
                  \/ pc[t] = 2 /\ call = "lock"
                  \/ pc[t] = 3 /\ call = "take"
                  \/ pc[t] = 4 /\ call = "unlock"
                  \/ pc[t] = 5 /\ call = "post_empty"
         /\ After(t) = IF pc[t] = 5 THEN 1 ELSE pc[t] + 1
<1>1. pc[t] \in 1..Len(Row(t)) /\ Row(t)[pc[t]] = call
  BY Positions
<1>2. After(t) = IF pc[t] = Len(Row(t)) /\ t # "main" THEN 1 ELSE pc[t] + 1
  BY DEF After, Once
<1>3. CASE t = "main"
  BY <1>1, <1>3, BufferRows
<1>4. CASE t = "t1"
  <2> DEFINE row == <<"wait_empty", "lock", "make", "post_full", "unlock">>
  <2>1. pc[t] \in 1..5 /\ row[pc[t]] = call /\ Len(Row(t)) = 5
    BY <1>1, <1>4, BufferRows
  <2>2. row[1] = "wait_empty" /\ row[2] = "lock" /\ row[3] = "make"
        /\ row[4] = "post_full" /\ row[5] = "unlock"
    OBVIOUS
  <2> HIDE DEF row
  <2>3. pc[t] = 1 \/ pc[t] = 2 \/ pc[t] = 3 \/ pc[t] = 4 \/ pc[t] = 5
    BY <2>1
  <2> QED BY <1>2, <1>4, <2>1, <2>2, <2>3
<1>5. CASE t = "t2"
  <2> DEFINE row == <<"wait_full", "lock", "take", "unlock", "post_empty">>
  <2>1. pc[t] \in 1..5 /\ row[pc[t]] = call /\ Len(Row(t)) = 5
    BY <1>1, <1>5, BufferRows
  <2>2. row[1] = "wait_full" /\ row[2] = "lock" /\ row[3] = "take"
        /\ row[4] = "unlock" /\ row[5] = "post_empty"
    OBVIOUS
  <2> HIDE DEF row
  <2>3. pc[t] = 1 \/ pc[t] = 2 \/ pc[t] = 3 \/ pc[t] = 4 \/ pc[t] = 5
    BY <2>1
  <2> QED BY <1>2, <1>5, <2>1, <2>2, <2>3
<1>6. CASE t = "t3"
  BY <1>1, <1>6, BufferRows
<1> QED BY <1>3, <1>4, <1>5, <1>6 DEF Threads

\* Which thread of the sample makes which call.
LEMMA SampleAt ==
  ASSUME TypeOK, lesson = "sample", NEW t \in Threads, NEW call, At(t, call)
  PROVE  /\ \/ /\ t = "t1"
               /\ \/ pc[t] = 1 /\ call = "lock"
                  \/ pc[t] = 2 /\ call = "make"
                  \/ pc[t] = 3 /\ call = "unlock"
                  \/ pc[t] = 4 /\ call = "post_full"
            \/ /\ t = "t2" \/ t = "t3"
               /\ \/ pc[t] = 1 /\ call = "wait_full"
                  \/ pc[t] = 2 /\ call = "lock"
                  \/ pc[t] = 3 /\ call = "take"
                  \/ pc[t] = 4 /\ call = "unlock"
         /\ After(t) = IF pc[t] = 4 THEN 1 ELSE pc[t] + 1
<1>1. pc[t] \in 1..Len(Row(t)) /\ Row(t)[pc[t]] = call
  BY Positions
<1>2. After(t) = IF pc[t] = Len(Row(t)) /\ t # "main" THEN 1 ELSE pc[t] + 1
  BY DEF After, Once
<1>3. CASE t = "main"
  BY <1>1, <1>3, SampleRows
<1>4. CASE t = "t1"
  <2> DEFINE row == <<"lock", "make", "unlock", "post_full">>
  <2>1. pc[t] \in 1..4 /\ row[pc[t]] = call /\ Len(Row(t)) = 4
    BY <1>1, <1>4, SampleRows
  <2>2. row[1] = "lock" /\ row[2] = "make" /\ row[3] = "unlock" /\ row[4] = "post_full"
    OBVIOUS
  <2> HIDE DEF row
  <2>3. pc[t] = 1 \/ pc[t] = 2 \/ pc[t] = 3 \/ pc[t] = 4
    BY <2>1
  <2> QED BY <1>2, <1>4, <2>1, <2>2, <2>3
<1>5. CASE t = "t2" \/ t = "t3"
  <2> DEFINE row == <<"wait_full", "lock", "take", "unlock">>
  <2>1. pc[t] \in 1..4 /\ row[pc[t]] = call /\ Len(Row(t)) = 4 /\ t # "main"
    BY <1>1, <1>5, SampleRows
  <2>2. row[1] = "wait_full" /\ row[2] = "lock" /\ row[3] = "take" /\ row[4] = "unlock"
    OBVIOUS
  <2> HIDE DEF row
  <2>3. pc[t] = 1 \/ pc[t] = 2 \/ pc[t] = 3 \/ pc[t] = 4
    BY <2>1
  <2> QED BY <1>2, <1>5, <2>1, <2>2, <2>3
<1> QED BY <1>3, <1>4, <1>5 DEF Threads

\* Which thread of the limit lesson makes which call.
LEMMA LimitAt ==
  ASSUME TypeOK, lesson = "limit", NEW t \in Threads, NEW call, At(t, call)
  PROVE  /\ \/ t = "main" /\ call = "join"
            \/ /\ t = "t1"
               /\ \/ pc[t] = 1 /\ call = "test"
                  \/ pc[t] = 2 /\ call = "lock"
                  \/ pc[t] = 3 /\ call = "make"
                  \/ pc[t] = 4 /\ call = "unlock"
                  \/ pc[t] = 5 /\ call = "post_full"
            \/ /\ t = "t2" \/ t = "t3"
               /\ \/ pc[t] = 1 /\ call = "test"
                  \/ pc[t] = 2 /\ call = "wait_full"
                  \/ pc[t] = 3 /\ call = "lock"
                  \/ pc[t] = 4 /\ call = "take"
                  \/ pc[t] = 5 /\ call = "unlock"
         /\ t # "main" => /\ End(t) = 6
                          /\ After(t) = IF pc[t] = 5 THEN 1 ELSE pc[t] + 1
<1>1. pc[t] \in 1..Len(Row(t)) /\ Row(t)[pc[t]] = call
  BY Positions
<1>2. After(t) = IF pc[t] = Len(Row(t)) /\ t # "main" THEN 1 ELSE pc[t] + 1
  BY DEF After, Once
<1>3. CASE t = "main"
  BY <1>1, <1>3, LimitRows
<1>4. CASE t = "t1"
  <2> DEFINE row == <<"test", "lock", "make", "unlock", "post_full">>
  <2>1. pc[t] \in 1..5 /\ row[pc[t]] = call /\ Len(Row(t)) = 5 /\ End(t) = 6
    <3>1. pc[t] \in 1..5 /\ row[pc[t]] = call /\ Len(Row(t)) = 5 /\ t # "main"
      BY <1>1, <1>4, LimitRows
    <3> QED BY <3>1 DEF End
  <2>2. row[1] = "test" /\ row[2] = "lock" /\ row[3] = "make"
        /\ row[4] = "unlock" /\ row[5] = "post_full"
    OBVIOUS
  <2> HIDE DEF row
  <2>3. pc[t] = 1 \/ pc[t] = 2 \/ pc[t] = 3 \/ pc[t] = 4 \/ pc[t] = 5
    BY <2>1
  <2> QED BY <1>2, <1>4, <2>1, <2>2, <2>3
<1>5. CASE t = "t2" \/ t = "t3"
  <2> DEFINE row == <<"test", "wait_full", "lock", "take", "unlock">>
  <2>1. pc[t] \in 1..5 /\ row[pc[t]] = call /\ Len(Row(t)) = 5 /\ t # "main" /\ End(t) = 6
    <3>1. Row(t) = row /\ t # "main"
      BY <1>5, LimitRows
    <3>2. pc[t] \in 1..5 /\ row[pc[t]] = call /\ Len(Row(t)) = 5
      BY <1>1, <3>1
    <3> QED BY <3>1, <3>2 DEF End
  <2>2. row[1] = "test" /\ row[2] = "wait_full" /\ row[3] = "lock"
        /\ row[4] = "take" /\ row[5] = "unlock"
    OBVIOUS
  <2> HIDE DEF row
  <2>3. pc[t] = 1 \/ pc[t] = 2 \/ pc[t] = 3 \/ pc[t] = 4 \/ pc[t] = 5
    BY <2>1
  <2> QED BY <1>2, <1>5, <2>1, <2>2, <2>3
<1> QED BY <1>3, <1>4, <1>5 DEF Threads

\* A thread that moves inside its row keeps the positions' type.
LEMMA MovesInRow ==
  ASSUME TypeOK, NEW t \in Threads, NEW l \in 1..End(t), End(t) \in 1..6,
         pc' = [pc EXCEPT ![t] = l], lesson' = lesson
  PROVE  pc' \in [Threads -> 1..6] /\ \A u \in Threads : pc'[u] <= End(u)'
<1>1. \A u \in Threads : End(u)' = End(u)
  BY DEF End, Row
<1>2. ASSUME NEW u \in Threads
      PROVE  End(u) \in 1..6
  <2> DEFINE len == Len(Row(u))
  <2>1. len \in 0..5
    BY RowShape DEF TypeOK
  <2>2. End(u) = len + 1
    BY DEF End
  <2> HIDE DEF len
  <2> QED BY <2>1, <2>2
<1> QED BY <1>1, <1>2 DEF TypeOK

\* Types, for every lesson; Take needs the counts of the lessons it is in.
LEMMA TypeStep ==
  ASSUME IInv, NEW t \in Threads, Thread(t)
  PROVE  TypeOK'
<1>1. TypeOK
  BY DEF IInv
<1> USE DEF semaphores, data
<1>2. ASSUME NEW call, Advance(t, call), lesson' = lesson
      PROVE  pc' \in [Threads -> 1..6] /\ \A u \in Threads : pc'[u] <= End(u)'
  BY <1>1, <1>2, Positions, MovesInRow DEF Advance
<1>3. CASE Lock(t) \/ Unlock(t)
  BY <1>1, <1>2, <1>3 DEF TypeOK, Lock, Unlock
<1>4. CASE WaitFull(t) \/ PostFull(t) \/ WaitEmpty(t) \/ PostEmpty(t)
  BY <1>1, <1>2, <1>4 DEF TypeOK, WaitFull, PostFull, WaitEmpty, PostEmpty
<1>5. CASE Count(t) \/ Poll(t) \/ Join(t)
  BY <1>1, <1>2, <1>5 DEF TypeOK, Count, Poll, Join
<1>11. CASE Wait(t)
  BY <1>1, <1>2, <1>11 DEF TypeOK, Wait
<1>12. CASE Signal(t)
  <2>1. woken' \in BOOLEAN
    BY <1>12 DEF Signal
  <2> QED BY <1>1, <1>2, <1>12, <2>1 DEF TypeOK, Signal
<1>6. CASE CountUp(t)
  <2>1. CASE counter < Threshold
    BY <1>1, <1>6, <2>1 DEF TypeOK, CountUp, End, Row
  <2>2. CASE ~(counter < Threshold)
    BY <1>1, <1>2, <1>6, <2>2 DEF TypeOK, CountUp
  <2> QED BY <2>1, <2>2
<1>7. CASE Wake(t)
  <2>1. pc[t] \in 1..Len(Row(t)) /\ Row(t)[pc[t]] = "wake" /\ End(t) \in 1..6
    BY <1>1, <1>7, Positions DEF Wake
  <2>2. pc[t] # 1 /\ Len(Row(t)) \in 0..5
    BY <1>1, <2>1, RowShape DEF TypeOK
  <2>3. pc[t] - 1 \in 1..End(t) /\ pc[t] + 1 \in 1..End(t)
    BY <2>1, <2>2 DEF End
  <2>4. pc' \in [Threads -> 1..6] /\ \A u \in Threads : pc'[u] <= End(u)'
    BY <1>1, <1>7, <2>1, <2>3, MovesInRow DEF Wake
  <2> QED BY <1>1, <1>7, <2>4 DEF TypeOK, Wake
<1>8. CASE Test(t)
  <2>1. CASE counter = Threshold
    <3>1. At(t, "test") /\ pc' = [pc EXCEPT ![t] = End(t)] /\ lesson' = lesson
      BY <1>8, <2>1 DEF Test
    <3>2. End(t) \in 1..6 /\ End(t) \in 1..End(t)
      BY <1>1, <3>1, Positions
    <3>3. pc' \in [Threads -> 1..6] /\ \A u \in Threads : pc'[u] <= End(u)'
      BY <1>1, <3>1, <3>2, MovesInRow
    <3> QED BY <1>1, <1>8, <3>3 DEF TypeOK, Test
  <2>2. CASE counter # Threshold
    BY <1>1, <1>2, <1>8, <2>2 DEF TypeOK, Test
  <2> QED BY <2>1, <2>2
<1>9. CASE Make(t)
  <2>1. CASE lesson = "limit" /\ counter' = Threshold
    <3>1. At(t, "make") /\ pc' = [pc EXCEPT ![t] = End(t)] /\ lesson' = lesson
      BY <1>9, <2>1 DEF Make
    <3>2. End(t) \in 1..6 /\ End(t) \in 1..End(t)
      BY <1>1, <3>1, Positions
    <3>3. pc' \in [Threads -> 1..6] /\ \A u \in Threads : pc'[u] <= End(u)'
      BY <1>1, <3>1, <3>2, MovesInRow
    <3> QED BY <1>1, <1>9, <3>3 DEF TypeOK, Make
  <2>2. CASE ~(lesson = "limit" /\ counter' = Threshold)
    BY <1>1, <1>2, <1>9, <2>2 DEF TypeOK, Make
  <2> QED BY <2>1, <2>2
<1>10. CASE Take(t)
  <2>1. pc[t] \in 1..Len(Row(t)) /\ Row(t)[pc[t]] = "take"
    BY <1>1, <1>10, Positions DEF Take, Advance
  <2>2. CASE lesson = "sample"
    BY <1>1, <1>2, <1>10, <2>2 DEF TypeOK, Take
  <2>3. CASE lesson = "buffer"
    <3>1. t = "t2" /\ pc[t] = 3
      BY <2>1, <2>3, BufferRows DEF Threads
    <3>2. counter > 0
      BY <1>1, <2>3, <3>1 DEF IInv, BufferInv, One, TypeOK
    <3> QED BY <1>1, <1>2, <1>10, <2>3, <3>2 DEF TypeOK, Take
  <2>4. CASE lesson = "limit"
    <3>1. (t = "t2" \/ t = "t3") /\ pc[t] = 4
      BY <1>1, <1>10, <2>4, LimitAt DEF Take, Advance
    <3>2. counter > 0
      BY <1>1, <2>4, <3>1 DEF IInv, LimitInv, One, TypeOK
    <3> QED BY <1>1, <1>2, <1>10, <2>4, <3>2 DEF TypeOK, Take
  <2>5. CASE lesson \in Once
    BY <1>1, <2>1, <2>5, RowShape DEF TypeOK
  <2> QED BY <1>1, <2>2, <2>3, <2>4, <2>5 DEF TypeOK, Lessons, Once
<1> QED BY <1>3, <1>4, <1>5, <1>6, <1>7, <1>8, <1>9, <1>10, <1>11, <1>12
  DEF Thread

-----------------------------------------------------------------------------
(* The lessons on semaphores, one at a time.                               *)

\* A call by which the thread goes to the next one of its row.
Plain(t, call) ==
  At(t, call) /\ pc' = [pc EXCEPT ![t] = After(t)] /\ lesson' = lesson

\* A step of a buffer thread keeps the account of its two semaphores.
LEMMA BufferStep ==
  ASSUME IInv, NEW t \in Threads, Thread(t), lesson = "buffer"
  PROVE  BufferInv'
<1>1. TypeOK /\ BufferInv /\ {"t1", "t2"} \subseteq Threads
  BY DEF IInv, Threads
<1> USE DEF semaphores, data, Advance
<1>2. ASSUME NEW call, Plain(t, call)
      PROVE  /\ pc'[t] = IF pc[t] = 5 THEN 1 ELSE pc[t] + 1
             /\ \A u \in Threads \ {t} : pc'[u] = pc[u]
             /\ lesson' = "buffer"
  BY <1>1, <1>2, BufferAt DEF Plain, TypeOK
<1>3. CASE WaitFull(t)
  <2>1. Plain(t, "wait_full") /\ full > 0 /\ full' = full - 1
        /\ empty' = empty /\ counter' = counter
    BY <1>3 DEF WaitFull, Plain
  <2>2. t = "t2" /\ pc[t] = 1
    BY <1>1, <2>1, BufferAt DEF Plain
  <2> QED BY <1>1, <1>2, <2>1, <2>2 DEF BufferInv, One, TypeOK
<1>4. CASE PostFull(t)
  <2>1. Plain(t, "post_full") /\ full' = full + 1 /\ empty' = empty /\ counter' = counter
    BY <1>4 DEF PostFull, Plain
  <2>2. t = "t1" /\ pc[t] = 4
    BY <1>1, <2>1, BufferAt DEF Plain
  <2> QED BY <1>1, <1>2, <2>1, <2>2 DEF BufferInv, One, TypeOK
<1>5. CASE WaitEmpty(t)
  <2>1. Plain(t, "wait_empty") /\ full' = full /\ empty' = empty - 1 /\ counter' = counter
    BY <1>5 DEF WaitEmpty, Plain
  <2>2. t = "t1" /\ pc[t] = 1
    BY <1>1, <2>1, BufferAt DEF Plain
  <2> QED BY <1>1, <1>2, <2>1, <2>2 DEF BufferInv, One, TypeOK
<1>6. CASE PostEmpty(t)
  <2>1. Plain(t, "post_empty") /\ full' = full /\ empty' = empty + 1 /\ counter' = counter
    BY <1>6 DEF PostEmpty, Plain
  <2>2. t = "t2" /\ pc[t] = 5
    BY <1>1, <2>1, BufferAt DEF Plain
  <2> QED BY <1>1, <1>2, <2>1, <2>2 DEF BufferInv, One, TypeOK
<1>7. CASE Lock(t) \/ Unlock(t)
  <2>1. /\ Plain(t, "lock") \/ Plain(t, "unlock")
        /\ full' = full /\ empty' = empty /\ counter' = counter
    BY <1>7 DEF Lock, Unlock, Plain
  <2>2. \/ t = "t1" /\ pc[t] \in {2, 5}
        \/ t = "t2" /\ pc[t] \in {2, 4}
    BY <1>1, <2>1, BufferAt DEF Plain
  <2> QED BY <1>1, <1>2, <2>1, <2>2 DEF BufferInv, One, TypeOK
<1>8. CASE Make(t)
  <2>1. Plain(t, "make") /\ full' = full /\ empty' = empty /\ counter' = counter + 1
    BY <1>8 DEF Make, Plain
  <2>2. t = "t1" /\ pc[t] = 3
    BY <1>1, <2>1, BufferAt DEF Plain
  <2> QED BY <1>1, <1>2, <2>1, <2>2 DEF BufferInv, One, TypeOK
<1>9. CASE Take(t)
  <2>1. Plain(t, "take") /\ full' = full /\ empty' = empty /\ counter' = counter - 1
    BY <1>9 DEF Take, Plain
  <2>2. t = "t2" /\ pc[t] = 3
    BY <1>1, <2>1, BufferAt DEF Plain
  <2> QED BY <1>1, <1>2, <2>1, <2>2 DEF BufferInv, One, TypeOK
<1>10. ~(\/ Count(t) \/ CountUp(t) \/ Poll(t) \/ Wait(t) \/ Wake(t) \/ Signal(t)
         \/ Join(t) \/ Test(t))
  <2>1. ASSUME NEW call \in {"count", "count_up", "poll", "wait", "wake", "signal", "join",
                             "test"}
        PROVE  ~At(t, call)
    BY <1>1, BufferAt
  <2> QED BY <2>1 DEF Count, CountUp, Poll, Wait, Wake, Signal, Join, Test
<1> QED BY <1>3, <1>4, <1>5, <1>6, <1>7, <1>8, <1>9, <1>10 DEF Thread

\* A step of a sample thread keeps its part of the invariant.
LEMMA SampleStep ==
  ASSUME IInv, NEW t \in Threads, Thread(t), lesson = "sample"
  PROVE  SampleInv'
<1>1. TypeOK /\ SampleInv /\ {"t1", "t2", "t3"} \subseteq Threads
  BY DEF IInv, Threads
<1> USE DEF semaphores, data, Advance
<1>2. ASSUME NEW call, Plain(t, call)
      PROVE  /\ pc'[t] = IF pc[t] = 4 THEN 1 ELSE pc[t] + 1
             /\ \A u \in Threads \ {t} : pc'[u] = pc[u]
             /\ lesson' = "sample"
  BY <1>1, <1>2, SampleAt DEF Plain, TypeOK
<1>3. CASE WaitFull(t)
  <2>1. Plain(t, "wait_full") /\ data' = data
    BY <1>3 DEF WaitFull, Plain
  <2>2. (t = "t2" \/ t = "t3") /\ pc[t] = 1
    BY <1>1, <2>1, SampleAt DEF Plain
  <2> QED BY <1>1, <1>2, <2>1, <2>2 DEF SampleInv, TypeOK
<1>4. CASE PostFull(t)
  <2>1. Plain(t, "post_full") /\ full' = full + 1 /\ data' = data
    BY <1>4 DEF PostFull, Plain
  <2>2. t = "t1" /\ pc[t] = 4
    BY <1>1, <2>1, SampleAt DEF Plain
  <2> QED BY <1>1, <1>2, <2>1, <2>2 DEF SampleInv, TypeOK
<1>5. CASE Lock(t) \/ Unlock(t)
  <2>1. (Plain(t, "lock") \/ Plain(t, "unlock")) /\ full' = full /\ data' = data
    BY <1>5 DEF Lock, Unlock, Plain
  <2>2. \/ t = "t1" /\ pc[t] \in {1, 3}
        \/ (t = "t2" \/ t = "t3") /\ pc[t] \in {2, 4}
    BY <1>1, <2>1, SampleAt DEF Plain
  <2> QED BY <1>1, <1>2, <2>1, <2>2 DEF SampleInv, TypeOK
<1>6. CASE Make(t)
  <2>1. Plain(t, "make") /\ counter' = counter + 1 /\ available' = 1 /\ consumed' = consumed
    BY <1>6 DEF Make, Plain
  <2>2. t = "t1" /\ pc[t] = 2
    BY <1>1, <2>1, SampleAt DEF Plain
  <2> QED BY <1>1, <1>2, <2>1, <2>2 DEF SampleInv, TypeOK
<1>7. CASE Take(t)
  <2>1. Plain(t, "take") /\ counter' = counter /\ available' = 0
        /\ consumed' = consumed + available
    BY <1>7 DEF Take, Plain
  <2>2. (t = "t2" \/ t = "t3") /\ pc[t] = 3
    BY <1>1, <2>1, SampleAt DEF Plain
  <2> QED BY <1>1, <1>2, <2>1, <2>2 DEF SampleInv, TypeOK
<1>8. ~(\/ Count(t) \/ CountUp(t) \/ Poll(t) \/ Wait(t) \/ Wake(t) \/ Signal(t)
        \/ Join(t) \/ Test(t) \/ WaitEmpty(t) \/ PostEmpty(t))
  <2>1. ASSUME NEW call \in {"count", "count_up", "poll", "wait", "wake", "signal", "join",
                             "test", "wait_empty", "post_empty"}
        PROVE  ~At(t, call)
    BY <1>1, SampleAt
  <2> QED BY <2>1 DEF Count, CountUp, Poll, Wait, Wake, Signal, Join, Test, WaitEmpty, PostEmpty
<1> QED BY <1>3, <1>4, <1>5, <1>6, <1>7, <1>8 DEF Thread

\* A step of a limit thread keeps its part of the invariant.
LEMMA LimitStep ==
  ASSUME IInv, NEW t \in Threads, Thread(t), lesson = "limit"
  PROVE  LimitInv'
<1>1. TypeOK /\ LimitInv /\ {"t1", "t2", "t3"} \subseteq Threads /\ Threshold \in Nat
  BY SizesAssumption DEF IInv, Threads
<1> USE DEF semaphores, data, Advance
<1>2. ASSUME NEW call, Plain(t, call)
      PROVE  /\ t # "main" => pc'[t] = IF pc[t] = 5 THEN 1 ELSE pc[t] + 1
             /\ \A u \in Threads \ {t} : pc'[u] = pc[u]
             /\ lesson' = "limit"
  BY <1>1, <1>2, LimitAt DEF Plain, TypeOK
<1>3. CASE WaitFull(t)
  <2>1. Plain(t, "wait_full") /\ full' = full - 1 /\ counter' = counter
    BY <1>3 DEF WaitFull, Plain
  <2>2. (t = "t2" \/ t = "t3") /\ pc[t] = 2
    BY <1>1, <2>1, LimitAt DEF Plain
  <2> QED BY <1>1, <1>2, <2>1, <2>2 DEF LimitInv, One, TypeOK
<1>4. CASE PostFull(t)
  <2>1. Plain(t, "post_full") /\ full' = full + 1 /\ counter' = counter
    BY <1>4 DEF PostFull, Plain
  <2>2. t = "t1" /\ pc[t] = 5
    BY <1>1, <2>1, LimitAt DEF Plain
  <2> QED BY <1>1, <1>2, <2>1, <2>2 DEF LimitInv, One, TypeOK
<1>5. CASE Lock(t) \/ Unlock(t)
  <2>1. (Plain(t, "lock") \/ Plain(t, "unlock")) /\ full' = full /\ counter' = counter
    BY <1>5 DEF Lock, Unlock, Plain
  <2>2. \/ t = "t1" /\ pc[t] \in {2, 4}
        \/ (t = "t2" \/ t = "t3") /\ pc[t] \in {3, 5}
    BY <1>1, <2>1, LimitAt DEF Plain
  <2> QED BY <1>1, <1>2, <2>1, <2>2 DEF LimitInv, One, TypeOK
<1>6. CASE Join(t)
  <2>1. Plain(t, "join") /\ full' = full /\ counter' = counter
    BY <1>6 DEF Join, Plain
  <2>2. t = "main"
    BY <1>1, <2>1, LimitAt DEF Plain
  <2> QED BY <1>1, <1>2, <2>1, <2>2 DEF LimitInv, One, TypeOK
<1>7. CASE Test(t)
  <2>1. At(t, "test") /\ full' = full /\ counter' = counter /\ lesson' = "limit"
    BY <1>1, <1>7 DEF Test
  <2>2. (t = "t1" \/ t = "t2" \/ t = "t3") /\ pc[t] = 1 /\ End(t) = 6
    BY <1>1, <2>1, LimitAt
  <2>3. \A u \in Threads \ {t} : pc'[u] = pc[u]
    BY <1>1, <1>7 DEF Test, TypeOK
  <2>4. CASE counter = Threshold
    \* The producer does not test at its limit: it left when it got there.
    <3>1. pc'[t] = 6 /\ pc["t1"] = 6
      BY <1>1, <1>7, <2>2, <2>4 DEF Test, TypeOK, LimitInv
    <3> QED BY <1>1, <2>1, <2>2, <2>3, <3>1 DEF LimitInv, One, TypeOK
  <2>5. CASE counter # Threshold
    <3>1. pc'[t] = 2
      BY <1>1, <1>2, <1>7, <2>2, <2>5 DEF Test, Plain
    <3> QED BY <1>1, <2>1, <2>2, <2>3, <3>1 DEF LimitInv, One, TypeOK
  <2> QED BY <2>4, <2>5
<1>8. CASE Make(t)
  <2>1. At(t, "make") /\ full' = full /\ counter' = counter + 1 /\ lesson' = "limit"
    BY <1>1, <1>8 DEF Make
  <2>2. t = "t1" /\ pc[t] = 3 /\ End(t) = 6
    BY <1>1, <2>1, LimitAt
  <2>3. \A u \in Threads \ {t} : pc'[u] = pc[u]
    BY <1>1, <1>8 DEF Make, TypeOK
  <2>4. pc'[t] = IF counter' = Threshold THEN 6 ELSE 4
    <3>1. CASE counter' = Threshold
      BY <1>1, <1>8, <2>2, <3>1 DEF Make, TypeOK
    <3>2. CASE counter' # Threshold
      BY <1>1, <1>2, <1>8, <2>1, <2>2, <3>2 DEF Make, Plain
    <3> QED BY <3>1, <3>2
  <2> QED BY <1>1, <2>1, <2>2, <2>3, <2>4 DEF LimitInv, One, TypeOK
<1>9. CASE Take(t)
  <2>1. Plain(t, "take") /\ full' = full /\ counter' = counter - 1
    BY <1>1, <1>9 DEF Take, Plain
  <2>2. (t = "t2" \/ t = "t3") /\ pc[t] = 4
    BY <1>1, <2>1, LimitAt DEF Plain
  <2> QED BY <1>1, <1>2, <2>1, <2>2 DEF LimitInv, One, TypeOK
<1>10. ~(\/ Count(t) \/ CountUp(t) \/ Poll(t) \/ Wait(t) \/ Wake(t) \/ Signal(t)
         \/ WaitEmpty(t) \/ PostEmpty(t))
  <2>1. ASSUME NEW call \in {"count", "count_up", "poll", "wait", "wake", "signal",
                             "wait_empty", "post_empty"}
        PROVE  ~At(t, call)
    BY <1>1, LimitAt
  <2> QED BY <2>1 DEF Count, CountUp, Poll, Wait, Wake, Signal, WaitEmpty, PostEmpty
<1> QED BY <1>3, <1>4, <1>5, <1>6, <1>7, <1>8, <1>9, <1>10 DEF Thread

-----------------------------------------------------------------------------
(* The theorems.                                                           *)

\* Every lesson starts with its part of the invariant.
LEMMA InitInv == Init => IInv
<1> SUFFICES ASSUME Init PROVE IInv
  OBVIOUS
<1>1. \A t \in Threads : pc[t] = 1
  BY DEF Init
<1>2. ASSUME NEW t \in Threads
      PROVE  1 <= End(t)
  <2> DEFINE len == Len(Row(t))
  <2>1. len \in 0..5
    BY RowShape DEF Init
  <2>2. End(t) = len + 1
    BY DEF End
  <2> HIDE DEF len
  <2> QED BY <2>1, <2>2
<1>3. TypeOK
  <2>1. pc \in [Threads -> 1..6] /\ \A t \in Threads : pc[t] <= End(t)
    BY <1>1, <1>2 DEF Init
  <2>2. counter \in Nat
    BY DEF Init
  <2> QED BY <2>1, <2>2, SizesAssumption DEF Init, TypeOK
<1>4. pc["t1"] = 1 /\ pc["t2"] = 1 /\ pc["t3"] = 1
  BY <1>1 DEF Threads
<1> QED BY <1>3, <1>4, SizesAssumption DEF Init, IInv, BufferInv, SampleInv, LimitInv, One

\* Nothing in the invariant depends on anything but vars.
LEMMA StutterStep == IInv /\ UNCHANGED vars => IInv'
BY DEF IInv, TypeOK, BufferInv, SampleInv, LimitInv, One, End, Row,
       vars, semaphores, data

\* The counts of every lesson on semaphores hold at all times.
THEOREM InductiveInvariant == Spec => []IInv
<1>1. ASSUME IInv, [Next]_vars
      PROVE  IInv'
  <2>1. CASE UNCHANGED vars
    BY <1>1, <2>1, StutterStep
  <2>2. ASSUME NEW t \in Threads, Thread(t)
        PROVE  IInv'
    <3>1. lesson' = lesson
      BY <2>2 DEF Thread, Lock, Unlock, WaitFull, PostFull, WaitEmpty, PostEmpty, Count,
                  CountUp, Poll, Wait, Wake, Signal, Join, Test, Make, Take
    <3> QED BY <1>1, <2>2, <3>1, TypeStep, BufferStep, SampleStep, LimitStep
            DEF IInv, BufferInv, SampleInv, LimitInv
  <2> QED BY <1>1, <2>1, <2>2 DEF Next
<1> QED BY <1>1, InitInv, PTL DEF Spec

\* Every variable keeps its type; in particular the two consumers of the limit
\* lesson, which decrement the buffer without a test, never take it below zero.
THEOREM TypeCorrectness == Spec => []TypeOK
BY InductiveInvariant, PTL DEF IInv

\* How many elements a set with one or two possible ones has.
LEMMA OneOrNone ==
  ASSUME NEW S, NEW x, NEW c \in BOOLEAN, c => S = {x}, ~c => S = {}
  PROVE  Cardinality(S) = One(c)
<1>1. CASE c
  BY <1>1, FS_Singleton DEF One
<1>2. CASE ~c
  BY <1>2, FS_EmptySet DEF One
<1> QED BY <1>1, <1>2

\* The members of a set of at most two elements are counted one by one.
LEMMA OneOfTwo ==
  ASSUME NEW S, NEW x, NEW y, x # y, S \subseteq {x, y}
  PROVE  Cardinality(S) = One(x \in S) + One(y \in S)
<1>1. CASE x \in S
  <2>1. IsFiniteSet({x}) /\ Cardinality({x}) = 1
    BY FS_Singleton
  <2>2. CASE y \in S
    <3>1. S = {x} \cup {y} /\ y \notin {x}
      BY <1>1, <2>2
    <3>2. Cardinality({x} \cup {y}) = Cardinality({x}) + 1
      BY <2>1, <3>1, FS_AddElement
    <3> QED BY <1>1, <2>1, <2>2, <3>1, <3>2 DEF One
  <2>3. CASE y \notin S
    <3>1. S = {x}
      BY <1>1, <2>3
    <3> QED BY <1>1, <2>1, <2>3, <3>1 DEF One
  <2> QED BY <2>2, <2>3
<1>2. CASE x \notin S
  <2>1. y \in S => S = {y}
    BY <1>2
  <2>2. y \notin S => S = {}
    BY <1>2
  <2>3. Cardinality(S) = One(y \in S)
    BY <2>1, <2>2, FS_Singleton, FS_EmptySet DEF One
  <2> QED BY <1>2, <2>3 DEF One
<1> QED BY <1>1, <1>2

\* In the buffer lesson full, whose value the parent prints as the items in
\* the buffer, counts them, and there is room for them all; in the limit lesson
\* the semaphore and the last product make up the buffer.
THEOREM SemaphoreTheorem == Spec => []SemaphoreCountsThings
<1>1. ASSUME IInv, lesson = "buffer"
      PROVE  BufferTokens
  <2>1. TypeOK /\ BufferInv /\ {"t1", "t2"} \subseteq Threads /\ BufferSize \in Nat
    BY <1>1, SizesAssumption DEF IInv, Threads
  <2>2. At("t1", "post_full") <=> pc["t1"] = 4
    <3>1. pc["t1"] = 4 => At("t1", "post_full")
      BY <1>1, BufferRows DEF At, Over, End
    <3> QED BY <1>1, <2>1, <3>1, BufferAt
  <2>3. \A t \in Threads : At(t, "post_full") => t = "t1"
    BY <1>1, <2>1, BufferAt
  <2>4. At("t2", "lock") \/ At("t2", "take") <=> pc["t2"] \in {2, 3}
    <3>1. pc["t2"] = 2 => At("t2", "lock")
      BY <1>1, BufferRows DEF At, Over, End
    <3>2. pc["t2"] = 3 => At("t2", "take")
      BY <1>1, BufferRows DEF At, Over, End
    <3>3. At("t2", "lock") \/ At("t2", "take") => pc["t2"] \in {2, 3}
      BY <1>1, <2>1, BufferAt
    <3> QED BY <3>1, <3>2, <3>3
  <2>5. Before({"post_full"}) = One(pc["t1"] = 4)
    <3> DEFINE S == {t \in Threads : \E c \in {"post_full"} : At(t, c)}
    <3>1. (pc["t1"] = 4 => S = {"t1"}) /\ (pc["t1"] # 4 => S = {})
      BY <2>1, <2>2, <2>3
    <3>2. Cardinality(S) = One(pc["t1"] = 4)
      BY <3>1, OneOrNone
    <3> QED BY <3>2 DEF Before
  <2>6. Cardinality({t \in {"t2"} : At(t, "lock") \/ At(t, "take")}) = One(pc["t2"] \in {2, 3})
    <3> DEFINE S == {t \in {"t2"} : At(t, "lock") \/ At(t, "take")}
    <3>1. (pc["t2"] \in {2, 3} => S = {"t2"}) /\ (pc["t2"] \notin {2, 3} => S = {})
      BY <2>4
    <3> HIDE DEF S
    <3>2. Cardinality(S) = One(pc["t2"] \in {2, 3})
      BY <3>1, FS_Singleton, FS_EmptySet DEF One
    <3> QED BY <3>2 DEF S
  <2>7. counter <= BufferSize
    BY <1>1, <2>1 DEF BufferInv, One, TypeOK
  <2> QED BY <1>1, <2>1, <2>5, <2>6, <2>7 DEF BufferTokens, BufferInv
<1>2. ASSUME IInv, lesson = "limit"
      PROVE  LimitTokens
  <2>1. TypeOK /\ LimitInv /\ {"t1", "t2", "t3"} \subseteq Threads /\ Threshold \in Nat
    BY <1>2, SizesAssumption DEF IInv, Threads
  <2>2. /\ At("t1", "post_full") <=> pc["t1"] = 5
        /\ At("t1", "unlock") \/ Over("t1") <=> pc["t1"] \in {4, 6}
    <3>1. pc["t1"] = 5 => At("t1", "post_full")
      BY <1>2, LimitRows DEF At, Over, End
    <3>2. pc["t1"] = 4 => At("t1", "unlock")
      BY <1>2, LimitRows DEF At, Over, End
    <3>3. Over("t1") <=> pc["t1"] = 6
      <4> DEFINE len == Len(Row("t1"))
      <4>1. len = 5
        BY <1>2, LimitRows
      <4>2. Over("t1") <=> pc["t1"] = len + 1
        BY DEF Over, End
      <4> HIDE DEF len
      <4> QED BY <4>1, <4>2
    <3> QED BY <1>2, <2>1, <3>1, <3>2, <3>3, LimitAt
  <2>3. \A t \in Threads : At(t, "post_full") => t = "t1"
    BY <1>2, <2>1, LimitAt
  <2>4. ASSUME NEW t \in {"t2", "t3"}
        PROVE  At(t, "lock") \/ At(t, "take") <=> pc[t] \in {3, 4}
    <3>1. pc[t] = 3 => At(t, "lock")
      BY <1>2, LimitRows DEF At, Over, End
    <3>2. pc[t] = 4 => At(t, "take")
      BY <1>2, LimitRows DEF At, Over, End
    <3>3. At(t, "lock") \/ At(t, "take") => pc[t] \in {3, 4}
      BY <1>2, <2>1, LimitAt
    <3> QED BY <3>1, <3>2, <3>3
  <2>5. Before({"post_full"}) = One(pc["t1"] = 5)
    <3> DEFINE S == {t \in Threads : \E c \in {"post_full"} : At(t, c)}
    <3>1. (pc["t1"] = 5 => S = {"t1"}) /\ (pc["t1"] # 5 => S = {})
      BY <2>1, <2>2, <2>3
    <3>2. Cardinality(S) = One(pc["t1"] = 5)
      BY <3>1, OneOrNone
    <3> QED BY <3>2 DEF Before
  <2>6. Cardinality({t \in {"t2", "t3"} : At(t, "lock") \/ At(t, "take")})
          = One(pc["t2"] \in {3, 4}) + One(pc["t3"] \in {3, 4})
    <3> DEFINE S == {t \in {"t2", "t3"} : At(t, "lock") \/ At(t, "take")}
    <3>1. ("t2" \in S <=> pc["t2"] \in {3, 4}) /\ ("t3" \in S <=> pc["t3"] \in {3, 4})
      BY <2>4
    <3>2. S \subseteq {"t2", "t3"}
      OBVIOUS
    <3> HIDE DEF S
    <3>3. Cardinality(S) = One("t2" \in S) + One("t3" \in S)
      BY <3>2, OneOfTwo
    <3>4. One("t2" \in S) = One(pc["t2"] \in {3, 4}) /\ One("t3" \in S) = One(pc["t3"] \in {3, 4})
      BY <3>1 DEF One
    <3> QED BY <3>3, <3>4 DEF S
  <2> DEFINE waiting == Cardinality({t \in {"t2", "t3"} : At(t, "lock") \/ At(t, "take")})
             posts == Before({"post_full"})
             last == IF At("t1", "unlock") \/ Over("t1") THEN 1 ELSE 0
  <2>7. waiting = One(pc["t2"] \in {3, 4}) + One(pc["t3"] \in {3, 4})
    BY <2>6
  <2>8. posts = One(pc["t1"] = 5)
    BY <2>5
  <2>9. last = One(pc["t1"] \in {4, 6})
    BY <2>2 DEF One
  <2> HIDE DEF waiting, posts, last
  <2>10. counter = full + posts + last + waiting
    BY <1>2, <2>1, <2>7, <2>8, <2>9 DEF LimitInv, One, TypeOK
  <2> QED BY <1>2, <2>1, <2>10 DEF LimitTokens, LimitInv, waiting, posts, last
<1>3. IInv => SemaphoreCountsThings
  BY <1>1, <1>2 DEF SemaphoreCountsThings
<1> QED BY <1>3, InductiveInvariant, PTL

\* No product of the sample is consumed twice, and one that is available has
\* been announced to, or taken up by, a consumer.
THEOREM OneTakerTheorem == Spec => []OneTakerPerProduct
<1>1. ASSUME IInv, lesson = "sample"
      PROVE  /\ consumed + available <= counter
             /\ available = 1 =>
                  \/ full > 0 \/ At("t1", "unlock") \/ At("t1", "post_full")
                  \/ \E t \in {"t2", "t3"} : At(t, "lock") \/ At(t, "take")
  <2>1. SampleInv
    BY <1>1 DEF IInv
  <2>2. (pc["t1"] = 3 => At("t1", "unlock")) /\ (pc["t1"] = 4 => At("t1", "post_full"))
    BY <1>1, SampleRows DEF At, Over, End
  <2>3. ASSUME NEW t \in {"t2", "t3"}
        PROVE  (pc[t] = 2 => At(t, "lock")) /\ (pc[t] = 3 => At(t, "take"))
    BY <1>1, SampleRows DEF At, Over, End
  <2> QED BY <1>1, <2>1, <2>2, <2>3 DEF SampleInv
<1>2. IInv => OneTakerPerProduct
  BY <1>1 DEF OneTakerPerProduct
<1> QED BY <1>2, InductiveInvariant, PTL

-----------------------------------------------------------------------------
(* The mutex.                                                              *)

\* The positions at which each thread has the mutex: after its lock, before
\* its unlock or wait, and the limit lesson's producer after it gave up.
Section ==
  [mutex     |-> [main |-> {}, t1 |-> {2, 3}, t2 |-> {2, 3}, t3 |-> {}],
   condition |-> [main |-> {2, 4}, t1 |-> {2, 3, 4}, t2 |-> {}, t3 |-> {}],
   polling   |-> [main |-> {}, t1 |-> {2, 3}, t2 |-> {}, t3 |-> {}],
   buffer    |-> [main |-> {}, t1 |-> {3, 4, 5}, t2 |-> {3, 4}, t3 |-> {}],
   sample    |-> [main |-> {}, t1 |-> {2, 3}, t2 |-> {3, 4}, t3 |-> {3, 4}],
   limit     |-> [main |-> {}, t1 |-> {3, 4, 6}, t2 |-> {4, 5}, t3 |-> {4, 5}]]

HoldInv == \A t \in Threads : mutex = t <=> pc[t] \in Section[lesson][t]

\* The thread that locks twice gets no further; a thread that has counted has
\* reached the threshold; a producer that has given up left the buffer full.
CountInv ==
  /\ lesson = "mutex" => pc["t2"] <= 3
  /\ lesson \in {"condition", "polling"} =>
       counter <= Threshold /\ (pc["t1"] >= 3 => counter = Threshold)
  /\ lesson = "limit" /\ pc["t1"] = 6 => counter = Threshold

MutexInv == IInv /\ HoldInv /\ CountInv

\* The table, lesson by lesson.
LEMMA Sections ==
  /\ lesson = "mutex" =>
       /\ Section[lesson]["main"] = {} /\ Section[lesson]["t1"] = {2, 3}
       /\ Section[lesson]["t2"] = {2, 3} /\ Section[lesson]["t3"] = {}
  /\ lesson = "condition" =>
       /\ Section[lesson]["main"] = {2, 4} /\ Section[lesson]["t1"] = {2, 3, 4}
       /\ Section[lesson]["t2"] = {} /\ Section[lesson]["t3"] = {}
  /\ lesson = "polling" =>
       /\ Section[lesson]["main"] = {} /\ Section[lesson]["t1"] = {2, 3}
       /\ Section[lesson]["t2"] = {} /\ Section[lesson]["t3"] = {}
  /\ lesson = "buffer" =>
       /\ Section[lesson]["main"] = {} /\ Section[lesson]["t1"] = {3, 4, 5}
       /\ Section[lesson]["t2"] = {3, 4} /\ Section[lesson]["t3"] = {}
  /\ lesson = "sample" =>
       /\ Section[lesson]["main"] = {} /\ Section[lesson]["t1"] = {2, 3}
       /\ Section[lesson]["t2"] = {3, 4} /\ Section[lesson]["t3"] = {3, 4}
  /\ lesson = "limit" =>
       /\ Section[lesson]["main"] = {} /\ Section[lesson]["t1"] = {3, 4, 6}
       /\ Section[lesson]["t2"] = {4, 5} /\ Section[lesson]["t3"] = {4, 5}
BY DEF Section

\* What each call does to its thread's position and to the mutex.
Moves(t, call) ==
  /\ At(t, call)
  /\ lesson' = lesson
  /\ pc' = [pc EXCEPT ![t] = pc'[t]]
  /\ CASE call = "lock" -> mutex = Nobody /\ mutex' = t /\ pc'[t] = After(t)
       [] call \in {"unlock", "wait"} -> mutex' = Nobody /\ pc'[t] = After(t)
       [] call = "wake" -> /\ woken /\ mutex = Nobody /\ mutex' = t
                           /\ pc'[t] = pc[t] + 1 \/ pc'[t] = pc[t] - 1
       [] call = "count_up" -> mutex' = mutex /\ (pc'[t] = pc[t] \/ pc'[t] = After(t))
       [] call = "make" ->
            /\ mutex' = mutex
            /\ pc'[t] = IF lesson = "limit" /\ counter' = Threshold THEN End(t) ELSE After(t)
       [] call = "test" ->
            mutex' = mutex /\ pc'[t] = IF counter = Threshold THEN End(t) ELSE After(t)
       [] OTHER -> mutex' = mutex /\ pc'[t] = After(t)

\* What each call does to the counter.
Counts(t, call) ==
  CASE call = "count_up" -> IF counter < Threshold
                              THEN counter' = counter + 1 /\ pc'[t] = pc[t]
                              ELSE counter' = counter /\ pc'[t] = After(t)
    [] call = "count" -> TRUE
    [] call = "make" -> counter' = counter + 1
    [] call = "take" -> lesson # "sample" => counter' = counter - 1
    [] OTHER -> counter' = counter

\* Every step is one call of one thread.
LEMMA StepShape ==
  ASSUME TypeOK, NEW t \in Threads, Thread(t)
  PROVE  \E call : /\ Moves(t, call) /\ Counts(t, call)
                   /\ call = "join" => \A u \in Threads \ {t} : Over(u)
                   /\ call = "poll" => counter = Threshold
                   /\ woken' # woken => call \in {"wait", "signal"}
<1> USE DEF TypeOK, semaphores, data, Advance
<1>1. CASE Lock(t)
  <2>1. Moves(t, "lock") BY <1>1 DEF Lock, Moves
  <2> QED BY <1>1, <2>1 DEF Lock, Counts
<1>2. CASE Unlock(t)
  <2>1. Moves(t, "unlock") BY <1>2 DEF Unlock, Moves
  <2> QED BY <1>2, <2>1 DEF Unlock, Counts
<1>3. CASE WaitFull(t)
  <2>1. Moves(t, "wait_full") BY <1>3 DEF WaitFull, Moves
  <2> QED BY <1>3, <2>1 DEF WaitFull, Counts
<1>4. CASE PostFull(t)
  <2>1. Moves(t, "post_full") BY <1>4 DEF PostFull, Moves
  <2> QED BY <1>4, <2>1 DEF PostFull, Counts
<1>5. CASE WaitEmpty(t)
  <2>1. Moves(t, "wait_empty") BY <1>5 DEF WaitEmpty, Moves
  <2> QED BY <1>5, <2>1 DEF WaitEmpty, Counts
<1>6. CASE PostEmpty(t)
  <2>1. Moves(t, "post_empty") BY <1>6 DEF PostEmpty, Moves
  <2> QED BY <1>6, <2>1 DEF PostEmpty, Counts
<1>7. CASE Count(t)
  <2>1. Moves(t, "count") BY <1>7 DEF Count, Moves
  <2> QED BY <1>7, <2>1 DEF Count, Counts
<1>8. CASE CountUp(t)
  <2>1. Moves(t, "count_up") /\ Counts(t, "count_up")
    BY <1>8 DEF CountUp, Moves, Counts
  <2> QED BY <1>8, <2>1 DEF CountUp
<1>9. CASE Poll(t)
  <2>1. Moves(t, "poll") BY <1>9 DEF Poll, Moves
  <2> QED BY <1>9, <2>1 DEF Poll, Counts
<1>10. CASE Wait(t)
  <2>1. Moves(t, "wait") BY <1>10 DEF Wait, Moves
  <2> QED BY <1>10, <2>1 DEF Wait, Counts
<1>11. CASE Wake(t)
  <2>1. Moves(t, "wake") BY <1>11 DEF Wake, Moves
  <2> QED BY <1>11, <2>1 DEF Wake, Counts
<1>12. CASE Signal(t)
  <2>1. Moves(t, "signal") BY <1>12 DEF Signal, Moves
  <2> QED BY <1>12, <2>1 DEF Signal, Counts
<1>13. CASE Join(t)
  <2>1. Moves(t, "join") BY <1>13 DEF Join, Moves
  <2> QED BY <1>13, <2>1 DEF Join, Counts
<1>14. CASE Test(t)
  <2>1. Moves(t, "test") BY <1>14 DEF Test, Moves
  <2> QED BY <1>14, <2>1 DEF Test, Counts
<1>15. CASE Make(t)
  <2>1. Moves(t, "make") BY <1>15 DEF Make, Moves
  <2> QED BY <1>15, <2>1 DEF Make, Counts
<1>16. CASE Take(t)
  <2>1. Moves(t, "take") BY <1>16 DEF Take, Moves
  <2> QED BY <1>16, <2>1 DEF Take, Counts
<1> QED BY <1>1, <1>2, <1>3, <1>4, <1>5, <1>6, <1>7, <1>8, <1>9, <1>10, <1>11, <1>12,
           <1>13, <1>14, <1>15, <1>16 DEF Thread

\* Which thread of the lessons on threads makes which call.
LEMMA MutexAt ==
  ASSUME TypeOK, lesson = "mutex", NEW t \in Threads, NEW call, At(t, call)
  PROVE  /\ \/ t = "main" /\ call = "join"
            \/ /\ t = "t1"
               /\ \/ pc[t] = 1 /\ call = "lock"
                  \/ pc[t] = 2 /\ call = "count"
                  \/ pc[t] = 3 /\ call = "unlock"
            \/ /\ t = "t2"
               /\ \/ pc[t] = 1 /\ call = "lock"
                  \/ pc[t] = 2 /\ call = "count"
                  \/ pc[t] = 3 /\ call = "lock"
         /\ After(t) = pc[t] + 1
<1>1. pc[t] \in 1..Len(Row(t)) /\ Row(t)[pc[t]] = call
  BY Positions
<1>2. After(t) = pc[t] + 1
  BY DEF After, Once
<1>3. CASE t = "main" \/ t = "t3"
  BY <1>1, <1>2, <1>3, MutexRows
<1>4. CASE t = "t1"
  <2>1. pc[t] \in 1..3 BY <1>1, <1>4, MutexRows
  <2> QED BY <1>1, <1>2, <1>4, <2>1, MutexRows
<1>5. CASE t = "t2"
  <2>1. pc[t] \in 1..3 BY <1>1, <1>5, MutexRows
  <2> QED BY <1>1, <1>2, <1>5, <2>1, MutexRows
<1> QED BY <1>3, <1>4, <1>5 DEF Threads

\* Which thread of the condition-variable lesson makes which call.
LEMMA ConditionAt ==
  ASSUME TypeOK, lesson = "condition", NEW t \in Threads, NEW call, At(t, call)
  PROVE  /\ \/ /\ t = "main"
               /\ \/ pc[t] = 1 /\ call = "lock"
                  \/ pc[t] = 2 /\ call = "wait"
                  \/ pc[t] = 3 /\ call = "wake"
                  \/ pc[t] = 4 /\ call = "unlock"
                  \/ pc[t] = 5 /\ call = "join"
            \/ /\ t = "t1"
               /\ \/ pc[t] = 1 /\ call = "lock"
                  \/ pc[t] = 2 /\ call = "count_up"
                  \/ pc[t] = 3 /\ call = "signal"
                  \/ pc[t] = 4 /\ call = "unlock"
         /\ After(t) = pc[t] + 1
<1>1. pc[t] \in 1..Len(Row(t)) /\ Row(t)[pc[t]] = call
  BY Positions
<1>2. After(t) = pc[t] + 1
  BY DEF After, Once
<1>3. CASE t = "main"
  <2>1. pc[t] \in 1..5 BY <1>1, <1>3, ConditionRows
  <2> QED BY <1>1, <1>2, <1>3, <2>1, ConditionRows
<1>4. CASE t = "t1"
  <2>1. pc[t] \in 1..4 BY <1>1, <1>4, ConditionRows
  <2> QED BY <1>1, <1>2, <1>4, <2>1, ConditionRows
<1>5. CASE t = "t2" \/ t = "t3"
  BY <1>1, <1>5, ConditionRows
<1> QED BY <1>3, <1>4, <1>5 DEF Threads

\* Which thread of the polling lesson makes which call.
LEMMA PollingAt ==
  ASSUME TypeOK, lesson = "polling", NEW t \in Threads, NEW call, At(t, call)
  PROVE  /\ \/ /\ t = "main"
               /\ \/ pc[t] = 1 /\ call = "poll"
                  \/ pc[t] = 2 /\ call = "join"
            \/ /\ t = "t1"
               /\ \/ pc[t] = 1 /\ call = "lock"
                  \/ pc[t] = 2 /\ call = "count_up"
                  \/ pc[t] = 3 /\ call = "unlock"
         /\ After(t) = pc[t] + 1
<1>1. pc[t] \in 1..Len(Row(t)) /\ Row(t)[pc[t]] = call
  BY Positions
<1>2. After(t) = pc[t] + 1
  BY DEF After, Once
<1>3. CASE t = "main"
  <2>1. pc[t] \in 1..2 BY <1>1, <1>3, PollingRows
  <2> QED BY <1>1, <1>2, <1>3, <2>1, PollingRows
<1>4. CASE t = "t1"
  <2>1. pc[t] \in 1..3 BY <1>1, <1>4, PollingRows
  <2> QED BY <1>1, <1>2, <1>4, <2>1, PollingRows
<1>5. CASE t = "t2" \/ t = "t3"
  BY <1>1, <1>5, PollingRows
<1> QED BY <1>3, <1>4, <1>5 DEF Threads

\* A step keeps the mutex with the position that has it if it stays inside or
\* outside, enters while nobody has it, or leaves and gives it back.
LEMMA HoldKept ==
  ASSUME TypeOK, HoldInv, NEW t \in Threads, lesson' = lesson,
         pc' = [pc EXCEPT ![t] = pc'[t]],
         \/ mutex' = mutex /\ (pc'[t] \in Section[lesson][t] <=> pc[t] \in Section[lesson][t])
         \/ mutex = Nobody /\ mutex' = t /\ pc'[t] \in Section[lesson][t]
         \/ /\ pc[t] \in Section[lesson][t]
            /\ mutex' = Nobody /\ pc'[t] \notin Section[lesson][t]
  PROVE  HoldInv'
<1>1. Nobody \notin Threads
  BY DEF Nobody, Threads
<1>2. \A u \in Threads \ {t} : pc'[u] = pc[u]
  BY DEF TypeOK
<1> DEFINE In(u, l) == l \in Section[lesson][u]
<1>3. \A u \in Threads : mutex = u <=> In(u, pc[u])
  BY DEF HoldInv
<1>4. \/ mutex' = mutex /\ (In(t, pc'[t]) <=> In(t, pc[t]))
      \/ mutex = Nobody /\ mutex' = t /\ In(t, pc'[t])
      \/ In(t, pc[t]) /\ mutex' = Nobody /\ ~In(t, pc'[t])
  OBVIOUS
<1>5. \A u \in Threads : Section[lesson'][u] = Section[lesson][u]
  OBVIOUS
<1> HIDE DEF In
<1>6. \A u \in Threads : mutex' = u <=> In(u, pc'[u])
  BY <1>1, <1>2, <1>3, <1>4
<1> QED BY <1>5, <1>6 DEF HoldInv, In

\* The lessons on threads.
LEMMA MutexLessonStep ==
  ASSUME MutexInv, lesson = "mutex", NEW t \in Threads, Thread(t)
  PROVE  HoldInv' /\ CountInv'
<1>1. TypeOK /\ HoldInv /\ CountInv /\ {"t1", "t2"} \subseteq Threads
  BY DEF MutexInv, IInv, Threads
<1>2. PICK call : Moves(t, call)
  BY <1>1, StepShape
<1>3. /\ lesson' = lesson /\ pc' = [pc EXCEPT ![t] = pc'[t]] /\ At(t, call)
      /\ \A u \in Threads \ {t} : pc'[u] = pc[u]
  BY <1>1, <1>2 DEF Moves, TypeOK
<1>4. "t2" # Nobody /\ (pc["t2"] \in {2, 3} => mutex = "t2")
  BY <1>1, Sections DEF HoldInv, Nobody
<1>5. CASE t = "main"
  <2>1. call = "join" BY <1>1, <1>3, <1>5, MutexAt
  <2>2. mutex' = mutex BY <1>2, <2>1 DEF Moves
  <2>3. HoldInv' BY <1>1, <1>3, <1>5, <2>2, Sections, HoldKept
  <2> QED BY <1>1, <1>3, <1>5, <2>3 DEF CountInv
<1>6. CASE t = "t1"
  <2>1. /\ \/ pc[t] = 1 /\ call = "lock"
           \/ pc[t] = 2 /\ call = "count"
           \/ pc[t] = 3 /\ call = "unlock"
        /\ After(t) = pc[t] + 1
    BY <1>1, <1>3, <1>6, MutexAt
  <2>2. HoldInv' BY <1>1, <1>2, <1>3, <1>6, <2>1, Sections, HoldKept DEF Moves
  <2> QED BY <1>1, <1>3, <1>6, <2>2 DEF CountInv
<1>7. CASE t = "t2"
  <2>1. /\ \/ pc[t] = 1 /\ call = "lock"
           \/ pc[t] = 2 /\ call = "count"
           \/ pc[t] = 3 /\ call = "lock"
        /\ After(t) = pc[t] + 1
    BY <1>1, <1>3, <1>7, MutexAt
  <2>2. pc[t] # 3 BY <1>2, <1>4, <1>7, <2>1 DEF Moves
  <2>3. HoldInv' BY <1>1, <1>2, <1>3, <1>7, <2>1, <2>2, Sections, HoldKept DEF Moves
  <2>4. pc'[t] <= 3 BY <1>2, <2>1, <2>2 DEF Moves
  <2> QED BY <1>1, <1>3, <1>7, <2>3, <2>4 DEF CountInv
<1>8. CASE t = "t3"
  BY <1>1, <1>3, <1>8, MutexAt
<1> QED BY <1>5, <1>6, <1>7, <1>8 DEF Threads

\* The condition-variable lesson's step.
LEMMA ConditionStep ==
  ASSUME MutexInv, lesson = "condition", NEW t \in Threads, Thread(t)
  PROVE  HoldInv' /\ CountInv'
<1>1. TypeOK /\ HoldInv /\ CountInv /\ {"t1", "main"} \subseteq Threads /\ Threshold \in Nat
  BY SizesAssumption DEF MutexInv, IInv, Threads
<1>2. PICK call : Moves(t, call) /\ Counts(t, call)
  BY <1>1, StepShape
<1>3. /\ lesson' = lesson /\ pc' = [pc EXCEPT ![t] = pc'[t]] /\ At(t, call)
      /\ \A u \in Threads \ {t} : pc'[u] = pc[u]
  BY <1>1, <1>2 DEF Moves, TypeOK
<1>4. counter \in Nat BY <1>1 DEF TypeOK
<1>5. CASE t = "main"
  <2>1. /\ \/ pc[t] = 1 /\ call = "lock"
           \/ pc[t] = 2 /\ call = "wait"
           \/ pc[t] = 3 /\ call = "wake"
           \/ pc[t] = 4 /\ call = "unlock"
           \/ pc[t] = 5 /\ call = "join"
        /\ After(t) = pc[t] + 1
    BY <1>1, <1>3, <1>5, ConditionAt
  <2>2. HoldInv' BY <1>1, <1>2, <1>3, <1>5, <2>1, Sections, HoldKept DEF Moves
  <2>3. counter' = counter BY <1>2, <2>1 DEF Counts
  <2> QED BY <1>1, <1>3, <1>5, <2>2, <2>3 DEF CountInv
<1>6. CASE t = "t1"
  <2>1. /\ \/ pc[t] = 1 /\ call = "lock"
           \/ pc[t] = 2 /\ call = "count_up"
           \/ pc[t] = 3 /\ call = "signal"
           \/ pc[t] = 4 /\ call = "unlock"
        /\ After(t) = pc[t] + 1
    BY <1>1, <1>3, <1>6, ConditionAt
  <2>2. HoldInv' BY <1>1, <1>2, <1>3, <1>6, <2>1, Sections, HoldKept DEF Moves
  <2>3. counter' <= Threshold /\ (pc'[t] >= 3 => counter' = Threshold)
    <3>1. CASE pc[t] = 2
      BY <1>1, <1>2, <1>4, <2>1, <3>1 DEF Counts, CountInv
    <3>2. CASE pc[t] # 2
      BY <1>1, <1>2, <1>4, <1>6, <2>1, <3>2 DEF Counts, Moves, CountInv
    <3> QED BY <3>1, <3>2
  <2> QED BY <1>1, <1>3, <1>6, <2>2, <2>3 DEF CountInv
<1>7. CASE t = "t2" \/ t = "t3"
  BY <1>1, <1>3, <1>7, ConditionAt
<1> QED BY <1>5, <1>6, <1>7 DEF Threads

\* The polling lesson's step.
LEMMA PollingStep ==
  ASSUME MutexInv, lesson = "polling", NEW t \in Threads, Thread(t)
  PROVE  HoldInv' /\ CountInv'
<1>1. TypeOK /\ HoldInv /\ CountInv /\ {"t1", "main"} \subseteq Threads /\ Threshold \in Nat
  BY SizesAssumption DEF MutexInv, IInv, Threads
<1>2. PICK call : Moves(t, call) /\ Counts(t, call)
  BY <1>1, StepShape
<1>3. /\ lesson' = lesson /\ pc' = [pc EXCEPT ![t] = pc'[t]] /\ At(t, call)
      /\ \A u \in Threads \ {t} : pc'[u] = pc[u]
  BY <1>1, <1>2 DEF Moves, TypeOK
<1>4. counter \in Nat BY <1>1 DEF TypeOK
<1>5. CASE t = "main"
  <2>1. call \in {"poll", "join"} BY <1>1, <1>3, <1>5, PollingAt
  <2>2. mutex' = mutex BY <1>2, <2>1 DEF Moves
  <2>3. HoldInv' BY <1>1, <1>3, <1>5, <2>2, Sections, HoldKept
  <2>4. counter' = counter BY <1>2, <2>1 DEF Counts
  <2> QED BY <1>1, <1>3, <1>5, <2>3, <2>4 DEF CountInv
<1>6. CASE t = "t1"
  <2>1. /\ \/ pc[t] = 1 /\ call = "lock"
           \/ pc[t] = 2 /\ call = "count_up"
           \/ pc[t] = 3 /\ call = "unlock"
        /\ After(t) = pc[t] + 1
    BY <1>1, <1>3, <1>6, PollingAt
  <2>2. HoldInv' BY <1>1, <1>2, <1>3, <1>6, <2>1, Sections, HoldKept DEF Moves
  <2>3. counter' <= Threshold /\ (pc'[t] >= 3 => counter' = Threshold)
    <3>1. CASE pc[t] = 2
      BY <1>1, <1>2, <1>4, <2>1, <3>1 DEF Counts, CountInv
    <3>2. CASE pc[t] # 2
      BY <1>1, <1>2, <1>4, <1>6, <2>1, <3>2 DEF Counts, Moves, CountInv
    <3> QED BY <3>1, <3>2
  <2> QED BY <1>1, <1>3, <1>6, <2>2, <2>3 DEF CountInv
<1>7. CASE t = "t2" \/ t = "t3"
  BY <1>1, <1>3, <1>7, PollingAt
<1> QED BY <1>5, <1>6, <1>7 DEF Threads

\* The steps of the lessons on semaphores.
LEMMA BufferMutexStep ==
  ASSUME MutexInv, lesson = "buffer", NEW t \in Threads, Thread(t)
  PROVE  HoldInv' /\ CountInv'
<1>1. TypeOK /\ HoldInv
  BY DEF MutexInv, IInv
<1>2. PICK call : Moves(t, call)
  BY <1>1, StepShape
<1>3. /\ lesson' = lesson /\ pc' = [pc EXCEPT ![t] = pc'[t]] /\ At(t, call)
  BY <1>2 DEF Moves
<1>4. /\ \/ /\ t = "t1"
            /\ \/ pc[t] = 1 /\ call = "wait_empty"
               \/ pc[t] = 2 /\ call = "lock"
               \/ pc[t] = 3 /\ call = "make"
               \/ pc[t] = 4 /\ call = "post_full"
               \/ pc[t] = 5 /\ call = "unlock"
         \/ /\ t = "t2"
            /\ \/ pc[t] = 1 /\ call = "wait_full"
               \/ pc[t] = 2 /\ call = "lock"
               \/ pc[t] = 3 /\ call = "take"
               \/ pc[t] = 4 /\ call = "unlock"
               \/ pc[t] = 5 /\ call = "post_empty"
      /\ After(t) = IF pc[t] = 5 THEN 1 ELSE pc[t] + 1
  BY <1>1, <1>3, BufferAt
<1>5. HoldInv'
  BY <1>1, <1>2, <1>3, <1>4, Sections, HoldKept DEF Moves
<1> QED BY <1>3, <1>5 DEF CountInv

\* The sample's step.
LEMMA SampleMutexStep ==
  ASSUME MutexInv, lesson = "sample", NEW t \in Threads, Thread(t)
  PROVE  HoldInv' /\ CountInv'
<1>1. TypeOK /\ HoldInv
  BY DEF MutexInv, IInv
<1>2. PICK call : Moves(t, call)
  BY <1>1, StepShape
<1>3. /\ lesson' = lesson /\ pc' = [pc EXCEPT ![t] = pc'[t]] /\ At(t, call)
  BY <1>2 DEF Moves
<1>4. /\ \/ /\ t = "t1"
            /\ \/ pc[t] = 1 /\ call = "lock"
               \/ pc[t] = 2 /\ call = "make"
               \/ pc[t] = 3 /\ call = "unlock"
               \/ pc[t] = 4 /\ call = "post_full"
         \/ /\ t = "t2" \/ t = "t3"
            /\ \/ pc[t] = 1 /\ call = "wait_full"
               \/ pc[t] = 2 /\ call = "lock"
               \/ pc[t] = 3 /\ call = "take"
               \/ pc[t] = 4 /\ call = "unlock"
      /\ After(t) = IF pc[t] = 4 THEN 1 ELSE pc[t] + 1
  BY <1>1, <1>3, SampleAt
<1>5. HoldInv'
  BY <1>1, <1>2, <1>3, <1>4, Sections, HoldKept DEF Moves
<1> QED BY <1>3, <1>5 DEF CountInv

\* The limit lesson's step: the producer's end is the only one with the mutex.
LEMMA LimitMutexStep ==
  ASSUME MutexInv, lesson = "limit", NEW t \in Threads, Thread(t)
  PROVE  HoldInv' /\ CountInv'
<1>1. TypeOK /\ HoldInv /\ CountInv /\ LimitInv /\ {"t1", "t2", "t3"} \subseteq Threads
  BY DEF MutexInv, IInv, Threads
<1>2. PICK call : Moves(t, call) /\ Counts(t, call)
  BY <1>1, StepShape
<1>3. /\ lesson' = lesson /\ pc' = [pc EXCEPT ![t] = pc'[t]] /\ At(t, call)
      /\ \A u \in Threads \ {t} : pc'[u] = pc[u]
  BY <1>1, <1>2 DEF Moves, TypeOK
<1>4. counter \in Nat /\ Threshold \in Nat
  BY <1>1, SizesAssumption DEF TypeOK
<1>5. pc["t1"] = 1 => counter # Threshold
  BY <1>1, <1>4 DEF LimitInv
<1>6. CASE t = "main"
  <2>1. call = "join" BY <1>1, <1>3, <1>6, LimitAt
  <2>2. mutex' = mutex BY <1>2, <2>1 DEF Moves
  <2>3. HoldInv' BY <1>1, <1>3, <1>6, <2>2, Sections, HoldKept
  <2>4. counter' = counter BY <1>2, <2>1 DEF Counts
  <2> QED BY <1>1, <1>3, <1>6, <2>3, <2>4 DEF CountInv
<1>7. CASE t = "t1"
  <2>1. /\ \/ pc[t] = 1 /\ call = "test"
           \/ pc[t] = 2 /\ call = "lock"
           \/ pc[t] = 3 /\ call = "make"
           \/ pc[t] = 4 /\ call = "unlock"
           \/ pc[t] = 5 /\ call = "post_full"
        /\ End(t) = 6 /\ After(t) = IF pc[t] = 5 THEN 1 ELSE pc[t] + 1
    BY <1>1, <1>3, <1>7, LimitAt
  <2>2. HoldInv' BY <1>1, <1>2, <1>3, <1>5, <1>7, <2>1, Sections, HoldKept DEF Moves
  <2>3. pc'[t] = 6 => counter' = Threshold
    BY <1>2, <1>5, <1>7, <2>1 DEF Moves
  <2> QED BY <1>1, <1>3, <1>7, <2>2, <2>3 DEF CountInv
<1>8. CASE t = "t2" \/ t = "t3"
  <2>1. /\ \/ pc[t] = 1 /\ call = "test"
           \/ pc[t] = 2 /\ call = "wait_full"
           \/ pc[t] = 3 /\ call = "lock"
           \/ pc[t] = 4 /\ call = "take"
           \/ pc[t] = 5 /\ call = "unlock"
        /\ End(t) = 6 /\ After(t) = IF pc[t] = 5 THEN 1 ELSE pc[t] + 1
    BY <1>1, <1>3, <1>8, LimitAt
  <2>2. HoldInv' BY <1>1, <1>2, <1>3, <1>8, <2>1, Sections, HoldKept DEF Moves
  <2>3. pc["t1"] = 6 => mutex = "t1"
    BY <1>1, Sections DEF HoldInv
  <2>4. pc["t1"] = 6 => counter' = counter
    <3>1. call = "take" => mutex = t
      BY <1>1, <1>8, <2>1, Sections DEF HoldInv
    <3>2. call # "take" => counter' = counter
      BY <1>2, <2>1 DEF Counts
    <3> QED BY <1>8, <2>3, <3>1, <3>2
  <2> QED BY <1>1, <1>3, <1>8, <2>2, <2>4 DEF CountInv
<1> QED BY <1>6, <1>7, <1>8 DEF Threads

\* In every lesson the mutex is where the table says, so no two threads are
\* inside their sections at once.
THEOREM MutexTheorem == Spec => []MutexInv
<1>1. Init => MutexInv
  <2> SUFFICES ASSUME Init PROVE MutexInv
    OBVIOUS
  <2>1. \A t \in Threads : pc[t] = 1 /\ mutex # t
    BY DEF Init, Threads, Nobody
  <2>2. \A t \in Threads : 1 \notin Section[lesson][t]
    BY Sections DEF Init, Lessons, Threads
  <2>3. pc["t1"] = 1 /\ pc["t2"] = 1
    BY <2>1 DEF Threads
  <2>4. lesson \in {"condition", "polling"} => counter <= Threshold
    BY SizesAssumption DEF Init
  <2> QED BY <2>1, <2>2, <2>3, <2>4, InitInv DEF MutexInv, HoldInv, CountInv
<1>2. ASSUME MutexInv, [Next]_vars, IInv'
      PROVE  MutexInv'
  <2>1. CASE UNCHANGED vars
    BY <1>2, <2>1 DEF MutexInv, HoldInv, CountInv, vars, data
  <2>2. ASSUME NEW t \in Threads, Thread(t)
        PROVE  MutexInv'
    BY <1>2, <2>2, MutexLessonStep, ConditionStep, PollingStep, BufferMutexStep,
       SampleMutexStep, LimitMutexStep DEF MutexInv, IInv, TypeOK, Lessons
  <2> QED BY <1>2, <2>1, <2>2 DEF Next
<1> QED BY <1>1, <1>2, InductiveInvariant, PTL DEF Spec

-----------------------------------------------------------------------------
(* Where the lessons hang.                                                 *)

\* The calls thread t can make: all but a lock somebody has, a semaphore
\* without a token, a wait nobody has ended, a join or a poll before its time.
CanCall(t) ==
  \/ At(t, "lock") /\ mutex = Nobody
  \/ At(t, "wait_full") /\ full > 0
  \/ At(t, "wait_empty") /\ empty > 0
  \/ At(t, "poll") /\ counter = Threshold
  \/ At(t, "wake") /\ woken /\ mutex = Nobody
  \/ At(t, "join") /\ \A u \in Threads \ {t} : Over(u)
  \/ \E call \in {"unlock", "post_full", "post_empty", "count", "count_up", "wait",
                  "signal", "test", "make", "take"} : At(t, call)

\* When no thread can go on, the lesson is not one of those that run for ever,
\* and either every thread is over or it hangs in one of the ways of Stuck.
NoOtherStandstill ==
  (\A t \in Threads : ~CanCall(t)) =>
    /\ lesson \in Once \cup {"limit"}
    /\ (\A t \in Threads : Over(t)) \/ Stuck

\* A row ends one past its last call.
LEMMA RowEnd ==
  ASSUME NEW t
  PROVE  /\ Len(Row(t)) = 0 => End(t) = 1
         /\ Len(Row(t)) = 1 => End(t) = 2
         /\ Len(Row(t)) = 2 => End(t) = 3
         /\ Len(Row(t)) = 3 => End(t) = 4
         /\ Len(Row(t)) = 4 => End(t) = 5
         /\ Len(Row(t)) = 5 => End(t) = 6
<1>1. CASE Len(Row(t)) = 0 BY <1>1 DEF End
<1>2. CASE Len(Row(t)) = 1 BY <1>2 DEF End
<1>3. CASE Len(Row(t)) = 2 BY <1>3 DEF End
<1>4. CASE Len(Row(t)) = 3 BY <1>4 DEF End
<1>5. CASE Len(Row(t)) = 4 BY <1>5 DEF End
<1>6. CASE Len(Row(t)) = 5 BY <1>6 DEF End
<1> QED BY <1>1, <1>2, <1>3, <1>4, <1>5, <1>6

\* Which call is next at each position of the mutex lesson, and where rows end.
LEMMA MutexHere ==
  ASSUME lesson = "mutex"
  PROVE  /\ pc["main"] = 1 => At("main", "join")
         /\ End("main") = 2
         /\ pc["t1"] = 1 => At("t1", "lock")
         /\ pc["t1"] = 2 => At("t1", "count")
         /\ pc["t1"] = 3 => At("t1", "unlock")
         /\ End("t1") = 4
         /\ pc["t2"] = 1 => At("t2", "lock")
         /\ pc["t2"] = 2 => At("t2", "count")
         /\ pc["t2"] = 3 => At("t2", "lock")
         /\ End("t2") = 4
         /\ End("t3") = 1
<1>1. /\ pc["main"] = 1 => At("main", "join")
      /\ End("main") = 2
  <2>1. End("main") = 2
    <3>1. Len(Row("main")) = 1 BY MutexRows
    <3> QED BY <3>1, RowEnd
  <2>2. /\ Row("main")[1] = "join"
    BY MutexRows
  <2> QED BY <2>1, <2>2 DEF At, Over
<1>2. /\ pc["t1"] = 1 => At("t1", "lock")
      /\ pc["t1"] = 2 => At("t1", "count")
      /\ pc["t1"] = 3 => At("t1", "unlock")
      /\ End("t1") = 4
  <2>1. End("t1") = 4
    <3>1. Len(Row("t1")) = 3 BY MutexRows
    <3> QED BY <3>1, RowEnd
  <2>2. /\ Row("t1")[1] = "lock" /\ Row("t1")[2] = "count" /\ Row("t1")[3] = "unlock"
    BY MutexRows
  <2> QED BY <2>1, <2>2 DEF At, Over
<1>3. /\ pc["t2"] = 1 => At("t2", "lock")
      /\ pc["t2"] = 2 => At("t2", "count")
      /\ pc["t2"] = 3 => At("t2", "lock")
      /\ End("t2") = 4
  <2>1. End("t2") = 4
    <3>1. Len(Row("t2")) = 3 BY MutexRows
    <3> QED BY <3>1, RowEnd
  <2>2. /\ Row("t2")[1] = "lock" /\ Row("t2")[2] = "count" /\ Row("t2")[3] = "lock"
    BY MutexRows
  <2> QED BY <2>1, <2>2 DEF At, Over
<1>4. /\ End("t3") = 1
  <2>1. End("t3") = 1
    <3>1. Len(Row("t3")) = 0 BY MutexRows
    <3> QED BY <3>1, RowEnd
  <2> QED BY <2>1
<1> QED BY <1>1, <1>2, <1>3, <1>4

\* Which call is next at each position of the condition-variable lesson, and where rows end.
LEMMA ConditionHere ==
  ASSUME lesson = "condition"
  PROVE  /\ pc["main"] = 1 => At("main", "lock")
         /\ pc["main"] = 2 => At("main", "wait")
         /\ pc["main"] = 3 => At("main", "wake")
         /\ pc["main"] = 4 => At("main", "unlock")
         /\ pc["main"] = 5 => At("main", "join")
         /\ End("main") = 6
         /\ pc["t1"] = 1 => At("t1", "lock")
         /\ pc["t1"] = 2 => At("t1", "count_up")
         /\ pc["t1"] = 3 => At("t1", "signal")
         /\ pc["t1"] = 4 => At("t1", "unlock")
         /\ End("t1") = 5
         /\ End("t2") = 1
         /\ End("t3") = 1
<1>1. /\ pc["main"] = 1 => At("main", "lock")
      /\ pc["main"] = 2 => At("main", "wait")
      /\ pc["main"] = 3 => At("main", "wake")
      /\ pc["main"] = 4 => At("main", "unlock")
      /\ pc["main"] = 5 => At("main", "join")
      /\ End("main") = 6
  <2>1. End("main") = 6
    <3>1. Len(Row("main")) = 5 BY ConditionRows
    <3> QED BY <3>1, RowEnd
  <2>2. /\ Row("main")[1] = "lock" /\ Row("main")[2] = "wait" /\ Row("main")[3] = "wake"
        /\ Row("main")[4] = "unlock" /\ Row("main")[5] = "join"
    BY ConditionRows
  <2> QED BY <2>1, <2>2 DEF At, Over
<1>2. /\ pc["t1"] = 1 => At("t1", "lock")
      /\ pc["t1"] = 2 => At("t1", "count_up")
      /\ pc["t1"] = 3 => At("t1", "signal")
      /\ pc["t1"] = 4 => At("t1", "unlock")
      /\ End("t1") = 5
  <2>1. End("t1") = 5
    <3>1. Len(Row("t1")) = 4 BY ConditionRows
    <3> QED BY <3>1, RowEnd
  <2>2. /\ Row("t1")[1] = "lock" /\ Row("t1")[2] = "count_up" /\ Row("t1")[3] = "signal"
        /\ Row("t1")[4] = "unlock"
    BY ConditionRows
  <2> QED BY <2>1, <2>2 DEF At, Over
<1>3. /\ End("t2") = 1
  <2>1. End("t2") = 1
    <3>1. Len(Row("t2")) = 0 BY ConditionRows
    <3> QED BY <3>1, RowEnd
  <2> QED BY <2>1
<1>4. /\ End("t3") = 1
  <2>1. End("t3") = 1
    <3>1. Len(Row("t3")) = 0 BY ConditionRows
    <3> QED BY <3>1, RowEnd
  <2> QED BY <2>1
<1> QED BY <1>1, <1>2, <1>3, <1>4

\* Which call is next at each position of the polling lesson, and where rows end.
LEMMA PollingHere ==
  ASSUME lesson = "polling"
  PROVE  /\ pc["main"] = 1 => At("main", "poll")
         /\ pc["main"] = 2 => At("main", "join")
         /\ End("main") = 3
         /\ pc["t1"] = 1 => At("t1", "lock")
         /\ pc["t1"] = 2 => At("t1", "count_up")
         /\ pc["t1"] = 3 => At("t1", "unlock")
         /\ End("t1") = 4
         /\ End("t2") = 1
         /\ End("t3") = 1
<1>1. /\ pc["main"] = 1 => At("main", "poll")
      /\ pc["main"] = 2 => At("main", "join")
      /\ End("main") = 3
  <2>1. End("main") = 3
    <3>1. Len(Row("main")) = 2 BY PollingRows
    <3> QED BY <3>1, RowEnd
  <2>2. /\ Row("main")[1] = "poll" /\ Row("main")[2] = "join"
    BY PollingRows
  <2> QED BY <2>1, <2>2 DEF At, Over
<1>2. /\ pc["t1"] = 1 => At("t1", "lock")
      /\ pc["t1"] = 2 => At("t1", "count_up")
      /\ pc["t1"] = 3 => At("t1", "unlock")
      /\ End("t1") = 4
  <2>1. End("t1") = 4
    <3>1. Len(Row("t1")) = 3 BY PollingRows
    <3> QED BY <3>1, RowEnd
  <2>2. /\ Row("t1")[1] = "lock" /\ Row("t1")[2] = "count_up" /\ Row("t1")[3] = "unlock"
    BY PollingRows
  <2> QED BY <2>1, <2>2 DEF At, Over
<1>3. /\ End("t2") = 1
  <2>1. End("t2") = 1
    <3>1. Len(Row("t2")) = 0 BY PollingRows
    <3> QED BY <3>1, RowEnd
  <2> QED BY <2>1
<1>4. /\ End("t3") = 1
  <2>1. End("t3") = 1
    <3>1. Len(Row("t3")) = 0 BY PollingRows
    <3> QED BY <3>1, RowEnd
  <2> QED BY <2>1
<1> QED BY <1>1, <1>2, <1>3, <1>4

\* Which call is next at each position of the buffer lesson, and where rows end.
LEMMA BufferHere ==
  ASSUME lesson = "buffer"
  PROVE  /\ pc["t1"] = 1 => At("t1", "wait_empty")
         /\ pc["t1"] = 2 => At("t1", "lock")
         /\ pc["t1"] = 3 => At("t1", "make")
         /\ pc["t1"] = 4 => At("t1", "post_full")
         /\ pc["t1"] = 5 => At("t1", "unlock")
         /\ End("t1") = 6
         /\ pc["t2"] = 1 => At("t2", "wait_full")
         /\ pc["t2"] = 2 => At("t2", "lock")
         /\ pc["t2"] = 3 => At("t2", "take")
         /\ pc["t2"] = 4 => At("t2", "unlock")
         /\ pc["t2"] = 5 => At("t2", "post_empty")
         /\ End("t2") = 6
<1>1. /\ pc["t1"] = 1 => At("t1", "wait_empty")
      /\ pc["t1"] = 2 => At("t1", "lock")
      /\ pc["t1"] = 3 => At("t1", "make")
      /\ pc["t1"] = 4 => At("t1", "post_full")
      /\ pc["t1"] = 5 => At("t1", "unlock")
      /\ End("t1") = 6
  <2>1. End("t1") = 6
    <3>1. Len(Row("t1")) = 5 BY BufferRows
    <3> QED BY <3>1, RowEnd
  <2>2. /\ Row("t1")[1] = "wait_empty" /\ Row("t1")[2] = "lock" /\ Row("t1")[3] = "make"
        /\ Row("t1")[4] = "post_full" /\ Row("t1")[5] = "unlock"
    BY BufferRows
  <2> QED BY <2>1, <2>2 DEF At, Over
<1>2. /\ pc["t2"] = 1 => At("t2", "wait_full")
      /\ pc["t2"] = 2 => At("t2", "lock")
      /\ pc["t2"] = 3 => At("t2", "take")
      /\ pc["t2"] = 4 => At("t2", "unlock")
      /\ pc["t2"] = 5 => At("t2", "post_empty")
      /\ End("t2") = 6
  <2>1. End("t2") = 6
    <3>1. Len(Row("t2")) = 5 BY BufferRows
    <3> QED BY <3>1, RowEnd
  <2>2. /\ Row("t2")[1] = "wait_full" /\ Row("t2")[2] = "lock" /\ Row("t2")[3] = "take"
        /\ Row("t2")[4] = "unlock" /\ Row("t2")[5] = "post_empty"
    BY BufferRows
  <2> QED BY <2>1, <2>2 DEF At, Over
<1> QED BY <1>1, <1>2

\* Which call is next at each position of the sample, and where rows end.
LEMMA SampleHere ==
  ASSUME lesson = "sample"
  PROVE  /\ pc["t1"] = 1 => At("t1", "lock")
         /\ pc["t1"] = 2 => At("t1", "make")
         /\ pc["t1"] = 3 => At("t1", "unlock")
         /\ pc["t1"] = 4 => At("t1", "post_full")
         /\ End("t1") = 5
         /\ \A t \in {"t2", "t3"} :
              /\ pc[t] = 1 => At(t, "wait_full")
              /\ pc[t] = 2 => At(t, "lock")
              /\ pc[t] = 3 => At(t, "take")
              /\ pc[t] = 4 => At(t, "unlock")
              /\ End(t) = 5
<1>1. /\ pc["t1"] = 1 => At("t1", "lock")
      /\ pc["t1"] = 2 => At("t1", "make")
      /\ pc["t1"] = 3 => At("t1", "unlock")
      /\ pc["t1"] = 4 => At("t1", "post_full")
      /\ End("t1") = 5
  <2>1. End("t1") = 5
    <3>1. Len(Row("t1")) = 4 BY SampleRows
    <3> QED BY <3>1, RowEnd
  <2>2. /\ Row("t1")[1] = "lock" /\ Row("t1")[2] = "make" /\ Row("t1")[3] = "unlock"
        /\ Row("t1")[4] = "post_full"
    BY SampleRows
  <2> QED BY <2>1, <2>2 DEF At, Over
<1>2. ASSUME NEW t \in {"t2", "t3"}
      PROVE  /\ pc[t] = 1 => At(t, "wait_full")
             /\ pc[t] = 2 => At(t, "lock")
             /\ pc[t] = 3 => At(t, "take")
             /\ pc[t] = 4 => At(t, "unlock")
             /\ End(t) = 5
  <2>1. End(t) = 5
    <3>1. Len(Row(t)) = 4 BY SampleRows
    <3> QED BY <3>1, RowEnd
  <2>2. /\ Row(t)[1] = "wait_full" /\ Row(t)[2] = "lock" /\ Row(t)[3] = "take"
        /\ Row(t)[4] = "unlock"
    BY SampleRows
  <2> QED BY <2>1, <2>2 DEF At, Over
<1> QED BY <1>1, <1>2

\* Which call is next at each position of the limit lesson, and where rows end.
LEMMA LimitHere ==
  ASSUME lesson = "limit"
  PROVE  /\ pc["main"] = 1 => At("main", "join")
         /\ End("main") = 2
         /\ pc["t1"] = 1 => At("t1", "test")
         /\ pc["t1"] = 2 => At("t1", "lock")
         /\ pc["t1"] = 3 => At("t1", "make")
         /\ pc["t1"] = 4 => At("t1", "unlock")
         /\ pc["t1"] = 5 => At("t1", "post_full")
         /\ End("t1") = 6
         /\ \A t \in {"t2", "t3"} :
              /\ pc[t] = 1 => At(t, "test")
              /\ pc[t] = 2 => At(t, "wait_full")
              /\ pc[t] = 3 => At(t, "lock")
              /\ pc[t] = 4 => At(t, "take")
              /\ pc[t] = 5 => At(t, "unlock")
              /\ End(t) = 6
<1>1. /\ pc["main"] = 1 => At("main", "join")
      /\ End("main") = 2
  <2>1. End("main") = 2
    <3>1. Len(Row("main")) = 1 BY LimitRows
    <3> QED BY <3>1, RowEnd
  <2>2. /\ Row("main")[1] = "join"
    BY LimitRows
  <2> QED BY <2>1, <2>2 DEF At, Over
<1>2. /\ pc["t1"] = 1 => At("t1", "test")
      /\ pc["t1"] = 2 => At("t1", "lock")
      /\ pc["t1"] = 3 => At("t1", "make")
      /\ pc["t1"] = 4 => At("t1", "unlock")
      /\ pc["t1"] = 5 => At("t1", "post_full")
      /\ End("t1") = 6
  <2>1. End("t1") = 6
    <3>1. Len(Row("t1")) = 5 BY LimitRows
    <3> QED BY <3>1, RowEnd
  <2>2. /\ Row("t1")[1] = "test" /\ Row("t1")[2] = "lock" /\ Row("t1")[3] = "make"
        /\ Row("t1")[4] = "unlock" /\ Row("t1")[5] = "post_full"
    BY LimitRows
  <2> QED BY <2>1, <2>2 DEF At, Over
<1>3. ASSUME NEW t \in {"t2", "t3"}
      PROVE  /\ pc[t] = 1 => At(t, "test")
             /\ pc[t] = 2 => At(t, "wait_full")
             /\ pc[t] = 3 => At(t, "lock")
             /\ pc[t] = 4 => At(t, "take")
             /\ pc[t] = 5 => At(t, "unlock")
             /\ End(t) = 6
  <2>1. End(t) = 6
    <3>1. Len(Row(t)) = 5 BY LimitRows
    <3> QED BY <3>1, RowEnd
  <2>2. /\ Row(t)[1] = "test" /\ Row(t)[2] = "wait_full" /\ Row(t)[3] = "lock"
        /\ Row(t)[4] = "take" /\ Row(t)[5] = "unlock"
    BY LimitRows
  <2> QED BY <2>1, <2>2 DEF At, Over
<1> QED BY <1>1, <1>2, <1>3

\* The threads at which nothing can be done, lesson by lesson: of the calls
\* that wait, each waits for a thread that is over or for one that can go on.
THEOREM StandstillTheorem ==
  ASSUME Threshold > 1
  PROVE  Spec => []NoOtherStandstill
<1> DEFINE Still == \A t \in Threads : ~CanCall(t)
<1>1. ASSUME MutexInv, Still, lesson = "mutex"
      PROVE  Stuck
  <2>1. /\ TypeOK /\ HoldInv /\ CountInv /\ pc["t1"] \in 1..4 /\ pc["t2"] \in 1..3
        /\ {"t1", "t2"} \subseteq Threads
    BY <1>1, MutexHere DEF MutexInv, IInv, TypeOK, CountInv, Threads
  <2>2. pc["t2"] = 3 \/ (pc["t2"] = 1 /\ mutex # Nobody)
    BY <1>1, <2>1, MutexHere DEF CanCall
  <2>3. pc["t1"] = 4 \/ (pc["t1"] = 1 /\ mutex # Nobody)
    BY <1>1, <2>1, MutexHere DEF CanCall
  <2>4. mutex # Nobody => mutex = "t2" \/ mutex = "t1"
    BY <1>1, <2>1, Sections DEF HoldInv, TypeOK, Threads
  <2>5. (mutex = "t1" => pc["t1"] \in {2, 3}) /\ (mutex = "t2" <=> pc["t2"] \in {2, 3})
    BY <1>1, <2>1, Sections DEF HoldInv
  <2>6. pc["t2"] = 3 /\ mutex = "t2"
    BY <2>2, <2>3, <2>4, <2>5
  <2> QED BY <1>1, <2>6, MutexHere DEF Stuck
<1>2. ASSUME MutexInv, Still, lesson = "condition"
      PROVE  (\A t \in Threads : Over(t)) \/ Stuck
  <2>1. /\ TypeOK /\ HoldInv /\ pc["main"] \in 1..6 /\ pc["t1"] \in 1..5
        /\ pc["t2"] = 1 /\ pc["t3"] = 1 /\ {"main", "t1", "t2", "t3"} = Threads
    BY <1>2, ConditionHere DEF MutexInv, IInv, TypeOK, Threads
  <2>2. mutex # Nobody => pc["main"] \in {2, 4} \/ pc["t1"] \in {2, 3, 4}
    BY <1>2, <2>1, Sections DEF HoldInv, TypeOK
  <2>3. pc["t1"] = 5 \/ (pc["t1"] = 1 /\ mutex # Nobody)
    BY <1>2, <2>1, ConditionHere DEF CanCall
  <2>4. /\ pc["main"] \in {1, 3, 5, 6}
        /\ pc["main"] = 1 => mutex # Nobody
        /\ pc["main"] = 3 => ~woken \/ mutex # Nobody
    BY <1>2, <2>1, ConditionHere DEF CanCall
  <2>5. pc["t1"] = 5 /\ (pc["main"] = 5 \/ pc["main"] = 6 \/ (pc["main"] = 3 /\ ~woken))
    BY <2>2, <2>3, <2>4
  <2>6. Over("t1") /\ Over("t2") /\ Over("t3")
    BY <1>2, <2>1, <2>5, ConditionHere DEF Over
  <2>7. CASE pc["main"] = 5
    <3>1. At("main", "join") BY <1>2, <2>7, ConditionHere
    <3>2. CanCall("main") BY <2>1, <2>6, <3>1 DEF CanCall
    <3> QED BY <1>2, <2>1, <3>2
  <2>8. CASE pc["main"] = 6
    BY <1>2, <2>1, <2>6, <2>8, ConditionHere DEF Over
  <2>9. CASE pc["main"] = 3 /\ ~woken
    BY <1>2, <2>6, <2>9, ConditionHere DEF Stuck
  <2> QED BY <2>5, <2>7, <2>8, <2>9
<1>3. ASSUME MutexInv, Still, lesson = "polling"
      PROVE  \A t \in Threads : Over(t)
  <2>1. /\ TypeOK /\ HoldInv /\ CountInv /\ pc["main"] \in 1..3 /\ pc["t1"] \in 1..4
        /\ pc["t2"] = 1 /\ pc["t3"] = 1 /\ {"main", "t1", "t2", "t3"} = Threads
    BY <1>3, PollingHere DEF MutexInv, IInv, TypeOK, Threads
  <2>2. mutex # Nobody => pc["t1"] \in {2, 3}
    BY <1>3, <2>1, Sections DEF HoldInv, TypeOK
  <2>3. pc["t1"] = 4
    BY <1>3, <2>1, <2>2, PollingHere DEF CanCall
  <2>4. pc["main"] # 1
    BY <1>3, <2>1, <2>3, PollingHere DEF CanCall, CountInv
  <2>5. Over("t1") /\ Over("t2") /\ Over("t3")
    BY <1>3, <2>1, <2>3, PollingHere DEF Over
  <2>6. CASE pc["main"] = 2
    <3>1. At("main", "join") BY <1>3, <2>6, PollingHere
    <3>2. CanCall("main") BY <2>1, <2>5, <3>1 DEF CanCall
    <3> QED BY <1>3, <2>1, <3>2
  <2>7. CASE pc["main"] = 3
    BY <1>3, <2>1, <2>5, <2>7, PollingHere DEF Over
  <2> QED BY <2>1, <2>4, <2>6, <2>7
<1>4. ASSUME MutexInv, Still, lesson = "buffer"
      PROVE  FALSE
  <2>1. TypeOK /\ HoldInv /\ BufferInv /\ {"t1", "t2"} \subseteq Threads /\ BufferSize \in Nat \ {0}
    BY <1>4, SizesAssumption DEF MutexInv, IInv, Threads
  <2>2. mutex # Nobody => pc["t1"] \in {3, 4, 5} \/ pc["t2"] \in {3, 4}
    BY <1>4, <2>1, Sections DEF HoldInv, TypeOK, Threads
  <2>3. \/ pc["t1"] = 1 /\ ~(empty > 0)
        \/ pc["t1"] = 2 /\ mutex # Nobody
    BY <1>4, <2>1, BufferHere DEF CanCall, BufferInv
  <2>4. \/ pc["t2"] = 1 /\ ~(full > 0)
        \/ pc["t2"] = 2 /\ mutex # Nobody
    BY <1>4, <2>1, BufferHere DEF CanCall, BufferInv
  <2>5. pc["t1"] = 1 /\ pc["t2"] = 1 /\ ~(empty > 0) /\ ~(full > 0)
    BY <2>2, <2>3, <2>4
  <2> QED BY <1>4, <2>1, <2>5 DEF BufferInv, One, TypeOK
<1>5. ASSUME MutexInv, Still, lesson = "sample"
      PROVE  FALSE
  <2>1. TypeOK /\ HoldInv /\ SampleInv /\ {"t1", "t2", "t3"} \subseteq Threads
    BY <1>5 DEF MutexInv, IInv, Threads
  <2>2. mutex # Nobody => pc["t1"] \in {2, 3} \/ pc["t2"] \in {3, 4} \/ pc["t3"] \in {3, 4}
    BY <1>5, <2>1, Sections DEF HoldInv, TypeOK, Threads
  <2>3. pc["t1"] = 1 /\ mutex # Nobody
    BY <1>5, <2>1, SampleHere DEF CanCall, SampleInv
  <2>4. ASSUME NEW t \in {"t2", "t3"}
        PROVE  pc[t] \notin {3, 4}
    BY <1>5, <2>1, <2>4, SampleHere DEF CanCall
  <2> QED BY <2>2, <2>3, <2>4
<1>6. ASSUME MutexInv, Still, lesson = "limit"
      PROVE  (\A t \in Threads : Over(t)) \/ Stuck
  <2>1. /\ TypeOK /\ HoldInv /\ CountInv /\ LimitInv
        /\ {"main", "t1", "t2", "t3"} = Threads /\ pc["main"] \in 1..2 /\ Threshold \in Nat
    BY <1>6, LimitHere, SizesAssumption DEF MutexInv, IInv, TypeOK, Threads
  <2>2. mutex # Nobody =>
          pc["t1"] \in {3, 4, 6} \/ pc["t2"] \in {4, 5} \/ pc["t3"] \in {4, 5}
    BY <1>6, <2>1, Sections DEF HoldInv, TypeOK
  <2>3. ASSUME NEW t \in {"t2", "t3"}
        PROVE  \/ pc[t] = 6
               \/ pc[t] = 2 /\ ~(full > 0)
               \/ pc[t] = 3 /\ mutex # Nobody
    BY <1>6, <2>1, <2>3, LimitHere DEF CanCall, LimitInv
  <2>4. pc["t1"] = 6 \/ (pc["t1"] = 2 /\ mutex # Nobody)
    BY <1>6, <2>1, LimitHere DEF CanCall, LimitInv
  <2>5. pc["t1"] = 6 /\ mutex = "t1"
    BY <1>6, <2>1, <2>2, <2>3, <2>4, Sections DEF HoldInv
  <2>6. Over("t1")
    BY <1>6, <2>5, LimitHere DEF Over
  <2>7. CASE \E t \in {"t2", "t3"} : pc[t] = 3
    BY <1>6, <2>5, <2>6, <2>7, LimitHere DEF Stuck
  <2>8. CASE \A t \in {"t2", "t3"} : pc[t] # 3
    <3>1. counter = full + 1 /\ counter > 1
      <4>1. pc["t2"] \notin {3, 4} /\ pc["t3"] \notin {3, 4} /\ pc["t1"] \in 4..6
        BY <2>3, <2>5, <2>8
      <4>2. counter = full + 1 + 0 + 0
        BY <1>6, <2>1, <4>1 DEF LimitInv, One
      <4>3. counter = Threshold /\ full \in Nat
        BY <1>6, <2>1, <2>5 DEF CountInv, TypeOK
      <4> QED BY <2>1, <4>2, <4>3
    <3>2. \A t \in {"t2", "t3"} : pc[t] = 6
      BY <2>1, <2>3, <2>8, <3>1 DEF TypeOK
    <3>3. Over("t2") /\ Over("t3")
      BY <1>6, <3>2, LimitHere DEF Over
    <3>4. pc["main"] # 1
      <4>1. SUFFICES ASSUME pc["main"] = 1 PROVE FALSE
        OBVIOUS
      <4>2. At("main", "join") BY <1>6, <4>1, LimitHere
      <4>3. CanCall("main") BY <2>1, <2>6, <3>3, <4>2 DEF CanCall
      <4> QED BY <1>6, <2>1, <4>3
    <3>5. Over("main")
      BY <1>6, <2>1, <3>4, LimitHere DEF Over
    <3> QED BY <2>1, <2>6, <3>3, <3>5
  <2> QED BY <2>7, <2>8
<1>7. MutexInv => NoOtherStandstill
  <2> SUFFICES ASSUME MutexInv, Still PROVE /\ lesson \in Once \cup {"limit"}
                                            /\ (\A t \in Threads : Over(t)) \/ Stuck
    BY DEF NoOtherStandstill
  <2>1. lesson \in Lessons BY DEF MutexInv, IInv, TypeOK
  <2> QED BY <1>1, <1>2, <1>3, <1>4, <1>5, <1>6, <2>1 DEF Lessons, Once
<1> QED BY <1>7, MutexTheorem, PTL

\* A lesson that hangs does so for ever: no step of any thread frees it.
THEOREM StuckIsPermanent == Spec => [][Stuck => Stuck']_vars
<1>1. ASSUME MutexInv, Stuck, [Next]_vars
      PROVE  Stuck'
  <2>1. CASE UNCHANGED vars
    BY <1>1, <2>1 DEF Stuck, At, Over, End, Row, vars
  <2>2. ASSUME NEW t \in Threads, Thread(t)
        PROVE  Stuck'
    <3>1. TypeOK /\ HoldInv /\ {"main", "t1", "t2", "t3"} = Threads
      BY <1>1 DEF MutexInv, IInv, Threads
    <3>2. PICK call : /\ Moves(t, call)
                      /\ call = "join" => \A u \in Threads \ {t} : Over(u)
                      /\ woken' # woken => call \in {"wait", "signal"}
      BY <2>2, <3>1, StepShape
    <3>3. /\ At(t, call) /\ lesson' = lesson
          /\ \A u \in Threads \ {t} : pc'[u] = pc[u]
      BY <3>1, <3>2 DEF Moves, TypeOK
    <3>4. ASSUME NEW u \in Threads \ {t}, NEW c
          PROVE  (At(u, c) => At(u, c)') /\ (Over(u) => Over(u)')
      BY <3>3 DEF At, Over, End, Row
    <3>5. Nobody \notin Threads BY DEF Threads, Nobody
    <3>6. CASE lesson = "mutex"
      <4>1. mutex = "t2" /\ At("t2", "lock") /\ ~Over("t2")
        BY <1>1, <3>6 DEF Stuck, At
      <4>2. t # "main"
        BY <3>1, <3>2, <3>3, <3>6, <4>1, MutexAt
      <4>3. call = "lock" => FALSE
        BY <3>2, <3>5, <4>1, <3>1 DEF Moves
      <4>4. t # "t2" BY <3>3, <4>1, <4>3 DEF At
      <4>5. t = "t1" => pc["t1"] \notin {2, 3}
        BY <3>1, <3>6, <4>1, Sections DEF HoldInv
      <4> QED BY <3>1, <3>3, <3>6, <4>2, <4>3, <4>4, <4>5, MutexAt
    <3>7. CASE lesson = "condition"
      <4>1. Over("t1") /\ At("main", "wake") /\ ~woken
        BY <1>1, <3>7 DEF Stuck
      <4>2. t # "t1" BY <3>3, <4>1 DEF At
      <4>3. call # "wake" BY <3>2, <4>1 DEF Moves
      <4>4. t # "main" BY <3>3, <4>1, <4>3 DEF At
      <4> QED BY <3>1, <3>3, <3>7, <4>2, <4>4, ConditionAt
    <3>8. CASE lesson = "limit"
      <4>1. PICK u \in {"t2", "t3"} : Over("t1") /\ mutex = "t1" /\ At(u, "lock")
        BY <1>1, <3>8 DEF Stuck
      <4>2. call # "lock" /\ call # "wake"
        BY <3>1, <3>2, <3>5, <4>1 DEF Moves
      <4>3. t # u BY <3>3, <4>1, <4>2 DEF At
      <4>4. t # "t1" BY <3>3, <4>1 DEF At
      <4>5. call # "unlock" /\ call # "wait"
        <5>1. t \in {"t2", "t3"} => pc[t] \notin {4, 5}
          BY <3>1, <3>8, <4>1, Sections DEF HoldInv
        <5> QED BY <3>1, <3>3, <3>8, <4>4, <5>1, LimitAt
      <4>6. mutex' = mutex BY <3>2, <4>2, <4>5 DEF Moves
      <4>7. Over("t1")' /\ At(u, "lock")'
        BY <3>1, <3>4, <4>1, <4>3, <4>4
      <4> QED BY <3>3, <3>8, <4>1, <4>6, <4>7 DEF Stuck
    <3> QED BY <1>1, <3>6, <3>7, <3>8 DEF Stuck
  <2> QED BY <1>1, <2>1, <2>2 DEF Next
<1> QED BY <1>1, MutexTheorem, PTL DEF Spec

-----------------------------------------------------------------------------
(* The bounded buffer implements Dish: its mutex lets one visitor in, who  *)
(* puts in one thing or takes one out, once, before it leaves.             *)

Served ==
  \/ mutex = "t1" /\ pc["t1"] \in {4, 5}
  \/ mutex = "t2" /\ pc["t2"] = 4

Buffer == INSTANCE Dish WITH
  Visitors <- Threads, Slots <- 1..BufferSize, None <- Nobody,
  visitor <- IF lesson = "buffer" THEN mutex ELSE Nobody,
  served  <- lesson = "buffer" /\ Served,
  meals   <- IF lesson = "buffer" THEN 1..counter ELSE {}

\* What is in the buffer fits into it.
RoomInv == lesson = "buffer" => counter \in 0..BufferSize

\* Every step of the buffer lesson is a step of Dish or changes nothing of it.
THEOREM BufferTheorem == Spec => Buffer!Spec
<1>1. Init => Buffer!Init
  BY DEF Init, Buffer!Init, Served, Nobody
<1>2. ASSUME MutexInv, MutexInv', RoomInv, RoomInv', [Next]_vars
      PROVE  [Buffer!Next]_Buffer!vars
  <2> USE DEF Buffer!vars
  <2>1. CASE UNCHANGED vars
    BY <2>1 DEF Served, vars, data
  <2>2. ASSUME NEW t \in Threads, Thread(t), lesson # "buffer"
        PROVE  UNCHANGED Buffer!vars
    <3>1. PICK call : Moves(t, call)
      BY <1>2, <2>2, StepShape DEF MutexInv, IInv
    <3> QED BY <2>2, <3>1 DEF Moves
  <2>3. ASSUME NEW t \in Threads, Thread(t), lesson = "buffer"
        PROVE  [Buffer!Next]_Buffer!vars
    <3>1. TypeOK /\ HoldInv /\ BufferSize \in Nat
      BY <1>2, SizesAssumption DEF MutexInv, IInv
    <3>2. PICK call : Moves(t, call) /\ Counts(t, call)
      BY <2>3, <3>1, StepShape
    <3>3. /\ lesson' = "buffer" /\ At(t, call)
          /\ \A u \in Threads \ {t} : pc'[u] = pc[u]
      BY <2>3, <3>1, <3>2 DEF Moves, TypeOK
    <3>4. /\ \/ /\ t = "t1"
                /\ \/ pc[t] = 1 /\ call = "wait_empty"
                   \/ pc[t] = 2 /\ call = "lock"
                   \/ pc[t] = 3 /\ call = "make"
                   \/ pc[t] = 4 /\ call = "post_full"
                   \/ pc[t] = 5 /\ call = "unlock"
             \/ /\ t = "t2"
                /\ \/ pc[t] = 1 /\ call = "wait_full"
                   \/ pc[t] = 2 /\ call = "lock"
                   \/ pc[t] = 3 /\ call = "take"
                   \/ pc[t] = 4 /\ call = "unlock"
                   \/ pc[t] = 5 /\ call = "post_empty"
          /\ After(t) = IF pc[t] = 5 THEN 1 ELSE pc[t] + 1
      BY <2>3, <3>1, <3>3, BufferAt
    <3>5. /\ mutex = "t1" <=> pc["t1"] \in {3, 4, 5}
          /\ mutex = "t2" <=> pc["t2"] \in {3, 4}
          /\ mutex' = "t1" <=> pc'["t1"] \in {3, 4, 5}
          /\ mutex' = "t2" <=> pc'["t2"] \in {3, 4}
      <4>1. HoldInv' BY <1>2 DEF MutexInv
      <4>2. {"t1", "t2"} \subseteq Threads BY DEF Threads
      <4>3. Section["buffer"]["t1"] = {3, 4, 5} /\ Section["buffer"]["t2"] = {3, 4}
        BY <2>3, Sections
      <4> QED BY <2>3, <3>1, <3>3, <4>1, <4>2, <4>3 DEF HoldInv
    <3>6. CASE call = "lock"
      <4>1. mutex = Nobody /\ mutex' = t /\ pc'[t] = 3 /\ counter' = counter
        BY <3>2, <3>4, <3>6 DEF Moves, Counts
      <4>2. ~Served /\ ~Served'
        BY <3>4, <4>1 DEF Served, Nobody
      <4>3. Buffer!Arrive
        BY <2>3, <3>3, <4>1, <4>2 DEF Buffer!Arrive
      <4> QED BY <4>3 DEF Buffer!Next
    <3>7. CASE call = "unlock"
      <4>1. mutex = t /\ mutex' = Nobody /\ counter' = counter
        BY <3>2, <3>4, <3>5, <3>7 DEF Moves, Counts
      <4>2. ~Served' /\ t # Nobody
        BY <3>4, <4>1 DEF Served, Nobody
      <4>3. Buffer!Leave
        BY <2>3, <3>3, <4>1, <4>2 DEF Buffer!Leave
      <4> QED BY <4>3 DEF Buffer!Next
    <3>8. CASE call \in {"make", "take"}
      <4>1. mutex = t /\ pc[t] = 3 /\ t \in {"t1", "t2"} /\ t # Nobody
        BY <3>4, <3>5, <3>8 DEF Nobody
      <4>7. mutex' = mutex /\ pc'[t] = 4
        BY <2>3, <3>2, <3>4, <3>8, <4>1 DEF Moves
      <4>2. ~Served /\ Served'
        BY <4>1, <4>7 DEF Served
      <4>3. counter \in 0..BufferSize /\ counter' \in 0..BufferSize
        BY <1>2, <2>3, <3>3 DEF RoomInv
      <4>4. counter' = IF call = "make" THEN counter + 1 ELSE counter - 1
        BY <2>3, <3>2, <3>8 DEF Counts
      <4>5. \/ \E i \in (1..BufferSize) \ (1..counter) : 1..counter' = (1..counter) \cup {i}
            \/ \E i \in 1..counter : 1..counter' = (1..counter) \ {i}
        <5>1. CASE counter' = counter + 1
          <6>1. counter' \in (1..BufferSize) \ (1..counter)
            BY <4>3, <5>1
          <6>2. 1..counter' = (1..counter) \cup {counter'}
            BY <4>3, <5>1
          <6> QED BY <6>1, <6>2
        <5>2. CASE counter' = counter - 1
          <6>1. counter \in 1..counter
            BY <4>3, <5>2
          <6>2. 1..counter' = (1..counter) \ {counter}
            BY <4>3, <5>2
          <6> QED BY <6>1, <6>2
        <5> QED BY <4>4, <5>1, <5>2
      <4>6. Buffer!Serve
        BY <2>3, <3>3, <4>1, <4>2, <4>5, <4>7 DEF Buffer!Serve
      <4> QED BY <4>6 DEF Buffer!Next
    <3>9. CASE call \notin {"lock", "unlock", "make", "take"}
      <4>1. mutex' = mutex /\ counter' = counter
        BY <3>2, <3>4, <3>9 DEF Moves, Counts
      <4>2. Served' <=> Served
        <5>1. pc'[t] = After(t)
          BY <3>2, <3>4, <3>9 DEF Moves
        <5>2. /\ t = "t1" => (pc[t] = 1 /\ pc'[t] = 2) \/ (pc[t] = 4 /\ pc'[t] = 5)
              /\ t = "t2" => (pc[t] = 1 /\ pc'[t] = 2) \/ (pc[t] = 5 /\ pc'[t] = 1)
          BY <3>4, <3>9, <5>1
        <5> QED BY <3>3, <3>4, <4>1, <5>2 DEF Served, Threads
      <4> QED BY <2>3, <3>3, <4>1, <4>2
    <3> QED BY <3>6, <3>7, <3>8, <3>9
  <2> QED BY <1>2, <2>1, <2>2, <2>3 DEF Next
<1>3. MutexInv => RoomInv
  BY SizesAssumption DEF MutexInv, IInv, TypeOK, BufferInv, RoomInv, One
<1> QED BY <1>1, <1>2, <1>3, MutexTheorem, PTL DEF Spec, Buffer!Spec
=============================================================================

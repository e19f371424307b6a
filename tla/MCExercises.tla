----------------------------- MODULE MCExercises -----------------------------
(* PausedWorker and FifoExercise for TLC, in one instance: one of the two  *)
(* is run, and the other stays in an initial state.                        *)
EXTENDS PausedWorker, FifoExercise

VARIABLE exercise  \* "signals", the programs of 04_thread/6_bvn, or "fifo"

exerciseVars == <<exercise, vars, allVars>>

ExerciseInit ==
  /\ Init /\ FifoInit
  /\ \/ exercise = "fifo"
     \/ exercise = "signals" /\ version = "named_pipe" /\ ~fifo

ExerciseNext ==
  /\ UNCHANGED exercise
  /\ \/ exercise = "signals" /\ Next /\ UNCHANGED allVars
     \/ exercise = "fifo" /\ FifoNext /\ UNCHANGED vars

\* The fairness of the one that is run.
ExerciseFairness ==
  /\ exercise = "signals" => Fairness
  /\ exercise = "fifo" => FifoFairness

ExerciseSpec ==
  ExerciseInit /\ [][ExerciseNext]_exerciseVars /\ ExerciseFairness
=============================================================================

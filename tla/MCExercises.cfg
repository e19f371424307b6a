SPECIFICATION ExerciseSpec
CONSTANTS
  MaxSignals = 4
  Versions = {"related_pipe", "named_pipe", "bvn", "vdvd"}
  MaxMessages = 3
CHECK_DEADLOCK FALSE
INVARIANTS
  SelfLockNeedsHolder
  NoLostWakeUp
  FifoThereInVdvd
  OneByOne
PROPERTIES
  SelfLockIsPermanent
  StopEnds
  MessageArrives
  HangsInOpenOnly

CONSTANTS
  Procs = {p1, p2, p3}
  Families = {"queue", "segment", "file", "semaphore"}
  Killable = {p1, p2, p3}
  Room = 1
SPECIFICATION Spec
INVARIANTS FailsOnlyByRemoval SemaphoreBalance
PROPERTIES EndsOrWaits
CHECK_DEADLOCK FALSE

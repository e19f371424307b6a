SPECIFICATION FairSpec
CONSTANTS
  Threshold = 5
  BufferSize = 10
  MaxProducts = 6
CHECK_DEADLOCK FALSE
INVARIANTS
  SemaphoreCountsThings
  OneTakerPerProduct
PROPERTIES
  BothKeepGoing
  EndsOrStuck

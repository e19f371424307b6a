SPECIFICATION FifoFairSpec
CONSTANTS
  Versions = {"bvn"}
  MaxMessages = 0
CHECK_DEADLOCK FALSE
PROPERTIES
  ParentHearsChild

CONSTANTS
  Apps = {a1, a2}
  Others = {o1}
  Lessons = {2, 3, 4, 5}
  Capacity = 3
  Lengths = {1, 2}
  Word = 8
  MaxUnloads = 1
  MaxFailures = 2
SPECIFICATION Spec
INVARIANTS CallsHaveBuffer ReadsDefined PastSizeMeansOvertaken LoneWriteIntact LoadLeftovers
PROPERTIES ReaderEnds
CHECK_DEADLOCK FALSE

SPECIFICATION Spec
CONSTANTS
  q1 = q1
  Sizes = {1, 2}
  PartSize = 1
  Requests = {q1}
  NoRequest = NoRequest
  SegmentSize = 9
  CutsAtHeader = FALSE
  Faults = {}
  MaxOps = 4
  MaxCrashes = 2
  MaxFaults = 0
  MaxSegments = 7
CHECK_DEADLOCK FALSE
INVARIANT AckedSurvives
INVARIANT MemoryIsReplay
PROPERTY ImplementsLog

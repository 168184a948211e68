SPECIFICATION StreamSpec
CONSTANTS
  a = a  b = b
  Events = {a, b}
  Batches <- Pairs
  Runs = {r1, r2}
  Clients = {c1, c2}
  Streams = {s1, s2, s3}
  NoStream = none
  MaxRuns = 1
  MaxStreams = 1
  MaxVersion = 4
  MaxEpoch = 1
  MaxFrames = 2
CHECK_DEADLOCK FALSE
SYMMETRY Renamings
INVARIANT CacheCurrent
INVARIANT OneWriter
INVARIANT MemoryBounded
PROPERTY BehavesAsStore
PROPERTY DelegateIsAtomic

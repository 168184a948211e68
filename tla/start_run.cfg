SPECIFICATION Spec
CONSTANTS
  k1 = k1  k2 = k2
  Callers = {p1, p2}
  Keys = {k1, k2}
  Generated = {1}
  Manual = {2}
  Asked <- SomeAsked
  Profiles = {old, new}
  RunIDs = {r1, r2}
  Accesses = {a1, a2}
  Nobody = Nobody
  Chunks <- SomeChunks
  MaxTime = 1
CHECK_DEADLOCK FALSE
SYMMETRY Renamings
INVARIANT OwnWorldOnce
 

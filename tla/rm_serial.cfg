SPECIFICATION Spec
CONSTANTS
  r1 = r1  r2 = r2
  q1 = q1  q2 = q2  q3 = q3  q4 = q4
  s1 = s1
  c1 = c1  c2 = c2  c3 = c3
  Runs = {r1}
  Requests = {q1, q2, q3, q4}
  Starts = {}
  Commands = {c1, c2, c3}
  KindOf <- MixedKinds
  CommandOf <- MixedCommands
  RunOf <- OneRun
  MaxRuns = 1
  MaxInFlight = 1
  MaxNow = 2
  MaxBack = 1
  MaxFaults = 0
  MaxCrashes = 1
CHECK_DEADLOCK FALSE
INVARIANT TypeOK
INVARIANT SessionCurrent
INVARIANT NoDoubleCount
INVARIANT NoTimeLost

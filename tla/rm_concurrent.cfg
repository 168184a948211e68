SPECIFICATION Spec
CONSTANTS
  r1 = r1  r2 = r2
  q1 = q1  q2 = q2  q3 = q3  q4 = q4
  s1 = s1
  c1 = c1  c2 = c2  c3 = c3
  Runs = {r1}
  Requests = {q1, q2, q3}
  Starts = {s1}
  Commands = {c1, c2, c3}
  KindOf <- UpsertTwice
  CommandOf <- SameCommand
  RunOf <- OneRun
  MaxRuns = 1
  MaxInFlight = 2
  MaxNow = 1
  MaxBack = 0
  MaxFaults = 1
  MaxCrashes = 1
CHECK_DEADLOCK FALSE
INVARIANT ViewIsPrefix
INVARIANT CommandOnce
INVARIANT GateExcludes
INVARIANT AckDurable
INVARIANT InterruptedByRestart


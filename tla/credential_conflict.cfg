SPECIFICATION CredentialsSpec
CONSTANTS
  s1 = s1  s2 = s2
  Order <- SomeOrder
  Initial = {s1}
  Lifetime = 2
  EndsAt = 4
  Rotations <- TwoRotations
  Starts = {p1, p2}
  None = None
SYMMETRY Renamings
CHECK_DEADLOCK FALSE
INVARIANT EnsureRepeats

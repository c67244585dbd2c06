CONSTANTS
  w1 = w1
  w2 = w2
  s1 = s1
  s2 = s2
  Nobody = Nobody
  Workers = {w1, w2}
  Sessions = {s1, s2}
  NumMessages = 3
  SessionOf <- MCSessionOf
  Blank <- MCBlank
  MaxAttempts = 2
  MaxCrashes = 0
  SlowProcessing = TRUE
SPECIFICATION Spec
CHECK_DEADLOCK FALSE
INVARIANTS
  MutualExclusion

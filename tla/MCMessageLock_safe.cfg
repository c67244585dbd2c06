CONSTANTS
  w1 = w1
  w2 = w2
  s1 = s1
  s2 = s2
  Nobody = Nobody
  Workers = {w1, w2}
  Sessions = {s1, s2}
  NumMessages = 5
  SessionOf <- MCSessionOf
  Blank <- MCBlank
  MaxAttempts = 2
  MaxCrashes = 2
  SlowProcessing = FALSE
SPECIFICATION Spec
CHECK_DEADLOCK FALSE
SYMMETRY MCSymmetry
INVARIANTS
  TypeOK
  LockGuardsWork
  OneHome
  MutualExclusion
PROPERTIES
  ImplementsSerial
  DropOnlyBehindLiveHolder

CONSTANTS
  None = None
  Baileys = {b1}
  Meta = {m1, m2}
  Calls = {c1, c2}
  Sockets = {k1, k2}
  MaxCalls = 3
  MaxRestarts = 1
  MaxWrites = 2
SPECIFICATION FairSpec
CHECK_DEADLOCK FALSE
INVARIANTS
  TypeOK
  OneConnection
  StaysStopped
  StatusIsTrue
  ConnectedIsHeard
PROPERTIES
  ComesBack

CONSTANTS
  None = None
  Instances = {i1, i2}
  Keys = {city, plan}
  Admins = {a1, a2}
  MaxMessages = 3
  MaxRequests = 2
  MaxWrites = 2
SPECIFICATION Spec
CHECK_DEADLOCK FALSE
SYMMETRY MCSymmetry
INVARIANTS
  TypeOK
  CopyIsRow
  DroppedOnlyIfRaced
  StartsAfresh
PROPERTIES
  LostOnlyToOverlap

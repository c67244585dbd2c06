CONSTANTS
  i1 = i1
  i2 = i2
  s1 = s1
  s2 = s2
  s3 = s3
  f1 = f1
  None = None
  Replicas = {r1, r2}
  Flows = {f1, f2}
  Instances = {i1, i2}
  Sessions = {s1, s2}
  InstanceOf <- MCInstanceOf
  FirstFlow <- MCFirstFlow
  Requests = {q1}
  MaxVersions = 2
  MaxAdmin = 1
  MaxFailures = 1
SPECIFICATION Spec
CHECK_DEADLOCK FALSE
SYMMETRY MCSymmetry
INVARIANTS
  TypeOK
  OnlyPublished
  CacheFollowsPublication
  SessionFollowsPublication

CONSTANTS
  Documents <- MCDocuments
  Typed <- MCTyped
SPECIFICATION Spec
INVARIANTS
  CpfChecksAgree
  StoredIsNormal
  AcceptedDatesExist

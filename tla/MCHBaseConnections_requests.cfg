CONSTANTS
  r1 = r1
  r2 = r2
  Requests <- MCRequests
  Kinds <- MCKinds
  NRows = 3
  Sizes <- MCSizes
  Pages <- MCPages
  IntLimit = 5
SPECIFICATION Spec
INVARIANTS
  AloneIsServed
  AloneLeavesNoConnection
  HandlesGivenBack
  RawScanIsAPage
\* Each request is made once: the run stops when all are answered.
CHECK_DEADLOCK FALSE

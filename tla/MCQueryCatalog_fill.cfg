CONSTANTS
  a = a
  b = b
  r1 = r1
  r2 = r2
  n1 = n1
  Nodes <- MCNodes
  Names <- MCNames
  Requests <- MCRequests
  MaxUpdates = 3
  MaxRestarts = 1
SPECIFICATION Spec
SYMMETRY Symmetry
INVARIANTS CurrentUnlessCrossed FoundWhenStored
\* Requests end and the bounds are used up.
CHECK_DEADLOCK FALSE

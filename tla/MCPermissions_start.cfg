CONSTANTS
  n1 = n1
  q1 = q1
  q2 = q2
  r1 = r1
  t1 = t1
  t2 = t2
  Nodes <- MCNodes
  Roles <- MCRoles
  Requests <- MCRequests
  RolesOf <- MCRolesOf
  Types <- MCTypes
  Rows <- MCRows
  Docs <- MCDocs
  MaxUpdates = 3
  MaxStarts = 2
SPECIFICATION Spec
SYMMETRY Symmetry
INVARIANTS CurrentUnlessCrossed DecidedByWhatIsKnown CalmAnswerIsTheStores
\* Requests end and the bounds are used up.
CHECK_DEADLOCK FALSE

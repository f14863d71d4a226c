\* Two requests on one node, a second node that consumes, failures.
CONSTANTS
  n1 = n1
  n2 = n2
  r1 = r1
  r2 = r2
  Nodes <- TwoNodes
  Requests <- TwoRequests
  MaxVersion = 2
  FetchMayFail = TRUE
SPECIFICATION FairOnePlace
INVARIANTS
  RefreshIsCurrent
  SchemaFollowsService
  NodeFollowsUnlessCrossed
PROPERTY EveryRequestEnds
\* Every request ends.
CHECK_DEADLOCK FALSE

CONSTANTS
  Columns <- Col
  Queries <- MCQueries
  Sets <- MCSets
  Depth <- MCDepth
  Unfiltered <- None
SPECIFICATION FilterSpec
INVARIANTS ShowsWhatIsMeant SecurityNarrows ParametersFit
\* A request ends.
CHECK_DEADLOCK FALSE

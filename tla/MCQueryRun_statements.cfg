\* Result sets of up to five rows, two to a payload.
CONSTANTS
  Texts <- MCTexts
  Fold <- MCFold
  Prefixed <- MCPrefixed
  VariableLists <- MCVariableLists
  Bad = "bad"
  Unset = "unset"
  Rest = "rest"
  PayloadRows = 2
  MaxRows = 5
SPECIFICATION RunSpec
INVARIANTS
  BoundByName
  PreviewIsExecuted
  EachRowOnce
  ReturnedMeansSent
\* A run ends.
CHECK_DEADLOCK FALSE

\* Queries of up to five fields, mutations of up to three.
CONSTANTS
  order = order
  item = item
  Types <- TwoTypes
  WritableSets <- Writers
  Documents <- Small
  JoinWeight = 4
  SchemaBonus = 30
  MaxNormal = 2
  MaxJoin = 1
SPECIFICATION Spec
INVARIANTS
  WithinLimits
  ReceivedAsAsked
  AnswerTellsEffect
\* Every request ends.
CHECK_DEADLOCK FALSE

CONSTANTS
  Objects <- MCObjects
  Fields <- MCFields
  Select <- MCSelect
  Table <- MCTable
  Column <- MCColumn
  KeyOf <- MCKeyOf
  NoKey <- MCNoKey
  Many = {"k", "g"}
  Clashing <- MCClashing
  Denials <- NoDenial
  MaxBatch = 2
  MayFail = FALSE
SPECIFICATION Spec
INVARIANT OneCollectionPerLoad
CHECK_DEADLOCK FALSE

\* A request in batches of two, by two users, with statements that may fail.
CONSTANTS
  Objects <- MCObjects
  Fields <- MCFields
  Select <- MCSelect
  Table <- MCTable
  Column <- MCColumn
  KeyOf <- MCKeyOf
  NoKey <- MCNoKey
  Many = {"k", "g"}
  Clashing <- MCClashing
  Denials <- MCDenials
  MaxBatch = 2
  MayFail = TRUE
SPECIFICATION FairSpec
INVARIANTS
  TypeOK
  NothingIsLeft
  AnswerIsTheJoin
  DeniedIsNotGiven
PROPERTY
  RequestEnds
\* The request ends.
CHECK_DEADLOCK FALSE

\* One job, two nodes that may each restart twice, a stream that may fail.
CONSTANTS
  n1 = n1
  n2 = n2
  j1 = j1
  Nodes <- TwoNodes
  Jobs <- OneJob
  MaxPool = 1
  MaxRestarts = 2
  StreamMayFail = TRUE
SPECIFICATION FairSpec
INVARIANTS
  SuccessCarriesResult
  UnfinishedMeansFailed
  JobIdIsKnown
  LeakOnlyWhenBindingFails
PROPERTIES
  ImplementsAsyncJob
  ExecuteIsAnswered
  SuccessReachesEveryNode
\* Every job ends.
CHECK_DEADLOCK FALSE

SPECIFICATION FairSpec
INVARIANT TasksOwned
PROPERTIES
  StopReturns
  ImplementsAcquisition

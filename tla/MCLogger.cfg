SPECIFICATION FairSpec
CONSTANTS
  BatchSize = 2
  MaxSamples = 9
INVARIANTS
  TypeOK
  InOrder
  NoLostWakeup
PROPERTIES
  ImplementsLog
  CallsReturn

SPECIFICATION FairSpec
CONSTANTS
  j1 = j1
  Joints <- MCJoints
  Resettable = {}
  MaxCount = 1
  MinRange = 1
  ErrorCodes = {1}
  Commands <- MCCommands
  QueueBound = 2
  PublishEvery = 1
INVARIANTS
  RecordingMatchesFiles
PROPERTIES
  StopIdlesEverything
  ShutdownEnds

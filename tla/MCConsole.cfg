SPECIFICATION FairConsoleSpec
CONSTANTS
  j1 = j1
  Joints <- MCJoints
  Resettable <- MCJoints
  MaxCount = 1
  MinRange = 1
  ErrorCodes = {}
  Commands <- MCCommands
  QueueBound = 1
  PublishEvery = 1
INVARIANTS
  NewsArrives
  StopWithinReach
  DeadMan
PROPERTIES
  WindowSettles

SPECIFICATION Spec
CONSTANTS
  j1 = j1
  j2 = j2
  Joints <- MCJoints
  Resettable <- MCJoints
  MaxCount = 1
  MinRange = 1
  ErrorCodes = {}
  Commands <- MCCommands
  QueueBound = 1
  PublishEvery = 1
SYMMETRY JointSymmetry
INVARIANTS
  LabelShowsMotion
PROPERTIES
  FaultClearedOnlyByIdling

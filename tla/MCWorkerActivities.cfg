SPECIFICATION Spec
CONSTANTS
  j1 = j1
  Joints <- MCJoints
  Resettable = {}
  MaxCount = 2
  MinRange = 1
  ErrorCodes = {}
  Commands <- MCCommands
  QueueBound = 1
  PublishEvery = 1
INVARIANTS
  PoweredMatchesActivity
  NothingLeftPowered
  EnvelopeOrdered
PROPERTIES
  EnvelopeBeforePower
  SetpointInsideEnvelope

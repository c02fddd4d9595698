SPECIFICATION FairSpec
CONSTANTS
  hip = hip
  knee = knee
  Joints <- MCJoints
  Selectable <- MCJoints
  MaxCount = 1
  MinRange = 0
  HoldTicks = 1
  ApproachTicks = {1, 2}
  ErrorCodes = {}
  MaxTicks = 4
INVARIANTS
  TypeOK
  PowerOnlyInRun
  PhasesInStep
  PoweredInsideCapture
PROPERTIES
  SignalIdlesForGood
  FaultIdlesAll

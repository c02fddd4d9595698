SPECIFICATION Spec
CONSTANTS
  TrailJoints = {"hip", "knee"}
  Decimation = 3
  MinWaypoints = 2
  MaxWaypoints = 3
  MinSegment = 1
  Top = 8
  Frames <- MCFrames
  MaxTrail = 6
  MaxCurrent = 4
  MaxSweep = 3
  PlotJoints = 2
  Windows = {1, 2}
  MaxPoints = 2
  Rate = 2
  Nominal = 1
  MaxClock = 5
  MaxTaken = 4
INVARIANTS
  SweepAsRequested
  DecimationFaithful
  SplinePlays
  ReferencesInside
  ChirpSmooth
  SelectionSound
  PlotFaithful
CHECK_DEADLOCK FALSE

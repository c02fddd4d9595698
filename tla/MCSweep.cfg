SPECIFICATION FairSpec
CONSTANTS
  Forms <- MCForms
  Dwell = 2
  MaxLag = 1
INVARIANTS
  TypeOK
  ButtonsMatchSweep
  RowsMeasured
  ReleasedAfterSweep
PROPERTIES
  SweepEnds

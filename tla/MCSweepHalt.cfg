SPECIFICATION Spec
CONSTANTS
  Forms <- MCForms
  Dwell = 2
  MaxLag = 1
INVARIANTS
  EmergencyStopHolds

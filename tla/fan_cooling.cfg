SPECIFICATION Spec
CONSTANTS
  Watts = {52, 75, 76, 93}
  MaxTemp = 100
  TempStep = 1
  UserCurves <- MCCurves
INVARIANTS
  MinimumHeld
  NeverQuieter
  OverRampOnItsGrid

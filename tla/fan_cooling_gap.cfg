SPECIFICATION Spec
CONSTANTS
  Watts = {52, 93}
  MaxTemp = 100
  TempStep = 5
  UserCurves <- MCCurves
INVARIANT
  OverRamp

SPECIFICATION Spec

CONSTANTS
  Names = {"custom"}
  StockProfiles = {"balanced"}
  Firmware <- OneStock
  FactoryCurve <- QuietCurve
  UserCurves <- QuietOnly
  Watts = {80}
  OutsideLimits = {30}
  AutoTargets = {}
  WriteFaults = TRUE
  TornAt = {9}
  Restarts = FALSE
  ZeroPL1 = FALSE

INVARIANTS
  TypeOK
  StockHeld

PROPERTIES
  RaiseOnlyOverFloor
  ReleaseBelowSafe

SPECIFICATION Spec

CONSTANTS
  Names = {"custom"}
  StockProfiles = {"balanced"}
  Firmware <- OneStock
  FactoryCurve <- MCFactoryCurve
  UserCurves <- QuietOnly
  Watts = {80}
  OutsideLimits = {30}
  AutoTargets = {}
  WriteFaults = FALSE
  TornAt = {}
  Restarts = FALSE
  ZeroPL1 = TRUE

INVARIANT
  HighLimitFloored

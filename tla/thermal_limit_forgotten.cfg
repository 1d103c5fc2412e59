SPECIFICATION Spec

CONSTANTS
  Names = {"custom", "game"}
  StockProfiles = {"balanced"}
  Firmware <- OneStock
  FactoryCurve <- MCFactoryCurve
  UserCurves <- QuietOnly
  Watts = {30, 80}
  OutsideLimits = {45}
  AutoTargets = {}
  WriteFaults = TRUE
  TornAt = {0}
  Restarts = FALSE
  ZeroPL1 = FALSE

INVARIANT
  LimitDefended

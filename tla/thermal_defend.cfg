SPECIFICATION Spec

CONSTANTS
  Names = {"custom", "game"}
  StockProfiles = {"balanced"}
  Firmware <- OneStock
  FactoryCurve <- MCFactoryCurve
  UserCurves <- QuietOnly
  Watts = {30, 80}
  OutsideLimits = {45}
  AutoTargets = {}
  WriteFaults = FALSE
  TornAt = {}
  Restarts = FALSE
  ZeroPL1 = FALSE

INVARIANTS
  HighLimitFloored
  LimitDefended

PROPERTY
  Defends

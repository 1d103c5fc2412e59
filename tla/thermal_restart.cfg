SPECIFICATION Spec

CONSTANTS
  Names = {"custom"}
  StockProfiles = {"balanced", "performance"}
  Firmware <- TwoStock
  FactoryCurve <- QuietCurve
  UserCurves <- QuietOnly
  Watts = {30, 80}
  OutsideLimits = {30}
  AutoTargets = {"balanced", "custom"}
  WriteFaults = FALSE
  TornAt = {0}
  Restarts = TRUE
  ZeroPL1 = FALSE

INVARIANTS
  StockLimitSafe
  SettingsFloored

PROPERTY
  RaiseOnlyOverFloor

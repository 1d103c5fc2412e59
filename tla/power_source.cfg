SPECIFICATION Spec

CONSTANTS
  Adapters = {"charger", "dock"}
  Custom = {"day"}
  Stocks = {"balanced"}
  NudgeCap = 1
  MaxOutages = 1

INVARIANTS
  TypeOK
  TargetsExist

PROPERTIES
  FollowsTheSource
  Confirms

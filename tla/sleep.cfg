SPECIFICATION Spec

CONSTANTS
  Custom = {"hot"}
  Asked = {"stock", "hot"}
  Wants <- OnlyHot
  Row = 52
  StandDownTicks = 3
  DelayTicks = 1
  WaitTicks = 1
  MaxSleeps = 2
  SleepRelease = TRUE
  Lossy = TRUE
  LockDenied = TRUE
  DeadEC = "gone"
  Faults = TRUE

INVARIANT
  TypeOK

PROPERTIES
  ReleasedAtFreeze
  LoweredBeforeFree
  RestoredOnceAnswering
  Recovers

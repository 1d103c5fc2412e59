SPECIFICATION Spec

CONSTANTS
  Names = {"custom", "day"}
  Default = "custom"
  Stocks = {"balanced"}
  Balanced = "balanced"
  Requests <- TwoRequests
  Targets = {"balanced", "day"}
  MaxFaults = 1
  MaxOutages = 2

INVARIANTS
  TypeOK
  FlagsTellHardware
  StockClean
  ActiveExists
  SnapshotFresh


  

SPECIFICATION LightSpec

CONSTANTS
  Looks = {"cyan"}
  Levels = {0, 3}
  Bright = 3
  DefaultLook = "red"
  MaxCommands = 2
  MaxFaults = 1
  MaxOutages = 2

PROPERTY
  LatchesOnlyOpened

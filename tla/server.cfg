SPECIFICATION Spec

CONSTANTS
  Looks = {"cyan"}
  Levels = {0, 3}
  Bright = 3
  DefaultLook = "red"
  MaxCommands = 2
  MaxFaults = 1
  MaxOutages = 1

INVARIANTS
  LampsMatch
  Restorable
  FileWhole
  FileKeepsUp
  NoMissedChange
  CommandsGoOn

PROPERTY
  LatchedWhenShown

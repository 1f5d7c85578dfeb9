SPECIFICATION Spec
CONSTANTS
  NumPorts = 4
  Board = "IC_4C"
  Firmware <- MCFirmware
  Commands <- MCCommands
  MaxCommands = 4
  MaxProbes = 2
  MaxTimeouts = 1
INVARIANT
  ResetIsClean
PROPERTIES
  RemapKeepsSettings
  CommandTouchesOnePort
CHECK_DEADLOCK FALSE

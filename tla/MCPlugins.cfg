CONSTANTS
  Plugins <- MCPlugins
  Unit <- MCUnit
  SameDev <- MCSameDev
  OtherDev <- MCOtherDev
  Commands <- MCCommands
  MaxCommands = 2
  RoomTemps <- MCRoomTemps
SPECIFICATION Spec
INVARIANTS
  TrueReports
  ForeignIgnored
PROPERTY OthersKept
CHECK_DEADLOCK FALSE

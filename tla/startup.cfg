SPECIFICATION StartupSpec
CONSTANTS
  Modulus = 4
  MaxCmd = 4
  None = None
  Space = " "
  Paths <- MCPaths
  Configs <- MCConfigs
INVARIANTS RunsTheValid EverySlotFilled ArgvIsCommand
CHECK_DEADLOCK FALSE

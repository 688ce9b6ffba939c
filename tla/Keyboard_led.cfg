SPECIFICATION KeyboardSpec
CONSTANTS
  MaxCodes = 2
  PhysicalKeys = {"char", "ctrl", "lshift", "rshift", "caps", "up"}
  LedStatuses = {{4}, {0, 4}}
INVARIANTS
  LedFollowsCaps

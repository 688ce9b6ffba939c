SPECIFICATION KeyboardSpec
CONSTANTS
  MaxCodes = 2
  PhysicalKeys = {"char", "ctrl", "lshift", "rshift", "caps", "up"}
  LedStatuses = {{4}, {1, 4}, {0, 1, 4}}
INVARIANTS
  ShiftTracksKeys
  TypedAsHeld

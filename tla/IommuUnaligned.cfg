SPECIFICATION Spec
CONSTANTS
  Platforms <- MCPlatforms
INVARIANT PendingAreCommands
CHECK_DEADLOCK FALSE

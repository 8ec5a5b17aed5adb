SPECIFICATION Spec
CONSTANTS
  Platforms <- MCPlatforms
INVARIANT FirstCallCannotComplete
CHECK_DEADLOCK FALSE

SPECIFICATION Spec
CONSTANTS
  Platforms <- MCPlatforms
INVARIANTS
  TypeOK
  FetchesCommands
  SlbShielded
  FreshCompletion
  ProtectedWithoutIommu
  ReturnsShielded
PROPERTIES
  Terminates
  ShieldSpec
CHECK_DEADLOCK FALSE

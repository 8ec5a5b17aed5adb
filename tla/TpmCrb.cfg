SPECIFICATION Spec
CONSTANTS
  HdrLen = 2
  Commands = 4
  CmdLen <- MCCmdLen
  BufSize = 6
  Preempts = TRUE
INVARIANTS
  Truthful
  AreaStable
  LocalityKnown
PROPERTIES
  Ends
  ServiceSpec
CHECK_DEADLOCK FALSE

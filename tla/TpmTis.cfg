SPECIFICATION Spec
CONSTANTS
  HdrLen = 2
  Families <- MCFamilies
  Commands = 2
  CmdLen <- MCCmdLen
  RspLens <- MCRspLens
  BufSize = 6
  MaxBurst = 3
  Reliability <- MCReliability
INVARIANTS
  TypeOK
  Truthful
  LocalityKnown
  NoneLost
PROPERTIES
  Ends
  ServiceSpec
CHECK_DEADLOCK FALSE

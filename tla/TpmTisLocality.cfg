SPECIFICATION Spec
CONSTANTS
  HdrLen = 2
  Families <- MCFamilies
  Commands = 2
  CmdLen <- MCCmdLen
  RspLens <- MCRspLens
  BufSize = 6
  MaxBurst = 3
  Reliability <- MCReliability
INVARIANT LocalityWaited
CHECK_DEADLOCK FALSE

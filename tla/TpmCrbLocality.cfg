SPECIFICATION Spec
CONSTANTS
  HdrLen = 2
  Commands = 4
  CmdLen <- MCCmdLen
  BufSize = 6
  Preempts = FALSE
INVARIANT HasTpm
CHECK_DEADLOCK FALSE

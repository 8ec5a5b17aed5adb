SPECIFICATION Launch
CONSTANTS
  AddrSpace = 4096
  SlbStart = 1024
  SlbSize = 256
  HdrSize = 32
  IdSize <- MCIdSize
  EvSize <- MCEvSize
  FirstOff <- MCFirstOff
  OffBase <- MCOffBase
  Addrs <- MCAddrs
  Sizes <- MCSizes
  Texts <- MCTexts
  Boots <- MCBoots
  MBIs <- MCMBIs
  ModText = 12
INVARIANTS
  BootDataFirst
  KernelMeasured
  LogMatchesBanks
  LogReplays
  RunsWhatItMeasured
  TpmGivenUp
PROPERTIES
  NoLateCommand
CHECK_DEADLOCK FALSE

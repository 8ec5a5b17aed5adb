SPECIFICATION Spec
CONSTANTS
  AddrSpace = 2048
  SlbStart = 1024
  SlbSize = 256
  HdrSize = 32
  IdSize <- MCIdSize
  EvSize <- MCEvSize
  FirstOff <- MCFirstOff
  OffBase <- MCOffBase
  Addrs <- MCAddrs
  Sizes <- MCSizes
  Texts <- MCTexts
INVARIANTS
  TypeOK
  WritesContained
  HeaderTracksEnd
  WholeRecords
  FailedLogStaysShut
PROPERTY AllOrNothing

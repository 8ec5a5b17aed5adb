SPECIFICATION Spec
CONSTANTS
  Data = 1
  SlbEnd = 7
  Sizes = {3, 6, 7}
  Lens = {0, 1, 2}
  Word = 16
  Paragraph = 2
  Images <- MCImages
  Offsets = {0, 3, 9, 14}
  Limit = 64
  MbiTop = 3
  MbiLens = {24, 40}
  TagSizes = {0, 8, 12, 63}
  Entries = {0, 3}
  KSizes = {0, 2}
INVARIANTS
  ActsOnMeasured
  ModulesOnce
  KernelEntered
PROPERTIES
  LegalSwitches
  Ends
CHECK_DEADLOCK FALSE

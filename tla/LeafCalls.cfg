SPECIFICATION Spec
CONSTANTS
  Machines <- MCMachines
  Lengths <- MCLengths
  Algs = {"SHA1", "SHA256"}
INVARIANTS
  LiftsOnlyProtection
  HashesPadded
PROPERTIES
  LocateEnds
CHECK_DEADLOCK FALSE

SPECIFICATION Spec
CONSTANTS
  Hosts <- Noble
  Files = {"ubuntu.sources"}
  Foreign = {}
  MaxReboots = 8
  MaxStarts = 2
  MaxCrashes = 1
INVARIANT
  DiesInsteadOfLooping
CHECK_DEADLOCK FALSE

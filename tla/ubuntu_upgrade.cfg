SPECIFICATION FairSpec
CONSTANTS
  Hosts <- AllHosts
  Files = {"ubuntu.sources", "sources.list"}
  Foreign = {"docker.list"}
  MaxReboots = 8
  MaxStarts = 2
  MaxCrashes = 1
INVARIANTS
  CleanSources
  RebootSound
  DoneIsSettled
PROPERTIES
  InvocationIsBounded
  RebootsAreCounted
  HopByHop
  UpgradeSettles
CHECK_DEADLOCK FALSE

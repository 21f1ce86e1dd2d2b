SPECIFICATION Spec
CONSTANTS
  Generations = 2
  Confirms = 2
  Wait = 2
  Extension = 1
  Grace = 1
  QueriesFail = TRUE
  LeaderShown = FALSE
INVARIANTS
  DoneSawOneCompositor
PROPERTIES
  RunIsBounded
  SocketKept
  RunEnds

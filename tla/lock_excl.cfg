SPECIFICATION Spec
CONSTANTS
  None = None
  NoPid = NoPid
  Procs = {p1, p2, p3}
  Pids = {x1, x2, x3, x4}
  Kills = TRUE
  WriteMayFail = TRUE
  Releases = {0, 1, 2}
SYMMETRY Interchangeable
INVARIANTS
  ExclusiveUnlessRobbed
PROPERTIES
  ImplementsLockService
  RefusedOnlyInCompany

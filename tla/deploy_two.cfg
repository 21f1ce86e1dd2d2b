SPECIFICATION Spec
CONSTANTS
  Free = Free
  Stale = Stale
  Procs = {p1, p2}
  Names <- RebootPair
  NPhases <- MCNPhases
  BodyEnds <- MCBodyEnds
  EarlyEnds <- MCEarlyEnds
  Reopening <- MCReopening
  MaxReboots = 2
  Cmds = {"apply", "resume", "phase", "reset"}
  Autos = {TRUE}
  SaveMayFail = FALSE
  KillAt = {"body"}
  LossAt = {"body"}
  MaxStarts = 2
  MaxCrashes = 1
CHECK_DEADLOCK FALSE
PROPERTIES
  UsesLockService

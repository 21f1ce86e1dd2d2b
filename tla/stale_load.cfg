SPECIFICATION Spec
CONSTANTS
  Free = Free
  Stale = Stale
  Procs = {p1, p2}
  Names <- LastTwo
  NPhases <- MCNPhases
  BodyEnds <- MCBodyEnds
  EarlyEnds <- MCEarlyEnds
  Reopening <- MCReopening
  MaxReboots = 2
  Cmds = {"apply"}
  Autos = {FALSE}
  SaveMayFail = FALSE
  KillAt = {}
  LossAt = {}
  MaxStarts = 2
  MaxCrashes = 0
CHECK_DEADLOCK FALSE
PROPERTIES
  CompletedStaysCompleted

SPECIFICATION FairSpec
CONSTANTS
  Free = Free
  Stale = Stale
  Procs = {p1}
  Names <- RebootThree
  NPhases <- MCNPhases
  BodyEnds <- MCBodyEnds
  EarlyEnds <- MCEarlyEnds
  Reopening <- MCReopening
  MaxReboots = 3
  Cmds = {"apply"}
  Autos = {TRUE}
  SaveMayFail = FALSE
  KillAt = {}
  LossAt <- NotInsideUnitWrite
  MaxStarts = 1
  MaxCrashes = 2
CHECK_DEADLOCK FALSE
PROPERTIES
  AutoDeploySettles

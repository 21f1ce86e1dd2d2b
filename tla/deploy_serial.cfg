SPECIFICATION Spec
CONSTANTS
  Free = Free
  Stale = Stale
  Procs = {p1}
  Names <- Mixed
  NPhases <- MCNPhases
  BodyEnds <- MCBodyEnds
  EarlyEnds <- MCEarlyEnds
  Reopening <- MCReopening
  MaxReboots = 2
  Cmds = {"apply", "resume", "phase", "reset", "creds"}
  Autos = {TRUE, FALSE}
  SaveMayFail = TRUE
  KillAt <- Anywhere
  LossAt <- Anywhere
  MaxStarts = 3
  MaxCrashes = 2
CHECK_DEADLOCK FALSE
INVARIANTS
  CountersBounded
  EveryRebootCounted
  PipelineOrder
  ResetSticks
  ArmedWhilePhasesRun
PROPERTIES
  RebootSurvivable
  CompletedStaysCompleted
  ImplementsLedger
  UnitRemovedOnlyWhenPassed

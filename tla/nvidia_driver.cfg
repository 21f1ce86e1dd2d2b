SPECIFICATION Spec
CONSTANTS
  Offers = {{"server", "non-server"}, {"server-open", "server", "non-server-open", "non-server"}, {"non-server-open"}}
  FoundThere = {{}, {"server"}, {"server-open"}, {"server", "non-server"}, {"non-server"}}
  Repair = FALSE
  MajorListed = FALSE
  MaxRuns = 2
  MaxReboots = 2
CHECK_DEADLOCK FALSE
INVARIANTS
  WrongFlavorOnce
PROPERTIES
  InstallsAreJustified
  DoneIsServed

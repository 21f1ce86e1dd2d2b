SPECIFICATION Spec
CONSTANTS
  Profiles <- MCProfiles
  Bytes = {"b1", "b2", "b3"}
  Corrupt = {"b1"}
  NoSHA = "unknown"
  MaxAttempts = 4
  MaxRuns = 2
  MaxKills = 1
CHECK_DEADLOCK FALSE
INVARIANTS
  BadBytesOnce
  NothingStaged
PROPERTIES
  ModeHonoured
  DoneIsWhole

SPECIFICATION Spec
CONSTANTS
  MaxCrashes = 3
INVARIANTS
  GuardedWhileDpkgRuns
  AsFoundUnlessCrashed
  NothingLeftBehind
PROPERTIES
  CallbackOnSoundDpkg
  OriginalKept

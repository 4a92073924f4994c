\* A job after one that named a field.  The job ends.
CONSTANTS
  MaxVersion = 12
  MaxFaults = 2
  FinalizeAttempts = 2
  Watched <- MCWatched
  Starts <- MCLater
  ConfigFile <- MCConfigFile
  BuiltIn <- MCBuiltIn
  Albums = 2
SPECIFICATION SessionSpec
INVARIANT NothingLeaks
CHECK_DEADLOCK FALSE

\* One job of two albums, on a configuration that earlier jobs wrote or none has.  The job ends.
CONSTANTS
  MaxVersion = 12
  MaxFaults = 2
  FinalizeAttempts = 2
  Watched <- MCWatched
  Starts <- MCStarts
  ConfigFile <- MCConfigFile
  BuiltIn <- MCBuiltIn
  Albums = 2
SPECIFICATION SessionSpec
INVARIANTS JobTypeOK EndedOutputIsWhole NamedSettingsAreOwn ResultIsWhatLanded AbortStops InferenceFollows
PROPERTIES AppendOnly OutputIsShown
CHECK_DEADLOCK FALSE

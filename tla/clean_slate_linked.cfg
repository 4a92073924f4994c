\* A track whose path leads through a link in the library into the source.
CONSTANTS
  Track = {"one", "two"}
  Album = "album"
  Art = "cover"
  Single = {"single"}
  Path <- Paths
  File <- Files
  PathOf <- PathOfPart
  FileAt <- FileAtPath
  Audio <- AudioFiles
  InLibrary <- LinkedPaths
  Source <- Sources
  Holds <- HoldsFiles
  Under <- NotUnderSource
  Allowed <- Sources
  MaxChanges = 2
SPECIFICATION Spec
INVARIANT SourceSurvives
CHECK_DEADLOCK FALSE

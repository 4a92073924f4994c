\* Clean slates of an album and of a track; other programs interfere.
CONSTANTS
  Track = {"one", "two"}
  Album = "album"
  Art = "cover"
  Single = {"single"}
  Path <- Paths
  File <- Files
  PathOf <- PathOfPart
  FileAt <- FileAtPath
  Audio <- AudioFiles
  InLibrary <- LibraryPaths
  Source <- Sources
  Holds <- HoldsFiles
  Under <- UnderSource
  Allowed <- Sources
  MaxChanges = 2
SPECIFICATION Spec
INVARIANTS TypeOK SourceSurvives RowsOutliveFiles CanBeReplaced Repeatable
CHECK_DEADLOCK FALSE

\* Two beets clients and one request, two folders and one advance of the clock.  Everything may have
\* happened: deadlock is an end.
CONSTANTS
  Clients = {c1, c2}
  Threads = {t1}
  Folders = {f1, f2}
  MaxTime = 1
  MaxSkew = 0
  PageSize = 4
  MaxDrops = 1
  MaxLooks = 1
SPECIFICATION PathSpec
CONSTRAINT MCBound
SYMMETRY MCSymmetry
INVARIANTS SourcePathsTypeOK OffersOwnFolder EveryEventShownOnce PairsAreImports HistoryIsCurrent
CHECK_DEADLOCK FALSE

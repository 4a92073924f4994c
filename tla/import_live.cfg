\* One process at a time, crashes and restarts, fewer faults than retries.
CONSTANTS
  Worker = {w1, w2}
  NoWorker = NoWorker
  MaxJobs = 2
  MaxRequests = 1
  FinalizeAttempts = 2
  MaxFaults = 1
  FaultPoints <- RecoverableFaults
  Overlap = FALSE
  GracefulStop = TRUE
  Stalls = FALSE
SPECIFICATION FairSpec
INVARIANT ClaimIsHeld
PROPERTY EveryJobEnds
PROPERTY AbortEndsActiveJob

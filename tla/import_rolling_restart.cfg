\* A second process starts while the first one shuts down.
CONSTANTS
  Worker = {w1, w2, w3}
  NoWorker = NoWorker
  MaxJobs = 2
  MaxRequests = 1
  FinalizeAttempts = 2
  MaxFaults = 0
  FaultPoints <- AllFaults
  Overlap = TRUE
  GracefulStop = TRUE
  Stalls = FALSE
SPECIFICATION Spec
SYMMETRY Workers
INVARIANT AtMostOneImport

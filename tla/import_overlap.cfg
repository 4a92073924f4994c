\* Several processes at once; leases lapse only under dead holders.
CONSTANTS
  Worker = {w1, w2, w3}
  NoWorker = NoWorker
  MaxJobs = 2
  MaxRequests = 1
  FinalizeAttempts = 2
  MaxFaults = 1
  FaultPoints <- AllFaults
  Overlap = TRUE
  GracefulStop = FALSE
  Stalls = FALSE
SPECIFICATION Spec
SYMMETRY Workers
INVARIANTS ErrorIffFailed AtMostOneImport LeaderHasRecovered ParkedOnItsPrompt
PROPERTY ImplementsSerialImports

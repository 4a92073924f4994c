\* Several processes at once; leases lapse at any time.
CONSTANTS
  Worker = {w1, w2}
  NoWorker = NoWorker
  MaxJobs = 2
  MaxRequests = 1
  FinalizeAttempts = 2
  MaxFaults = 2
  FaultPoints <- AllFaults
  Overlap = TRUE
  GracefulStop = TRUE
  Stalls = TRUE
SPECIFICATION Spec
SYMMETRY Workers
INVARIANTS TypeOK PromptIffAwaiting ActiveIsClaimed AbortedWasRequested OneOwner
PROPERTY ClaimedOnce

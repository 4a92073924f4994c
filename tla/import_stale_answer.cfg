\* Two requests of one import, answered from pages of any age.
CONSTANTS
  Worker = {w1, w2}
  NoWorker = NoWorker
  MaxJobs = 1
  MaxRequests = 2
  FinalizeAttempts = 2
  MaxFaults = 0
  FaultPoints <- AllFaults
  Overlap = FALSE
  GracefulStop = FALSE
  Stalls = FALSE
SPECIFICATION Spec
SYMMETRY Workers
INVARIANT AnswerMatchesPrompt

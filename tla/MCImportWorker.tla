---------------------------- MODULE MCImportWorker ----------------------------
(* Values for model checking ImportWorker.                                 *)
EXTENDS ImportWorkerProperties, TLC

Workers == Permutations(Worker)

AllFaults == {"cycle", "recover", "claim", "claiming", "readback", "asking",
              "take", "abortcheck", "wrapup", "finalize"}

\* All but a failing read-back, after which no process remembers its claim.
RecoverableFaults == AllFaults \ {"readback"}

=============================================================================

-------------------------- MODULE ImportWorkerProofs --------------------------
(***************************************************************************)
(* Theorems about the import worker, for every number of processes, jobs,  *)
(* requests, retries and faults.                                           *)
(***************************************************************************)
EXTENDS ImportWorkerProperties, TLAPS

-----------------------------------------------------------------------------
(* Types.                                                                  *)

\* Assigning well-typed values to columns keeps a row well typed.
LEMMA RowUpdates ==
    /\ \A r \in Row, s \in Status : [r EXCEPT !.status = s] \in Row
    /\ \A r \in Row, q \in Requests : [r EXCEPT !.submitted = q] \in Row
    /\ \A r \in Row : [r EXCEPT !.abort = TRUE] \in Row
    /\ \A r \in Row, s \in Status, w \in Worker :
          [r EXCEPT !.status = s, !.claimedBy = w] \in Row
    /\ \A r \in Row, s \in Status, e \in ErrorText :
          [r EXCEPT !.status = s, !.error = e, !.pending = NoRequest] \in Row
    /\ \A r \in Row, s \in Status, q \in Requests \cup {NoRequest} :
          [r EXCEPT !.status = s, !.pending = q, !.submitted = NoRequest] \in Row
    /\ \A r \in Row, s \in Status, e \in ErrorText :
          [r EXCEPT !.status = s, !.pending = NoRequest, !.error = e] \in Row
    /\ \A r \in Row : r.error \in ErrorText
<1> DEFINE Req == Requests \cup {NoRequest}
<1>1. NoRequest \in Req /\ \A q \in Requests : q \in Req
  OBVIOUS
<1>2. \A w \in Worker : w \in Worker \cup {NoWorker}
  OBVIOUS
<1>3. \A r \in Row, s \in Status : [r EXCEPT !.status = s] \in Row
  BY Zenon DEF Row
<1>4. \A r \in Row, q \in Requests : [r EXCEPT !.submitted = q] \in Row
  BY <1>1, Zenon DEF Row
<1>5. \A r \in Row : [r EXCEPT !.abort = TRUE] \in Row
  BY Zenon DEF Row
<1>6. \A r \in Row, s \in Status, w \in Worker :
         [r EXCEPT !.status = s, !.claimedBy = w] \in Row
  BY <1>2, Zenon DEF Row
<1>7. \A r \in Row, s \in Status, e \in ErrorText :
         [r EXCEPT !.status = s, !.error = e, !.pending = NoRequest] \in Row
  BY <1>1, Zenon DEF Row
<1>8. \A r \in Row, s \in Status, q \in Requests \cup {NoRequest} :
         [r EXCEPT !.status = s, !.pending = q, !.submitted = NoRequest] \in Row
  BY <1>1, Zenon DEF Row
<1>9. \A r \in Row, s \in Status, e \in ErrorText :
         [r EXCEPT !.status = s, !.pending = NoRequest, !.error = e] \in Row
  BY <1>1, Zenon DEF Row
<1>10. \A r \in Row : r.error \in ErrorText
  BY Zenon DEF Row
<1> QED BY <1>3, <1>4, <1>5, <1>6, <1>7, <1>8, <1>9, <1>10, Zenon

\* Each store operation keeps the table and the lock row well typed.
LEMMA StoreTypes ==
    ASSUME StoreTypeOK, NEW j \in Jobs, NEW w \in Worker
    PROVE  /\ Create(j) => jobs' \in [Jobs -> Row]
           /\ \A r \in Requests : SubmitDecision(j, r) => jobs' \in [Jobs -> Row]
           /\ RequestAbort(j) => jobs' \in [Jobs -> Row]
           /\ ClaimNext(w, j) => jobs' \in [Jobs -> Row]
           /\ RecoverOrphans(w) => jobs' \in [Jobs -> Row]
           /\ \A r \in Requests : SetAwaiting(j, r) => jobs' \in [Jobs -> Row]
           /\ TakeDecision(j) => jobs' \in [Jobs -> Row]
           /\ \A s \in Terminal, e \in {"null", "failure"} :
                 SetStatus(j, s, e) => jobs' \in [Jobs -> Row]
           /\ EnsureLockRow => lock' \in LockRow
           /\ AcquireLock(w) => lock' \in LockRow
<1>1. /\ {"pending", "running", "awaiting_decision", "failed"} \subseteq Status
      /\ Terminal \subseteq Status
      /\ {"null", "failure", "interrupted"} \subseteq ErrorText
  BY DEF Status, Active, Abortable, Terminal, ErrorText
<1>2. NoRequest \in Requests \cup {NoRequest} /\ Requests \subseteq Requests \cup {NoRequest}
  OBVIOUS
<1>3. jobs \in [Jobs -> Row] /\ jobs[j] \in Row
  BY DEF StoreTypeOK
<1>4. ASSUME Create(j)
      PROVE  jobs' \in [Jobs -> Row]
  <2>1. [jobs[j] EXCEPT !.status = "pending"] \in Row
    BY <1>1, <1>3, RowUpdates
  <2> QED BY <1>3, <1>4, <2>1 DEF Create
<1>5. ASSUME NEW r \in Requests, SubmitDecision(j, r)
      PROVE  jobs' \in [Jobs -> Row]
  <2>1. [jobs[j] EXCEPT !.submitted = r] \in Row
    BY <1>3, RowUpdates
  <2> QED BY <1>3, <1>5, <2>1 DEF SubmitDecision
<1>6. ASSUME RequestAbort(j)
      PROVE  jobs' \in [Jobs -> Row]
  <2>1. [jobs[j] EXCEPT !.abort = TRUE] \in Row
    BY <1>3, RowUpdates
  <2>2. jobs' = [jobs EXCEPT ![j] = [jobs[j] EXCEPT !.abort = TRUE]]
    BY <1>6, Zenon DEF RequestAbort
  <2> QED BY <1>3, <2>1, <2>2, Zenon
<1>7. ASSUME ClaimNext(w, j)
      PROVE  jobs' \in [Jobs -> Row]
  <2>1. [jobs[j] EXCEPT !.status = "running", !.claimedBy = w] \in Row
    BY <1>1, <1>3, RowUpdates
  <2> QED BY <1>3, <1>7, <2>1 DEF ClaimNext
<1>8. ASSUME RecoverOrphans(w)
      PROVE  jobs' \in [Jobs -> Row]
  <2>1. \A k \in Jobs : [jobs[k] EXCEPT !.status = "failed",
                                        !.error = "interrupted",
                                        !.pending = NoRequest] \in Row
    BY <1>1, <1>3, RowUpdates
  <2> QED BY <1>3, <1>8, <2>1 DEF RecoverOrphans
<1>9. ASSUME NEW r \in Requests, SetAwaiting(j, r)
      PROVE  jobs' \in [Jobs -> Row]
  <2>1. [jobs[j] EXCEPT !.status = "awaiting_decision", !.pending = r,
                        !.submitted = NoRequest] \in Row
    BY <1>1, <1>2, <1>3, RowUpdates
  <2> QED BY <1>3, <1>9, <2>1 DEF SetAwaiting
<1>10. ASSUME TakeDecision(j)
       PROVE  jobs' \in [Jobs -> Row]
  <2>1. [jobs[j] EXCEPT !.status = "running", !.pending = NoRequest,
                        !.submitted = NoRequest] \in Row
    BY <1>1, <1>2, <1>3, RowUpdates
  <2> QED BY <1>3, <1>10, <2>1 DEF TakeDecision
<1>11. ASSUME NEW s \in Terminal, NEW e \in {"null", "failure"},
              SetStatus(j, s, e)
       PROVE  jobs' \in [Jobs -> Row]
  <2> DEFINE text == IF e = "null" THEN jobs[j].error ELSE e
  <2>1. s \in Status /\ text \in ErrorText
    BY <1>1, <1>3, RowUpdates
  <2>2. [jobs[j] EXCEPT !.status = s, !.pending = NoRequest, !.error = text] \in Row
    BY <1>3, <2>1, RowUpdates
  <2> QED BY <1>3, <1>11, <2>2 DEF SetStatus
<1>12. (EnsureLockRow => lock' \in LockRow) /\ (AcquireLock(w) => lock' \in LockRow)
  BY DEF StoreTypeOK, LockRow, EnsureLockRow, AcquireLock
<1> QED BY <1>4, <1>5, <1>6, <1>7, <1>8, <1>9, <1>10, <1>11, <1>12

\* The same for the local state of a process.
LEMMA StateUpdates ==
    /\ \A u \in WorkerState, q \in {"up", "stopping", "dead"} :
          [u EXCEPT !.proc = q] \in WorkerState
    /\ \A u \in WorkerState, p \in PC : [u EXCEPT !.pc = p] \in WorkerState
    /\ \A u \in WorkerState, p \in PC :
          /\ [u EXCEPT !.pc = p, !.wasLeader = FALSE] \in WorkerState
          /\ [u EXCEPT !.pc = p, !.wasLeader = TRUE] \in WorkerState
    /\ \A u \in WorkerState, p \in PC, j \in Jobs \cup {NoJob} :
          [u EXCEPT !.pc = p, !.seen = j] \in WorkerState
    /\ \A u \in WorkerState, p \in PC, j \in Jobs \cup {NoJob} :
          /\ [u EXCEPT !.pc = p, !.job = j, !.seen = NoJob] \in WorkerState
          /\ [u EXCEPT !.pc = p, !.seen = NoJob, !.job = j] \in WorkerState
    /\ \A u \in WorkerState, p \in PC, v \in Verdict :
          [u EXCEPT !.pc = p, !.verdict = v] \in WorkerState
    /\ \A u \in WorkerState, p \in PC, n \in 0..(FinalizeAttempts - 1) :
          [u EXCEPT !.pc = p, !.attempts = n] \in WorkerState
    /\ \A u \in WorkerState, p \in PC :
          [u EXCEPT !.pc = p, !.job = NoJob, !.verdict = "none",
                    !.attempts = 0] \in WorkerState
<1>1. \A u \in WorkerState, q \in {"up", "stopping", "dead"} :
         [u EXCEPT !.proc = q] \in WorkerState
  <2>1. \A q \in {"up", "stopping", "dead"} : q \in {"new", "up", "stopping", "dead"}
    OBVIOUS
  <2> QED BY <2>1, Zenon DEF WorkerState
<1>2. \A u \in WorkerState, p \in PC : [u EXCEPT !.pc = p] \in WorkerState
  BY Zenon DEF WorkerState
<1>3. \A u \in WorkerState, p \in PC :
         /\ [u EXCEPT !.pc = p, !.wasLeader = FALSE] \in WorkerState
         /\ [u EXCEPT !.pc = p, !.wasLeader = TRUE] \in WorkerState
  BY Zenon DEF WorkerState
<1>4. \A u \in WorkerState, p \in PC, j \in Jobs \cup {NoJob} :
         [u EXCEPT !.pc = p, !.seen = j] \in WorkerState
  BY Zenon DEF WorkerState
<1>5. \A u \in WorkerState, p \in PC, j \in Jobs \cup {NoJob} :
         /\ [u EXCEPT !.pc = p, !.job = j, !.seen = NoJob] \in WorkerState
         /\ [u EXCEPT !.pc = p, !.seen = NoJob, !.job = j] \in WorkerState
  <2>1. NoJob \in Jobs \cup {NoJob}
    OBVIOUS
  <2> QED BY <2>1, Zenon DEF WorkerState
<1>6. \A u \in WorkerState, p \in PC, v \in Verdict :
         [u EXCEPT !.pc = p, !.verdict = v] \in WorkerState
  BY Zenon DEF WorkerState
<1>7. \A u \in WorkerState, p \in PC, n \in 0..(FinalizeAttempts - 1) :
         [u EXCEPT !.pc = p, !.attempts = n] \in WorkerState
  BY Zenon DEF WorkerState
<1>8. \A u \in WorkerState, p \in PC :
         [u EXCEPT !.pc = p, !.job = NoJob, !.verdict = "none",
                   !.attempts = 0] \in WorkerState
  <2>1. NoJob \in Jobs \cup {NoJob} /\ "none" \in Verdict
    BY DEF Verdict
  <2>2. 0 \in 0..(FinalizeAttempts - 1)
    BY WorkerAssumption
  <2> QED BY <2>1, <2>2, Zenon DEF WorkerState
<1> QED BY <1>1, <1>2, <1>3, <1>4, <1>5, <1>6, <1>7, <1>8, Zenon

\* The values the actions assign.
LEMMA Values ==
    /\ PC = {"cycle", "asleep", "recover", "claim", "claiming", "readback",
             "wrapup", "finalize", "retrying", "dispatch", "import", "asking",
             "take", "abortcheck", "napping"}
    /\ Verdict = {"none", "completed", "failed", "aborted"}
    /\ NoJob \notin Jobs
BY StoreAssumption DEF PC, Leading, Renewing, Parked, Verdict, Terminal, NoJob, Jobs

-----------------------------------------------------------------------------
(* The type invariant needs to know which job a process is at work on.     *)

\* A process works on a job from its claim until it leaves run_job, and once
\* it is about to write a terminal status it has decided on one.
Working == {"readback", "wrapup", "finalize", "retrying"} \cup Renewing

WorkInv == \A w \in Worker :
              /\ wk[w].pc \in Working => wk[w].job \in Jobs
              /\ wk[w].pc \notin Working => wk[w].job = NoJob
              /\ wk[w].pc = "claiming" => wk[w].seen \in Jobs
              /\ wk[w].pc \in {"finalize", "retrying"} => wk[w].verdict \in Terminal

TypeInv == TypeOK /\ WorkInv

LEMMA WorkingValues ==
    Working = {"readback", "wrapup", "finalize", "retrying", "dispatch",
               "import", "asking", "take", "abortcheck", "napping"}
BY DEF Working, Renewing, Parked

LEMMA InitTypes == Init => TypeInv
<1> SUFFICES ASSUME Init PROVE TypeInv
  OBVIOUS
<1>1. NoRow \in Row
  BY Zenon DEF NoRow, Row, Status, ErrorText
<1>2. NewProcess \in WorkerState
  <2>1. "cycle" \in PC /\ "none" \in Verdict /\ 0 \in 0..(FinalizeAttempts - 1)
    BY Values, WorkerAssumption
  <2> QED BY <2>1, Zenon DEF NewProcess, WorkerState
<1>3. TypeOK
  <2>1. StoreTypeOK
    BY <1>1 DEF Init, StoreInit, StoreTypeOK, LockRow
  <2> QED BY <1>2, <2>1, StoreAssumption, WorkerAssumption DEF Init, TypeOK
<1>4. WorkInv
  BY WorkingValues DEF Init, WorkInv, NewProcess
<1> QED BY <1>3, <1>4 DEF TypeInv

\* Moving a process to another point of the same phase keeps its types.
LEMMA GotoTypes ==
    ASSUME TypeInv, NEW w \in Worker, NEW p \in PC, Goto(w, p),
           p \in Working <=> wk[w].pc \in Working,
           p # "claiming",
           p \in {"finalize", "retrying"} => wk[w].verdict \in Terminal
    PROVE  wk' \in [Worker -> WorkerState] /\ WorkInv'
<1>1. wk \in [Worker -> WorkerState] /\ WorkInv
  BY DEF TypeInv, TypeOK
<1>2. [wk[w] EXCEPT !.pc = p] \in WorkerState
  BY <1>1, StateUpdates
<1>3. wk' \in [Worker -> WorkerState]
  BY <1>1, <1>2 DEF Goto
<1>4. WorkInv'
  BY <1>1, <1>2 DEF Goto, WorkInv, WorkerState
<1> QED BY <1>3, <1>4

\* The same for a process that leaves its job, if it had one.
LEMMA LeaveTypes ==
    ASSUME TypeInv, NEW w \in Worker, LeaveJob(w)
    PROVE  wk' \in [Worker -> WorkerState] /\ WorkInv'
<1>1. wk \in [Worker -> WorkerState] /\ WorkInv
  BY DEF TypeInv, TypeOK
<1>2. [wk[w] EXCEPT !.pc = "cycle", !.job = NoJob, !.verdict = "none",
                    !.attempts = 0] \in WorkerState
  BY <1>1, StateUpdates, Values
<1>3. wk' \in [Worker -> WorkerState]
  BY <1>1, <1>2 DEF LeaveJob
<1>4. WorkInv'
  BY <1>1, <1>2, WorkingValues DEF LeaveJob, WorkInv, WorkerState
<1> QED BY <1>3, <1>4

LEMMA StepTypes == TypeInv /\ [Next]_vars => TypeInv'
<1> SUFFICES ASSUME TypeInv, [Next]_vars PROVE TypeInv'
  OBVIOUS
<1>1. /\ StoreTypeOK /\ jobs \in [Jobs -> Row] /\ lock \in LockRow
      /\ wk \in [Worker -> WorkerState]
      /\ asked \in [Jobs -> 0..MaxRequests] /\ faults \in 0..MaxFaults
      /\ WorkInv
  BY DEF TypeInv, TypeOK, StoreTypeOK
<1> DEFINE Tables == jobs' \in [Jobs -> Row] /\ lock' \in LockRow
           Locals == wk' \in [Worker -> WorkerState] /\ WorkInv'
           Counts == asked' \in [Jobs -> 0..MaxRequests] /\ faults' \in 0..MaxFaults
<1>2. ASSUME Tables, Locals, Counts PROVE TypeInv'
  BY <1>2 DEF TypeInv, TypeOK, StoreTypeOK
<1>3. \A p : Fault(p) => faults' \in 0..MaxFaults
  BY <1>1, WorkerAssumption DEF Fault
<1>4. ASSUME NEW w \in Worker, Boot(w) PROVE TypeInv'
  <2>1. [wk[w] EXCEPT !.proc = "up"] \in WorkerState
    BY <1>1, StateUpdates
  <2>2. Locals
    BY <1>1, <1>4, <2>1 DEF Boot, WorkInv, WorkerState
  <2>3. Tables
    BY <1>1, <1>4 DEF Boot, EnsureLockRow, LockRow
  <2> QED BY <1>1, <1>2, <1>4, <2>2, <2>3 DEF Boot
<1>5. ASSUME NEW w \in Worker, Crash(w) \/ Shutdown(w) \/ CutOff(w) PROVE TypeInv'
  <2>1. /\ [wk[w] EXCEPT !.proc = "dead"] \in WorkerState
        /\ [wk[w] EXCEPT !.proc = "stopping"] \in WorkerState
    BY <1>1, StateUpdates
  <2>2. Locals
    BY <1>1, <1>5, <2>1 DEF Crash, Shutdown, CutOff, WorkInv, WorkerState
  <2> QED BY <1>1, <1>2, <1>5, <2>2 DEF Crash, Shutdown, CutOff
<1>6. ASSUME LeaseExpires PROVE TypeInv'
  <2>1. Tables
    BY <1>1, <1>6 DEF LeaseExpires, LockRow
  <2> QED BY <1>1, <1>2, <1>6, <2>1 DEF LeaseExpires, WorkInv
<1>7. ASSUME NEW w \in Worker, WakeUp(w) PROVE TypeInv'
  <2>1. [wk[w] EXCEPT !.pc = "cycle"] \in WorkerState
    BY <1>1, StateUpdates, Values
  <2>2. [wk[w] EXCEPT !.pc = "finalize"] \in WorkerState
    BY <1>1, StateUpdates, Values
  <2>3. Locals
    BY <1>1, <1>7, <2>1, <2>2, WorkingValues DEF WakeUp, Goto, WorkInv, WorkerState
  <2> QED BY <1>1, <1>2, <1>7, <2>3 DEF WakeUp
<1>8. ASSUME NEW w \in Worker, WinLease(w) PROVE TypeInv'
  <2>1. PICK p \in {"claim", "recover"} : Goto(w, p)
    BY <1>8 DEF WinLease
  <2>2. Locals
    BY <1>8, <2>1, GotoTypes, Values, WorkingValues DEF WinLease, At
  <2>3. Tables
    BY <1>1, <1>8 DEF WinLease, AcquireLock, LockRow
  <2> QED BY <1>1, <1>2, <1>8, <2>2, <2>3 DEF WinLease
<1>9. ASSUME NEW w \in Worker, LoseLease(w) PROVE TypeInv'
  <2>1. [wk[w] EXCEPT !.pc = "asleep", !.wasLeader = FALSE] \in WorkerState
    BY <1>1, StateUpdates, Values
  <2>2. wk' = [wk EXCEPT ![w] = [wk[w] EXCEPT !.pc = "asleep", !.wasLeader = FALSE]]
    BY <1>9, Zenon DEF LoseLease
  <2>3. wk' \in [Worker -> WorkerState]
    BY <1>1, <2>1, <2>2, Zenon
  <2>4. WorkInv'
    BY <1>1, <1>9, <2>1, WorkingValues DEF LoseLease, At, WorkInv, WorkerState
  <2> QED BY <1>1, <1>2, <1>9, <2>3, <2>4 DEF LoseLease
<1>10. ASSUME NEW w \in Worker, Recover(w) PROVE TypeInv'
  <2>1. [wk[w] EXCEPT !.pc = "claim", !.wasLeader = TRUE] \in WorkerState
    BY <1>1, StateUpdates, Values
  <2>2. wk' = [wk EXCEPT ![w] = [wk[w] EXCEPT !.pc = "claim", !.wasLeader = TRUE]]
    BY <1>10, Zenon DEF Recover
  <2>3. wk' \in [Worker -> WorkerState]
    BY <1>1, <2>1, <2>2, Zenon
  <2>4. WorkInv'
    BY <1>1, <1>10, <2>1, WorkingValues DEF Recover, At, WorkInv, WorkerState
  <2>5. Tables
    <3>1. \A k \in Jobs : [jobs[k] EXCEPT !.status = "failed", !.error = "interrupted",
                                          !.pending = NoRequest] \in Row
      BY <1>1, RowUpdates DEF Status, ErrorText, Terminal
    <3> QED BY <1>1, <1>10, <3>1 DEF Recover, RecoverOrphans
  <2> QED BY <1>1, <1>2, <1>10, <2>3, <2>4, <2>5 DEF Recover
<1>11. ASSUME NEW w \in Worker, FindOldest(w) PROVE TypeInv'
  <2>1. PICK j \in Jobs : wk' = [wk EXCEPT ![w].pc = "claiming", ![w].seen = j]
    BY <1>11 DEF FindOldest
  <2>2. [wk[w] EXCEPT !.pc = "claiming", !.seen = j] \in WorkerState
    BY <1>1, StateUpdates, Values
  <2>3. Locals
    BY <1>1, <1>11, <2>1, <2>2, WorkingValues DEF FindOldest, At, WorkInv, WorkerState
  <2> QED BY <1>1, <1>2, <1>11, <2>3 DEF FindOldest
<1>12. ASSUME NEW w \in Worker, Claim(w) PROVE TypeInv'
  <2> DEFINE j == wk[w].seen
  <2>1. j \in Jobs
    BY <1>1, <1>12 DEF Claim, At, WorkInv
  <2>2. [wk[w] EXCEPT !.pc = "readback", !.job = j, !.seen = NoJob] \in WorkerState
    BY <1>1, <2>1, StateUpdates, Values
  <2>3. Locals
    BY <1>1, <1>12, <2>1, <2>2, WorkingValues DEF Claim, WorkInv, WorkerState
  <2>4. Tables
    BY <1>1, <1>12, <2>1, StoreTypes DEF Claim
  <2> QED BY <1>1, <1>2, <1>12, <2>3, <2>4 DEF Claim
<1>13. ASSUME NEW w \in Worker, ClaimLost(w) PROVE TypeInv'
  <2>1. [wk[w] EXCEPT !.pc = "asleep", !.seen = NoJob] \in WorkerState
    BY <1>1, StateUpdates, Values
  <2>2. Locals
    BY <1>1, <1>13, <2>1, WorkingValues DEF ClaimLost, At, WorkInv, WorkerState
  <2> QED BY <1>1, <1>2, <1>13, <2>2 DEF ClaimLost
<1>14. ASSUME NEW w \in Worker, NothingToClaim(w) PROVE TypeInv'
  <2>1. Locals
    BY <1>14, GotoTypes, Values, WorkingValues DEF NothingToClaim, At
  <2> QED BY <1>1, <1>2, <1>14, <2>1 DEF NothingToClaim
<1>15. ASSUME NEW w \in Worker, ReadBack(w) PROVE TypeInv'
  <2>1. Locals
    BY <1>15, GotoTypes, Values, WorkingValues DEF ReadBack, At
  <2> QED BY <1>1, <1>2, <1>15, <2>1 DEF ReadBack
<1>16. ASSUME NEW w \in Worker, CycleFails(w) PROVE TypeInv'
  <2>1. [wk[w] EXCEPT !.pc = "asleep", !.seen = NoJob, !.job = NoJob] \in WorkerState
    BY <1>1, StateUpdates, Values
  <2>2. Locals
    BY <1>1, <1>16, <2>1, WorkingValues DEF CycleFails, WorkInv, WorkerState
  <2> QED BY <1>1, <1>2, <1>3, <1>16, <2>2 DEF CycleFails
<1>17. ASSUME NEW w \in Worker, StartImport(w) PROVE TypeInv'
  <2>1. Locals
    BY <1>17, GotoTypes, Values, WorkingValues DEF StartImport
  <2> QED BY <1>1, <1>2, <1>17, <2>1 DEF StartImport
<1>18. ASSUME NEW w \in Worker, Renew(w) PROVE TypeInv'
  <2>1. Tables
    BY <1>1, <1>18 DEF Renew, AcquireLock, LockRow
  <2> QED BY <1>1, <1>2, <1>18, <2>1 DEF Renew, WorkInv
<1>19. ASSUME NEW w \in Worker, Choose(w) PROVE TypeInv'
  <2>1. Locals
    BY <1>19, GotoTypes, Values, WorkingValues DEF Choose, At
  <2> QED BY <1>1, <1>2, <1>19, <2>1 DEF Choose
<1>20. ASSUME NEW w \in Worker, Ask(w) PROVE TypeInv'
  <2> DEFINE j == wk[w].job
  <2>1. j \in Jobs /\ asked[j] < MaxRequests
    BY <1>1, <1>20, WorkingValues DEF Ask, At, Undecided, WorkInv
  <2>2. asked[j] + 1 \in Requests /\ asked[j] + 1 \in 0..MaxRequests
    BY <1>1, <1>20, <2>1, StoreAssumption DEF Ask, Requests
  <2>3. Tables
    BY <1>1, <1>20, <2>1, <2>2, StoreTypes DEF Ask
  <2>4. Locals
    BY <1>20, GotoTypes, Values, WorkingValues DEF Ask, At
  <2> QED BY <1>1, <1>2, <1>20, <2>1, <2>2, <2>3, <2>4 DEF Ask
<1>21. ASSUME NEW w \in Worker, TakeAnswer(w) PROVE TypeInv'
  <2>1. wk[w].job \in Jobs
    BY <1>1, <1>21, WorkingValues DEF TakeAnswer, At, WorkInv
  <2>2. Tables
    BY <1>1, <1>21, <2>1, StoreTypes DEF TakeAnswer
  <2>3. Locals
    BY <1>21, GotoTypes, Values, WorkingValues DEF TakeAnswer, At
  <2> QED BY <1>1, <1>2, <1>21, <2>2, <2>3 DEF TakeAnswer
<1>22. ASSUME NEW w \in Worker, NoAnswerYet(w) PROVE TypeInv'
  <2>1. Locals
    BY <1>22, GotoTypes, Values, WorkingValues DEF NoAnswerYet, At
  <2> QED BY <1>1, <1>2, <1>22, <2>1 DEF NoAnswerYet
<1>23. ASSUME NEW w \in Worker, CheckAbort(w) PROVE TypeInv'
  <2>1. PICK p \in {"import", "napping"} : Goto(w, p)
    BY <1>23 DEF CheckAbort
  <2>2. Locals
    BY <1>23, <2>1, GotoTypes, Values, WorkingValues DEF CheckAbort, At
  <2> QED BY <1>1, <1>2, <1>23, <2>2 DEF CheckAbort
<1>24. ASSUME NEW w \in Worker, PollAgain(w) PROVE TypeInv'
  <2>1. Locals
    BY <1>24, GotoTypes, Values, WorkingValues DEF PollAgain
  <2> QED BY <1>1, <1>2, <1>24, <2>1 DEF PollAgain
<1>25. ASSUME NEW w \in Worker, ImportReturns(w) PROVE TypeInv'
  <2>1. Locals
    BY <1>25, GotoTypes, Values, WorkingValues DEF ImportReturns, At
  <2> QED BY <1>1, <1>2, <1>25, <2>1 DEF ImportReturns
<1>26. ASSUME NEW w \in Worker, ImportRaises(w) \/ WrapUp(w) PROVE TypeInv'
  <2>1. PICK v \in Terminal : wk' = [wk EXCEPT ![w].pc = "finalize", ![w].verdict = v]
    BY <1>26 DEF ImportRaises, WrapUp, Terminal
  <2>2. wk[w].pc \in Working
    BY <1>26, WorkingValues DEF ImportRaises, WrapUp, At
  <2>3. [wk[w] EXCEPT !.pc = "finalize", !.verdict = v] \in WorkerState
    BY <1>1, StateUpdates, Values DEF Verdict
  <2>4. Locals
    BY <1>1, <2>1, <2>2, <2>3, WorkingValues DEF WorkInv, WorkerState
  <2> QED BY <1>1, <1>2, <1>3, <1>26, <2>4 DEF ImportRaises, WrapUp
<1>27. ASSUME NEW w \in Worker, Finalize(w) PROVE TypeInv'
  <2>1. wk[w].job \in Jobs /\ wk[w].verdict \in Terminal
    BY <1>1, <1>27, WorkingValues DEF Finalize, At, WorkInv
  <2>2. Tables
    BY <1>1, <1>27, <2>1, StoreTypes DEF Finalize
  <2>3. Locals
    BY <1>27, LeaveTypes DEF Finalize
  <2> QED BY <1>1, <1>2, <1>27, <2>2, <2>3 DEF Finalize
<1>28. ASSUME NEW w \in Worker, FinalizeFails(w) PROVE TypeInv'
  <2>1. CASE LeaveJob(w)
    BY <1>1, <1>2, <1>3, <1>28, <2>1, LeaveTypes DEF FinalizeFails
  <2>2. CASE ~LeaveJob(w)
    <3>1. /\ wk' = [wk EXCEPT ![w].pc = "retrying", ![w].attempts = wk[w].attempts + 1]
          /\ wk[w].attempts + 1 < FinalizeAttempts
      BY <1>28, <2>2 DEF FinalizeFails
    <3>2. wk[w].attempts \in 0..(FinalizeAttempts - 1)
      BY <1>1, Zenon DEF WorkerState
    <3>3. wk[w].attempts + 1 \in 0..(FinalizeAttempts - 1)
      BY <3>1, <3>2, WorkerAssumption
    <3>4. [wk[w] EXCEPT !.pc = "retrying", !.attempts = wk[w].attempts + 1] \in WorkerState
      BY <1>1, <3>3, StateUpdates, Values
    <3>5. wk[w].pc = "finalize"
      BY <1>28 DEF FinalizeFails, At
    <3>6. Locals
      BY <1>1, <3>1, <3>4, <3>5, WorkingValues DEF WorkInv, WorkerState
    <3> QED BY <1>1, <1>2, <1>3, <1>28, <3>6 DEF FinalizeFails
  <2> QED BY <2>1, <2>2
<1>29. ASSUME SubmitJob PROVE TypeInv'
  <2>1. PICK w \in Worker, j \in Jobs : Create(j)
    BY <1>29 DEF SubmitJob, Served
  <2>2. Tables
    BY <1>1, <1>29, <2>1, StoreTypes DEF SubmitJob
  <2> QED BY <1>1, <1>2, <1>29, <2>2 DEF SubmitJob, WorkInv
<1>30. ASSUME NEW j \in Jobs, Answer(j) \/ Abort(j) PROVE TypeInv'
  <2>1. \A r \in 1..asked[j] : r \in Requests
    BY <1>1, StoreAssumption DEF Requests
  <2>2. \E w \in Worker : TRUE
    BY <1>30 DEF Answer, Abort, Served
  <2>3. Tables
    BY <1>1, <1>30, <2>1, <2>2, StoreTypes DEF Answer, Abort
  <2> QED BY <1>1, <1>2, <1>30, <2>3 DEF Answer, Abort, WorkInv
<1>31. CASE UNCHANGED vars
  BY <1>1, <1>2, <1>31 DEF vars, WorkInv
<1> QED
  BY <1>4, <1>5, <1>6, <1>7, <1>8, <1>9, <1>10, <1>11, <1>12, <1>13, <1>14,
     <1>15, <1>16, <1>17, <1>18, <1>19, <1>20, <1>21, <1>22, <1>23, <1>24, <1>25,
     <1>26, <1>27, <1>28, <1>29, <1>30, <1>31
  DEF Next, WorkerStep, Cycle, Import, Finish

\* TypeOK: every column, every local variable and every counter stays within
\* its type, the number of retries of run_job's last write among them.
THEOREM TypeCorrect == Spec => []TypeOK
<1>1. Init => TypeInv
  BY InitTypes
<1>2. TypeInv /\ [Next]_vars => TypeInv'
  BY StepTypes
<1>3. TypeInv => TypeOK
  BY DEF TypeInv
<1> QED BY <1>1, <1>2, <1>3, PTL DEF Spec

=============================================================================

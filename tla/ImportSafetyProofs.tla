--------------------------- MODULE ImportSafetyProofs ---------------------------
(***************************************************************************)
(* The properties of the rows that hold whatever the leases do: however    *)
(* many processes run at once, whichever of them believes to lead, and     *)
(* wherever they crash.                                                    *)
(***************************************************************************)
EXTENDS ImportWorkerProofs

\* A job has an owner exactly once it has been claimed.
OwnedOnceClaimed ==
    \A j \in Jobs : (jobs[j].claimedBy = NoWorker)
                      <=> (jobs[j].status \in {"absent", "pending"})

\* What the rows alone satisfy ...
RowInv == PromptIffAwaiting /\ OwnedOnceClaimed /\ AbortedWasRequested

\* ... what ties them to the processes: a process that works on a job owns it,
\* and one that is about to write "aborted" has seen the abort flag ...
HandsInv == \A w \in Worker :
               /\ wk[w].job # NoJob => jobs[wk[w].job].claimedBy = w
               /\ /\ wk[w].pc \in {"finalize", "retrying"}
                  /\ wk[w].verdict = "aborted"
                  => jobs[wk[w].job].abort

\* ... and the inductive invariant.
IInv == TypeInv /\ RowInv /\ HandsInv

\* What no step undoes: an owner, and a request to abort.
Grows == \A j \in Jobs :
            /\ jobs[j].claimedBy # NoWorker => jobs'[j].claimedBy = jobs[j].claimedBy
            /\ jobs[j].abort => jobs'[j].abort

-----------------------------------------------------------------------------
(* The operations of the store, each in the state its callers call it in.  *)

LEMMA CreateRows ==
    ASSUME StoreTypeOK, RowInv, NEW j \in Jobs, Create(j)
    PROVE  RowInv' /\ Grows
BY StoreAssumption DEF StoreTypeOK, Row, Create, RowInv, PromptIffAwaiting,
   OwnedOnceClaimed, AbortedWasRequested, Grows, NoRequest

LEMMA SubmitDecisionRows ==
    ASSUME StoreTypeOK, RowInv, NEW j \in Jobs, NEW r, SubmitDecision(j, r)
    PROVE  RowInv' /\ Grows
BY DEF StoreTypeOK, Row, SubmitDecision, RowInv, PromptIffAwaiting,
   OwnedOnceClaimed, AbortedWasRequested, Grows

LEMMA RequestAbortRows ==
    ASSUME StoreTypeOK, RowInv, NEW j \in Jobs, RequestAbort(j)
    PROVE  RowInv' /\ Grows
<1>1. \A r \in Row : /\ [r EXCEPT !.abort = TRUE].status = r.status
                    /\ [r EXCEPT !.abort = TRUE].claimedBy = r.claimedBy
                    /\ [r EXCEPT !.abort = TRUE].pending = r.pending
                    /\ [r EXCEPT !.abort = TRUE].abort
  <2>1. \A r \in Row : [r EXCEPT !.abort = TRUE].abort
    BY Zenon DEF Row
  <2>2. \A r \in Row : [r EXCEPT !.abort = TRUE].status = r.status
    BY Zenon DEF Row
  <2>3. \A r \in Row : [r EXCEPT !.abort = TRUE].claimedBy = r.claimedBy
    BY Zenon DEF Row
  <2>4. \A r \in Row : [r EXCEPT !.abort = TRUE].pending = r.pending
    BY Zenon DEF Row
  <2> QED BY <2>1, <2>2, <2>3, <2>4, Zenon
<1>2. jobs' = [jobs EXCEPT ![j] = [jobs[j] EXCEPT !.abort = TRUE]]
  BY Zenon DEF RequestAbort
<1>3. jobs \in [Jobs -> Row]
  BY DEF StoreTypeOK
<1>4. \A k \in Jobs : /\ jobs'[k].status = jobs[k].status
                      /\ jobs'[k].claimedBy = jobs[k].claimedBy
                      /\ jobs'[k].pending = jobs[k].pending
                      /\ jobs[k].abort => jobs'[k].abort
  <2>1. \A k \in Jobs : k # j => jobs'[k] = jobs[k]
    BY <1>2, <1>3, Zenon
  <2>2. jobs'[j] = [jobs[j] EXCEPT !.abort = TRUE] /\ jobs[j] \in Row
    BY <1>2, <1>3, Zenon
  <2>3. TAKE k \in Jobs
  <2>4. CASE k = j
    <3>1. jobs'[k].abort
      BY <1>1, <2>2, <2>4, Zenon
    <3>2. /\ jobs'[k].status = jobs[k].status
          /\ jobs'[k].claimedBy = jobs[k].claimedBy
          /\ jobs'[k].pending = jobs[k].pending
      BY <1>1, <2>2, <2>4
    <3> QED BY <3>1, <3>2, Zenon
  <2>5. CASE k # j
    BY <2>1, <2>5, Zenon
  <2> QED BY <2>4, <2>5
<1> QED
  BY <1>4 DEF RowInv, PromptIffAwaiting, OwnedOnceClaimed,
     AbortedWasRequested, Grows

LEMMA ClaimNextRows ==
    ASSUME StoreTypeOK, RowInv, NEW w \in Worker, NEW j \in Jobs, ClaimNext(w, j)
    PROVE  /\ RowInv' /\ Grows
           /\ jobs[j].claimedBy = NoWorker /\ jobs'[j].claimedBy = w
BY StoreAssumption DEF StoreTypeOK, Row, ClaimNext, RowInv,
   PromptIffAwaiting, OwnedOnceClaimed, AbortedWasRequested, Grows, NoRequest

LEMMA RecoverOrphansRows ==
    ASSUME StoreTypeOK, RowInv, NEW w \in Worker, RecoverOrphans(w)
    PROVE  RowInv' /\ Grows
<1>1. jobs \in [Jobs -> Row]
  BY DEF StoreTypeOK
<1>2. \A j \in Jobs : ~Orphan(w, j) => jobs'[j] = jobs[j]
  BY DEF RecoverOrphans
<1>3. \A j \in Jobs : Orphan(w, j) =>
         /\ jobs'[j].status = "failed" /\ jobs'[j].pending = NoRequest
         /\ jobs'[j].claimedBy = jobs[j].claimedBy
         /\ jobs'[j].abort = jobs[j].abort
  BY <1>1 DEF RecoverOrphans, Row
<1>4. \A j \in Jobs : Orphan(w, j) => jobs[j].status \in Active
  BY DEF Orphan
<1> QED
  BY <1>2, <1>3, <1>4 DEF Active, RowInv, PromptIffAwaiting, OwnedOnceClaimed,
     AbortedWasRequested, Grows

LEMMA SetAwaitingRows ==
    ASSUME StoreTypeOK, RowInv, NEW j \in Jobs, NEW r \in Requests,
           jobs[j].claimedBy # NoWorker, SetAwaiting(j, r)
    PROVE  RowInv' /\ Grows
BY DEF StoreTypeOK, Row, SetAwaiting, Requests, RowInv, PromptIffAwaiting,
   OwnedOnceClaimed, AbortedWasRequested, Grows, NoRequest

LEMMA TakeDecisionRows ==
    ASSUME StoreTypeOK, RowInv, NEW j \in Jobs,
           jobs[j].claimedBy # NoWorker, TakeDecision(j)
    PROVE  RowInv' /\ Grows
BY DEF StoreTypeOK, Row, TakeDecision, RowInv, PromptIffAwaiting,
   OwnedOnceClaimed, AbortedWasRequested, Grows, NoRequest

LEMMA SetStatusRows ==
    ASSUME StoreTypeOK, RowInv, NEW j \in Jobs, NEW s \in Terminal, NEW e,
           jobs[j].claimedBy # NoWorker,
           s = "aborted" => jobs[j].abort,
           SetStatus(j, s, e)
    PROVE  RowInv' /\ Grows
BY DEF StoreTypeOK, Row, SetStatus, Terminal, RowInv, PromptIffAwaiting,
   OwnedOnceClaimed, AbortedWasRequested, Grows, NoRequest

-----------------------------------------------------------------------------
(* The steps of the processes.                                             *)

\* A step other than a claim gives no process a job, and lets one decide on
\* "aborted" only if its job's flag is set.
KeepsHands ==
    \A w \in Worker :
       /\ wk'[w].job \in {wk[w].job, NoJob}
       /\ /\ wk'[w].pc \in {"finalize", "retrying"}
          /\ wk'[w].verdict = "aborted"
          => /\ wk'[w].job = wk[w].job
             /\ wk[w].job \in Jobs
             /\ jobs[wk[w].job].abort

LEMMA Hands ==
    ASSUME TypeInv, HandsInv, Grows, KeepsHands
    PROVE  HandsInv'
<1>1. \A w \in Worker : wk[w].job \in Jobs \cup {NoJob}
  <2>1. wk \in [Worker -> WorkerState]
    BY DEF TypeInv, TypeOK
  <2> QED BY <2>1 DEF WorkerState
<1>2. ASSUME NEW w \in Worker, wk'[w].job # NoJob
      PROVE  jobs'[wk'[w].job].claimedBy = w
  <2>1. wk'[w].job = wk[w].job /\ wk[w].job \in Jobs
    BY <1>1, <1>2 DEF KeepsHands
  <2>2. jobs[wk[w].job].claimedBy = w /\ w # NoWorker
    BY <1>2, <2>1, StoreAssumption DEF HandsInv
  <2> QED BY <2>1, <2>2 DEF Grows
<1>3. ASSUME NEW w \in Worker, wk'[w].pc \in {"finalize", "retrying"},
             wk'[w].verdict = "aborted"
      PROVE  jobs'[wk'[w].job].abort
  BY <1>3, Zenon DEF KeepsHands, Grows
<1> QED BY <1>2, <1>3 DEF HandsInv

\* What every step preserves and establishes, types apart.
Kept == RowInv' /\ HandsInv' /\ Grows

\* The same when the rows do not change at all.
LEMMA QuietStep ==
    ASSUME IInv, UNCHANGED jobs, KeepsHands
    PROVE  Kept
<1>1. RowInv'
  BY DEF IInv, RowInv, PromptIffAwaiting, OwnedOnceClaimed, AbortedWasRequested
<1>2. Grows
  BY DEF Grows
<1> QED BY <1>1, <1>2, Hands DEF IInv, Kept

LEMMA StepInv == IInv /\ [Next]_vars => IInv' /\ Grows
<1> SUFFICES ASSUME IInv, [Next]_vars PROVE Kept
  BY StepTypes DEF IInv, Kept
<1>1. /\ TypeInv /\ RowInv /\ HandsInv /\ WorkInv /\ StoreTypeOK
      /\ wk \in [Worker -> WorkerState] /\ asked \in [Jobs -> 0..MaxRequests]
  BY DEF IInv, TypeInv, TypeOK
\* Where a process is about to write, it has a job, and its flag if need be.
<1>2. \A w \in Worker :
         /\ wk[w].pc \in Working => /\ wk[w].job \in Jobs
                                    /\ jobs[wk[w].job].claimedBy = w
                                    /\ jobs[wk[w].job].claimedBy # NoWorker
         /\ wk[w].pc \in {"finalize", "retrying"} =>
               /\ wk[w].job \in Jobs
               /\ wk[w].verdict = "aborted" => jobs[wk[w].job].abort
  BY <1>1, Values, WorkingValues, StoreAssumption DEF WorkInv, HandsInv
<1>3. ASSUME NEW w \in Worker, Boot(w) \/ Crash(w) \/ Shutdown(w) \/ CutOff(w)
      PROVE  Kept
  <2>1. KeepsHands
    BY <1>1, <1>2, <1>3 DEF Boot, Crash, Shutdown, CutOff, KeepsHands, WorkerState
  <2> QED BY <1>3, <2>1, QuietStep DEF Boot, Crash, Shutdown, CutOff
<1>4. ASSUME UNCHANGED <<jobs, wk>> PROVE Kept
  <2>1. KeepsHands
    BY <1>2, <1>4 DEF KeepsHands
  <2> QED BY <1>4, <2>1, QuietStep
<1>5. ASSUME NEW w \in Worker, WakeUp(w) \/ WinLease(w) \/ NothingToClaim(w)
                                 \/ ReadBack(w) \/ StartImport(w) \/ Choose(w)
      PROVE  Kept
  <2>1. KeepsHands
    BY <1>1, <1>2, <1>5 DEF WakeUp, WinLease, NothingToClaim, ReadBack,
       StartImport, Choose, At, Goto, KeepsHands, WorkerState
  <2> QED BY <1>5, <2>1, QuietStep
      DEF WakeUp, WinLease, NothingToClaim, ReadBack, StartImport, Choose
<1>6. ASSUME NEW w \in Worker, LoseLease(w) \/ CycleFails(w)
                                 \/ FindOldest(w) \/ ClaimLost(w)
      PROVE  Kept
  <2>1. KeepsHands
    BY <1>1, <1>2, <1>6 DEF LoseLease, CycleFails, FindOldest, ClaimLost,
       At, KeepsHands, WorkerState
  <2> QED BY <1>6, <2>1, QuietStep DEF LoseLease, CycleFails, FindOldest, ClaimLost
<1>7. ASSUME NEW w \in Worker, Recover(w) PROVE Kept
  <2>1. RowInv' /\ Grows
    BY <1>1, <1>7, RecoverOrphansRows DEF Recover
  <2>2. KeepsHands
    BY <1>1, <1>2, <1>7 DEF Recover, KeepsHands, WorkerState
  <2> QED BY <1>1, <2>1, <2>2, Hands DEF Kept
<1>8. ASSUME NEW w \in Worker, Claim(w) PROVE Kept
  <2> DEFINE j == wk[w].seen
  <2>1. /\ j \in Jobs /\ ClaimNext(w, j)
        /\ wk' = [wk EXCEPT ![w].pc = "readback", ![w].job = j, ![w].seen = NoJob]
    BY <1>1, <1>8 DEF Claim, At, WorkInv
  <2>2. RowInv' /\ Grows /\ jobs'[j].claimedBy = w
    BY <1>1, <2>1, ClaimNextRows
  <2>3. /\ wk'[w].job = j /\ wk'[w].pc = "readback"
        /\ \A v \in Worker \ {w} : wk'[v] = wk[v]
    BY <1>1, <2>1 DEF WorkerState
  <2>4. ASSUME NEW v \in Worker \ {w}
        PROVE  /\ wk'[v].job # NoJob => jobs'[wk'[v].job].claimedBy = v
               /\ /\ wk'[v].pc \in {"finalize", "retrying"}
                  /\ wk'[v].verdict = "aborted"
                  => jobs'[wk'[v].job].abort
    <3>1. wk[v].job \in Jobs \cup {NoJob}
      BY <1>1 DEF WorkerState
    <3>2. wk'[v].job # NoJob => jobs'[wk'[v].job].claimedBy = v
      BY <1>1, <2>2, <2>3, <3>1, StoreAssumption DEF HandsInv, Grows
    <3>3. /\ wk[v].pc \in {"finalize", "retrying"}
          /\ wk[v].verdict = "aborted"
          => jobs'[wk[v].job].abort
      BY <1>2, <2>2, Zenon DEF Grows
    <3> QED BY <2>3, <3>2, <3>3
  <2> QED BY <2>2, <2>3, <2>4 DEF HandsInv, Kept
<1>9. ASSUME NEW w \in Worker, Ask(w) PROVE Kept
  <2> DEFINE j == wk[w].job
  <2>1. j \in Jobs /\ jobs[j].claimedBy # NoWorker
    BY <1>2, <1>9, WorkingValues DEF Ask, At
  <2>2. asked[j] + 1 \in Requests
    BY <1>1, <1>9, <2>1, StoreAssumption DEF Ask, Undecided, Requests
  <2>3. RowInv' /\ Grows
    BY <1>1, <1>9, <2>1, <2>2, SetAwaitingRows DEF Ask
  <2>4. KeepsHands
    BY <1>1, <1>2, <1>9 DEF Ask, At, Goto, KeepsHands, WorkerState
  <2> QED BY <1>1, <2>3, <2>4, Hands DEF Kept
<1>10. ASSUME NEW w \in Worker, TakeAnswer(w) PROVE Kept
  <2>1. wk[w].job \in Jobs /\ jobs[wk[w].job].claimedBy # NoWorker
    BY <1>2, <1>10, WorkingValues DEF TakeAnswer, At
  <2>2. RowInv' /\ Grows
    BY <1>1, <1>10, <2>1, TakeDecisionRows DEF TakeAnswer
  <2>3. KeepsHands
    BY <1>1, <1>2, <1>10 DEF TakeAnswer, At, Goto, KeepsHands, WorkerState
  <2> QED BY <1>1, <2>2, <2>3, Hands DEF Kept
<1>11. ASSUME NEW w \in Worker, NoAnswerYet(w) \/ CheckAbort(w) \/ PollAgain(w)
                                  \/ ImportReturns(w)
       PROVE  Kept
  <2>1. KeepsHands
    BY <1>1, <1>2, <1>11 DEF NoAnswerYet, CheckAbort, PollAgain, ImportReturns,
       At, Goto, KeepsHands, WorkerState
  <2> QED BY <1>11, <2>1, QuietStep
      DEF NoAnswerYet, CheckAbort, PollAgain, ImportReturns
<1>12. ASSUME NEW w \in Worker, ImportRaises(w) PROVE Kept
  <2>1. KeepsHands
    BY <1>1, <1>2, <1>12 DEF ImportRaises, KeepsHands, WorkerState
  <2> QED BY <1>12, <2>1, QuietStep DEF ImportRaises
<1>13. ASSUME NEW w \in Worker, WrapUp(w) PROVE Kept
  <2>1. wk[w].job \in Jobs
    BY <1>2, <1>13, WorkingValues DEF WrapUp, At
  <2>2. KeepsHands
    BY <1>1, <1>2, <1>13, <2>1 DEF WrapUp, KeepsHands, WorkerState
  <2> QED BY <1>13, <2>2, QuietStep DEF WrapUp
<1>14. ASSUME NEW w \in Worker, Finalize(w) PROVE Kept
  <2>1. /\ wk[w].job \in Jobs /\ wk[w].verdict \in Terminal
        /\ jobs[wk[w].job].claimedBy # NoWorker
        /\ wk[w].verdict = "aborted" => jobs[wk[w].job].abort
    BY <1>1, <1>2, <1>14, WorkingValues DEF Finalize, At, WorkInv
  <2>2. RowInv' /\ Grows
    BY <1>1, <1>14, <2>1, SetStatusRows DEF Finalize
  <2>3. KeepsHands
    BY <1>1, <1>2, <1>14 DEF Finalize, LeaveJob, KeepsHands, WorkerState
  <2> QED BY <1>1, <2>2, <2>3, Hands DEF Kept
<1>15. ASSUME NEW w \in Worker, FinalizeFails(w) PROVE Kept
  <2>1. KeepsHands
    BY <1>1, <1>2, <1>15 DEF FinalizeFails, At, LeaveJob, KeepsHands, WorkerState
  <2> QED BY <1>15, <2>1, QuietStep DEF FinalizeFails
<1>16. ASSUME NEW j \in Jobs, Create(j) \/ Answer(j) \/ Abort(j), UNCHANGED wk
       PROVE  Kept
  <2>1. RowInv' /\ Grows
    BY <1>1, <1>16, CreateRows, SubmitDecisionRows, RequestAbortRows
    DEF Answer, Abort
  <2>2. KeepsHands
    BY <1>2, <1>16 DEF KeepsHands
  <2> QED BY <1>1, <2>1, <2>2, Hands DEF Kept
<1>17. LeaseExpires \/ (\E w \in Worker : Renew(w)) \/ UNCHANGED vars
          => UNCHANGED <<jobs, wk>>
  BY DEF LeaseExpires, Renew, vars
<1>18. SubmitJob => UNCHANGED wk /\ \E j \in Jobs : Create(j)
  BY DEF SubmitJob
<1>19. \A j \in Jobs : Answer(j) \/ Abort(j) => UNCHANGED wk
  BY DEF Answer, Abort
<1> QED
  BY <1>3, <1>4, <1>5, <1>6, <1>7, <1>8, <1>9, <1>10, <1>11, <1>12, <1>13, <1>14,
     <1>15, <1>16, <1>17, <1>18, <1>19
  DEF Next, WorkerStep, Cycle, Import, Finish

LEMMA Inductive == Spec => []IInv
<1>1. Init => IInv
  <2> SUFFICES ASSUME Init PROVE RowInv /\ HandsInv
    BY InitTypes DEF IInv
  <2>1. RowInv
    BY DEF Init, StoreInit, NoRow, RowInv, PromptIffAwaiting, OwnedOnceClaimed,
       AbortedWasRequested
  <2>2. HandsInv
    BY DEF Init, NewProcess, HandsInv
  <2> QED BY <2>1, <2>2
<1>2. IInv /\ [Next]_vars => IInv'
  BY StepInv
<1> QED BY <1>1, <1>2, PTL DEF Spec

-----------------------------------------------------------------------------
(* The properties.                                                         *)

\* A job shows a prompt exactly while it awaits a decision, although four
\* methods of the store write the two columns independently.
THEOREM PromptsAreConsistent == Spec => []PromptIffAwaiting
<1>1. IInv => PromptIffAwaiting
  BY DEF IInv, RowInv
<1> QED BY <1>1, Inductive, PTL

\* Every running or awaiting job has an owner, so that recover_orphans finds
\* all those whose owner is gone.
THEOREM ActiveJobsAreClaimed == Spec => []ActiveIsClaimed
<1>1. IInv => ActiveIsClaimed
  BY DEF IInv, RowInv, OwnedOnceClaimed, ActiveIsClaimed, IsActive, Active
<1> QED BY <1>1, Inductive, PTL

\* A job ends aborted only if somebody asked for that.
THEOREM AbortsWereRequested == Spec => []AbortedWasRequested
<1>1. IInv => AbortedWasRequested
  BY DEF IInv, RowInv
<1> QED BY <1>1, Inductive, PTL

\* Two processes never work on one job, even while both believe to lead.
THEOREM JobsHaveOneOwner == Spec => []OneOwner
<1>1. IInv => OneOwner
  BY DEF IInv, HandsInv, OneOwner
<1> QED BY <1>1, Inductive, PTL

\* A claimed job keeps its owner for ever: no import is run a second time.
THEOREM JobsAreClaimedOnce == Spec => ClaimedOnce
<1>1. IInv /\ [Next]_vars
        => [\A j \in Jobs : jobs[j].claimedBy # NoWorker
                              => jobs'[j].claimedBy = jobs[j].claimedBy]_vars
  BY StepInv DEF Grows
<1> QED BY <1>1, Inductive, PTL DEF Spec, ClaimedOnce

-----------------------------------------------------------------------------
(* What a live process owns it has in hand.  This holds as long as a       *)
(* terminal write is retried more often than store calls fail, and the     *)
(* read-back of a claim does not fail: after that no process remembers it. *)

\* The active jobs of a process that has not died are the one it works on
\* (one that is still to start has none) ...
HeldInv == \A w \in Worker, j \in Jobs :
              /\ wk[w].proc # "dead"
              /\ IsActive(j)
              /\ jobs[j].claimedBy = w
              => wk[w].job = j

\* ... and every failed attempt to write a terminal status was a fault.
AttemptsInv == \A w \in Worker : wk[w].attempts <= faults

\* A step that takes no job out of a live process's hands, and makes no job
\* active but the one a process works on, preserves the first ...
KeepsHeld == /\ \A w \in Worker :
                  wk'[w].proc # "dead" => /\ wk[w].proc # "dead"
                                          /\ wk'[w].job = wk[w].job
             /\ \A j \in Jobs :
                  IsActive(j)' => /\ jobs'[j].claimedBy = jobs[j].claimedBy
                                  /\ \/ IsActive(j)
                                     \/ wk[jobs[j].claimedBy].job = j

LEMMA HeldStep ==
    ASSUME HeldInv, KeepsHeld
    PROVE  HeldInv'
BY DEF HeldInv, KeepsHeld

\* ... and one that adds no attempt preserves the second.
KeepsAttempts == /\ \A w \in Worker : wk'[w].attempts \in {wk[w].attempts, 0}
                 /\ faults' \in {faults, faults + 1}

LEMMA AttemptsStep ==
    ASSUME TypeInv, AttemptsInv, KeepsAttempts
    PROVE  AttemptsInv'
<1>1. faults \in Nat /\ \A w \in Worker : wk[w].attempts \in Nat
  BY WorkerAssumption DEF TypeInv, TypeOK, WorkerState
<1> QED BY <1>1 DEF AttemptsInv, KeepsAttempts

\* The rows that the steps leave active, or make so.
LEMMA ActiveRows ==
    ASSUME StoreTypeOK, RowInv, NEW j \in Jobs
    PROVE  /\ \A k \in Jobs : Create(k) =>
                 /\ jobs'[j].claimedBy = jobs[j].claimedBy
                 /\ IsActive(j)' => IsActive(j)
           /\ \A k \in Jobs, r \in Requests : SubmitDecision(k, r) =>
                 /\ jobs'[j].claimedBy = jobs[j].claimedBy
                 /\ IsActive(j)' => IsActive(j)
           /\ \A k \in Jobs : RequestAbort(k) =>
                 /\ jobs'[j].claimedBy = jobs[j].claimedBy
                 /\ IsActive(j)' => IsActive(j)
           /\ \A w \in Worker : RecoverOrphans(w) =>
                 /\ jobs'[j].claimedBy = jobs[j].claimedBy
                 /\ IsActive(j)' => IsActive(j)
           /\ \A k \in Jobs : (\E r \in Requests : SetAwaiting(k, r)) \/ TakeDecision(k) =>
                 /\ jobs'[j].claimedBy = jobs[j].claimedBy
                 /\ IsActive(j)' => IsActive(j) \/ j = k
           /\ \A k \in Jobs, s \in Terminal : \A e : SetStatus(k, s, e) =>
                 /\ jobs'[j].claimedBy = jobs[j].claimedBy
                 /\ IsActive(j)' => IsActive(j) /\ j # k
           /\ \A k \in Jobs, w \in Worker : ClaimNext(w, k) =>
                 (j # k => jobs'[j] = jobs[j])
<1>1. jobs \in [Jobs -> Row] /\ jobs[j] \in Row
  BY DEF StoreTypeOK
<1>2. ASSUME NEW k \in Jobs, Create(k)
      PROVE  jobs'[j].claimedBy = jobs[j].claimedBy /\ (IsActive(j)' => IsActive(j))
  BY <1>1, <1>2 DEF Create, Row, IsActive, Active
<1>3. ASSUME NEW k \in Jobs, NEW r \in Requests, SubmitDecision(k, r)
      PROVE  jobs'[j].claimedBy = jobs[j].claimedBy /\ (IsActive(j)' => IsActive(j))
  BY <1>1, <1>3 DEF SubmitDecision, Row, IsActive, Active
<1>4. ASSUME NEW k \in Jobs, RequestAbort(k)
      PROVE  jobs'[j].claimedBy = jobs[j].claimedBy /\ (IsActive(j)' => IsActive(j))
  BY <1>1, <1>4 DEF RequestAbort, Row, IsActive, Active
<1>5. ASSUME NEW w \in Worker, RecoverOrphans(w)
      PROVE  jobs'[j].claimedBy = jobs[j].claimedBy /\ (IsActive(j)' => IsActive(j))
  BY <1>1, <1>5 DEF RecoverOrphans, Row, IsActive, Active
<1>6. ASSUME NEW k \in Jobs, (\E r \in Requests : SetAwaiting(k, r)) \/ TakeDecision(k)
      PROVE  /\ jobs'[j].claimedBy = jobs[j].claimedBy
             /\ IsActive(j)' => IsActive(j) \/ j = k
  <2>1. CASE TakeDecision(k)
    BY <1>1, <2>1 DEF TakeDecision, Row, IsActive, Active
  <2>2. ASSUME NEW r \in Requests, SetAwaiting(k, r)
        PROVE  /\ jobs'[j].claimedBy = jobs[j].claimedBy
               /\ IsActive(j)' => IsActive(j) \/ j = k
    BY <1>1, <2>2 DEF SetAwaiting, Row, IsActive, Active
  <2> QED BY <1>6, <2>1, <2>2
<1>7. ASSUME NEW k \in Jobs, NEW s \in Terminal, NEW e, SetStatus(k, s, e)
      PROVE  /\ jobs'[j].claimedBy = jobs[j].claimedBy
             /\ IsActive(j)' => IsActive(j) /\ j # k
  BY <1>1, <1>7 DEF SetStatus, Row, IsActive, Active, Terminal
<1>8. ASSUME NEW k \in Jobs, NEW w \in Worker, ClaimNext(w, k), j # k
      PROVE  jobs'[j] = jobs[j]
  BY <1>1, <1>8 DEF ClaimNext
<1> QED BY <1>2, <1>3, <1>4, <1>5, <1>6, <1>7, <1>8

\* The hypotheses under which the claim of a job is never forgotten.
Remembers == "readback" \notin FaultPoints /\ MaxFaults < FinalizeAttempts

LEMMA StepHeld ==
    Remembers => (IInv /\ HeldInv /\ AttemptsInv /\ [Next]_vars
                    => HeldInv' /\ AttemptsInv')
<1> SUFFICES ASSUME Remembers, IInv, HeldInv, AttemptsInv, [Next]_vars
             PROVE  HeldInv' /\ AttemptsInv'
  OBVIOUS
<1>1. /\ TypeInv /\ RowInv /\ HandsInv /\ WorkInv /\ StoreTypeOK
      /\ wk \in [Worker -> WorkerState] /\ asked \in [Jobs -> 0..MaxRequests]
      /\ faults \in Nat
  BY WorkerAssumption DEF IInv, TypeInv, TypeOK
<1>2. \A w \in Worker : /\ wk[w].job \in Jobs \cup {NoJob}
                        /\ wk[w].attempts \in Nat
                        /\ wk[w].job \in Jobs => jobs[wk[w].job].claimedBy = w
  BY <1>1, Values, WorkerAssumption DEF WorkerState, HandsInv
<1>3. ASSUME KeepsHeld, KeepsAttempts PROVE HeldInv' /\ AttemptsInv'
  BY <1>1, <1>3, HeldStep, AttemptsStep
\* The steps that leave the rows alone.
<1>4. ASSUME UNCHANGED jobs, faults' \in {faults, faults + 1},
             \A w \in Worker :
                /\ wk'[w].proc # "dead" => /\ wk[w].proc # "dead"
                                           /\ wk'[w].job = wk[w].job
                /\ wk'[w].attempts \in {wk[w].attempts, 0}
      PROVE  HeldInv' /\ AttemptsInv'
  BY <1>3, <1>4 DEF KeepsHeld, KeepsAttempts, IsActive
<1>5. ASSUME NEW w \in Worker, Boot(w) \/ Crash(w) \/ Shutdown(w) \/ CutOff(w)
      PROVE  HeldInv' /\ AttemptsInv'
  BY <1>1, <1>4, <1>5 DEF Boot, Crash, Shutdown, CutOff, Running, WorkerState
<1>6. ASSUME UNCHANGED <<jobs, wk, faults>> PROVE HeldInv' /\ AttemptsInv'
  BY <1>4, <1>6
<1>7. ASSUME NEW w \in Worker, NEW p, Goto(w, p), UNCHANGED jobs,
             faults' \in {faults, faults + 1}
      PROVE  HeldInv' /\ AttemptsInv'
  BY <1>1, <1>4, <1>7 DEF Goto, WorkerState
<1>8. ASSUME NEW w \in Worker, WakeUp(w) \/ WinLease(w) \/ NothingToClaim(w)
                                 \/ ReadBack(w) \/ StartImport(w) \/ Choose(w)
                                 \/ NoAnswerYet(w) \/ CheckAbort(w)
                                 \/ PollAgain(w) \/ ImportReturns(w)
      PROVE  HeldInv' /\ AttemptsInv'
  BY <1>7, <1>8 DEF WakeUp, WinLease, NothingToClaim, ReadBack, StartImport,
     Choose, NoAnswerYet, CheckAbort, PollAgain, ImportReturns
<1>9. ASSUME NEW w \in Worker, LoseLease(w) \/ FindOldest(w) \/ ClaimLost(w)
      PROVE  HeldInv' /\ AttemptsInv'
  BY <1>1, <1>4, <1>9 DEF LoseLease, FindOldest, ClaimLost, WorkerState
\* A cycle fails before its process has a job.
<1>10. ASSUME NEW w \in Worker, CycleFails(w)
       PROVE  HeldInv' /\ AttemptsInv'
  <2>1. wk[w].job = NoJob
    BY <1>1, <1>10, WorkingValues DEF CycleFails, At, Fault, WorkInv, Remembers
  <2> QED BY <1>1, <1>4, <1>10, <2>1 DEF CycleFails, Fault, WorkerState
<1>11. ASSUME NEW w \in Worker, Recover(w) PROVE HeldInv' /\ AttemptsInv'
  <2>1. KeepsHeld
    BY <1>1, <1>11, ActiveRows DEF Recover, KeepsHeld, WorkerState
  <2>2. KeepsAttempts
    BY <1>1, <1>11 DEF Recover, KeepsAttempts, WorkerState
  <2> QED BY <1>3, <2>1, <2>2
<1>12. ASSUME NEW w \in Worker, Claim(w) PROVE HeldInv' /\ AttemptsInv'
  <2> DEFINE j == wk[w].seen
  <2>1. /\ j \in Jobs /\ ClaimNext(w, j) /\ wk[w].job = NoJob
        /\ wk' = [wk EXCEPT ![w].pc = "readback", ![w].job = j, ![w].seen = NoJob]
    BY <1>1, <1>12, WorkingValues DEF Claim, At, WorkInv
  <2>2. \A k \in Jobs \ {j} : jobs'[k] = jobs[k]
    BY <1>1, <2>1, ActiveRows
  <2>3. jobs'[j].claimedBy = w
    BY <1>1, <2>1, ClaimNextRows
  <2>4. /\ wk'[w].job = j
        /\ \A v \in Worker \ {w} : wk'[v] = wk[v]
    BY <1>1, <2>1 DEF WorkerState
  <2>5. \A k \in Jobs : NoJob # k
    BY Values
  <2>6. wk[w].proc # "dead"
    BY <1>12 DEF Claim, At, Running
  <2>7. ASSUME NEW v \in Worker, NEW k \in Jobs,
               wk'[v].proc # "dead", IsActive(k)', jobs'[k].claimedBy = v
        PROVE  wk'[v].job = k
    <3>1. CASE k = j
      BY <2>3, <2>4, <2>7, <3>1
    <3>2. CASE k # j
      <4>1. IsActive(k) /\ jobs[k].claimedBy = v
        BY <2>2, <2>7, <3>2 DEF IsActive
      <4>2. CASE v = w
        BY <2>1, <2>5, <2>6, <4>1, <4>2 DEF HeldInv
      <4>3. CASE v # w
        BY <2>4, <2>7, <4>1, <4>3 DEF HeldInv
      <4> QED BY <4>2, <4>3
    <3> QED BY <3>1, <3>2
  <2>8. KeepsAttempts
    BY <1>1, <1>12 DEF Claim, KeepsAttempts, WorkerState
  <2>9. HeldInv'
    BY <2>7 DEF HeldInv
  <2> QED BY <1>1, <2>8, <2>9, AttemptsStep
<1>13. ASSUME NEW w \in Worker, Ask(w) \/ TakeAnswer(w)
       PROVE  HeldInv' /\ AttemptsInv'
  <2> DEFINE k == wk[w].job
  <2>1. k \in Jobs
    BY <1>1, <1>13, WorkingValues DEF Ask, TakeAnswer, At, WorkInv
  <2>2. (\E r \in Requests : SetAwaiting(k, r)) \/ TakeDecision(k)
    <3>1. Ask(w) => asked[k] + 1 \in Requests
      BY <1>1, <2>1, StoreAssumption DEF Ask, Undecided, Requests
    <3> QED BY <1>13, <3>1 DEF Ask, TakeAnswer
  <2>3. \A j \in Jobs : /\ jobs'[j].claimedBy = jobs[j].claimedBy
                        /\ IsActive(j)' => IsActive(j) \/ j = k
    BY <1>1, <2>1, <2>2, ActiveRows
  <2>4. \E p : Goto(w, p) /\ UNCHANGED faults
    BY <1>13 DEF Ask, TakeAnswer
  <2>5. \A v \in Worker : /\ wk'[v].proc = wk[v].proc
                          /\ wk'[v].job = wk[v].job
                          /\ wk'[v].attempts = wk[v].attempts
    BY <1>1, <2>4 DEF Goto, WorkerState
  <2>6. wk[jobs[k].claimedBy].job = k
    BY <1>2, <2>1
  <2>7. KeepsHeld
    BY <2>3, <2>5, <2>6 DEF KeepsHeld
  <2>8. KeepsAttempts
    BY <2>4, <2>5 DEF KeepsAttempts
  <2> QED BY <1>3, <2>7, <2>8
<1>14. ASSUME NEW w \in Worker, ImportRaises(w) PROVE HeldInv' /\ AttemptsInv'
  BY <1>1, <1>4, <1>14 DEF ImportRaises, Fault, WorkerState
<1>15. ASSUME NEW w \in Worker, WrapUp(w) PROVE HeldInv' /\ AttemptsInv'
  <2>1. \E v : wk' = [wk EXCEPT ![w].pc = "finalize", ![w].verdict = v]
    BY <1>15, Zenon DEF WrapUp
  <2>2. faults' \in {faults, faults + 1} /\ UNCHANGED jobs
    BY <1>15 DEF WrapUp, Fault
  <2> QED BY <1>1, <1>4, <2>1, <2>2 DEF WorkerState
<1>16. ASSUME NEW w \in Worker, Finalize(w) PROVE HeldInv' /\ AttemptsInv'
  <2> DEFINE k == wk[w].job
  <2>1. k \in Jobs /\ wk[w].verdict \in Terminal
    BY <1>1, <1>16, WorkingValues DEF Finalize, At, WorkInv
  <2>2. \A j \in Jobs : /\ jobs'[j].claimedBy = jobs[j].claimedBy
                        /\ IsActive(j)' => IsActive(j) /\ j # k
    BY <1>1, <1>16, <2>1, ActiveRows DEF Finalize
  <2>3. \A v \in Worker : /\ wk'[v].proc = wk[v].proc
                          /\ v # w => wk'[v].job = wk[v].job
                          /\ wk'[v].attempts \in {wk[v].attempts, 0}
    BY <1>1, <1>16 DEF Finalize, LeaveJob, WorkerState
  <2>4. wk[w].proc # "dead"
    BY <1>16 DEF Finalize, At, Running
  \* No active job is left to w: it owned no other than k.
  <2>5. \A j \in Jobs : IsActive(j)' => jobs'[j].claimedBy # w
    BY <2>1, <2>2, <2>4 DEF HeldInv
  <2>6. HeldInv'
    BY <2>2, <2>3, <2>5 DEF HeldInv
  <2>7. KeepsAttempts
    BY <1>16, <2>3 DEF Finalize, KeepsAttempts
  <2> QED BY <1>1, <2>6, <2>7, AttemptsStep
\* The last attempt never fails: there are fewer faults than attempts.
<1>17. ASSUME NEW w \in Worker, FinalizeFails(w) PROVE HeldInv' /\ AttemptsInv'
  <2>1. /\ faults < MaxFaults /\ faults' = faults + 1 /\ UNCHANGED jobs
    BY <1>17 DEF FinalizeFails, Fault
  <2>2. wk[w].attempts + 1 < FinalizeAttempts
    BY <1>1, <1>2, <2>1, WorkerAssumption DEF AttemptsInv, Remembers
  <2>3. wk' = [wk EXCEPT ![w].pc = "retrying", ![w].attempts = @ + 1]
    BY <1>17, <2>2 DEF FinalizeFails
  <2>4. \A v \in Worker : /\ wk'[v].proc = wk[v].proc
                          /\ wk'[v].job = wk[v].job
                          /\ wk'[v].attempts \in {wk[v].attempts, wk[v].attempts + 1}
    BY <1>1, <2>3 DEF WorkerState
  <2>5. HeldInv'
    BY <2>1, <2>4 DEF HeldInv, IsActive
  <2>6. AttemptsInv'
    BY <1>1, <1>2, <2>1, <2>4 DEF AttemptsInv
  <2> QED BY <2>5, <2>6
<1>18. ASSUME NEW j \in Jobs, Create(j) \/ Answer(j) \/ Abort(j),
              UNCHANGED <<wk, faults>>
       PROVE  HeldInv' /\ AttemptsInv'
  <2>1. Answer(j) => \E r \in Requests : SubmitDecision(j, r)
    BY <1>1, StoreAssumption DEF Answer, Requests
  <2>2. KeepsHeld
    BY <1>1, <1>18, <2>1, ActiveRows DEF Abort, KeepsHeld
  <2>3. KeepsAttempts
    BY <1>18 DEF KeepsAttempts
  <2> QED BY <1>3, <2>2, <2>3
<1>19. LeaseExpires \/ (\E w \in Worker : Renew(w)) \/ UNCHANGED vars
          => UNCHANGED <<jobs, wk, faults>>
  BY DEF LeaseExpires, Renew, vars
<1>20. SubmitJob => UNCHANGED <<wk, faults>> /\ \E j \in Jobs : Create(j)
  BY DEF SubmitJob
<1>21. \A j \in Jobs : Answer(j) \/ Abort(j) => UNCHANGED <<wk, faults>>
  BY DEF Answer, Abort
<1> QED
  BY <1>5, <1>6, <1>8, <1>9, <1>10, <1>11, <1>12, <1>13, <1>14, <1>15, <1>16,
     <1>17, <1>18, <1>19, <1>20, <1>21
  DEF Next, WorkerStep, Cycle, Import, Finish

\* The active jobs that a live process claimed are in its hands: claimed_by
\* is the process now running the job (db/models.py:134), so that nobody has
\* to fail an orphan of a process that is still there.
THEOREM ClaimsAreHeld ==
    ASSUME Remembers
    PROVE  Spec => []ClaimIsHeld
<1>1. Init => HeldInv /\ AttemptsInv
  BY DEF Init, StoreInit, NoRow, NewProcess, HeldInv, AttemptsInv, IsActive, Active
<1>2. IInv /\ HeldInv /\ AttemptsInv /\ [Next]_vars => HeldInv' /\ AttemptsInv'
  BY StepHeld
<1>3. HeldInv => ClaimIsHeld
  BY DEF HeldInv, ClaimIsHeld, Running
<1> QED BY <1>1, <1>2, <1>3, Inductive, PTL DEF Spec

=============================================================================

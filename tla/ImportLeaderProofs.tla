--------------------------- MODULE ImportLeaderProofs ---------------------------
(***************************************************************************)
(* The properties of one leader at a time.  They need either of the two    *)
(* conditions under which the lease elects one: processes that never run   *)
(* at the same time, or leases that lapse only once their holder is dead.  *)
(***************************************************************************)
EXTENDS ImportSafetyProofs

TimelyLeases == ~GracefulStop /\ ~Stalls

Exclusive == ~Overlap \/ TimelyLeases

\* A process acts as the leader, or will at its next cycle without a recovery.
Lead(w) == Running(w) /\ (wk[w].pc \in Leading \/ wk[w].wasLeader = TRUE)

NewInv == \A w \in Worker :
             wk[w].proc = "new" => wk[w].pc = "cycle" /\ wk[w].wasLeader = FALSE

AloneInv == ~Overlap => \A v, w \in Worker : Running(v) /\ Running(w) => v = w

LeaseInv == TimelyLeases =>
               \A w \in Worker : /\ wk[w].proc # "stopping"
                                 /\ Lead(w) => /\ lock.holder = w
                                               /\ lock.expired = FALSE

ElectionInv == NewInv /\ AloneInv /\ LeaseInv

\* Under either condition there is at most one leader.
OneLeader == \A v, w \in Worker : Lead(v) /\ Lead(w) => v = w

LEMMA ElectsOne == Exclusive /\ ElectionInv => OneLeader
BY DEF Exclusive, ElectionInv, AloneInv, LeaseInv, OneLeader, Lead

LEMMA LeadingValues ==
    Leading = {"recover", "claim", "claiming", "readback", "wrapup", "finalize",
               "retrying", "dispatch", "import", "asking", "take", "abortcheck",
               "napping"}
BY DEF Leading, Renewing, Parked

\* What a step of a process does to its own standing.
LEMMA LeadSteps ==
    ASSUME TypeInv, NewInv, [Next]_vars
    PROVE  /\ \A w \in Worker : wk'[w].proc = "stopping"
                                   => wk[w].proc = "stopping" \/ GracefulStop
           /\ \A w \in Worker : Running(w)' => Running(w) \/ Boot(w)
           /\ \A w \in Worker : Lead(w)' => Lead(w) \/ WinLease(w)
           /\ NewInv'
<1> DEFINE Same(w) == wk'[w] = wk[w]
           Good(w) == /\ wk'[w].proc = "stopping"
                            => wk[w].proc = "stopping" \/ GracefulStop
                      /\ Running(w)' => Running(w) \/ Boot(w)
                      /\ Lead(w)' => Lead(w) \/ WinLease(w)
                      /\ wk'[w].proc = "new"
                            => wk'[w].pc = "cycle" /\ wk'[w].wasLeader = FALSE
<1>1. wk \in [Worker -> WorkerState]
  BY DEF TypeInv, TypeOK
<1>2. SUFFICES ASSUME NEW w \in Worker PROVE Good(w)
  BY DEF NewInv
<1>3. ASSUME Same(w) PROVE Good(w)
  BY <1>3 DEF Running, Lead, NewInv
<1>4. CASE UNCHANGED wk
  BY <1>3, <1>4
<1>5. ASSUME NEW v \in Worker, Boot(v) PROVE Good(w)
  BY <1>1, <1>3, <1>5, LeadingValues DEF Boot, Running, Lead, NewInv, WorkerState
<1>6. ASSUME NEW v \in Worker, Crash(v) \/ Shutdown(v) \/ CutOff(v) PROVE Good(w)
  <2>1. v # w => Same(w)
    BY <1>1, <1>6 DEF Crash, Shutdown, CutOff
  <2>2. /\ wk'[v].pc = wk[v].pc /\ wk'[v].wasLeader = wk[v].wasLeader
        /\ Running(v) /\ wk'[v].proc \in {"stopping", "dead"}
        /\ wk'[v].proc = "stopping" => GracefulStop
    BY <1>1, <1>6 DEF Crash, Shutdown, CutOff, Running, WorkerState
  <2> QED BY <1>3, <2>1, <2>2 DEF Running, Lead
<1>7. ASSUME NEW v \in Worker, WinLease(v) PROVE Good(w)
  BY <1>1, <1>3, <1>7 DEF WinLease, At, Goto, Running, Lead, WorkerState
<1>8. ASSUME NEW v \in Worker, WakeUp(v) PROVE Good(w)
  <2>1. /\ (v # w => Same(w)) /\ Running(v) /\ wk'[v].proc = wk[v].proc
        /\ wk'[v].wasLeader = wk[v].wasLeader
        /\ wk[v].pc = "retrying" \/ wk'[v].pc = "cycle"
    BY <1>1, <1>8 DEF WakeUp, Goto, Running, WorkerState
  <2> QED BY <1>3, <2>1, LeadingValues DEF Lead, Running
<1>9. ASSUME NEW v \in Worker, LoseLease(v) PROVE Good(w)
  <2>1. /\ (v # w => Same(w)) /\ Running(v) /\ wk'[v].proc = wk[v].proc
        /\ wk'[v].wasLeader = FALSE /\ wk'[v].pc = "asleep"
    BY <1>1, <1>9 DEF LoseLease, At, WorkerState
  <2> QED BY <1>3, <2>1, LeadingValues DEF Lead, Running
<1>10. ASSUME NEW v \in Worker,
             \/ Recover(v) \/ FindOldest(v) \/ NothingToClaim(v) \/ Claim(v)
             \/ ClaimLost(v) \/ ReadBack(v) \/ StartImport(v)
      PROVE  Good(w)
  <2>1. /\ (v # w => Same(w)) /\ Running(v) /\ wk'[v].proc = wk[v].proc
        /\ wk[v].pc \in {"recover", "claim", "claiming", "readback", "dispatch"}
    BY <1>1, <1>10 DEF Recover, FindOldest, NothingToClaim, Claim, ClaimLost,
       ReadBack, StartImport, At, Goto, Running, WorkerState
  <2> QED BY <1>3, <2>1, LeadingValues DEF Lead, Running
<1>11. ASSUME NEW v \in Worker, CycleFails(v) PROVE Good(w)
  <2>1. /\ (v # w => Same(w)) /\ Running(v) /\ wk'[v].proc = wk[v].proc
        /\ wk'[v].wasLeader = wk[v].wasLeader /\ wk'[v].pc = "asleep"
    BY <1>1, <1>11 DEF CycleFails, At, WorkerState
  <2> QED BY <1>3, <2>1, LeadingValues DEF Lead, Running
<1>12. ASSUME NEW v \in Worker, Import(v) PROVE Good(w)
  <2>1. /\ (v # w => Same(w)) /\ Running(v) /\ wk'[v].proc = wk[v].proc
        /\ wk[v].pc \in {"import", "asking", "take", "abortcheck", "napping"}
    BY <1>1, <1>12 DEF Import, Choose, Ask, TakeAnswer, NoAnswerYet, CheckAbort,
       PollAgain, ImportReturns, ImportRaises, At, Goto, Running, WorkerState
  <2> QED BY <1>3, <2>1, LeadingValues DEF Lead, Running
<1>13. ASSUME NEW v \in Worker, Finish(v) PROVE Good(w)
  <2>1. /\ (v # w => Same(w)) /\ Running(v) /\ wk'[v].proc = wk[v].proc
        /\ wk[v].pc \in {"wrapup", "finalize"}
    BY <1>1, <1>13 DEF Finish, WrapUp, Finalize, FinalizeFails, LeaveJob, At,
       WorkerState
  <2> QED BY <1>3, <2>1, LeadingValues DEF Lead, Running
<1> QED
  BY <1>4, <1>5, <1>6, <1>7, <1>8, <1>9, <1>10, <1>11, <1>12, <1>13
  DEF Next, vars, WorkerStep, Cycle, Renew, LeaseExpires, SubmitJob, Answer, Abort

\* What a step does to the lease.
LEMMA LockSteps ==
    ASSUME TypeInv, [Next]_vars
    PROVE  \/ LeaseExpires
           \/ \E v \in Worker : WinLease(v) \/ Renew(v)
           \/ lock'.holder = lock.holder /\ lock'.expired = lock.expired
<1>1. lock \in LockRow
  BY DEF TypeInv, TypeOK, StoreTypeOK
<1>2. ASSUME NEW v \in Worker, Boot(v)
      PROVE  lock'.holder = lock.holder /\ lock'.expired = lock.expired
  BY <1>1, <1>2 DEF Boot, EnsureLockRow, LockRow
<1>3. CASE UNCHANGED lock
  BY <1>3
<1> QED
  BY <1>2, <1>3 DEF Next, vars, Crash, Shutdown, CutOff, WorkerStep, Cycle, Import,
     Finish, WakeUp, LoseLease, Recover, FindOldest, NothingToClaim, Claim, ClaimLost,
     ReadBack, CycleFails, StartImport, Choose, Ask, TakeAnswer, NoAnswerYet,
     CheckAbort, PollAgain, ImportReturns, ImportRaises, WrapUp, Finalize,
     FinalizeFails, SubmitJob, Answer, Abort

LEMMA StepElection == TypeInv /\ ElectionInv /\ [Next]_vars => ElectionInv'
<1> SUFFICES ASSUME TypeInv, ElectionInv, [Next]_vars PROVE ElectionInv'
  OBVIOUS
<1>1. NewInv /\ AloneInv /\ LeaseInv
  BY DEF ElectionInv
<1>2. /\ lock \in LockRow
      /\ \A w \in Worker : w # NoWorker
  BY StoreAssumption DEF TypeInv, TypeOK, StoreTypeOK
<1>3. NewInv'
  BY <1>1, LeadSteps
<1>4. AloneInv'
  <2>1. CASE \E v \in Worker : Boot(v)
    BY <2>1 DEF Boot, AloneInv, Running
  <2>2. CASE ~\E v \in Worker : Boot(v)
    <3>1. \A w \in Worker : Running(w)' => Running(w)
      BY <1>1, <2>2, LeadSteps
    <3> QED BY <1>1, <3>1 DEF AloneInv
  <2> QED BY <2>1, <2>2
<1>5. ASSUME TimelyLeases, NEW w \in Worker
      PROVE  /\ wk'[w].proc # "stopping"
             /\ Lead(w)' => lock'.holder = w /\ lock'.expired = FALSE
  <2>1. \A v \in Worker : /\ wk[v].proc # "stopping"
                          /\ Lead(v) => lock.holder = v /\ lock.expired = FALSE
    BY <1>1, <1>5 DEF LeaseInv
  <2>2. wk'[w].proc # "stopping"
    BY <1>1, <1>5, <2>1, LeadSteps DEF TimelyLeases
  <2>3. Lead(w)' => Lead(w) \/ WinLease(w)
    BY <1>1, LeadSteps
  <2>4. ASSUME NEW v \in Worker, WinLease(v), Lead(w)'
        PROVE  lock'.holder = w /\ lock'.expired = FALSE
    <3>1. Acquirable(v) /\ lock'.holder = v /\ lock'.expired = FALSE
      BY <1>2, <2>4 DEF WinLease, AcquireLock, LockRow
    <3>2. CASE Lead(w)
      <4>1. lock.holder = w /\ ~lock.expired
        BY <2>1, <3>2
      <4> QED BY <1>2, <3>1, <4>1 DEF Acquirable
    <3>3. CASE WinLease(w)
      BY <1>2, <3>1, <3>3 DEF WinLease, AcquireLock, LockRow
    <3> QED BY <2>3, <2>4, <3>2, <3>3
  <2>5. ASSUME NEW v \in Worker, Renew(v), Lead(w)', ~WinLease(w)
        PROVE  lock'.holder = w /\ lock'.expired = FALSE
    <3>1. lock'.holder = v /\ lock'.expired = FALSE
      BY <1>2, <2>5 DEF Renew, AcquireLock, LockRow
    <3>2. Lead(v)
      BY <2>5 DEF Renew, Lead, Running, Leading
    <3> QED BY <2>1, <2>3, <2>5, <3>1, <3>2
  <2>6. ASSUME LeaseExpires, Lead(w)
        PROVE  FALSE
    <3>1. lock.holder = w /\ Running(w) /\ wk[w].proc # "stopping"
      BY <2>1, <2>6 DEF Lead
    <3> QED BY <1>5, <2>6, <3>1 DEF LeaseExpires, Unrenewed, TimelyLeases
  <2>7. CASE lock'.holder = lock.holder /\ lock'.expired = lock.expired /\ ~WinLease(w)
    BY <2>1, <2>2, <2>3, <2>7
  <2> QED BY <2>2, <2>3, <2>4, <2>5, <2>6, <2>7, LockSteps
<1>6. LeaseInv'
  BY <1>5 DEF LeaseInv, TimelyLeases
<1> QED BY <1>3, <1>4, <1>6 DEF ElectionInv

LEMMA InitElection == Init => ElectionInv
BY DEF Init, NewProcess, ElectionInv, NewInv, AloneInv, LeaseInv, Lead, Running

\* One import at a time: AtMostOneImport holds of every deployment in which
\* processes do not overlap, or leases lapse only under dead processes.
THEOREM OneImportAtATime ==
    ASSUME Exclusive
    PROVE  Spec => []AtMostOneImport
<1>1. Init => ElectionInv
  BY InitElection
<1>2. TypeInv /\ ElectionInv /\ [Next]_vars => ElectionInv'
  BY StepElection
<1>3. ElectionInv => AtMostOneImport
  <2>1. \A w \in Worker : Importing(w) => Lead(w)
    BY LeadingValues DEF Importing, Lead, Parked
  <2> QED BY <2>1, ElectsOne DEF OneLeader, AtMostOneImport
<1>4. IInv => TypeInv
  BY DEF IInv
<1> QED BY <1>1, <1>2, <1>3, <1>4, Inductive, PTL DEF Spec

-----------------------------------------------------------------------------
(* What one leader at a time makes of the jobs: a new leader has failed what  *)
(* the old one left behind, a parked import shows its own prompt, and errors  *)
(* are where failures are.                                                 *)

\* Jobs are submitted in their order.
OrderInv == \A j, k \in Jobs :
               k < j /\ jobs[j].status # "absent" => jobs[k].status # "absent"

\* What a running process can rely on.
LocalInv(w) ==
    /\ wk[w].pc \in Leading \ {"recover"} => wk[w].wasLeader = TRUE
    /\ wk[w].wasLeader = TRUE => \A j \in Jobs : IsActive(j) => jobs[j].claimedBy = w
    /\ wk[w].pc \in Working => IsActive(wk[w].job)
    /\ wk[w].pc \in Parked => /\ jobs[wk[w].job].status = "awaiting_decision"
                              /\ jobs[wk[w].job].pending = asked[wk[w].job]
    /\ wk[w].pc = "claiming" => OldestPending(wk[w].seen)

LeaderInv == /\ OrderInv
             /\ ErrorIffFailed
             /\ \A w \in Worker : Running(w) => LocalInv(w)

\* A step that leaves these columns alone, or all but those of job j.
KeepsRows(S) == \A k \in S : /\ jobs'[k].status = jobs[k].status
                             /\ jobs'[k].claimedBy = jobs[k].claimedBy
                             /\ jobs'[k].pending = jobs[k].pending
                             /\ jobs'[k].error = jobs[k].error

-----------------------------------------------------------------------------
(* What the operations of the store write.                                 *)

LEMMA RequestWrites ==
    ASSUME StoreTypeOK, NEW j \in Jobs
    PROVE  /\ \A r : SubmitDecision(j, r) => KeepsRows(Jobs)
           /\ RequestAbort(j) => KeepsRows(Jobs)
<1>1. jobs \in [Jobs -> Row]
  BY DEF StoreTypeOK
<1>2. ASSUME NEW r, SubmitDecision(j, r) PROVE KeepsRows(Jobs)
  BY <1>1, <1>2 DEF SubmitDecision, KeepsRows, Row
<1>3. ASSUME RequestAbort(j) PROVE KeepsRows(Jobs)
  BY <1>1, <1>3 DEF RequestAbort, KeepsRows, Row
<1> QED BY <1>2, <1>3

LEMMA JobWrites ==
    ASSUME StoreTypeOK, NEW j \in Jobs, NEW w \in Worker
    PROVE  /\ Create(j) => /\ KeepsRows(Jobs \ {j})
                           /\ jobs'[j].status = "pending"
                           /\ jobs'[j].error = jobs[j].error
           /\ ClaimNext(w, j) => /\ KeepsRows(Jobs \ {j})
                                 /\ jobs'[j].status = "running"
                                 /\ jobs'[j].claimedBy = w
                                 /\ jobs'[j].error = jobs[j].error
           /\ TakeDecision(j) => /\ KeepsRows(Jobs \ {j})
                                 /\ jobs'[j].status = "running"
                                 /\ jobs'[j].claimedBy = jobs[j].claimedBy
                                 /\ jobs'[j].error = jobs[j].error
           /\ \A s, e : SetStatus(j, s, e) =>
                 /\ KeepsRows(Jobs \ {j})
                 /\ jobs'[j].status = s
                 /\ jobs'[j].error = IF e = "null" THEN jobs[j].error ELSE e
<1>1. jobs \in [Jobs -> Row]
  BY DEF StoreTypeOK
<1>2. Create(j) => /\ KeepsRows(Jobs \ {j}) /\ jobs'[j].status = "pending"
                   /\ jobs'[j].error = jobs[j].error
  BY <1>1 DEF Create, KeepsRows, Row
<1>3. ClaimNext(w, j) => /\ KeepsRows(Jobs \ {j}) /\ jobs'[j].status = "running"
                         /\ jobs'[j].claimedBy = w
                         /\ jobs'[j].error = jobs[j].error
  BY <1>1 DEF ClaimNext, KeepsRows, Row
<1>4. TakeDecision(j) => /\ KeepsRows(Jobs \ {j}) /\ jobs'[j].status = "running"
                         /\ jobs'[j].claimedBy = jobs[j].claimedBy
                         /\ jobs'[j].error = jobs[j].error
  BY <1>1 DEF TakeDecision, KeepsRows, Row
<1>5. ASSUME NEW s, NEW e, SetStatus(j, s, e)
      PROVE  /\ KeepsRows(Jobs \ {j}) /\ jobs'[j].status = s
             /\ jobs'[j].error = IF e = "null" THEN jobs[j].error ELSE e
  BY <1>1, <1>5 DEF SetStatus, KeepsRows, Row
<1> QED BY <1>2, <1>3, <1>4, <1>5

LEMMA RecoverWrites ==
    ASSUME StoreTypeOK, NEW w \in Worker, RecoverOrphans(w)
    PROVE  \A j \in Jobs :
              \/ Orphan(w, j) /\ jobs'[j].status = "failed"
                              /\ jobs'[j].error = "interrupted"
              \/ ~Orphan(w, j) /\ jobs'[j] = jobs[j]
BY DEF StoreTypeOK, RecoverOrphans, Row

-----------------------------------------------------------------------------
(* The steps of the processes.                                             *)

\* A step that writes none of those columns, seen by a process that does not
\* take it.
LEMMA Bystander ==
    ASSUME TypeInv, NEW w \in Worker, KeepsRows(Jobs), UNCHANGED asked,
           wk'[w] = wk[w], Running(w) => LocalInv(w)
    PROVE  Running(w)' => LocalInv(w)'
<1>1. /\ wk[w].pc \in Working => wk[w].job \in Jobs
      /\ wk[w].pc = "claiming" => wk[w].seen \in Jobs
      /\ wk[w].pc \in Parked => wk[w].pc \in Working
  BY DEF TypeInv, WorkInv, Working, Renewing
<1> QED
  BY <1>1 DEF KeepsRows, Running, LocalInv, IsActive, OldestPending

\* A step of the leader, seen by any other process.
LEMMA Follower ==
    ASSUME OneLeader, NEW v \in Worker, NEW w \in Worker, Lead(v), v # w,
           wk'[w] = wk[w]
    PROVE  Running(w)' => LocalInv(w)'
<1>1. ~Lead(w)
  BY DEF OneLeader
<1> QED BY <1>1, LeadingValues, WorkingValues DEF Lead, Running, LocalInv, Parked

LEMMA QuietRows ==
    ASSUME KeepsRows(Jobs), OrderInv, ErrorIffFailed
    PROVE  OrderInv' /\ ErrorIffFailed'
BY DEF KeepsRows, OrderInv, ErrorIffFailed

LEMMA StepLeader ==
    ASSUME IInv, NewInv, OneLeader, LeaderInv, [Next]_vars
    PROVE  LeaderInv'
<1> DEFINE Local(w) == Running(w)' => LocalInv(w)'
<1>1. /\ wk \in [Worker -> WorkerState] /\ StoreTypeOK /\ WorkInv /\ TypeInv
      /\ asked \in [Jobs -> 0..MaxRequests]
      /\ OwnedOnceClaimed /\ HandsInv
  BY DEF IInv, TypeInv, TypeOK, RowInv
<1>2. OrderInv /\ ErrorIffFailed /\ \A w \in Worker : Running(w) => LocalInv(w)
  BY DEF LeaderInv
<1>3. ASSUME OrderInv', ErrorIffFailed', \A w \in Worker : Local(w)
      PROVE  LeaderInv'
  BY <1>3 DEF LeaderInv
<1>4. ASSUME UNCHANGED jobs PROVE KeepsRows(Jobs)
  BY <1>4 DEF KeepsRows
\* Steps that leave the rows alone ...
<1>5. ASSUME KeepsRows(Jobs), UNCHANGED <<wk, asked>> PROVE LeaderInv'
  BY <1>1, <1>2, <1>3, <1>5, Bystander, QuietRows
<1>6. ASSUME NEW v \in Worker, KeepsRows(Jobs), UNCHANGED asked,
             \A w \in Worker \ {v} : wk'[w] = wk[w], Local(v)
      PROVE  LeaderInv'
  <2>1. ASSUME NEW w \in Worker PROVE Local(w)
    <3>1. CASE w = v
      BY <1>6, <3>1
    <3>2. CASE w # v
      BY <1>1, <1>2, <1>6, <3>2, Bystander
    <3> QED BY <3>1, <3>2
  <2> QED BY <1>2, <1>3, <1>6, <2>1, QuietRows
<1>7. ASSUME NEW v \in Worker, Boot(v) \/ Crash(v) \/ Shutdown(v) \/ CutOff(v)
      PROVE  LeaderInv'
  <2>1. KeepsRows(Jobs) /\ UNCHANGED asked
    BY <1>4, <1>7 DEF Boot, Crash, Shutdown, CutOff
  <2>2. \A w \in Worker \ {v} : wk'[w] = wk[w]
    BY <1>1, <1>7 DEF Boot, Crash, Shutdown, CutOff
  <2>3. Local(v)
    <3>1. CASE Boot(v)
      <4>1. wk'[v].pc = "cycle" /\ wk'[v].wasLeader = FALSE
        BY <1>1, <3>1 DEF Boot, NewInv, WorkerState
      <4> QED BY <4>1, LeadingValues, WorkingValues DEF LocalInv, Parked
    <3>2. CASE Crash(v) \/ CutOff(v)
      BY <1>1, <3>2 DEF Crash, CutOff, Running, WorkerState
    <3>3. CASE Shutdown(v)
      <4>1. /\ wk'[v].pc = wk[v].pc /\ wk'[v].wasLeader = wk[v].wasLeader
            /\ wk'[v].job = wk[v].job /\ wk'[v].seen = wk[v].seen /\ Running(v)
            /\ UNCHANGED <<jobs, asked>>
        BY <1>1, <3>3 DEF Shutdown, Running, WorkerState
      <4> QED BY <1>2, <4>1 DEF LocalInv, IsActive, OldestPending
    <3> QED BY <1>7, <3>1, <3>2, <3>3
  <2> QED BY <1>6, <2>1, <2>2, <2>3
\* ... those of one process's cycle ...
<1>8. ASSUME NEW v \in Worker, Running(v), UNCHANGED <<jobs, asked>>,
             \A w \in Worker \ {v} : wk'[w] = wk[w], LocalInv(v)'
      PROVE  LeaderInv'
  BY <1>4, <1>6, <1>8
<1>9. ASSUME NEW v \in Worker, WakeUp(v) \/ LoseLease(v) \/ CycleFails(v)
                                 \/ NothingToClaim(v) \/ ClaimLost(v)
      PROVE  LeaderInv'
  <2>1. /\ Running(v) /\ UNCHANGED <<jobs, asked>>
        /\ \A w \in Worker \ {v} : wk'[w] = wk[w]
    BY <1>1, <1>9 DEF WakeUp, LoseLease, CycleFails, NothingToClaim, ClaimLost,
       At, Goto, Running
  <2>2. CASE LoseLease(v)
    <3>1. wk'[v].wasLeader = FALSE /\ wk'[v].pc = "asleep"
      BY <1>1, <2>2 DEF LoseLease, WorkerState
    <3>2. LocalInv(v)'
      BY <3>1, LeadingValues, WorkingValues DEF LocalInv, Parked
    <3> QED BY <1>8, <2>1, <3>2
  <2>3. CASE ~LoseLease(v)
    <3>1. /\ wk'[v].wasLeader = wk[v].wasLeader
          /\ \/ wk'[v].pc \in {"cycle", "asleep"}
             \/ /\ wk[v].pc = "retrying" /\ wk'[v].pc = "finalize"
                /\ wk'[v].job = wk[v].job
      BY <1>1, <1>9, <2>3 DEF WakeUp, CycleFails, NothingToClaim, ClaimLost,
         At, Goto, WorkerState
    <3>2. LocalInv(v)'
      BY <1>2, <2>1, <3>1, LeadingValues, WorkingValues
      DEF LocalInv, Parked, IsActive
    <3> QED BY <1>8, <2>1, <3>2
  <2> QED BY <2>2, <2>3
<1>10. ASSUME NEW v \in Worker, WinLease(v) PROVE LeaderInv'
  <2>1. /\ Running(v) /\ UNCHANGED <<jobs, asked>>
        /\ \A w \in Worker \ {v} : wk'[w] = wk[w]
    BY <1>1, <1>10 DEF WinLease, At, Goto
  <2>2. /\ wk'[v].wasLeader = wk[v].wasLeader
        /\ wk'[v].pc \in {"claim", "recover"}
        /\ wk'[v].pc = "claim" => wk[v].wasLeader = TRUE
    BY <1>1, <1>10 DEF WinLease, At, Goto, WorkerState
  <2>3. LocalInv(v)'
    BY <1>2, <2>1, <2>2, WorkingValues DEF LocalInv, Parked, IsActive
  <2> QED BY <1>8, <2>1, <2>3
<1>11. ASSUME NEW v \in Worker, FindOldest(v) PROVE LeaderInv'
  <2>1. /\ Running(v) /\ UNCHANGED <<jobs, asked>>
        /\ \A w \in Worker \ {v} : wk'[w] = wk[w]
    BY <1>1, <1>11 DEF FindOldest, At
  <2>2. /\ wk'[v].wasLeader = wk[v].wasLeader /\ wk[v].pc = "claim"
        /\ wk'[v].pc = "claiming" /\ OldestPending(wk'[v].seen)
    BY <1>1, <1>11 DEF FindOldest, At, WorkerState
  <2>3. LocalInv(v)'
    BY <1>2, <2>1, <2>2, LeadingValues, WorkingValues
    DEF LocalInv, Parked, IsActive, OldestPending
  <2> QED BY <1>8, <2>1, <2>3
\* ... and those of its import, as long as it keeps the job.
<1>12. ASSUME NEW v \in Worker,
              \/ ReadBack(v) \/ StartImport(v) \/ Choose(v) \/ NoAnswerYet(v)
              \/ CheckAbort(v) \/ PollAgain(v) \/ ImportReturns(v)
              \/ ImportRaises(v) \/ WrapUp(v)
       PROVE  LeaderInv'
  <2>1. /\ Running(v) /\ UNCHANGED <<jobs, asked>>
        /\ \A w \in Worker \ {v} : wk'[w] = wk[w]
    BY <1>1, <1>12 DEF ReadBack, StartImport, Choose, NoAnswerYet, CheckAbort,
       PollAgain, ImportReturns, ImportRaises, WrapUp, At, Goto, Running
  <2>2. /\ wk'[v].wasLeader = wk[v].wasLeader /\ wk'[v].job = wk[v].job
        /\ wk[v].pc \in Working /\ wk'[v].pc \in Working
        /\ wk'[v].pc \in Parked => wk[v].pc \in Parked
    BY <1>1, <1>12, WorkingValues DEF ReadBack, StartImport, Choose, NoAnswerYet,
       CheckAbort, PollAgain, ImportReturns, ImportRaises, WrapUp, At, Goto, Parked,
       WorkerState
  <2>3. LocalInv(v)'
    BY <1>2, <2>1, <2>2, LeadingValues, WorkingValues DEF LocalInv, IsActive
  <2> QED BY <1>8, <2>1, <2>3
<1>13. ASSUME NEW v \in Worker, FinalizeFails(v) PROVE LeaderInv'
  <2>1. /\ Running(v) /\ UNCHANGED <<jobs, asked>>
        /\ \A w \in Worker \ {v} : wk'[w] = wk[w]
    BY <1>1, <1>13 DEF FinalizeFails, LeaveJob, At
  <2>2. /\ wk'[v].wasLeader = wk[v].wasLeader /\ wk[v].pc = "finalize"
        /\ \/ wk'[v].pc = "cycle"
           \/ wk'[v].pc = "retrying" /\ wk'[v].job = wk[v].job
    BY <1>1, <1>13 DEF FinalizeFails, LeaveJob, At, WorkerState
  <2>3. LocalInv(v)'
    BY <1>2, <2>1, <2>2, LeadingValues, WorkingValues DEF LocalInv, Parked, IsActive
  <2> QED BY <1>8, <2>1, <2>3
\* The steps of a leader that write rows.
<1>14. ASSUME NEW v \in Worker, Lead(v), \A w \in Worker \ {v} : wk'[w] = wk[w],
              LocalInv(v)', OrderInv', ErrorIffFailed'
       PROVE  LeaderInv'
  <2>1. ASSUME NEW w \in Worker PROVE Local(w)
    <3>1. CASE w = v
      BY <1>14, <3>1
    <3>2. CASE w # v
      BY <1>14, <3>2, Follower
    <3> QED BY <3>1, <3>2
  <2> QED BY <1>3, <1>14, <2>1
<1>15. ASSUME NEW v \in Worker, Recover(v) PROVE LeaderInv'
  <2>1. /\ Lead(v) /\ \A w \in Worker \ {v} : wk'[w] = wk[w]
    BY <1>1, <1>15 DEF Recover, At, Lead, Leading
  <2>2. \A j \in Jobs :
           \/ Orphan(v, j) /\ jobs'[j].status = "failed" /\ jobs'[j].error = "interrupted"
           \/ ~Orphan(v, j) /\ jobs'[j] = jobs[j]
    BY <1>1, <1>15, RecoverWrites DEF Recover
  <2>3. wk'[v].pc = "claim"
    BY <1>1, <1>15 DEF Recover, WorkerState
  <2>4. wk'[v].wasLeader = TRUE
    BY <1>1, <1>15 DEF Recover, WorkerState
  <2>5. \A j \in Jobs : jobs'[j].status \in Active => jobs'[j].claimedBy = v
    BY <1>1, <2>2 DEF Orphan, Active, OwnedOnceClaimed
  <2>6. LocalInv(v)'
    BY <2>3, <2>4, <2>5, WorkingValues DEF LocalInv, Parked, IsActive
  <2>7. OrderInv' /\ ErrorIffFailed'
    BY <1>2, <2>2 DEF OrderInv, ErrorIffFailed, Orphan, Active
  <2> QED BY <1>14, <2>1, <2>6, <2>7
<1>16. ASSUME NEW v \in Worker, Claim(v) PROVE LeaderInv'
  <2> DEFINE j == wk[v].seen
  <2>1. /\ Lead(v) /\ \A w \in Worker \ {v} : wk'[w] = wk[w]
    BY <1>1, <1>16 DEF Claim, At, Lead, Leading
  <2>2. j \in Jobs /\ ClaimNext(v, j) /\ jobs[j].status = "pending"
    BY <1>1, <1>16 DEF Claim, At, WorkInv, ClaimNext
  <2>3. /\ KeepsRows(Jobs \ {j}) /\ jobs'[j].status = "running"
        /\ jobs'[j].claimedBy = v /\ jobs'[j].error = jobs[j].error
    BY <1>1, <2>2, JobWrites
  <2>4. /\ wk'[v].pc = "readback" /\ wk'[v].job = j /\ wk[v].pc = "claiming"
        /\ wk'[v].wasLeader = wk[v].wasLeader /\ Running(v)
    BY <1>1, <1>16 DEF Claim, At, WorkerState
  <2>5. LocalInv(v)'
    BY <1>2, <2>2, <2>3, <2>4, LeadingValues
    DEF LocalInv, KeepsRows, Parked, IsActive, Active
  <2>6. OrderInv' /\ ErrorIffFailed'
    BY <1>2, <2>2, <2>3 DEF OrderInv, ErrorIffFailed, KeepsRows
  <2> QED BY <1>14, <2>1, <2>5, <2>6
<1>17. ASSUME NEW v \in Worker, Ask(v) PROVE LeaderInv'
  <2> DEFINE j == wk[v].job
  <2>1. /\ Lead(v) /\ \A w \in Worker \ {v} : wk'[w] = wk[w]
    BY <1>1, <1>17 DEF Ask, At, Goto, Lead, Leading, Renewing
  <2>2. j \in Jobs /\ jobs[j].status \in Active /\ SetAwaiting(j, asked[j] + 1)
    BY <1>1, <1>2, <1>17, WorkingValues DEF Ask, At, WorkInv, LocalInv, IsActive
  <2>3. asked'[j] = asked[j] + 1
    BY <1>1, <1>17, <2>2 DEF Ask
  <2>4. /\ KeepsRows(Jobs \ {j}) /\ jobs'[j].status = "awaiting_decision"
        /\ jobs'[j].pending = asked[j] + 1
        /\ jobs'[j].claimedBy = jobs[j].claimedBy /\ jobs'[j].error = jobs[j].error
    BY <1>1, <2>2 DEF SetAwaiting, KeepsRows, StoreTypeOK, Row
  <2>5. /\ wk'[v].pc = "take" /\ wk'[v].job = j /\ wk[v].pc = "asking"
        /\ wk'[v].wasLeader = wk[v].wasLeader /\ Running(v)
    BY <1>1, <1>17 DEF Ask, At, Goto, WorkerState
  <2>6. LocalInv(v)'
    BY <1>2, <2>2, <2>4, <2>5, <2>3, LeadingValues
    DEF LocalInv, KeepsRows, IsActive, Active
  <2>7. OrderInv' /\ ErrorIffFailed'
    BY <1>2, <2>2, <2>4 DEF OrderInv, ErrorIffFailed, KeepsRows, Active
  <2> QED BY <1>14, <2>1, <2>6, <2>7
<1>18. ASSUME NEW v \in Worker, TakeAnswer(v) PROVE LeaderInv'
  <2> DEFINE j == wk[v].job
  <2>1. /\ Lead(v) /\ \A w \in Worker \ {v} : wk'[w] = wk[w]
    BY <1>1, <1>18, LeadingValues DEF TakeAnswer, At, Goto, Lead
  <2>2. j \in Jobs /\ jobs[j].status \in Active /\ TakeDecision(j)
    BY <1>1, <1>2, <1>18, WorkingValues DEF TakeAnswer, At, WorkInv, LocalInv, IsActive
  <2>3. /\ KeepsRows(Jobs \ {j}) /\ jobs'[j].status = "running"
        /\ jobs'[j].claimedBy = jobs[j].claimedBy /\ jobs'[j].error = jobs[j].error
    BY <1>1, <2>2, JobWrites
  <2>4. /\ wk'[v].pc = "import" /\ wk'[v].job = j /\ wk[v].pc = "take"
        /\ wk'[v].wasLeader = wk[v].wasLeader /\ Running(v)
    BY <1>1, <1>18 DEF TakeAnswer, At, Goto, WorkerState
  <2>5. LocalInv(v)'
    BY <1>2, <2>2, <2>3, <2>4, LeadingValues
    DEF LocalInv, KeepsRows, Parked, IsActive, Active
  <2>6. OrderInv' /\ ErrorIffFailed'
    BY <1>2, <2>2, <2>3 DEF OrderInv, ErrorIffFailed, KeepsRows, Active
  <2> QED BY <1>14, <2>1, <2>5, <2>6
<1>19. ASSUME NEW v \in Worker, Finalize(v) PROVE LeaderInv'
  <2> DEFINE j == wk[v].job
             e == IF wk[v].verdict = "failed" THEN "failure" ELSE "null"
  <2>1. /\ Lead(v) /\ \A w \in Worker \ {v} : wk'[w] = wk[w]
    BY <1>1, <1>19, LeadingValues DEF Finalize, LeaveJob, At, Lead
  <2>2. /\ j \in Jobs /\ jobs[j].status \in Active /\ SetStatus(j, wk[v].verdict, e)
        /\ wk[v].verdict \in Terminal
    BY <1>1, <1>2, <1>19, WorkingValues DEF Finalize, At, WorkInv, LocalInv, IsActive
  <2>3. /\ KeepsRows(Jobs \ {j}) /\ jobs'[j].status = wk[v].verdict
        /\ jobs'[j].error = IF e = "null" THEN jobs[j].error ELSE e
    <3> HIDE DEF e
    <3> QED BY <1>1, <2>2, JobWrites, Zenon
  <2>4. /\ wk'[v].pc = "cycle" /\ wk'[v].wasLeader = wk[v].wasLeader
        /\ wk[v].pc = "finalize" /\ Running(v)
    BY <1>1, <1>19 DEF Finalize, LeaveJob, At, WorkerState
  <2>5. LocalInv(v)'
    BY <1>2, <2>2, <2>3, <2>4, LeadingValues, WorkingValues
    DEF LocalInv, KeepsRows, Parked, IsActive, Active, Terminal
  <2>6. jobs'[j].error # "null" <=> jobs'[j].status = "failed"
    BY <1>2, <2>2, <2>3 DEF ErrorIffFailed, Active
  <2>7. OrderInv' /\ ErrorIffFailed'
    BY <1>2, <2>2, <2>3, <2>6 DEF OrderInv, ErrorIffFailed, KeepsRows, Active, Terminal
  <2> QED BY <1>14, <2>1, <2>5, <2>7
\* The requests.
<1>20. ASSUME NEW j \in Jobs, Create(j), UNCHANGED <<wk, asked>> PROVE LeaderInv'
  <2>1. /\ KeepsRows(Jobs \ {j}) /\ jobs'[j].status = "pending"
        /\ jobs'[j].error = jobs[j].error
    <3>1. CASE \E w \in Worker : TRUE
      BY <1>1, <1>20, <3>1, JobWrites
    <3> QED BY <1>1, <1>20 DEF StoreTypeOK, Create, KeepsRows, Row
  <2>2. /\ jobs[j].status = "absent"
        /\ \A k \in Jobs : k < j => jobs[k].status # "absent"
        /\ \A k \in Jobs : k > j => jobs[k].status = "absent"
    BY <1>2, <1>20 DEF Create, OrderInv, Jobs
  <2>3. OrderInv' /\ ErrorIffFailed'
    BY <1>2, <2>1, <2>2 DEF OrderInv, ErrorIffFailed, KeepsRows, Jobs
  <2>4. ASSUME NEW w \in Worker, Running(w) PROVE LocalInv(w)'
    <3>1. /\ wk[w].pc \in Working => wk[w].job \in Jobs
          /\ wk[w].pc = "claiming" => wk[w].seen \in Jobs
          /\ wk[w].pc \in Parked => wk[w].pc \in Working
      BY <1>1 DEF WorkInv, Working, Renewing
    <3>2. LocalInv(w)
      BY <1>2, <2>4
    <3>3. wk[w].pc = "claiming" => OldestPending(wk[w].seen)'
      BY <1>20, <2>1, <2>2, <3>1, <3>2 DEF LocalInv, OldestPending, KeepsRows, Jobs
    <3> QED BY <1>20, <2>1, <2>2, <3>1, <3>2, <3>3
            DEF LocalInv, KeepsRows, IsActive, Active
  <2>5. ASSUME NEW w \in Worker PROVE Local(w)
    BY <1>20, <2>4 DEF Running
  <2> QED BY <1>3, <2>3, <2>5
<1>21. ASSUME NEW j \in Jobs, Answer(j) \/ Abort(j) PROVE LeaderInv'
  <2>1. KeepsRows(Jobs)
    BY <1>1, <1>21, RequestWrites DEF Answer, Abort
  <2> QED BY <1>5, <1>21, <2>1 DEF Answer, Abort
<1>22. LeaseExpires \/ (\E w \in Worker : Renew(w)) \/ UNCHANGED vars => LeaderInv'
  BY <1>4, <1>5 DEF LeaseExpires, Renew, vars
<1>23. SubmitJob => UNCHANGED <<wk, asked>> /\ \E j \in Jobs : Create(j)
  BY DEF SubmitJob
<1> QED
  BY <1>7, <1>9, <1>10, <1>11, <1>12, <1>13, <1>15, <1>16, <1>17, <1>18, <1>19,
     <1>20, <1>21, <1>22, <1>23
  DEF Next, WorkerStep, Cycle, Import, Finish

-----------------------------------------------------------------------------
(* The properties.                                                         *)

LeadershipInv == IInv /\ ElectionInv /\ LeaderInv

LEMMA LeadershipInductive ==
    ASSUME Exclusive
    PROVE  Spec => []LeadershipInv
<1>1. Init => ElectionInv /\ LeaderInv
  BY InitElection, WorkingValues
  DEF Init, StoreInit, NoRow, NewProcess, LeaderInv, OrderInv, ErrorIffFailed, Running
<1>2. IInv /\ ElectionInv /\ LeaderInv /\ [Next]_vars => ElectionInv' /\ LeaderInv'
  BY ElectsOne, StepElection, StepLeader DEF IInv, ElectionInv
<1> QED BY <1>1, <1>2, Inductive, PTL DEF Spec, LeadershipInv

\* A leader that is past its recovery owns every running or awaiting job: what
\* its dead predecessors left has been failed before it claims anything.
THEOREM LeadersHaveRecovered ==
    ASSUME Exclusive
    PROVE  Spec => []LeaderHasRecovered
<1>1. LeadershipInv => LeaderHasRecovered
  BY DEF LeadershipInv, LeaderInv, LocalInv, LeaderHasRecovered
<1> QED BY <1>1, LeadershipInductive, PTL

\* While an import is parked, its job's row shows the request it is parked on.
THEOREM ParkedImportsShowTheirPrompt ==
    ASSUME Exclusive
    PROVE  Spec => []ParkedOnItsPrompt
<1>1. LeadershipInv => ParkedOnItsPrompt
  <2> SUFFICES ASSUME LeadershipInv, NEW w \in Worker, Running(w), wk[w].pc \in Parked
               PROVE  /\ jobs[wk[w].job].claimedBy = w
                      /\ jobs[wk[w].job].status = "awaiting_decision"
                      /\ jobs[wk[w].job].pending = asked[wk[w].job]
    BY DEF ParkedOnItsPrompt
  <2>1. wk[w].job # NoJob
    BY Values, WorkingValues
    DEF LeadershipInv, IInv, TypeInv, WorkInv, Working, Renewing
  <2> QED BY <2>1 DEF LeadershipInv, IInv, HandsInv, LeaderInv, LocalInv
<1> QED BY <1>1, LeadershipInductive, PTL

\* A job carries an error exactly if it failed.
THEOREM ErrorsAreFailures ==
    ASSUME Exclusive
    PROVE  Spec => []ErrorIffFailed
<1>1. LeadershipInv => ErrorIffFailed
  BY DEF LeadershipInv, LeaderInv
<1> QED BY <1>1, LeadershipInductive, PTL

=============================================================================

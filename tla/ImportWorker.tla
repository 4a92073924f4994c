------------------------------ MODULE ImportWorker ------------------------------
(***************************************************************************)
(* The leader-elected import worker (core/import_worker.py) over the       *)
(* shared store, together with the request handlers that submit, answer    *)
(* and abort jobs.                                                         *)
(*                                                                         *)
(* A member of Worker is one server process: the worker id is minted when  *)
(* the process starts, so a restarted server is another member.  wk[w] is  *)
(* the process's local state; wk[w].pc is the store call or the wait its   *)
(* event loop has reached:                                                 *)
(*                                                                         *)
(*   cycle      about to acquire or renew the lease                        *)
(*   recover    elected, about to fail the orphans                         *)
(*   claim      about to select the oldest pending job                     *)
(*   claiming   selected it, about to claim it                             *)
(*   readback   claimed, about to read the claimed row                     *)
(*   dispatch   entering to_thread.run_sync: a cancellation checkpoint,    *)
(*              then the wait for library_write_limiter                    *)
(*   import     the beets pipeline runs in its thread                      *)
(*   asking     a choice saw no abort flag, about to publish its request   *)
(*   take, abortcheck, napping   the decision bridge's polling loop        *)
(*   wrapup     the import returned; about to read the abort flag          *)
(*   finalize   about to write the terminal status                         *)
(*   retrying   sleeping before the next attempt at that                   *)
(*   asleep     sleeping before the next cycle                             *)
(*                                                                         *)
(* A graceful shutdown cancels the worker's scope.  Store calls are        *)
(* shielded and a running thread is waited for, so a stopping process      *)
(* keeps taking steps until it reaches a sleep or the checkpoint of        *)
(* dispatch, where the cancellation lands; its renewal task dies at once.  *)
(*                                                                         *)
(* Left to other modules or abstracted: what the import does to the beets  *)
(* library, the output column, and the clean slate around it.              *)
(***************************************************************************)
EXTENDS ImportStore

CONSTANTS
    FinalizeAttempts,  \* _FINALIZE_ATTEMPTS
    MaxFaults,         \* bound: how many store calls fail
    FaultPoints,       \* the calls that may fail, a subset of the pc values
    Overlap,           \* may a process start while another one still runs?
    GracefulStop,      \* may a process be asked to stop?
    Stalls             \* may a lease lapse under a process that renews it?

ASSUME WorkerAssumption ==
    /\ FinalizeAttempts \in Nat \ {0}
    /\ MaxFaults \in Nat
    /\ Overlap \in BOOLEAN
    /\ GracefulStop \in BOOLEAN
    /\ Stalls \in BOOLEAN

VARIABLES
    wk,       \* wk[w]: the local state of process w
    asked,    \* asked[j]: how many decision requests job j has published
    faults    \* how many store calls have failed

vars == <<jobs, lock, wk, asked, faults>>

NoJob == 0

Parked == {"take", "abortcheck", "napping"}

\* While these hold, run_job's task group and its renewal task are alive.
Renewing == {"dispatch", "import", "asking"} \cup Parked

\* Where a process is between winning the lease and its next acquire.
Leading == {"recover", "claim", "claiming", "readback", "wrapup", "finalize",
            "retrying"} \cup Renewing

PC == {"cycle", "asleep"} \cup Leading

\* What run_job is going to write: nothing yet, or a terminal status.
Verdict == {"none"} \cup Terminal

WorkerState == [proc      : {"new", "up", "stopping", "dead"},
                pc        : PC,
                wasLeader : BOOLEAN,
                seen      : Jobs \cup {NoJob},
                job       : Jobs \cup {NoJob},
                verdict   : Verdict,
                attempts  : 0..(FinalizeAttempts - 1)]

TypeOK == /\ StoreTypeOK
          /\ wk \in [Worker -> WorkerState]
          /\ asked \in [Jobs -> 0..MaxRequests]
          /\ faults \in 0..MaxFaults

NewProcess == [proc |-> "new", pc |-> "cycle", wasLeader |-> FALSE,
               seen |-> NoJob, job |-> NoJob, verdict |-> "none", attempts |-> 0]

Init == /\ StoreInit
        /\ wk = [w \in Worker |-> NewProcess]
        /\ asked = [j \in Jobs |-> 0]
        /\ faults = 0

-----------------------------------------------------------------------------
(* Processes.                                                              *)

Running(w) == wk[w].proc \in {"up", "stopping"}

At(w, p) == Running(w) /\ wk[w].pc = p

Goto(w, p) == wk' = [wk EXCEPT ![w].pc = p]

\* A store call at p raises before its commit.
Fault(p) == /\ p \in FaultPoints
            /\ faults < MaxFaults
            /\ faults' = faults + 1

\* Bound: the last process that can be started is never stopped.
Replaceable == \E v \in Worker : wk[v].proc = "new"

\* The server starts; run() ensures the lock row before its first cycle.
Boot(w) ==
    /\ wk[w].proc = "new"
    /\ Overlap \/ \A v \in Worker : ~Running(v)
    /\ wk' = [wk EXCEPT ![w].proc = "up"]
    /\ EnsureLockRow
    /\ UNCHANGED <<jobs, asked, faults>>

\* The process is killed.
Crash(w) ==
    /\ Running(w)
    /\ Replaceable
    /\ wk' = [wk EXCEPT ![w].proc = "dead"]
    /\ UNCHANGED <<jobs, lock, asked, faults>>

\* The lifespan ends: the task group that runs the worker is cancelled.
Shutdown(w) ==
    /\ GracefulStop
    /\ wk[w].proc = "up"
    /\ Replaceable
    /\ wk' = [wk EXCEPT ![w].proc = "stopping"]
    /\ UNCHANGED <<jobs, lock, asked, faults>>

\* The cancellation is delivered and the process exits.
CutOff(w) ==
    /\ wk[w].proc = "stopping"
    /\ wk[w].pc \in {"asleep", "retrying", "dispatch"}
    /\ wk' = [wk EXCEPT ![w].proc = "dead"]
    /\ UNCHANGED <<jobs, lock, asked, faults>>

Unrenewed(w) == \/ ~Running(w)
                \/ wk[w].proc = "stopping" /\ wk[w].pc = "import"
                \/ Stalls

LeaseExpires ==
    /\ lock.holder # NoWorker
    /\ Unrenewed(lock.holder)
    /\ lock' = [lock EXCEPT !.expired = TRUE]
    /\ UNCHANGED <<jobs, wk, asked, faults>>

-----------------------------------------------------------------------------
(* One cycle of the leader loop, up to the start of an import.             *)

WakeUp(w) ==
    /\ wk[w].proc = "up"
    /\ \/ wk[w].pc = "asleep" /\ Goto(w, "cycle")
       \/ wk[w].pc = "retrying" /\ Goto(w, "finalize")
    /\ UNCHANGED <<jobs, lock, asked, faults>>

WinLease_Bug(w) ==
    /\ At(w, "cycle")
    /\ AcquireLock(w)
    /\ wk' = [wk EXCEPT ![w].wasLeader = TRUE,
                        ![w].pc = IF wk[w].wasLeader THEN "claim" ELSE "recover"]
    /\ UNCHANGED <<jobs, asked, faults>>

WinLease(w) ==
    /\ At(w, "cycle")
    /\ AcquireLock(w)
    /\ Goto(w, IF wk[w].wasLeader THEN "claim" ELSE "recover")
    /\ UNCHANGED <<jobs, asked, faults>>

LoseLease(w) ==
    /\ At(w, "cycle")
    /\ ~Acquirable(w)
    /\ wk' = [wk EXCEPT ![w].pc = "asleep", ![w].wasLeader = FALSE]
    /\ UNCHANGED <<jobs, lock, asked, faults>>

Recover(w) ==
    /\ At(w, "recover")
    /\ RecoverOrphans(w)
    /\ wk' = [wk EXCEPT ![w].pc = "claim", ![w].wasLeader = TRUE]
    /\ UNCHANGED <<lock, asked, faults>>

FindOldest(w) ==
    /\ At(w, "claim")
    /\ \E j \in Jobs :
          /\ OldestPending(j)
          /\ wk' = [wk EXCEPT ![w].pc = "claiming", ![w].seen = j]
    /\ UNCHANGED <<jobs, lock, asked, faults>>

NothingToClaim(w) ==
    /\ At(w, "claim")
    /\ \A j \in Jobs : jobs[j].status # "pending"
    /\ Goto(w, "asleep")
    /\ UNCHANGED <<jobs, lock, asked, faults>>

Claim(w) ==
    /\ At(w, "claiming")
    /\ ClaimNext(w, wk[w].seen)
    /\ wk' = [wk EXCEPT ![w].pc = "readback",
                        ![w].job = wk[w].seen,
                        ![w].seen = NoJob]
    /\ UNCHANGED <<lock, asked, faults>>

\* Another process has claimed the job that was selected.
ClaimLost(w) ==
    /\ At(w, "claiming")
    /\ jobs[wk[w].seen].status # "pending"
    /\ wk' = [wk EXCEPT ![w].pc = "asleep", ![w].seen = NoJob]
    /\ UNCHANGED <<jobs, lock, asked, faults>>

ReadBack(w) ==
    /\ At(w, "readback")
    /\ Goto(w, "dispatch")
    /\ UNCHANGED <<jobs, lock, asked, faults>>

\* An exception of a store call ends the cycle; run() logs it and sleeps.
CycleFails(w) ==
    /\ \E p \in {"cycle", "recover", "claim", "claiming", "readback"} :
          At(w, p) /\ Fault(p)
    /\ wk' = [wk EXCEPT ![w].pc = "asleep", ![w].seen = NoJob, ![w].job = NoJob]
    /\ UNCHANGED <<jobs, lock, asked>>

StartImport(w) ==
    /\ wk[w].proc = "up"
    /\ wk[w].pc = "dispatch"
    /\ Goto(w, "import")
    /\ UNCHANGED <<jobs, lock, asked, faults>>

\* The renewal task ignores whether it still had the lease.
Renew(w) ==
    /\ wk[w].proc = "up"
    /\ wk[w].pc \in Renewing
    /\ AcquireLock(w)
    /\ UNCHANGED <<jobs, wk, asked, faults>>

-----------------------------------------------------------------------------
(* The import: the session's choices and the decision bridge.              *)

\* Bound: an import has MaxRequests choices to ask for.
Undecided(j) == asked[j] < MaxRequests

\* A choice on an aborted job is SKIP without asking, and a quiet session
\* decides alone: neither changes any state here.
Choose(w) ==
    /\ At(w, "import")
    /\ ~jobs[wk[w].job].abort
    /\ Undecided(wk[w].job)
    /\ Goto(w, "asking")
    /\ UNCHANGED <<jobs, lock, asked, faults>>

Ask(w) ==
    LET j == wk[w].job IN
    /\ At(w, "asking")
    /\ Undecided(j)
    /\ asked' = [asked EXCEPT ![j] = @ + 1]
    /\ SetAwaiting(j, asked[j] + 1)
    /\ Goto(w, "take")
    /\ UNCHANGED <<lock, faults>>

TakeAnswer(w) ==
    /\ At(w, "take")
    /\ TakeDecision(wk[w].job)
    /\ Goto(w, "import")
    /\ UNCHANGED <<lock, asked, faults>>

NoAnswerYet(w) ==
    /\ At(w, "take")
    /\ jobs[wk[w].job].submitted = NoRequest
    /\ Goto(w, "abortcheck")
    /\ UNCHANGED <<jobs, lock, asked, faults>>

CheckAbort_Bug(w) ==
    /\ At(w, "abortcheck")
    /\ Goto(w, "napping")
    /\ UNCHANGED <<jobs, lock, asked, faults>>

\* An abort unparks the pipeline with SKIP; the row keeps its prompt.
CheckAbort(w) ==
    /\ At(w, "abortcheck")
    /\ Goto(w, IF jobs[wk[w].job].abort THEN "import" ELSE "napping")
    /\ UNCHANGED <<jobs, lock, asked, faults>>

PollAgain(w) ==
    /\ wk[w].proc = "up"
    /\ wk[w].pc = "napping"
    /\ Goto(w, "take")
    /\ UNCHANGED <<jobs, lock, asked, faults>>

ImportReturns(w) ==
    /\ At(w, "import")
    /\ Goto(w, "wrapup")
    /\ UNCHANGED <<jobs, lock, asked, faults>>

\* The pipeline raises: of itself, because a store call of the bridge did,
\* or because a shutdown cancelled the bridge in its sleep.
ImportRaises(w) ==
    /\ \/ At(w, "import") /\ UNCHANGED faults
       \/ \E p \in {"asking", "take", "abortcheck"} : At(w, p) /\ Fault(p)
       \/ wk[w].proc = "stopping" /\ wk[w].pc = "napping" /\ UNCHANGED faults
    /\ wk' = [wk EXCEPT ![w].pc = "finalize", ![w].verdict = "failed"]
    /\ UNCHANGED <<jobs, lock, asked>>

-----------------------------------------------------------------------------
(* After the import: the terminal status and its retries.                  *)

WrapUp_Bug(w) ==
    /\ At(w, "wrapup")
    /\ wk' = [wk EXCEPT ![w].pc = "finalize",
                        ![w].verdict = IF \/ jobs[wk[w].job].abort
                                          \/ wk[w].proc = "stopping"
                                       THEN "aborted" ELSE "completed"]
    /\ UNCHANGED <<jobs, lock, asked, faults>>

WrapUp(w) ==
    /\ At(w, "wrapup")
    /\ \/ /\ wk' = [wk EXCEPT ![w].pc = "finalize",
                              ![w].verdict = IF jobs[wk[w].job].abort
                                             THEN "aborted" ELSE "completed"]
          /\ UNCHANGED faults
       \/ /\ Fault("wrapup")
          /\ wk' = [wk EXCEPT ![w].pc = "finalize", ![w].verdict = "failed"]
    /\ UNCHANGED <<jobs, lock, asked>>

\* run_job is over, and the next cycle starts without a sleep.
LeaveJob(w) == wk' = [wk EXCEPT ![w].pc = "cycle",
                                ![w].job = NoJob,
                                ![w].verdict = "none",
                                ![w].attempts = 0]

Finalize(w) ==
    /\ At(w, "finalize")
    /\ SetStatus(wk[w].job, wk[w].verdict,
                 IF wk[w].verdict = "failed" THEN "failure" ELSE "null")
    /\ LeaveJob(w)
    /\ UNCHANGED <<lock, asked, faults>>

FinalizeNeverRetries_Bug(w) ==
    /\ At(w, "finalize")
    /\ Fault("finalize")
    /\ LeaveJob(w)
    /\ UNCHANGED <<jobs, lock, asked>>

FinalizeOneTooMany_Bug(w) ==
    /\ At(w, "finalize")
    /\ Fault("finalize")
    /\ IF wk[w].attempts < FinalizeAttempts
       THEN wk' = [wk EXCEPT ![w].pc = "retrying", ![w].attempts = @ + 1]
       ELSE LeaveJob(w)
    /\ UNCHANGED <<jobs, lock, asked>>

FinalizeFails(w) ==
    /\ At(w, "finalize")
    /\ Fault("finalize")
    /\ IF wk[w].attempts + 1 < FinalizeAttempts
       THEN wk' = [wk EXCEPT ![w].pc = "retrying", ![w].attempts = @ + 1]
       ELSE LeaveJob(w)
    /\ UNCHANGED <<jobs, lock, asked>>

-----------------------------------------------------------------------------
(* Requests of the UI and of API clients, served by any process.           *)

\* A process that is stopping has already closed its connections.
Served == \E w \in Worker : wk[w].proc = "up"

SubmitJob == /\ Served
             /\ \E j \in Jobs : Create(j)
             /\ UNCHANGED <<lock, wk, asked, faults>>

\* A page keeps showing the request it was rendered with, so an answer may
\* be meant for any request the job has published.
Answer(j) == /\ Served
             /\ \E r \in 1..asked[j] : SubmitDecision(j, r)
             /\ UNCHANGED <<lock, wk, asked, faults>>

Abort(j) == /\ Served
            /\ RequestAbort(j)
            /\ UNCHANGED <<lock, wk, asked, faults>>

-----------------------------------------------------------------------------

Cycle(w) == \/ WakeUp(w) \/ WinLease(w) \/ LoseLease(w) \/ Recover(w)
            \/ FindOldest(w) \/ NothingToClaim(w) \/ Claim(w) \/ ClaimLost(w)
            \/ ReadBack(w) \/ CycleFails(w) \/ StartImport(w)

Import(w) == \/ Choose(w) \/ Ask(w) \/ TakeAnswer(w) \/ NoAnswerYet(w)
             \/ CheckAbort(w) \/ PollAgain(w) \/ ImportReturns(w) \/ ImportRaises(w)

Finish(w) == WrapUp(w) \/ Finalize(w) \/ FinalizeFails(w)

WorkerStep(w) == Cycle(w) \/ Import(w) \/ Finish(w) \/ CutOff(w)

Next == \/ \E w \in Worker : \/ Boot(w) \/ Crash(w) \/ Shutdown(w)
                             \/ WorkerStep(w) \/ Renew(w)
        \/ LeaseExpires
        \/ SubmitJob
        \/ \E j \in Jobs : Answer(j) \/ Abort(j)

Spec == Init /\ [][Next]_vars

=============================================================================

------------------------------ MODULE ImportStore ------------------------------
(***************************************************************************)
(* The two tables beetkeeper shares between processes to run imports, and  *)
(* the statements that change them (core/import_store.py):                 *)
(*                                                                         *)
(*   - import_job, one row per submitted import: the variable jobs;        *)
(*   - import_lock, the single row of the leased leader lock: lock.        *)
(*                                                                         *)
(* Every method of ImportStore runs in one short session that cancellation *)
(* cannot cut.  SQLite's driver begins a transaction at the first UPDATE,  *)
(* so a SELECT before it is a step of its own.  That matters in claim_next *)
(* alone, which is cut in three here: OldestPending is what its SELECT     *)
(* picks, ClaimNext its UPDATE, and the row is read back in a session of   *)
(* its own.  take_decision also selects first, but only the process that   *)
(* calls it ever clears the column it looks at.                            *)
(*                                                                         *)
(* Jobs are numbered in the order of their created_at column.  A decision  *)
(* request is the ordinal of the request within its job (the code's        *)
(* task_id), and an answer is the request its author was looking at.       *)
(*                                                                         *)
(* A definition whose name ends in _Bug is not part of the model: it is a  *)
(* slip the definition after it could have had, which makes one of the     *)
(* checked properties fail.                                                *)
(***************************************************************************)
EXTENDS Naturals

CONSTANTS Worker,       \* the worker ids; an id is minted by one process only
          NoWorker,     \* SQL NULL in a worker column
          MaxJobs,      \* bound: how many jobs are ever submitted
          MaxRequests   \* bound: how many decisions one import asks for

ASSUME StoreAssumption == /\ NoWorker \notin Worker
                          /\ MaxJobs \in Nat
                          /\ MaxRequests \in Nat

VARIABLES jobs,   \* jobs[j]: the row of job j
          lock    \* the lock row

storeVars == <<jobs, lock>>

Jobs == 1..MaxJobs

Requests == 1..MaxRequests
NoRequest == 0

Active == {"running", "awaiting_decision"}
Abortable == {"pending"} \cup Active
Terminal == {"completed", "failed", "aborted"}
Status == {"absent"} \cup Abortable \cup Terminal

\* The error column: NULL, the text of the failure, or recovery's fixed text.
ErrorText == {"null", "failure", "interrupted"}

Row == [status    : Status,
        claimedBy : Worker \cup {NoWorker},
        abort     : BOOLEAN,
        pending   : Requests \cup {NoRequest},
        submitted : Requests \cup {NoRequest},
        error     : ErrorText]

\* Before its submission a job has no row: its status is "absent".
NoRow == [status |-> "absent", claimedBy |-> NoWorker, abort |-> FALSE,
          pending |-> NoRequest, submitted |-> NoRequest, error |-> "null"]

\* expired says whether lease_expires_at lies in the past.
LockRow == [exists : BOOLEAN, holder : Worker \cup {NoWorker}, expired : BOOLEAN]

StoreTypeOK == /\ jobs \in [Jobs -> Row]
               /\ lock \in LockRow

StoreInit == /\ jobs = [j \in Jobs |-> NoRow]
             /\ lock = [exists |-> FALSE, holder |-> NoWorker, expired |-> FALSE]

-----------------------------------------------------------------------------
(* Submitting jobs and answering for them: what request handlers call.     *)

\* A job's number is its place by created_at, and by its commit.
Create(j) ==
    /\ jobs[j].status = "absent"
    /\ \A k \in Jobs : k < j => jobs[k].status # "absent"
    /\ jobs' = [jobs EXCEPT ![j].status = "pending"]

CanSubmit(j) == /\ jobs[j].status = "awaiting_decision"
                /\ jobs[j].submitted = NoRequest

SubmitDecision(j, r) ==
    /\ CanSubmit(j)
    /\ jobs' = [jobs EXCEPT ![j].submitted = r]

RequestAbort(j) ==
    /\ jobs[j].status \in Abortable
    /\ jobs' = [jobs EXCEPT ![j].abort = TRUE]

-----------------------------------------------------------------------------
(* The leader lock.                                                        *)

EnsureLockRow_Bug == lock' = [exists |-> TRUE, holder |-> NoWorker, expired |-> FALSE]

EnsureLockRow == lock' = [lock EXCEPT !.exists = TRUE]

Acquirable_Bug(w) == lock.exists

Acquirable(w) == /\ lock.exists
                 /\ \/ lock.holder \in {w, NoWorker}
                    \/ lock.expired

AcquireLock(w) == /\ Acquirable(w)
                  /\ lock' = [lock EXCEPT !.holder = w, !.expired = FALSE]

-----------------------------------------------------------------------------
(* What the worker calls.                                                  *)

OldestPending_Bug(j) == jobs[j].status = "pending"

OldestPending(j) ==
    /\ jobs[j].status = "pending"
    /\ \A k \in Jobs : k < j => jobs[k].status # "pending"

ClaimUnowned_Bug(w, j) ==
    /\ jobs[j].status = "pending"
    /\ jobs' = [jobs EXCEPT ![j].status = "running"]

ClaimTaken_Bug(w, j) ==
    jobs' = [jobs EXCEPT ![j].status = "running", ![j].claimedBy = w]

ClaimNext(w, j) ==
    /\ jobs[j].status = "pending"
    /\ jobs' = [jobs EXCEPT ![j].status = "running", ![j].claimedBy = w]

Orphan_Bug(w, j) == /\ jobs[j].status = "running"
                    /\ jobs[j].claimedBy \notin {w, NoWorker}

\* claimed_by != worker_id is not true of a NULL claimed_by.
Orphan(w, j) == /\ jobs[j].status \in Active
                /\ jobs[j].claimedBy \notin {w, NoWorker}

RecoverRequeues_Bug(w) ==
    jobs' = [j \in Jobs |->
               IF Orphan(w, j)
               THEN [jobs[j] EXCEPT !.status = "pending", !.pending = NoRequest]
               ELSE jobs[j]]

RecoverSilently_Bug(w) ==
    jobs' = [j \in Jobs |->
               IF Orphan(w, j)
               THEN [jobs[j] EXCEPT !.status = "failed", !.pending = NoRequest]
               ELSE jobs[j]]

RecoverOrphans(w) ==
    jobs' = [j \in Jobs |->
               IF Orphan(w, j)
               THEN [jobs[j] EXCEPT !.status = "failed",
                                    !.error = "interrupted",
                                    !.pending = NoRequest]
               ELSE jobs[j]]

SetAwaiting(j, r) ==
    jobs' = [jobs EXCEPT ![j].status = "awaiting_decision",
                         ![j].pending = r,
                         ![j].submitted = NoRequest]

TakeDecision(j) ==
    /\ jobs[j].submitted # NoRequest
    /\ jobs' = [jobs EXCEPT ![j].status = "running",
                            ![j].pending = NoRequest,
                            ![j].submitted = NoRequest]

SetStatus_Bug(j, s, error) ==
    jobs' = [jobs EXCEPT ![j].status = s,
                         ![j].error = IF error = "null" THEN @ ELSE error]

\* error is left as it is when none is given.
SetStatus(j, s, error) ==
    jobs' = [jobs EXCEPT ![j].status = s,
                         ![j].pending = NoRequest,
                         ![j].error = IF error = "null" THEN @ ELSE error]

=============================================================================

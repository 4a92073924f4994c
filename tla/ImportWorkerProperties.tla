------------------------ MODULE ImportWorkerProperties ------------------------
(***************************************************************************)
(* What is checked of the import worker.                                   *)
(***************************************************************************)
EXTENDS ImportWorker

IsActive(j) == jobs[j].status \in Active

Importing(w) == Running(w) /\ wk[w].pc \in {"import", "asking"} \cup Parked

(***************************************************************************)
(* Properties of the rows that survive any interleaving of processes,      *)
(* including two that both believe to be the leader.                       *)
(***************************************************************************)

\* A job shows a prompt exactly while it is awaiting a decision
\* (core/import_jobs.py ImportJob.pending_decision), although four methods
\* write the two columns and none of them looks at the other one.
PromptIffAwaiting ==
    \A j \in Jobs : (jobs[j].pending # NoRequest)
                      <=> (jobs[j].status = "awaiting_decision")

\* No job is running or awaiting without an owner: recover_orphans compares
\* claimed_by in SQL, where NULL never differs from anything, so it could
\* never fail such a job.
ActiveIsClaimed == \A j \in Jobs : IsActive(j) => jobs[j].claimedBy # NoWorker

\* A job ends aborted only if somebody asked for that: the flag run_job read
\* before writing the status is still set when the write lands.
AbortedWasRequested ==
    \A j \in Jobs : jobs[j].status = "aborted" => jobs[j].abort

\* Two live processes never work on one job, even if both think they lead:
\* the claim is conditional on the job being pending, and no step of a stale
\* leader makes a job pending again.
OneOwner ==
    \A v, w \in Worker : /\ v # w
                         /\ Running(v) /\ Running(w)
                         /\ wk[v].job # NoJob
                         => wk[v].job # wk[w].job

\* Once a worker has claimed a job no other one ever claims it: an import
\* that was interrupted is never silently run a second time.
ClaimedOnce ==
    [][\A j \in Jobs : jobs[j].claimedBy # NoWorker
                         => jobs'[j].claimedBy = jobs[j].claimedBy]_vars

(***************************************************************************)
(* Properties of one leader at a time.  They hold when processes do not    *)
(* overlap, and when they do but leases lapse only under dead holders.     *)
(***************************************************************************)

\* At most one import executes (core/import_worker.py:4-5).
AtMostOneImport ==
    \A v, w \in Worker : Importing(v) /\ Importing(w) => v = w

\* Past its recovery, a leader is the owner of every active job: what a dead
\* predecessor left running has been failed before anything is claimed
\* (core/import_store.py recover_orphans).
LeaderHasRecovered ==
    \A w \in Worker : Running(w) /\ wk[w].pc \in Leading \ {"recover"}
                        => \A j \in Jobs : IsActive(j) => jobs[j].claimedBy = w

\* While a pipeline is parked the row of its job shows the very request it
\* is parked on, so that the answer it polls for can still be given.
ParkedOnItsPrompt ==
    \A w \in Worker : Running(w) /\ wk[w].pc \in Parked =>
        LET j == wk[w].job IN
        /\ jobs[j].claimedBy = w
        /\ jobs[j].status = "awaiting_decision"
        /\ jobs[j].pending = asked[j]

\* A job carries an error exactly if it failed (core/import_jobs.py:215).
ErrorIffFailed ==
    \A j \in Jobs : (jobs[j].error # "null") <=> (jobs[j].status = "failed")

\* A job that a live process claimed is in that process's hands: claimed_by
\* is "the worker id currently running it" (db/models.py:134).
ClaimIsHeld ==
    \A w \in Worker, j \in Jobs :
        Running(w) /\ IsActive(j) /\ jobs[j].claimedBy = w => wk[w].job = j

\* The jobs in the hands of live processes.
Held == {wk[w].job : w \in {v \in Worker : Running(v)}} \ {NoJob}

Serial == INSTANCE SerialImports WITH status <- [j \in Jobs |-> jobs[j].status],
                                      held <- Held

\* Seen by a client, the worker is an instance of SerialImports: one job at a
\* time, in the order of submission, each ended once and for all, whatever
\* crashes, restarts and failing store calls do in between.
ImplementsSerialImports == Serial!Spec

(***************************************************************************)
(* What the documentation says and the code does not do: each of these is  *)
(* violated by a reachable state, or step, of the worker as it is.         *)
(***************************************************************************)

\* "the matching ImportDecision unblocks it" (core/import_jobs.py:105): the
\* answer waiting to be consumed is meant for the request on display.
AnswerMatchesPrompt ==
    \A j \in Jobs : /\ jobs[j].status = "awaiting_decision"
                    /\ jobs[j].submitted # NoRequest
                    => jobs[j].submitted = jobs[j].pending

(***************************************************************************)
(* Liveness.  The fairness is that of the runtime: the event loop takes    *)
(* the steps it can take (the beets thread among them: an import ends once *)
(* its choices are made), a server that is down is started again, and time *)
(* passes.  Nothing is assumed of the users, nor of crashes.               *)
(***************************************************************************)

Fairness == /\ \A w \in Worker : WF_vars(WorkerStep(w))
            /\ WF_vars(\E w \in Worker : Boot(w))
            /\ WF_vars(LeaseExpires)

FairSpec == Spec /\ Fairness

NeedsUser(j) == /\ jobs[j].status = "awaiting_decision"
                /\ jobs[j].submitted = NoRequest
                /\ ~jobs[j].abort

UsersRespond == \A j \in Jobs : []<>~NeedsUser(j)

\* If users always get around to answering or aborting, every job ends: no
\* crash, restart, lapse or failing store call strands it, queued or active.
EveryJobEnds ==
    UsersRespond =>
        \A j \in Jobs : (jobs[j].status = "pending") ~> (jobs[j].status \in Terminal)

\* Aborting an active job ends it, even if nobody answers its prompt.
AbortEndsActiveJob ==
    \A j \in Jobs : (IsActive(j) /\ jobs[j].abort) ~> (jobs[j].status \in Terminal)

=============================================================================

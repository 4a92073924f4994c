------------------------------ MODULE OutputStream ------------------------------
(***************************************************************************)
(* How the output of one running job reaches its row (core/import_worker.py *)
(* _OutputBuffer, _flush_output_until_cancelled, _run_job, _finalize_job). *)
(*                                                                         *)
(* Threads of the beets pipeline append lines to a buffer in memory; a     *)
(* flush task copies the whole text to the row every second if the buffer  *)
(* has a new version; and once the import is over _run_job cancels that    *)
(* task, waits for it, adds a last line and writes text and terminal       *)
(* status itself.  Lines are only ever appended, so that a text is told by *)
(* its number of lines.                                                    *)
(*                                                                         *)
(* The process may be told to stop, or be killed; a later leader then      *)
(* fails the job (ImportStore RecoverOrphans) and leaves its output alone. *)
(***************************************************************************)
EXTENDS Naturals

CONSTANTS MaxVersion,        \* bound: how many times the pipeline appends
          MaxFaults,         \* bound: how many writes to the row fail
          FinalizeAttempts,  \* _FINALIZE_ATTEMPTS
          Watched            \* the lines whose way to the row is followed

ASSUME StreamAssumption == /\ MaxVersion \in Nat
                           /\ MaxFaults \in Nat
                           /\ FinalizeAttempts \in Nat \ {0}

VARIABLES lines,    \* how many lines the buffer holds
          version,  \* the buffer's version
          flush,    \* the flush task
          run,      \* where _run_job is
          row,      \* the job's row
          faults    \* how many writes have failed

vars == <<lines, version, flush, run, row, faults>>

\* last is the version flushed before, one higher than in the code (-1).
Flush == [pc      : {"asleep", "writing", "gone"},
          version : Nat,
          text    : Nat,
          last    : Nat]

\* importing  the pipeline runs in its thread
\* closing    the task group is cancelled and waits for its tasks
\* output, status   about to write the one or the other
\* retrying   sleeping before the next attempt
\* over       written, or given up; exited: the process is gone
Run == [pc       : {"importing", "closing", "output", "status", "retrying",
                    "over", "exited"},
        stopping : BOOLEAN,
        attempts : 0..(FinalizeAttempts - 1)]

Row == [output : Nat, status : {"active", "ended", "interrupted"}]

TypeOK == /\ lines \in Nat
          /\ version \in 0..MaxVersion
          /\ flush \in Flush
          /\ run \in Run
          /\ row \in Row
          /\ faults \in 0..MaxFaults

Init == /\ lines = 0
        /\ version = 0
        /\ flush = [pc |-> "asleep", version |-> 0, text |-> 0, last |-> 0]
        /\ run = [pc |-> "importing", stopping |-> FALSE, attempts |-> 0]
        /\ row = [output |-> 0, status |-> "active"]
        /\ faults = 0

Fails == /\ faults < MaxFaults
         /\ faults' = faults + 1

-----------------------------------------------------------------------------
(* The pipeline: one line at a time, or a list of lines that may be empty. *)

AppendLines(k) ==
    /\ run.pc = "importing"
    /\ version < MaxVersion
    /\ lines' = lines + k
    /\ version' = version + 1
    /\ UNCHANGED <<flush, run, row, faults>>

ImportEnds ==
    /\ run.pc = "importing"
    /\ run' = [run EXCEPT !.pc = "closing"]
    /\ UNCHANGED <<lines, version, flush, row, faults>>

-----------------------------------------------------------------------------
(* The flush task.                                                         *)

Cancelled == run.stopping \/ run.pc # "importing"

Alive == run.pc # "exited"

Snapshot ==
    /\ ~Cancelled
    /\ flush.pc = "asleep"
    /\ version + 1 # flush.last
    /\ flush' = [flush EXCEPT !.pc = "writing",
                              !.version = version + 1,
                              !.text = lines]
    /\ UNCHANGED <<lines, version, run, row, faults>>

\* The write is shielded: a cancellation does not stop it.
FlushWrites ==
    /\ Alive
    /\ flush.pc = "writing"
    /\ row' = [row EXCEPT !.output = flush.text]
    /\ flush' = [flush EXCEPT !.pc = "asleep", !.last = flush.version]
    /\ UNCHANGED <<lines, version, run, faults>>

FlushFails_Bug ==
    /\ Alive
    /\ flush.pc = "writing"
    /\ Fails
    /\ flush' = [flush EXCEPT !.pc = "asleep", !.last = flush.version]
    /\ UNCHANGED <<lines, version, run, row>>

FlushFails ==
    /\ Alive
    /\ flush.pc = "writing"
    /\ Fails
    /\ flush' = [flush EXCEPT !.pc = "asleep"]
    /\ UNCHANGED <<lines, version, run, row>>

FlushEnds ==
    /\ Alive
    /\ Cancelled
    /\ flush.pc = "asleep"
    /\ flush' = [flush EXCEPT !.pc = "gone"]
    /\ UNCHANGED <<lines, version, run, row, faults>>

-----------------------------------------------------------------------------
(* The end of the job.                                                     *)

CloseGroup_Bug ==
    /\ run.pc = "closing"
    /\ lines' = lines + 1
    /\ run' = [run EXCEPT !.pc = "output"]
    /\ UNCHANGED <<version, flush, row, faults>>

\* The group is left when its tasks have ended; the last line says how the
\* import went.  Nothing looks at the version any more.
CloseGroup ==
    /\ run.pc = "closing"
    /\ flush.pc = "gone"
    /\ lines' = lines + 1
    /\ run' = [run EXCEPT !.pc = "output"]
    /\ UNCHANGED <<version, flush, row, faults>>

WriteOutput_Bug ==
    /\ run.pc = "output"
    /\ run' = [run EXCEPT !.pc = "status"]
    /\ \/ /\ row' = [row EXCEPT !.output = lines]
          /\ UNCHANGED faults
       \/ /\ Fails
          /\ UNCHANGED row
    /\ UNCHANGED <<lines, version, flush>>

WriteOutput ==
    /\ run.pc = "output"
    /\ row' = [row EXCEPT !.output = lines]
    /\ run' = [run EXCEPT !.pc = "status"]
    /\ UNCHANGED <<lines, version, flush, faults>>

WriteStatus ==
    /\ run.pc = "status"
    /\ row' = [row EXCEPT !.status = "ended"]
    /\ run' = [run EXCEPT !.pc = "over"]
    /\ UNCHANGED <<lines, version, flush, faults>>

FinalizeOneTooMany_Bug ==
    /\ run.pc \in {"output", "status"}
    /\ Fails
    /\ IF run.attempts < FinalizeAttempts
       THEN run' = [run EXCEPT !.pc = "retrying", !.attempts = @ + 1]
       ELSE run' = [run EXCEPT !.pc = "over"]
    /\ UNCHANGED <<lines, version, flush, row>>

\* Whichever write fails, both are repeated, unless that was the last attempt.
FinalizeFails ==
    /\ run.pc \in {"output", "status"}
    /\ Fails
    /\ IF run.attempts + 1 < FinalizeAttempts
       THEN run' = [run EXCEPT !.pc = "retrying", !.attempts = @ + 1]
       ELSE run' = [run EXCEPT !.pc = "over"]
    /\ UNCHANGED <<lines, version, flush, row>>

Retry ==
    /\ run.pc = "retrying"
    /\ ~run.stopping
    /\ run' = [run EXCEPT !.pc = "output"]
    /\ UNCHANGED <<lines, version, flush, row, faults>>

-----------------------------------------------------------------------------
(* The process and its successor.                                          *)

Shutdown ==
    /\ Alive
    /\ ~run.stopping
    /\ run' = [run EXCEPT !.stopping = TRUE]
    /\ UNCHANGED <<lines, version, flush, row, faults>>

\* Killed, or cancelled in the sleep before another attempt, or at leisure.
Exit ==
    /\ Alive
    /\ run' = [run EXCEPT !.pc = "exited"]
    /\ UNCHANGED <<lines, version, flush, row, faults>>

Recover ==
    /\ run.pc = "exited"
    /\ row.status = "active"
    /\ row' = [row EXCEPT !.status = "interrupted"]
    /\ UNCHANGED <<lines, version, flush, run, faults>>

FlushStep == Snapshot \/ FlushWrites \/ FlushFails \/ FlushEnds

FinishStep == CloseGroup \/ WriteOutput \/ WriteStatus \/ FinalizeFails \/ Retry

Next == \/ \E k \in 0..2 : AppendLines(k)
        \/ ImportEnds
        \/ FlushStep
        \/ FinishStep
        \/ Shutdown \/ Exit \/ Recover

Spec == Init /\ [][Next]_vars

\* The event loop runs the flush task while the import goes on.
FairSpec == Spec /\ WF_vars(FlushStep)

-----------------------------------------------------------------------------
(* What is checked of it.                                                  *)

\* The row's output is an append-only log (core/import_jobs.py:226) although
\* two tasks write it from copies they took earlier: no write that is late
\* takes lines back.
AppendOnly == [][row'.output >= row.output]_vars

\* A job that ended by itself shows all of its output, whichever of the two
\* terminal writes had to be repeated (core/import_worker.py:767-769, 810-812).
EndedOutputIsWhole == row.status = "ended" => row.output = lines

\* Whoever polls a running import sees every line in the end, also if the
\* write of it failed and the import, parked on a decision, adds no other one.
OutputIsShown ==
    \A n \in Watched :
        (lines >= n) ~> (row.output >= n \/ Cancelled)

=============================================================================

----------------------------- MODULE SerialImports -----------------------------
(***************************************************************************)
(* What beetkeeper promises about its imports, whatever the processes that *)
(* run them do (core/import_worker.py, module docstring; the states of     *)
(* core/import_jobs.py ImportJobStatus): jobs are taken one at a time, in  *)
(* the order of their submission and each at most once; only the holder of *)
(* a job moves it between running and awaiting_decision or ends it; a job  *)
(* whose holder is gone can only become failed, and not before nobody      *)
(* holds a job; an ended job never changes again.                          *)
(***************************************************************************)
EXTENDS Naturals

CONSTANT MaxJobs    \* a natural number; bound: how many jobs are ever submitted

VARIABLES status,   \* status[j]: the state of job j as any client sees it
          held      \* the jobs some live process is working on: at most one

vars == <<status, held>>

Jobs == 1..MaxJobs
Active == {"running", "awaiting_decision"}
Terminal == {"completed", "failed", "aborted"}

Init == /\ status = [j \in Jobs |-> "absent"]
        /\ held = {}

Move(j, s) == status' = [status EXCEPT ![j] = s]

Submit(j) == /\ status[j] = "absent"
             /\ \A k \in Jobs : k < j => status[k] # "absent"
             /\ Move(j, "pending")
             /\ UNCHANGED held

Claim(j) == /\ held = {}
            /\ status[j] = "pending"
            /\ \A k \in Jobs : k < j => status[k] # "pending"
            /\ Move(j, "running")
            /\ held' = {j}

Ask(j) == /\ held = {j}
          /\ status[j] \in Active
          /\ Move(j, "awaiting_decision")
          /\ UNCHANGED held

Resume(j) == /\ held = {j}
             /\ status[j] = "awaiting_decision"
             /\ Move(j, "running")
             /\ UNCHANGED held

End(j) == /\ held = {j}
          /\ status[j] \in Active
          /\ \E s \in Terminal : Move(j, s)
          /\ held' = {}

\* The holder dies, or loses track of its job.
Abandon(j) == /\ held = {j}
              /\ held' = {}
              /\ UNCHANGED status

Interrupt(S) == /\ held = {}
                /\ status' = [j \in Jobs |-> IF j \in S THEN "failed" ELSE status[j]]
                /\ UNCHANGED held

Next == \/ \E j \in Jobs : \/ Submit(j) \/ Claim(j) \/ Ask(j) \/ Resume(j)
                           \/ End(j) \/ Abandon(j)
        \/ \E S \in SUBSET {j \in Jobs : status[j] \in Active} : Interrupt(S)

Spec == Init /\ [][Next]_vars

=============================================================================

------------------------- MODULE ImportRefinementProofs -------------------------
(***************************************************************************)
(* With one leader at a time, the worker implements SerialImports: each of *)
(* its steps is one of the abstract specification, or a stutter.           *)
(***************************************************************************)
EXTENDS ImportLeaderProofs

\* What a client sees of the jobs.
Statuses == [j \in Jobs |-> jobs[j].status]

LEMMA SerialNames ==
    /\ Serial!Jobs = Jobs /\ Serial!Active = Active /\ Serial!Terminal = Terminal
BY DEF Serial!Jobs, Serial!Active, Serial!Terminal, Jobs, Active, Terminal

\* The leader's job is the only one in anybody's hands.
LEMMA HeldByLeader ==
    ASSUME LeadershipInv, OneLeader, NEW v \in Worker, Lead(v)
    PROVE  /\ wk[v].job = NoJob => Held = {}
           /\ wk[v].job # NoJob => Held = {wk[v].job}
<1>1. ASSUME NEW w \in Worker, Running(w), wk[w].job # NoJob
      PROVE  w = v
  <2>1. wk[w].pc \in Working
    BY <1>1 DEF LeadershipInv, IInv, TypeInv, WorkInv
  <2>2. Lead(w)
    BY <1>1, <2>1, LeadingValues, WorkingValues DEF Lead
  <2> QED BY <2>2 DEF OneLeader
<1>2. Running(v)
  BY DEF Lead
<1>3. wk[v].job = NoJob => Held = {}
  BY <1>1 DEF Held
<1>4. wk[v].job # NoJob => Held = {wk[v].job}
  BY <1>1, <1>2 DEF Held
<1> QED BY <1>3, <1>4

\* The set changes with the processes that run and the jobs they have.
LEMMA HeldKept ==
    ASSUME \A w \in Worker : /\ Running(w)' <=> Running(w)
                             /\ Running(w) => wk'[w].job = wk[w].job
    PROVE  Held' = Held
BY DEF Held

\* A process that dies, or leaves its job, leaves nothing in anybody's hands.
LEMMA HeldDropped ==
    ASSUME LeadershipInv, OneLeader, NEW v \in Worker, Running(v), wk[v].job # NoJob,
           \A w \in Worker \ {v} : wk'[w] = wk[w],
           ~(Running(v)') \/ wk'[v].job = NoJob
    PROVE  Held = {wk[v].job} /\ Held' = {}
<1>1. Lead(v)
  BY LeadingValues, WorkingValues DEF LeadershipInv, IInv, TypeInv, WorkInv, Lead
<1>2. Held = {wk[v].job}
  BY <1>1, HeldByLeader
<1>3. \A w \in Worker : Running(w)' => wk'[w].job = NoJob
  <2>1. ASSUME NEW w \in Worker, w # v, Running(w), wk[w].job # NoJob PROVE FALSE
    <3>1. wk[w].pc \in Working
      BY <2>1 DEF LeadershipInv, IInv, TypeInv, WorkInv
    <3>2. Lead(w)
      BY <2>1, <3>1, LeadingValues, WorkingValues DEF Lead
    <3> QED BY <1>1, <2>1, <3>2 DEF OneLeader
  <2> QED BY <2>1 DEF Running
<1>4. Held' = {}
  BY <1>3 DEF Held
<1> QED BY <1>2, <1>4

\* Writing the status column of one row moves one job.
LEMMA Moves ==
    ASSUME NEW j \in Jobs, NEW s, KeepsRows(Jobs \ {j}), jobs'[j].status = s
    PROVE  Serial!Move(j, s)
BY DEF Serial!Move, KeepsRows

LEMMA Stays ==
    ASSUME KeepsRows(Jobs)
    PROVE  Statuses' = Statuses
BY DEF KeepsRows, Statuses

LEMMA StepRefines ==
    ASSUME LeadershipInv, OneLeader, [Next]_vars
    PROVE  [Serial!Next]_(Serial!vars)
<1>1. /\ wk \in [Worker -> WorkerState] /\ StoreTypeOK /\ WorkInv
      /\ asked \in [Jobs -> 0..MaxRequests] /\ OwnedOnceClaimed /\ NewInv
      /\ \A w \in Worker : Running(w) => LocalInv(w)
  BY DEF LeadershipInv, IInv, TypeInv, TypeOK, RowInv, ElectionInv, LeaderInv
<1>2. ASSUME KeepsRows(Jobs), Held' = Held PROVE [Serial!Next]_(Serial!vars)
  BY <1>2, Stays DEF Serial!vars, Statuses
<1>3. ASSUME UNCHANGED jobs PROVE KeepsRows(Jobs)
  BY <1>3 DEF KeepsRows
\* A process that lets go of its job, if it has one.
<1>4. ASSUME NEW v \in Worker, Running(v), UNCHANGED jobs,
             \A w \in Worker \ {v} : wk'[w] = wk[w],
             ~(Running(v)') \/ wk'[v].job = NoJob
      PROVE  [Serial!Next]_(Serial!vars)
  <2>1. CASE wk[v].job = NoJob
    <3>1. Held' = Held
      BY <1>4, <2>1 DEF Held, Running
    <3> QED BY <1>2, <1>3, <1>4, <3>1
  <2>2. CASE wk[v].job # NoJob
    <3>1. Held = {wk[v].job} /\ Held' = {}
      BY <1>4, <2>2, HeldDropped
    <3>2. wk[v].job \in Jobs
      BY <1>1, <2>2 DEF WorkerState
    <3>3. Serial!Abandon(wk[v].job)
      BY <1>4, <3>1 DEF Serial!Abandon
    <3> QED BY <3>2, <3>3, SerialNames DEF Serial!Next
  <2> QED BY <2>1, <2>2
\* A process that keeps it.
<1>5. ASSUME NEW v \in Worker, Running(v), wk'[v].proc \in {"up", "stopping"},
             \A w \in Worker \ {v} : wk'[w] = wk[w], wk'[v].job = wk[v].job
      PROVE  Held' = Held
  <2>1. \A w \in Worker : /\ Running(w)' <=> Running(w)
                          /\ Running(w) => wk'[w].job = wk[w].job
    BY <1>5 DEF Running
  <2> QED BY <2>1, HeldKept
<1>6. ASSUME NEW v \in Worker, Boot(v) PROVE [Serial!Next]_(Serial!vars)
  <2>1. wk[v].job = NoJob /\ wk'[v].job = NoJob /\ ~Running(v)
    BY <1>1, <1>6, WorkingValues DEF Boot, NewInv, WorkInv, WorkerState, Running
  <2>2. \A w \in Worker \ {v} : wk'[w] = wk[w]
    BY <1>1, <1>6 DEF Boot
  <2>3. Held' = Held
    BY <2>1, <2>2 DEF Held, Running
  <2> QED BY <1>2, <1>3, <1>6, <2>3 DEF Boot
<1>7. ASSUME NEW v \in Worker, Crash(v) \/ CutOff(v) PROVE [Serial!Next]_(Serial!vars)
  <2>1. /\ Running(v) /\ UNCHANGED jobs /\ wk'[v].proc = "dead"
        /\ \A w \in Worker \ {v} : wk'[w] = wk[w]
    BY <1>1, <1>7 DEF Crash, CutOff, Running, WorkerState
  <2>2. ~(Running(v)')
    BY <2>1 DEF Running
  <2> QED BY <1>4, <2>1, <2>2
<1>8. ASSUME NEW v \in Worker, CycleFails(v) PROVE [Serial!Next]_(Serial!vars)
  <2>1. /\ Running(v) /\ UNCHANGED jobs /\ wk'[v].job = NoJob
        /\ \A w \in Worker \ {v} : wk'[w] = wk[w]
    BY <1>1, <1>8 DEF CycleFails, At, WorkerState
  <2> QED BY <1>4, <2>1
<1>9. ASSUME NEW v \in Worker, FinalizeFails(v) PROVE [Serial!Next]_(Serial!vars)
  <2>1. /\ Running(v) /\ UNCHANGED jobs /\ wk'[v].proc = wk[v].proc
        /\ \A w \in Worker \ {v} : wk'[w] = wk[w]
        /\ wk'[v].job \in {wk[v].job, NoJob}
    BY <1>1, <1>9 DEF FinalizeFails, LeaveJob, At, WorkerState
  <2>2. CASE wk'[v].job = NoJob
    BY <1>4, <2>1, <2>2
  <2>3. CASE wk'[v].job = wk[v].job
    BY <1>2, <1>3, <1>5, <2>1, <2>3 DEF Running
  <2> QED BY <2>1, <2>2, <2>3
<1>10. ASSUME NEW v \in Worker,
              \/ Shutdown(v) \/ WakeUp(v) \/ WinLease(v) \/ LoseLease(v)
              \/ FindOldest(v) \/ NothingToClaim(v) \/ ClaimLost(v) \/ ReadBack(v)
              \/ StartImport(v)
       PROVE  [Serial!Next]_(Serial!vars)
  <2>1. /\ Running(v) /\ wk'[v].proc \in {"up", "stopping"} /\ UNCHANGED jobs
        /\ \A w \in Worker \ {v} : wk'[w] = wk[w]
        /\ wk'[v].job = wk[v].job
    BY <1>1, <1>10 DEF Shutdown, WakeUp, WinLease, LoseLease, FindOldest,
       NothingToClaim, ClaimLost, ReadBack, StartImport, At, Goto, Running, WorkerState
  <2> QED BY <1>2, <1>3, <1>5, <2>1
<1>11. ASSUME NEW v \in Worker,
              \/ Choose(v) \/ NoAnswerYet(v) \/ CheckAbort(v) \/ PollAgain(v)
              \/ ImportReturns(v) \/ ImportRaises(v) \/ WrapUp(v)
       PROVE  [Serial!Next]_(Serial!vars)
  <2>1. /\ Running(v) /\ wk'[v].proc \in {"up", "stopping"} /\ UNCHANGED jobs
        /\ \A w \in Worker \ {v} : wk'[w] = wk[w]
        /\ wk'[v].job = wk[v].job
    BY <1>1, <1>11 DEF Choose, NoAnswerYet, CheckAbort, PollAgain, ImportReturns,
       ImportRaises, WrapUp, At, Goto, Running, WorkerState
  <2> QED BY <1>2, <1>3, <1>5, <2>1
<1>12. ASSUME NEW v \in Worker, Recover(v) PROVE [Serial!Next]_(Serial!vars)
  <2>1. /\ Running(v) /\ wk'[v].proc \in {"up", "stopping"} /\ wk[v].pc = "recover"
        /\ \A w \in Worker \ {v} : wk'[w] = wk[w]
        /\ wk'[v].job = wk[v].job
    BY <1>1, <1>12 DEF Recover, At, Running, WorkerState
  <2>2. Lead(v) /\ wk[v].job = NoJob
    BY <1>1, <2>1, LeadingValues, WorkingValues DEF Lead, WorkInv
  <2>3. Held = {} /\ Held' = {}
    BY <1>5, <2>1, <2>2, HeldByLeader
  <2> PICK S \in SUBSET Jobs : S = {j \in Jobs : Orphan(v, j)}
    OBVIOUS
  <2>4. \A j \in Jobs :
           \/ Orphan(v, j) /\ jobs'[j].status = "failed" /\ jobs'[j].error = "interrupted"
           \/ ~Orphan(v, j) /\ jobs'[j] = jobs[j]
    BY <1>1, <1>12, RecoverWrites DEF Recover
  <2>5. Statuses' = [j \in Jobs |-> IF j \in S THEN "failed" ELSE Statuses[j]]
    BY <2>4 DEF Statuses
  <2>6. Serial!Interrupt(S)
    BY <2>3, <2>5, SerialNames DEF Serial!Interrupt, Statuses
  <2>7. S \in SUBSET {j \in Serial!Jobs : Statuses[j] \in Serial!Active}
    BY SerialNames DEF Orphan, Statuses
  <2> QED BY <2>6, <2>7 DEF Serial!Next, Statuses
<1>13. ASSUME NEW v \in Worker, Claim(v) PROVE [Serial!Next]_(Serial!vars)
  <2> PICK j \in Jobs : j = wk[v].seen
    BY <1>1, <1>13 DEF Claim, At, WorkInv
  <2>1. /\ Running(v) /\ wk'[v].proc \in {"up", "stopping"} /\ wk[v].pc = "claiming"
        /\ \A w \in Worker \ {v} : wk'[w] = wk[w]
        /\ wk'[v].job = j /\ ClaimNext(v, j)
    BY <1>1, <1>13 DEF Claim, At, Running, WorkInv, WorkerState
  <2>2. Lead(v) /\ wk[v].job = NoJob /\ OldestPending(j)
    BY <1>1, <2>1, LeadingValues, WorkingValues DEF Lead, WorkInv, LocalInv
  <2>3. Held = {}
    BY <2>2, HeldByLeader
  <2>4. \A w \in Worker \ {v} : Running(w)' => wk'[w].job = NoJob
    BY <2>1, <2>3 DEF Held, Running
  <2>5. Held' = {j}
    BY <2>1, <2>4, Values DEF Held, Running
  <2>6. Serial!Move(j, "running")
    BY <1>1, <2>1, JobWrites, Moves
  <2>7. Serial!Claim(j)
    BY <2>1, <2>2, <2>3, <2>5, <2>6, SerialNames DEF Serial!Claim, OldestPending
  <2> QED BY <2>1, <2>7, SerialNames DEF Serial!Next
<1>14. ASSUME NEW v \in Worker, Ask(v) PROVE [Serial!Next]_(Serial!vars)
  <2> PICK j \in Jobs : j = wk[v].job
    BY <1>1, <1>14, WorkingValues DEF Ask, At, WorkInv
  <2>1. /\ Running(v) /\ wk'[v].proc \in {"up", "stopping"} /\ wk[v].pc = "asking"
        /\ \A w \in Worker \ {v} : wk'[w] = wk[w]
        /\ wk'[v].job = j /\ SetAwaiting(j, asked[j] + 1)
    BY <1>1, <1>14 DEF Ask, At, Goto, Running, WorkerState
  <2>2. Lead(v) /\ jobs[j].status \in Active
    BY <1>1, <2>1, LeadingValues, WorkingValues DEF Lead, WorkInv, LocalInv, IsActive
  <2>3. Held = {j} /\ Held' = Held
    BY <1>5, <2>1, <2>2, HeldByLeader, Values
  <2>4. KeepsRows(Jobs \ {j}) /\ jobs'[j].status = "awaiting_decision"
    BY <1>1, <2>1, <2>2 DEF SetAwaiting, KeepsRows, StoreTypeOK, Row
  <2>5. Serial!Ask(j)
    BY <2>2, <2>3, <2>4, Moves, SerialNames DEF Serial!Ask
  <2> QED BY <2>2, <2>5, SerialNames DEF Serial!Next
<1>15. ASSUME NEW v \in Worker, TakeAnswer(v) PROVE [Serial!Next]_(Serial!vars)
  <2> PICK j \in Jobs : j = wk[v].job
    BY <1>1, <1>15, WorkingValues DEF TakeAnswer, At, WorkInv
  <2>1. /\ Running(v) /\ wk'[v].proc \in {"up", "stopping"} /\ wk[v].pc = "take"
        /\ \A w \in Worker \ {v} : wk'[w] = wk[w]
        /\ wk'[v].job = j /\ TakeDecision(j)
    BY <1>1, <1>15 DEF TakeAnswer, At, Goto, Running, WorkerState
  <2>2. Lead(v) /\ jobs[j].status = "awaiting_decision"
    BY <1>1, <2>1, LeadingValues, WorkingValues DEF Lead, WorkInv, LocalInv, Parked
  <2>3. Held = {j} /\ Held' = Held
    BY <1>5, <2>1, <2>2, HeldByLeader, Values
  <2>4. Serial!Move(j, "running")
    BY <1>1, <2>1, <2>2, JobWrites, Moves
  <2>5. Serial!Resume(j)
    BY <2>2, <2>3, <2>4 DEF Serial!Resume
  <2> QED BY <2>2, <2>5, SerialNames DEF Serial!Next
<1>16. ASSUME NEW v \in Worker, Finalize(v) PROVE [Serial!Next]_(Serial!vars)
  <2> PICK j \in Jobs, s \in Terminal : j = wk[v].job /\ s = wk[v].verdict
    BY <1>1, <1>16, WorkingValues DEF Finalize, At, WorkInv
  <2> DEFINE e == IF s = "failed" THEN "failure" ELSE "null"
  <2>1. /\ Running(v) /\ wk[v].pc = "finalize" /\ wk'[v].job = NoJob
        /\ \A w \in Worker \ {v} : wk'[w] = wk[w]
        /\ SetStatus(j, s, e)
    BY <1>1, <1>16 DEF Finalize, LeaveJob, At, WorkerState
  <2>2. Lead(v) /\ jobs[j].status \in Active
    BY <1>1, <2>1, LeadingValues, WorkingValues DEF Lead, WorkInv, LocalInv, IsActive
  <2>3. Held = {j} /\ Held' = {}
    BY <2>1, <2>2, HeldDropped, Values
  <2>4. Serial!Move(j, s)
    <3> HIDE DEF e
    <3>1. KeepsRows(Jobs \ {j}) /\ jobs'[j].status = s
      BY <1>1, <2>1, <2>2, JobWrites, Zenon
    <3> QED BY <2>2, <3>1, Moves
  <2>5. Serial!End(j)
    BY <2>2, <2>3, <2>4, SerialNames DEF Serial!End
  <2> QED BY <2>2, <2>5, SerialNames DEF Serial!Next
<1>17. ASSUME UNCHANGED wk PROVE Held' = Held
  BY <1>17 DEF Held, Running
<1>18. ASSUME SubmitJob PROVE [Serial!Next]_(Serial!vars)
  <2>1. PICK w \in Worker, j \in Jobs : Create(j)
    BY <1>18 DEF SubmitJob, Served
  <2>2. Serial!Move(j, "pending")
    BY <1>1, <2>1, JobWrites, Moves
  <2>3. Serial!Submit(j)
    BY <1>17, <1>18, <2>1, <2>2, SerialNames DEF SubmitJob, Serial!Submit, Create
  <2> QED BY <2>1, <2>3, SerialNames DEF Serial!Next
<1>19. ASSUME NEW j \in Jobs, Answer(j) \/ Abort(j) PROVE [Serial!Next]_(Serial!vars)
  BY <1>1, <1>2, <1>17, <1>19, RequestWrites DEF Answer, Abort
<1>20. LeaseExpires \/ (\E w \in Worker : Renew(w)) \/ UNCHANGED vars
          => [Serial!Next]_(Serial!vars)
  BY <1>2, <1>3, <1>17 DEF LeaseExpires, Renew, vars
<1> QED
  BY <1>6, <1>7, <1>8, <1>9, <1>10, <1>11, <1>12, <1>13, <1>14, <1>15, <1>16, <1>18,
     <1>19, <1>20
  DEF Next, WorkerStep, Cycle, Import, Finish

\* ImplementsSerialImports: seen by a client, the worker takes jobs one at a
\* time and in their order, each at most once, and ends each once and for all.
THEOREM WorkerImplementsSerialImports ==
    ASSUME Exclusive
    PROVE  Spec => ImplementsSerialImports
<1>1. Init => Serial!Init
  BY DEF Init, StoreInit, NoRow, NewProcess, Serial!Init, Serial!Jobs, Jobs, Held,
     Running
<1>2. LeadershipInv /\ [Next]_vars => [Serial!Next]_(Serial!vars)
  BY ElectsOne, StepRefines DEF LeadershipInv
<1> QED
  BY <1>1, <1>2, LeadershipInductive, PTL DEF Spec, ImplementsSerialImports, Serial!Spec

=============================================================================

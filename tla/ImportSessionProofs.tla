-------------------------- MODULE ImportSessionProofs --------------------------
(***************************************************************************)
(* The output of a job is an append-only log, whole once the job ended:     *)
(* proved of OutputStream by itself, for any pipeline, and then of the one   *)
(* job of ImportSession, whose steps are OutputStream's or leave the stream   *)
(* alone.  What that job does to the library and the inferences follows.     *)
(***************************************************************************)
EXTENDS ImportSession, FiniteSetTheorems, TLAPS

-----------------------------------------------------------------------------
(* The output stream, whatever the pipeline does.                            *)

USE DEF Flush, Run, Row

\* What is written lags behind the buffer, and a copy that is being written
\* lags behind it less; nobody but the job itself writes once it is closing.
LagInv == /\ row.output <= lines
          /\ flush.pc = "writing" => row.output <= flush.text /\ flush.text <= lines
          /\ run.pc \in {"output", "status", "retrying", "over"} => flush.pc = "gone"

\* What is about to be declared ended, or has been, is whole.
EndInv == /\ run.pc = "status" => row.output = lines
          /\ row.status = "ended" => /\ row.output = lines
                                     /\ run.pc \in {"over", "exited"}

StreamInv == TypeOK /\ LagInv /\ EndInv

\* Records with some of their fields replaced.
LEMMA FlushUpdate ==
    ASSUME NEW f \in Flush, NEW v \in Nat, NEW t \in Nat
    PROVE  [f EXCEPT !.pc = "writing", !.version = v, !.text = t] \in Flush
BY Zenon

LEMMA RunUpdate ==
    ASSUME NEW r \in Run, NEW p \in {"retrying", "over"},
           NEW a \in 0..(FinalizeAttempts - 1)
    PROVE  /\ [r EXCEPT !.pc = p] \in Run
           /\ [r EXCEPT !.pc = p, !.attempts = a] \in Run
BY Zenon

LEMMA InitStream == Init => StreamInv
BY StreamAssumption DEF Init, StreamInv, TypeOK, LagInv, EndInv

LEMMA StepStream == StreamInv /\ [Next]_vars => StreamInv'
<1> SUFFICES ASSUME StreamInv, [Next]_vars PROVE StreamInv'
  OBVIOUS
<1> USE StreamAssumption DEF StreamInv, TypeOK, LagInv, EndInv, Fails
<1>1. ASSUME NEW k \in 0..2, AppendLines(k) PROVE StreamInv'
  <2>1. lines' \in Nat /\ lines' >= lines /\ version' \in 0..MaxVersion
    BY <1>1 DEF AppendLines
  <2>2. UNCHANGED <<flush, run, row, faults>> /\ run.pc = "importing"
    BY <1>1 DEF AppendLines
  <2> QED BY <2>1, <2>2
<1>2. CASE ImportEnds
  BY <1>2 DEF ImportEnds
<1>3. CASE Snapshot
  <2>1. /\ flush'.pc = "writing" /\ flush'.text = lines /\ run.pc = "importing"
        /\ UNCHANGED <<lines, version, run, row, faults>>
    BY <1>3 DEF Snapshot, Cancelled
  <2>2. flush' \in Flush
    <3>1. version + 1 \in Nat
      OBVIOUS
    <3>2. flush' = [flush EXCEPT !.pc = "writing", !.version = version + 1, !.text = lines]
      BY <1>3 DEF Snapshot
    <3>3. flush \in Flush /\ lines \in Nat
      OBVIOUS
    <3> HIDE DEF Flush, TypeOK, StreamInv
    <3> QED BY <3>1, <3>2, <3>3, FlushUpdate
  <2> QED BY <2>1, <2>2
<1>4. CASE FlushWrites
  BY <1>4 DEF FlushWrites, Alive
<1>5. CASE FlushFails
  BY <1>5 DEF FlushFails, Alive
<1>6. CASE FlushEnds
  BY <1>6 DEF FlushEnds
<1>7. CASE CloseGroup
  BY <1>7 DEF CloseGroup
<1>8. CASE WriteOutput
  BY <1>8 DEF WriteOutput
<1>9. CASE WriteStatus
  BY <1>9 DEF WriteStatus
<1>10. CASE FinalizeFails
  <2>1. run' \in Run
    <3>1. CASE run.attempts + 1 < FinalizeAttempts
      <4> DEFINE a == run.attempts + 1
      <4>1. a \in 0..(FinalizeAttempts - 1)
        BY <3>1
      <4>2. run' = [run EXCEPT !.pc = "retrying", !.attempts = a]
        BY <1>10, <3>1 DEF FinalizeFails
      <4>3. run \in Run
        OBVIOUS
      <4> HIDE DEF a, Run, TypeOK, StreamInv
      <4> QED BY <4>1, <4>2, <4>3, RunUpdate
    <3>2. CASE ~(run.attempts + 1 < FinalizeAttempts)
      BY <1>10, <3>2 DEF FinalizeFails
    <3> QED BY <3>1, <3>2
  <2>3. run'.pc \in {"retrying", "over"} /\ run.pc \in {"output", "status"}
    BY <1>10 DEF FinalizeFails
  <2>2. faults' \in 0..MaxFaults /\ UNCHANGED <<lines, version, flush, row>>
    BY <1>10 DEF FinalizeFails
  <2> QED BY <2>1, <2>2, <2>3
<1>11. CASE Retry
  BY <1>11 DEF Retry
<1>12. CASE Shutdown
  BY <1>12 DEF Shutdown
<1>13. CASE Exit
  BY <1>13 DEF Exit, Alive
<1>14. CASE Recover
  BY <1>14 DEF Recover
<1>15. CASE UNCHANGED vars
  BY <1>15 DEF vars
<1> QED
  BY <1>1, <1>2, <1>3, <1>4, <1>5, <1>6, <1>7, <1>8, <1>9, <1>10, <1>11, <1>12,
     <1>13, <1>14, <1>15 DEF Next, FlushStep, FinishStep

\* TypeOK: the buffer, the two tasks and the row keep their types.
THEOREM StreamTypes == Spec => []TypeOK
<1> QED BY InitStream, StepStream, PTL DEF Spec, StreamInv

\* EndedOutputIsWhole: a job that ended by itself shows all of its output.
THEOREM EndedJobsShowAll == Spec => []EndedOutputIsWhole
<1>1. StreamInv => EndedOutputIsWhole
  BY DEF StreamInv, EndInv, EndedOutputIsWhole
<1> QED BY <1>1, InitStream, StepStream, PTL DEF Spec

LEMMA StreamGrows == StreamInv /\ [Next]_vars => [row'.output >= row.output]_vars
<1> SUFFICES ASSUME StreamInv, Next PROVE row'.output >= row.output
  OBVIOUS
<1> USE DEF StreamInv, TypeOK, LagInv
<1>1. CASE FlushWrites
  BY <1>1 DEF FlushWrites
<1>2. CASE WriteOutput
  BY <1>2 DEF WriteOutput
<1>3. CASE WriteStatus \/ Recover
  BY <1>3 DEF WriteStatus, Recover
<1>4. CASE row' = row
  BY <1>4
<1> QED
  BY <1>1, <1>2, <1>3, <1>4 DEF Next, AppendLines, ImportEnds, FlushStep, FinishStep,
     Snapshot, FlushFails, FlushEnds, CloseGroup, FinalizeFails, Retry, Shutdown, Exit

\* AppendOnly: no write, however late, takes lines back from the row.
THEOREM OutputOnlyGrows == Spec => AppendOnly
<1> QED BY StreamGrows, InitStream, StepStream, PTL DEF Spec, AppendOnly

-----------------------------------------------------------------------------
(* The stream under a session.                                             *)

HIDE DEF Flush, Run, Row

\* A step of the session is one of the stream's, or leaves it alone but for the
\* count of failed writes (Retarget writes another table).
LEMMA SessionStepIsStreamStep ==
    [SessionNext]_jobVars =>
        [Next]_vars \/ (UNCHANGED <<lines, version, flush, run, row>> /\ Fails)
<1> SUFFICES ASSUME [SessionNext]_jobVars
             PROVE  [Next]_vars \/ (UNCHANGED <<lines, version, flush, run, row>> /\ Fails)
  OBVIOUS
<1>1. \A k \in {1, 2} : AppendLines(k) => Next
  BY DEF Next
<1>2. CASE UNCHANGED jobVars
  BY <1>2 DEF jobVars
<1>3. CASE RequestAbort \/ OpenerLooks \/ OpenerApplies \/ ApplySettings \/ RunSession \/ SessionRaises
  BY <1>3 DEF RequestAbort, OpenerLooks, OpenerApplies, ApplySettings, RunSession, SessionRaises, Silent
<1>4. CASE Start \/ RemoveEntry \/ SessionReturns
  BY <1>1, <1>4 DEF Start, RemoveEntry, SessionReturns, Says, Silent
<1>5. ASSUME NEW t \in Task, HookStep(t)  PROVE UNCHANGED vars \/ AppendLines(1)
  BY <1>5 DEF HookStep, CheckAbort, QuietChoice, Park, Decide, Interrupt, ResolveDuplicate, Land,
     Narrate, Says, Silent
<1>6. CASE Leave \/ FlushesOnly \/ StreamOnly \/ Die
  BY <1>6 DEF Leave, FlushesOnly, StreamOnly, Die, Next
<1>7. CASE Retarget
  BY <1>7 DEF Retarget, Silent
<1> QED
  BY <1>1, <1>2, <1>3, <1>4, <1>5, <1>6, <1>7 DEF SessionNext

LEMMA SessionKeepsStream == StreamInv /\ [SessionNext]_jobVars => StreamInv'
<1> SUFFICES ASSUME StreamInv, [SessionNext]_jobVars PROVE StreamInv'
  OBVIOUS
<1>1. CASE [Next]_vars
  BY <1>1, StepStream
<1>2. CASE UNCHANGED <<lines, version, flush, run, row>> /\ Fails
  BY <1>2, StreamAssumption DEF Fails, StreamInv, TypeOK, LagInv, EndInv
<1> QED BY <1>1, <1>2, SessionStepIsStreamStep

\* EndedOutputIsWhole, of the job with its session: also where the pipeline broke
\* off, the job was aborted, or its inference could not be written.
THEOREM EndedSessionsShowAll == SessionSpec => []EndedOutputIsWhole
<1>1. InitSession => StreamInv
  BY InitStream DEF InitSession
<1>2. StreamInv => EndedOutputIsWhole
  BY DEF StreamInv, EndInv, EndedOutputIsWhole
<1> QED BY <1>1, <1>2, SessionKeepsStream, PTL DEF SessionSpec

\* AppendOnly, of the job with its session: whatever thread the lines come from.
THEOREM SessionOutputOnlyGrows == SessionSpec => AppendOnly
<1>1. InitSession => StreamInv
  BY InitStream DEF InitSession
<1>2. StreamInv /\ [SessionNext]_jobVars => [row'.output >= row.output]_vars
  BY SessionStepIsStreamStep, StreamGrows DEF vars, StreamInv, TypeOK, Row
<1> QED BY <1>1, <1>2, SessionKeepsStream, PTL DEF SessionSpec, AppendOnly

-----------------------------------------------------------------------------
(* The session.                                                            *)

Before == {"starting", "removing", "applying", "installing"}
Ended == {"leaving", "left", "done"}

\* Until its pipeline runs a job has decided nothing; while it runs, what is in the
\* library and told is what is counted; it has failed where it says so.
StageInv ==
    /\ session.pc \in Before => /\ album = [t \in Task |-> "queued"]
                                /\ counted = {} /\ ~session.failed
    /\ session.pc \in Before \union {"running", "raising"} => result = {}
    /\ session.pc = "running" => ~session.failed
    /\ session.pc = "raising" => session.failed
    /\ session.pc \in {"running", "raising"} => counted = {t \in Task : album[t] = "told"}

\* From ApplySettings on a field the job names is found in beets' configuration with
\* the job's value, and the session's copy has its grouping.
Named(c, field) == field # NoValue => c.field = field

ConfigInv ==
    /\ session.pc \notin {"starting", "gone"} => applied
    /\ session.pc \in {"installing", "running", "raising"} =>
          Named(config, MergedField(job.field, session.preserved))
    /\ session.pc \in {"running", "raising"} => session.group = SessionOverrides.group

\* What an abort spared has not been looked at since, or was skipped or broken off.
SparedInv ==
    /\ spared # {} => aborting
    /\ \A t \in spared : album[t] \in {"queued", "skipped", "broken"}

\* The inference moves once, when nothing is left to be imported.
InferenceInv == inferred.entry # Old => session.pc \in {"done", "gone"}

SessionInv ==
    /\ JobTypeOK /\ StageInv /\ ConfigInv /\ SparedInv /\ InferenceInv
    /\ NamedSettingsAreOwn /\ ResultIsWhatLanded /\ InferenceFollows

LEMMA JobType ==
    ASSUME JobTypeOK
    PROVE  /\ job.quiet \in BOOLEAN /\ job.clean \in BOOLEAN /\ job.group \in BOOLEAN
           /\ job.field \in {NoValue, "submitted"}
           /\ SessionOverrides.group = (job.group /\ ~job.clean)
  BY SessionAssumption DEF JobTypeOK, SessionOverrides

LEMMA PcUpdate ==
    ASSUME NEW s \in Session, NEW p \in Stage
    PROVE  [s EXCEPT !.pc = p] \in Session /\ [s EXCEPT !.pc = p].pc = p
BY Zenon DEF Session

LEMMA FailedUpdate ==
    ASSUME NEW s \in Session, NEW p \in Stage
    PROVE  /\ [s EXCEPT !.pc = p, !.failed = TRUE] \in Session
           /\ [s EXCEPT !.pc = p, !.failed = TRUE].pc = p
BY Zenon DEF Session

LEMMA InitSessionInv == InitSession => SessionInv
<1> SUFFICES ASSUME InitSession PROVE SessionInv
  OBVIOUS
<1>1. TypeOK
  BY InitStream DEF InitSession, StreamInv
<1>2. PICK s \in Starts : job = s.job /\ applied = s.applied /\ config = s.config
  BY DEF InitSession
<1>3. config \in Settings /\ applied \in BOOLEAN /\ job \in {x.job : x \in Starts}
  <2>1. IF s.applied THEN s.config \in Settings ELSE s.config = BuiltIn
    BY SessionAssumption
  <2>2. BuiltIn \in Settings /\ s.applied \in BOOLEAN
    BY SessionAssumption
  <2> QED BY <1>2, <2>1, <2>2, Zenon
<1>4. session \in Session /\ inferred \in Inference /\ ~session.failed
      /\ session.pc = "starting" /\ inferred.entry = Old
  BY DEF InitSession, Session, Stage, Inference
<1>5. album \in [Task -> Fate] /\ entry \in [Task -> Settings \union {Unset}]
  BY DEF InitSession, Fate
<1>6. JobTypeOK
  <2>1. opener \in BOOLEAN /\ aborting \in BOOLEAN
    BY DEF InitSession
  <2>2. narrator \in BOOLEAN /\ (narrator <=> session.pc \in {"running", "raising"})
    <3>1. narrator = FALSE
      BY DEF InitSession
    <3> QED BY <1>4, <3>1, Zenon
  <2> QED BY <1>1, <1>3, <1>4, <1>5, <2>1, <2>2 DEF JobTypeOK, InitSession
<1>7. InLibrary = {}
  BY DEF InitSession, InLibrary
<1> QED
  BY <1>4, <1>6, <1>7 DEF InitSession, SessionInv, StageInv, ConfigInv, SparedInv, InferenceInv,
     Before, Ended, NamedSettingsAreOwn, ResultIsWhatLanded, InferenceFollows

-----------------------------------------------------------------------------
(* What the steps do: a summary of the hooks, and then of all of them.        *)

\* A hook moves one album on, or breaks the pipeline off.
HookMove(t) ==
    /\ session.pc = "running"
    /\ album[t] \in {"queued", "checked", "parked", "matched"}
    /\ \E fate \in {"checked", "parked", "matched", "chosen", "skipped", "broken"} :
          /\ Becomes(t, fate)
          /\ aborting /\ album[t] = "queued" => fate \in {"skipped", "broken"}
          /\ IF fate = "broken" THEN Fail("raising") ELSE UNCHANGED session
    /\ HookOnly

LEMMA HookMoves ==
    ASSUME NEW t \in Task, HookStep(t)
    PROVE  HookMove(t) \/ Land(t) \/ Narrate(t)
<1> USE DEF HookMove, Asked, At
<1>1. CASE CheckAbort(t)
  BY <1>1 DEF CheckAbort
<1>2. CASE QuietChoice(t) \/ Park(t)
  BY <1>2 DEF QuietChoice, Park
<1>3. CASE Decide(t)
  BY <1>3 DEF Decide
<1>4. CASE Interrupt(t)
  BY <1>4 DEF Interrupt
<1>5. CASE ResolveDuplicate(t)
  BY <1>5 DEF ResolveDuplicate
<1> QED BY <1>1, <1>2, <1>3, <1>4, <1>5 DEF HookStep

LEMMA AlbumUpdate ==
    ASSUME album \in [Task -> Fate], NEW t \in Task, NEW fate \in Fate, Becomes(t, fate)
    PROVE  /\ album' \in [Task -> Fate]
           /\ album'[t] = fate
           /\ \A u \in Task : u # t => album'[u] = album[u]
  BY DEF Becomes

\* An overlay is a configuration, and a field it names is found in it.
LEMMA OverlayNames ==
    ASSUME NEW c \in Settings, NEW g \in BOOLEAN, NEW f \in Field
    PROVE  Overlay(c, g, f) \in Settings /\ Named(Overlay(c, g, f), f)
  BY DEF Settings, Overlay, Named

\* The configuration keeps its type.
LEMMA ConfigTypes ==
    ASSUME SessionInv, SessionNext
    PROVE  config' \in Settings /\ applied' \in BOOLEAN /\ opener' \in BOOLEAN
<1>1. /\ config \in Settings /\ applied \in BOOLEAN /\ opener \in BOOLEAN
      /\ session.preserved \in {NoValue, Kept}
      /\ job.group \in BOOLEAN /\ job.field \in {NoValue, "submitted"}
  BY JobType DEF SessionInv, JobTypeOK, Session
<1>2. FileOnTop \in Settings /\ BuiltIn \in Settings
  <2>1. BuiltIn \in Settings /\ ConfigFile \in Settings
    BY SessionAssumption
  <2>2. ConfigFile.group \in BOOLEAN /\ ConfigFile.field \in Field
    BY <2>1 DEF Settings
  <2> QED BY <1>1, <2>1, <2>2, OverlayNames DEF FileOnTop
<1>3. CASE ApplySettings
  <2>1. MergedField(job.field, session.preserved) \in Field
    BY <1>1 DEF Field, MergedField
  <2> QED BY <1>1, <1>3, <2>1, OverlayNames DEF ApplySettings
<1>4. CASE Start \/ OpenerLooks \/ OpenerApplies \/ Die
  BY <1>1, <1>2, <1>4, Zenon DEF Start, OpenerLooks, OpenerApplies, Die
<1>5. CASE UNCHANGED configVars
  BY <1>1, <1>5 DEF configVars
<1>6. ASSUME NEW t \in Task, HookStep(t)  PROVE UNCHANGED configVars
  BY <1>6, HookMoves DEF HookMove, HookOnly, Land, Narrate, configVars
<1>7. \/ ApplySettings \/ Start \/ OpenerLooks \/ OpenerApplies \/ Die \/ UNCHANGED configVars
  BY <1>6 DEF SessionNext, RequestAbort, RemoveEntry, RunSession, SessionReturns, SessionRaises,
     Leave, Retarget, FlushesOnly, StreamOnly, sessionVars, configVars
<1> QED BY <1>3, <1>4, <1>5, <1>7

\* The session and its narrator, which has its slot while the pipeline runs.
LEMMA SessionTypes ==
    ASSUME SessionInv, SessionNext
    PROVE  /\ session' \in Session
           /\ narrator' \in BOOLEAN /\ (narrator' <=> session'.pc \in {"running", "raising"})
           /\ job' = job
<1>1. /\ session \in Session
      /\ narrator \in BOOLEAN /\ (narrator <=> session.pc \in {"running", "raising"})
  BY DEF SessionInv, JobTypeOK
<1>0. SessionOverrides.group \in BOOLEAN
  <2>1. SessionOverrides.group = (job.group /\ ~job.clean)
    BY JobType DEF SessionInv
  <2> QED BY <2>1, Zenon
<1>12. \A p \in {"starting", "removing", "applying", "installing", "running", "raising",
                  "leaving", "left", "done", "gone"} : p \in Stage
  BY DEF Stage
<1> DEFINE Same == session' = session /\ narrator' = narrator /\ job' = job
<1>2. CASE Same
  BY <1>1, <1>2, Zenon
<1>3. CASE Start
  <2>1. PICK p \in {"removing", "applying"} : session' = [session EXCEPT !.pc = p]
    BY <1>3 DEF Start, At, Goto
  <2>2. narrator' = narrator /\ job' = job /\ session.pc = "starting"
    BY <1>3 DEF Start, At
  <2>3. session' \in Session /\ session'.pc = p
    BY <1>1, <2>1, PcUpdate, <1>12, Zenon
  <2> QED BY <1>1, <2>1, <2>2, <2>3, Zenon
<1>4. CASE RemoveEntry
  <2>1. session.pc = "removing" /\ narrator' = narrator /\ job' = job
    BY <1>4 DEF RemoveEntry, At
  <2>2. \/ session' = [session EXCEPT !.pc = "leaving", !.failed = TRUE]
        \/ \E kept \in {NoValue, Kept} :
              session' = [session EXCEPT !.pc = "applying", !.removed = TRUE, !.preserved = kept]
    BY <1>4 DEF RemoveEntry, Fail
  <2>3. session' \in Session /\ session'.pc \in {"leaving", "applying"}
    <3>1. CASE session' = [session EXCEPT !.pc = "leaving", !.failed = TRUE]
      BY <1>1, <3>1, FailedUpdate, <1>12, Zenon
    <3>2. ASSUME NEW kept \in {NoValue, Kept},
                 session' = [session EXCEPT !.pc = "applying", !.removed = TRUE, !.preserved = kept]
          PROVE  session' \in Session /\ session'.pc = "applying"
      <4>1. "applying" \in Stage
        BY <1>12
      <4> QED BY <1>1, <3>2, <4>1, Zenon DEF Session
    <3> QED BY <2>2, <3>1, <3>2, Zenon
  <2> QED BY <1>1, <2>1, <2>3, Zenon
<1>5. CASE ApplySettings
  <2>1. /\ session' = [session EXCEPT !.pc = "installing"] /\ session.pc = "applying"
        /\ narrator' = narrator /\ job' = job
    BY <1>5 DEF ApplySettings, At, Goto
  <2>2. session' \in Session /\ session'.pc = "installing"
    BY <1>1, <2>1, PcUpdate, <1>12, Zenon
  <2> QED BY <1>1, <2>1, <2>2, Zenon
<1>6. CASE RunSession
  <2>0. PICK g \in BOOLEAN : session' = [session EXCEPT !.pc = "running", !.group = g]
    BY <1>0, <1>6 DEF RunSession
  <2>1. narrator' = TRUE /\ job' = job
    BY <1>6 DEF RunSession
  <2>2. session' \in Session /\ session'.pc = "running"
    <3>1. "running" \in Stage
      BY <1>12
    <3> QED BY <1>1, <2>0, <3>1, Zenon DEF Session
  <2> QED BY <2>1, <2>2, Zenon
<1>7. CASE \E t \in Task : HookStep(t)
  <2>1. PICK t \in Task : HookMove(t) \/ Land(t) \/ Narrate(t)
    BY <1>7, HookMoves
  <2>2. CASE session' = [session EXCEPT !.pc = "raising", !.failed = TRUE]
             /\ session.pc = "running" /\ narrator' = narrator /\ job' = job
    <3>1. session' \in Session /\ session'.pc = "raising"
      BY <1>1, <2>2, FailedUpdate, <1>12, Zenon
    <3> QED BY <1>1, <2>2, <3>1, Zenon
  <2>3. Same \/ /\ session' = [session EXCEPT !.pc = "raising", !.failed = TRUE]
                /\ session.pc = "running" /\ narrator' = narrator /\ job' = job
    BY <2>1 DEF HookMove, HookOnly, Fail, Land, Narrate
  <2> QED BY <1>2, <2>2, <2>3
<1>8. CASE SessionReturns \/ SessionRaises
  <2>1. session' = [session EXCEPT !.pc = "leaving"] /\ narrator' = FALSE /\ job' = job
    BY <1>8 DEF SessionReturns, SessionRaises, Goto
  <2>2. session' \in Session /\ session'.pc = "leaving"
    BY <1>1, <2>1, PcUpdate, <1>12, Zenon
  <2> QED BY <2>1, <2>2, Zenon
<1>9. CASE Leave \/ Retarget
  <2>1. PICK p \in {"left", "done"} : session' = [session EXCEPT !.pc = p]
    BY <1>9 DEF Leave, Retarget, Goto
  <2>2. narrator' = narrator /\ job' = job /\ session.pc \in {"leaving", "left"}
    BY <1>9 DEF Leave, Retarget, At
  <2>3. session' \in Session /\ session'.pc = p
    BY <1>1, <2>1, PcUpdate, <1>12, Zenon
  <2> QED BY <1>1, <2>1, <2>2, <2>3, Zenon
<1>10. CASE Die
  <2>1. session' = [session EXCEPT !.pc = "gone"] /\ narrator' = FALSE /\ job' = job
    BY <1>10 DEF Die
  <2>2. session' \in Session /\ session'.pc = "gone"
    BY <1>1, <2>1, PcUpdate, <1>12, Zenon
  <2> QED BY <2>1, <2>2, Zenon
<1>11. CASE RequestAbort \/ OpenerLooks \/ OpenerApplies \/ FlushesOnly \/ StreamOnly
  BY <1>2, <1>11 DEF RequestAbort, OpenerLooks, OpenerApplies, FlushesOnly, StreamOnly, sessionVars
<1> QED
  BY <1>3, <1>4, <1>5, <1>6, <1>7, <1>8, <1>9, <1>10, <1>11 DEF SessionNext

\* What the steps do to the fields of the session.
Moves(p, q) == session.pc = p /\ session'.pc = q
KeepsEntry == session'.removed = session.removed /\ session'.preserved = session.preserved
KeepsGroup == session'.group = session.group
KeepsFailed == session'.failed = session.failed
KeepsRest == KeepsEntry /\ KeepsGroup /\ KeepsFailed

LEMMA Fields ==
    ASSUME SessionInv
    PROVE  /\ Start => (Moves("starting", "removing") \/ Moves("starting", "applying")) /\ KeepsRest
           /\ RemoveEntry =>
                 \/ Moves("removing", "leaving") /\ KeepsEntry /\ KeepsGroup /\ session'.failed = TRUE
                 \/ Moves("removing", "applying") /\ KeepsGroup /\ KeepsFailed
           /\ ApplySettings => Moves("applying", "installing") /\ KeepsRest
           /\ RunSession => /\ Moves("installing", "running") /\ KeepsEntry /\ KeepsFailed
                            /\ session'.group = SessionOverrides.group
           /\ \A t \in Task : HookMove(t) =>
                 \/ session' = session /\ session.pc = "running" /\ album'[t] # "broken"
                 \/ /\ Moves("running", "raising") /\ KeepsEntry /\ KeepsGroup
                    /\ session'.failed = TRUE /\ album'[t] = "broken"
           /\ SessionReturns => Moves("running", "leaving") /\ KeepsRest
           /\ SessionRaises => Moves("raising", "leaving") /\ KeepsRest
           /\ Leave => Moves("leaving", "left") /\ KeepsRest
           /\ Retarget => Moves("left", "done") /\ KeepsRest
           /\ Die => session'.pc = "gone" /\ KeepsRest
<1> USE DEF Moves, KeepsRest, KeepsEntry, KeepsGroup, KeepsFailed, At, Goto, Fail
<1>1. session \in Session /\ album \in [Task -> Fate]
  BY DEF SessionInv, JobTypeOK
<1>2. ASSUME NEW p, session' = [session EXCEPT !.pc = p]
      PROVE  session'.pc = p /\ KeepsRest
  BY <1>1, <1>2, Zenon DEF Session
<1>3. ASSUME NEW p, session' = [session EXCEPT !.pc = p, !.failed = TRUE]
      PROVE  session'.pc = p /\ KeepsEntry /\ KeepsGroup /\ session'.failed = TRUE
  BY <1>1, <1>3, Zenon DEF Session
<1>4. ASSUME NEW p, NEW k, session' = [session EXCEPT !.pc = p, !.removed = TRUE, !.preserved = k]
      PROVE  session'.pc = p /\ KeepsGroup /\ KeepsFailed
  BY <1>1, <1>4, Zenon DEF Session
<1>5. ASSUME NEW p, NEW g, session' = [session EXCEPT !.pc = p, !.group = g]
      PROVE  session'.pc = p /\ session'.group = g /\ KeepsEntry /\ KeepsFailed
  BY <1>1, <1>5, Zenon DEF Session
<1>6. ASSUME NEW t \in Task, HookMove(t)
      PROVE  \/ session' = session /\ session.pc = "running" /\ album'[t] # "broken"
             \/ /\ Moves("running", "raising") /\ KeepsEntry /\ KeepsGroup
                /\ session'.failed = TRUE /\ album'[t] = "broken"
  <2>1. PICK fate \in {"checked", "parked", "matched", "chosen", "skipped", "broken"} :
           /\ Becomes(t, fate) /\ session.pc = "running"
           /\ IF fate = "broken" THEN Fail("raising") ELSE UNCHANGED session
    BY <1>6 DEF HookMove
  <2>2. album'[t] = fate
    BY <1>1, <2>1 DEF Becomes
  <2> QED BY <1>3, <2>1, <2>2, Zenon
<1>7. ASSUME Start
      PROVE  (Moves("starting", "removing") \/ Moves("starting", "applying")) /\ KeepsRest
  <2>1. PICK p \in {"removing", "applying"} : session' = [session EXCEPT !.pc = p]
    BY <1>7 DEF Start
  <2> QED BY <1>2, <1>7, <2>1 DEF Start
<1>8. ASSUME RemoveEntry
      PROVE  \/ Moves("removing", "leaving") /\ KeepsEntry /\ KeepsGroup /\ session'.failed = TRUE
             \/ Moves("removing", "applying") /\ KeepsGroup /\ KeepsFailed
  BY <1>3, <1>4, <1>8, Zenon DEF RemoveEntry
<1>9. ASSUME RunSession
      PROVE  /\ Moves("installing", "running") /\ KeepsEntry /\ KeepsFailed
             /\ session'.group = SessionOverrides.group
  BY <1>5, <1>9, Zenon DEF RunSession
<1>10. /\ ApplySettings => Moves("applying", "installing") /\ KeepsRest
       /\ SessionReturns => Moves("running", "leaving") /\ KeepsRest
       /\ SessionRaises => Moves("raising", "leaving") /\ KeepsRest
       /\ Leave => Moves("leaving", "left") /\ KeepsRest
       /\ Retarget => Moves("left", "done") /\ KeepsRest
       /\ Die => session'.pc = "gone" /\ KeepsRest
  BY <1>2, Zenon DEF ApplySettings, SessionReturns, SessionRaises, Leave, Retarget, Die
<1> QED BY <1>6, <1>7, <1>8, <1>9, <1>10

\* What the steps do to the albums.
Told == {t \in Task : album[t] = "told"}
AlbumsKept == album' = album /\ entry' = entry

LEMMA Quiet ==
    ASSUME SessionNext, ~ \E t \in Task : HookStep(t)
    PROVE  /\ AlbumsKept
           /\ counted' = counted \/ Die
           /\ result' = result \/ Die \/ SessionReturns
           /\ (aborting' = aborting /\ spared' = spared) \/ RequestAbort
           /\ inferred' = inferred \/ Retarget
  BY DEF SessionNext, AlbumsKept, RequestAbort, OpenerLooks, OpenerApplies, Start, RemoveEntry,
     ApplySettings, RunSession, SessionReturns, SessionRaises, Leave, Retarget, FlushesOnly,
     StreamOnly, Die, sessionVars

LEMMA HookAlbums ==
    ASSUME SessionInv, NEW t \in Task, HookStep(t)
    PROVE  /\ album' \in [Task -> Fate]
           /\ \A u \in Task : u # t => album'[u] = album[u]
           /\ \/ /\ HookMove(t)
                 /\ album[t] \in {"queued", "checked", "parked", "matched"}
                 /\ album'[t] \in {"checked", "parked", "matched", "chosen", "skipped", "broken"}
                 /\ aborting /\ album[t] = "queued" => album'[t] \in {"skipped", "broken"}
                 /\ entry' = entry /\ counted' = counted
              \/ /\ Land(t) /\ album[t] = "chosen" /\ album'[t] = "landed"
                 /\ counted' = counted /\ session' = session
                 /\ session.pc \in {"running", "raising"}
              \/ /\ Narrate(t) /\ album[t] = "landed" /\ album'[t] = "told"
                 /\ entry' = entry /\ session' = session
                 /\ session.pc \in {"running", "raising"}
                 /\ counted' = counted \union {t}
           /\ result' = result /\ aborting' = aborting /\ spared' = spared /\ inferred' = inferred
<1>1. /\ album \in [Task -> Fate]
      /\ narrator \in BOOLEAN /\ (narrator <=> session.pc \in {"running", "raising"})
  BY DEF SessionInv, JobTypeOK
<1>2. CASE HookMove(t)
  <2>1. PICK fate \in {"checked", "parked", "matched", "chosen", "skipped", "broken"} :
           Becomes(t, fate) /\ (aborting /\ album[t] = "queued" => fate \in {"skipped", "broken"})
    BY <1>2 DEF HookMove
  <2>2. fate \in Fate
    BY DEF Fate
  <2>3. /\ album' \in [Task -> Fate] /\ album'[t] = fate
        /\ \A u \in Task : u # t => album'[u] = album[u]
    BY <1>1, <2>1, <2>2, AlbumUpdate
  <2> QED BY <1>2, <2>1, <2>3 DEF HookMove, HookOnly
<1>3. CASE Land(t)
  <2>1. /\ album' \in [Task -> Fate] /\ album'[t] = "landed"
        /\ \A u \in Task : u # t => album'[u] = album[u]
    BY <1>1, <1>3, AlbumUpdate DEF Land, Fate
  <2> QED BY <1>3, <2>1 DEF Land, Piped, At
<1>4. CASE Narrate(t)
  <2>1. /\ album' \in [Task -> Fate] /\ album'[t] = "told"
        /\ \A u \in Task : u # t => album'[u] = album[u]
    BY <1>1, <1>4, AlbumUpdate DEF Narrate, Fate
  <2>2. session.pc \in {"running", "raising"}
    BY <1>4 DEF Narrate, Piped, At
  <2>3. narrator
    BY <1>1, <2>2, Zenon
  <2>4. counted' = counted \union {t}
    BY <1>4, <2>3 DEF Narrate
  <2> QED BY <1>4, <2>1, <2>2, <2>4 DEF Narrate
<1> QED BY <1>2, <1>3, <1>4, HookMoves

LEMMA StagesKept ==
    ASSUME SessionInv, SessionNext
    PROVE  /\ StageInv'
           /\ album' \in [Task -> Fate]
           /\ counted' \subseteq Task /\ result' \subseteq counted'
<1>1. /\ StageInv /\ album \in [Task -> Fate]
      /\ counted \subseteq Task /\ result \subseteq counted
  BY DEF SessionInv, JobTypeOK
<1> DEFINE Kept3 == album' = album /\ counted' = counted /\ result' = result
<1> USE DEF StageInv, Before, Moves, KeepsRest, KeepsEntry, KeepsGroup, KeepsFailed, AlbumsKept
<1>2. ASSUME NEW t \in Task, HookStep(t)
      PROVE  StageInv' /\ album' \in [Task -> Fate] /\ counted' \subseteq Task /\ result' \subseteq counted'
  <2>1. session.pc \in {"running", "raising"}
        /\ (session' = session \/ (session.pc = "running" /\ session'.pc = "raising" /\ session'.failed = TRUE))
    BY <1>2, HookAlbums, Fields DEF HookMove
  <2>2. counted' = {u \in Task : album'[u] = "told"}
    BY <1>1, <1>2, <2>1, HookAlbums
  <2> QED BY <1>1, <1>2, <2>1, <2>2, HookAlbums
<1>3. CASE Start \/ RemoveEntry \/ ApplySettings
  <2>1. Kept3
    BY <1>3 DEF Start, RemoveEntry, ApplySettings
  <2> QED BY <1>1, <1>3, <2>1, Fields
<1>4. CASE RunSession
  <2>1. Kept3
    BY <1>4 DEF RunSession
  <2>2. counted' = {u \in Task : album'[u] = "told"}
    BY <1>1, <1>4, <2>1, Fields
  <2> QED BY <1>1, <1>4, <2>1, <2>2, Fields
<1>5. CASE SessionReturns
  BY <1>1, <1>5, Fields DEF SessionReturns
<1>6. CASE SessionRaises \/ Leave \/ Retarget
  <2>1. Kept3
    BY <1>6 DEF SessionRaises, Leave, Retarget
  <2> QED BY <1>1, <1>6, <2>1, Fields
<1>7. CASE Die
  BY <1>1, <1>7, Fields DEF Die
<1>8. CASE RequestAbort \/ OpenerLooks \/ OpenerApplies \/ FlushesOnly \/ StreamOnly
  <2>1. Kept3 /\ session' = session
    BY <1>8 DEF RequestAbort, OpenerLooks, OpenerApplies, FlushesOnly, StreamOnly, sessionVars
  <2> QED BY <1>1, <2>1
<1> QED
  BY <1>2, <1>3, <1>4, <1>5, <1>6, <1>7, <1>8 DEF SessionNext

LEMMA ConfigKept ==
    ASSUME SessionInv, SessionNext
    PROVE  ConfigInv'
<1>1. /\ ConfigInv /\ job' = job
      /\ applied \in BOOLEAN
  BY SessionTypes DEF SessionInv, JobTypeOK
<1>2. SessionOverrides' = SessionOverrides
  BY <1>1 DEF SessionOverrides
<1> DEFINE Same == config' = config /\ applied' = applied
<1> USE DEF ConfigInv, Moves, KeepsRest, KeepsEntry, KeepsGroup, KeepsFailed
<1>3. CASE Start \/ RemoveEntry
  <2>1. applied' = TRUE \/ (RemoveEntry /\ applied' = applied)
    BY <1>3 DEF Start, RemoveEntry, configVars
  <2> QED BY <1>1, <1>3, <2>1, Fields
<1>4. CASE ApplySettings
  <2>1. Named(config', MergedField(job.field, session.preserved)) /\ applied' = applied
    <3>1. config \in Settings /\ job.group \in BOOLEAN
      BY JobType DEF SessionInv, JobTypeOK
    <3>2. MergedField(job.field, session.preserved) \in Field
      BY JobType DEF SessionInv, JobTypeOK, Session, Field, MergedField
    <3> QED BY <1>4, <3>1, <3>2, OverlayNames DEF ApplySettings
  <2>2. Moves("applying", "installing") /\ KeepsRest
    BY <1>4, Fields
  <2>3. MergedField(job.field, session.preserved)' = MergedField(job.field, session.preserved)
    BY <1>1, <2>2 DEF MergedField
  <2> QED BY <1>1, <2>1, <2>2, <2>3
<1>5. CASE \/ RunSession \/ SessionReturns \/ SessionRaises \/ Leave \/ Retarget
           \/ \E t \in Task : HookStep(t)
  <2>1. Same
    BY <1>5, HookMoves DEF RunSession, SessionReturns, SessionRaises, Leave, Retarget,
       HookMove, HookOnly, Land, Narrate, configVars
  <2>2. CASE \E t \in Task : HookStep(t)
    <3>1. session.pc \in {"running", "raising"}
          /\ (session' = session \/ (session'.pc = "raising" /\ KeepsEntry /\ KeepsGroup))
      BY <2>2, HookAlbums, Fields DEF HookMove
    <3> QED BY <1>1, <1>2, <2>1, <3>1 DEF MergedField
  <2> QED BY <1>1, <1>2, <1>5, <2>1, <2>2, Fields DEF MergedField
<1>6. CASE OpenerApplies
  <2>1. session' = session /\ applied' = TRUE /\ (applied => config' = config)
    BY <1>6 DEF OpenerApplies
  <2>2. session.pc \in {"installing", "running", "raising"} => config' = config
    BY <1>1, <2>1
  <2> QED BY <1>1, <1>2, <2>1, <2>2 DEF MergedField
<1>7. CASE Die
  BY <1>7, Fields
<1>8. CASE RequestAbort \/ OpenerLooks \/ FlushesOnly \/ StreamOnly
  <2>1. Same /\ session' = session
    BY <1>8 DEF RequestAbort, OpenerLooks, FlushesOnly, StreamOnly, sessionVars, configVars
  <2> QED BY <1>1, <1>2, <2>1 DEF MergedField
<1> QED
  BY <1>3, <1>4, <1>5, <1>6, <1>7, <1>8 DEF SessionNext

LEMMA SettingsKept ==
    ASSUME SessionInv, SessionNext
    PROVE  NamedSettingsAreOwn' /\ entry' \in [Task -> Settings \union {Unset}]
<1>1. /\ NamedSettingsAreOwn /\ ConfigInv /\ StageInv /\ job' = job
      /\ entry \in [Task -> Settings \union {Unset}] /\ album \in [Task -> Fate]
      /\ config \in Settings /\ session \in Session
      /\ session.preserved \in {NoValue, Kept} /\ job.field \in {NoValue, "submitted"}
  BY SessionTypes, JobType DEF SessionInv, JobTypeOK, Session
<1>2. CASE \E t \in Task : Land(t) /\ HookStep(t)
  <2>1. PICK t \in Task : Land(t) /\ HookStep(t)
    BY <1>2
  <2> DEFINE e == [group |-> session.group, field |-> config.field]
  <2>2. /\ session.pc \in {"running", "raising"} /\ session' = session
        /\ \A u \in Task : u # t => album'[u] = album[u]
    BY <2>1, HookAlbums DEF Land, Piped, At
  <2>3. entry' = [entry EXCEPT ![t] = e]
    BY <2>1 DEF Land
  <2>4. e \in Settings
    <3>1. session.group \in BOOLEAN
      BY <1>1 DEF Session
    <3>2. config.field \in Field
      BY <1>1 DEF Settings
    <3> QED BY <3>1, <3>2, Zenon DEF Settings
  <2>5. e.group = (job.group /\ ~job.clean)
    BY <1>1, <2>2, JobType DEF ConfigInv, SessionInv
  <2>6. /\ session.preserved # NoValue => e.field = session.preserved
        /\ session.preserved = NoValue /\ job.field # NoValue => e.field = job.field
    BY <1>1, <2>2 DEF ConfigInv, Named, MergedField
  <2> HIDE DEF e
  <2>7. entry' \in [Task -> Settings \union {Unset}]
    BY <1>1, <2>3, <2>4
  <2>8. ASSUME NEW u \in InLibrary'
        PROVE  /\ entry'[u].group = (job'.group /\ ~job'.clean)
               /\ session'.preserved # NoValue => entry'[u].field = session'.preserved
               /\ session'.preserved = NoValue /\ job'.field # NoValue => entry'[u].field = job'.field
    <3>1. CASE u = t
      <4>1. entry'[u] = e
        BY <1>1, <2>3, <3>1 DEF InLibrary
      <4> QED BY <1>1, <2>2, <2>5, <2>6, <4>1, Zenon
    <3>2. CASE u # t
      <4>1. u \in InLibrary /\ entry'[u] = entry[u]
        BY <1>1, <2>2, <2>3, <2>8, <3>2 DEF InLibrary
      <4> QED BY <1>1, <2>2, <4>1, Zenon DEF NamedSettingsAreOwn
    <3> QED BY <3>1, <3>2
  <2> QED BY <2>7, <2>8 DEF NamedSettingsAreOwn
<1>3. CASE entry' = entry
  <2>1. CASE InLibrary' \subseteq InLibrary /\ session'.preserved = session.preserved
    BY <1>1, <1>3, <2>1, Zenon DEF NamedSettingsAreOwn
  <2>2. CASE InLibrary' = {}
    BY <1>1, <1>3, <2>2, Zenon DEF NamedSettingsAreOwn
  <2>3. ASSUME NEW t \in Task, HookStep(t)
        PROVE  Land(t) \/ (InLibrary' \subseteq InLibrary /\ session'.preserved = session.preserved)
    <3>1. session'.preserved = session.preserved
      BY <2>3, HookAlbums, Fields DEF KeepsEntry
    <3>2. Land(t) \/ InLibrary' \subseteq InLibrary
      BY <2>3, HookAlbums DEF InLibrary
    <3> QED BY <3>1, <3>2
  <2>4. CASE RemoveEntry
    <3>1. album' = album
      BY <2>4 DEF RemoveEntry
    <3>2. session.pc = "removing"
      BY <2>4 DEF RemoveEntry, At
    <3> QED BY <1>1, <2>2, <3>1, <3>2 DEF StageInv, Before, InLibrary
  <2>5. CASE ~RemoveEntry /\ ~\E t \in Task : HookStep(t)
    <3>1. album' = album
      BY <2>5, Quiet DEF AlbumsKept
    <3>2. session' = session \/ KeepsEntry
      BY <2>5, Fields DEF SessionNext, KeepsRest, RequestAbort, OpenerLooks, OpenerApplies,
         FlushesOnly, StreamOnly, sessionVars
    <3> QED BY <2>1, <3>1, <3>2 DEF InLibrary, KeepsEntry
  <2> QED BY <1>2, <2>1, <2>3, <2>4, <2>5
<1>4. entry' = entry \/ \E t \in Task : Land(t) /\ HookStep(t)
  BY Quiet, HookAlbums DEF AlbumsKept
<1> QED BY <1>2, <1>3, <1>4

\* An album that was spared is never chosen.
LEMMA SparedKept ==
    ASSUME SessionInv, SessionNext
    PROVE  SparedInv' /\ aborting' \in BOOLEAN /\ spared' \subseteq Task
<1>1. SparedInv /\ aborting \in BOOLEAN /\ spared \subseteq Task
  BY DEF SessionInv, JobTypeOK
<1> USE DEF SparedInv
<1>2. CASE RequestAbort
  BY <1>1, <1>2 DEF RequestAbort
<1>3. ASSUME NEW t \in Task, HookStep(t)
      PROVE  SparedInv' /\ aborting' \in BOOLEAN /\ spared' \subseteq Task
  <2>1. aborting' = aborting /\ spared' = spared
    BY <1>3, HookAlbums
  <2>2. ASSUME NEW u \in spared PROVE album'[u] \in {"queued", "skipped", "broken"}
    <3>1. album[u] \in {"queued", "skipped", "broken"} /\ aborting /\ u \in Task
      BY <1>1, <2>2
    <3>2. CASE u # t
      BY <1>3, <3>1, <3>2, HookAlbums
    <3>3. CASE u = t
      BY <1>3, <3>1, <3>3, HookAlbums
    <3> QED BY <3>2, <3>3
  <2> QED BY <1>1, <2>1, <2>2
<1>4. CASE ~RequestAbort /\ ~ \E t \in Task : HookStep(t)
  BY <1>1, <1>4, Quiet DEF AlbumsKept
<1> QED BY <1>2, <1>3, <1>4

\* What was imported, in the cases the inference tells apart.
LEMMA OneImported ==
    ASSUME NEW imported \in SUBSET Task
    PROVE  /\ Cardinality(imported) = 1 => NewId(imported) \in imported
           /\ Cardinality(imported) # 1 => NewId(imported) = Dropped
           /\ imported = {} => Cardinality(imported) # 1
<1>1. imported = {} => Cardinality(imported) = 0
  BY FS_EmptySet
<1>2. (\E t \in imported : TRUE) => (CHOOSE t \in imported : TRUE) \in imported
  OBVIOUS
<1> QED BY <1>1, <1>2 DEF NewId

LEMMA ResultKept ==
    ASSUME SessionInv, SessionNext
    PROVE  ResultIsWhatLanded'
<1>1. /\ ResultIsWhatLanded /\ StageInv /\ album \in [Task -> Fate]
      /\ session \in Session
  BY DEF SessionInv, JobTypeOK
<1> USE DEF ResultIsWhatLanded, Moves, KeepsRest, KeepsEntry, KeepsFailed
<1>2. CASE SessionReturns
  <2>1. /\ session.pc = "running" /\ session'.failed = session.failed /\ result' = counted
        /\ album' = album /\ \A t \in Task : album[t] \in {"skipped", "told"}
    BY <1>2, Fields DEF SessionReturns
  <2>2. InLibrary' = counted
    BY <1>1, <2>1 DEF StageInv, InLibrary
  <2> QED BY <1>1, <2>1, <2>2 DEF StageInv
<1>3. CASE SessionRaises \/ RemoveEntry
  <2>1. result' = result /\ session.pc \in {"removing", "raising"}
    BY <1>3 DEF SessionRaises, RemoveEntry, At
  <2>2. session'.pc = "leaving" => session'.failed = TRUE
    BY <1>1, <1>3, Fields DEF StageInv, Session
  <2>3. session'.pc \in {"leaving", "applying"}
    BY <1>3, Fields
  <2> QED BY <1>1, <2>1, <2>2, <2>3 DEF StageInv, Before
<1>4. ASSUME NEW t \in Task, HookStep(t)
      PROVE  session'.pc \in {"running", "raising"}
  BY <1>4, HookAlbums, Fields DEF HookMove
<1>5. CASE Leave \/ Retarget
  <2>1. result' = result /\ InLibrary' = InLibrary
    BY <1>5 DEF Leave, Retarget, InLibrary
  <2> QED BY <1>1, <1>5, <2>1, Fields
<1>6. CASE Start \/ ApplySettings \/ RunSession \/ Die
  BY <1>6, Fields
<1>7. CASE RequestAbort \/ OpenerLooks \/ OpenerApplies \/ FlushesOnly \/ StreamOnly
  <2>1. result' = result /\ InLibrary' = InLibrary /\ session' = session
    BY <1>7 DEF RequestAbort, OpenerLooks, OpenerApplies, FlushesOnly, StreamOnly, sessionVars,
       InLibrary
  <2> QED BY <1>1, <2>1
<1> QED
  BY <1>2, <1>3, <1>4, <1>5, <1>6, <1>7 DEF SessionNext

LEMMA InferenceKept ==
    ASSUME SessionInv, SessionNext
    PROVE  InferenceInv' /\ InferenceFollows' /\ inferred' \in Inference
<1>1. /\ InferenceInv /\ InferenceFollows /\ ResultIsWhatLanded /\ inferred \in Inference
      /\ session \in Session /\ result \subseteq Task
  BY DEF SessionInv, JobTypeOK
<1> USE DEF InferenceInv, Moves, KeepsRest, KeepsEntry, KeepsFailed
<1>2. CASE Retarget
  <2>1. /\ session.pc = "left" /\ session'.pc = "done"
        /\ session'.removed = session.removed /\ session'.failed = session.failed
        /\ album' = album /\ inferred.entry = Old
    BY <1>1, <1>2, Fields DEF Retarget
  <2>2. CASE inferred' = inferred
    BY <1>1, <2>1, <2>2 DEF InferenceFollows
  <2>3. CASE session.removed /\ inferred' = [entry |-> NewId(result), tracks |-> Dropped]
    <3>1. InLibrary' = InLibrary /\ InLibrary \subseteq Task
      BY <2>1 DEF InLibrary
    <3>2. result = IF session.failed THEN {} ELSE InLibrary
      BY <1>1, <2>1 DEF ResultIsWhatLanded
    <3>3. /\ inferred'.entry = NewId(result) /\ inferred'.tracks = Dropped
      BY <2>3
    <3>4. IF ~session.failed /\ Cardinality(InLibrary) = 1
          THEN inferred'.entry \in InLibrary ELSE inferred'.entry = Dropped
      BY <1>1, <3>1, <3>2, <3>3, OneImported
    <3>5. NewId(result) \in Task \union {Old, Dropped}
      BY <1>1, OneImported
    <3>6. inferred' \in Inference
      BY <2>3, <3>5 DEF Inference
    <3> QED BY <2>1, <2>3, <3>1, <3>3, <3>4, <3>6 DEF InferenceFollows
  <2> QED BY <1>2, <2>2, <2>3 DEF Retarget
<1>3. CASE inferred' = inferred /\ ~Retarget
  <2>1. CASE inferred.entry = Old
    BY <1>1, <1>3, <2>1 DEF InferenceFollows
  <2>2. CASE session.pc \in {"done", "gone"}
    <3>1. album' = album
      BY <2>2, HookAlbums, Quiet DEF AlbumsKept, HookMove
    <3>2. /\ session'.pc \in {"done", "gone"}
          /\ session'.removed = session.removed /\ session'.failed = session.failed
      <4>1. CASE Die
        BY <4>1, Fields
      <4>2. CASE session' = session
        BY <2>2, <4>2
      <4>3. session' = session \/ Die
        BY <1>3, <2>2, Fields, HookAlbums DEF SessionNext, RequestAbort, OpenerLooks, OpenerApplies,
           FlushesOnly, StreamOnly, sessionVars, HookMove
      <4> QED BY <4>1, <4>2, <4>3
    <3>3. InLibrary' = InLibrary
      BY <3>1 DEF InLibrary
    <3> QED BY <1>1, <1>3, <3>2, <3>3 DEF InferenceFollows
  <2> QED BY <1>1, <2>1, <2>2
<1>4. inferred' = inferred \/ Retarget
  BY Quiet, HookAlbums
<1> QED BY <1>2, <1>3, <1>4

-----------------------------------------------------------------------------
(* The theorems of the session.                                            *)

LEMMA StepSessionInv == StreamInv /\ SessionInv /\ [SessionNext]_jobVars => SessionInv'
<1> SUFFICES ASSUME StreamInv, SessionInv, [SessionNext]_jobVars PROVE SessionInv'
  OBVIOUS
<1>1. TypeOK'
  BY SessionKeepsStream DEF StreamInv
<1>2. CASE SessionNext
  <2>1. job' \in {s.job : s \in Starts}
    BY <1>2, SessionTypes DEF SessionInv, JobTypeOK
  <2>2. JobTypeOK'
    BY <1>1, <1>2, <2>1, ConfigTypes, SessionTypes, StagesKept, SettingsKept, SparedKept, InferenceKept
       DEF JobTypeOK
  <2> QED
    BY <1>2, <2>2, ConfigKept, StagesKept, SettingsKept, SparedKept, ResultKept, InferenceKept
       DEF SessionInv
<1>3. CASE UNCHANGED jobVars
  <2>1. UNCHANGED <<config, applied, opener, job, session, album, entry, narrator, counted, result,
                    aborting, spared, inferred>>
    BY <1>3 DEF jobVars, sessionVars, configVars
  <2>2. JobTypeOK'
    BY <1>1, <2>1 DEF SessionInv, JobTypeOK
  <2>3. StageInv' /\ SparedInv' /\ InferenceInv'
    BY <2>1 DEF SessionInv, StageInv, SparedInv, InferenceInv
  <2>4. ConfigInv'
    BY <2>1 DEF SessionInv, ConfigInv, MergedField, SessionOverrides
  <2>5. NamedSettingsAreOwn' /\ ResultIsWhatLanded' /\ InferenceFollows'
    BY <2>1 DEF SessionInv, NamedSettingsAreOwn, ResultIsWhatLanded, InferenceFollows, InLibrary
  <2> QED BY <2>2, <2>3, <2>4, <2>5 DEF SessionInv
<1> QED BY <1>2, <1>3

LEMMA SessionInvariant == SessionSpec => []SessionInv
<1>1. InitSession => StreamInv /\ SessionInv
  BY InitStream, InitSessionInv DEF InitSession
<1>2. StreamInv /\ SessionInv /\ [SessionNext]_jobVars => (StreamInv /\ SessionInv)'
  BY SessionKeepsStream, StepSessionInv
<1> QED BY <1>1, <1>2, PTL DEF SessionSpec

\* JobTypeOK: whatever job meets whatever earlier jobs left in the process.
THEOREM SessionTypeCorrect == SessionSpec => []JobTypeOK
<1>1. SessionInv => JobTypeOK
  BY DEF SessionInv
<1> QED BY <1>1, SessionInvariant, PTL

\* NamedSettingsAreOwn: every album is grouped as its job says, and has the job's or
\* the preserved value of a field that these name, for any number of albums and
\* whatever the process-global configuration held before.
THEOREM OwnSettings == SessionSpec => []NamedSettingsAreOwn
<1>1. SessionInv => NamedSettingsAreOwn
  BY DEF SessionInv
<1> QED BY <1>1, SessionInvariant, PTL

\* ResultIsWhatLanded: a job reports all it imported, and nothing if it broke off.
THEOREM ResultsAreWhatLanded == SessionSpec => []ResultIsWhatLanded
<1>1. SessionInv => ResultIsWhatLanded
  BY DEF SessionInv
<1> QED BY <1>1, SessionInvariant, PTL

\* AbortStops: what no hook had looked at when the abort came stays out.
THEOREM AbortsStop == SessionSpec => []AbortStops
<1>1. SessionInv => AbortStops
  BY DEF SessionInv, SparedInv, AbortStops, InLibrary
<1> QED BY <1>1, SessionInvariant, PTL

\* InferenceFollows: the inference of a removed entry goes to the one entry that
\* replaced it, or nowhere.
THEOREM InferencesFollow == SessionSpec => []InferenceFollows
<1>1. SessionInv => InferenceFollows
  BY DEF SessionInv
<1> QED BY <1>1, SessionInvariant, PTL

=============================================================================

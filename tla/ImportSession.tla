---------------------------- MODULE ImportSession ----------------------------
(***************************************************************************)
(* What one job does in beets' pipeline (core/import_worker.py,              *)
(* _run_import_blocking and WebImportSession), with the output it streams    *)
(* (OutputStream): the library is opened, which applies beets' config file   *)
(* once per process, its settings are laid over beets' process-global        *)
(* configuration, its albums are decided one after another in one thread of  *)
(* the pipeline and put into the library in another, a narrator counts them, *)
(* and the inferred source path of a clean-slated entry follows the import.  *)
(*                                                                         *)
(* External: beets, which calls the hooks album by album, reads set_fields   *)
(* from the global configuration as it applies an album, and stops all of    *)
(* its threads when one raises.                                            *)
(***************************************************************************)
EXTENDS OutputStream, Integers, FiniteSets

CONSTANTS Starts,      \* a job and the process it finds: [job : [quiet, clean,
                       \* group, field], applied, config]
          ConfigFile,  \* the `import` section of beets' config file: [group, field]
          BuiltIn,     \* the section before the file is applied
          Albums       \* how many albums a job's folder holds

NoValue == "none"   \* a `--set` field that is not given
Kept == "kept"      \* a clean-slated entry's value of that field

Earlier == "earlier" \* what an earlier job gave or kept

Field == {NoValue, Kept, Earlier, "submitted", "configured"}
Settings == [group : BOOLEAN, field : Field]

\* The global configuration is a pile of overlays, and whoever sets a key puts one
\* on top.  group_albums is read from the topmost that has it; over set_fields beets
\* iterates, which finds each field in the topmost overlay that names it.
Overlay(under, group, field) ==
    [group |-> group, field |-> IF field = NoValue THEN under.field ELSE field]

ASSUME SessionAssumption ==
    /\ Albums \in Nat \ {0}
    /\ {ConfigFile, BuiltIn} \subseteq Settings
    /\ \A s \in Starts :
          /\ s.job \in [quiet : BOOLEAN, clean : BOOLEAN, group : BOOLEAN,
                       field : {NoValue, "submitted"}]
          /\ s.applied \in BOOLEAN
          /\ s.job.clean => ~s.job.group   \* a clean slate's request has no such field
          \* earlier jobs leave anything in a process, a new one has nothing applied
          /\ IF s.applied THEN s.config \in Settings ELSE s.config = BuiltIn
          \* what the file names stays named
          /\ s.applied /\ ConfigFile.field # NoValue => s.config.field # NoValue

VARIABLES config,     \* beets' global import configuration
          applied,    \* whether the config file is applied to it
          opener,     \* a request that opens the library meanwhile: whether it
                      \* found the file not applied, and waits for _config_lock
          job,        \* the job at work
          session,    \* where _run_import_blocking is
          album,      \* album -> what has become of it
          entry,      \* album -> the settings it was imported with
          narrator,   \* whether a narrator is in its slot
          counted,    \* the albums it has counted
          result,     \* the ids copied to the result
          aborting,   \* abort_requested
          spared,     \* the albums no hook had looked at when it was
          inferred    \* whose the inferred source paths of the removed entry and of
                      \* its tracks are now

configVars == <<config, applied, opener>>
sessionVars == <<configVars, job, session, album, entry, narrator, counted, result,
                 aborting, spared, inferred>>
jobVars == <<vars, sessionVars>>

Task == 1..Albums
Old == 0       \* the inference is still that of the removed entry,
Dropped == -1  \* or is gone
Unset == [group |-> FALSE, field |-> "unset"]

Fate == {"queued", "checked", "parked", "matched", "chosen", "landed", "told",
         "skipped", "broken"}

\* Where _run_import_blocking is, and the locals it carries along; group is of the
\* session's own copy of the configuration.
Stage == {"starting", "removing", "applying", "installing", "running", "raising",
          "leaving", "left", "done", "gone"}
Session == [pc : Stage,
            removed : BOOLEAN, preserved : {NoValue, Kept},
            group : BOOLEAN, failed : BOOLEAN]

Inference == [entry : Task \union {Old, Dropped}, tracks : {Old, Dropped}]

JobTypeOK ==
    /\ TypeOK
    /\ config \in Settings /\ applied \in BOOLEAN /\ opener \in BOOLEAN
    /\ job \in {s.job : s \in Starts}
    /\ session \in Session
    /\ album \in [Task -> Fate]
    /\ entry \in [Task -> Settings \union {Unset}]
    /\ narrator \in BOOLEAN /\ (narrator <=> session.pc \in {"running", "raising"})
    /\ counted \subseteq Task /\ result \subseteq counted
    /\ aborting \in BOOLEAN /\ spared \subseteq Task
    /\ inferred \in Inference

InitSession ==
    /\ Init
    /\ \E s \in Starts : job = s.job /\ applied = s.applied /\ config = s.config
    /\ opener = FALSE
    /\ session = [pc |-> "starting", removed |-> FALSE, preserved |-> NoValue,
                  group |-> FALSE, failed |-> FALSE]
    /\ album = [t \in Task |-> "queued"]
    /\ entry = [t \in Task |-> Unset]
    /\ narrator = FALSE /\ counted = {} /\ result = {}
    /\ aborting = FALSE /\ spared = {}
    /\ inferred = [entry |-> Old, tracks |-> Old]

-----------------------------------------------------------------------------
(* Users: an abort, and other submissions.                                 *)

RequestAbort ==
    /\ run.pc = "importing" /\ ~aborting
    /\ aborting' = TRUE
    /\ spared' = {t \in Task : album[t] = "queued"}
    /\ UNCHANGED <<vars, configVars, job, session, album, entry, narrator, counted,
                   result, inferred>>

FileOnTop == Overlay(config, ConfigFile.group, ConfigFile.field)

\* A request opens the library.  _apply_config_file_once looks, takes the lock
\* and looks again; applying the file puts it before all that was set until then.
OpenerLooks ==
    /\ ~applied /\ ~opener
    /\ opener' = TRUE
    /\ UNCHANGED <<vars, config, applied, job, session, album, entry, narrator, counted,
                   result, aborting, spared, inferred>>

OpenerApplies_Bug ==
    /\ opener
    /\ opener' = FALSE /\ applied' = TRUE /\ config' = FileOnTop
    /\ UNCHANGED <<vars, job, session, album, entry, narrator, counted, result, aborting,
                   spared, inferred>>

OpenerApplies ==
    /\ opener
    /\ opener' = FALSE /\ applied' = TRUE
    /\ config' = IF applied THEN config ELSE FileOnTop
    /\ UNCHANGED <<vars, job, session, album, entry, narrator, counted, result, aborting,
                   spared, inferred>>

-----------------------------------------------------------------------------
(* _run_import_blocking up to session.run().                               *)

At(pc) == run.pc = "importing" /\ session.pc = pc
Goto(pc) == session' = [session EXCEPT !.pc = pc]
Fail(pc) == session' = [session EXCEPT !.pc = pc, !.failed = TRUE]
Says(k) == AppendLines(k)
Silent == UNCHANGED vars

Start ==
    /\ At("starting") /\ Says(1)
    /\ Goto(IF job.clean THEN "removing" ELSE "applying")
    /\ applied' = TRUE
    /\ config' = IF applied THEN config ELSE FileOnTop
    /\ UNCHANGED <<opener, job, album, entry, narrator, counted, result, aborting,
                   spared, inferred>>

\* A clean slate is refused, or removes the entry and hands over the fields to
\* preserve (CleanSlate has the whole of it).  Nobody looks at the abort here.
RemoveEntry ==
    /\ At("removing")
    /\ \/ Silent /\ Fail("leaving")
       \/ \E k \in 1..2, kept \in {NoValue, Kept} :
             /\ Says(k)
             /\ session' = [session EXCEPT !.pc = "applying", !.removed = TRUE,
                                           !.preserved = kept]
    /\ UNCHANGED <<configVars, job, album, entry, narrator, counted, result, aborting,
                   spared, inferred>>

MergedField_Bug(own, preserved) == IF own = NoValue THEN preserved ELSE own

\* A preserved value wins over the submitter's.
MergedField(own, preserved) == IF preserved = NoValue THEN own ELSE preserved

\* Every key of every job, also the ones it leaves empty; but one more overlay hides
\* no field that it does not name.
ApplySettings ==
    /\ At("applying") /\ Silent
    /\ config' = Overlay(config, job.group, MergedField(job.field, session.preserved))
    /\ Goto("installing")
    /\ UNCHANGED <<applied, opener, job, album, entry, narrator, counted, result, aborting, spared,
                   inferred>>

\* A clean slate imports one album per folder.
SessionOverrides == [group |-> job.group /\ ~job.clean]

\* The narrator takes its slot; the session runs on a detached copy of the
\* configuration, with the job's overrides.
RunSession ==
    /\ At("installing") /\ Silent
    /\ narrator' = TRUE
    /\ session' = [session EXCEPT !.pc = "running", !.group = SessionOverrides.group]
    /\ UNCHANGED <<configVars, job, album, entry, counted, result, aborting, spared,
                   inferred>>

-----------------------------------------------------------------------------
(* The hooks, one album at a time, in one thread of the pipeline.          *)

Asked(t, fate) ==
    /\ At("running") /\ album[t] = fate
    /\ \A s \in 1..(t - 1) : album[s] \in {"chosen", "landed", "told", "skipped"}

Becomes(t, fate) == album' = [album EXCEPT ![t] = fate]

HookOnly == UNCHANGED <<configVars, job, entry, narrator, counted, result, aborting,
                        spared, inferred>>

CheckAbort_Bug(t) ==
    /\ Asked(t, "queued")
    /\ IF aborting /\ ~job.quiet THEN Says(1) /\ Becomes(t, "skipped")
                                 ELSE Silent /\ Becomes(t, "checked")
    /\ HookOnly /\ UNCHANGED session

CheckAbort(t) ==
    /\ Asked(t, "queued")
    /\ IF aborting THEN Says(1) /\ Becomes(t, "skipped")
                   ELSE Silent /\ Becomes(t, "checked")
    /\ HookOnly /\ UNCHANGED session

\* A strong match is applied, anything else skipped or imported as it is.
QuietChoice(t) ==
    /\ Asked(t, "checked") /\ job.quiet
    /\ Says(1)
    /\ \E fate \in {"matched", "skipped"} : Becomes(t, fate)
    /\ HookOnly /\ UNCHANGED session

Park(t) ==
    /\ Asked(t, "checked") /\ ~job.quiet
    /\ Says(1) /\ Becomes(t, "parked")
    /\ HookOnly /\ UNCHANGED session

\* Skip, or as is, or a candidate by its index, which Python counts from the
\* end if it is negative.  Beyond the list it raises in the pipeline.
InRange(index, candidates) == index \in -candidates..(candidates - 1)

Decide(t) ==
    /\ Asked(t, "parked")
    /\ \/ Says(1) /\ (Becomes(t, "skipped") \/ Becomes(t, "matched")) /\ UNCHANGED session
       \/ \E candidates \in 0..1, index \in -1..1 :
             IF InRange(index, candidates)
             THEN Says(1) /\ Becomes(t, "matched") /\ UNCHANGED session
             ELSE Silent /\ Becomes(t, "broken") /\ Fail("raising")
    /\ HookOnly

\* A worker that is told to stop cancels what the hook waits for.
Interrupt(t) ==
    /\ run.stopping
    /\ Asked(t, "queued") \/ Asked(t, "parked")
    /\ Silent /\ Becomes(t, "broken") /\ Fail("raising")
    /\ HookOnly

\* get_duplicate_action; beets asks only if the library has the album.
ResolveDuplicate(t) ==
    /\ Asked(t, "matched")
    /\ \/ Silent /\ Becomes(t, "chosen")
       \/ Says(1) /\ \E fate \in {"chosen", "skipped"} : Becomes(t, fate)
    /\ HookOnly /\ UNCHANGED session

-----------------------------------------------------------------------------
(* The thread that puts chosen albums into the library, and its events.    *)

Piped == At("running") \/ At("raising")

Land(t) ==
    /\ Piped /\ album[t] = "chosen"
    /\ \A s \in 1..(t - 1) : album[s] \notin {"chosen", "landed"}
    /\ Silent /\ Becomes(t, "landed")
    /\ entry' = [entry EXCEPT ![t] = [group |-> session.group, field |-> config.field]]
    /\ UNCHANGED <<configVars, job, session, narrator, counted, result, aborting, spared,
                   inferred>>

Narrate(t) ==
    /\ Piped /\ album[t] = "landed"
    /\ Becomes(t, "told")
    /\ IF narrator THEN Says(1) /\ counted' = counted \union {t}
                   ELSE Silent /\ UNCHANGED counted
    /\ UNCHANGED <<configVars, job, session, entry, narrator, result, aborting, spared,
                   inferred>>

-----------------------------------------------------------------------------
(* session.run() is over.                                                  *)

SessionReturns ==
    /\ At("running") /\ \A t \in Task : album[t] \in {"skipped", "told"}
    /\ IF counted = {} THEN Says(1) ELSE Silent
    /\ narrator' = FALSE /\ result' = counted
    /\ Goto("leaving")
    /\ UNCHANGED <<configVars, job, album, entry, counted, aborting, spared, inferred>>

SessionRaises_Bug ==
    /\ At("raising") /\ \A t \in Task : album[t] # "landed"
    /\ Silent
    /\ narrator' = FALSE /\ result' = counted
    /\ Goto("leaving")
    /\ UNCHANGED <<configVars, job, album, entry, counted, aborting, spared, inferred>>

\* beets joins its threads first: an album may stay chosen, none half told.
SessionRaises ==
    /\ At("raising") /\ \A t \in Task : album[t] # "landed"
    /\ Silent
    /\ narrator' = FALSE
    /\ Goto("leaving")
    /\ UNCHANGED <<configVars, job, album, entry, counted, result, aborting, spared,
                   inferred>>

Leave ==
    /\ At("leaving") /\ ImportEnds
    /\ Goto("left")
    /\ UNCHANGED <<configVars, job, album, entry, narrator, counted, result, aborting,
                   spared, inferred>>

\* The entry the inference moves to: the only one imported, or none.
NewId_Bug(imported) == IF imported = {} THEN Dropped ELSE CHOOSE t \in imported : TRUE

NewId(imported) == IF Cardinality(imported) = 1 THEN CHOOSE t \in imported : TRUE ELSE Dropped

\* retarget_inferred_source_paths, after the job's last writes, best effort.
Retarget ==
    /\ run.pc = "over" /\ session.pc = "left"
    /\ Goto("done")
    /\ IF ~session.removed THEN Silent /\ UNCHANGED inferred
       ELSE \/ Silent /\ inferred' = [entry |-> NewId(result), tracks |-> Dropped]
            \/ UNCHANGED <<lines, version, flush, run, row, inferred>> /\ Fails
    /\ UNCHANGED <<configVars, job, album, entry, narrator, counted, result, aborting,
                   spared>>

HookStep(t) ==
    \/ CheckAbort(t) \/ QuietChoice(t) \/ Park(t) \/ Decide(t) \/ Interrupt(t)
    \/ ResolveDuplicate(t)
    \/ Land(t) \/ Narrate(t)

FlushesOnly == FlushStep /\ UNCHANGED sessionVars

StreamOnly == (FinishStep \/ Shutdown \/ Recover) /\ UNCHANGED sessionVars

\* The library and the database stay, what the process remembers is gone.
Die ==
    /\ Exit
    /\ session' = [session EXCEPT !.pc = "gone"]
    /\ config' = BuiltIn /\ applied' = FALSE /\ opener' = FALSE
    /\ narrator' = FALSE /\ counted' = {} /\ result' = {}
    /\ UNCHANGED <<job, album, entry, aborting, spared, inferred>>

SessionNext ==
    \/ RequestAbort
    \/ session.pc # "gone" /\ (OpenerLooks \/ OpenerApplies)
    \/ Start \/ RemoveEntry \/ ApplySettings \/ RunSession
    \/ \E t \in Task : HookStep(t)
    \/ SessionReturns \/ SessionRaises \/ Leave \/ Retarget
    \/ FlushesOnly \/ StreamOnly \/ Die

\* The fairness of OutputStream's FairSpec: the event loop runs the flush task.
SessionSpec == InitSession /\ [][SessionNext]_jobVars /\ WF_jobVars(FlushesOnly)

-----------------------------------------------------------------------------
(* What is checked of it, besides OutputStream's properties.               *)

InLibrary == {t \in Task : album[t] \in {"landed", "told"}}

\* Whatever earlier jobs left in the process-global configuration and whoever opens
\* the library meanwhile, an album is grouped as its job says, and a field that the
\* job names has the job's value or, first, the one its clean slate preserved
\* (core/import_worker.py:305-312, 326-328, 430-444; core/library.py:79-95).
NamedSettingsAreOwn ==
    \A t \in InLibrary :
        /\ entry[t].group = (job.group /\ ~job.clean)
        /\ session.preserved # NoValue => entry[t].field = session.preserved
        /\ session.preserved = NoValue /\ job.field # NoValue => entry[t].field = job.field

\* "every job sets ALL of these keys, so nothing leaks between jobs": no album is
\* imported with what only an earlier job was given (core/import_worker.py:321-323).
NothingLeaks == \A t \in InLibrary : entry[t].field # Earlier

\* What a job reports as imported is all of what it imported, and nothing if
\* the pipeline broke off (core/import_worker.py:917-927).
ResultIsWhatLanded ==
    session.pc \in {"leaving", "left", "done"} =>
        result = IF session.failed THEN {} ELSE InLibrary

\* An album that no hook had looked at when the abort was requested does not
\* enter the library (core/import_worker.py:470-472).
AbortStops == InLibrary \intersect spared = {}

\* The inferred source path of a removed entry ends at the only entry that was
\* imported in its place, and at none that is one of several, nor at any after
\* an import that broke off; those of its tracks are gone by then
\* (core/import_worker.py:783-799; core/import_store.py:172-209).
InferenceFollows ==
    inferred.entry # Old =>
        /\ session.removed /\ inferred.tracks = Dropped
        /\ IF ~session.failed /\ Cardinality(InLibrary) = 1
           THEN inferred.entry \in InLibrary ELSE inferred.entry = Dropped
=============================================================================

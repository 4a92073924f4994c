# A TLA+ model of beetkeeper

beetkeeper is a web companion for the beets music library manager. A FastAPI
server with a SQLite database of its own (`provides/beetkeeper-core`) runs
interactive beets imports in the background, browses the beets library,
recovers the folders albums were downloaded to, and lists the events that a
small beets plugin (`provides/plugin`) posts to it. This directory models the
parts of it that run concurrently, that survive crashes, or whose rules are
easy to get wrong. Paths below are relative to
`provides/beetkeeper-core/src/beetkeeper/` unless they start with `provides/`.

Status: the import store and worker, the run of a job with its output, the
clean slate, the events and source paths, the login sessions and the migrations
are modelled, checked and proved about. What is left out is listed at the end.

## The system

### Import store (`core/import_store.py`, `db/models.py`, `core/import_jobs.py`, `db/session.py`)

*State.* `import_job`, a row per submitted import (status, owner, abort flag,
the decision request on display, the answer not yet taken, error, output), and
`import_lock`, one row with the holder of the leader lease and its expiry.
*Operations.* `create`, `set_status`, `set_output`, `set_awaiting`,
`submit_decision`, `take_decision`, `request_abort`, `is_abort_requested`,
`ensure_lock_row`, `acquire_lock`, `claim_next`, `recover_orphans`,
`retarget_inferred_source_paths`. *Interactions.* Shared by every server
process; request handlers and the worker never talk to each other otherwise.
*Hard.* Each method is one short session, shielded from cancellation; the
conditional `UPDATE`s are the only synchronisation; several of them are
conditional on one column and write others. *Correct when* the columns of a
row agree with each other at every moment, a job has one owner for ever, and
every active job can be recovered.

### Import worker (`core/import_worker.py`, `api/fastapi_app.py`)

*State.* Per process: its worker id, `_was_leader`, the job it runs, and where
its loop is. *Operations.* The leader loop (acquire, recover, claim, run), the
renewal task, the output flush, the terminal write with its retries.
*Interactions.* The store; the beets pipeline, which runs in threads of its own
and calls back through a portal; `library_write_limiter`, shared with the
handlers that write to the library. *Hard.* Processes are killed, stopped and
replaced at any point; a lease lapses when it is not renewed in time; any store
call may fail; cancellation lands only at unshielded waits. *Correct when* one
import runs at a time, jobs run in their order and at most once, a dead
leader's job is failed before another one is claimed, and every job ends.

### Decision bridge and import session (`core/import_worker.py`, `api/api_routes/import_router.py`, `api/ui_routes/import_ui_fragments_router.py`)

*State.* The request the pipeline is parked on; per job what beets' threads
have decided, imported and told; beets' process-global configuration.
*Operations.* Publish a request, poll for the answer or an abort, answer,
abort; lay the job's settings over the configuration, decide album by album,
count what lands, report it. *Hard.* The page that answers may be old; an abort
may come before, during or after the request; the abort flag and the answer are
read by different calls; one thread decides albums while another one imports
those decided before; the configuration outlives the job and is shared with
every request. *Correct when* the row shows the request the pipeline is parked
on, an abort unparks it and spares what was not looked at, every album is
imported with what its own job or clean slate names, and the result is what landed.

### Output streaming (`core/import_worker.py`)

A buffer that several threads append to, flushed to the row every second and
once more before the terminal status. *Hard.* A flush that started before the
last append must not land after the final write; a failed flush must be
repeated. *Correct when* the row's text is always a prefix of what was
written, and the whole of it once the job has ended.

### Clean slate (`core/clean_slate.py`, `core/import_worker.py`)

A preview, shown before the job is submitted and repeated as the guard before
anything is removed; then library rows, files and album art go, one by one,
and the source folder is imported afresh. *Hard.* Entry and source change
between the previews; the removal fails half-way; the import of the source
fails after the removal. *Correct when* nothing outside the library directory
and nothing of the source is deleted, and nothing at all unless the guard
passed.

### Inferred source paths (`core/import_store.py`, `api/adapters/hooks_adapters.py`)

One row per library entry. A lookup asks the downloader, then writes the row; a
clean slate re-keys the row to the id of the fresh import; the search page
offers the folder recorded by an event, else the inferred one. *Hard.* The
lookup spans an `await`, beets reuses ids, and rows of an id's former entry
stay. *Correct when* the folder offered for an entry is the one it came from.

### Beets library adapter (`core/library.py`)

Applies beets' config file and loads its plugins once per process, under two
locks, and opens a library per call. *Hard.* Double-checked locking; settings
of one job in a configuration every job and every request shares. *Correct
when* the file is applied once, and never over a running job's settings.

### Events (`provides/plugin`, `api/api_routes/events_router.py`, `api/adapters/events_adapters.py`)

The plugin stamps and posts every beets event of interest; the server stores
each with its albums, tracks and paths. The events page lists the newest and
folds an import's two pushes into one record; lookups find the events of an id
and add the entry that has it now. *Hard.* A failed push is swallowed; pushes of
several clients arrive in any order and may carry the same time; ids are
reused; pairs are found by a shared id within a minute and a page. *Correct
when* merging loses and repeats nothing and joins only pushes of one import, and
the newest event of an id tells whether it is in use.

### Login sessions (`api/security`, `api/api_routes/auth_router.py`, `api/ui_routes/auth_ui_router.py`)

A row per session with an expiry; the middleware lets a request through if its
token names a valid one. *Hard.* Expiry and revocation between requests.
*Correct when* a request passes only on a session that was alive while it was
on its way, and a session ends only by its own logout or expiry.

### Migrations (`db/migrations.py`)

At startup the database is compared with the newest revision, backed up and
upgraded; the command line upgrades and downgrades by hand. *Hard.* SQLite
commits each DDL statement by itself, so a crash can leave a part of a
revision; releases are installed in either direction. *Correct when* the server
serves only on the schema its models declare, and what an upgrade takes out is
in a backup.

### Downloader hook (`hooks/downloader_hook.py`)

Builds the query from an entry's fields, parses the answer, maps the
downloader's path to a local one. Pure apart from one HTTP request.

### Without state of their own

Settings, query routes, pages and templates, health, webhooks, and the build. They are listed with the reason in
`PROJECT.json`.

## The modules

| Module | What it is |
| --- | --- |
| `ImportStore` | the two tables and every statement the worker and the handlers execute on them |
| `ImportWorker` | the processes over the store: leader loop, lease, import, decision bridge, shutdown, crashes, failing calls, and the request handlers |
| `SerialImports` | the abstract specification: what a client may see of the jobs |
| `ImportWorkerProperties` | the properties, the refinement mapping and the fairness |
| `MCImportWorker` | values for TLC |
| `ImportWorkerProofs` | facts about the operators; type correctness |
| `ImportSafetyProofs` | what holds with any number of leaders at once; claims that are held |
| `ImportLeaderProofs` | mutual exclusion; recovery, prompts and errors under one leader |
| `ImportRefinementProofs` | the worker implements `SerialImports` |
| `OutputStream` | how the output of one running job reaches its row |
| `CleanSlate` | preview, guard and removal of a clean slate, file by file |
| `MCCleanSlate` | a library, a disk and three sources for TLC |
| `CleanSlateProofs` | its types, its four safety properties |
| `ImportSession` | one job in beets' pipeline, on a shared configuration; extends `OutputStream` |
| `MCImportSession` | the jobs and processes TLC starts from |
| `ImportSessionProofs` | the types and safety properties of `OutputStream` and of `ImportSession` |
| `EventLog` | the plugin's pushes, the stored events, the events page, lookups by id |
| `SourcePaths` | beets' ids, the inferences, and the folder offered; extends `EventLog` |
| `MCSourcePaths` | symmetry and a bound for TLC |
| `SourcePathsProofs` | the types and safety properties of `EventLog` and of `SourcePaths` |
| `LoginSessions` | clients, cookies, tokens, the session rows and the middleware |
| `Migrations` | the twelve revisions, their statements, and the commands that run them |
| `Server` | an installation through its life: `Migrations` and `LoginSessions` together |
| `MCServer` | the releases TLC installs |
| `ServerProofs` | the login invariants, that `Server` implements `LoginSessions`, and what migrations leave of the schema and the backups |

A definition whose name ends in `_Bug` (or, in `LoginSessions`, `_SameToken` and
`_LeavesRefused`) belongs to no behaviour of the model: it
is a slip the definition after it could have had, kept to show that the
properties notice it.

### State and code

`jobs[j]` is the row of job `j`. Jobs are numbered in the order of
`created_at`; a job that was not submitted yet has the status `"absent"`.
`pending` and `submitted` stand for the two JSON columns: a request is the
ordinal of the request within its job (the code draws a `task_id`), an answer
is the request its author was looking at. `error` is NULL, a failure's text, or
recovery's fixed text. `lock` is the lock row with its expiry reduced to
whether it has passed.

`wk[w]` is one server process. A worker id is drawn when a process starts, so a
restarted server is another member of `Worker`. `pc` names the store call or
the wait the process' event loop has reached; each value is explained in the
header of `ImportWorker`. `seen` is the row `claim_next` has selected, `job`
the job in hand, `verdict` the status `_run_job` is about to write. `asked[j]`
counts the requests published for a job, `faults` the store calls that failed.

One store call is one step, with two exceptions that come from SQLite's driver,
which begins a transaction at the first `UPDATE`: `claim_next` is a `SELECT`
(`FindOldest`), an `UPDATE` that is conditional on the status (`Claim`,
`ClaimLost`) and a read-back in a session of its own (`ReadBack`).
`take_decision` selects first as well, but the process that calls it is the
only one to clear the column it looks at, so it stays one step.

A store call that fails does so before its commit. Which calls may fail is the
constant `FaultPoints`, how many the bound `MaxFaults`; where the error ends up
(the next cycle, the job's failure, a retry) is what the code does.

A graceful stop (`Shutdown`) cancels the worker's scope: the renewal task dies
at once, while a shielded store call or a running import goes on. The process
therefore keeps taking steps until it reaches a sleep or the checkpoint of
`to_thread.run_sync` (`CutOff`); an import parked on a decision is woken with
an error, which fails its job (`ImportRaises`).

Here the beets pipeline is reduced to what it asks of the store: a number of
choices, then it returns or raises. What a choice means to beets is in
`ImportSession`.

`OutputStream` looks at one job from the start of its import on, at a finer
grain: the buffer (`lines`, `version`), the flush task with the copy it holds,
`_run_job` between the import and the last terminal write, and the two columns
of the row. Lines are only ever appended to the buffer, so a text is told by
its number of lines. The write of a flush is shielded from cancellation: the
task group is left only after it has landed or failed (`CloseGroup`).

`CleanSlate` has the rows of a library and the files on a disk, and tells a
path from the file it leads to, because the code does not: `_deletion_plan`
compares names, of which only the source's has its symbolic links resolved.
`InLibrary` and `Under` are what the comparison of names says, `Holds` is what
the disk says. A preview reads library and disk in one step; its errors about
the place and the shape of a source are the constant `Allowed`. The worker's
guard (`Guard`), the second plan `remove_entry` makes (`LoadEntry`), each row
(`RemoveRow`) and each file (`Unlink`) are steps of their own, between which
other programs may delete or restore a file or remove rows. The import is one
step: it adds other rows. A clean slate may follow another one.

`ImportSession` refines the import of `OutputStream`: the lines it appends come
from the steps of `_run_import_blocking`. `config` is beets' global `import`
section, reduced to one flag (`group_albums`, which stands for `flat` too) and
one `--set` field. The section is a pile of overlays, each of which hides the
flag of those below but only the fields that it names (`Overlay`), since beets
iterates over the keys of all as it imports; `applied` says whether the config file is in it, and `opener`
is a request that opens the library at the same time, between its two looks at
`_config_state`. `album[t]` is where an album is between beets' query and the
narrator: the hooks run one album at a time, while `Land` and `Narrate`, in
another thread, may be behind. beets reads `set_fields` from the global
configuration as it applies an album, and the grouping from the session's
detached copy, which is why `entry` records both at `Land`. `inferred` is whose
the inference of a clean slate's entry is.

In `EventLog` a beets client has a queue of the events its operation pushes.
`Post` stamps the first and sends it, `Store` is the server's transaction,
`Drop` a request that failed after its retries; between the three anything may
happen. `log` is `listener_event` with its children, and `nr` tells which import
an event belongs to: it is no column, only the properties read it. `SourcePaths`
adds the library that gives ids away (one more than the highest in use, as
SQLite does), the table of inferences and a request that waits for the
downloader. `Search` is any reply whose first result, if it has a path, is the
right one: the model asks what the code does with ids and time, not whether the
downloader knows its files.

In `Migrations` a schema is a set of elements and a revision a sequence of
statements that SQLite commits one by one, followed by what alembic commits with
the stamp. Columns are there when a property or a statement tells them apart. The
`db` commands run while no server does. `LoginSessions` has the middleware in
three steps, `Arrive`, `LookUp` and `Decide`, since `is_token_valid` compares
the expiry with the clock after its database session is closed. `until` and
`ended` are what was handed out and what was taken back, for the properties.
`Server` runs clients while the server serves, restarts it, and loses every
session when a downgrade drops the table.

## The runs

`Worker` is a set of two or three processes, the last of which is never
stopped (`Replaceable`), so that something is always left to take over. Two
jobs are enough for one to wait behind the other and for order to matter; two
requests for an answer to one of them to meet the other; two attempts for
`_FINALIZE_ATTEMPTS`, five in the code, to have a retry and an exhaustion; one
or two faults for a retry to succeed, and for the attempts to run out. All
runs but the fair one use the symmetry of the processes.

| Run | Processes | What it asks |
| --- | --- | --- |
| `import_overlap` | 3, at once; crashes, 1 fault, leases lapse under the dead only | `ErrorIffFailed`; `AtMostOneImport`; `LeaderHasRecovered`; `ParkedOnItsPrompt`; `ImplementsSerialImports` |
| `import_lapse` | 2, at once; crashes, stops, 2 faults, leases lapse at any time | `TypeOK`; `PromptIffAwaiting`; `ActiveIsClaimed`; `AbortedWasRequested`; `OneOwner`; `ClaimedOnce` |
| `import_live` | 2, never at once; crashes, stops, 1 fault | `ClaimIsHeld`; `EveryJobEnds`; `AbortEndsActiveJob` |

| Run | Instance | What it asks |
| --- | --- | --- |
| `job_run` | 2 albums; a quiet first job or an asking clean slate after others; 2 failing writes, 2 attempts | `JobTypeOK`; `EndedOutputIsWhole`; `NamedSettingsAreOwn`; `ResultIsWhatLanded`; `AbortStops`; `InferenceFollows`; `AppendOnly`; `OutputIsShown` |
| `clean_slate` | an album of two tracks with art, a standalone track, three sources, 2 interferences | `TypeOK`; `SourceSurvives`; `RowsOutliveFiles`; `CanBeReplaced`; `Repeatable` |
| `library` | 2 beets clients, 1 lookup, 2 folders, 1 lost push, 2 times, a page of 4 | `SourcePathsTypeOK`; `OffersOwnFolder`; `EveryEventShownOnce`; `PairsAreImports`; `HistoryIsCurrent` |
| `server` | releases of 7 and of 12 revisions, 3 commands, 1 crash, 2 clients, 2 tokens | `LoginTypeOK`; `ServesModelsSchema`; `LoginLasts`; `PassedWasLive`; `LogoutIsOwn`; `NothingLostUnsaved`; `StartFailsOnlyAfterCrash` |

- `import_overlap` (1.06 million states) is what the lease is for: several
  processes of which some die. It has the documented deployment in it (one
  process, restarted by its supervisor) and leaves out graceful stops and stalls, under which the exclusion
  really fails (see the findings).
- `import_lapse` puts two processes that both believe to lead at work on one
  store. Exclusion is gone; what is left is what the conditional updates alone
  guarantee.
- `import_live` has fewer faults than `_FINALIZE_ATTEMPTS`, which is the
  premise of the retry, and no failing read-back, after which no process
  remembers its claim until the next leader (the row says a live process runs
  the job, contrary to `db/models.py:134-135`).
- `job_run` (2.2 million states) has two albums, so that one is decided while
  the other lands, fails or is spared; with two, an inference may have one heir
  or too many. `MaxVersion` lets the longest of these jobs say all it has to
  say. Its failing writes are enough to fail a flush, retry the terminal writes
  and run out of attempts. The job ends, and so does the process: deadlock is
  not looked for.
- `clean_slate` has one track imported in place from a source, which the removal
  must keep; an unrelated source; and a source that the library lies in, so
  that nothing may be deleted. Every set of files is a start. Two
  interferences suffice for one before and one after the guard; since files may
  come back right after it, `CanBeReplaced` speaks of the files the guard saw.
  Deadlock is not looked for: a clean slate that nobody repeats has ended.
- `library` (1.2 million states) has two folders, imported once each, which is
  what it takes for an id to change hands once; a window of no time and one tick
  of the clock, so that pushes are within it and out of it; and a page that all
  pushes but some fit on. One client's pushes may be overtaken by the other's.
  The run follows behaviours in which two of three things happen, in any order
  (`MCBound`): the clock advances, a push is lost, somebody asks the downloader.
- `server` (3.1 million states) has an installation of the older release, three
  commands in any order (installs, starts, upgrades, downgrades) and a crash; a
  browser and a script, a session that lasts two ticks of three. Three commands
  are enough for a downgrade, an install and a start on what they left.

*Fairness.* Weak fairness of each process' own steps: the event loop runs what
can run, a beets thread reaches its end once its choices are made, and a
shutdown is carried out. Weak fairness of starting a process: the supervisor
restarts the server (`docs/quickstart/deployment.md`). Weak fairness of the
lease's expiry: time passes. Users are not assumed to do anything;
`EveryJobEnds` has as its premise that no prompt stays unanswered and unaborted
for ever, and `AbortEndsActiveJob` does without it.

In `OutputStream` and `ImportSession` only the flush task is fair, which the event loop runs every
second: `OutputIsShown` says that a line is shown in the end or the task is
cancelled before (the import is over, or the process stops).

No run asks `AtMostOneImport` of stalls: a leader whose event loop stands still
for thirty seconds loses its lease while its import goes on, and nothing in the
import looks at the lease. The theorem states the condition under which it
holds.

### Where the code and its documentation differ

Five more runs each check a sentence of the documentation and end with a
behaviour that contradicts it.

- `import_rolling_restart`: a stopping process no longer renews its lease but
  waits for its import; after thirty seconds a process started meanwhile takes
  over, fails the job that is still importing and starts another import
  (`api/fastapi_app.py:78-82`; `core/import_worker.py:4-5`).
- `import_stale_answer`: `submit_decision` does not compare the request, so an
  answer from a page that shows an earlier one is taken for the present one
  (`core/import_store.py:226-243`; `core/import_jobs.py:105`).
- `clean_slate_linked`: an album was imported in place through a link inside
  the library directory that leads to the downloads. By name its files are in
  the library and not under the (resolved) source, so the removal deletes the
  files the import is about to read (`core/clean_slate.py:352-353`, `:334`;
  `:172`).
- `session_leak`: a job's `set_fields` is one more overlay on beets' global
  configuration, and beets iterates over the keys of all: a field that an earlier
  job of the process named, or its clean slate preserved, is set on the albums of
  a job that does not name it (`core/import_worker.py:328`, against `:321-323`).
  `tests/core_tests/test_import_worker_settings.py:60-69` reads the topmost
  overlay only. What a job does name, it gets (`NamedSettingsAreOwn`). A field of
  beets' config file stays in force the same way, which is not counted as a leak.
- `server_backup`: a crash inside a revision leaves a file that is stamped with
  the old revision and has a part of the new one. The next start copies it over
  `.pre-<revision>.bak`, whose earlier content was the good one (`GoodBackupsStay`)
  (`db/migrations.py:119-124`; `docs/quickstart/deployment.md:86-95`), and, its
  `upgrade` meeting what exists already, does not start.

Met while modelling, and not a run of their own:

- An abort unparks the import and leaves its prompt in the row; an answer given
  then stays in the row for ever, and the ended job reports
  `decision_submitted` (`core/import_store.py:226`, `core/import_jobs.py:219-225`).
- A worker stopped during an import finishes it, renews its lease, claims the
  next job and drops it; the next leader fails that job as interrupted although
  it never started (`core/import_worker.py:740`, against `:715-716`).
- Until a process opens the library for the first time, requests take their
  defaults from what beets ships and not from the config file; after
  a job, from the topmost overlay, which holds that job's settings
  (`api/api_models/import_api_models.py:18-29`, against `:43-44`).
- `current_beets_subject_state` of an old event is "null if subject no longer
  exists" (`api/api_models/events_api_models.py:98-101`); once the id is reused
  it is another entry's. `HistoryIsCurrent` is what does hold.
- "A matching record from an unrelated earlier import never pairs"
  (`api/adapters/events_adapters.py:249-250`) needs that no push was lost: if
  the second push of an import and the first of another one with the same id
  are, within a minute, the remaining two pair. `PairsAreImports` has the
  premise.
- `settings/user_config.py:252` compares the database's path with the beets
  config file, where its message speaks of the beets database.
- A page logout whose session has expired is redirected to
  `/login?next=/logout`, and from there to a GET of a route that only takes a
  POST.

## The proofs

TLAPS proves the following for all values of the constants that satisfy the
named assumptions of the modules (any number of processes, jobs, requests,
lines, tasks, files, clients, folders, tokens, faults). Each item names its
module, and the inductive invariant without which the property cannot be proved.

1. `ImportWorkerProofs`: `TypeCorrect`. `TypeOK` is not inductive alone: `TypeInv` adds that a
   process past its claim has a job, one that has selected a row remembers it,
   and one about to finalize has a terminal status to write.
2. `ImportSafetyProofs`: `PromptsAreConsistent`, `ActiveJobsAreClaimed`, `AbortsWereRequested`,
   `JobsHaveOneOwner`, `JobsAreClaimedOnce`, without any assumption on leases:
   `IInv` adds to the types how the columns of a row agree (`RowInv`; a job
   has no owner exactly while it is absent or pending) and what processes hold
   (`HandsInv`: the job in a process' hands is one it claimed, and one about to
   write `aborted` has seen the flag). The heart of it is that no step ever
   makes a claimed job pending again.
3. `ImportSafetyProofs`: `ClaimsAreHeld`, under `Remembers`: the read-back after a failed claim does
   not fail, and there are fewer faults than `FinalizeAttempts` (five in the
   code). `AttemptsInv` ties the attempts a process has made at its terminal
   write to the faults that were spent on them, so that the last attempt is not
   a failure; `HeldInv` says which process each active job is with, through
   claim, import and finalization. Without either half of `Remembers` the
   property is false: five failures in a row, or one failure of the read-back,
   leave an active job that no process remembers until the next leader.
4. `ImportLeaderProofs`: `OneImportAtATime`, under `Exclusive`: processes do not overlap, or they do
   and none of them is stopped gracefully or stalls. `ElectionInv` says that
   without overlap at most one process runs (`AloneInv`), and that with timely
   leases a process that leads, or would lead at its next cycle without a
   recovery, holds a lease that has not expired (`LeaseInv`). Either way there
   is at most one leader.
5. `ImportLeaderProofs`: `LeadersHaveRecovered`, `ParkedImportsShowTheirPrompt`,
   `ErrorsAreFailures`, under `Exclusive`: `LeadershipInv` adds to the above
   what a leader knows about the rows (`LeaderInv`): once it has recovered,
   every active job is its own; the row of a parked import is awaiting the
   request the process is parked on; a selected job is still the oldest.
6. `ImportRefinementProofs`: `WorkerImplementsSerialImports`, under `Exclusive`: with the mapping of
   `ImportWorkerProperties` every step of the worker is one of `SerialImports`
   or leaves the jobs and the hands they are in as they are.
7. `ImportSessionProofs`: `StreamTypes`, `EndedJobsShowAll` and `OutputOnlyGrows`, of `OutputStream`
   for any number of appends, failures and attempts. `StreamInv` adds to the
   types that the row never shows more than any copy still to be written, nor a
   copy more than the buffer (`LagInv`), and that once `_run_job` has left the
   group the flush task is gone, and once it is about to write the status the
   row is whole (`EndInv`). `EndedSessionsShowAll` and `SessionOutputOnlyGrows`
   carry them to `ImportSession`, every step of which is a step of the stream
   or none.
8. `ImportSessionProofs`: `SessionTypeCorrect`, `OwnSettings`, `ResultsAreWhatLanded`, `AbortsStop` and
   `InferencesFollow`, of `ImportSession` for any jobs, tasks, candidates and
   removals. `StageInv` says that until its pipeline runs a job has decided
   nothing, that what it counts is the albums beets told it of, and that it is
   failed where its stages say so; `ConfigInv`, that from `ApplySettings` on a field
   that the job or its clean slate names is found with that value below whatever
   else is piled up, and that the session's copy has the job's grouping, whatever
   a request that opens the library does; `SparedInv`, that an album spared by an abort is
   queued, skipped or broken, and that there is none without an abort;
   `InferenceInv`, that the inferred folder moves once, at the end.
9. `SourcePathsProofs`: `SourcePathTypes` and `OwnFolderIsOffered`, of `SourcePaths` for any clients,
   requests, folders and clock. beets gives the lowest free id above those in use,
   so that an id changes hands. `EverInv` bounds the ids of an entry by its
   number; `LatestInv` says that an entry of the library is the last of those
   that ever shared an id with it; `PathInv`, that a question to the downloader,
   and what is kept of its answer, is about an entry that has, or had, that id;
   `FlightInv`, `TimeInv` and `OrderInv`, how pushes of one import, and of
   imports that share an id, are queued, stamped and stored. If none is lost or
   overtaken, the newest row of an id is thus the row of its present owner.
10. `SourcePathsProofs`: `EventsAreShownOnce`, `PairsAreOfOneImport` and `NewestTellsWhatIs`, of the
    listing and the merge of `EventLog`. The loop over the page is a recursive
    function on its places; `PairsAre` shows that it exists and that what it
    computes is a matching of earlier with later rows, each row in one pair at
    most. A row's partner is the nearest one that fits, and by `OrderInv` the
    nearest is the one of the same import. `NewestTellsWhatIs` adds that every
    push is stored or on its way (`SentInv`), and that a removal is stored and
    stamped between the import of its entry and that of the next owner of an id
    (`RemovalInv`).

The induction theorems of the library take an operator for a parameter, which
the provers cannot instantiate. `SetInduction` does without: from `WFMin`, a
set of naturals that holds 0, and n + 1 with every n, is `Nat`, which is
induction for whatever can be put as a set. `EventLog` states the
order of the page by the rank of each row (`NewestFirst`), not by sorting a
sequence, for the same reason: the provers know nothing of `SortSeq`.

11. `CleanSlateProofs`: `SlateTypes`, `NoRowOutlivesItsFile`, `ReplacementsSuffice`, `SourceIsKept`
   and `HalfwayCanBeRepeated`, of `CleanSlate`. `KeepInv` adds to the types
   that a planned file lies in the library and not under the source by name,
   that the row of every deleted file is gone (`DeletedInv`; rows never come
   back), and that the guard's counts agree (`SeenInv`). `SourceIsKept` needs
   `NoAliases` (a file under the source has no name outside of it), which is
   what `clean_slate_linked` lacks; `NoRowOutlivesItsFile` needs `OwnFiles`
   (rows do not share files), as beets gives every item a path of its own.
   `RepeatInv` carries the guard's verdict through the removal: what was
   suitable stays suitable while rows and library files go and the source
   stays, and the album's row goes last.

12. `ServerProofs`: `LoginTypeCorrect`, `LoginsLast`, `OnlyLivePass` and `LogoutsAreOwn`, for any
   clients, tokens, TTL and commands. They are proved of `LoginSpec`
   (`LoginInv`): rows say no more than what was handed out, a request that
   arrived on a dead token is stuck with a row that is missing or over
   (`DeadStaysDead`), and no two clients hold one token (`HeldOnce`).
   `ServerImplementsLogin` carries them to the whole installation: whatever the
   migrations do, a step is a login step, the loss of the table, or none.

13. `ServerProofs`: `ServersHaveTheirSchema` and `BackupsKeepWhatIsDropped`, for any releases,
   commands, failures and crashes. The twelve revisions are read once, as data
   (`UpsAre`, `DownsAre`, `SchemasAre`, `ModelsAre`): what each adds (`Added`),
   that it drops nothing else but the reimport columns, which revision 10 adds
   and 12 drops, and that an element's name tells the revision it is of.
   `CommandInv` bounds the stamp between where the command began and its target;
   `SchemaInv` says what the schema has for sure (all that the revisions up to the
   stamp added, and what the revision at work has added so far) and what else it
   may have (what a crash left of the revision after it); `BackupInv`, that a
   start's backup is all of the schema it found. Exact equality is not an
   invariant, because a crash may leave a part of a revision; it holds again
   where a server serves, since no migration ends before its last revision is
   complete.
14. `ServerProofs`: `StartsMigrate`, of `StartFailsOnlyAfterCrash`. Until the first crash
   equality does hold: `ExactInv` says that the schema is `SchemaAt` of the stamp,
   changed by the statements of the revision at work that have run (`Partly`).
   `UpApplies` and `DownApplies` show that the next one applies to it: what it adds is
   of a revision that is not there yet and is added once, under a table of an
   earlier one; what it drops, or copies less, was added by its own revision (or
   the tenth) and not dropped before. `UpMakes` and `DownMakes` show that a
   complete upgrade or downgrade leaves the schema of the next stamp, so that
   each downgrade does undo its upgrade. From the same invariant,
   `BackupsHoldTheirRevision`: until a migration crashes every backup is a
   database of the revision it names, so that only after a crash can a good one
   be replaced by a worse one, as `server_backup` shows.

Only model-checked: the liveness properties (`EveryJobEnds`,
`AbortEndsActiveJob`, `OutputIsShown`), which are out of the prover's reach.

## What is not modelled

- Loading the plugins once (`core/library.py:98-131`): the same double-checked
  lock as the config file's, which is modelled, and nothing undoes it.
- The ids a clean slate's fresh import draws at the moment another entry asks
  for them: nothing says that the entry removed is the one that was previewed,
  beyond its id.
- The directories a clean slate prunes; the warnings of a preview.
- Path prefixes between the downloader and the server (`to_local_path`, which
  maps `/data2` as well if the prefix is `/data`), query parameters, set-field
  templates: computations on strings. Library queries, statistics and file
  health, which read beets' tables and render.
- Data of the rows a migration touches, and `--sql`, which prints and runs
  nothing.
- Two submissions at once: `created_at` is taken before the row is committed
  (`core/import_store.py:111-129`), so that the older of two jobs may become
  visible, and be claimed, after the newer one. `Create` commits them in the
  order of `created_at`; the order that `SerialImports` keeps is that of the rows.
- A push that times out at its client and is stored all the same, and clocks of
  clients that differ: `Drop` loses a push for good, and one clock stamps all.
- With two live leaders (`import_lapse`), which of two terminal writes stands: the
  last one does. A process that stalls past its lease and comes back as leader
  without having failed to acquire it skips recovery (`core/import_worker.py:733`);
  `LeaderHasRecovered` is asked where leases lapse under the dead only.
- The database losing committed transactions at a power loss
  (`db/session.py:36-38`).
- `library_write_limiter`, which can only delay an import (its other users are
  short). What beets does, other than calling the hooks and giving out ids.
- A downgrade that a crash cuts off: it leaves the stamp of a schema that is not
  there, so that a start serves on it (`interrupted` excludes it).
- Exempt paths and pages, which read no session.

## The plan

Every safety invariant and action property that a run checks is a theorem. What
would come next is what the models leave out (above): first of all the order in
which a power loss takes back transactions (`synchronous=NORMAL`), under which
the claims of `ImportWorkerProofs` would have to be stated again.

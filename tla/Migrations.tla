------------------------------ MODULE Migrations ------------------------------
(***************************************************************************)
(* beetkeeper's own SQLite file and the commands that change its schema:    *)
(* `beetkeeper run` (main.py, db/migrations.py), which migrates before it    *)
(* serves, and `beetkeeper db upgrade | downgrade`.                          *)
(*                                                                         *)
(* A schema is a set of elements: <<table>> stands for a table with its      *)
(* first columns, <<table, name>> for a column or index added later. SQLite  *)
(* commits a DDL statement by itself until some DML opens a transaction, and *)
(* alembic commits after each revision (its stamp is DML), so a revision is  *)
(* a sequence `ddl` of statements that last at once, then one `commit` that  *)
(* lasts together with the stamp: a crash can leave a part of `ddl`.         *)
(***************************************************************************)
EXTENDS Integers, Sequences

CONSTANTS Releases,      \* the releases that may be installed: how many revisions each knows
          MaxCommands,   \* bound on commands started
          MaxCrashes     \* bound on crashes in the middle of a migration

Statement(adds, drops) == [adds |-> adds, drops |-> drops, needs |-> drops]
Add(e) == Statement({e}, {})
Drop(e) == Statement({}, {e})
Nothing == Statement({}, {})

Columns(table, names) == {<<table, n>> : n \in names}

(* A batch downgrade copies the table, less the columns it is losing, to a    *)
(* scratch table created at once; the copy, the drop and the rename wait for  *)
(* the stamp.                                                                *)
ScratchNames == [import_job |-> "_alembic_tmp_import_job", track_event |-> "_alembic_tmp_track_event"]
Scratch(table) == <<ScratchNames[table]>>
AddScratch(table, losing) == [adds |-> {Scratch(table)}, drops |-> {}, needs |-> losing]
Rebuild(table, losing) ==
    [ddl |-> <<AddScratch(table, losing)>>,
     commit |-> Statement({}, losing \union {Scratch(table)})]
Plain(ddl) == [ddl |-> ddl, commit |-> Nothing]

AddAll(table, names) == [i \in DOMAIN names |-> Add(<<table, names[i]>>)]
DropAll(table, names) == [i \in DOMAIN names |-> Drop(<<table, names[i]>>)]

-----------------------------------------------------------------------------
(* The revisions, oldest first (db/alembic/versions).                        *)

InitialEventTables ==
    [up |-> Plain(<<Add(<<"listener_event">>), Add(<<"album_event">>), Add(<<"track_event">>)>>),
     down |-> Plain(<<Drop(<<"track_event">>), Drop(<<"album_event">>), Drop(<<"listener_event">>)>>)]

ImportJobPersistenceTables ==
    [up |-> Plain(<<Add(<<"import_job">>), Add(<<"import_lock">>)>>),
     down |-> Plain(<<Drop(<<"import_lock">>), Drop(<<"import_job">>)>>)]

ImportJobOutputColumn ==
    [up |-> Plain(<<Add(<<"import_job", "output">>)>>),
     down |-> Rebuild("import_job", {<<"import_job", "output">>})]

ImportJobQuietColumn ==
    [up |-> Plain(<<Add(<<"import_job", "quiet">>)>>),
     down |-> Rebuild("import_job", {<<"import_job", "quiet">>})]

SettingsColumns == <<"logpath", "group_albums", "flat", "set_fields_json">>
ImportJobSettingsColumns ==
    [up |-> Plain(AddAll("import_job", SettingsColumns)),
     down |-> Rebuild("import_job", {<<"import_job", SettingsColumns[i]>> : i \in DOMAIN SettingsColumns})]

AuthSessionTable ==
    [up |-> Plain(<<Add(<<"auth_session">>)>>), down |-> Plain(<<Drop(<<"auth_session">>)>>)]

ImportPathTables ==
    [up |-> Plain(<<Add(<<"import_source_path">>), Add(<<"import_destination_path">>)>>),
     down |-> Plain(<<Drop(<<"import_destination_path">>), Drop(<<"import_source_path">>)>>)]

EventIndexes == << <<"listener_event", "ix_pushed_at_event_id">>,
                   <<"album_event", "ix_listener_event_id">>, <<"album_event", "ix_beets_album_id">>,
                   <<"track_event", "ix_listener_event_id">>, <<"track_event", "ix_beets_item_id">>,
                   <<"import_source_path", "ix_listener_event_id">>,
                   <<"import_destination_path", "ix_listener_event_id">> >>
EventTableIndexes ==
    [up |-> Plain([i \in 1..7 |-> Add(EventIndexes[i])]),
     down |-> Plain([i \in 1..7 |-> Drop(EventIndexes[8 - i])])]

EventSubjectNameColumns_Bug ==
    [up |-> Plain(<<Add(<<"album_event", "album_name">>), Add(<<"track_event", "track_title">>),
                    Add(<<"track_event", "album_name">>)>>),
     down |-> Rebuild("track_event", {<<"track_event", "album_name">>, <<"track_event", "track_title">>})]

EventSubjectNameColumns ==
    [up |-> Plain(<<Add(<<"album_event", "album_name">>), Add(<<"track_event", "track_title">>),
                    Add(<<"track_event", "album_name">>)>>),
     down |-> Rebuild("track_event", {<<"track_event", "album_name">>, <<"track_event", "track_title">>,
                                      <<"album_event", "album_name">>})]

ReimportColumnNames == <<"query_json", "singletons", "move_files", "write_tags", "reimport_report_json">>
ImportJobReimportColumns ==
    [up |-> Plain(AddAll("import_job", ReimportColumnNames)),
     down |-> Rebuild("import_job", {<<"import_job", ReimportColumnNames[i]>> : i \in 1..5})]

InferredSourcePathTable ==
    [up |-> Plain(<<Add(<<"inferred_source_path">>)>>), down |-> Plain(<<Drop(<<"inferred_source_path">>)>>)]

CleanSlateColumns == <<"clean_slate_album_id", "clean_slate_item_id", "clean_slate_allow_fewer_files">>
ImportJobCleanSlate_Bug ==
    [up |-> Plain(AddAll("import_job", CleanSlateColumns)),
     down |-> Rebuild("import_job", {<<"import_job", CleanSlateColumns[i]>> : i \in 1..3})]

ImportJobCleanSlate ==
    [up |-> Plain(AddAll("import_job", CleanSlateColumns)
                  \o DropAll("import_job", [i \in 1..5 |-> ReimportColumnNames[6 - i]])),
     down |-> LET rebuild == Rebuild("import_job", {<<"import_job", CleanSlateColumns[i]>> : i \in 1..3})
              IN  [rebuild EXCEPT !.ddl = AddAll("import_job", ReimportColumnNames) \o @]]

Revisions ==
    <<InitialEventTables, ImportJobPersistenceTables, ImportJobOutputColumn, ImportJobQuietColumn,
      ImportJobSettingsColumns, AuthSessionTable, ImportPathTables, EventTableIndexes,
      EventSubjectNameColumns, ImportJobReimportColumns, InferredSourcePathTable, ImportJobCleanSlate>>

Latest == Len(Revisions)

ASSUME ReleasesAssumption == Releases \subseteq 1..Latest /\ Latest \in Releases

(* The schema the models of this release read and write (db/models.py).      *)
ModelsSchema ==
    {<<t>> : t \in {"listener_event", "album_event", "track_event", "import_source_path",
                    "import_destination_path", "inferred_source_path", "auth_session",
                    "import_job", "import_lock"}}
    \union Columns("album_event", {"album_name"})
    \union Columns("track_event", {"track_title", "album_name"})
    \union Columns("import_job", {"output", "quiet", "logpath", "group_albums", "flat", "set_fields_json",
                                  "clean_slate_album_id", "clean_slate_item_id",
                                  "clean_slate_allow_fewer_files"})
    \union {<<"listener_event", "ix_pushed_at_event_id">>,
            <<"album_event", "ix_listener_event_id">>, <<"album_event", "ix_beets_album_id">>,
            <<"track_event", "ix_listener_event_id">>, <<"track_event", "ix_beets_item_id">>,
            <<"import_source_path", "ix_listener_event_id">>,
            <<"import_destination_path", "ix_listener_event_id">>}

-----------------------------------------------------------------------------
VARIABLES release,     \* how many revisions the installed release knows
          exists,      \* the database file exists
          stamp,       \* its alembic revision, 0 when unstamped
          schema,      \* its elements
          backups,     \* revision -> the schema saved in `.pre-<revision>.bak`, or NoBackup
          phase,       \* "off", "upgrading", "downgrading" or "serving"
          serve,       \* the command at work is `run`, which serves once it has migrated
          current,     \* startup_upgrade's `current`
          filed,       \* startup_upgrade's `db_file_exists`
          target,      \* the revision the command migrates to
          pos,         \* statements of the revision at work that have run
          interrupted, \* a `db downgrade` was cut off part way through a revision
          commands, crashes

dbVars == <<exists, stamp, schema>>
cmdVars == <<phase, serve, current, filed, target, pos>>
migrationVars == <<release, dbVars, backups, cmdVars, interrupted, commands, crashes>>

NoBackup == {<<"none">>}

(* One statement's effect, and what it needs: dropping a table takes its      *)
(* columns and indexes along, adding needs the table and a free name.         *)
Gone(s, e) == e \in s.drops \/ <<e[1]>> \in s.drops
Apply(s, sch) == {e \in sch : ~Gone(s, e)} \union s.adds
Applies(s, sch) ==
    /\ s.needs \subseteq sch
    /\ \A e \in s.adds : e \notin sch /\ (Len(e) = 2 => <<e[1]>> \in sch)

(* The schema a revision stands for: what the upgrades up to it, in order,     *)
(* have added and not dropped again.                                         *)
SchemaAt ==
    [rev \in 0..Latest |->
        LET done == UNION {{<<q, i>> : i \in DOMAIN Revisions[q].up.ddl} : q \in 1..rev}
            Up(p) == Revisions[p[1]].up.ddl[p[2]]
            After(p, r) == p[1] < r[1] \/ (p[1] = r[1] /\ p[2] < r[2])
        IN  UNION {{e \in Up(p).adds : \A r \in done : After(p, r) => ~Gone(Up(r), e)} : p \in done}]

InitMigrations ==
    /\ release \in Releases
    /\ \/ exists = FALSE /\ stamp = 0
       \/ exists = TRUE /\ stamp \in Releases
    /\ schema = SchemaAt[stamp]
    /\ backups = [r \in 0..Latest |-> NoBackup]
    /\ phase = "off" /\ serve = FALSE /\ current = 0 /\ filed = FALSE /\ target = 0 /\ pos = 0
    /\ interrupted = FALSE /\ commands = 0 /\ crashes = 0

Command ==
    /\ phase = "off"
    /\ commands < MaxCommands
    /\ commands' = commands + 1

(* The user replaces the installed release, in either direction.             *)
InstallRelease(r) ==
    /\ Command
    /\ release' = r /\ r # release
    /\ UNCHANGED <<dbVars, backups, cmdVars, interrupted, crashes>>

(* `beetkeeper run` on a file this release wrote last: nothing to migrate.    *)
RunCurrent ==
    /\ Command
    /\ stamp = release
    /\ exists' = TRUE
    /\ phase' = "serving" /\ serve' = TRUE
    /\ UNCHANGED <<release, stamp, schema, backups, current, filed, target, pos, interrupted, crashes>>

(* A newer release's file, or a stale one with auto_upgrade off: the command   *)
(* ends, having only asked for the revision (which creates a missing file).   *)
RunRefused(autoUpgrade) ==
    /\ Command
    /\ stamp > release \/ (stamp < release /\ ~autoUpgrade)
    /\ exists' = TRUE
    /\ UNCHANGED <<release, stamp, schema, backups, cmdVars, interrupted, crashes>>

RunStale_Bug ==
    /\ Command
    /\ stamp < release
    /\ exists' = TRUE
    /\ phase' = "upgrading" /\ serve' = TRUE
    /\ current' = stamp /\ filed' = exists /\ target' = release /\ pos' = 0
    /\ UNCHANGED <<release, stamp, schema, backups, interrupted, crashes>>

(* A stale file is copied to a backup named after its revision, then upgraded. *)
RunStale ==
    /\ Command
    /\ stamp < release
    /\ exists' = TRUE
    /\ backups' = IF exists THEN [backups EXCEPT ![stamp] = schema] ELSE backups
    /\ phase' = "upgrading" /\ serve' = TRUE
    /\ current' = stamp /\ filed' = exists /\ target' = release /\ pos' = 0
    /\ UNCHANGED <<release, stamp, schema, interrupted, crashes>>

(* `beetkeeper db upgrade --revision rev`: no backup, and it does not serve.  *)
CliUpgrade(rev) ==
    /\ Command
    /\ stamp <= release /\ rev \in stamp + 1..release
    /\ exists' = TRUE
    /\ phase' = "upgrading" /\ serve' = FALSE /\ target' = rev /\ pos' = 0
    /\ UNCHANGED <<release, stamp, schema, backups, current, filed, interrupted, crashes>>

(* `beetkeeper db downgrade --revision rev`: no backup either.               *)
CliDowngrade(rev) ==
    /\ Command
    /\ stamp <= release /\ rev \in 0..stamp - 1
    /\ phase' = "downgrading" /\ serve' = FALSE /\ target' = rev /\ pos' = 0
    /\ UNCHANGED <<release, exists, stamp, schema, backups, current, filed, interrupted, crashes>>

Migrating == phase \in {"upgrading", "downgrading"}

Migration == IF phase = "upgrading" THEN Revisions[stamp + 1].up ELSE Revisions[stamp].down

(* The next statement of the revision at work.                               *)
RunStatement ==
    /\ Migrating /\ stamp # target
    /\ pos < Len(Migration.ddl)
    /\ Applies(Migration.ddl[pos + 1], schema)
    /\ schema' = Apply(Migration.ddl[pos + 1], schema)
    /\ pos' = pos + 1
    /\ UNCHANGED <<release, exists, stamp, backups, phase, serve, current, filed, target,
                   interrupted, commands, crashes>>

(* A statement the schema does not take (a table that exists already): the    *)
(* command fails with the statements before it in place.                     *)
StatementFails ==
    /\ Migrating /\ stamp # target
    /\ pos < Len(Migration.ddl)
    /\ ~Applies(Migration.ddl[pos + 1], schema)
    /\ phase' = "off" /\ serve' = FALSE
    /\ interrupted' = (interrupted \/ (phase = "downgrading" /\ pos > 0))
    /\ UNCHANGED <<release, exists, stamp, schema, backups, current, filed, target, pos, commands, crashes>>

(* The revision is complete: its last change and the new stamp, together.     *)
CommitRevision ==
    /\ Migrating /\ stamp # target
    /\ pos = Len(Migration.ddl)
    /\ schema' = Apply(Migration.commit, schema)
    /\ stamp' = IF phase = "upgrading" THEN stamp + 1 ELSE stamp - 1
    /\ pos' = 0
    /\ UNCHANGED <<release, exists, backups, phase, serve, current, filed, target,
                   interrupted, commands, crashes>>

MigrationDone ==
    /\ Migrating /\ stamp = target
    /\ phase' = IF serve THEN "serving" ELSE "off"
    /\ UNCHANGED <<release, dbVars, backups, serve, current, filed, target, pos,
                   interrupted, commands, crashes>>

(* The process dies in the middle of a migration.                            *)
MigrationCrash ==
    /\ Migrating
    /\ crashes < MaxCrashes
    /\ crashes' = crashes + 1
    /\ phase' = "off" /\ serve' = FALSE
    /\ interrupted' = (interrupted \/ (phase = "downgrading" /\ pos > 0))
    /\ UNCHANGED <<release, dbVars, backups, current, filed, target, pos, commands>>

(* The server stops, or is killed: the schema is not touched either way.      *)
StopServing ==
    /\ phase = "serving"
    /\ phase' = "off" /\ serve' = FALSE
    /\ UNCHANGED <<release, dbVars, backups, current, filed, target, pos, interrupted, commands, crashes>>

MigrationStep ==
    \/ RunStatement \/ StatementFails \/ CommitRevision \/ MigrationDone

StartCommand ==
    \/ \E r \in Releases : InstallRelease(r)
    \/ RunCurrent
    \/ \E auto \in BOOLEAN : RunRefused(auto)
    \/ RunStale
    \/ \E rev \in Releases : CliUpgrade(rev)
    \/ \E rev \in {0} \union Releases : CliDowngrade(rev)
=============================================================================

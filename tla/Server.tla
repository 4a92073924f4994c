------------------------------- MODULE Server -------------------------------
(***************************************************************************)
(* One beetkeeper installation through its life: commands that migrate the   *)
(* database (Migrations) and, while `beetkeeper run` serves, the requests of  *)
(* its clients (LoginSessions), which live in the same database: a downgrade  *)
(* past its revision drops the session table; a restart keeps it.            *)
(***************************************************************************)
EXTENDS Migrations, LoginSessions

serverVars == <<migrationVars, loginVars>>

InitServer == InitMigrations /\ InitLogin /\ protected = FALSE

(* The lifespan: the app that starts reads its settings and has no request    *)
(* yet, whatever the process before it was doing.                            *)
Serve == Restart

(* What a step of the migration does to the session rows.                    *)
SessionRows ==
    IF <<"auth_session">> \in schema \ schema' THEN TableDropped ELSE UNCHANGED loginVars

MigrationPart ==
    \/ StartCommand /\ (IF phase' = "serving" THEN Serve ELSE UNCHANGED loginVars)
    \/ RunStatement /\ SessionRows
    \/ CommitRevision /\ SessionRows
    \/ StatementFails /\ UNCHANGED loginVars
    \/ MigrationDone /\ (IF phase' = "serving" THEN Serve ELSE UNCHANGED loginVars)
    \/ MigrationCrash /\ UNCHANGED loginVars
    \/ StopServing /\ Serve /\ UNCHANGED protected

(* Time that passes while nothing serves is observed once something does.     *)
LoginPart ==
    /\ phase = "serving"
    /\ \/ <<"auth_session">> \in schema /\ \E c \in Clients : ClientStep(c)
       \/ Tick
    /\ UNCHANGED migrationVars

ServerNext == MigrationPart \/ LoginPart

ServerSpec == InitServer /\ [][ServerNext]_serverVars

-----------------------------------------------------------------------------
(* The server of this release serves on exactly the schema its models declare, *)
(* by whichever path of installs, upgrades, downgrades and crashes the file     *)
(* came to it, as long as no `db downgrade` was cut off half-way               *)
(* (startup_upgrade: "brings the schema to head before the server starts").    *)
ServesModelsSchema ==
    phase = "serving" /\ release = Latest /\ ~interrupted => schema = ModelsSchema

(* What a start's migration takes out of a file, of the revision it found, is   *)
(* in the backup named after that revision (startup_upgrade backs up before it *)
(* upgrades).                                                                 *)
NothingLostUnsaved ==
    [][phase = "upgrading" /\ serve /\ filed =>
          (schema \ schema') \intersect SchemaAt[current] \subseteq backups[current]]_serverVars

(* A start that migrates fails only on what a crash left: no revision meets a    *)
(* schema it does not apply to, not even after downgrades (each revision's      *)
(* downgrade undoes its upgrade).                                            *)
StartFailsOnlyAfterCrash ==
    [][phase = "upgrading" /\ serve /\ phase' = "off" => crashes' > 0]_serverVars

(* A start "backs up the db file alongside itself" as `.pre-<revision>.bak`, so *)
(* that the matching file can be restored "if an upgrade doesn't go as planned" *)
(* (docs/quickstart/deployment.md:86-95, db/migrations.py:119): a backup that   *)
(* holds a database of the revision it names is never replaced by one that     *)
(* does not.                                                                 *)
GoodBackupsStay ==
    [][\A r \in 1..Latest : backups[r] = SchemaAt[r] => backups'[r] = SchemaAt[r]]_serverVars
=============================================================================

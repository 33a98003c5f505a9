----------------------------- MODULE Migrations -----------------------------
(***************************************************************************)
(* The schema of the SQLite file (internal/db): Open applies the ddl and   *)
(* the migrations V1 to V6 one after the other to a file of any version,   *)
(* with crashes in between, and RestoreSnapshot copies the tables of an    *)
(* uploaded file over the live ones by position.                           *)
(*                                                                         *)
(* A file has one job with one backup, which was restored once (so that no *)
(* column is NULL), or none.  A column holds its own name for the content  *)
(* it came with; flags and defaults are "yes", "no", "0", "-1", "Local".   *)
(***************************************************************************)
EXTENDS Naturals, Sequences, SequencesExt

CONSTANTS
  Versions,     \* versions of the program that made the live file; 0: no file
  Foreign,      \* versions of other installations whose files the user may have
  NoRow,        \* an empty table
  NoFile,       \* nothing uploaded
  MaxFailures   \* bound: crashes and failed statements

ASSUME MigrationsAssumption ==
  Versions \subseteq 0..7 /\ Foreign \subseteq 0..7 /\ MaxFailures \in Nat

VARIABLES
  live,      \* the live file
  upload,    \* a file the user has at hand
  at,        \* step of Steps that Open does next: 0 closed, beyond: opened
  reshaped,  \* history: migrateV1 did its work in this Open
  inS3,      \* history: the backup has a copy in a bucket that is known
  failures   \* count, for the bound

migrationVars == <<live, upload, at, reshaped, inS3, failures>>

-----------------------------------------------------------------------------
(* Tables and files.                                                       *)

\* The columns the ddl gives new tables, in order.
JobColumns ==
  <<"id", "name", "database_id", "schedule", "timezone", "dest_local",
    "keep_last", "enabled", "created_at", "updated_at">>
BackupColumns ==
  <<"id", "job_id", "status", "trigger", "started_at", "finished_at",
    "size_bytes", "s3_upload_ms", "row_count", "filename", "stored_local",
    "error", "restored_at">>

\* What migrateV1 finds; login stands for the six columns of the credentials.
JobColumnsV1 ==
  <<"id", "name", "login", "schedule", "dest_local", "dest_s3", "keep_last",
    "created_at", "updated_at">>
BackupColumnsV1 ==
  <<"id", "job_id", "status", "trigger", "started_at", "finished_at",
    "size_bytes", "filename", "stored_local", "stored_s3", "error",
    "restored_at">>

\* The table migrateV2 builds.
BackupColumnsV2 ==
  <<"id", "job_id", "status", "trigger", "started_at", "finished_at",
    "size_bytes", "row_count", "filename", "stored_local", "error",
    "restored_at">>

\* The version whose tables have the column first.
Since(column) ==
  CASE column = "enabled" -> 4
    [] column = "s3_upload_ms" -> 5
    [] column = "row_count" -> 6
    [] column = "timezone" -> 7

Until(version, columns, column) ==
  IF Since(column) <= version THEN columns ELSE RemoveFirst(columns, column)

JobColumnsOf(version) ==
  IF version = 1 THEN JobColumnsV1
  ELSE Until(version, Until(version, JobColumns, "enabled"), "timezone")

BackupColumnsOf(version) ==
  IF version = 1 THEN BackupColumnsV1
  ELSE Until(version, Until(version, BackupColumns, "s3_upload_ms"),
             "row_count")

\* What a column may hold in its place.
Flags == {"dest_local", "dest_s3", "enabled", "stored_local", "stored_s3"}
Contents(column) ==
  IF column \in Flags THEN {"yes", "no"}
  ELSE {column} \union
       CASE column = "timezone" -> {"Local"}
         [] column = "row_count" -> {"-1"}
         [] column = "s3_upload_ms" -> {"0"}
         [] OTHER -> {}

Table(columns, row) == [columns |-> columns, row |-> row]
New(columns) == Table(columns, NoRow)
Has(table, column) == column \in ToSet(table.columns)

\* The row of a column's own contents, with these flags.
Filled(columns, flags) ==
  [c \in ToSet(columns) |-> IF c \in DOMAIN flags THEN flags[c]
                            ELSE IF c \in Flags THEN "yes" ELSE c]

OldTables == {"jobs", "backups", "settings"}

\* The tables of the ddl, in its order, and the migrations.
Tables ==
  <<"databases", "destinations", "jobs", "job_destinations", "backups",
    "backup_destinations", "settings", "ping_state", "ping_incidents",
    "sessions">>

\* Mutant of Steps: the table is rebuilt after the columns are added.
RebuildLast == Tables \o <<"v1", "v3", "v4", "v5", "v6", "v2">>

Steps == Tables \o <<"v1", "v2", "v3", "v4", "v5", "v6">>

EmptyFile ==
  [tables |-> {}, jobs |-> New(<<>>), backups |-> New(<<>>), nullable |-> TRUE,
   endpoint |-> FALSE, dest |-> FALSE, jobLink |-> FALSE, backupLink |-> FALSE]

\* What the user of a program of the version has set up: jobs it can run.
Setups(version) ==
  {x \in [local : {"yes", "no"}, s3 : {"yes", "no"}, endpoint : BOOLEAN] :
     /\ x.local = "yes" \/ x.s3 = "yes"
     /\ version > 1 /\ x.s3 = "yes" => x.endpoint}

\* The file the program leaves, with a job and a backup.
FileOf(version, setup) ==
  LET First == version = 1
      jobColumns == JobColumnsOf(version)
      backupColumns == BackupColumnsOf(version)
  IN [tables |-> IF First THEN OldTables ELSE ToSet(Tables),
      jobs |-> Table(jobColumns, Filled(jobColumns,
                 [dest_local |-> setup.local, dest_s3 |-> setup.s3])),
      backups |-> Table(backupColumns, Filled(backupColumns,
                    [stored_local |-> "yes", stored_s3 |-> setup.s3])),
      nullable |-> version > 2,
      endpoint |-> First /\ setup.endpoint,
      dest |-> ~First /\ setup.endpoint,
      jobLink |-> ~First /\ setup.s3 = "yes",
      backupLink |-> ~First /\ setup.s3 = "yes"]

FilesOf(version) ==
  IF version = 0 THEN {EmptyFile}
  ELSE {FileOf(version, setup) : setup \in Setups(version)}

-----------------------------------------------------------------------------
(* The steps of Open, each one statement or one transaction.               *)

\* CREATE TABLE IF NOT EXISTS.
Created(file, name) ==
  IF name \in file.tables THEN file
  ELSE LET f == [file EXCEPT !.tables = @ \union {name}]
       IN CASE name = "jobs" -> [f EXCEPT !.jobs = New(JobColumns)]
            [] name = "backups" ->
                 [f EXCEPT !.backups = New(BackupColumns), !.nullable = TRUE]
            [] OTHER -> f

\* ALTER TABLE ADD COLUMN puts it last; the guards of migrateV3 to migrateV6.
Added(table, column, default) ==
  IF Has(table, column) THEN table
  ELSE [columns |-> Append(table.columns, column),
        row |-> IF table.row = NoRow THEN NoRow
                ELSE [c \in DOMAIN table.row \union {column} |->
                        IF c = column THEN default ELSE table.row[c]]]

\* ALTER TABLE DROP COLUMN.
Dropped(table, column) ==
  [columns |-> RemoveFirst(table.columns, column),
   row |-> IF table.row = NoRow THEN NoRow
           ELSE [c \in DOMAIN table.row \ {column} |-> table.row[c]]]

\* Mutant of DestLocal: no fallback.
DestLocalKept(file) == file.jobs.row["dest_local"]

\* "jobs left with no destination fall back to local".
DestLocal(file) ==
  IF ~file.endpoint /\ file.jobs.row["dest_s3"] = "yes" THEN "yes"
  ELSE file.jobs.row["dest_local"]

\* migrateV1: the global S3 settings become a destination with its links, the
\* credentials of the job a database; the old columns and settings go.
MigrateV1(file) ==
  IF ~Has(file.jobs, "login") THEN file
  ELSE LET job == file.jobs.row
           linked(row, flag) == file.endpoint /\ row[flag] = "yes"
           jobs == [file.jobs EXCEPT !.row = [job EXCEPT !["dest_local"] =
                                                DestLocal(file)]]
       IN [file EXCEPT
             !.dest = file.endpoint,
             !.jobLink = linked(job, "dest_s3"),
             !.backupLink = linked(file.backups.row, "stored_s3"),
             !.jobs = Dropped(Dropped(Added(jobs, "database_id", "database_id"),
                                      "login"), "dest_s3"),
             !.backups = Dropped(file.backups, "stored_s3"),
             !.endpoint = FALSE,
             !.tables = @ \ {"settings"}]

\* Mutant of LinksAfterRebuild: the foreign keys are enforced, and the drop of
\* backups takes the rows of backup_destinations with it.
LinksCascade(file) == FALSE

\* PRAGMA foreign_keys=OFF while the old table is dropped.
LinksAfterRebuild(file) == file.backupLink

\* Mutant of RebuiltFrom: the new column is selected one place too late.
RebuiltFromShifted(column) ==
  CASE column = "row_count" -> "filename"
    [] column = "filename" -> "row_count"
    [] OTHER -> column

\* The column of the old table that INSERT ... SELECT puts into the new one.
RebuiltFrom(column) == column

\* migrateV2: backups is rebuilt, with a job_id that may be null.
MigrateV2(file) ==
  IF file.nullable THEN file
  ELSE LET row == [c \in ToSet(BackupColumnsV2) |->
                     IF RebuiltFrom(c) = "row_count" THEN "-1"
                     ELSE file.backups.row[RebuiltFrom(c)]]
       IN [file EXCEPT
             !.backups = Table(BackupColumnsV2,
                               IF file.backups.row = NoRow THEN NoRow ELSE row),
             !.nullable = TRUE,
             !.backupLink = LinksAfterRebuild(file)]

Applied(step, file) ==
  CASE step = "v1" -> MigrateV1(file)
    [] step = "v2" -> MigrateV2(file)
    [] step = "v3" -> [file EXCEPT !.jobs = Added(@, "enabled", "yes")]
    [] step = "v4" -> [file EXCEPT !.backups = Added(@, "s3_upload_ms", "0")]
    [] step = "v5" -> [file EXCEPT !.backups = Added(@, "row_count", "-1")]
    [] step = "v6" -> [file EXCEPT !.jobs = Added(@, "timezone", "Local")]
    [] OTHER -> Created(file, step)

\* Open on an uploaded file, which nobody else has open.
Opened(file) ==
  LET after[n \in 0..Len(Steps)] ==
        IF n = 0 THEN file ELSE Applied(Steps[n], after[n - 1])
  IN after[Len(Steps)]

-----------------------------------------------------------------------------
(* The live file.                                                          *)

IsOpen == at = Len(Steps) + 1

MigrationsInit ==
  /\ \E v \in Versions : live \in FilesOf(v)
  /\ upload \in {NoFile} \union UNION {FilesOf(v) : v \in Foreign}
  /\ at = 0 /\ reshaped = FALSE
  /\ inS3 = \/ live.backupLink
            \/ live.endpoint /\ live.backups.row["stored_s3"] = "yes"
  /\ failures = 0

Begin ==
  /\ at = 0 /\ at' = 1
  /\ reshaped' = FALSE
  /\ UNCHANGED <<live, upload, inS3, failures>>

OpenStep ==
  /\ at \in 1..Len(Steps) /\ at' = at + 1
  /\ live' = Applied(Steps[at], live)
  /\ reshaped' = (reshaped \/ (Steps[at] = "v1" /\ live' # live))
  /\ UNCHANGED <<upload, inS3, failures>>

\* A statement fails and main exits, or the process dies, while the file is
\* opened or later: statements and transactions are done or not at all.
Fail ==
  /\ at > 0 /\ at' = 0
  /\ failures < MaxFailures /\ failures' = failures + 1
  /\ UNCHANGED <<live, upload, reshaped, inS3>>

\* The file as an older program left it, or Snapshot (VACUUM INTO).
TakeSnapshot ==
  /\ upload' = live
  /\ at = 0 \/ IsOpen
  /\ UNCHANGED <<live, at, reshaped, inS3, failures>>

\* The job and its backup are deleted.
DeleteJob ==
  /\ IsOpen
  /\ live' = [live EXCEPT !.jobs.row = NoRow, !.backups.row = NoRow,
                          !.jobLink = FALSE, !.backupLink = FALSE]
  /\ UNCHANGED <<upload, at, reshaped, inS3, failures>>

\* validateSnapshot.
Valid(file) ==
  {"databases", "jobs", "backups", "settings"} \subseteq file.tables

\* INSERT INTO table SELECT * FROM imported.table: column i to column i.
Copied(target, source) ==
  [target EXCEPT !.row =
     IF source.row = NoRow THEN NoRow
     ELSE [c \in ToSet(target.columns) |->
             source.row[source.columns[
               CHOOSE i \in DOMAIN target.columns : target.columns[i] = c]]]]

\* Mutant of Restored: the backups are left out of the tables that are copied.
RestoredWithoutBackups(source) ==
  [live EXCEPT !.jobs = Copied(@, source.jobs), !.backups.row = NoRow,
               !.dest = source.dest,
               !.jobLink = source.jobLink, !.backupLink = FALSE]

Restored(source) ==
  [live EXCEPT !.jobs = Copied(@, source.jobs),
               !.backups = Copied(@, source.backups),
               !.dest = source.dest,
               !.jobLink = source.jobLink, !.backupLink = source.backupLink]

\* RestoreSnapshot; a table that either file lacks makes it fail as a whole.
RestoreSnapshot ==
  /\ IsOpen /\ upload # NoFile
  /\ Valid(upload)
  /\ LET source == Opened(upload)
     IN /\ ToSet(Tables) \subseteq live.tables \intersect source.tables
        /\ live' = Restored(source)
  /\ UNCHANGED <<upload, at, reshaped, inS3, failures>>

MigrationsNext ==
  \/ Begin \/ OpenStep \/ Fail
  \/ TakeSnapshot \/ DeleteJob \/ RestoreSnapshot

MigrationsSpec == MigrationsInit /\ [][MigrationsNext]_migrationVars

-----------------------------------------------------------------------------
(* Properties.                                                             *)

TableOK(table) ==
  /\ IsInjective(table.columns)
  /\ table.row = NoRow \/ DOMAIN table.row = ToSet(table.columns)

SchemaTypeOK ==
  /\ TableOK(live.jobs) /\ TableOK(live.backups)
  /\ live.tables \subseteq ToSet(Tables)
  /\ at \in 0..Len(Steps) + 1 /\ failures \in 0..MaxFailures

\* Whatever version a file has and wherever earlier attempts to open it ended,
\* an opened file has every table and column of the current schema, none of them
\* twice (SQLite would refuse it, and Open fail for good); but settings is
\* missing until the next Open when this one did the work of migrateV1, which
\* drops it after the ddl.
SchemaComplete ==
  /\ SchemaTypeOK
  /\ IsOpen =>
       /\ ToSet(Tables) \ live.tables \subseteq
            IF reshaped THEN {"settings"} ELSE {}
       /\ ToSet(live.jobs.columns) = ToSet(JobColumns)
       /\ ToSet(live.backups.columns) = ToSet(BackupColumns)
       /\ live.nullable

InPlace(table) ==
  table.row # NoRow =>
    \A c \in ToSet(table.columns) : table.row[c] \in Contents(c)

\* Every column holds what it is named for, or its default, also between the
\* steps of Open.
ContentsInPlace == InPlace(live.jobs) /\ InPlace(live.backups)

\* The history does not forget copies in S3: a backup that was uploaded to a
\* known bucket is linked to its destination, though its table is dropped and
\* built anew on the way.
LinksKept ==
  IsOpen /\ live.backups.row # NoRow => live.backupLink = inS3

\* "jobs left with no destination fall back to local so they never become
\* unrunnable".
JobsRunnable ==
  IsOpen /\ live.jobs.row # NoRow =>
    live.jobs.row["dest_local"] = "yes" \/ live.jobLink

SameRow(table, source) ==
  IF source.row = NoRow THEN table.row = NoRow
  ELSE /\ table.row # NoRow
       /\ \A c \in ToSet(source.columns) : table.row[c] = source.row[c]

\* "snapshots from older supported versions can be restored into the current
\* schema": each column of a restored table holds what the (migrated) upload
\* has in the column of that name, and the links are the upload's.
RestoreKeepsColumns ==
  [][RestoreSnapshot =>
       LET source == Opened(upload)
       IN /\ SameRow(live'.jobs, source.jobs)
          /\ SameRow(live'.backups, source.backups)
          /\ live'.backupLink = source.backupLink]_migrationVars
=============================================================================

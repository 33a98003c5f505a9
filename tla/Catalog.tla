------------------------------ MODULE Catalog -------------------------------
(***************************************************************************)
(* What DumpKeeper keeps on disk about backups: the SQLite rows of jobs    *)
(* and backups, the links from a backup to the S3 destinations that hold   *)
(* it, the files of DATA_DIR/backups and the objects of the destinations.  *)
(* The variables outlive a crash of the process.  Every operator below is  *)
(* one SQL transaction of internal/db/db.go or one call of a store of      *)
(* internal/storage, as the engine and the handlers use it.                *)
(***************************************************************************)
EXTENDS Integers, FiniteSets

CONSTANTS
  Jobs,      \* backup jobs
  Dests,     \* S3 destinations
  NoJob,     \* the job of an unused row
  MaxRows,   \* bound: backups rows ever inserted
  Configs    \* bound: the settings a job may be given

JobRecord == [live: BOOLEAN, keepLast: Nat, destLocal: BOOLEAN,
              dests: SUBSET Dests]

\* The job form refuses a negative Keep last and a job without a destination.
ValidConfig(c) == c.live /\ (c.destLocal \/ c.dests # {})

\* In place of a job: what an import writes into a row without job_id and into
\* the name of its file.
Jobless == {"uploaded", "pre-restore"}
Owners == Jobs \union Jobless \union {NoJob}

ASSUME CatalogAssumption ==
  /\ NoJob \notin Jobs \union Jobless
  /\ Jobs \intersect Jobless = {}
  /\ MaxRows \in Nat
  /\ Configs \subseteq JobRecord
  /\ \A c \in Configs : ValidConfig(c)

VARIABLES
  jobs,     \* jobs and job_destinations: one record per job
  dests,    \* destinations: those that have a row
  rows,     \* backups: one record per id
  nextRow,  \* sqlite_sequence: AUTOINCREMENT never reuses an id
  links,    \* backup_destinations: <<row, destination>>
  files,    \* names present in DATA_DIR/backups
  objects,  \* <<destination, name>> present in the buckets
  clock     \* time.Now(), in seconds: only equality and order matter

configVars == <<jobs, dests>>
rowVars == <<rows, nextRow, clock>>
storeVars == <<files, objects>>
catalogVars == <<configVars, rowVars, links, storeVars>>

RowIds == 1..MaxRows
\* A second for each row: the clock need only move between two rows.
Stamps == 0..MaxRows
Names == Owners \X Stamps

RowStatus == {"absent", "running", "completed", "failed", "deleted"}
RowRecord == [status: RowStatus, job: Owners, stamp: Stamps, local: BOOLEAN]

NoRow == [status |-> "absent", job |-> NoJob, stamp |-> 0, local |-> FALSE]

CatalogTypeOK ==
  /\ jobs \in [Jobs -> JobRecord]
  /\ dests \in SUBSET Dests
  /\ rows \in [RowIds -> RowRecord]
  /\ nextRow \in 1..(MaxRows + 1)
  /\ links \in SUBSET (RowIds \X Dests)
  /\ files \in SUBSET Names
  /\ objects \in SUBSET (Dests \X Names)
  /\ clock \in Stamps

CatalogInit ==
  /\ jobs \in [Jobs -> Configs]
  /\ dests = Dests
  /\ rows = [id \in RowIds |-> NoRow]
  /\ nextRow = 1
  /\ links = {}
  /\ files = {}
  /\ objects = {}
  /\ clock = 0

-----------------------------------------------------------------------------
(* Reads.                                                                  *)

Present(id) == rows[id].status # "absent"

\* "{job}-{second}.sql": two rows of a job opened in one second share a name.
Name(id) == <<rows[id].job, rows[id].stamp>>

\* ORDER BY started_at DESC, id DESC.
Newer(a, b) ==
  \/ rows[a].stamp > rows[b].stamp
  \/ rows[a].stamp = rows[b].stamp /\ a > b

\* The first row of a list ordered newest first.
First(S) == CHOOSE v \in S : \A w \in S \ {v} : Newer(v.id, w.id)

\* Mutant of CompletedOf: ListBackups(0, true), which lists every row.
CompletedOfAny(j) == {id \in RowIds : rows[id].status = "completed"}

CompletedOf(j) ==
  {id \in RowIds : rows[id].status = "completed" /\ rows[id].job = j}

\* Mutant of Beyond: the loop skips i <= keep.
BeyondOffByOne(S, keep) ==
  {id \in S : Cardinality({k \in S : Newer(k, id)}) > keep}

\* The rows a list ordered newest first holds at positions keep, keep + 1, ...
Beyond(S, keep) ==
  {id \in S : Cardinality({k \in S : Newer(k, id)}) >= keep}

LinksOf(id) == {d \in dests : <<id, d>> \in links}

\* What a caller keeps of a row it read: the id and stored_local.
Victims == [id: RowIds, local: BOOLEAN]
Read(S) == {[id |-> id, local |-> rows[id].local] : id \in S}

-----------------------------------------------------------------------------
(* Writes to the database.                                                 *)

\* Mutant of JobKnown: the connection is opened without foreign_keys(1).
JobUnchecked(j) == TRUE

\* The foreign key of backups.job_id, which may be NULL.
JobKnown(j) == j \in Jobs => jobs[j].live

\* INSERT INTO backups.
CreateBackup(j, started) ==
  /\ JobKnown(j)
  /\ rows' = [rows EXCEPT ![nextRow] = [status |-> "running", job |-> j,
                                        stamp |-> started, local |-> FALSE]]
  /\ nextRow' = nextRow + 1

\* Mutant of UpdateBackup: the UPDATE leaves out the status.
UpdateBackupNoStatus(id, status, local) ==
  rows' = IF Present(id) THEN [rows EXCEPT ![id].local = local] ELSE rows

\* UPDATE backups ... WHERE id=?: an id that is gone is not an error.
UpdateBackup(id, status, local) ==
  rows' = IF Present(id)
          THEN [rows EXCEPT ![id].status = status, ![id].local = local]
          ELSE rows

\* Mutant of MarkBackupDestination: the call is missing.
MarkNothing(id, d) == UNCHANGED links

\* INSERT OR IGNORE: both foreign keys must hold.
CanMark(id, d) == Present(id) /\ d \in dests
MarkBackupDestination(id, d) == links' = links \union {<<id, d>>}

\* One transaction: status, stored_local and the links.
MarkBackupDeleted(id) ==
  /\ UpdateBackup(id, "deleted", FALSE)
  /\ links' = {l \in links : l[1] # id}

\* DELETE FROM backups: the links cascade.
DeleteBackup(id) ==
  /\ rows' = [rows EXCEPT ![id].status = "absent", ![id].local = FALSE]
  /\ links' = {l \in links : l[1] # id}

\* DELETE FROM jobs: its links, its backups and their links cascade.
DeleteJob(j) ==
  /\ jobs' = [jobs EXCEPT ![j].live = FALSE, ![j].dests = {}]
  /\ rows' = [id \in RowIds |->
                IF rows[id].job = j
                THEN [rows[id] EXCEPT !.status = "absent", !.local = FALSE]
                ELSE rows[id]]
  /\ links' = {l \in links : rows[l[1]].job # j}

\* DELETE FROM destinations: the links of jobs and backups cascade.
DeleteDestination(d) ==
  /\ dests' = dests \ {d}
  /\ jobs' = [j \in Jobs |-> [jobs[j] EXCEPT !.dests = @ \ {d}]]
  /\ links' = {l \in links : l[2] # d}

\* One transaction: the fields and the destination links of the job.
UpdateJob(j, c) == jobs' = [jobs EXCEPT ![j] = c]

=============================================================================

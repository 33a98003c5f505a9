# DumpKeeper: specification and proofs

DumpKeeper backs up PostgreSQL databases: jobs run `pg_dump` on a schedule or
on demand, the dumps go to a local directory and to S3 destinations, retention
removes the old ones, and a dump can be restored. This directory holds TLA+
models of the parts of the program in which the order of things matters, TLC
configurations that check them on small instances, and proofs that TLAPS checks
for every instance. `PROJECT.json` maps every definition to the lines it stands
for.

    tlc -workers 2 -config Retention.cfg MCBackupEngine.tla
    tlc -workers 2 -config Monitor.cfg MCMonitor.tla
    tlapm BackupEngineProofs.tla
    tlapm BackupCopiesProofs.tla
    tlapm DeletionsProofs.tla
    tlapm RestoresProofs.tla
    tlapm SchedulerProofs.tla
    tlapm MonitorProofs.tla
    tlapm MigrationsProofs.tla
    tlapm DumpTextProofs.tla

## 1. The system

| Component | State | Operations | Talks to |
|---|---|---|---|
| Store (`internal/db`) | SQLite: databases, destinations, jobs, job_destinations, backups, backup_destinations, settings, ping_state, ping_incidents, sessions | one transaction per method; migrations and snapshots | everybody |
| Stores of dumps (`internal/storage`) | files under `DATA_DIR/backups`; objects of the buckets | Put, Open, Delete | engine, handlers |
| Backup engine (`internal/backup/run.go`, `pgdump.go`) | `running` (jobs in flight), `sema` (slots), `wg` | Trigger, RunBackup, finishFailed, Wait | store, stores of dumps, `pg_dump` |
| Retention (`internal/backup/retention.go`) | none: called at the end of a completed run | Prune | store, stores of dumps |
| Restore and import (`pgrestore.go`, `import.go`, `progress.go`) | `importMu`, `progress` | Restore, RestoreAsync, StartImport, importRun, restoreCopy | store, stores of dumps, `psql` |
| Dump text filters (`metrics.go`, `restoreCopy`) | none | MeasureDump, filtering of the dump's lines | engine, import |
| Scheduler (`internal/scheduler`) | cron entries, `entries` by job | Reschedule, Replace, Remove, Stop; a fire calls Trigger | engine, handlers |
| Availability monitor (`internal/monitor`) | interval, `kick`, ping_state and ping_incidents | loop, pass, check, SetInterval, Stop | store, databases |
| Web handlers (`internal/web`) | sessions | create, edit, toggle, delete of jobs, databases, destinations and executions; Back up now; restore; import; settings backup and restore | all of the above |
| Process (`cmd/dumpkeeper`) | none | start: load jobs into the scheduler; stop: http, monitor, cron, Wait | all of the above |

How they interact. The scheduler and the handler of *Back up now* call
`Engine.Trigger`, which claims the job in `running`, reads it and starts a
goroutine; that goroutine inserts the `backups` row, reads the destinations,
waits for one of two slots, dumps, stores to each destination and locally,
writes the row and prunes. Nothing holds a lock over these steps: handlers
delete rows, files and objects of the very same job in between, edits of the job
become visible to some steps and not to others, and a crash leaves whatever had
been written. Every write to SQLite is one transaction, foreign keys are on.

The scheduler keeps in memory what the rows of jobs say, the monitor keeps the
interval that the settings say; handlers change the row and the memory one after
the other. The monitor's loop and the handler of *Ping* both write the state and
the incidents of a database, each after a probe of seconds. The schema is brought
up to date by a sequence of statements and transactions at every start, and a
configuration that is restored goes through the same sequence before its tables
are copied.

What is hard. (1) The two shared structures of the engine, a claim per job and
a counting semaphore taken in the middle of a function with seven early
returns. (2) Three records of one fact, the row, the links and the stored copy,
written one after the other and each allowed to fail. (3) Deletions by
retention and by handlers of what a run is still writing. (4) Values read at
the trigger and used at the end. (5) Crashes, with no recovery pass at start.
(6) File names that are unique to the second only. (7) Restores
that write back a row they read long ago, and one lock for all of them, taken by
a handler and given back by a goroutine. (8) Cron entries and
rows, and the interval in memory and in the settings, changed in two steps.
(9) Probe results that arrive late, for databases that are gone, or from probes
that were cancelled. (10) A shutdown that waits for runs while fires and
requests may still trigger some. (11) Migrations that a crash interrupts, and
tables whose columns are in another order after them. (12) Two readers that
guess from the look of a line whether it is data. `PROJECT.json` lists each of
these under `hazards`, at its line.

What makes each component correct:

- engine: one run per job; at most `maxConcurrent` dumps; no claim and no slot
  is leaked, so that every triggered run ends; a row is opened and closed once,
  by the run that owns the job;
- stores and rows: what the history lists can be restored, what is stored is
  listed, and a retired row holds nothing;
- retention: exactly the completed rows beyond the N newest go, the newest
  completed backup keeps its copies whatever fails;
- deletions: they take away what they were asked to and nothing else, and leave
  no row without its job;
- restores: one import or restore at a time; an entry of progress per restore;
  a restore changes nothing of a row but `restored_at`;
- scheduler: an entry exists for the enabled jobs with a schedule, after
  whatever order of toggles, edits and deletions, and after a restart;
- monitor: one open incident per database that is down, none for one that is up;
- process: the shutdown ends, and cuts no dump it could have known of;
- migrations: whatever version a database comes from, the rows mean the same;
- dump text: what is dropped are ownership and privilege statements, what is
  counted are the rows.

## 2. Modules

| Module | Models |
|---|---|
| `Catalog` | what outlives the process: the rows of jobs and backups, the links, the files, the objects, the clock; one operator per SQL transaction or store call |
| `BackupEngine` | Trigger, RunBackup, finishFailed and Prune, one action per step that another goroutine can observe; edits of jobs; crashes; the properties of the engine |
| `BackupHistory` | the abstract specification: what the engine promises of the history of executions |
| `BackupEngineProofs` | the theorems about `BackupEngine`: exclusion, the semaphore, that the engine implements `BackupHistory` and keeps the newest backup |
| `BackupCopiesProofs` | that what the history lists is stored, what is stored is listed, and retention keeps its bound |
| `Deletions` | the handlers that delete an execution, a job or a destination, composed with `BackupEngine` |
| `DeletionsProofs` | the engine's invariant under the handlers that delete, and what they leave alone |
| `Restores` | RestoreAsync, Restore, StartImport and importRun with `importMu` and `progress`, composed with `Deletions` |
| `RestoresProofs` | the theorems about `Restores` |
| `Scheduler` | Reschedule, Replace, Remove, the fires, the handlers of jobs and the restored configuration that call them; start and shutdown of `main` |
| `SchedulerProofs` | the theorems about `Scheduler` |
| `Monitor` | loop, pass, check and its retries, SetInterval, ReloadInterval, Stop, and the handlers that ping, set the interval, delete a database and restore a configuration |
| `Availability` | the abstract specification: what the monitor promises of states and incidents |
| `MonitorProofs` | the theorems about `Monitor` |
| `Migrations` | Open with the ddl and migrateV1 to migrateV6, Snapshot, RestoreSnapshot |
| `MigrationsProofs` | the theorems about `Migrations` |
| `DumpText` | restoreCopy and MeasureDump, line by line |
| `DumpTextProofs` | the theorems about `DumpText` |
| `MCBackupEngine`, `MCDeletions`, `MCRestores`, `MCMonitor`, `MCScheduler` | instances for TLC: the settings a job may have, the forms, the snapshots, symmetry |

`Restores` extends `Deletions` extends `BackupEngine` extends `Catalog`: they
share the rows and the stores. `Scheduler` sees a run only as a member of
`inflight`, from Trigger to its end, which `RunEnds` of `BackupEngine` says it
reaches. `Monitor`, `Migrations` and `DumpText` share no state with the others.

### State

| Variable | In the program |
|---|---|
| `jobs[j]` | row of `jobs` with its `job_destinations`; `live` is FALSE once the row is gone. Only the fields the engine reads: `keep_last`, `dest_local`, the destinations |
| `dests` | destinations that have a row |
| `rows[id]`, `nextRow` | `backups`: status, job, second of `started_at`, `stored_local`; AUTOINCREMENT |
| `links` | `backup_destinations` |
| `files`, `objects` | names in `DATA_DIR/backups`; names in each bucket. A name is `<<job, second>>`, which is what `{job}-{YYYYMMDDTHHMMSSZ}.sql` tells apart |
| `running`, `sema` | `Engine.running`; the number of elements in the channel `Engine.sema` |
| `pc[r]`, `run[r]` | a call of Trigger with its goroutine: where it stands and its local variables |
| `crashes` | count, for the bound |
| `hpc[q]`, `req[q]` | a handler's goroutine: where it stands and its local variables |
| `importMu`, `progress[id]` | `Engine.importMu`; the entry of `Engine.progress` under a row's id: none, live, or ended (`Finished`) |
| `exists` | external: whether the database that imports go to stands on its server |
| `rpc[k]`, `res[k]` | a call of RestoreAsync or StartImport with its goroutine |

| `Scheduler`: `row`, `nextJob` | `jobs`: enabled, schedule, timezone of each row; AUTOINCREMENT |
| `entry`, `cronOn`, `fires` | `Scheduler.entries` with the spec that cron runs for each; whether cron runs; entries' functions that have begun and not called Trigger |
| `inflight` | `Engine.running`, which `Engine.wg` counts |
| `phase` | where `main` stands between serving and the end of the process |
| `late`, `drift` | history: jobs that could still be triggered when cron stopped; jobs a request left out of step with their entry |
| `Monitor`: `dbs`, `pingState`, `open`, `ended` | rows of `databases`; `ping_state.ok`; how many rows of `ping_incidents` are without and with `ended_at` |
| `setting`, `interval`, `kick`, `stopped` | the row `ping_interval_seconds`; `Monitor.interval`; whether the channel `kick` holds an element; `stop` closed and the context cancelled |
| `unread` | history: the last reading of the setting failed, and it has not been read or stored since |
| `lpc`, `probe`, `timer` | the loop: where it stands, the list of the pass with the probe at hand, the interval its timer was made with |
| `up` | external: databases that answer |
| `Migrations`: `live`, `upload`, `at` | the live file and an uploaded one: tables, columns in their order, contents of a row, links; the step of Open that is next |
| `reshaped`, `inS3` | history: migrateV1 did its work in this Open; the backup has a copy in a bucket |
| `DumpText`: `context`, `table`, `rows` | external: what the writer of the dump is writing |
| `skipping`; `inCopy`, `current`, `metrics`, `result` | the locals of restoreCopy (its `inCopy`) and of MeasureDump |

A row of an import has `"uploaded"` or `"pre-restore"` in place of a job: its
`job_id` is NULL and its file is named after the database and that word.

A row that was deleted keeps its job and second in `rows` (with status
`absent`), only so that the properties can speak of the name it had.

### Actions of a run

`Claim` (LoadOrStore) → `LoadJob` | `LoadJobFails` → `OpenRow` | `OpenRowFails`
→ `LoadDestinations` | `LoadDestinationsFails` → `AcquireSlot` → `Dump` |
`DumpFails` → for each destination `Upload`, `MarkDestination` | `UploadFails`
→ `SaveLocal` | `NothingLocal` → `FinishRow` → `ListVictims` | `KeepAll` → for
each victim `DeleteFile`, `ListLinks` | `ListLinksFails`, `DeleteObject` for
each destination, `RetireRow` → `PruneEnds` → `ReleaseSlot` → `Leave`.
`FinishFailed` is `finishFailed`, reached before the semaphore and after it.
`Unwind` says where a return leads: to the deferred receive of the semaphore if
the send has been done, else straight to the deferred `running.Delete`.

`Faults` lists the kinds of calls that may fail: inserts, queries, the dump, a
Put, the marking of a destination, an update, a Delete. A failure is handled as
the code does: it ends the run, or is logged and passed over.

`Crash` resets what is in memory and leaves the catalog: nothing in `main`
visits the rows that were running.

### Actions of a restorer

A restore: `AskRestore` → `LockForRestore` | `Refused` → `BeginRestore` →
`LoadTarget` → `FoundLocally` | `NotLocal` and `Fetch` → `Replay` → `WriteBack`
→ `Unlock`; every failure on the way is `FailRestore`, the closure `fail`.

An import: `StartImport` → `RecordImport` → `Spool` | `SpoolFails` and
`CloseFailedSpool` → `BeginImport` → `Probe` → `SafetySkipped` | `SafetyDump`,
`RecordSafety`, `CloseSafety` → `Drop` | `NothingToDrop` → `CreateDatabase` →
`Import` → `Report` → `LeaveImport` → `Unlock`; every failure after the spool
goes through `FinishImportFailed` to `LeaveImport`.

### Actions of the scheduler and the process

A request is `AskCreate`, `AskUpdate`, `AskToggle`, `AskDelete`, `AskBackup` or
`RestoreSnapshot` (up to the first statement) → `CreateJob`, `UpdateJob`,
`SetJobEnabled` | `StoreFails` → `Reschedule`; or `Remove` → `DeleteJob` |
`DeleteJobFails`; or `TriggerManually`; or `ListJobs` | `ListJobsFails` →
`Replace`. Cron: `Fire` → `TriggerByCron`; a run: `RunEnds`. Main: `Shutdown` →
`Drained` → `StopCron` → `WaitReturns` → `Exit`; `Start` is a start after any of
them or after a crash. A zone `UTC+N` is the number N; `CronTimezone` turns it
into the name `Etc/GMT-N`, the number -N, of which tzdata has -14 to 12.

### Actions of the monitor

The loop: `BeginPass` | `NoPass` → `NextDatabase` → `Answers` | `Misses` (a retry
is left) | `GivesUp` → `LoopRecords` | `LoopRecordFails` → ... → `PassEnds` →
`Arm` → `Wait` → `TimerFires` | `Kicked` | `LoopExits`. Handlers: `AskInterval`
→ `StoreInterval` | `StoreFails` → `Apply` → `Kick`; `RestoreSnapshot` →
`Reload` | `ReloadFails` → `Apply` → `Kick`; `AskPing` → `PingEnds` | `PingCut` →
`PingRecords` | `PingRecordFails`; `DeleteDatabase`. `Stop` and `Restart` are
main's; `Falls` and `Rises` the world's. A start, the first one (`MonitorInit`)
or a `Restart`, reads the setting or fails to: `New` then goes on with the
default, and so does ReloadInterval (`ReloadFails`). `unread` remembers it.

### Actions of a file and of a dump

`Begin` → an `OpenStep` for each table of the ddl and each migration → opened;
`Fail` stops that anywhere and closes an open file; `TakeSnapshot`, `DeleteJob`
and `RestoreSnapshot`, for which `Opened(upload)` runs the same steps on the
upload. A line of a dump is written by `CopyBegins`, `CopyRow`, `CopyEnds`,
`Insert`, `Privilege`, `Statement` or `GoesOn`, each of which has both readers
read it; `EndOfFile` may come after any line.

### Abstractions

- Names, sizes, row counts, durations, error texts and triggers are left out:
  no step depends on them. Renaming a job is left out, so that a name belongs to
  one job; two jobs cannot have the same name (UNIQUE).
- The clock counts seconds and moves by at most one from one row to the next:
  the code compares times for equality and order only. It does not go back.
- The destinations of a loop are visited in any order; the code follows the
  order of a query.
- A Put that reports an error has stored nothing. A Delete of what is not there
  succeeds, as `os.Remove` is guarded and S3 answers.
- The temp file, `runDump`, `MeasureDump` and the S3 client are one step each:
  they work on files and connections of the run alone.
- One database is the target of all imports: `importMu` lets only one of them
  near it. The content of a database is left out; whether it stands is not.
- `dropdb`, `createdb`, `psql` and `pg_restore` are one step each that may fail,
  with the filtering of the dump (`restoreCopy`) part of the import's. A partial
  upload counts as no file.
- The name of an upload and `started_at` of its row are one reading of the clock.
- The run's reading of the clock and the insert of its row are one step
  (`OpenRow`), so that ids and stamps of different jobs come in the same order.
  `RowsInOrder` says so of all rows, which is more than the code promises; the
  properties use it of the rows of one job, whose runs exclude each other.
- Scheduler: names and fields the schedule does not depend on are left out. The
  files jobDelete removes between `Remove` and `DeleteJob` are in `Deletions`.
- Monitor: the discarding of a cancelled result and its record are one step, as
  its comment says; the dashboard setting that settingsSave writes next to the
  interval is left out. The incidents are counted, their times and errors are
  left out.
- Migrations: one job with one backup stands for the rows, since each statement
  treats all rows alike; constraints other than the NOT NULL of `job_id` are left
  out, and so are the rows of sessions.
- DumpText: a line is how it looks to the readers' prefix tests and what the
  writer means by it; a name is the table it denotes, quoted or not.
- `Catalog` and what is built on it, creation of jobs, databases and destinations: the instances start with all of
  them; ids are never reused, so that a new one is no different from one that
  was there before.

## 3. What TLC checks

### Passing runs

| Run | Instance | Shows |
|---|---|---|
| `retention` | 1 job, 4 settings it may have and switch between, 1 destination, 3 rows, 2 runners; dumps and uploads may fail | `OneRunPerJob`, `RecordedCopiesExist`, `NoOrphans`, `KeepLastBound`, `DeletedHoldsNoFile`, `RunningRowHasRun`, and that the engine implements `BackupHistory` (with all failures and crashes, this is proved) |
| `failures` | 2 jobs, 1 destination, 1 slot, 2 rows, 2 runners; every call but the marking may fail, 1 crash; with fairness | the inductive invariants `Inv` and `HistoryInv`, `DumpCap`, `NewestIntact`, and `RunEnds`: no failure keeps a job claimed or a slot taken |
| `delete_any` | 2 jobs, 1 destination, 2 rows, 2 runners, 1 handler, every kind of deletion | `OthersKeepTheirCopies` |
| `delete_faults` | 1 job, 2 rows, 1 runner, 1 handler, every call may fail, 1 crash | `RowsBelongToJobs`, and `Inv` of the engine under the deletions (`SystemInv`) |
| `restores` | 1 job with a local copy and 1 destination, 2 rows, 1 runner, 2 restorers, imports with a safety dump, with or without a drop; inserts, queries, updates, stores and the server's tools may fail, 1 crash | `ImportsSerialized` (in `RestoreInv`), `LiveProgressOwned` |
| `imports` | 1 job, 2 rows, 1 runner, 1 restorer, 1 handler that deletes executions; stores and the server's tools may fail | `SafetyFirst`, `JoblessKept` |
| `schedule` | 2 jobs, 1 handler, 1 fire, a form each for an offset Etc/GMT has and one it lacks, restored configurations in a zone by name and with a schedule cron does not parse; 2 events (failed statements, restores, crashes, restarts); with fairness | `EntriesFollowRows` (in `SchedulerInv`), `OffsetKept`, `ExitCutsNoRun`, `ShutdownEnds` |
| `monitor` | 2 databases, 1 of which always answers, intervals 0 and the default, 1 retry, 1 handler, 2 snapshots; 2 events (outages, failed statements, restores, restarts) and starts that may fail to read the setting; with fairness | `StateMatchesIncidents`, `CancellationIsNoDowntime`, `NoLostKick`, `StoredIsInForce`, that the monitor implements `Availability`, and `UpIsShown` and `StopReturns` |
| `migrations` | files of all versions and none; uploads of the file itself at any time, and of others that `validateSnapshot` refuses; 3 failures | `SchemaComplete`, `ContentsInPlace`, `LinksKept`, `JobsRunnable`, and `RestoreKeepsColumns` for the files of one installation |
| `dumptext` | 3 tables, one of them without columns, all dumps of 6 lines | `DumpInv`, `DropsPrivilegesOnly`, `CountsExact`, `CutDataRefused` |

Which failures a property survives is part of what it says. `RecordedCopiesExist`
and `NoOrphans` fail as soon as an update or a deletion may fail, which is the
code's choice (it logs and goes on), so `retention` lets only dumps and Puts
fail; `NewestIntact` and the two invariants are what survives everything, and
`failures` checks them with failures of all kinds and a crash (the marking of a
destination fails in `delete_faults`). Names shared by two rows of one second
are exempted from the properties on copies by `Shared`: two runs of one job
within a second need a dump that takes less.

### Runs that must find a violation

| Run | Property | What the code does |
|---|---|---|
| `snapshot_columns` | `RestoreKeepsColumns` | a configuration of an older version is migrated, which appends columns, and then copied by position into tables that have them elsewhere: contents change columns (where a column is NOT NULL, SQLite may refuse the row instead: a backup of versions 2 to 4 that was never restored has its NULL `restored_at` in the place of a column that takes none) |
| `restored_row` | `RestoreKeepsStatus` | a restore writes back the row it read at its start: a row that retention retired meanwhile is completed again |

### Known divergences

Behaviour the models have as the code has it, and no property excludes. Each
property that comes near names its exception.

- Deleting an execution or an import that is running leaves the dump its run
  stores later, recorded nowhere.
- A restore leaves its final entry in `progress`: the same backup is not restored
  again until its row is deleted or the process restarts.
- A deletion that fails is logged and the row retired: the copy stays for ever.
- After a crash the rows that were running stay `running`.
- Two requests on one job at the same time may leave a disabled job scheduled,
  although `README.md` says that "a disabled job never runs on schedule":
  `EntriesFollowRows` fails when `Schedule.cfg` is given `Overlap = TRUE` and two
  handlers.
- An edit of a job that has been deleted makes an entry, which fires for nothing
  until the next start; a deletion whose last statement fails leaves an enabled
  job without its entry. Both are the history variable `drift`.
- Two changes of the interval at the same time may leave the stored one and the
  one in force different until the next start or change (`StoredIsInForce` with
  two handlers and `MaxSetters = 2`).
- When the stored interval cannot be read, the default is in force although
  another one is stored: at a start New warns of it (monitor.go:90-97), after a
  restored configuration ReloadInterval does not (monitor.go:126-132). The next
  change, restore or start ends it. It is the exception `StoredIsInForce` names
  by `unread`: without it the run finds the start or the restore that parts them.
- The Open that takes a file of version 1 through migrateV1 drops the table
  `settings` after the ddl would have created it: it is missing until the next.
- A dump that is cut within its INSERT statements is measured without an error.
- restoreCopy looks at lines: a line of the body of a function, or of a text
  value that runs over several lines, is dropped when it starts with GRANT, REVOKE
  or the like (`DropsPrivilegesOnly` with `"privilege"` in `Inside`).

### Bounds

- Three rows of one job are what retention needs: with Keep last 1, one row to
  keep and two victims in one pass, or a victim that an earlier pass left
  behind; with Keep last 2, the boundary itself. Two rows suffice for the
  deletions, which treat the rows of a queue alike.
- Two runners of one job race in Trigger; with one slot and two jobs they race
  for the semaphore. `DumpCap` and `OneRunPerJob` are proved for any number.
- One destination next to the local copy gives every case of the row: none,
  either, both. The loop over destinations treats them alike, one after another.
- One crash: everything in memory is lost at once, and what a second one could
  add is a second row left running.
- One handler at a time next to the runs: two deletions of one execution do the
  same idempotent calls.
- Two restorers race for `importMu`; a third would be refused as the second is.
  Two rows hold a backup and an import, or an import and its safety dump. The
  options in use cover each flag; `imports` adds an import that creates the
  database to those of `restores`.
- `RowsLeft` reserves rows for an import as `RowLeft` does for a run.
- `MaxRows` bounds the triggers taken: a run that was claimed always has a row
  left, so that the bound never stops a run half way.
- Two jobs in `schedule`, so that a restored configuration may drop one and keep
  the other. One fire that has begun at once is what a shutdown can meet; two
  events make a failure followed by a restart, or a restore followed by a crash.
- Two databases in `monitor`: one is probed while the other waits in the pass.
  One retry gives the first attempt, the last one, and a cancellation in
  between. What is proved holds for any number of each, and so does
  `NoLostKick` for any number of handlers.
- Three failures in `migrations` interrupt three opens in a row; a fourth finds
  no file that three have not left, since all a step changes when it is done again
  is to create `settings` anew. What is proved holds for any number.
- Six lines are a block with two rows and its terminator, then an INSERT or a
  privilege and a second block cut at its start; the readers keep no state
  beyond the block they are in.
- Deadlock checking is off for the deletions and restores: when every job is
  deleted and the rows are used up there is nothing left to do; for `schedule`,
  as the process may be down for good once the events are used up; and for
  `dumptext`, as a dump ends.

Symmetry: runners, and jobs of equal settings, differ by their names only and
no property tells them apart; the runs that check liveness use none.

### Fairness

Engine (`Fairness`): `WF` of a runner's own steps: a goroutine that can go on is
scheduled, and `pg_dump`, S3 and SQLite answer or fail. `SF` of `AcquireSlot`: a
Go channel serves its blocked senders in order, so that a run which waits is not
passed by for ever. Triggers, edits and crashes are not fair. There is no timeout
on `pg_dump` in the code: that it ends is an assumption of `RunEnds`.

Monitor (`MonitorFairness`): `WF` of the loop's and of each handler's steps: psql
ends within `pingTimeout`, timers fire, SQLite answers. `SF` of `LoopExits`: the
loop comes to its select again and again, and a select with several ready cases
picks one at random, so that the one of Stop is taken in the end. Pings, changes
of the interval and outages are not fair.

Scheduler (`SchedulerFairness`): `WF` of main's steps, of the call of Trigger by a
fire that has begun, and of the end of a run (which is `RunEnds` of the engine).
Nothing is assumed of the handlers: `http.Server.Shutdown` waits for them for ten
seconds and no longer, so `Drained` needs none of them to end.

## 4. What is proved

For all values of the constants (any jobs, destinations, databases, settings,
snapshots, versions and faults, any tables and dumps, any finite set of runners, handlers
and restorers, any positive capacity, any bounds), under the hypotheses named:

| Module | Theorem | States |
|---|---|---|
| `BackupEngineProofs` | `Invariance` | `Spec => []Inv` |
| | `TypeCorrectness` | `Spec => []TypeOK`; `sema \in Nat` says that no slot is given back that was not taken |
| | `RunExclusion` | `Spec => []OneRunPerJob` |
| | `DumpConcurrency` | `Spec => []DumpCap` |
| | `HistoryInvariance` | `Spec => []HistoryInv` |
| | `NewestSurvives` | `Spec => []NewestIntact`, for any faults and crashes |
| | `HistoryKept` | `Spec => HistorySpec`: the engine implements `BackupHistory` |
| `BackupCopiesProofs` | `PollingStops` | `Spec => []RunningRowHasRun`, without failing updates and crashes |
| | `RetentionBound` | `Spec => []KeepLastBound`, without failing queries and updates |
| | `ListedIsRestorable` | `Spec => []RecordedCopiesExist`, without failing queries and updates and crashes |
| | `DeletedIsEmpty` | `Spec => []DeletedHoldsNoFile`, without failing marks and deletions |
| | `NothingForgotten` | `Spec => []NoOrphans`, without failing marks, deletions and updates and crashes |
| `DeletionsProofs` | `EngineSurvives` | `SystemSpec => []SystemInv`: the engine keeps `Inv` under the deletions |
| | `NoRowOfDeletedJob` | `SystemSpec => []RowsBelongToJobs` |
| | `DeletionsSpareOthers` | `SystemSpec => []OthersKeepTheirCopies`, without failing queries and updates and crashes |
| `RestoresProofs` | `OneImport` | `RestoreSpec => []RestoreInv` |
| | `ProgressIsOwned` | `RestoreSpec => []LiveProgressOwned` |
| | `SafetyDumpKept` | `RestoreSpec => []SafetyFirst`, without failing updates |
| | `UploadsKept` | `RestoreSpec => []JoblessKept`, without failing updates and crashes |
| `SchedulerProofs` | `SchedulerTypes` | `SchedulerSpec => []FormedInv` |
| | `CronFollowsRows` | `~Overlap` gives `SchedulerSpec => []SchedulerInv` |
| | `FiresInZone` | `~Overlap` gives `SchedulerSpec => []OffsetKept` |
| | `ShutdownCutsNoRun` | `SchedulerSpec => []ExitCutsNoRun` |
| `MonitorProofs` | `MonitorTypes` | `MonitorSpec => []MonitorTypeOK` |
| | `StateAndIncidents` | `MonitorSpec => []StateMatchesIncidents` |
| | `OneIncident` | `MonitorSpec => OneIncidentPerDowntime`: the monitor implements `Availability` |
| | `NoLostWakeUp` | `MonitorSpec => []NoLostKick` |
| | `NoFalseDowntime` | `MonitorSpec => []CancellationIsNoDowntime` |
| | `StoredApplies` | `MaxSetters = 1` gives `MonitorSpec => []StoredIsInForce`, failed readings of the setting being its one exception |
| `MigrationsProofs` | `FilesInShape` | `MigrationsSpec => []LiveInv` |
| | `OpenCompletes` | `MigrationsSpec => []SchemaComplete`, for any uploads |
| | `NothingMisplaced` | `InOrder` gives `MigrationsSpec => []ContentsInPlace` |
| | `NoJobStranded` | `InOrder` gives `MigrationsSpec => []JobsRunnable` |
| | `RestoredByName` | `InOrder` gives `MigrationsSpec => RestoreKeepsColumns` |
| | `CopiesStayLinked` | `Foreign \subseteq {0, 1}` gives `MigrationsSpec => []LinksKept` |
| `DumpTextProofs` | `ReadersInStep` | `Harmless` gives `DumpSpec => []DumpInv` |
| | `MeasuredExactly` | `Harmless` gives `DumpSpec => []CountsExact` |
| | `CutDumpsRefused` | `Harmless` gives `DumpSpec => []CutDataRefused` |
| | `OnlyPrivilegesDropped` | `Harmless` gives `DumpSpec => []DropsPrivilegesOnly` |

The engine. `OneRunPerJob` alone is not inductive: that a second claim is
refused needs `ClaimsHeld`, the job of every runner between claim and release is
in `running`. Given that, only `Claim`, `LoadJobFails` and `Leave` matter, and
the lemma `QuietSteps` says so of all the other steps. `DumpCap` is not
inductive either: the guard of the semaphore looks at its counter, so
`SlotsCounted` ties the counter to the set of runners between send and receive;
`SettledSteps` says that all steps but the send and the receive leave both
alone, and the two that do not add and remove one element of a finite set. The
types need `RowsOpened` (a link is made for a row that exists) and
`clock < nextRow` (the stamps stay in range). That last part is the engine's
alone, as restorers move the clock too, so the lemmas about the steps speak of
`Sound`, which is `Inv` without it, and of a next clock that is in range. TLC
checks `Inv` as an invariant of
`failures`. The assumptions are `CatalogAssumption` and `EngineAssumption`.

The history. `HistoryKept` needs more than `Inv`, and so does `NewestIntact`;
`HistoryInv` is inductive given `Inv`, part by part:

- `RowsInOrder`: ids and seconds grow together, so that the order of the list
  (`Newer`) is the order of the ids; no link is ahead of its row.
- `OwnRows`: until a run closes its row, the row is `running` and the run's. That
  no other run writes it follows from `OneRunPerJob`.
- `VictimsReplaceable`: each victim of a Prune is still a completed row of its
  job, and there is a newer completed one that is no victim. It is made true by
  `ListVictims` because keep-last is at least 1 and a finite set of ids has a
  largest (`LargestId`, from the well-foundedness of the naturals).
- `StoredCopies` and `ReplacedOrIntact`: a copy that is recorded exists, but for
  rows that share a file name and for completed rows with a newer one. A
  completed row may lose its copies and stay (the update fails, the process dies
  between the deletion and the update); what makes this harmless is that it has
  a newer completed row, and keeps one: when that is retired, it had a newer one
  itself (`NewerStays`).

The abstract steps are then `Begin` and `End` for the claim and its release,
`Open`, `Close` and `Retire` for the three writes of a row when they do not fail,
`Restart` for a crash, and a stutter for all the rest.

The copies. What the history says of stored copies is true under fewer failures
than the rest, and each theorem names those it does without, in its hypotheses:
the code logs a failed update, mark or deletion and goes on, so that more cannot
be true. All rest on `Inv` and `HistoryInv`.

- `PollingStops`: inductive with `RunningOwned`, a running row is that of a run
  between its insert and its close.
- `RetentionBound`: `BoundKept` follows the run through the loop of Prune: the
  completed rows of the job which are no victims are no more than were to be
  kept. That holds at the list by counting (`KeptFew`: of a finite set ordered by
  id, the elements with fewer than n newer ones are at most n) and stays, since no
  other run of the job completes a row meanwhile.
- `ListedIsRestorable`: the property is inductive given `HistoryInv`. A copy is
  deleted only for a victim in hand, which is excepted until its row is retired.
- `DeletedIsEmpty` and `NothingForgotten` rest on `Accounted`: every copy is that
  of a row which records it, of a row that a run has yet to close, or of one
  whose run died (`Abandoned`); and on `HandEmptied`, how much of the victim at
  hand is gone at each stage of the loop. `RowsBlank` says that a row that was
  not inserted has left no trace. A mark that fails leaves an object that no
  row records, which Prune then does not look for: both theorems exclude it, and
  deletions that fail. The second must exclude the abandoned rows as well, hence
  crashes and failing updates.

The deletions. The lemmas about the engine's steps need `Inv` and nothing else, so
they are cited as they stand for `SystemSpec`; a handler leaves `engineVars`, the
clock and the next id alone, and what it takes away leaves the tables well typed
(`HandlerCatalog`). `HistoryInv` does not survive, and should not: a handler
deletes the newest backup when it is asked to. `RowsBelongToJobs` holds because
a row is inserted only for a job that is there (the foreign key), goes with its
job (the cascade), and no update brings one back (`UpdateBringsNone`). The
assumptions are those of the engine.

`OthersKeepTheirCopies` can therefore not rest on `HistoryInv`: a run's own row
may be gone while it stores, and a victim of Prune may be deleted under it.
`CopiesInv` says what is left and is inductive given `SystemInv`: a run's row has
its job and name and is open or gone (`OwnNames`); a victim is no run's own row
(`VictimsClosed`); a handler has in hand the row it is to delete, or rows of the
job it is to delete (`HandlersQueued`); and until its row says so, what a run has
stored is there or excused (`InMaking`). Its steps are all proved through one
relation, `Spared`: a copy goes only under the name of a row which a handler or a
retention has in hand and goes on having in hand (`Taken`), or from a destination
that is being deleted, and these end with the row, its record or the destination
gone (`HandsLast`). `RunSpares` shows it of each step of a run, `HandlerHolds`,
`HandlerTakes` and `HandlerLinks` of each step of a handler; that all copies stay
then follows once for both (`MakingStays`, `LeftStay`). A query that fails may end
a retention between the copy and the row, an update that fails a deletion, and a
crash both: hence the hypotheses. Marks and removals may fail.

Restores and imports. `importMu` is taken in a handler and given back by a
goroutine, so nothing in the code ties the two but the control flow.
`RestoreSound` adds to `Sound` the types of the restorers, that as many of them as
`importMu` says are between the two (`ImportsSerialized`), and that an upload is
spooled to the import's own row. `MuSteps` counts them as `SettledSteps` does
the slots; this is where a finite set of restorers is assumed
(`RestoreAssumption`). `LiveProgressOwned` is not inductive, as a restorer that
is unlocking has no entry any more: `LiveOwned` names the stages in which an
entry may be live, and `ProgressSteps` says of each step that it starts, goes on
with or ends the entry of its row.

That an upload and a safety dump stay needs a view of everyone who removes a
file. `KeptInv` is inductive given `RestoreSound`: ids are used once and a row
that is gone says nothing of a file (`RowsFresh`); runs write and retire rows of
jobs (`RunsOfJobs`); a handler removes files of the execution it was asked to
delete, whose row goes in the end, or of a job (`RequestsInHand`); a restore
works on a job's row and an import on its upload's (`RestorersInHand`). From
these, `FilesGo`: in any step, a file that goes has a name of a job, of a row
that is being deleted, or of the upload that has just failed, and two restorers
cannot do so to each other (`OneHolder`). `StoredStays` is then what
`SafetyFirst` says, from the dump itself on and with the upload. It holds through
crashes, which leave no restorer. `JoblessSafe` says it of every row and is kept
by the same lemmas, with one more, that a row is marked as stored only when it is
(`MarkedSafe`); a crash ends a deletion between the file and the row, so
`UploadsKept` excludes them. Both exclude failing updates, after which a deletion
of an execution may have taken the file and left the row.

The proof showed that `SafetyFirst` was too strong as first stated: two safety
dumps of one second have one file name, and deleting the execution of the first
takes the file of the second, which nobody is deleting. The run could not meet
it, as its two rows allow for one safety dump only; the property now excepts the
case (`SafetyShared`), as the others do with `Shared`.

The scheduler. `SchedulerTypes` and `ShutdownCutsNoRun` hold for requests in any
order. The latter is inductive once it says for each phase of the shutdown what
may still trigger: after cron has stopped, the fires and the requests that had
begun are in `late`, and so is what they trigger. `CronFollowsRows` is about jobs
whose requests have ended; `StepInv` says what is true in between: of a request
that has written the row and not the entry, the entry it is going to make is that
of the row as it stands. That is so only while no other request on the job comes
in between, which is the hypothesis `~Overlap`, as in the run; what happens
otherwise is among the known divergences. `ScheduledRows` and `Rescheduled` say
what a list of rows, or one row, becomes in cron; a new job's id is larger than
all others, from the well-foundedness of the naturals. `FiresInZone` follows:
the entry has the row's zone, and `CronTimezone` turned its sign. The assumption
is `SchedulerAssumption`.

The monitor. `StateMatchesIncidents` is inductive with the types, since one
transaction writes both tables. The implementation needs it: the abstract `Fail`
sets the number of periods that are going on to one, the code adds an incident
only when it finds none, and the two agree because at most one is open. Each
step of the monitor is then `Succeed`, `Fail`, `Replace` or a stutter.
`NoLostKick` is about a loop at its select; what is inductive is `KickPending`,
which says the same from the moment the timer's interval is read: a change after
that is followed by a kick that stays in the channel until the loop takes it.
`CancellationIsNoDowntime` needs `OnlyFallersFail`: a result that is about to be
recorded as a failure comes from a database that may fall, or will be discarded
because the context is cancelled. `StoredIsInForce` is not inductive: between the
statement and the assignment the two differ, and what is inductive is `InForce`,
that a request in between is about to assign what is stored, or the default when
it could not read the setting (`Expected` is the one of the two that is due). A second request
would break it, so `MaxSetters = 1` is a hypothesis, as in the run. The assumption
is `MonitorAssumption`.

The migrations. The live file goes through the steps of Open one at a time, with
crashes in between; an uploaded one goes through all of them within one action. So
what a step does is proved once, of any file: `StepKeeps` says that a step on a
file in a known shape (`Shape`) at which the steps before it have done their work
(`Reached`) leaves a file in a known shape, at which it has done its own, and what
it keeps (`Keeps`). One lemma per statement (`CreatedKeeps`, `MigratedV1`,
`MigratedV2`, `JobsWiden`, `BackupsWiden`) does the work, over lemmas on what
adding and dropping a column make of a sequence without repetitions
(`ColumnAdded`, `ColumnDropped`); `OpenedKeeps` puts the sixteen steps together.

- `LiveInv` is inductive: `Shape` names the columns that a table may and must have
  before, between and after the migrations, `Reached` what was done in this Open.
  A crash sets the step back to none and asks nothing; that the next Open gets
  through is what `Shape` says. `settings` is excepted after migrateV1, as in the
  property. A restore leaves columns and tables alone, so `SchemaComplete` holds
  whatever is uploaded.
- `ContentInv` is inductive given `LiveInv`. For the rows of an opened file it says
  what `ContentsInPlace` and `JobsRunnable` say; for a file of the first version,
  whose jobs name S3 in a flag and the bucket in the settings, it says it in those
  terms (`Filling`, `Runnable`). A restore copies by position, so the invariant
  also has the order of the columns: `JobOrder` and `BackupOrder` are the orders
  that a file's tables will have once it is open, which no step changes
  (`SameOrder` in `Keeps`), and the upload's are those of the live file. The
  copy by position is then one by name (`CopiedInOrder`), which is
  `RestoreKeepsColumns` as well.
- `LinkInv`: `Linked` is what a file knows of the copy in the bucket, by a flag
  and the settings in the first version and by the link afterwards.

The hypothesis `InOrder` says that files of other installations which
`validateSnapshot` takes come to the order of the live file. It holds of the
user's own snapshots, of installations that began with the same version, and of
the files that are refused; it does not hold of others, which is the finding of
`snapshot_columns`. Files of versions 0 and 1 are refused, and `CopiesStayLinked` is
about an installation that has no other: what the file of another one says of
its backup has nothing to do with this one's. The assumption is
`MigrationsAssumption`.

The dump text. `DumpInv` is inductive: the flags of the two readers follow the
context of the writer (`ReadersTrackCopy`), a block has a table exactly while it
lasts (`BlockHasTable`), and the counts are right after every line
(`CountedSoFar`), which is stronger than `CountsExact`, at the end alone, and
what a step needs. `CountsBounded` keeps the counts in the types' range. The
proof has a lemma per kind of line; `Measuring` lists the five things
MeasureDump can make of one. The hypothesis `Harmless` says that no line inside
a statement of several lines looks like a header, an INSERT or a privilege
statement: the readers tell such lines by their prefix and would take them for
one. The run `dumptext` has it; rows of COPY data may look like anything. The
assumption is `DumpTextAssumption`.

What stays with TLC: `RunEnds`, `UpIsShown`, `StopReturns` and `ShutdownEnds`
(liveness, fairness and ENABLED are beyond the prover). Every invariant and every
action property of a passing run, and both refinements, are proved.

## 5. Plan

Done, in this order: `Catalog`, `BackupEngine`, `BackupHistory`,
`BackupEngineProofs`; `Deletions`; `Restores`; `Scheduler` with start and
shutdown; `Monitor`, `Availability`, `MonitorProofs`; `Migrations`; `DumpText`,
`DumpTextProofs`; the history in `BackupEngineProofs`; `DeletionsProofs`;
`SchedulerProofs`; `BackupCopiesProofs`; `RestoresProofs`; `MigrationsProofs`.

To come:

1. Sessions, and the figures of the dashboard, as operators.
2. A configuration that is restored while runs fill the rows it replaces:
   `RestoreSnapshot` of `Migrations` as an action of `Deletions`.

## 6. Not modelled

- Pages, charts and forms: rendering, and form parsing beyond what constrains a
  job. The figures of the dashboard are computed from one reading of the rows.
- Sessions and authentication: one statement each; no step depends on an earlier
  one but through the row of the session and its expiry.
- Configuration: read once at start.
- Fields that no step depends on: names, sizes, durations, error texts.
- A disk that is full and a file that is lost behind the program's back.
- Edits of databases and destinations: runs read the row of a database once, and
  nothing that is modelled depends on what it says.

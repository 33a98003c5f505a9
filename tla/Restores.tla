------------------------------ MODULE Restores ------------------------------
(***************************************************************************)
(* Restores of a backup and imports of an uploaded dump (internal/backup:  *)
(* pgrestore.go, import.go, progress.go), composed with the engine's runs  *)
(* and with the handlers that delete.  A restorer is one call of           *)
(* RestoreAsync or StartImport with the goroutine it starts.               *)
(***************************************************************************)
EXTENDS Deletions

CONSTANTS
  Restorers,  \* restores and imports being served at once
  Options     \* bound: the options users give to imports

ImportOptions ==
  [first: BOOLEAN,  \* BackupFirst
   make: BOOLEAN,   \* CreateDB
   clear: BOOLEAN]  \* ClearDB

ASSUME RestoreAssumption ==
  /\ IsFiniteSet(Restorers)
  /\ Options \subseteq ImportOptions

VARIABLES
  importMu,  \* Engine.importMu is locked
  progress,  \* Engine.progress: none, live, or ended (Finished) by row id
  exists,    \* external: the target database stands on its server
  rpc,       \* stage of each restorer
  res        \* its local variables

restoreVars == <<importMu, progress, exists, rpc, res>>
allVars == <<systemVars, restoreVars>>

\* Stages in which the restorer has importMu locked.
RestoreStages == {"loading", "locating", "fetching", "replaying", "writeBack"}
ImportStages == {"opening", "spooling", "starting", "probing", "safety",
                 "recording", "closing", "clearing", "creating", "importing",
                 "reporting", "importFailed", "leaving"}
HoldsMu == RestoreStages \union ImportStages \union {"locked", "unlocking"}

ResRecord ==
  [row: 0..MaxRows,              \* the row to restore, or the import's own
   local: BOOLEAN,               \* its stored_local, as of GetBackup
   fetched: BOOLEAN,             \* the dump is a temp file of the restorer
   todo: SUBSET Dests,           \* destinations not tried yet
   opts: ImportOptions,
   found: BOOLEAN,               \* exists, as importRun probed it
   safety: Names,                \* safetyName
   sid: 0..MaxRows]              \* row of the safety dump

NoRestore == [row |-> 0, local |-> FALSE, fetched |-> FALSE, todo |-> {},
              opts |-> [first |-> FALSE, make |-> FALSE, clear |-> FALSE],
              found |-> FALSE, safety |-> <<NoJob, 0>>, sid |-> 0]

RestoreTypeOK ==
  /\ SystemTypeOK
  /\ importMu \in BOOLEAN
  /\ progress \in [RowIds -> {"none", "live", "ended"}]
  /\ exists \in BOOLEAN
  /\ rpc \in [Restorers -> HoldsMu \union {"idle", "asked", "spoolFailed"}]
  /\ res \in [Restorers -> ResRecord]

RestoreInit ==
  /\ SystemInit
  /\ importMu = FALSE
  /\ progress = [id \in RowIds |-> "none"]
  /\ exists \in BOOLEAN
  /\ rpc = [k \in Restorers |-> "idle"]
  /\ res = [k \in Restorers |-> NoRestore]

Advance(k, from, to) == rpc[k] = from /\ rpc' = [rpc EXCEPT ![k] = to]

\* Everything but the rows, the files and the clock.
Elsewhere == UNCHANGED <<configVars, links, objects, engineVars, handlerVars>>

OnlyMemory ==
  UNCHANGED <<catalogVars, engineVars, handlerVars, importMu, exists>>

-----------------------------------------------------------------------------
(* importMu and the progress entries.                                      *)

StartProgress(id) == progress' = [progress EXCEPT ![id] = "live"]

\* p.finish: the entry may be gone from the map by now.
Finish(id) == progress' = [progress EXCEPT ![id] = IF @ = "live" THEN "ended"
                                                                 ELSE @]

ClearProgress(id) == progress' = [progress EXCEPT ![id] = "none"]

\* Mutant of MuFree: the result of TryLock is not looked at.
MuIgnored == TRUE

\* TryLock.
MuFree == ~importMu

Unlock(k) ==
  /\ Advance(k, "unlocking", "idle")
  /\ importMu' = FALSE
  /\ res' = [res EXCEPT ![k] = NoRestore]
  /\ UNCHANGED <<systemVars, progress, exists>>

-----------------------------------------------------------------------------
(* RestoreAsync and Restore.                                               *)

\* What RestoreAsync asks of the entries of the row.
NoEntry(id) == progress[id] = "none"

\* executionRestore: GetBackup, and the first test of RestoreAsync.
AskRestore(k, id) ==
  /\ Advance(k, "idle", "asked")
  /\ rows[id].status = "completed"
  /\ NoEntry(id)
  /\ res' = [res EXCEPT ![k] = [NoRestore EXCEPT !.row = id,
                                                 !.local = rows[id].local]]
  /\ OnlyMemory /\ UNCHANGED progress

LockForRestore(k) ==
  /\ Advance(k, "asked", "locked")
  /\ MuFree
  /\ importMu' = TRUE
  /\ UNCHANGED <<systemVars, progress, exists, res>>

Refused(k) ==
  /\ Advance(k, "asked", "idle")
  /\ ~MuFree
  /\ res' = [res EXCEPT ![k] = NoRestore]
  /\ OnlyMemory /\ UNCHANGED progress

BeginRestore(k) ==
  /\ Advance(k, "locked", "loading")
  /\ StartProgress(res[k].row)
  /\ OnlyMemory /\ UNCHANGED res

\* Mutant of FailRestore: a return that bypasses fail.
FailSilently(k, from) ==
  Advance(k, from, "unlocking") /\ OnlyMemory /\ UNCHANGED <<progress, res>>

\* fail: the entry becomes terminal, the goroutine returns.
FailRestore(k, from) ==
  /\ Advance(k, from, "unlocking")
  /\ Finish(res[k].row)
  /\ OnlyMemory /\ UNCHANGED res

\* GetJob and GetDatabase: the row of an import has no job.
HasTarget(id) == rows[id].job \in Jobs /\ jobs[rows[id].job].live

LoadTarget(k) ==
  /\ Advance(k, "loading", "locating")
  /\ HasTarget(res[k].row)
  /\ OnlyMemory /\ UNCHANGED <<progress, res>>

LoadTargetFails(k) ==
  /\ FailRestore(k, "loading")
  /\ ~HasTarget(res[k].row) \/ MayFail("query")

\* The file of the row's name, whatever the row says of it.
FoundLocally(k) ==
  /\ Advance(k, "locating", "replaying")
  /\ Name(res[k].row) \in files
  /\ OnlyMemory /\ UNCHANGED <<progress, res>>

NotLocal(k) ==
  /\ Advance(k, "locating", "fetching")
  /\ Name(res[k].row) \notin files
  /\ LinksOf(res[k].row) # {}
  /\ res' = [res EXCEPT ![k].todo = LinksOf(res[k].row)]
  /\ OnlyMemory /\ UNCHANGED progress

FoundNowhere(k) ==
  /\ FailRestore(k, "locating")
  /\ Name(res[k].row) \notin files
  /\ LinksOf(res[k].row) = {} \/ MayFail("query")

Fetch(k, d) ==
  /\ Advance(k, "fetching", "replaying")
  /\ d \in res[k].todo
  /\ <<d, Name(res[k].row)>> \in objects
  /\ res' = [res EXCEPT ![k].fetched = TRUE, ![k].todo = {}]
  /\ OnlyMemory /\ UNCHANGED progress

\* The next destination is tried.
FetchFails(k, d) ==
  /\ rpc[k] = "fetching"
  /\ d \in res[k].todo
  /\ <<d, Name(res[k].row)>> \notin objects \/ MayFail("replay")
  /\ res' = [res EXCEPT ![k].todo = @ \ {d}]
  /\ OnlyMemory /\ UNCHANGED <<progress, rpc>>

FetchedNothing(k) == FailRestore(k, "fetching") /\ res[k].todo = {}

\* The job's own database stands.  A file that was found may be gone by now.
Replay(k) ==
  /\ Advance(k, "replaying", "writeBack")
  /\ res[k].fetched \/ Name(res[k].row) \in files
  /\ Finish(res[k].row)
  /\ OnlyMemory /\ UNCHANGED res

ReplayFails(k) ==
  /\ FailRestore(k, "replaying")
  /\ MayFail("replay") \/ (~res[k].fetched /\ Name(res[k].row) \notin files)

\* UpdateBackup(b): restored_at, and every other column as GetBackup read it.
WriteBack(k) ==
  /\ Advance(k, "writeBack", "unlocking")
  /\ \/ UpdateBackup(res[k].row, "completed", res[k].local)
     \/ MayFail("update") /\ UNCHANGED rows
  /\ Elsewhere
  /\ UNCHANGED <<nextRow, clock, files, importMu, progress, exists, res>>

-----------------------------------------------------------------------------
(* StartImport.                                                            *)

StartImport(k) ==
  /\ Advance(k, "idle", "opening")
  /\ MuFree
  /\ importMu' = TRUE
  /\ \E opts \in Options :
       res' = [res EXCEPT ![k] = [NoRestore EXCEPT !.opts = opts]]
  /\ UNCHANGED <<systemVars, progress, exists>>

\* A row without a job, at the second that time.Now() gives.
InsertRow(owner) ==
  \E started \in {clock, clock + 1} :
    /\ clock' = started
    /\ CreateBackup(owner, started)

RecordImport(k) ==
  /\ Advance(k, "opening", "spooling")
  /\ InsertRow("uploaded")
  /\ res' = [res EXCEPT ![k].row = nextRow]
  /\ Elsewhere /\ UNCHANGED <<files, importMu, progress, exists>>

RecordImportFails(k) ==
  /\ Advance(k, "opening", "unlocking")
  /\ MayFail("insert")
  /\ OnlyMemory /\ UNCHANGED <<progress, res>>

\* os.Create truncates a file of the same name.
Spool(k) ==
  /\ Advance(k, "spooling", "starting")
  /\ files' = files \union {Name(res[k].row)}
  /\ Elsewhere /\ UNCHANGED <<rowVars, importMu, progress, exists, res>>

\* The partial upload is removed and the lock given back, then the row closed.
SpoolFails(k) ==
  /\ Advance(k, "spooling", "spoolFailed")
  /\ MayFail("put")
  /\ files' = files \ {Name(res[k].row)}
  /\ importMu' = FALSE
  /\ Elsewhere /\ UNCHANGED <<rowVars, progress, exists, res>>

\* UpdateBackup; its failure is only logged.
CloseRow(id, status, local) ==
  /\ \/ UpdateBackup(id, status, local)
     \/ MayFail("update") /\ UNCHANGED rows
  /\ Elsewhere
  /\ UNCHANGED <<nextRow, clock, files, exists>>

CloseFailedSpool(k) ==
  /\ Advance(k, "spoolFailed", "idle")
  /\ CloseRow(res[k].row, "failed", FALSE)
  /\ res' = [res EXCEPT ![k] = NoRestore]
  /\ UNCHANGED <<importMu, progress>>

-----------------------------------------------------------------------------
(* importRun.                                                              *)

BeginImport(k) ==
  /\ Advance(k, "starting", "probing")
  /\ StartProgress(res[k].row)
  /\ OnlyMemory /\ UNCHANGED res

\* Without a flag that needs the answer the database is taken to exist.
Probe(k) ==
  /\ Advance(k, "probing", "safety")
  /\ LET asked == res[k].opts.make \/ res[k].opts.clear
     IN  res' = [res EXCEPT ![k].found = asked => exists]
  /\ OnlyMemory /\ UNCHANGED progress

\* One of the returns of importRun that report a failure.
ImportFails(k, from) ==
  Advance(k, from, "importFailed") /\ OnlyMemory /\ UNCHANGED <<progress, res>>

ProbeFails(k) ==
  /\ res[k].opts.make \/ res[k].opts.clear
  /\ MayFail("query")
  /\ ImportFails(k, "probing")

SafetyWanted(k) == res[k].opts.first /\ res[k].found

SafetySkipped(k) ==
  /\ Advance(k, "safety", "clearing")
  /\ ~SafetyWanted(k)
  /\ OnlyMemory /\ UNCHANGED <<progress, res>>

\* runDump and Local.Put.
SafetyDump(k) ==
  /\ Advance(k, "safety", "recording")
  /\ SafetyWanted(k) /\ exists
  /\ \E now \in {clock, clock + 1} :
       LET name == <<"pre-restore", now>> IN
       /\ clock' = now
       /\ files' = files \union {name}
       /\ res' = [res EXCEPT ![k].safety = name]
  /\ Elsewhere /\ UNCHANGED <<rows, nextRow, importMu, progress, exists>>

\* Mutant of AfterFailedSafety: the failure is logged, the import goes on.
GoOnWithout == "clearing"

\* "A failed safety dump aborts the import."
AfterFailedSafety == "importFailed"

SafetyFails(k) ==
  /\ Advance(k, "safety", AfterFailedSafety)
  /\ SafetyWanted(k)
  /\ ~exists \/ MayFail("dump") \/ MayFail("put")
  /\ OnlyMemory /\ UNCHANGED <<progress, res>>

\* recordSafetyDump: two transactions; a failure of the first is only logged.
RecordSafety(k) ==
  /\ Advance(k, "recording", "closing")
  /\ CreateBackup("pre-restore", res[k].safety[2])
  /\ res' = [res EXCEPT ![k].sid = nextRow]
  /\ Elsewhere /\ UNCHANGED <<clock, files, importMu, progress, exists>>

RecordSafetyFails(k) ==
  /\ Advance(k, "recording", "clearing")
  /\ MayFail("insert")
  /\ OnlyMemory /\ UNCHANGED <<progress, res>>

\* Without the file the row is left as it is, running.
CloseSafety(k) ==
  /\ Advance(k, "closing", "clearing")
  /\ IF res[k].safety \in files
     THEN CloseRow(res[k].sid, "completed", TRUE)
     ELSE OnlyMemory
  /\ UNCHANGED <<importMu, progress, res>>

\* dropdb --force.
Drop(k) ==
  /\ Advance(k, "clearing", "creating")
  /\ res[k].opts.clear /\ res[k].found
  /\ exists' = FALSE
  /\ UNCHANGED <<systemVars, importMu, progress, res>>

NothingToDrop(k) ==
  /\ \/ res[k].found /\ Advance(k, "clearing", "importing")
     \/ ~res[k].found /\ Advance(k, "clearing", "creating")
  /\ ~(res[k].opts.clear /\ res[k].found)
  /\ OnlyMemory /\ UNCHANGED <<progress, res>>

CreateDatabase(k) ==
  /\ Advance(k, "creating", "importing")
  /\ exists' = TRUE
  /\ UNCHANGED <<systemVars, importMu, progress, res>>

ToolFails(k) ==
  /\ MayFail("replay")
  /\ \/ res[k].opts.clear /\ res[k].found /\ ImportFails(k, "clearing")
     \/ ImportFails(k, "creating")

\* restoreCopy and runRestore: they need the upload and a database.
CanImport(k) == exists /\ Name(res[k].row) \in files

Import(k) ==
  /\ Advance(k, "importing", "reporting")
  /\ CanImport(k)
  /\ OnlyMemory /\ UNCHANGED <<progress, res>>

ImportingFails(k) ==
  /\ ImportFails(k, "importing")
  /\ ~CanImport(k) \/ MayFail("replay")

\* Stat of the upload, and the row.
Report(k) ==
  /\ Advance(k, "reporting", "leaving")
  /\ IF Name(res[k].row) \in files
     THEN CloseRow(res[k].row, "completed", TRUE)
     ELSE CloseRow(res[k].row, "failed", FALSE)
  /\ UNCHANGED <<importMu, progress, res>>

\* finishImportFailed: the upload stays.
FinishImportFailed(k) ==
  /\ Advance(k, "importFailed", "leaving")
  /\ CloseRow(res[k].row, "failed", TRUE)
  /\ UNCHANGED <<importMu, progress, res>>

\* The deferred progress.Delete.
LeaveImport(k) ==
  /\ Advance(k, "leaving", "unlocking")
  /\ ClearProgress(res[k].row)
  /\ OnlyMemory /\ UNCHANGED res

-----------------------------------------------------------------------------
RestorerStep(k) ==
  \/ LockForRestore(k) \/ Refused(k) \/ BeginRestore(k)
  \/ LoadTarget(k) \/ LoadTargetFails(k)
  \/ FoundLocally(k) \/ NotLocal(k) \/ FoundNowhere(k)
  \/ \E d \in Dests : Fetch(k, d) \/ FetchFails(k, d)
  \/ FetchedNothing(k) \/ Replay(k) \/ ReplayFails(k) \/ WriteBack(k)
  \/ RecordImport(k) \/ RecordImportFails(k)
  \/ Spool(k) \/ SpoolFails(k) \/ CloseFailedSpool(k)
  \/ BeginImport(k) \/ Probe(k) \/ ProbeFails(k)
  \/ SafetySkipped(k) \/ SafetyDump(k) \/ SafetyFails(k)
  \/ RecordSafety(k) \/ RecordSafetyFails(k) \/ CloseSafety(k)
  \/ Drop(k) \/ NothingToDrop(k) \/ CreateDatabase(k) \/ ToolFails(k)
  \/ Import(k) \/ ImportingFails(k) \/ Report(k) \/ FinishImportFailed(k)
  \/ LeaveImport(k) \/ Unlock(k)

RestorerBegins(k) == (\E id \in RowIds : AskRestore(k, id)) \/ StartImport(k)

\* executionDelete also clears the progress entry, before the files.
DeleteExecutionStarts(q) ==
  \E id \in RowIds :
    /\ DeleteExecutionBegins(q, id)
    /\ ClearProgress(id)
    /\ UNCHANGED <<importMu, exists, rpc, res>>

RestoreCrash ==
  /\ SystemCrash
  /\ importMu' = FALSE
  /\ progress' = [id \in RowIds |-> "none"]
  /\ rpc' = [k \in Restorers |-> "idle"]
  /\ res' = [k \in Restorers |-> NoRestore]
  /\ UNCHANGED exists

\* Bounds: an import begins only while rows are left for it and its safety dump,
\* and a safety dump that is not recorded leaves no second for a later row.
Reserved ==
  LET before(stages) == {k \in Restorers : rpc[k] \in stages}
  IN  Cardinality(before({"opening"}))
      + Cardinality({k \in before({"opening", "spooling", "starting", "probing",
                                   "safety", "recording"}) : res[k].opts.first})
RowsLeft == nextRow + Cardinality(Opening) + Reserved <= MaxRows + 1

RestoreNext ==
  /\ \/ EngineNext /\ UNCHANGED <<handlerVars, restoreVars>>
     \/ (\E j \in Jobs : EditJob(j)) /\ UNCHANGED <<handlerVars, restoreVars>>
     \/ \E q \in Requests : DeleteExecutionStarts(q)
     \/ (\E q \in Requests : DeletionBegins(q) \/ HandlerStep(q))
           /\ UNCHANGED restoreVars
     \/ \E k \in Restorers : RestorerBegins(k) \/ RestorerStep(k)
     \/ RestoreCrash
  /\ RowsLeft' /\ clock' \in Stamps

RestoreSpec == RestoreInit /\ [][RestoreNext]_allVars

-----------------------------------------------------------------------------
(* Properties.                                                             *)

Holding == {k \in Restorers : rpc[k] \in HoldsMu}

\* "Imports are serialized engine-wide": at most one import or restore is
\* between TryLock and Unlock, and no path returns with the lock.
ImportsSerialized == Cardinality(Holding) = IF importMu THEN 1 ELSE 0

\* The same, with the types of the restorers' variables.
RestoreInv == RestoreTypeOK /\ ImportsSerialized

\* Another row of the second of k's safety dump has the same file name.
SafetyShared(k) ==
  \E id \in RowIds \ {res[k].sid} : id < nextRow /\ Name(id) = res[k].safety

\* README: "Back up the current database first ... If the backup fails, the
\* restore is skipped": from the drop to the replay the safety dump of a
\* database that was found is stored, unless its execution is deleted.  (While
\* the deletion of an execution ends with its row, and no other safety dump is
\* of the same second.)
SafetyFirst ==
  \A k \in Restorers :
    rpc[k] \in {"clearing", "creating", "importing"} /\ SafetyWanted(k)
      => \/ res[k].safety \in files \/ SafetyShared(k)
         \/ res[k].sid # 0 /\ (~Present(res[k].sid) \/ BeingDeleted(res[k].sid))

\* import.go: "nothing silently removes them" -- an upload or a safety dump
\* whose row says that it is stored stays, whatever retention and deletions of
\* other rows do, even if the import fails.
JoblessKept ==
  \A id \in RowIds :
    rows[id].job \in Jobless /\ rows[id].local
      => Name(id) \in files \/ Shared(id) \/ BeingDeleted(id)

\* A row shows a restore in progress only while a restorer works on it: every
\* way out makes the entry terminal or removes it.
LiveProgressOwned ==
  \A id \in RowIds : progress[id] = "live"
    => \E k \in Restorers : rpc[k] \in HoldsMu /\ res[k].row = id

\* pgrestore.go: "the row's stored status never changes" by a restore.
RestoreKeepsStatus ==
  [][\A k \in Restorers : WriteBack(k) =>
       rows'[res[k].row].status = rows[res[k].row].status]_allVars
=============================================================================

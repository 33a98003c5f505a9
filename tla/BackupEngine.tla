---------------------------- MODULE BackupEngine ----------------------------
(***************************************************************************)
(* The backup engine (internal/backup: run.go and retention.go).  A runner *)
(* is one call of Engine.Trigger together with the goroutine it starts:    *)
(* pc[r] is where it stands, run[r] its local variables.  Between any two  *)
(* steps of a runner the other runners, an edit of a job or a crash of the *)
(* process may happen.                                                     *)
(***************************************************************************)
EXTENDS Catalog

CONSTANTS
  Runners,        \* goroutines: bound on triggers being handled at once
  MaxConcurrent,  \* capacity of Engine.sema
  Faults,         \* the operations that may fail
  MaxCrashes      \* bound: crashes of the process

FaultKinds ==
  {"insert", "query", "dump", "put", "mark", "update", "delete", "replay"}

ASSUME EngineAssumption ==
  /\ IsFiniteSet(Runners)
  /\ MaxConcurrent \in Nat \ {0}
  /\ Faults \subseteq FaultKinds
  /\ MaxCrashes \in Nat

VARIABLES
  running,  \* Engine.running: jobs with a backup in flight
  sema,     \* number of slots taken in Engine.sema
  pc,
  run,
  crashes

engineVars == <<running, sema, pc, run, crashes>>
vars == <<catalogVars, engineVars>>

\* Stages in which the runner's goroutine holds a slot of sema.
HoldsSlot == {"dumping", "uploading", "marking", "finishing",
              "dumpFailed", "listing", "pruning", "pruneLinks",
              "pruneObjects", "releasing"}
\* Stages in which Engine.running holds the runner's job.
HoldsJob == HoldsSlot \union {"claimed", "loaded", "planning", "planFailed",
                              "queued", "leaving"}
Stages == {"idle"} \union HoldsJob

RunRecord ==
  [job: Jobs \union {NoJob},  \* the Job value that GetJob returned
   keepLast: Nat,             \* job.KeepLast, as of GetJob
   destLocal: BOOLEAN,        \* job.DestLocal, as of GetJob
   row: 0..MaxRows,           \* id of the run's backups row
   name: Names,               \* filename
   todo: SUBSET Dests,        \* destinations still to be visited
   sent: SUBSET Dests,        \* destination uploaded to, not marked yet
   kept: BOOLEAN,             \* storedLocal or some storedDests
   local: BOOLEAN,            \* storedLocal
   victims: SUBSET Victims]   \* rows Prune has not retired yet

NoRun == [job |-> NoJob, keepLast |-> 0, destLocal |-> FALSE, row |-> 0,
          name |-> <<NoJob, 0>>, todo |-> {}, sent |-> {}, kept |-> FALSE,
          local |-> FALSE, victims |-> {}]

TypeOK ==
  /\ CatalogTypeOK
  /\ running \in SUBSET Jobs
  /\ sema \in Nat
  /\ pc \in [Runners -> Stages]
  /\ run \in [Runners -> RunRecord]
  /\ crashes \in 0..MaxCrashes

Init ==
  /\ CatalogInit
  /\ running = {}
  /\ sema = 0
  /\ pc = [r \in Runners |-> "idle"]
  /\ run = [r \in Runners |-> NoRun]
  /\ crashes = 0

\* Runner r moves from one stage to another.
Goto(r, from, to) == pc[r] = from /\ pc' = [pc EXCEPT ![r] = to]

\* ... and changes nothing else.
Pass(r, from, to) ==
  Goto(r, from, to) /\ UNCHANGED <<catalogVars, running, sema, run, crashes>>

MayFail(fault) == fault \in Faults

\* Mutant of Unwind: the receive from sema is the last statement of the success
\* path.
UnwindSuccessOnly(stage) ==
  IF stage \in HoldsSlot \ {"dumpFailed"} THEN "releasing" ELSE "leaving"

\* Where a return of RunBackup leads: to the deferred receive from sema, once
\* the send is done, then to the deferred calls of the goroutine.
Unwind(stage) == IF stage \in HoldsSlot THEN "releasing" ELSE "leaving"

-----------------------------------------------------------------------------
(* Trigger.                                                                *)

\* Mutant of NotInFlight: Store in place of LoadOrStore.
StoreAnyway(j) == TRUE

\* LoadOrStore; a job already present answers ErrAlreadyRunning.
NotInFlight(j) == j \notin running

Claim(r, j) ==
  /\ Goto(r, "idle", "claimed")
  /\ NotInFlight(j)
  /\ running' = running \union {j}
  /\ run' = [run EXCEPT ![r].job = j]
  /\ UNCHANGED <<catalogVars, sema, crashes>>

\* GetJob: the goroutine starts with the values the job has now.
LoadJob(r) ==
  LET job == jobs[run[r].job] IN
  /\ Goto(r, "claimed", "loaded")
  /\ job.live
  /\ run' = [run EXCEPT ![r].keepLast = job.keepLast,
                        ![r].destLocal = job.destLocal]
  /\ UNCHANGED <<catalogVars, running, sema, crashes>>

\* running.Delete: the end of the goroutine, or of a Trigger without a job.
GiveBack(r, from) ==
  /\ Goto(r, from, "idle")
  /\ running' = running \ {run[r].job}
  /\ run' = [run EXCEPT ![r] = NoRun]
  /\ UNCHANGED <<catalogVars, sema, crashes>>

LoadJobFails(r) ==
  /\ GiveBack(r, "claimed")
  /\ ~jobs[run[r].job].live \/ MayFail("query")

-----------------------------------------------------------------------------
(* RunBackup.                                                              *)

\* time.Now() is the second of the row before it, or a later one.
OpenRow(r) ==
  /\ Goto(r, "loaded", "planning")
  /\ nextRow <= MaxRows
  /\ \E started \in {clock, clock + 1} :
       /\ clock' = started
       /\ CreateBackup(run[r].job, started)
       /\ run' = [run EXCEPT ![r].row = nextRow,
                             ![r].name = <<run[r].job, started>>]
  /\ UNCHANGED <<configVars, links, storeVars, running, sema, crashes>>

OpenRowFails(r) ==
  /\ Pass(r, "loaded", Unwind("loaded"))
  /\ ~jobs[run[r].job].live \/ MayFail("insert")

\* GetDatabase and JobDestinations, read now and not at the trigger.
LoadDestinations(r) ==
  /\ Goto(r, "planning", "queued")
  /\ run' = [run EXCEPT ![r].todo = jobs[run[r].job].dests]
  /\ UNCHANGED <<catalogVars, running, sema, crashes>>

LoadDestinationsFails(r) ==
  /\ Pass(r, "planning", "planFailed")
  /\ ~jobs[run[r].job].live \/ MayFail("query")

\* Mutant of SlotFree: a channel of one slot too many.
SlotFreeOffByOne == sema <= MaxConcurrent

\* e.sema <- struct{}{} blocks while the channel is full.
SlotFree == sema < MaxConcurrent

AcquireSlot(r) ==
  /\ Goto(r, "queued", "dumping")
  /\ SlotFree
  /\ sema' = sema + 1
  /\ UNCHANGED <<catalogVars, running, run, crashes>>

Dump(r) == Pass(r, "dumping", "uploading")
DumpFails(r) == MayFail("dump") /\ Pass(r, "dumping", "dumpFailed")

\* UpdateBackup of the run's own row; its failure is only logged.
WriteRow(r, status, local) ==
  /\ \/ UpdateBackup(run[r].row, status, local)
     \/ MayFail("update") /\ UNCHANGED rows
  /\ UNCHANGED <<configVars, nextRow, clock, links, storeVars, running, sema,
                 run, crashes>>

\* finishFailed, before the semaphore and after it.
FinishFailed(r) ==
  /\ \E stage \in {"planFailed", "dumpFailed"} : Goto(r, stage, Unwind(stage))
  /\ WriteRow(r, "failed", FALSE)

\* S3.Put of the temp file; the object replaces one of the same name.
Upload(r, d) ==
  /\ Goto(r, "uploading", "marking")
  /\ d \in run[r].todo
  /\ objects' = objects \union {<<d, run[r].name>>}
  /\ run' = [run EXCEPT ![r].todo = @ \ {d}, ![r].sent = {d}, ![r].kept = TRUE]
  /\ UNCHANGED <<configVars, rowVars, links, files, running, sema, crashes>>

\* A failed Put is a warning; the loop goes on with the next destination.
UploadFails(r, d) ==
  /\ pc[r] = "uploading"
  /\ d \in run[r].todo
  /\ MayFail("put")
  /\ run' = [run EXCEPT ![r].todo = @ \ {d}]
  /\ UNCHANGED <<catalogVars, running, sema, pc, crashes>>

\* MarkBackupDestination; its failure is only logged.
MarkDestination(r) ==
  /\ Goto(r, "marking", "uploading")
  /\ \E d \in run[r].sent :
       \/ CanMark(run[r].row, d) /\ MarkBackupDestination(run[r].row, d)
       \/ (~CanMark(run[r].row, d) \/ MayFail("mark")) /\ UNCHANGED links
  /\ run' = [run EXCEPT ![r].sent = {}]
  /\ UNCHANGED <<configVars, rowVars, storeVars, running, sema, crashes>>

\* Local.Put renames the temp file over a file of the same name.
SaveLocal(r) ==
  /\ Goto(r, "uploading", "finishing")
  /\ run[r].todo = {} /\ run[r].destLocal
  /\ files' = files \union {run[r].name}
  /\ run' = [run EXCEPT ![r].local = TRUE, ![r].kept = TRUE]
  /\ UNCHANGED <<configVars, rowVars, links, objects, running, sema, crashes>>

NothingLocal(r) ==
  /\ run[r].todo = {}
  /\ ~run[r].destLocal \/ MayFail("put")
  /\ Pass(r, "uploading", "finishing")

\* Mutant of StoredLocal: the row says what was configured.
StoredLocalAsConfigured(r) == run[r].destLocal

\* What the row says of the local copy.
StoredLocal(r) == run[r].local

\* One stored copy makes the run completed; retention follows only then.
FinishRow(r) ==
  \/ /\ run[r].kept
     /\ Goto(r, "finishing", "listing")
     /\ WriteRow(r, "completed", StoredLocal(r))
  \/ /\ ~run[r].kept
     /\ Goto(r, "finishing", Unwind("finishing"))
     /\ WriteRow(r, "failed", FALSE)

-----------------------------------------------------------------------------
(* Prune.                                                                  *)

\* Mutant of Excess: ListBackups(job.ID, false), failed rows count too.
ExcessOfAnyStatus(r) ==
  Beyond({id \in RowIds : Present(id) /\ rows[id].job = run[r].job},
         run[r].keepLast)

\* The completed rows after the first job.KeepLast, newest first.
Excess(r) == Beyond(CompletedOf(run[r].job), run[r].keepLast)

ListVictims(r) ==
  /\ Goto(r, "listing", "pruning")
  /\ run[r].keepLast > 0
  /\ run' = [run EXCEPT ![r].victims = Read(Excess(r))]
  /\ UNCHANGED <<catalogVars, running, sema, crashes>>

KeepAll(r) ==
  /\ run[r].keepLast = 0 \/ MayFail("query")
  /\ Pass(r, "listing", Unwind("listing"))

\* The loop goes from the newest row to the oldest.
Victim(r) == First(run[r].victims)

\* Local.Delete, when the row said stored_local.
DeleteFile(r) ==
  /\ Goto(r, "pruning", "pruneLinks")
  /\ run[r].victims # {}
  /\ \/ Victim(r).local /\ files' = files \ {Name(Victim(r).id)}
     \/ (~Victim(r).local \/ MayFail("delete")) /\ UNCHANGED files
  /\ UNCHANGED <<configVars, rowVars, links, objects, running, sema, run,
                 crashes>>

ListLinks(r) ==
  /\ Goto(r, "pruneLinks", "pruneObjects")
  /\ run' = [run EXCEPT ![r].todo = LinksOf(Victim(r).id)]
  /\ UNCHANGED <<catalogVars, running, sema, crashes>>

\* continue: the row stays completed although its local file is gone.
ListLinksFails(r) ==
  /\ MayFail("query")
  /\ Goto(r, "pruneLinks", "pruning")
  /\ run' = [run EXCEPT ![r].victims = @ \ {Victim(r)}]
  /\ UNCHANGED <<catalogVars, running, sema, crashes>>

DeleteObject(r, d) ==
  /\ pc[r] = "pruneObjects"
  /\ d \in run[r].todo
  /\ \/ objects' = objects \ {<<d, Name(Victim(r).id)>>}
     \/ MayFail("delete") /\ UNCHANGED objects
  /\ run' = [run EXCEPT ![r].todo = @ \ {d}]
  /\ UNCHANGED <<configVars, rowVars, links, files, running, sema, pc, crashes>>

\* Mutant of ObjectsVisited: the row is retired inside the loop.
NoWait(r) == TRUE

\* The loop over the destinations has ended.
ObjectsVisited(r) == run[r].todo = {}

\* The row is retired whether or not its copies could be deleted.
RetireRow(r) ==
  /\ Goto(r, "pruneObjects", "pruning")
  /\ ObjectsVisited(r)
  /\ \/ MarkBackupDeleted(Victim(r).id)
     \/ MayFail("update") /\ UNCHANGED <<rows, links>>
  /\ run' = [run EXCEPT ![r].victims = @ \ {Victim(r)}]
  /\ UNCHANGED <<configVars, nextRow, clock, storeVars, running, sema, crashes>>

PruneEnds(r) == run[r].victims = {} /\ Pass(r, "pruning", Unwind("pruning"))

-----------------------------------------------------------------------------
(* The deferred calls of RunBackup and of the goroutine.                   *)

ReleaseSlot(r) ==
  /\ Goto(r, "releasing", "leaving")
  /\ sema' = sema - 1
  /\ UNCHANGED <<catalogVars, running, run, crashes>>

Leave(r) == GiveBack(r, "leaving")

-----------------------------------------------------------------------------
(* Around the runners.                                                     *)

\* The job form: the foreign keys need destinations that have a row.
EditJob(j) ==
  /\ jobs[j].live
  /\ \E c \in Configs : c.dests \subseteq dests /\ UpdateJob(j, c)
  /\ UNCHANGED <<dests, rowVars, links, storeVars, engineVars>>

\* The process dies and starts again: only the catalog is left, and no code
\* visits the rows that were running.
Crash ==
  /\ crashes < MaxCrashes
  /\ crashes' = crashes + 1
  /\ running' = {}
  /\ sema' = 0
  /\ pc' = [r \in Runners |-> "idle"]
  /\ run' = [r \in Runners |-> NoRun]
  /\ UNCHANGED catalogVars

-----------------------------------------------------------------------------
\* Bound: a trigger is taken only while a row is left for it.
Opening == {r \in Runners : pc[r] \in {"claimed", "loaded"}}
RowLeft == nextRow + Cardinality(Opening) <= MaxRows

Trigger(r) == RowLeft /\ \E j \in Jobs : Claim(r, j)

\* The steps of r's own code, the acquisition of the slot apart.
RunnerStep(r) ==
  \/ LoadJob(r) \/ LoadJobFails(r)
  \/ OpenRow(r) \/ OpenRowFails(r)
  \/ LoadDestinations(r) \/ LoadDestinationsFails(r)
  \/ Dump(r) \/ DumpFails(r) \/ FinishFailed(r)
  \/ \E d \in Dests : Upload(r, d) \/ UploadFails(r, d) \/ DeleteObject(r, d)
  \/ MarkDestination(r) \/ SaveLocal(r) \/ NothingLocal(r) \/ FinishRow(r)
  \/ ListVictims(r) \/ KeepAll(r)
  \/ DeleteFile(r) \/ ListLinks(r) \/ ListLinksFails(r)
  \/ RetireRow(r) \/ PruneEnds(r)
  \/ ReleaseSlot(r) \/ Leave(r)

EngineNext == \E r \in Runners : Trigger(r) \/ AcquireSlot(r) \/ RunnerStep(r)

Next == EngineNext \/ (\E j \in Jobs : EditJob(j)) \/ Crash

Spec == Init /\ [][Next]_vars

\* Goroutines are scheduled; a channel serves its blocked senders in order,
\* so a runner that waits for a slot is not passed by forever.
Fairness == \A r \in Runners : WF_vars(RunnerStep(r)) /\ SF_vars(AcquireSlot(r))

FairSpec == Spec /\ Fairness
-----------------------------------------------------------------------------
(* Properties.                                                             *)

\* At most one backup of a job is in flight, between the claim of Trigger and
\* the deferred running.Delete, on every path out of RunBackup.
OneRunPerJob ==
  \A r, s \in Runners :
    r # s /\ pc[r] \in HoldsJob /\ pc[s] \in HoldsJob => run[r].job # run[s].job

Holders == {r \in Runners : pc[r] \in HoldsSlot}

\* "caps concurrent pg_dump runs": however the runs end, no more than
\* MaxConcurrent of them are between the semaphore's send and receive.
DumpCap == Cardinality(Holders) <= MaxConcurrent

\* No path leaks a slot or gives one back twice.
SlotsCounted == sema = Cardinality(Holders)

\* A claim outlasts every stage of the run it stands for.
ClaimsHeld == \A r \in Runners : pc[r] \in HoldsJob => run[r].job \in running

\* A run that reached the semaphore, or has yet to report, has opened its row.
RowsOpened ==
  \A r \in Runners :
    pc[r] \in HoldsSlot \union {"planning", "planFailed", "queued"}
      => run[r].row \in RowIds

\* The strengthening that is inductive: what keeps OneRunPerJob and DumpCap.
Inv ==
  /\ TypeOK
  /\ clock < nextRow
  /\ ClaimsHeld
  /\ RowsOpened
  /\ OneRunPerJob
  /\ SlotsCounted
  /\ DumpCap

\* Another row has, or had, the same job and second, hence the same file name.
Shared(id) == \E k \in RowIds \ {id} : k < nextRow /\ Name(k) = Name(id)

BeingPruned(id) == \E r \in Runners : \E v \in run[r].victims : v.id = id

CopiesExist(id) ==
  /\ rows[id].local => Name(id) \in files
  /\ \A d \in LinksOf(id) : <<d, Name(id)>> \in objects

\* What the history lists can be restored: a row that names a local copy or a
\* destination has its dump there, unless retention is taking the row out or
\* another run of the same second has the same file name.  (While no process
\* crash and no failed query or update interrupts a retention.)
RecordedCopiesExist ==
  \A id \in RowIds : Shared(id) \/ BeingPruned(id) \/ CopiesExist(id)

Newest(j) == {id \in CompletedOf(j) : \A k \in CompletedOf(j) : ~Newer(k, id)}

\* Whatever fails and whenever the process dies, the newest completed backup of
\* a job keeps every copy recorded for it: retention never reaches it.
NewestIntact ==
  \A j \in Jobs : \A id \in Newest(j) : Shared(id) \/ CopiesExist(id)

\* Stages in which the runner's row is open, and its result unknown.
Writing == {"planning", "planFailed", "queued", "dumping", "dumpFailed",
            "uploading", "marking", "finishing"}
\* Stages in which no local copy has been made.
Unstored == {"idle", "claimed", "loaded"} \union
            (Writing \ {"planFailed", "dumpFailed", "finishing"})

HasNewer(id) ==
  \E k \in RowIds : k > id /\ rows[k].job = rows[id].job
                             /\ rows[k].status = "completed"

\* Ids and seconds grow together: of two rows the newer has the larger id.
RowsInOrder ==
  /\ \A id \in RowIds : Present(id) => id < nextRow /\ rows[id].stamp <= clock
  /\ \A id, k \in RowIds :
       Present(id) /\ Present(k) /\ k < id => rows[k].stamp <= rows[id].stamp
  /\ \A l \in links : l[1] < nextRow

\* The row of a run stays open, and the run's, until the run closes it.
OwnRows ==
  \A r \in Runners : pc[r] \in Writing =>
    /\ rows[run[r].row].status = "running"
    /\ rows[run[r].row].job = run[r].job /\ Name(run[r].row) = run[r].name

\* Whatever became of the rows since Prune listed them: each victim is still a
\* completed row of the run's job, and a newer completed one is to stay.
Replaceable(r) ==
  \A v \in run[r].victims :
    /\ rows[v.id].status = "completed" /\ rows[v.id].job = run[r].job
    /\ \A w \in run[r].victims : w.id = v.id => w = v
    /\ \E k \in RowIds : /\ k > v.id /\ rows[k].job = run[r].job
                         /\ rows[k].status = "completed"
                         /\ \A w \in run[r].victims : w.id # k

VictimsReplaceable ==
  \A r \in Runners :
    /\ pc[r] \in {"pruneLinks", "pruneObjects"} => run[r].victims # {}
    /\ run[r].victims # {} =>
         pc[r] \in {"pruning", "pruneLinks", "pruneObjects"}
    /\ Replaceable(r)

\* What a run has stored is there until its row says so.
StoredCopies ==
  \A r \in Runners :
    /\ pc[r] \in Unstored => ~run[r].local
    /\ pc[r] = "marking" =>
         \A d \in run[r].sent :
           Shared(run[r].row) \/ <<d, run[r].name>> \in objects
    /\ pc[r] = "finishing" /\ run[r].local =>
         Shared(run[r].row) \/ run[r].name \in files

\* Copies go missing only for completed rows that a newer one replaces.
ReplacedOrIntact ==
  \A id \in RowIds :
    rows[id].status \in {"running", "completed"} =>
      \/ Shared(id) \/ CopiesExist(id)
      \/ rows[id].status = "completed" /\ HasNewer(id)

\* The strengthening, beside Inv, that keeps NewestIntact and the steps of the
\* history: whatever fails and however the runs interleave, retention takes a
\* row only while a newer completed backup of the job stays.
HistoryInv ==
  /\ RowsInOrder /\ OwnRows /\ VictimsReplaceable
  /\ StoredCopies /\ ReplacedOrIntact

\* After the retention of a completed run the job has no more completed
\* backups than the run was to keep.  (While no query or update fails.)
KeepLastBound ==
  \A r \in Runners :
    pc[r] = "releasing" /\ run[r].kept /\ run[r].keepLast > 0
      => Cardinality(CompletedOf(run[r].job)) <= run[r].keepLast

\* db.go: a deleted row "holds no file anywhere" -- no local file and no object
\* carries its name, but for another row's of the same second.
DeletedHoldsNoFile ==
  \A id \in RowIds :
    rows[id].status = "deleted" /\ ~Shared(id)
      => /\ Name(id) \notin files
         /\ \A d \in Dests : <<d, Name(id)>> \notin objects

\* Every stored copy is known: it is recorded by a row of its name, or the run
\* that stored it has yet to record it.  (While no operation but a dump or a
\* store fails and the process does not crash.)
NoOrphans ==
  /\ \A n \in files :
       \/ \E id \in RowIds : rows[id].local /\ Name(id) = n
       \/ \E r \in Runners : pc[r] = "finishing" /\ run[r].local
                               /\ run[r].name = n
  /\ \A o \in objects :
       \/ \E id \in RowIds : o[1] \in LinksOf(id) /\ Name(id) = o[2]
       \/ \E r \in Runners : pc[r] = "marking" /\ o[1] \in run[r].sent
                               /\ run[r].name = o[2]

\* "once nothing runs ... the polling stops": a row shown as running belongs to
\* a run in flight.  (While no update fails and the process does not crash.)
RunningRowHasRun ==
  \A id \in RowIds : rows[id].status = "running"
    => \E r \in Runners : pc[r] \in HoldsJob /\ run[r].row = id

\* A backup that was triggered comes to its end and frees its job, whatever
\* fails on the way: no path keeps the job claimed or a slot taken for ever.
RunEnds == \A j \in Jobs : j \in running ~> j \notin running

\* The promise of the history (BackupHistory), kept step by step.
History == INSTANCE BackupHistory WITH
  Ids <- RowIds,
  busy <- running,
  owner <- [id \in RowIds |-> rows[id].job],
  state <- [id \in RowIds |-> rows[id].status]

HistorySpec == History!Spec
=============================================================================

--------------------------- MODULE DeletionsProofs ---------------------------
(***************************************************************************)
(* The engine under the handlers that delete, for every set of jobs,       *)
(* destinations, faults and requests: its invariant survives whatever they *)
(* take away, no run leaves an execution of a job that is gone, and no     *)
(* deletion takes away a copy that another execution lists.                *)
(***************************************************************************)
EXTENDS Deletions, BackupEngineProofs

-----------------------------------------------------------------------------
(* Types and the engine's invariant.                                       *)

\* What a handler takes away leaves the tables well typed.
LEMMA HandlerCatalog ==
  ASSUME SystemTypeOK, NEW q \in Requests, HandlerBegins(q) \/ HandlerStep(q)
  PROVE  CatalogTypeOK' /\ UNCHANGED <<nextRow, clock, engineVars>>
<1>0. /\ CatalogTypeOK /\ req[q] \in RequestRecord
      /\ \A id \in RowIds : rows[id] \in RowRecord
      /\ \A j \in Jobs : jobs[j] \in JobRecord
  BY DEF SystemTypeOK, TypeOK, CatalogTypeOK
<1>1. CASE DeleteExecution(q)
  <2>1. req[q].row \in RowIds
    BY <1>0, <1>1, CatalogAssumption DEF DeleteExecution, RequestRecord, RowIds
  <2>2. rows' \in [RowIds -> RowRecord]
    BY <1>0, <1>1, <2>1
    DEF DeleteExecution, DeleteBackup, CatalogTypeOK, RowRecord, RowStatus
  <2>3. links' \in SUBSET (RowIds \X Dests)
    BY <1>0, <1>1 DEF DeleteExecution, DeleteBackup, CatalogTypeOK
  <2>. QED
    BY <1>0, <1>1, <2>2, <2>3
    DEF DeleteExecution, LastCall, CatalogTypeOK, configVars, storeVars
<1>2. CASE DeleteJobRow(q)
  <2>1. rows' \in [RowIds -> RowRecord]
    BY <1>0, <1>2
    DEF DeleteJobRow, DeleteJob, CatalogTypeOK, RowRecord, RowStatus
  <2>2. jobs' \in [Jobs -> JobRecord]
    BY <1>0, <1>2 DEF DeleteJobRow, DeleteJob, CatalogTypeOK, JobRecord
  <2>3. links' \in SUBSET (RowIds \X Dests)
    BY <1>0, <1>2 DEF DeleteJobRow, DeleteJob, CatalogTypeOK
  <2>. QED
    BY <1>0, <1>2, <2>1, <2>2, <2>3
    DEF DeleteJobRow, LastCall, CatalogTypeOK, storeVars
<1>3. CASE DeleteDestinationRow(q)
  <2>1. PICK d \in req[q].dest : DeleteDestination(d)
    BY <1>3 DEF DeleteDestinationRow
  <2>2. jobs' \in [Jobs -> JobRecord]
    BY <1>0, <2>1 DEF DeleteDestination, JobRecord
  <2>3. links' \in SUBSET (RowIds \X Dests) /\ dests' \in SUBSET Dests
    BY <1>0, <2>1 DEF DeleteDestination, CatalogTypeOK
  <2>. QED
    BY <1>0, <1>3, <2>2, <2>3
    DEF DeleteDestinationRow, LastCall, CatalogTypeOK, storeVars
<1>4. CASE LastCallFails(q)
  BY <1>0, <1>4
  DEF LastCallFails, LastCall, CatalogTypeOK, configVars, storeVars
<1>5. CASE \/ RemoveFile(q) \/ EmptyBucket(q)
           \/ \E d \in Dests : RemoveObject(q, d)
  BY <1>0, <1>5
  DEF RemoveFile, EmptyBucket, RemoveObject, CatalogTypeOK, configVars, rowVars
<1>6. CASE UNCHANGED vars
  BY <1>0, <1>6
  DEF vars, catalogVars, configVars, rowVars, storeVars, CatalogTypeOK
<1>. QED
  BY <1>1, <1>2, <1>3, <1>4, <1>5, <1>6
  DEF HandlerBegins, DeletionBegins, HandlerStep, DeleteExecutionBegins,
      DeleteJobBegins, DeleteDestinationBegins, ReadLinks, ReadLinksFails,
      NextRowOfQueue

\* The local variables of a handler keep their types.
LEMMA RequestTypes ==
  ASSUME SystemTypeOK, NEW q \in Requests, HandlerBegins(q) \/ HandlerStep(q)
  PROVE  /\ hpc' \in [Requests -> HandlerStages]
         /\ req' \in [Requests -> RequestRecord]
<1>. DEFINE Good == /\ hpc' \in [Requests -> HandlerStages]
                    /\ req' \in [Requests -> RequestRecord]
<1>0. /\ hpc \in [Requests -> HandlerStages]
      /\ req \in [Requests -> RequestRecord] /\ req[q] \in RequestRecord
      /\ NoRequest \in RequestRecord
  BY CatalogAssumption DEF SystemTypeOK, NoRequest, RequestRecord
<1>. USE <1>0 DEF Turn, HandlerStages
<1>1. \A S \in SUBSET RowIds : Read(S) \subseteq Victims
  BY DEF Read, Victims, SystemTypeOK, TypeOK, CatalogTypeOK,
         RowRecord
<1>2. ASSUME NEW id \in RowIds, DeleteExecutionBegins(q, id) PROVE Good
  <2>1. {id} \in SUBSET RowIds
    BY <1>2
  <2>2. Read({id}) \subseteq Victims
    BY <1>1, <2>1
  <2>3. id \in 0..MaxRows
    BY <1>2, CatalogAssumption DEF RowIds
  <2>4. [NoRequest EXCEPT !.row = id, !.queue = Read({id})] \in RequestRecord
    BY <2>2, <2>3 DEF NoRequest, RequestRecord
  <2>. QED BY <1>2, <2>4 DEF DeleteExecutionBegins
<1>3. ASSUME NEW j \in Jobs, DeleteJobBegins(q, j) PROVE Good
  <2>1. PICK found \in SUBSET RowIds :
          req' = [req EXCEPT ![q] =
                    [NoRequest EXCEPT !.job = j, !.queue = Read(found)]]
    BY <1>3 DEF DeleteJobBegins, RowsOf
  <2>2. [NoRequest EXCEPT !.job = j, !.queue = Read(found)] \in RequestRecord
    BY <1>1 DEF NoRequest, RequestRecord
  <2>. QED BY <1>3, <2>1, <2>2 DEF DeleteJobBegins
<1>4. ASSUME NEW d \in Dests, DeleteDestinationBegins(q, d) PROVE Good
  <2>1. PICK found \in SUBSET RowIds :
          req' = [req EXCEPT ![q] =
                    [NoRequest EXCEPT !.dest = {d}, !.queue = Read(found)]]
    BY <1>4 DEF DeleteDestinationBegins
  <2>2. [NoRequest EXCEPT !.dest = {d}, !.queue = Read(found)]
          \in RequestRecord
    BY <1>1 DEF NoRequest, RequestRecord
  <2>. QED BY <1>4, <2>1, <2>2 DEF DeleteDestinationBegins
<1>5. CASE \/ DeleteExecution(q) \/ DeleteJobRow(q) \/ DeleteDestinationRow(q)
           \/ LastCallFails(q)
  BY <1>5
  DEF DeleteExecution, DeleteJobRow, DeleteDestinationRow, LastCallFails,
      LastCall
<1>6. CASE RemoveFile(q) \/ EmptyBucket(q)
  BY <1>6 DEF RemoveFile, EmptyBucket, RequestRecord
<1>7. CASE ReadLinks(q)
  <2>1. LinksOf(Current(q).id) \subseteq Dests
    BY DEF LinksOf, SystemTypeOK, TypeOK, CatalogTypeOK
  <2>. QED BY <1>7, <2>1 DEF ReadLinks, RequestRecord
<1>8. CASE \/ ReadLinksFails(q) \/ NextRowOfQueue(q)
           \/ \E d \in Dests : RemoveObject(q, d)
  BY <1>8 DEF ReadLinksFails, NextRowOfQueue, RemoveObject, RequestRecord
<1>. QED
  BY <1>2, <1>3, <1>4, <1>5, <1>6, <1>7, <1>8
  DEF HandlerBegins, DeletionBegins, HandlerStep

\* The engine keeps its invariant while handlers take away rows, links, jobs and
\* destinations under its runs: no claim and no slot is lost, and no two runs of
\* a job overlap.
THEOREM EngineSurvives == SystemSpec => []SystemInv
<1>1. SystemInit => SystemInv
  <2>. SUFFICES ASSUME SystemInit PROVE SystemInv
    OBVIOUS
  <2>1. Inv
    BY InitInv DEF SystemInit
  <2>2. NoRequest \in RequestRecord
    BY CatalogAssumption DEF NoRequest, RequestRecord
  <2>. QED
    BY <2>1, <2>2 DEF SystemInit, SystemInv, SystemTypeOK, Inv, HandlerStages
<1>2. SystemInv /\ [SystemNext]_systemVars => SystemInv'
  <2>. SUFFICES ASSUME SystemInv, [SystemNext]_systemVars PROVE SystemInv'
    OBVIOUS
  <2>1. CASE /\ EngineNext \/ \E j \in Jobs : EditJob(j)
           /\ UNCHANGED handlerVars
    <3>1. Inv'
      BY <2>1, InvSteps DEF SystemInv, Next
    <3>. QED BY <2>1, <3>1 DEF SystemInv, SystemTypeOK, Inv, handlerVars
  <2>2. CASE SystemCrash
    <3>1. Inv'
      BY <2>2, InvSteps DEF SystemInv, SystemCrash, Next
    <3>2. NoRequest \in RequestRecord
      BY CatalogAssumption DEF NoRequest, RequestRecord
    <3>. QED
      BY <2>2, <3>1, <3>2
      DEF SystemInv, SystemTypeOK, Inv, SystemCrash, HandlerStages
  <2>3. ASSUME NEW q \in Requests, HandlerBegins(q) \/ HandlerStep(q)
        PROVE  SystemInv'
    <3>1. CatalogTypeOK' /\ UNCHANGED <<nextRow, clock, engineVars>>
      BY <2>3, HandlerCatalog DEF SystemInv
    <3>2. Inv'
      BY <3>1
      DEF SystemInv, Inv, TypeOK, ClaimsHeld, RowsOpened, OneRunPerJob,
          SlotsCounted, DumpCap, Holders, engineVars
    <3>. QED
      BY <2>3, <3>2, RequestTypes DEF SystemInv, SystemTypeOK, Inv
  <2>4. CASE UNCHANGED systemVars
    BY <2>4
    DEF systemVars, handlerVars, vars, catalogVars, configVars, rowVars,
        storeVars, engineVars, SystemInv, SystemTypeOK, Inv, TypeOK,
        CatalogTypeOK, ClaimsHeld, RowsOpened, OneRunPerJob, SlotsCounted,
        DumpCap, Holders
  <2>. QED BY <2>1, <2>2, <2>3, <2>4 DEF SystemNext
<1>. QED BY <1>1, <1>2, PTL DEF SystemSpec

-----------------------------------------------------------------------------
(* Rows of jobs that are gone.                                             *)

\* UPDATE backups brings no row back: a row that is gone is not written.
LEMMA UpdateBringsNone ==
  ASSUME rows \in [RowIds -> RowRecord], NEW id, NEW status, NEW local,
         UpdateBackup(id, status, local), NEW k \in RowIds, Present(k)'
  PROVE  Present(k) /\ rows'[k].job = rows[k].job
<1>1. CASE ~Present(id)
  BY <1>1 DEF UpdateBackup, Present
<1>2. CASE Present(id) /\ id \in RowIds
  BY <1>2 DEF UpdateBackup, Present, RowRecord
<1>3. CASE id \notin RowIds
  BY <1>3 DEF UpdateBackup, Present
<1>. QED BY <1>1, <1>2, <1>3

\* A run inserts a row for a job that is there, and brings back none.
LEMMA EngineRows ==
  ASSUME SystemInv, RowsBelongToJobs, NEW r \in Runners,
         Trigger(r) \/ AcquireSlot(r) \/ RunnerStep(r)
  PROVE  RowsBelongToJobs'
<1>0. rows \in [RowIds -> RowRecord]
  BY DEF SystemInv, SystemTypeOK, TypeOK, CatalogTypeOK
<1>1. CASE OpenRow(r)
  <2>1. PICK started \in {clock, clock + 1} : CreateBackup(run[r].job, started)
    BY <1>1 DEF OpenRow
  <2>2. UNCHANGED jobs /\ JobKnown(run[r].job)
    BY <1>1, <2>1 DEF OpenRow, CreateBackup, configVars
  <2>3. \A k \in RowIds :
          \/ rows'[k] = rows[k]
          \/ rows'[k].job = run[r].job
    BY <1>0, <2>1 DEF CreateBackup
  <2>. QED BY <2>2, <2>3 DEF RowsBelongToJobs, Present, JobKnown
<1>2. ASSUME UNCHANGED jobs,
             \A k \in RowIds :
               Present(k)' => Present(k) /\ rows'[k].job = rows[k].job
      PROVE  RowsBelongToJobs'
  BY <1>2 DEF RowsBelongToJobs
<1>3. CASE FinishFailed(r) \/ FinishRow(r)
  <2>1. PICK status, local : WriteRow(r, status, local)
    BY <1>3 DEF FinishFailed, FinishRow
  <2>2. UpdateBackup(run[r].row, status, local) \/ UNCHANGED rows
    BY <2>1 DEF WriteRow
  <2>3. \A k \in RowIds :
          Present(k)' => Present(k) /\ rows'[k].job = rows[k].job
    BY <1>0, <2>2, UpdateBringsNone DEF Present
  <2>. QED BY <1>2, <2>1, <2>3 DEF WriteRow, configVars
<1>4. CASE RetireRow(r)
  <2>1. UpdateBackup(Victim(r).id, "deleted", FALSE) \/ UNCHANGED rows
    BY <1>4 DEF RetireRow, MarkBackupDeleted
  <2>2. \A k \in RowIds :
          Present(k)' => Present(k) /\ rows'[k].job = rows[k].job
    BY <1>0, <2>1, UpdateBringsNone DEF Present
  <2>. QED BY <1>2, <1>4, <2>2 DEF RetireRow, configVars
<1>5. CASE UNCHANGED <<jobs, rows>>
  BY <1>5 DEF RowsBelongToJobs, Present
<1>. QED
  BY <1>1, <1>3, <1>4, <1>5
  DEF catalogVars, configVars, rowVars, Trigger, Claim, AcquireSlot,
      RunnerStep, LoadJob, LoadJobFails, GiveBack, OpenRowFails, Pass,
      LoadDestinations, LoadDestinationsFails, Dump, DumpFails, Upload,
      UploadFails, DeleteObject, MarkDestination, SaveLocal, NothingLocal,
      ListVictims, KeepAll, DeleteFile, ListLinks, ListLinksFails, PruneEnds,
      ReleaseSlot, Leave

\* A job goes with its rows.
LEMMA HandlerRows ==
  ASSUME SystemInv, RowsBelongToJobs, NEW q \in Requests,
         HandlerBegins(q) \/ HandlerStep(q)
  PROVE  RowsBelongToJobs'
<1>0. rows \in [RowIds -> RowRecord] /\ jobs \in [Jobs -> JobRecord]
  BY DEF SystemInv, SystemTypeOK, TypeOK, CatalogTypeOK
<1>1. CASE DeleteExecution(q)
  <2>1. \A k \in RowIds :
          Present(k)' => Present(k) /\ rows'[k].job = rows[k].job
    BY <1>0, <1>1 DEF DeleteExecution, DeleteBackup, Present, RowRecord
  <2>. QED
    BY <1>1, <2>1 DEF DeleteExecution, RowsBelongToJobs, configVars
<1>2. CASE DeleteJobRow(q)
  <2>. DEFINE j == req[q].job
  <2>1. \A k \in RowIds :
          Present(k)' => /\ Present(k) /\ rows'[k].job = rows[k].job
                         /\ rows[k].job # j
    BY <1>0, <1>2 DEF DeleteJobRow, DeleteJob, Present, RowRecord
  <2>2. \A i \in Jobs : i # j => jobs'[i] = jobs[i]
    BY <1>0, <1>2 DEF DeleteJobRow, DeleteJob
  <2>. QED BY <2>1, <2>2 DEF RowsBelongToJobs
<1>3. CASE DeleteDestinationRow(q)
  <2>1. UNCHANGED rows /\ \A j \in Jobs : jobs'[j].live = jobs[j].live
    BY <1>0, <1>3 DEF DeleteDestinationRow, DeleteDestination, JobRecord
  <2>. QED BY <2>1 DEF RowsBelongToJobs, Present
<1>4. CASE UNCHANGED <<jobs, rows>>
  BY <1>4 DEF RowsBelongToJobs, Present
<1>. QED
  BY <1>1, <1>2, <1>3, <1>4
  DEF HandlerBegins, DeletionBegins, HandlerStep, DeleteExecutionBegins,
      DeleteJobBegins, DeleteDestinationBegins, RemoveFile, ReadLinks,
      ReadLinksFails, RemoveObject, NextRowOfQueue, EmptyBucket, LastCallFails,
      vars, catalogVars, configVars, rowVars

\* A deleted job has no executions, whatever its runs in flight go on to insert,
\* update or retire: nothing is inserted for it, and no update brings back a
\* row.
THEOREM NoRowOfDeletedJob == SystemSpec => []RowsBelongToJobs
<1>1. SystemInit => RowsBelongToJobs
  BY DEF SystemInit, Init, CatalogInit, NoRow, RowsBelongToJobs, Present
<1>2. SystemInv /\ RowsBelongToJobs /\ [SystemNext]_systemVars
        => RowsBelongToJobs'
  <2>. SUFFICES ASSUME SystemInv, RowsBelongToJobs, [SystemNext]_systemVars
                PROVE  RowsBelongToJobs'
    OBVIOUS
  <2>1. CASE EngineNext
    BY <2>1, EngineRows DEF EngineNext
  <2>2. ASSUME NEW j \in Jobs, EditJob(j) PROVE RowsBelongToJobs'
    <3>1. PICK c \in Configs : jobs' = [jobs EXCEPT ![j] = c]
      BY <2>2 DEF EditJob, UpdateJob
    <3>2. c.live /\ UNCHANGED rows /\ jobs \in [Jobs -> JobRecord]
      BY <2>2, CatalogAssumption
      DEF ValidConfig, EditJob, rowVars, SystemInv, SystemTypeOK, TypeOK,
          CatalogTypeOK
    <3>. QED BY <3>1, <3>2 DEF RowsBelongToJobs, Present
  <2>3. CASE SystemCrash \/ UNCHANGED systemVars
    <3>1. UNCHANGED <<jobs, rows>>
      BY <2>3 DEF SystemCrash, Crash, systemVars, vars, catalogVars, configVars,
                  rowVars
    <3>. QED BY <3>1 DEF RowsBelongToJobs, Present
  <2>. QED BY <2>1, <2>2, <2>3, HandlerRows DEF SystemNext
<1>. QED BY <1>1, <1>2, EngineSurvives, PTL DEF SystemSpec

USE CatalogAssumption, EngineAssumption

-----------------------------------------------------------------------------
(* Copies that other rows still list.                                      *)

\* Ids are used once, and a row that is gone, or not inserted yet, has no file.
RowsFresh ==
  \A id \in RowIds : /\ Present(id) => id < nextRow
                     /\ ~Present(id) => ~rows[id].local

\* A handler is about to delete the row, or the row's job, or the destination.
RowDeleting(id) ==
  \E q \in Requests : \/ req[q].row = id
                      \/ req[q].job # NoJob /\ req[q].job = rows[id].job
DestDeleting(d) == \E q \in Requests : d \in req[q].dest

\* Links go with their row.
LinksPresent == \A l \in links : Present(l[1])

\* The row of a run stays the run's; it is open, or gone.
OwnNames ==
  \A r \in Runners : pc[r] \in Writing =>
    /\ run[r].row < nextRow /\ rows[run[r].row].job = run[r].job
    /\ Name(run[r].row) = run[r].name
    /\ rows[run[r].row].status \in {"running", "absent"}

\* A victim is a row inserted long ago, and no run's own.
VictimsClosed ==
  \A r \in Runners :
    /\ VictimsInLoop(r)
    /\ \A v \in run[r].victims :
         /\ v.id < nextRow
         /\ \A w \in run[r].victims : v.id = w.id => v = w
         /\ \A s \in Runners : pc[s] \in Writing => run[s].row # v.id

\* What a handler at stage h, with its variables, has in hand: the row it is to
\* delete, rows of the job it is to delete, or the destination.
Queued(h, x) ==
  /\ h = "none" => x = NoRequest
  /\ h \in {"files", "links", "objects"} =>
       /\ x.dest = {} /\ (x.row # 0 => x.job = NoJob)
       /\ \A b, c \in x.queue :
            /\ b.id < nextRow
            /\ b.id = x.row \/ (x.job # NoJob /\ rows[b.id].job = x.job)
            /\ b.id = c.id => b = c
  /\ h \in {"links", "objects"} => x.queue # {}
  /\ h = "bucket" => /\ x.row = 0 /\ x.job = NoJob
                     /\ \A d, e \in x.dest : d = e

HandlersQueued == \A q \in Requests : Queued(hpc[q], req[q])

\* No copy is asked of the row.
Excused(id) == Shared(id) \/ RowDeleting(id) \/ ~Present(id)

\* What a run has stored is there until its row says so.
InMaking(r) ==
  /\ pc[r] \in Unstored => ~run[r].local
  /\ pc[r] = "marking" => \A d \in run[r].sent :
       \/ Excused(run[r].row) \/ <<d, run[r].name>> \in objects
       \/ d \notin dests \/ DestDeleting(d)
  /\ pc[r] = "finishing" /\ run[r].local =>
       Excused(run[r].row) \/ run[r].name \in files

\* The copies of a row are there, but for those a deletion is after.
CopiesHeld(id) ==
  \/ Shared(id) \/ BeingPruned(id) \/ RowDeleting(id)
  \/ /\ rows[id].local => Name(id) \in files
     /\ \A d \in LinksOf(id) : <<d, Name(id)>> \in objects \/ DestDeleting(d)

\* The strengthening that keeps OthersKeepTheirCopies.
CopiesInv ==
  /\ RowsFresh /\ LinksPresent /\ OwnNames /\ VictimsClosed /\ HandlersQueued
  /\ \A r \in Runners : InMaking(r)
  /\ \A id \in RowIds : CopiesHeld(id)

\* The strengthening says more.
LEMMA CopiesKept == CopiesInv => OthersKeepTheirCopies
BY DEF CopiesInv, CopiesHeld, OthersKeepTheirCopies, CopiesExist, BeingDeleted,
       RowDeleting, DestDeleting, LinksOf

-----------------------------------------------------------------------------
(* What a step does to the rows.                                           *)

\* The rows inserted so far keep their names, and none that is gone comes back.
NamesStay ==
  /\ nextRow' \in Int /\ nextRow <= nextRow'
  /\ \A id \in RowIds : id < nextRow =>
       /\ rows'[id].job = rows[id].job /\ rows'[id].stamp = rows[id].stamp
       /\ Present(id)' => Present(id)

\* The name goes with a row that a handler or a retention has in hand, and goes
\* on having in hand.
Taken(n) ==
  \E id \in RowIds : /\ id < nextRow /\ Name(id) = n
                     /\ \/ RowDeleting(id)'
                        \/ BeingPruned(id) /\ BeingPruned(id)'

\* A deletion or a retention ends with what it is after.
HandsLast ==
  /\ dests' \subseteq dests
  /\ \A d \in Dests : DestDeleting(d) => DestDeleting(d)' \/ d \notin dests'
  /\ \A id \in RowIds : id < nextRow =>
       /\ RowDeleting(id) => RowDeleting(id)' \/ ~Present(id)'
       /\ BeingPruned(id) =>
            \/ BeingPruned(id)'
            \/ ~rows'[id].local /\ \A d \in Dests : <<id, d>> \notin links'

\* Copies go as those above do, and are recorded by the run that stored them.
CopiesGo ==
  /\ \A n \in files \ files' : Taken(n)
  /\ \A o \in objects \ objects' : Taken(o[2]) \/ DestDeleting(o[1])'
  /\ \A id \in RowIds : rows'[id].local =>
       \/ rows[id].local
       \/ \E r \in Runners : /\ pc[r] = "finishing" /\ run[r].local
                             /\ run[r].row = id
  /\ \A l \in links' :
       \/ l \in links
       \/ \E r \in Runners : /\ pc[r] = "marking"
                             /\ \E d \in run[r].sent : l = <<run[r].row, d>>

Spared == NamesStay /\ RowsFresh' /\ LinksPresent' /\ HandsLast /\ CopiesGo

\* What excuses a row goes on excusing it.
LEMMA ExcusesLast ==
  ASSUME CatalogTypeOK, Spared, NEW id \in RowIds, id < nextRow
  PROVE  /\ Shared(id) => Shared(id)'
         /\ Excused(id) => Excused(id)'
         /\ Name(id)' = Name(id)
         /\ id < nextRow'
<1>1. nextRow \in Int /\ \A k \in RowIds : k \in Int
  BY DEF CatalogTypeOK, RowIds
<1>2. \A k \in RowIds : k < nextRow => k < nextRow' /\ Name(k)' = Name(k)
  BY <1>1 DEF Spared, NamesStay, Name
<1>3. Shared(id) => Shared(id)'
  BY <1>2 DEF Shared
<1>. QED BY <1>2, <1>3 DEF Spared, NamesStay, HandsLast, Excused

\* A name that is taken is another's, or the row is in hand.
LEMMA TakenExcused ==
  ASSUME CatalogTypeOK, Spared, NEW id \in RowIds, id < nextRow,
         Taken(Name(id))
  PROVE  \/ Shared(id)' \/ RowDeleting(id)'
         \/ BeingPruned(id) /\ BeingPruned(id)'
<1>1. PICK k \in RowIds :
        /\ k < nextRow /\ Name(k) = Name(id)
        /\ RowDeleting(k)' \/ (BeingPruned(k) /\ BeingPruned(k)')
  BY DEF Taken
<1>2. CASE k = id
  BY <1>1, <1>2
<1>3. CASE k # id
  <2>1. Shared(id)
    BY <1>1, <1>3 DEF Shared
  <2>. QED BY <2>1, ExcusesLast
<1>. QED BY <1>2, <1>3

\* A run that the step is not of keeps what it has stored.
LEMMA MakingStays ==
  ASSUME TypeOK, RowsOpened, CopiesInv, Spared, NEW s \in Runners,
         pc'[s] = pc[s], run'[s] = run[s]
  PROVE  InMaking(s)'
<1>0. PICK id : id = run[s].row
  OBVIOUS
<1>1. CatalogTypeOK /\ InMaking(s) /\ run[s] \in RunRecord
  BY DEF TypeOK, CopiesInv
<1>2. ASSUME pc[s] \in {"marking", "finishing"}
      PROVE  /\ id \in RowIds /\ id < nextRow /\ Name(id) = run[s].name
             /\ ~BeingPruned(id)
             /\ Excused(id) => Excused(id)'
             /\ Taken(run[s].name) => Excused(id)'
  <2>1. /\ id \in RowIds /\ id < nextRow /\ Name(id) = run[s].name
        /\ ~BeingPruned(id)
    BY <1>0, <1>2
    DEF CopiesInv, OwnNames, VictimsClosed, RowsOpened, BeingPruned, Writing,
        HoldsSlot
  <2>2. Excused(id) => Excused(id)'
    BY <1>0, <1>1, <2>1, ExcusesLast
  <2>3. Taken(Name(id)) => Excused(id)'
    BY <1>0, <1>1, <2>1, TakenExcused DEF Excused
  <2>. QED BY <2>1, <2>2, <2>3
<1>3. ASSUME pc[s] = "marking", NEW d \in run[s].sent
      PROVE  \/ Excused(id)' \/ <<d, run[s].name>> \in objects'
             \/ d \notin dests' \/ DestDeleting(d)'
  <2>1. d \in Dests
    BY <1>1 DEF RunRecord
  <2>2. \/ Excused(id) \/ <<d, run[s].name>> \in objects
        \/ d \notin dests \/ DestDeleting(d)
    BY <1>0, <1>1, <1>3 DEF InMaking
  <2>3. <<d, run[s].name>> \in objects =>
          \/ <<d, run[s].name>> \in objects'
          \/ Taken(run[s].name) \/ DestDeleting(d)'
    BY DEF Spared, CopiesGo
  <2>. QED BY <1>0, <1>2, <1>3, <2>1, <2>2, <2>3 DEF Spared, HandsLast
<1>4. ASSUME pc[s] = "finishing", run[s].local
      PROVE  Excused(id)' \/ run[s].name \in files'
  <2>1. Excused(id) \/ run[s].name \in files
    BY <1>0, <1>1, <1>4 DEF InMaking
  <2>2. run[s].name \in files => run[s].name \in files' \/ Taken(run[s].name)
    BY DEF Spared, CopiesGo
  <2>. QED BY <1>0, <1>2, <1>4, <2>1, <2>2
<1>. QED BY <1>0, <1>1, <1>3, <1>4 DEF InMaking

\* A row that is spared keeps its copies, whoever takes the step.
LEMMA LeftStay ==
  ASSUME TypeOK, RowsOpened, CopiesInv, Spared, NEW id \in RowIds
  PROVE  CopiesHeld(id)'
<1>0. CatalogTypeOK /\ CopiesHeld(id) /\ RowsFresh /\ LinksPresent
  BY DEF TypeOK, CopiesInv
\* The run that records a copy in this step.
<1>1. ASSUME NEW r \in Runners, pc[r] \in {"marking", "finishing"},
             run[r].row = id
      PROVE  id < nextRow /\ Name(id) = run[r].name
  BY <1>1 DEF CopiesInv, OwnNames, Writing
<1>2. CASE ~rows'[id].local /\ \A d \in Dests : <<id, d>> \notin links'
  <2>1. \A d \in (LinksOf(id))' : d \in Dests /\ <<id, d>> \in links'
    BY <1>0 DEF LinksOf, CatalogTypeOK, Spared, HandsLast
  <2>. QED BY <1>2, <2>1 DEF CopiesHeld
<1>3. CASE ~(~rows'[id].local /\ \A d \in Dests : <<id, d>> \notin links')
  <2>1. Present(id)' /\ id < nextRow
    <3>1. CASE rows'[id].local
      <4>1. \/ rows[id].local
            \/ \E r \in Runners : pc[r] = "finishing" /\ run[r].row = id
        BY <3>1 DEF Spared, CopiesGo
      <4>2. id < nextRow
        BY <1>0, <1>1, <4>1 DEF RowsFresh
      <4>. QED BY <3>1, <4>2 DEF Spared, RowsFresh
    <3>2. ASSUME NEW d \in Dests, <<id, d>> \in links' PROVE id < nextRow
      <4>1. \/ <<id, d>> \in links
            \/ \E r \in Runners :
                 /\ pc[r] = "marking"
                 /\ \E e \in run[r].sent : <<id, d>> = <<run[r].row, e>>
        BY <3>2 DEF Spared, CopiesGo
      <4>2. <<id, d>> \in links => Present(id)
        BY <1>0 DEF LinksPresent
      <4>. QED BY <1>0, <1>1, <4>1, <4>2 DEF RowsFresh
    <3>3. ASSUME NEW d \in Dests, <<id, d>> \in links' PROVE Present(id)'
      BY <3>3 DEF Spared, LinksPresent
    <3>. QED BY <1>3, <3>1, <3>2, <3>3
  <2>2. /\ Shared(id) => Shared(id)'
        /\ Excused(id) => Excused(id)'
        /\ Name(id)' = Name(id)
    BY <1>0, <2>1, ExcusesLast
  <2>3. CASE Shared(id) \/ RowDeleting(id)
    BY <2>1, <2>2, <2>3 DEF CopiesHeld, Excused
  <2>4. CASE BeingPruned(id)
    <3>1. BeingPruned(id)'
      BY <1>3, <2>1, <2>4 DEF Spared, HandsLast
    <3>. QED BY <3>1 DEF CopiesHeld
  <2>5. CASE Taken(Name(id))
    BY <1>0, <2>1, <2>5, TakenExcused DEF CopiesHeld
  <2>6. CASE \E r \in Runners : /\ pc[r] \in {"marking", "finishing"}
                                /\ run[r].row = id /\ Excused(id)
    BY <2>1, <2>2, <2>6 DEF CopiesHeld, Excused
  <2>7. ASSUME ~Shared(id), ~RowDeleting(id), ~BeingPruned(id),
               ~Taken(Name(id)), rows'[id].local, ~Excused(id)
        PROVE  Name(id)' \in files'
    <3>1. Name(id) \in files
      <4>1. CASE rows[id].local
        BY <1>0, <2>7, <4>1 DEF CopiesHeld
      <4>2. ASSUME NEW r \in Runners, pc[r] = "finishing", run[r].local,
                   run[r].row = id
            PROVE  Name(id) \in files
        <5>1. Excused(id) \/ run[r].name \in files
          BY <4>2 DEF CopiesInv, InMaking
        <5>. QED BY <1>1, <2>7, <4>2, <5>1
      <4>. QED BY <2>7, <4>1, <4>2 DEF Spared, CopiesGo
    <3>. QED BY <2>2, <2>7, <3>1 DEF Spared, CopiesGo
  <2>8. ASSUME ~Shared(id), ~RowDeleting(id), ~BeingPruned(id),
               ~Taken(Name(id)), NEW d \in dests', <<id, d>> \in links',
               ~Excused(id)
        PROVE  <<d, Name(id)'>> \in objects' \/ DestDeleting(d)'
    <3>0. d \in dests /\ d \in Dests
      BY <1>0 DEF Spared, HandsLast, CatalogTypeOK
    <3>1. <<d, Name(id)>> \in objects \/ DestDeleting(d)
      <4>1. CASE <<id, d>> \in links
        BY <1>0, <2>8, <3>0, <4>1 DEF CopiesHeld, LinksOf
      <4>2. ASSUME NEW r \in Runners, pc[r] = "marking", d \in run[r].sent,
                   run[r].row = id
            PROVE  <<d, Name(id)>> \in objects \/ DestDeleting(d)
        <5>1. \/ Excused(id) \/ <<d, run[r].name>> \in objects
              \/ d \notin dests \/ DestDeleting(d)
          BY <4>2 DEF CopiesInv, InMaking
        <5>. QED BY <1>1, <2>8, <3>0, <4>2, <5>1
      <4>. QED BY <2>8, <4>1, <4>2 DEF Spared, CopiesGo
    <3>2. DestDeleting(d) => DestDeleting(d)'
      BY <3>0 DEF Spared, HandsLast
    <3>3. ASSUME <<d, Name(id)>> \in objects
          PROVE  <<d, Name(id)>> \in objects' \/ DestDeleting(d)'
      BY <2>8, <3>3 DEF Spared, CopiesGo
    <3>. QED BY <2>2, <3>1, <3>2, <3>3
  <2>9. ~Excused(id) \/ Shared(id) \/ RowDeleting(id) \/ ~Present(id)
    BY DEF Excused
  <2>10. Present(id)
    BY <2>1 DEF Spared, NamesStay
  <2>11. LinksOf(id)' = {d \in dests' : <<id, d>> \in links'}
    BY DEF LinksOf
  <2>. QED
    BY <2>3, <2>4, <2>5, <2>7, <2>8, <2>9, <2>10, <2>11 DEF CopiesHeld
<1>. QED BY <1>2, <1>3

\* No step but a restorer's says of a row without a job that it has a file.
NoneMarked(but) ==
  \A id \in RowIds \ {but} :
    rows'[id].job \in Jobless /\ rows'[id].local => rows[id].local

\* A step that writes no row.
LEMMA StillRows ==
  ASSUME CatalogTypeOK, RowsFresh, UNCHANGED <<rows, nextRow>>
  PROVE  NamesStay /\ RowsFresh' /\ NoneMarked(0)
<1>1. nextRow \in Int
  BY DEF CatalogTypeOK
<1>. QED BY <1>1 DEF RowsFresh, NamesStay, NoneMarked, Present

\* An UPDATE, of the row id or of none.
LEMMA UpdatedRows ==
  ASSUME CatalogTypeOK, RowsFresh, NEW id,
         NEW status \in RowStatus \ {"absent"}, NEW local \in BOOLEAN,
         UpdateBackup(id, status, local), UNCHANGED nextRow
  PROVE  /\ NamesStay /\ RowsFresh' /\ NoneMarked(id)
         /\ ~local => NoneMarked(0)
         /\ id \in RowIds /\ rows[id].job \notin Jobless => NoneMarked(0)
<1>0. /\ rows \in [RowIds -> RowRecord] /\ nextRow \in Int
      /\ \A k \in RowIds : k \in Int
  BY CatalogAssumption DEF CatalogTypeOK, RowIds
<1>1. CASE id \notin RowIds \/ ~Present(id)
  <2>1. UNCHANGED rows
    BY <1>0, <1>1 DEF UpdateBackup
  <2>. QED BY <2>1, StillRows DEF NoneMarked
<1>2. CASE id \in RowIds /\ Present(id)
  <2>1. /\ rows' = [rows EXCEPT ![id].status = status, ![id].local = local]
        /\ id < nextRow
    BY <1>0, <1>2 DEF UpdateBackup, RowsFresh, NoRow, Present
  <2>2. /\ rows'[id].status = status /\ rows'[id].local = local
        /\ rows'[id].job = rows[id].job /\ rows'[id].stamp = rows[id].stamp
        /\ \A k \in RowIds \ {id} : rows'[k] = rows[k]
    BY <1>0, <1>2, <2>1, WrittenRow
  <2>3. RowsFresh'
    BY <1>0, <2>1, <2>2 DEF RowsFresh, Present
  <2>4. NamesStay
    BY <1>0, <1>2, <2>2 DEF NamesStay, Present
  <2>. QED BY <1>2, <2>2, <2>3, <2>4 DEF NoneMarked
<1>. QED BY <1>1, <1>2

\* An INSERT: the row is new and has no file yet.
LEMMA InsertedRow ==
  ASSUME CatalogTypeOK, RowsFresh, NEW owner, NEW started,
         CreateBackup(owner, started)
  PROVE  NamesStay /\ RowsFresh' /\ NoneMarked(0)
<1>0. /\ rows \in [RowIds -> RowRecord] /\ nextRow \in Int
      /\ \A k \in RowIds : k \in Int
  BY CatalogAssumption DEF CatalogTypeOK, RowIds
<1>1. /\ nextRow' = nextRow + 1
      /\ \A k \in RowIds \ {nextRow} : rows'[k] = rows[k]
      /\ nextRow \in RowIds => /\ rows'[nextRow].status = "running"
                               /\ rows'[nextRow].local = FALSE
  BY <1>0 DEF CreateBackup
<1>2. NamesStay
  BY <1>0, <1>1 DEF NamesStay, Present
<1>3. RowsFresh'
  BY <1>0, <1>1 DEF RowsFresh, Present
<1>. QED BY <1>0, <1>1, <1>2, <1>3 DEF NoneMarked

-----------------------------------------------------------------------------
(* The engine's steps.                                                     *)

\* An UPDATE takes no row away.
LEMMA UpdateTakesNone ==
  ASSUME rows \in [RowIds -> RowRecord], NEW id, NEW status, NEW local,
         status # "absent", UpdateBackup(id, status, local),
         NEW k \in RowIds, Present(k)
  PROVE  Present(k)'
<1>1. CASE ~Present(id) \/ id \notin RowIds
  BY <1>1 DEF UpdateBackup, Present
<1>2. CASE Present(id) /\ id \in RowIds
  BY <1>2 DEF UpdateBackup, Present, RowRecord
<1>. QED BY <1>1, <1>2

\* A run takes no row away, and records a local copy as it closes its own.
LEMMA RunRows ==
  ASSUME TypeOK, RowsOpened, RowsFresh, NEW r \in Runners, Step(r)
  PROVE  /\ NamesStay /\ RowsFresh'
         /\ \A id \in RowIds : Present(id) => Present(id)'
         /\ \A id \in RowIds : rows'[id].local =>
              \/ rows[id].local
              \/ pc[r] = "finishing" /\ run[r].local /\ run[r].row = id
<1>. DEFINE Good ==
       /\ NamesStay /\ RowsFresh'
       /\ \A id \in RowIds : Present(id) => Present(id)'
       /\ \A id \in RowIds : rows'[id].local =>
            \/ rows[id].local
            \/ pc[r] = "finishing" /\ run[r].local /\ run[r].row = id
<1>0. /\ CatalogTypeOK /\ run[r] \in RunRecord
      /\ rows \in [RowIds -> RowRecord]
  BY DEF TypeOK, CatalogTypeOK
<1>1. CASE OpenRow(r)
  <2>1. PICK started \in {clock, clock + 1} : CreateBackup(run[r].job, started)
    BY <1>1 DEF OpenRow
  <2>2. /\ \A k \in RowIds \ {nextRow} : rows'[k] = rows[k]
        /\ nextRow \in RowIds => /\ rows'[nextRow].status = "running"
                                 /\ rows'[nextRow].local = FALSE
    BY <1>0, <2>1 DEF CreateBackup
  <2>. QED BY <1>0, <2>1, <2>2, InsertedRow DEF Present
<1>2. ASSUME NEW id, NEW status \in RowStatus \ {"absent"},
             NEW local \in BOOLEAN,
             UpdateBackup(id, status, local) \/ UNCHANGED rows,
             UNCHANGED nextRow,
             local => pc[r] = "finishing" /\ run[r].local /\ run[r].row = id
      PROVE  Good
  <2>1. NamesStay /\ RowsFresh'
    BY <1>0, <1>2, UpdatedRows, StillRows
  <2>2. \A k \in RowIds : Present(k) => Present(k)'
    BY <1>0, <1>2, UpdateTakesNone DEF Present
  <2>3. \A k \in RowIds : rows'[k].local => rows[k].local \/ (local /\ k = id)
    BY <1>0, <1>2 DEF UpdateBackup, RowRecord
  <2>. QED BY <1>2, <2>1, <2>2, <2>3
<1>3. CASE Closes(r)
  <2>1. PICK status \in {"completed", "failed"}, local \in BOOLEAN :
          /\ WriteRow(r, status, local)
          /\ local => pc[r] = "finishing" /\ run[r].local
    BY <1>0, <1>3
    DEF Closes, FinishFailed, FinishRow, StoredLocal, RunRecord, Goto
  <2>2. PICK id : id = run[r].row
    OBVIOUS
  <2>3. UpdateBackup(id, status, local) \/ UNCHANGED rows
    BY <2>1, <2>2 DEF WriteRow
  <2>4. UNCHANGED nextRow /\ status \in RowStatus \ {"absent"}
    BY <2>1 DEF WriteRow, RowStatus
  <2>. QED BY <1>2, <2>1, <2>2, <2>3, <2>4
<1>4. CASE RetireRow(r)
  <2>1. PICK id : id = Victim(r).id
    OBVIOUS
  <2>2. UpdateBackup(id, "deleted", FALSE) \/ UNCHANGED rows
    BY <1>4, <2>1 DEF RetireRow, MarkBackupDeleted
  <2>3. UNCHANGED nextRow /\ "deleted" \in RowStatus \ {"absent"}
    BY <1>4 DEF RetireRow, RowStatus
  <2>. QED BY <1>2, <2>2, <2>3
<1>5. CASE ~OpenRow(r) /\ ~Closes(r) /\ ~RetireRow(r)
  <2>1. UNCHANGED rowVars
    BY <1>5, RowsStay
  <2>. QED BY <1>0, <2>1, StillRows DEF rowVars, Present
<1>. QED BY <1>1, <1>3, <1>4, <1>5

\* The loop of Prune has one of its victims in hand.
LEMMA VictimListed ==
  ASSUME TypeOK, VictimsClosed, NEW r \in Runners, run[r].victims # {}
  PROVE  /\ Victim(r) \in run[r].victims
         /\ Victim(r).id \in RowIds /\ Victim(r).id < nextRow
<1>1. CatalogTypeOK /\ run[r].victims \in SUBSET Victims
  BY DEF TypeOK, RunRecord
<1>2. Victim(r) \in run[r].victims
  BY <1>1, FirstOfList DEF Victim, VictimsClosed
<1>. QED BY <1>1, <1>2 DEF VictimsClosed, Victims

\* A victim is dropped as its row is retired.
LEMMA VictimsLast ==
  ASSUME TypeOK, NEW r \in Runners, VictimsInLoop(r), "query" \notin Faults,
         Step(r), ~RetireRow(r)
  PROVE  run[r].victims \subseteq run'[r].victims
<1>. USE DEF TypeOK, RunRecord, Goto, VictimsInLoop
<1>1. CASE Trigger(r) \/ LoadJob(r) \/ OpenRow(r)
  BY <1>1 DEF Trigger, Claim, LoadJob, OpenRow
<1>2. CASE LoadJobFails(r) \/ Leave(r)
  BY <1>2 DEF LoadJobFails, Leave, GiveBack
<1>3. CASE PassStep(r)
  BY <1>3 DEF PassStep, OpenRowFails, LoadDestinationsFails, Dump, DumpFails,
              NothingLocal, KeepAll, PruneEnds, Pass
<1>4. CASE LoadDestinations(r) \/ AcquireSlot(r) \/ ReleaseSlot(r)
  BY <1>4 DEF LoadDestinations, AcquireSlot, ReleaseSlot
<1>5. CASE Closes(r)
  BY <1>5 DEF Closes, FinishFailed, FinishRow, WriteRow
<1>6. ASSUME NEW d \in Dests,
             Upload(r, d) \/ UploadFails(r, d) \/ DeleteObject(r, d)
      PROVE  run[r].victims \subseteq run'[r].victims
  BY <1>6 DEF Upload, UploadFails, DeleteObject
<1>7. CASE MarkDestination(r) \/ SaveLocal(r)
  BY <1>7 DEF MarkDestination, SaveLocal
<1>8. CASE ListVictims(r) \/ DeleteFile(r) \/ ListLinks(r) \/ ListLinksFails(r)
  BY <1>8 DEF ListVictims, DeleteFile, ListLinks, ListLinksFails, MayFail
<1>. QED
  BY <1>1, <1>2, <1>3, <1>4, <1>5, <1>6, <1>7, <1>8
  DEF Step, RunnerStep, PassStep, Closes

\* A row on its way out stays listed until it records no copy.
LEMMA PruningLasts ==
  ASSUME TypeOK, RowsFresh, VictimsClosed, "query" \notin Faults,
         "update" \notin Faults, NEW r \in Runners, Step(r),
         NEW id \in RowIds, BeingPruned(id)
  PROVE  \/ BeingPruned(id)'
         \/ ~rows'[id].local /\ \A d \in Dests : <<id, d>> \notin links'
<1>1. PICK s \in Runners : \E v \in run[s].victims : v.id = id
  BY DEF BeingPruned
<1>2. CASE s # r
  BY <1>1, <1>2, OthersStay DEF BeingPruned
<1>3. CASE s = r /\ ~RetireRow(r)
  <2>1. run[r].victims \subseteq run'[r].victims
    BY <1>3, VictimsLast DEF VictimsClosed
  <2>. QED BY <1>1, <1>3, <2>1 DEF BeingPruned
<1>4. CASE s = r /\ RetireRow(r)
  <2>1. PICK k : k = Victim(r).id
    OBVIOUS
  <2>2. /\ UpdateBackup(k, "deleted", FALSE)
        /\ links' = {l \in links : l[1] # k}
    BY <1>4, <2>1 DEF RetireRow, MarkBackupDeleted, MayFail
  <2>3. CASE k = id
    BY <2>2, <2>3 DEF UpdateBackup, RowsFresh, TypeOK, CatalogTypeOK, RowRecord
  <2>4. CASE k # id
    <3>1. run'[r].victims = run[r].victims \ {Victim(r)}
      BY <1>4 DEF RetireRow, TypeOK, RunRecord
    <3>. QED BY <1>1, <1>4, <2>1, <2>4, <3>1 DEF BeingPruned
  <2>. QED BY <2>3, <2>4
<1>. QED BY <1>2, <1>3, <1>4

\* A retention removes copies of the victim in its hand.
LEMMA RunTakes ==
  ASSUME TypeOK, VictimsClosed, NEW r \in Runners, Step(r)
  PROVE  /\ \A n \in files \ files' : Taken(n)
         /\ \A o \in objects \ objects' : Taken(o[2])
         /\ dests' = dests
<1>. DEFINE Good == /\ \A n \in files \ files' : Taken(n)
                    /\ \A o \in objects \ objects' : Taken(o[2])
                    /\ dests' = dests
<1>1. ASSUME run[r].victims # {}, run'[r].victims = run[r].victims,
             dests' = dests,
             \A n \in files \ files' : n = Name(Victim(r).id),
             \A o \in objects \ objects' : o[2] = Name(Victim(r).id)
      PROVE  Good
  <2>1. PICK v : v = Victim(r)
    OBVIOUS
  <2>2. v \in run[r].victims /\ v.id \in RowIds /\ v.id < nextRow
    BY <1>1, <2>1, VictimListed
  <2>3. BeingPruned(v.id) /\ BeingPruned(v.id)'
    BY <1>1, <2>2 DEF BeingPruned
  <2>4. Taken(Name(v.id))
    BY <2>2, <2>3 DEF Taken
  <2>. QED BY <1>1, <2>1, <2>4
<1>2. CASE DeleteFile(r)
  <2>1. \A n \in files \ files' : n = Name(Victim(r).id)
    BY <1>2 DEF DeleteFile
  <2>. QED BY <1>1, <1>2, <2>1 DEF DeleteFile, configVars
<1>3. ASSUME NEW d \in Dests, DeleteObject(r, d) PROVE Good
  <2>1. /\ run[r].victims # {} /\ run'[r].victims = run[r].victims
        /\ dests' = dests /\ files' = files
    BY <1>3
    DEF DeleteObject, VictimsClosed, VictimsInLoop, TypeOK, RunRecord,
        configVars
  <2>2. \A o \in objects \ objects' : o[2] = Name(Victim(r).id)
    BY <1>3 DEF DeleteObject
  <2>. QED BY <1>1, <2>1, <2>2
<1>4. CASE ~DeleteFile(r) /\ ~\E d \in Dests : DeleteObject(r, d)
  <2>1. files \subseteq files' /\ objects \subseteq objects' /\ dests' = dests
    BY <1>4
    DEF catalogVars, configVars, storeVars,
        Step, Trigger, Claim, AcquireSlot, RunnerStep, LoadJob,
        LoadJobFails, GiveBack, OpenRow, OpenRowFails, Pass,
        LoadDestinations, LoadDestinationsFails, Dump, DumpFails,
        FinishFailed, FinishRow, WriteRow, RetireRow,
        Upload, UploadFails, MarkDestination, SaveLocal,
        NothingLocal, ListVictims, KeepAll, ListLinks,
        ListLinksFails, PruneEnds, ReleaseSlot, Leave
  <2>. QED BY <2>1
<1>. QED BY <1>2, <1>3, <1>4

\* A link is added by the run that marks its own row, which is there.
LEMMA RunLinks ==
  ASSUME TypeOK, RowsOpened, RowsFresh, LinksPresent, NEW r \in Runners, Step(r)
  PROVE  /\ LinksPresent'
         /\ \A l \in links' :
              \/ l \in links
              \/ /\ pc[r] = "marking"
                 /\ \E d \in run[r].sent : l = <<run[r].row, d>>
<1>0. /\ \A id \in RowIds : Present(id) => Present(id)'
      /\ links \subseteq RowIds \X Dests
  BY RunRows DEF TypeOK, CatalogTypeOK
<1>1. CASE MarkDestination(r)
  <2>1. PICK d \in run[r].sent :
          \/ Present(run[r].row) /\ links' = links \union {<<run[r].row, d>>}
          \/ links' = links
    BY <1>1 DEF MarkDestination, CanMark, MarkBackupDestination
  <2>2. pc[r] = "marking" /\ run[r].row \in RowIds /\ UNCHANGED rows
    BY <1>1 DEF MarkDestination, Goto, RowsOpened, HoldsSlot, rowVars
  <2>3. LinksPresent'
    BY <2>1, <2>2 DEF LinksPresent, Present
  <2>. QED BY <2>1, <2>2, <2>3
<1>2. CASE ~MarkDestination(r)
  <2>1. links' \subseteq links
    BY <1>2
    DEF catalogVars, Step, Trigger, Claim, AcquireSlot, RunnerStep, LoadJob,
        LoadJobFails, GiveBack, OpenRow, OpenRowFails, Pass,
        LoadDestinations, LoadDestinationsFails, Dump, DumpFails,
        FinishFailed, FinishRow, WriteRow, RetireRow, MarkBackupDeleted,
        Upload, UploadFails, DeleteObject, DeleteFile, SaveLocal,
        NothingLocal, ListVictims, KeepAll, ListLinks,
        ListLinksFails, PruneEnds, ReleaseSlot, Leave
  <2>. QED BY <1>0, <2>1 DEF LinksPresent
<1>. QED BY <1>1, <1>2

\* A run takes only what its retention is after.
LEMMA RunSpares ==
  ASSUME TypeOK, RowsOpened, CopiesInv, "query" \notin Faults,
         "update" \notin Faults, NEW r \in Runners, Step(r),
         UNCHANGED handlerVars
  PROVE  Spared
<1>. USE DEF CopiesInv
<1>1. /\ NamesStay /\ RowsFresh'
      /\ \A id \in RowIds : rows'[id].local =>
           \/ rows[id].local
           \/ pc[r] = "finishing" /\ run[r].local /\ run[r].row = id
  BY RunRows
<1>2. /\ LinksPresent'
      /\ \A l \in links' :
           \/ l \in links
           \/ /\ pc[r] = "marking"
              /\ \E d \in run[r].sent : l = <<run[r].row, d>>
  BY RunLinks
<1>3. /\ \A n \in files \ files' : Taken(n)
      /\ \A o \in objects \ objects' : Taken(o[2])
      /\ dests' = dests
  BY RunTakes
<1>4. CopiesGo
  BY <1>1, <1>2, <1>3 DEF CopiesGo
<1>5. req' = req
  BY DEF handlerVars
<1>6. \A d \in Dests : DestDeleting(d) => DestDeleting(d)'
  BY <1>5 DEF DestDeleting
<1>7. ASSUME NEW id \in RowIds, id < nextRow, RowDeleting(id)
      PROVE  RowDeleting(id)'
  BY <1>1, <1>5, <1>7 DEF RowDeleting, NamesStay
<1>8. \A id \in RowIds : BeingPruned(id) =>
        \/ BeingPruned(id)'
        \/ ~rows'[id].local /\ \A d \in Dests : <<id, d>> \notin links'
  BY PruningLasts
<1>9. HandsLast
  BY <1>3, <1>6, <1>7, <1>8 DEF HandsLast
<1>. QED BY <1>1, <1>2, <1>4, <1>9 DEF Spared

\* The names of the runs stay, whoever takes the step.
LEMMA OwnNamesStay ==
  ASSUME TypeOK, RowsOpened, OwnNames, NamesStay, NEW s \in Runners,
         pc[s] \in Writing, run'[s].row = run[s].row,
         run'[s].job = run[s].job, run'[s].name = run[s].name,
         \/ rows'[run[s].row].status = rows[run[s].row].status
         \/ rows'[run[s].row].status = "absent"
  PROVE  /\ run'[s].row < nextRow' /\ rows'[run'[s].row].job = run'[s].job
         /\ Name(run[s].row)' = run'[s].name
         /\ rows'[run'[s].row].status \in {"running", "absent"}
<1>1. PICK id : id = run[s].row
  OBVIOUS
<1>2. id \in RowIds /\ id \in Int /\ nextRow \in Int
  BY <1>1
  DEF RowsOpened, Writing, HoldsSlot, RowIds, TypeOK, CatalogTypeOK
<1>3. /\ id < nextRow /\ rows[id].job = run[s].job /\ Name(id) = run[s].name
      /\ rows[id].status \in {"running", "absent"}
  BY <1>1 DEF OwnNames
<1>4. id < nextRow' /\ rows'[id].job = rows[id].job /\ Name(id)' = Name(id)
  BY <1>2, <1>3 DEF NamesStay, Name
<1>. QED BY <1>1, <1>3, <1>4 DEF Name

\* A run writes its own row, or one its retention is after.
LEMMA RunOwns ==
  ASSUME Inv, OwnNames, VictimsClosed, RowsFresh, NEW r \in Runners, Step(r)
  PROVE  OwnNames'
<1>0. /\ TypeOK /\ CatalogTypeOK /\ RowsOpened /\ OneRunPerJob
      /\ rows \in [RowIds -> RowRecord] /\ nextRow \in Int
      /\ NamesStay
  BY RunRows DEF Inv, TypeOK, CatalogTypeOK
<1>. SUFFICES ASSUME NEW s \in Runners, pc'[s] \in Writing
              PROVE  /\ run'[s].row < nextRow'
                     /\ rows'[run'[s].row].job = run'[s].job
                     /\ Name(run[s].row)' = run'[s].name
                     /\ rows'[run'[s].row].status \in {"running", "absent"}
  BY DEF OwnNames
<1>1. CASE s = r /\ OpenRow(r)
  <2>1. PICK started \in {clock, clock + 1} :
          /\ CreateBackup(run[r].job, started)
          /\ run' = [run EXCEPT ![r].row = nextRow,
                                ![r].name = <<run[r].job, started>>]
    BY <1>1 DEF OpenRow
  <2>2. nextRow \in RowIds
    BY <1>0, <1>1 DEF OpenRow, CatalogTypeOK, RowIds
  <2>3. /\ run'[r].row = nextRow /\ run'[r].job = run[r].job
        /\ run'[r].name = <<run[r].job, started>>
    BY <1>0, <2>1 DEF TypeOK, RunRecord
  <2>4. /\ nextRow' = nextRow + 1
        /\ rows'[nextRow] = [status |-> "running", job |-> run[r].job,
                             stamp |-> started, local |-> FALSE]
    BY <1>0, <2>1, <2>2 DEF CreateBackup
  <2>. QED BY <1>0, <1>1, <2>3, <2>4 DEF Name
<1>2. CASE ~(s = r /\ OpenRow(r))
  <2>1. /\ pc[s] \in Writing /\ run'[s].row = run[s].row
        /\ run'[s].job = run[s].job /\ run'[s].name = run[s].name
    BY <1>0, <1>2, OthersStay, WritingSteps
  <2>2. PICK id : id = run[s].row
    OBVIOUS
  <2>3. id \in RowIds /\ id < nextRow /\ rows[id].job = run[s].job
    BY <1>0, <2>1, <2>2 DEF OwnNames, RowsOpened, Writing, HoldsSlot
  <2>4. rows'[id].status = rows[id].status
    <3>1. CASE OpenRow(r)
      BY <1>0, <2>3, <3>1 DEF OpenRow, CreateBackup
    <3>2. CASE Closes(r)
      <4>1. pc'[r] \notin Writing /\ pc[r] \in Writing
        BY <1>0, <3>2
        DEF Closes, FinishFailed, FinishRow, Goto, Unwind, HoldsSlot, Writing,
            TypeOK
      <4>2. s # r /\ run[s].job # run[r].job
        BY <1>0, <2>1, <4>1
        DEF OneRunPerJob, Writing, HoldsJob, HoldsSlot
      <4>3. rows[run[r].row].job = run[r].job
        BY <4>1 DEF OwnNames
      <4>4. PICK k : k = run[r].row /\ k # id
        BY <2>3, <4>2, <4>3
      <4>5. PICK status, local :
              UpdateBackup(k, status, local) \/ UNCHANGED rows
        BY <3>2, <4>4 DEF Closes, FinishFailed, FinishRow, WriteRow
      <4>. QED BY <1>0, <2>3, <4>4, <4>5 DEF UpdateBackup
    <3>3. CASE RetireRow(r)
      <4>1. run[r].victims # {}
        BY <3>3 DEF RetireRow, Goto, VictimsClosed, VictimsInLoop
      <4>2. PICK k : k = Victim(r).id /\ k # id
        BY <1>0, <2>1, <2>2, <4>1, VictimListed DEF VictimsClosed
      <4>3. UpdateBackup(k, "deleted", FALSE) \/ UNCHANGED rows
        BY <3>3, <4>2 DEF RetireRow, MarkBackupDeleted
      <4>. QED BY <1>0, <2>3, <4>2, <4>3 DEF UpdateBackup
    <3>4. CASE ~OpenRow(r) /\ ~Closes(r) /\ ~RetireRow(r)
      BY <3>4, RowsStay DEF rowVars
    <3>. QED BY <3>1, <3>2, <3>3, <3>4
  <2>. QED BY <1>0, <2>1, <2>2, <2>4, OwnNamesStay
<1>. QED BY <1>1, <1>2

\* The rows a retention takes in hand are closed, and no later row is theirs.
LEMMA RunVictims ==
  ASSUME Inv, OwnNames, VictimsClosed, RowsFresh, NEW r \in Runners, Step(r)
  PROVE  VictimsClosed'
<1>0. /\ TypeOK /\ RowsOpened /\ run \in [Runners -> RunRecord]
      /\ nextRow \in Int /\ NamesStay /\ \A id \in RowIds : id \in Int
  BY RunRows DEF Inv, TypeOK, CatalogTypeOK, RowIds
<1>1. ASSUME NEW t \in Runners, pc'[t] \in Writing
      PROVE  \/ pc[t] \in Writing /\ run'[t].row = run[t].row
             \/ run'[t].row = nextRow /\ ~ListVictims(r)
  <2>1. CASE t = r /\ OpenRow(r)
    BY <1>0, <2>1 DEF OpenRow, RunRecord, ListVictims, Goto
  <2>2. CASE ~(t = r /\ OpenRow(r))
    BY <1>0, <1>1, <2>2, OthersStay, WritingSteps
  <2>. QED BY <2>1, <2>2
<1>. SUFFICES ASSUME NEW s \in Runners
              PROVE  /\ VictimsInLoop(s)'
                     /\ \A v \in run'[s].victims :
                          /\ v.id < nextRow'
                          /\ \A w \in run'[s].victims : v.id = w.id => v = w
                          /\ \A t \in Runners :
                               pc'[t] \in Writing => run'[t].row # v.id
  BY DEF VictimsClosed
<1>2. CASE s = r /\ ListVictims(r)
  <2>1. /\ run'[r].victims = Read(Excess(r)) /\ pc'[r] = "pruning"
        /\ UNCHANGED <<rows, nextRow>>
    BY <1>0, <1>2 DEF ListVictims, Goto, TypeOK, RunRecord, catalogVars, rowVars
  <2>2. \A v, w \in Read(Excess(r)) :
          /\ v.id \in RowIds /\ rows[v.id].status = "completed"
          /\ v.id = w.id => v = w
    <3>1. \A v, w \in Read(Excess(r)) :
            v.id \in Excess(r) /\ (v.id = w.id => v = w)
      BY DEF Read
    <3>2. \A id \in Excess(r) : id \in RowIds /\ rows[id].status = "completed"
      BY DEF Excess, Beyond, CompletedOf
    <3>. QED BY <3>1, <3>2
  <2>3. \A v \in Read(Excess(r)) : v.id < nextRow
    BY <2>2 DEF RowsFresh, Present
  <2>4. \A t \in Runners : pc'[t] \in Writing =>
          rows[run'[t].row].status \in {"running", "absent"}
    BY <1>1, <1>2 DEF OwnNames
  <2>. QED BY <1>2, <2>1, <2>2, <2>3, <2>4 DEF VictimsInLoop
<1>3. CASE ~(s = r /\ ListVictims(r))
  <2>1. run'[s].victims \subseteq run[s].victims /\ VictimsInLoop(s)'
    <3>1. CASE s = r
      BY <1>0, <1>3, <3>1, VictimSteps DEF VictimsClosed, VictimsInLoop
    <3>2. CASE s # r
      BY <1>0, <3>2, OthersStay DEF VictimsClosed, VictimsInLoop
    <3>. QED BY <3>1, <3>2
  <2>2. ASSUME NEW v \in run'[s].victims
        PROVE  /\ v.id \in Int /\ v.id < nextRow
               /\ \A w \in run'[s].victims : v.id = w.id => v = w
               /\ \A t \in Runners : pc[t] \in Writing => run[t].row # v.id
    <3>1. v \in run[s].victims /\ v.id \in RowIds
      BY <1>0, <2>1 DEF RunRecord, Victims
    <3>. QED BY <1>0, <2>1, <3>1 DEF VictimsClosed
  <2>3. ASSUME NEW v \in run'[s].victims, NEW t \in Runners, pc'[t] \in Writing
        PROVE  run'[t].row # v.id
    BY <1>0, <1>1, <2>2, <2>3
  <2>. QED BY <1>0, <2>1, <2>2, <2>3 DEF NamesStay
<1>. QED BY <1>2, <1>3

\* What the handlers have in hand stays what it is while rows keep their names.
LEMMA QueuesStay ==
  ASSUME CatalogTypeOK, NamesStay, NEW h, NEW x \in RequestRecord, Queued(h, x)
  PROVE  Queued(h, x)'
<1>1. \A b \in x.queue : b.id \in RowIds /\ b.id \in Int
  BY DEF RequestRecord, Victims, RowIds
<1>2. \A b \in x.queue : b.id < nextRow =>
        b.id < nextRow' /\ rows'[b.id].job = rows[b.id].job
  BY <1>1 DEF NamesStay, CatalogTypeOK
<1>. QED BY <1>2 DEF Queued

\* Whatever a run does, no copy goes that another row lists.
LEMMA RunKeepsCopies ==
  ASSUME SystemInv, CopiesInv, "query" \notin Faults, "update" \notin Faults,
         NEW r \in Runners, Step(r), UNCHANGED handlerVars
  PROVE  CopiesInv'
<1>0. /\ Inv /\ TypeOK /\ CatalogTypeOK /\ RowsOpened
      /\ RowsFresh /\ OwnNames /\ VictimsClosed
      /\ req \in [Requests -> RequestRecord]
  BY DEF SystemInv, SystemTypeOK, Inv, TypeOK, CopiesInv
<1>1. Spared
  BY <1>0, RunSpares
<1>2. RowsFresh' /\ LinksPresent' /\ NamesStay
  BY <1>1 DEF Spared
<1>3. OwnNames' /\ VictimsClosed'
  BY <1>0, RunOwns, RunVictims
<1>4. HandlersQueued'
  <2>1. ASSUME NEW q \in Requests PROVE Queued(hpc[q], req[q])'
    <3>1. PICK h, x : h = hpc[q] /\ x = req[q]
      OBVIOUS
    <3>2. Queued(h, x)'
      BY <1>0, <1>2, <3>1, QueuesStay DEF CopiesInv, HandlersQueued
    <3>. QED BY <3>1, <3>2 DEF handlerVars
  <2>. QED BY <2>1 DEF HandlersQueued
<1>5. ASSUME NEW s \in Runners PROVE InMaking(s)'
  <2>1. CASE s # r
    BY <1>0, <1>1, <2>1, OthersStay, MakingStays
  <2>2. CASE s = r
    <3>1. pc[r] \in Unstored => ~run[r].local
      BY DEF CopiesInv, InMaking
    <3>2. /\ pc'[r] \in Unstored => ~run'[r].local
          /\ pc'[r] = "marking" =>
               \A d \in run'[r].sent : <<d, run'[r].name>> \in objects'
          /\ pc'[r] = "finishing" /\ run'[r].local =>
               run'[r].name \in files'
      BY <1>0, <3>1, OwnCopySteps
    <3>. QED BY <2>2, <3>2 DEF InMaking
  <2>. QED BY <2>1, <2>2
<1>6. \A id \in RowIds : CopiesHeld(id)'
  BY <1>0, <1>1, LeftStay
<1>. QED BY <1>2, <1>3, <1>4, <1>5, <1>6 DEF CopiesInv

-----------------------------------------------------------------------------
(* The handlers' steps.                                                    *)

\* What a handler takes away from the history.
LEMMA HandlerRowsStay ==
  ASSUME SystemTypeOK, RowsFresh, NEW q \in Requests,
         HandlerBegins(q) \/ HandlerStep(q)
  PROVE  NamesStay /\ RowsFresh' /\ NoneMarked(0)
<1>0. /\ CatalogTypeOK /\ rows \in [RowIds -> RowRecord] /\ nextRow \in Int
      /\ req[q] \in RequestRecord
  BY DEF SystemTypeOK, TypeOK, CatalogTypeOK
<1>1. ASSUME nextRow' = nextRow,
             \A id \in RowIds :
               \/ rows'[id] = rows[id]
               \/ rows'[id] = [rows[id] EXCEPT !.status = "absent",
                                             !.local = FALSE]
      PROVE  NamesStay /\ RowsFresh' /\ NoneMarked(0)
  <2>1. ASSUME NEW id \in RowIds
        PROVE  /\ rows'[id].job = rows[id].job
               /\ rows'[id].stamp = rows[id].stamp
               /\ rows'[id].status # "absent" => rows[id].status # "absent"
               /\ rows'[id].status = "absent" => ~rows'[id].local
               /\ rows'[id].local => rows[id].local
    <3>1. CASE rows'[id] = rows[id]
      BY <3>1 DEF RowsFresh, Present
    <3>2. CASE rows'[id] = [rows[id] EXCEPT !.status = "absent",
                                            !.local = FALSE]
      <4>1. /\ rows'[id].job = rows[id].job
            /\ rows'[id].stamp = rows[id].stamp
            /\ rows'[id].status = "absent" /\ rows'[id].local = FALSE
        BY <1>0, <3>2 DEF RowRecord
      <4>. QED BY <4>1
    <3>. QED BY <1>1, <3>1, <3>2
  <2>2. RowsFresh'
    BY <1>1, <2>1 DEF RowsFresh, Present
  <2>3. NamesStay
    <3>1. nextRow' = nextRow
      BY <1>1
    <3>. QED BY <1>0, <2>1, <3>1 DEF NamesStay, Present
  <2>. QED BY <2>1, <2>2, <2>3 DEF NoneMarked
<1>2. CASE DeleteExecution(q)
  <2>1. PICK k : /\ rows' = [rows EXCEPT ![k].status = "absent",
                                        ![k].local = FALSE]
                 /\ nextRow' = nextRow
    BY <1>2 DEF DeleteExecution, DeleteBackup, LastCall
  <2>2. \A id \in RowIds :
          \/ rows'[id] = rows[id]
          \/ rows'[id] = [rows[id] EXCEPT !.status = "absent",
                                        !.local = FALSE]
    BY <1>0, <2>1
  <2>. QED BY <1>1, <2>1, <2>2
<1>3. CASE DeleteJobRow(q)
  <2>1. DeleteJob(req[q].job) /\ nextRow' = nextRow
    BY <1>3 DEF DeleteJobRow, LastCall
  <2>2. \A id \in RowIds :
          \/ rows'[id] = rows[id]
          \/ rows'[id] = [rows[id] EXCEPT !.status = "absent",
                                        !.local = FALSE]
    BY <2>1 DEF DeleteJob
  <2>. QED BY <1>1, <2>1, <2>2
<1>4. CASE UNCHANGED <<rows, nextRow>>
  BY <1>0, <1>4, StillRows
<1>. QED
  BY <1>2, <1>3, <1>4
  DEF HandlerBegins, DeletionBegins, HandlerStep, DeleteExecutionBegins,
      DeleteJobBegins, DeleteDestinationBegins, RemoveFile, ReadLinks,
      ReadLinksFails, RemoveObject, NextRowOfQueue, EmptyBucket,
      DeleteDestinationRow, LastCallFails, LastCall, vars, catalogVars, rowVars


\* The loop of a handler has a row of its queue in hand, which it is to delete.
LEMMA CurrentQueued ==
  ASSUME SystemTypeOK, HandlersQueued, NEW q \in Requests,
         hpc[q] \in {"files", "links", "objects"}, req[q].queue # {}
  PROVE  /\ Current(q) \in req[q].queue
         /\ Current(q).id \in RowIds /\ Current(q).id < nextRow
         /\ RowDeleting(Current(q).id)
<1>1. /\ CatalogTypeOK /\ req[q].queue \in SUBSET Victims
      /\ Queued(hpc[q], req[q])
  BY DEF SystemTypeOK, TypeOK, RequestRecord, HandlersQueued
<1>2. Current(q) \in req[q].queue
  BY <1>1, FirstOfList DEF Current, Queued
<1>. QED BY <1>1, <1>2 DEF Queued, Victims, RowDeleting

\* A handler removes copies of a row it is to delete, or objects of its
\* destination.
LEMMA HandlerTakes ==
  ASSUME SystemTypeOK, HandlersQueued, NEW q \in Requests,
         HandlerBegins(q) \/ HandlerStep(q)
  PROVE  /\ \A n \in files \ files' : Taken(n)
         /\ \A o \in objects \ objects' : Taken(o[2]) \/ DestDeleting(o[1])'
<1>. DEFINE Good ==
       /\ \A n \in files \ files' : Taken(n)
       /\ \A o \in objects \ objects' : Taken(o[2]) \/ DestDeleting(o[1])'
<1>0. /\ req \in [Requests -> RequestRecord]
      /\ hpc \in [Requests -> HandlerStages]
  BY DEF SystemTypeOK
<1>1. ASSUME hpc[q] \in {"files", "links", "objects"}, req[q].queue # {},
             UNCHANGED rows, req'[q].row = req[q].row, req'[q].job = req[q].job,
             \A n \in files \ files' : n = Name(Current(q).id),
             \A o \in objects \ objects' : o[2] = Name(Current(q).id)
      PROVE  Good
  <2>1. PICK id : id = Current(q).id
    OBVIOUS
  <2>2. id \in RowIds /\ id < nextRow
    BY <1>1, <2>1, CurrentQueued
  <2>3. RowDeleting(id)'
    <3>1. Current(q) \in req[q].queue /\ Queued(hpc[q], req[q])
      BY <1>1, CurrentQueued DEF HandlersQueued
    <3>2. \/ id = req[q].row
          \/ req[q].job # NoJob /\ rows[id].job = req[q].job
      BY <1>1, <2>1, <3>1 DEF Queued
    <3>. QED BY <1>1, <3>2 DEF RowDeleting
  <2>. QED BY <1>1, <2>1, <2>2, <2>3 DEF Taken
<1>2. CASE RemoveFile(q)
  <2>1. \A n \in files \ files' : n = Name(Current(q).id)
    BY <1>2 DEF RemoveFile
  <2>. QED BY <1>1, <1>2, <2>1 DEF RemoveFile, Turn, rowVars
<1>3. ASSUME NEW d \in Dests, RemoveObject(q, d) PROVE Good
  <2>1. \A o \in objects \ objects' : o[2] = Name(Current(q).id)
    BY <1>3 DEF RemoveObject
  <2>2. /\ hpc[q] = "objects" /\ req[q].queue # {} /\ UNCHANGED <<rows, files>>
        /\ req'[q].row = req[q].row /\ req'[q].job = req[q].job
    BY <1>0, <1>3
    DEF RemoveObject, HandlersQueued, Queued, RequestRecord, rowVars
  <2>. QED BY <1>1, <2>1, <2>2
<1>4. CASE EmptyBucket(q)
  <2>1. PICK d \in req[q].dest : \A o \in objects \ objects' : o[1] = d
    BY <1>4 DEF EmptyBucket
  <2>2. d \in req'[q].dest /\ UNCHANGED files
    BY <1>0, <1>4 DEF EmptyBucket, RequestRecord
  <2>. QED BY <2>1, <2>2 DEF DestDeleting
<1>5. CASE UNCHANGED <<files, objects>>
  BY <1>5
<1>. QED
  BY <1>2, <1>3, <1>4, <1>5
  DEF HandlerBegins, DeletionBegins, HandlerStep, DeleteExecutionBegins,
      DeleteJobBegins, DeleteDestinationBegins, ReadLinks, ReadLinksFails,
      NextRowOfQueue, DeleteExecution, DeleteJobRow, DeleteDestinationRow,
      LastCallFails, LastCall, vars, catalogVars, storeVars

\* The links of a row go with it, and those of a destination too.
LEMMA HandlerLinks ==
  ASSUME SystemTypeOK, LinksPresent, NEW q \in Requests,
         HandlerBegins(q) \/ HandlerStep(q)
  PROVE  links' \subseteq links /\ LinksPresent' /\ dests' \subseteq dests
<1>0. /\ rows \in [RowIds -> RowRecord] /\ links \subseteq RowIds \X Dests
  BY DEF SystemTypeOK, TypeOK, CatalogTypeOK
<1>1. CASE DeleteExecution(q)
  BY <1>0, <1>1
  DEF DeleteExecution, DeleteBackup, LinksPresent, Present, configVars
<1>2. CASE DeleteJobRow(q)
  BY <1>0, <1>2 DEF DeleteJobRow, DeleteJob, LinksPresent, Present
<1>3. CASE DeleteDestinationRow(q)
  BY <1>0, <1>3
  DEF DeleteDestinationRow, DeleteDestination, LinksPresent, Present
<1>4. CASE UNCHANGED <<rows, links, dests>>
  BY <1>4 DEF LinksPresent, Present
<1>. QED
  BY <1>1, <1>2, <1>3, <1>4
  DEF HandlerBegins, DeletionBegins, HandlerStep, DeleteExecutionBegins,
      DeleteJobBegins, DeleteDestinationBegins, RemoveFile, ReadLinks,
      ReadLinksFails, RemoveObject, NextRowOfQueue, EmptyBucket,
      LastCallFails, LastCall, vars, catalogVars, configVars, rowVars

\* What a handler has in hand is what it was asked to delete, until it is gone.
LEMMA HandlerHolds ==
  ASSUME SystemTypeOK, RowsFresh, LinksPresent, HandlersQueued,
         "update" \notin Faults, NEW q \in Requests,
         HandlerBegins(q) \/ HandlerStep(q)
  PROVE  HandlersQueued' /\ HandsLast
<1>0. /\ CatalogTypeOK /\ nextRow \in Int /\ req[q] \in RequestRecord
      /\ req \in [Requests -> RequestRecord]
      /\ hpc \in [Requests -> HandlerStages]
      /\ \A id \in RowIds : id # 0 /\ rows[id] \in RowRecord
  BY DEF SystemTypeOK, TypeOK, CatalogTypeOK, RowIds
<1>1. NamesStay /\ run' = run /\ dests' \subseteq dests
  BY HandlerRowsStay, HandlerCatalog, HandlerLinks DEF engineVars
<1>2. Queued(hpc[q], req[q])
  BY DEF HandlersQueued
<1>3. NoRequest \in RequestRecord /\ Queued("none", NoRequest)
  BY DEF NoRequest, RequestRecord, Queued
<1>4. ASSUME NEW h \in HandlerStages, NEW x \in RequestRecord, Queued(h, x),
             hpc' = [hpc EXCEPT ![q] = h], req' = [req EXCEPT ![q] = x]
      PROVE  HandlersQueued'
  <2>1. ASSUME NEW p \in Requests PROVE Queued(hpc[p], req[p])'
    <3>1. PICK g, y : g = hpc'[p] /\ y = req'[p]
      OBVIOUS
    <3>2. Queued(g, y) /\ y \in RequestRecord
      BY <1>0, <1>4, <3>1 DEF HandlersQueued
    <3>3. Queued(g, y)'
      BY <1>0, <1>1, <3>2, QueuesStay
    <3>. QED BY <3>1, <3>3
  <2>. QED BY <2>1 DEF HandlersQueued
<1>5. ASSUME NEW x, req' = [req EXCEPT ![q] = x],
             \A id \in RowIds : req[q].row = id => x.row = id \/ ~Present(id)',
             \A id \in RowIds :
               req[q].job # NoJob /\ req[q].job = rows[id].job
                 => x.job = req[q].job \/ ~Present(id)',
             \A d \in req[q].dest : d \in x.dest \/ d \notin dests'
      PROVE  HandsLast
  <2>1. x = req'[q] /\ \A p \in Requests \ {q} : req'[p] = req[p]
    BY <1>0, <1>5
  <2>2. ASSUME NEW id \in RowIds, id < nextRow, RowDeleting(id)
        PROVE  RowDeleting(id)' \/ ~Present(id)'
    <3>1. rows'[id].job = rows[id].job
      BY <1>1, <2>2 DEF NamesStay
    <3>2. PICK p \in Requests :
            \/ req[p].row = id
            \/ req[p].job # NoJob /\ req[p].job = rows[id].job
      BY <2>2 DEF RowDeleting
    <3>. QED BY <1>5, <2>1, <3>1, <3>2 DEF RowDeleting
  <2>3. ASSUME NEW d \in Dests, DestDeleting(d)
        PROVE  DestDeleting(d)' \/ d \notin dests'
    BY <1>5, <2>1, <2>3 DEF DestDeleting
  <2>4. \A id \in RowIds : BeingPruned(id) => BeingPruned(id)'
    BY <1>1 DEF BeingPruned
  <2>. QED BY <1>1, <2>2, <2>3, <2>4 DEF HandsLast
<1>6. \A S \in SUBSET RowIds : Read(S) \subseteq Victims
  BY <1>0 DEF Read, Victims, RowRecord
\* The first steps.
<1>7. ASSUME NEW h \in {"files", "bucket"}, NEW x \in RequestRecord,
             Queued(h, x), Turn(q, "none", h), req' = [req EXCEPT ![q] = x]
      PROVE  HandlersQueued' /\ HandsLast
  <2>1. hpc[q] = "none" /\ hpc' = [hpc EXCEPT ![q] = h] /\ h \in HandlerStages
    BY <1>7 DEF Turn, HandlerStages
  <2>2. req[q].row = 0 /\ req[q].job = NoJob /\ req[q].dest = {}
    BY <1>2, <2>1 DEF Queued, NoRequest
  <2>3. HandsLast
    BY <1>0, <1>5, <1>7, <2>2
  <2>. QED BY <1>4, <1>7, <2>1, <2>3
<1>8. ASSUME NEW id \in RowIds, DeleteExecutionBegins(q, id)
      PROVE  HandlersQueued' /\ HandsLast
  <2>. DEFINE x == [NoRequest EXCEPT !.row = id, !.queue = Read({id})]
  <2>1. /\ x.row = id /\ x.job = NoJob /\ x.dest = {}
        /\ x.queue = Read({id}) /\ x \in RequestRecord
    <3>1. Read({id}) \subseteq Victims /\ id \in 0..MaxRows
      BY <1>6 DEF RowIds
    <3>. QED BY <1>3, <3>1 DEF NoRequest, RequestRecord
  <2>2. id < nextRow
    BY <1>8 DEF DeleteExecutionBegins, RowsFresh
  <2>3. Queued("files", x)
    BY <2>1, <2>2 DEF Queued, Read
  <2>4. req' = [req EXCEPT ![q] = x] /\ Turn(q, "none", "files")
    BY <1>8 DEF DeleteExecutionBegins
  <2>. HIDE DEF x
  <2>. QED BY <1>7, <2>1, <2>3, <2>4
<1>9. ASSUME NEW j \in Jobs, DeleteJobBegins(q, j)
      PROVE  HandlersQueued' /\ HandsLast
  <2>1. PICK found \in {RowsOf(j), {}} :
          req' = [req EXCEPT ![q] =
                    [NoRequest EXCEPT !.job = j, !.queue = Read(found)]]
    BY <1>9 DEF DeleteJobBegins
  <2>. DEFINE x == [NoRequest EXCEPT !.job = j, !.queue = Read(found)]
  <2>2. /\ x.row = 0 /\ x.job = j /\ x.dest = {} /\ x.queue = Read(found)
        /\ x \in RequestRecord
    <3>1. Read(found) \subseteq Victims
      BY <1>6, <2>1 DEF RowsOf
    <3>. QED BY <1>3, <3>1 DEF NoRequest, RequestRecord
  <2>3. \A b, c \in Read(found) :
          /\ b.id \in RowIds /\ b.id < nextRow /\ rows[b.id].job = j
          /\ b.id = c.id => b = c
    <3>1. \A b, c \in Read(found) : b.id \in found /\ (b.id = c.id => b = c)
      BY DEF Read
    <3>2. \A id \in found :
            id \in RowIds /\ id < nextRow /\ rows[id].job = j
      BY <2>1 DEF RowsOf, RowsFresh
    <3>. QED BY <3>1, <3>2
  <2>4. Queued("files", x)
    BY <2>2, <2>3, CatalogAssumption DEF Queued
  <2>5. req' = [req EXCEPT ![q] = x] /\ Turn(q, "none", "files")
    BY <1>9, <2>1 DEF DeleteJobBegins
  <2>. HIDE DEF x
  <2>. QED BY <1>7, <2>2, <2>4, <2>5
<1>10. ASSUME NEW d \in Dests, DeleteDestinationBegins(q, d)
       PROVE  HandlersQueued' /\ HandsLast
  <2>1. PICK found \in SUBSET RowIds :
          req' = [req EXCEPT ![q] =
                    [NoRequest EXCEPT !.dest = {d}, !.queue = Read(found)]]
    BY <1>10 DEF DeleteDestinationBegins
  <2>. DEFINE x == [NoRequest EXCEPT !.dest = {d}, !.queue = Read(found)]
  <2>2. x.row = 0 /\ x.job = NoJob /\ x.dest = {d} /\ x \in RequestRecord
    BY <1>3, <1>6 DEF NoRequest, RequestRecord
  <2>3. Queued("bucket", x)
    BY <2>2 DEF Queued
  <2>4. req' = [req EXCEPT ![q] = x] /\ Turn(q, "none", "bucket")
    BY <1>10, <2>1 DEF DeleteDestinationBegins
  <2>. HIDE DEF x
  <2>. QED BY <1>7, <2>2, <2>3, <2>4
\* The steps of the loops.
<1>11. ASSUME NEW h \in HandlerStages, NEW x \in RequestRecord,
              hpc[q] # "none", h # "none", hpc[q] = "bucket" <=> h = "bucket",
              hpc' = [hpc EXCEPT ![q] = h], req' = [req EXCEPT ![q] = x],
              x.row = req[q].row, x.job = req[q].job, x.dest = req[q].dest,
              x.queue \subseteq req[q].queue,
              h \in {"links", "objects"} => x.queue # {}
       PROVE  HandlersQueued' /\ HandsLast
  <2>1. hpc[q] \in {"files", "links", "objects"}
          <=> h \in {"files", "links", "objects"}
    BY <1>0, <1>11 DEF HandlerStages
  <2>2. Queued(h, x)
    BY <1>2, <1>11, <2>1 DEF Queued
  <2>. QED BY <1>4, <1>5, <1>11, <2>2
<1>12. CASE \/ RemoveFile(q) \/ ReadLinks(q) \/ ReadLinksFails(q)
            \/ NextRowOfQueue(q) \/ EmptyBucket(q)
            \/ \E d \in Dests : RemoveObject(q, d)
  <2>1. PICK h \in HandlerStages, x \in RequestRecord :
          /\ hpc[q] # "none" /\ h # "none"
          /\ hpc[q] = "bucket" <=> h = "bucket"
          /\ hpc' = [hpc EXCEPT ![q] = h] /\ req' = [req EXCEPT ![q] = x]
          /\ x.row = req[q].row /\ x.job = req[q].job /\ x.dest = req[q].dest
          /\ x.queue \subseteq req[q].queue
          /\ h \in {"links", "objects"} => x.queue # {}
    <3>. DEFINE Goes(h, x) ==
           /\ hpc[q] # "none" /\ h # "none"
           /\ hpc[q] = "bucket" <=> h = "bucket"
           /\ hpc' = [hpc EXCEPT ![q] = h] /\ req' = [req EXCEPT ![q] = x]
           /\ x.row = req[q].row /\ x.job = req[q].job /\ x.dest = req[q].dest
           /\ x.queue \subseteq req[q].queue
           /\ h \in {"links", "objects"} => x.queue # {}
    <3>0. \A t \in SUBSET Dests : [req[q] EXCEPT !.todo = t] \in RequestRecord
      BY <1>0 DEF RequestRecord
    <3>1. \A b : [req[q] EXCEPT !.queue = @ \ {b}] \in RequestRecord
      BY <1>0 DEF RequestRecord
    <3>2. CASE RemoveFile(q)
      <4>1. Goes("links", req[q])
        BY <1>0, <3>2 DEF RemoveFile, Turn
      <4>. QED BY <1>0, <4>1 DEF HandlerStages
    <3>3. CASE ReadLinks(q)
      <4>1. LinksOf(Current(q).id) \in SUBSET Dests
        BY <1>0 DEF LinksOf, CatalogTypeOK
      <4>2. Goes("objects", [req[q] EXCEPT !.todo = LinksOf(Current(q).id)])
        BY <1>0, <1>2, <3>3 DEF ReadLinks, Turn, RequestRecord, Queued
      <4>. QED BY <3>0, <4>1, <4>2 DEF HandlerStages
    <3>4. CASE ReadLinksFails(q) \/ NextRowOfQueue(q)
      <4>1. Goes("files", [req[q] EXCEPT !.queue = @ \ {Current(q)}])
        BY <1>0, <3>4 DEF ReadLinksFails, NextRowOfQueue, Turn, RequestRecord
      <4>. QED BY <3>1, <4>1 DEF HandlerStages
    <3>5. CASE EmptyBucket(q)
      <4>1. PICK b : req' = [req EXCEPT ![q].queue = @ \ {b}]
        BY <3>5 DEF EmptyBucket
      <4>2. Goes("bucket", [req[q] EXCEPT !.queue = @ \ {b}])
        BY <1>0, <3>5, <4>1 DEF EmptyBucket, RequestRecord
      <4>. QED BY <3>1, <4>2 DEF HandlerStages
    <3>6. ASSUME NEW d \in Dests, RemoveObject(q, d)
          PROVE  \E h \in HandlerStages, x \in RequestRecord : Goes(h, x)
      <4>1. Goes("objects", [req[q] EXCEPT !.todo = @ \ {d}])
        BY <1>0, <1>2, <3>6 DEF RemoveObject, RequestRecord, Queued
      <4>2. req[q].todo \ {d} \in SUBSET Dests
        BY <1>0 DEF RequestRecord
      <4>. QED BY <3>0, <4>1, <4>2 DEF HandlerStages
    <3>. QED BY <1>12, <3>2, <3>3, <3>4, <3>5, <3>6
  <2>. QED BY <1>11, <2>1
\* The last calls.
<1>13. CASE DeleteExecution(q) \/ DeleteJobRow(q) \/ DeleteDestinationRow(q)
  <2>1. /\ hpc' = [hpc EXCEPT ![q] = "none"] /\ "none" \in HandlerStages
        /\ req' = [req EXCEPT ![q] = NoRequest]
    BY <1>13
    DEF DeleteExecution, DeleteJobRow, DeleteDestinationRow, LastCall, Turn,
        HandlerStages
  <2>2. HandsLast
    <3>1. CASE DeleteExecution(q)
      <4>1. req[q].job = NoJob /\ req[q].dest = {}
        BY <1>2, <3>1 DEF DeleteExecution, Turn, Queued
      <4>2. \A id \in RowIds : req[q].row = id => ~Present(id)'
        BY <1>0, <3>1
        DEF DeleteExecution, DeleteBackup, Present, CatalogTypeOK, RowRecord
      <4>. QED BY <1>5, <2>1, <4>1, <4>2
    <3>2. CASE DeleteJobRow(q)
      <4>1. req[q].row = 0 /\ req[q].dest = {}
        BY <1>2, <3>2 DEF DeleteJobRow, Turn, Queued
      <4>2. \A id \in RowIds : req[q].job = rows[id].job => ~Present(id)'
        BY <1>0, <3>2 DEF DeleteJobRow, DeleteJob, Present, RowRecord
      <4>. QED BY <1>0, <1>5, <2>1, <4>1, <4>2
    <3>3. CASE DeleteDestinationRow(q)
      <4>1. /\ req[q].row = 0 /\ req[q].job = NoJob
            /\ \A d, e \in req[q].dest : d = e
        BY <1>2, <3>3 DEF DeleteDestinationRow, Turn, Queued
      <4>2. \A d \in req[q].dest : d \notin dests'
        BY <3>3, <4>1 DEF DeleteDestinationRow, DeleteDestination
      <4>. QED BY <1>0, <1>5, <2>1, <4>1, <4>2
    <3>. QED BY <1>13, <3>1, <3>2, <3>3
  <2>. QED BY <1>3, <1>4, <2>1, <2>2
<1>14. ~LastCallFails(q)
  BY DEF LastCallFails, MayFail
<1>. QED
  BY <1>8, <1>9, <1>10, <1>12, <1>13, <1>14
  DEF HandlerBegins, DeletionBegins, HandlerStep

\* A handler's write takes a row, and its copies' record, away.
LEMMA HandlerWrites ==
  ASSUME SystemTypeOK, NEW q \in Requests,
         HandlerBegins(q) \/ HandlerStep(q), NEW id \in RowIds
  PROVE  /\ rows'[id].local => rows[id].local
         /\ rows'[id].status \in {rows[id].status, "absent"}
<1>0. rows \in [RowIds -> RowRecord]
  BY DEF SystemTypeOK, TypeOK, CatalogTypeOK
<1>1. CASE DeleteExecution(q)
  BY <1>0, <1>1 DEF DeleteExecution, DeleteBackup, RowRecord
<1>2. CASE DeleteJobRow(q)
  BY <1>0, <1>2 DEF DeleteJobRow, DeleteJob, RowRecord
<1>3. CASE UNCHANGED rows
  BY <1>3
<1>. QED
  BY <1>1, <1>2, <1>3
  DEF HandlerBegins, DeletionBegins, HandlerStep, DeleteExecutionBegins,
      DeleteJobBegins, DeleteDestinationBegins, RemoveFile, ReadLinks,
      ReadLinksFails, RemoveObject, NextRowOfQueue, EmptyBucket,
      DeleteDestinationRow, LastCallFails, LastCall, vars, catalogVars, rowVars

\* Whatever a handler does, no copy goes that another row lists.
LEMMA HandlerKeepsCopies ==
  ASSUME SystemInv, CopiesInv, "update" \notin Faults, NEW q \in Requests,
         HandlerBegins(q) \/ HandlerStep(q)
  PROVE  CopiesInv'
<1>0. /\ SystemTypeOK /\ TypeOK /\ CatalogTypeOK /\ RowsOpened
      /\ RowsFresh /\ OwnNames /\ VictimsClosed /\ LinksPresent
      /\ HandlersQueued
  BY DEF SystemInv, SystemTypeOK, Inv, TypeOK, CopiesInv
<1>1. NamesStay /\ RowsFresh'
  BY <1>0, HandlerRowsStay
<1>2. UNCHANGED <<nextRow, engineVars>>
  BY <1>0, HandlerCatalog
<1>3. links' \subseteq links /\ LinksPresent'
  BY <1>0, HandlerLinks
<1>4. HandlersQueued' /\ HandsLast
  BY <1>0, HandlerHolds
<1>5. CopiesGo
  <2>1. /\ \A n \in files \ files' : Taken(n)
        /\ \A o \in objects \ objects' : Taken(o[2]) \/ DestDeleting(o[1])'
    BY <1>0, HandlerTakes
  <2>2. \A id \in RowIds : rows'[id].local => rows[id].local
    BY <1>0, HandlerWrites
  <2>. QED BY <1>3, <2>1, <2>2 DEF CopiesGo
<1>6. Spared
  BY <1>1, <1>3, <1>4, <1>5 DEF Spared
<1>7. pc' = pc /\ run' = run
  BY <1>2 DEF engineVars
<1>8. OwnNames'
  <2>. SUFFICES ASSUME NEW s \in Runners, pc[s] \in Writing
                PROVE  /\ run[s].row < nextRow'
                       /\ rows'[run[s].row].job = run[s].job
                       /\ Name(run[s].row)' = run[s].name
                       /\ rows'[run[s].row].status \in {"running", "absent"}
    BY <1>7 DEF OwnNames
  <2>1. run[s].row \in RowIds
    BY <1>0 DEF RowsOpened, Writing, HoldsSlot
  <2>2. rows'[run[s].row].status \in {rows[run[s].row].status, "absent"}
    BY <1>0, <2>1, HandlerWrites
  <2>. QED BY <1>0, <1>1, <1>7, <2>2, OwnNamesStay
<1>9. VictimsClosed'
  BY <1>0, <1>2, <1>7 DEF VictimsClosed, VictimsInLoop
<1>10. \A s \in Runners : InMaking(s)'
  BY <1>0, <1>6, <1>7, MakingStays
<1>11. \A id \in RowIds : CopiesHeld(id)'
  BY <1>0, <1>6, LeftStay
<1>. QED
  BY <1>1, <1>3, <1>4, <1>8, <1>9, <1>10, <1>11 DEF CopiesInv

\* While nothing but a dump, a store, a mark or the removal of a copy fails and
\* the process does not crash, the deletion of an execution, a job or a
\* destination takes away no copy that another row lists, whatever runs, prunes
\* and other deletions go on meanwhile.
THEOREM DeletionsSpareOthers ==
  ASSUME "query" \notin Faults, "update" \notin Faults, MaxCrashes = 0
  PROVE  SystemSpec => []OthersKeepTheirCopies
<1>1. SystemInit => CopiesInv
  BY DEF SystemInit, Init, CatalogInit, NoRow, NoRun, CopiesInv, RowsFresh,
         LinksPresent, OwnNames, VictimsClosed, VictimsInLoop, HandlersQueued,
         Queued, InMaking, CopiesHeld, Present, Writing, LinksOf
<1>2. SystemInv /\ CopiesInv /\ [SystemNext]_systemVars => CopiesInv'
  <2>. SUFFICES ASSUME SystemInv, CopiesInv, [SystemNext]_systemVars
                PROVE  CopiesInv'
    OBVIOUS
  <2>1. CASE EngineNext /\ UNCHANGED handlerVars
    BY <2>1, RunKeepsCopies DEF EngineNext, Step
  <2>2. ASSUME UNCHANGED <<dests, rows, nextRow, links, files, objects, pc, run,
                           hpc, req>>
        PROVE  CopiesInv'
    BY <2>2
    DEF CopiesInv, RowsFresh, LinksPresent, OwnNames, VictimsClosed,
        VictimsInLoop, HandlersQueued, Queued, InMaking, CopiesHeld, Excused,
        Shared, Name, RowDeleting, DestDeleting, BeingPruned, Present, LinksOf
  <2>3. CASE (\E j \in Jobs : EditJob(j)) /\ UNCHANGED handlerVars
    BY <2>2, <2>3 DEF EditJob, handlerVars, rowVars, storeVars, engineVars
  <2>4. CASE UNCHANGED systemVars
    BY <2>2, <2>4
    DEF systemVars, handlerVars, vars, catalogVars, configVars, rowVars,
        storeVars, engineVars
  <2>5. ~SystemCrash
    BY DEF SystemCrash, Crash, SystemInv, Inv, TypeOK
  <2>6. ASSUME NEW q \in Requests, HandlerBegins(q) \/ HandlerStep(q)
        PROVE  CopiesInv'
    BY <2>6, HandlerKeepsCopies
  <2>. QED BY <2>1, <2>3, <2>4, <2>5, <2>6 DEF SystemNext
<1>. QED BY <1>1, <1>2, EngineSurvives, CopiesKept, PTL DEF SystemSpec
=============================================================================

----------------------------- MODULE Deletions ------------------------------
(***************************************************************************)
(* The handlers that delete an execution, a job or a destination           *)
(* (internal/web), composed with the backup engine.  A handler is a        *)
(* goroutine of net/http: it reads rows, removes files and objects one by  *)
(* one and deletes the row last, with the engine's runs in between.        *)
(***************************************************************************)
EXTENDS BackupEngine

CONSTANTS
  Requests,  \* handlers served at once
  Kinds      \* the deletions users ask for

DeletionKinds ==
  {"finished execution", "running execution", "job", "destination"}

ASSUME DeletionAssumption == Kinds \subseteq DeletionKinds

VARIABLES
  hpc,  \* stage of each handler
  req   \* its local variables

handlerVars == <<hpc, req>>
systemVars == <<vars, handlerVars>>

HandlerStages == {"none", "files", "links", "objects", "bucket"}

RequestRecord ==
  [row: 0..MaxRows,           \* the execution to delete,
   job: Jobs \union {NoJob},  \* or the job,
   dest: SUBSET Dests,        \* or the destination
   queue: SUBSET Victims,     \* rows whose copies are still to be removed
   todo: SUBSET Dests]        \* destinations of the row at hand

NoRequest == [row |-> 0, job |-> NoJob, dest |-> {}, queue |-> {}, todo |-> {}]

SystemTypeOK ==
  /\ TypeOK
  /\ hpc \in [Requests -> HandlerStages]
  /\ req \in [Requests -> RequestRecord]

SystemInit ==
  /\ Init
  /\ hpc = [q \in Requests |-> "none"]
  /\ req = [q \in Requests |-> NoRequest]

Turn(q, from, to) == hpc[q] = from /\ hpc' = [hpc EXCEPT ![q] = to]

Asked(kind) == kind \in Kinds

-----------------------------------------------------------------------------
(* The three handlers up to their loops.                                   *)

\* GetBackup: the handler works with the row as it was read here.
DeleteExecutionBegins(q, id) ==
  /\ Turn(q, "none", "files")
  /\ Present(id)
  /\ Asked(IF rows[id].status = "running" THEN "running execution"
                                          ELSE "finished execution")
  /\ req' = [req EXCEPT ![q] =
                [NoRequest EXCEPT !.row = id, !.queue = Read({id})]]
  /\ UNCHANGED vars

\* Mutant of RowsOf: ListBackups(0, false), which lists every job's rows.
RowsOfAnyJob(j) == {id \in RowIds : Present(id)}

RowsOf(j) == {id \in RowIds : Present(id) /\ rows[id].job = j}

\* GetJob and ListBackups; without a list the job is deleted all the same.
DeleteJobBegins(q, j) ==
  /\ Turn(q, "none", "files")
  /\ Asked("job")
  /\ jobs[j].live
  /\ \E found \in {RowsOf(j)} \union (IF MayFail("query") THEN {{}} ELSE {}) :
       req' = [req EXCEPT ![q] =
                 [NoRequest EXCEPT !.job = j, !.queue = Read(found)]]
  /\ UNCHANGED vars

\* GetDestination and ListBackupsForDestination.
DeleteDestinationBegins(q, d) ==
  /\ Turn(q, "none", "bucket")
  /\ Asked("destination")
  /\ d \in dests
  /\ \E found \in {{id \in RowIds : <<id, d>> \in links}}
                    \union (IF MayFail("query") THEN {{}} ELSE {}) :
       req' = [req EXCEPT ![q] =
                 [NoRequest EXCEPT !.dest = {d}, !.queue = Read(found)]]
  /\ UNCHANGED vars

-----------------------------------------------------------------------------
(* deleteBackupFiles for each row of the queue.                            *)

Current(q) == First(req[q].queue)

RemoveFile(q) ==
  /\ Turn(q, "files", "links")
  /\ req[q].queue # {}
  /\ \/ Current(q).local /\ files' = files \ {Name(Current(q).id)}
     \/ (~Current(q).local \/ MayFail("delete")) /\ UNCHANGED files
  /\ UNCHANGED <<configVars, rowVars, links, objects, engineVars, req>>

ReadLinks(q) ==
  /\ Turn(q, "links", "objects")
  /\ req' = [req EXCEPT ![q].todo = LinksOf(Current(q).id)]
  /\ UNCHANGED vars

ReadLinksFails(q) ==
  /\ Turn(q, "links", "files")
  /\ MayFail("query")
  /\ req' = [req EXCEPT ![q].queue = @ \ {Current(q)}]
  /\ UNCHANGED vars

RemoveObject(q, d) ==
  /\ hpc[q] = "objects"
  /\ d \in req[q].todo
  /\ \/ objects' = objects \ {<<d, Name(Current(q).id)>>}
     \/ MayFail("delete") /\ UNCHANGED objects
  /\ req' = [req EXCEPT ![q].todo = @ \ {d}]
  /\ UNCHANGED <<configVars, rowVars, links, files, engineVars, hpc>>

NextRowOfQueue(q) ==
  /\ Turn(q, "objects", "files")
  /\ req[q].todo = {}
  /\ req' = [req EXCEPT ![q].queue = @ \ {Current(q)}]
  /\ UNCHANGED vars

\* destinationDelete removes one object per listed row.
EmptyBucket(q) ==
  /\ hpc[q] = "bucket"
  /\ \E b \in req[q].queue, d \in req[q].dest :
       /\ \/ objects' = objects \ {<<d, Name(b.id)>>}
          \/ MayFail("delete") /\ UNCHANGED objects
       /\ req' = [req EXCEPT ![q].queue = @ \ {b}]
  /\ UNCHANGED <<configVars, rowVars, links, files, engineVars, hpc>>

-----------------------------------------------------------------------------
(* The last call of each handler: the row goes, whatever is left behind.   *)

LastCall(q) ==
  /\ req[q].queue = {}
  /\ req' = [req EXCEPT ![q] = NoRequest]
  /\ UNCHANGED <<nextRow, clock, storeVars, engineVars>>

DeleteExecution(q) ==
  /\ Turn(q, "files", "none")
  /\ req[q].row # 0
  /\ DeleteBackup(req[q].row)
  /\ UNCHANGED configVars
  /\ LastCall(q)

DeleteJobRow(q) ==
  /\ Turn(q, "files", "none")
  /\ req[q].job # NoJob
  /\ DeleteJob(req[q].job)
  /\ UNCHANGED dests
  /\ LastCall(q)

DeleteDestinationRow(q) ==
  /\ Turn(q, "bucket", "none")
  /\ \E d \in req[q].dest : DeleteDestination(d)
  /\ UNCHANGED rows
  /\ LastCall(q)

LastCallFails(q) ==
  /\ \E stage \in {"files", "bucket"} : Turn(q, stage, "none")
  /\ MayFail("update")
  /\ UNCHANGED <<configVars, rows, links>>
  /\ LastCall(q)

-----------------------------------------------------------------------------
HandlerStep(q) ==
  \/ RemoveFile(q) \/ ReadLinks(q) \/ ReadLinksFails(q)
  \/ \E d \in Dests : RemoveObject(q, d)
  \/ NextRowOfQueue(q) \/ EmptyBucket(q)
  \/ DeleteExecution(q) \/ DeleteJobRow(q) \/ DeleteDestinationRow(q)
  \/ LastCallFails(q)

DeletionBegins(q) ==
  \/ \E j \in Jobs : DeleteJobBegins(q, j)
  \/ \E d \in Dests : DeleteDestinationBegins(q, d)

HandlerBegins(q) ==
  \/ \E id \in RowIds : DeleteExecutionBegins(q, id)
  \/ DeletionBegins(q)

\* The handlers die with the process, wherever they are.
SystemCrash ==
  /\ Crash
  /\ hpc' = [q \in Requests |-> "none"]
  /\ req' = [q \in Requests |-> NoRequest]

SystemNext ==
  \/ (EngineNext \/ \E j \in Jobs : EditJob(j)) /\ UNCHANGED handlerVars
  \/ \E q \in Requests : HandlerBegins(q) \/ HandlerStep(q)
  \/ SystemCrash

SystemSpec == SystemInit /\ [][SystemNext]_systemVars

-----------------------------------------------------------------------------
(* Properties.                                                             *)

BeingDeleted(id) ==
  \E q \in Requests :
    \/ req[q].row = id
    \/ req[q].job # NoJob /\ req[q].job = rows[id].job
    \/ \E d \in req[q].dest : <<id, d>> \in links

\* The engine's invariant survives the deletions: whatever rows, links, jobs
\* and destinations go away between the steps of a run, no claim and no slot is
\* lost.
SystemInv == SystemTypeOK /\ Inv

\* Deleting an execution, a job or a destination never takes away a copy that
\* another row still lists, whatever runs and prunes go on meanwhile.  (While
\* nothing but a dump or a store fails and the process does not crash.)
OthersKeepTheirCopies ==
  \A id \in RowIds :
    Shared(id) \/ BeingPruned(id) \/ BeingDeleted(id) \/ CopiesExist(id)

\* db.go: "its links and backups cascade" -- holds against its runs: whatever
\* a run in flight opens, fills or retires, a deleted job has no executions.
RowsBelongToJobs ==
  \A id \in RowIds :
    Present(id) /\ rows[id].job \in Jobs => jobs[rows[id].job].live
=============================================================================

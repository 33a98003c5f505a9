----------------------------- MODULE Scheduler ------------------------------
(***************************************************************************)
(* The schedule of the jobs: rows of jobs against the cron entries that    *)
(* internal/scheduler keeps in memory, under the handlers that change the  *)
(* two one after the other, cron's fires, crashes, and the start and the   *)
(* shutdown of the process (cmd/dumpkeeper).                               *)
(***************************************************************************)
EXTENDS Integers, FiniteSets

CONSTANTS
  MaxJobs,      \* bound on the jobs created
  Schedules,    \* cron expressions
  Malformed,    \* those among them that cron does not parse
  NoSchedule,   \* the empty schedule: manual backups only
  Zones,        \* time zones LoadLocation knows
  Offsets,      \* the N of zones written UTC+N and UTC-N
  Nowhere,      \* a name that is no time zone
  Absent,       \* no row
  NoEntry,      \* no cron entry
  NoJob,        \* no job at hand
  Forms,        \* what users may enter, valid or not
  Snapshots,    \* rows of jobs in configurations that may be restored
  Handlers,     \* requests served at once
  Overlap,      \* whether two requests may work on one job at once
  MaxFires,     \* bound: fires that have begun at once
  MaxEvents     \* bound: failed statements, restores, crashes and restarts

Jobs == 1..MaxJobs
Timezones == Zones \union Offsets \union {Nowhere}
Rows == [enabled: BOOLEAN, schedule: Schedules \union {NoSchedule},
         zone: Timezones]

ASSUME SchedulerAssumption ==
  /\ {MaxJobs, MaxFires, MaxEvents} \subseteq Nat /\ Overlap \in BOOLEAN
  /\ Malformed \subseteq Schedules /\ NoSchedule \notin Schedules
  /\ Offsets \subseteq -99..99
  /\ Zones \intersect -99..99 = {} /\ Nowhere \notin Zones \union -99..99
  /\ NoJob \notin Jobs
  /\ Forms \subseteq Rows /\ Absent \notin Rows
  /\ Snapshots \subseteq [Jobs -> Rows \union {Absent}]

VARIABLES
  row,        \* jobs: enabled, schedule and timezone of each row
  nextJob,    \* AUTOINCREMENT of jobs
  entry,      \* Scheduler.entries, with what cron runs for them
  cronOn,     \* whether cron runs
  fires,      \* jobs of which a fire has begun and not called Trigger yet
  inflight,   \* jobs with a run in flight (Engine.running and Engine.wg)
  hpc,        \* where each handler stands
  req,        \* its locals: kind of request, job, the row or rows it read
  phase,      \* where main stands
  late,       \* history: jobs that could still be triggered when cron stopped
  drift,      \* history: jobs a request left out of step with their entry
  events      \* count, for the bound

cronVars == <<entry, cronOn, fires>>
requests == <<hpc, req>>
history == <<late, drift>>
schedulerVars ==
  <<row, nextJob, cronVars, inflight, requests, phase, history, events>>

-----------------------------------------------------------------------------
(* Time zones.                                                             *)

\* An identifier of a zone: a name LoadLocation knows, or G for Etc/GMT+G, which
\* is G hours BEHIND Greenwich; tzdata has them from -14 to 12.
Identifiers == Zones \union -14..14
Known(id) == id \in Zones \union -14..12
Denoted(id) == IF id \in Zones THEN id ELSE -id

\* Mutant of CronTimezone: the sign is kept.
SignKept(zone) == IF zone \in Zones \union -14..14 THEN zone ELSE Nowhere

CronTimezone(zone) ==
  IF zone \in Zones THEN zone
  ELSE IF zone \in Offsets \intersect -14..14 THEN -zone
  ELSE Nowhere

-----------------------------------------------------------------------------
(* Specs of cron entries.                                                  *)

Spec(r) == [cron |-> r.schedule, zone |-> CronTimezone(r.zone)]

\* cron.ParseStandard.
Parses(spec) == spec.cron \notin Malformed /\ Known(spec.zone)
Specs == {s \in [cron: Schedules, zone: Identifiers] : Parses(s)}

\* What the jobs page shows: the runs of an enabled job with a schedule.
NextRun(r) ==
  IF /\ r # Absent
     /\ r.schedule # NoSchedule /\ r.enabled
     /\ CronTimezone(r.zone) # Nowhere
     /\ Parses(Spec(r))
  THEN Spec(r) ELSE NoEntry

RemoveLocked(e, j) == [e EXCEPT ![j] = NoEntry]

\* AddFunc refuses what it does not parse: the job stays manual.
AddFunc(e, j, spec) == IF Parses(spec) THEN [e EXCEPT ![j] = spec] ELSE e

RescheduleLocked(e, j, r) ==
  IF r.schedule = NoSchedule \/ ~r.enabled \/ CronTimezone(r.zone) = Nowhere
  THEN RemoveLocked(e, j)
  ELSE AddFunc(RemoveLocked(e, j), j, Spec(r))

NoEntries == [j \in Jobs |-> NoEntry]

\* Replace, and the loop over the jobs at start: entries for exactly these rows.
Scheduled(rs) ==
  [j \in Jobs |-> IF rs[j] = Absent THEN NoEntry
                  ELSE RescheduleLocked(NoEntries, j, rs[j])[j]]

\* parseJobForm, as far as the schedule goes.
FormValid(f) ==
  /\ CronTimezone(f.zone) # Nowhere
  /\ f.schedule # NoSchedule => Parses(Spec(f))

-----------------------------------------------------------------------------

NoRows == [j \in Jobs |-> Absent]
NoRequest == [kind |-> "none", job |-> NoJob, row |-> Absent, rows |-> NoRows]

Kinds == {"none", "create", "update", "toggle", "delete", "backup", "restore"}
Stages == {"idle", "store", "sync", "remove", "drop", "trigger", "list",
           "replace"}
Requests == [kind: Kinds, job: Jobs \union {NoJob}, row: Rows \union {Absent},
             rows: [Jobs -> Rows \union {Absent}]]
Phases == {"serving", "draining", "stopping", "waiting", "closing", "exited"}

SchedulerTypeOK ==
  /\ row \in [Jobs -> Rows \union {Absent}]
  /\ nextJob \in 1..MaxJobs + 1
  /\ entry \in [Jobs -> Specs \union {NoEntry}]
  /\ cronOn \in BOOLEAN /\ fires \subseteq Jobs /\ inflight \subseteq Jobs
  /\ hpc \in [Handlers -> Stages] /\ req \in [Handlers -> Requests]
  /\ phase \in Phases
  /\ late \subseteq Jobs /\ drift \subseteq Jobs
  /\ events \in 0..MaxEvents

SchedulerInit ==
  /\ row = NoRows /\ nextJob = 1
  /\ entry = NoEntries /\ cronOn = TRUE /\ fires = {} /\ inflight = {}
  /\ hpc = [h \in Handlers |-> "idle"] /\ req = [h \in Handlers |-> NoRequest]
  /\ phase = "serving"
  /\ late = {} /\ drift = {} /\ events = 0

Event == events < MaxEvents /\ events' = events + 1

Turn(h, from, to) == hpc[h] = from /\ hpc' = [hpc EXCEPT ![h] = to]

NoRestore == Overlap \/ \A h \in Handlers : req[h].kind # "restore"
Free(j) == NoRestore /\ (Overlap \/ \A h \in Handlers : req[h].job # j)
AllFree == Overlap \/ \A h \in Handlers : hpc[h] = "idle"

\* A request is served while the listener is open.
Ask(h, stage, kind, j, r) ==
  /\ phase = "serving"
  /\ Turn(h, "idle", stage)
  /\ req' = [req EXCEPT ![h] = [kind |-> kind, job |-> j, row |-> r,
                                rows |-> NoRows]]

Answer(h, from) ==
  /\ Turn(h, from, "idle")
  /\ req' = [req EXCEPT ![h] = NoRequest]

-----------------------------------------------------------------------------
(* Handlers of jobs.                                                       *)

AskCreate(h) ==
  /\ NoRestore
  /\ \E f \in Forms : FormValid(f) /\ Ask(h, "store", "create", NoJob, f)
  /\ UNCHANGED <<row, nextJob, cronVars, inflight, phase, history, events>>

\* jobUpdate does not look whether the job of the form still exists.
AskUpdate(h) ==
  /\ \E j \in 1..nextJob - 1, f \in Forms :
       Free(j) /\ FormValid(f) /\ Ask(h, "store", "update", j, f)
  /\ UNCHANGED <<row, nextJob, cronVars, inflight, phase, history, events>>

\* jobToggle: the whole row as it is now, but for the flag.
AskToggle(h) ==
  /\ \E j \in {k \in Jobs : row[k] # Absent} :
       /\ Free(j)
       /\ Ask(h, "store", "toggle", j, [row[j] EXCEPT !.enabled = ~@])
  /\ UNCHANGED <<row, nextJob, cronVars, inflight, phase, history, events>>

AskDelete(h) ==
  /\ \E j \in {k \in Jobs : row[k] # Absent} :
       Free(j) /\ Ask(h, "remove", "delete", j, row[j])
  /\ UNCHANGED <<row, nextJob, cronVars, inflight, phase, history, events>>

AskBackup(h) ==
  /\ \E j \in {k \in Jobs : row[k] # Absent} :
       Free(j) /\ Ask(h, "trigger", "backup", j, Absent)
  /\ UNCHANGED <<row, nextJob, cronVars, inflight, phase, history, events>>

CreateJob(h) ==
  /\ req[h].kind = "create"
  /\ nextJob <= MaxJobs
  /\ Turn(h, "store", "sync")
  /\ row' = [row EXCEPT ![nextJob] = req[h].row]
  /\ req' = [req EXCEPT ![h].job = nextJob]
  /\ nextJob' = nextJob + 1
  /\ UNCHANGED <<cronVars, inflight, phase, history, events>>

\* UpdateJob of a job that is gone changes no row and is no error, unless the
\* form names a destination: then the foreign key refuses the link.
UpdateJob(h) ==
  /\ req[h].kind = "update"
  /\ LET j == req[h].job
     IN \/ /\ Turn(h, "store", "sync")
           /\ row' = IF row[j] = Absent THEN row
                     ELSE [row EXCEPT ![j] = req[h].row]
           /\ drift' = IF row[j] = Absent THEN drift \union {j} ELSE drift
           /\ UNCHANGED req
        \/ /\ row[j] = Absent
           /\ Answer(h, "store")
           /\ UNCHANGED <<row, drift>>
  /\ UNCHANGED <<nextJob, cronVars, inflight, phase, late, events>>

\* SetJobEnabled touches no other field.
SetJobEnabled(h) ==
  /\ req[h].kind = "toggle"
  /\ Turn(h, "store", "sync")
  /\ LET j == req[h].job
     IN row' = IF row[j] = Absent THEN row
               ELSE [row EXCEPT ![j].enabled = req[h].row.enabled]
  /\ UNCHANGED <<nextJob, cronVars, inflight, req, phase, history, events>>

\* The statement fails, a taken name included: nothing is stored or scheduled.
StoreFails(h) ==
  /\ Event
  /\ Answer(h, "store")
  /\ UNCHANGED <<row, nextJob, cronVars, inflight, phase, history>>

\* Reschedule with the row the handler holds.
Reschedule(h) ==
  /\ Answer(h, "sync")
  /\ entry' = RescheduleLocked(entry, req[h].job, req[h].row)
  /\ drift' = IF row[req[h].job] = Absent THEN drift ELSE drift \ {req[h].job}
  /\ UNCHANGED <<row, nextJob, cronOn, fires, inflight, phase, late, events>>

\* jobDelete removes the entry first; the stored files follow (Deletions).
Remove(h) ==
  /\ Turn(h, "remove", "drop")
  /\ entry' = RemoveLocked(entry, req[h].job)
  /\ UNCHANGED <<row, nextJob, cronOn, fires, inflight, req, phase, history,
                 events>>

DeleteJob(h) ==
  /\ Answer(h, "drop")
  /\ row' = [row EXCEPT ![req[h].job] = Absent]
  /\ drift' = drift \ {req[h].job}
  /\ UNCHANGED <<nextJob, cronVars, inflight, phase, late, events>>

\* The row stays, enabled perhaps, and its entry is gone.
DeleteJobFails(h) ==
  /\ Event
  /\ drift' = drift \union {req[h].job}
  /\ Answer(h, "drop")
  /\ UNCHANGED <<row, nextJob, cronVars, inflight, phase, late>>

\* Engine.Trigger: one run per job; none of a job that is gone.
Triggered(j) ==
  inflight' = IF row[j] = Absent THEN inflight ELSE inflight \union {j}

TriggerManually(h) ==
  /\ Answer(h, "trigger")
  /\ Triggered(req[h].job)
  /\ UNCHANGED <<row, nextJob, cronVars, phase, history, events>>

-----------------------------------------------------------------------------
(* Restoring a configuration.                                              *)

\* settingsRestore: RestoreSnapshot replaces the rows in one transaction.
RestoreSnapshot(h) ==
  /\ AllFree
  /\ Event
  /\ Ask(h, "list", "restore", NoJob, Absent)
  /\ \E s \in Snapshots :
       /\ row' = s
       /\ nextJob' = CHOOSE n \in nextJob..MaxJobs + 1 :
                       /\ \A j \in Jobs : s[j] # Absent => j < n
                       /\ n = nextJob \/ s[n - 1] # Absent
  /\ UNCHANGED <<cronVars, inflight, phase, history>>

ListJobs(h) ==
  /\ Turn(h, "list", "replace")
  /\ req' = [req EXCEPT ![h].rows = row]
  /\ UNCHANGED <<row, nextJob, cronVars, inflight, phase, history, events>>

\* Logged, and the entries of before stay.
ListJobsFails(h) ==
  /\ Event
  /\ Answer(h, "list")
  /\ drift' = Jobs
  /\ UNCHANGED <<row, nextJob, cronVars, inflight, phase, late>>

\* Mutant of Replaced: the entries of jobs that are gone stay.
ReplacedListed(rs) ==
  [j \in Jobs |-> IF rs[j] = Absent THEN entry[j] ELSE Scheduled(rs)[j]]

\* Replace.
Replaced(rs) == Scheduled(rs)

Replace(h) ==
  /\ Answer(h, "replace")
  /\ entry' = Replaced(req[h].rows)
  /\ drift' = {}
  /\ UNCHANGED <<row, nextJob, cronOn, fires, inflight, phase, late, events>>

-----------------------------------------------------------------------------
(* Cron and the process.                                                   *)

\* The time of an entry comes; its function runs in a goroutine of its own.
Fire(j) ==
  /\ cronOn /\ phase # "exited"
  /\ entry[j] # NoEntry
  /\ Cardinality(fires) < MaxFires
  /\ j \notin fires /\ fires' = fires \union {j}
  /\ UNCHANGED <<row, nextJob, entry, cronOn, inflight, requests, phase,
                 history, events>>

TriggerByCron(j) ==
  /\ phase # "exited"
  /\ j \in fires /\ fires' = fires \ {j}
  /\ Triggered(j)
  /\ UNCHANGED <<row, nextJob, entry, cronOn, requests, phase, history, events>>

\* RunBackup returns, on whatever path (BackupEngine shows that it does).
RunEnds(j) ==
  /\ phase # "exited"
  /\ j \in inflight /\ inflight' = inflight \ {j}
  /\ UNCHANGED <<row, nextJob, cronVars, requests, phase, history, events>>

\* Main is told to stop: http.Server.Shutdown closes the listener ...
Shutdown ==
  /\ phase = "serving" /\ phase' = "draining"
  /\ UNCHANGED <<row, nextJob, cronVars, inflight, requests, history, events>>

\* ... and waits for the requests, but for no more than ten seconds.
Drained ==
  /\ phase = "draining" /\ phase' = "stopping"
  /\ UNCHANGED <<row, nextJob, cronVars, inflight, requests, history, events>>

\* Mutant of CronStopped: cron goes on.
CronGoesOn == UNCHANGED cronOn

\* Scheduler.Stop: no new fires; those that have begun go on.
CronStopped == cronOn' = FALSE

StopCron ==
  /\ phase = "stopping" /\ phase' = "waiting"
  /\ CronStopped
  /\ late' = fires \union {req[h].job : h \in {g \in Handlers :
                                                 hpc[g] = "trigger"}}
  /\ UNCHANGED <<row, nextJob, entry, fires, inflight, requests, drift, events>>

\* Mutant of WaitGroupZero: main does not wait.
NoWaiting == TRUE

\* Engine.Wait returns.
WaitGroupZero == inflight = {}

WaitReturns ==
  /\ phase = "waiting" /\ phase' = "closing"
  /\ WaitGroupZero
  /\ UNCHANGED <<row, nextJob, cronVars, inflight, requests, history, events>>

\* The process is gone, with every goroutine that is left.
Exit ==
  /\ phase = "closing" /\ phase' = "exited"
  /\ UNCHANGED <<row, nextJob, cronVars, inflight, requests, history, events>>

\* A crash, or main once more after an exit: entries for the rows there are.
Start ==
  /\ Event
  /\ entry' = Scheduled(row)
  /\ cronOn' = TRUE /\ fires' = {} /\ inflight' = {}
  /\ hpc' = [h \in Handlers |-> "idle"] /\ req' = [h \in Handlers |-> NoRequest]
  /\ phase' = "serving" /\ late' = {} /\ drift' = {}
  /\ UNCHANGED <<row, nextJob>>

Asks(h) ==
  \/ AskCreate(h) \/ AskUpdate(h) \/ AskToggle(h) \/ AskDelete(h)
  \/ AskBackup(h) \/ RestoreSnapshot(h)

HandlerStep(h) ==
  /\ phase # "exited"
  /\ \/ CreateJob(h) \/ UpdateJob(h) \/ SetJobEnabled(h) \/ StoreFails(h)
     \/ Reschedule(h) \/ Remove(h) \/ DeleteJob(h) \/ DeleteJobFails(h)
     \/ TriggerManually(h) \/ ListJobs(h) \/ ListJobsFails(h) \/ Replace(h)

MainStep == Drained \/ StopCron \/ WaitReturns \/ Exit

SchedulerNext ==
  \/ \E h \in Handlers : Asks(h) \/ HandlerStep(h)
  \/ \E j \in Jobs : Fire(j) \/ TriggerByCron(j) \/ RunEnds(j)
  \/ Shutdown \/ MainStep \/ Start

SchedulerSpec == SchedulerInit /\ [][SchedulerNext]_schedulerVars

\* Main goes on, begun fires reach Trigger, and runs end; nothing is said of the
\* handlers, for which main does not wait for ever.
SchedulerFairness ==
  /\ WF_schedulerVars(MainStep)
  /\ \A j \in Jobs : /\ WF_schedulerVars(TriggerByCron(j))
                     /\ WF_schedulerVars(RunEnds(j))

FairSchedulerSpec == SchedulerSpec /\ SchedulerFairness

-----------------------------------------------------------------------------
(* Properties.                                                             *)

\* A request is between its two steps on the row and the entry of the job.
Between(h, j) ==
  \/ hpc[h] \in {"list", "replace"}
  \/ hpc[h] \in {"sync", "drop"} /\ req[h].job = j

Settled(j) == \A h \in Handlers : ~Between(h, j)

\* Cron runs what the rows say and the jobs page shows (NextRun): an entry with
\* the schedule of the row for each enabled job that has one, and no other;
\* after toggles, edits, deletions, restored configurations and crashes, as
\* long as the requests on a job come one after another.  The exceptions
\* (drift) are a deletion or a list that failed half-way and the edit of a job
\* that is gone.
EntriesFollowRows ==
  \A j \in Jobs \ drift : Settled(j) => entry[j] = NextRun(row[j])

\* What a handler holds at its stage; a job it holds has had a row.
RequestsFormed ==
  /\ \A j \in Jobs : row[j] # Absent => j < nextJob
  /\ \A h \in Handlers :
       /\ hpc[h] = "idle" => req[h] = NoRequest
       /\ hpc[h] \in {"list", "replace"} <=> req[h].kind = "restore"
       /\ req[h].job \in Jobs => req[h].job < nextJob
       /\ hpc[h] = "store" =>
            /\ req[h].kind \in {"create", "update", "toggle"}
            /\ req[h].kind = "create" <=> req[h].job = NoJob
       /\ hpc[h] \in {"sync", "remove", "drop", "trigger"} =>
            req[h].job \in Jobs
       /\ hpc[h] \in {"store", "sync"} => req[h].row \in Rows

\* Requests on a job come one after another, and a restore alone.
OneAtATime ==
  \A g, h \in Handlers : g # h =>
    /\ req[g].job # NoJob => req[g].job # req[h].job
    /\ hpc[g] \in {"list", "replace"} => hpc[h] = "idle"

\* What the row and the entry are to each other at each stage of a handler.
HandlersInStep ==
  \A h \in Handlers :
    LET j == req[h].job IN
    /\ hpc[h] = "store" /\ req[h].kind = "toggle" =>
         row[j] # Absent /\ req[h].row = [row[j] EXCEPT !.enabled = ~@]
    /\ hpc[h] = "sync" =>
         row[j] = req[h].row \/ (row[j] = Absent /\ j \in drift)
    /\ hpc[h] = "drop" => entry[j] = NoEntry
    /\ hpc[h] = "replace" => req[h].rows = row

\* The strengthening that is inductive, with the types: no entry has a schedule
\* that cron does not parse, and cron runs what the rows say.
SchedulerInv ==
  /\ SchedulerTypeOK /\ RequestsFormed
  /\ OneAtATime /\ HandlersInStep /\ EntriesFollowRows

\* A schedule fires at the hour of the job's own time zone, though Etc/GMT
\* counts its offsets the other way ("Etc/GMT-3 is UTC+03:00").
OffsetKept ==
  \A j \in Jobs \ drift :
    Settled(j) /\ entry[j] # NoEntry => Denoted(entry[j].zone) = row[j].zone

\* The shutdown cuts no pg_dump ("killing pg_dump mid-write risks a corrupt
\* dump"): what is in flight when the process exits was triggered by a fire or a
\* request that had begun when cron stopped, and by nothing else.
ExitCutsNoRun == phase = "exited" => inflight \subseteq late

\* The shutdown ends: no new fire keeps Engine.Wait waiting.
ShutdownEnds == phase = "draining" ~> phase \in {"exited", "serving"}
=============================================================================

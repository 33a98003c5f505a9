--------------------------- MODULE SchedulerProofs ---------------------------
(***************************************************************************)
(* Proofs about Scheduler, for every set of schedules, time zones, forms,  *)
(* restored configurations and handlers and for every bound: cron runs     *)
(* what the rows of jobs say, in the time zone they say, and a shutdown    *)
(* cuts no run that was triggered after cron stopped.                      *)
(***************************************************************************)
EXTENDS Scheduler, TLAPS, NaturalsInduction, WellFoundedInduction

-----------------------------------------------------------------------------
(* Entries.                                                                *)

Entries == Specs \union {NoEntry}
RowOrNone == Rows \union {Absent}

\* CronTimezone gives an identifier or finds nothing.
LEMMA ZoneFound ==
  ASSUME NEW zone \in Timezones, CronTimezone(zone) # Nowhere
  PROVE  /\ CronTimezone(zone) \in Identifiers
         /\ Denoted(CronTimezone(zone)) = zone
<1>. USE SchedulerAssumption DEF CronTimezone, Identifiers, Denoted
<1>1. CASE zone \in Zones
  BY <1>1
<1>2. CASE zone \notin Zones
  <2>1. zone \in -14..14 /\ CronTimezone(zone) = -zone
    BY <1>2
  <2>2. -zone \in -14..14 /\ -(-zone) = zone
    BY <2>1
  <2>3. -zone \notin Zones
    <3>1. -zone \in -99..99
      BY <2>2
    <3>. QED BY <3>1
  <2>. QED BY <2>1, <2>2, <2>3
<1>. QED BY <1>1, <1>2

\* What the jobs page shows of a row is an entry or none.
LEMMA NextRunType ==
  /\ NextRun(Absent) = NoEntry
  /\ \A r \in Rows : NextRun(r) \in Entries
<1>1. ASSUME NEW r \in Rows, NextRun(r) # NoEntry PROVE NextRun(r) \in Specs
  <2>1. /\ NextRun(r) = Spec(r) /\ Parses(Spec(r)) /\ r.schedule \in Schedules
        /\ CronTimezone(r.zone) # Nowhere /\ r.zone \in Timezones
    BY <1>1 DEF NextRun, Rows
  <2>2. CronTimezone(r.zone) \in Identifiers
    BY <2>1, ZoneFound
  <2>. QED BY <2>1, <2>2 DEF Spec, Specs
<1>. QED BY <1>1 DEF NextRun, Entries

\* Reschedule makes the entry that the jobs page shows, whatever there was.
LEMMA Rescheduled ==
  ASSUME NEW e \in [Jobs -> Entries], NEW j \in Jobs, NEW r \in Rows
  PROVE  RescheduleLocked(e, j, r) = [e EXCEPT ![j] = NextRun(r)]
<1>1. r # Absent
  BY SchedulerAssumption
<1>2. [[e EXCEPT ![j] = NoEntry] EXCEPT ![j] = Spec(r)]
        = [e EXCEPT ![j] = Spec(r)]
  OBVIOUS
<1>. QED
  BY <1>1, <1>2 DEF RescheduleLocked, RemoveLocked, AddFunc, NextRun

\* Replace, and a start, make the entries that the jobs page shows.
LEMMA ScheduledRows ==
  ASSUME NEW rs \in [Jobs -> RowOrNone]
  PROVE  /\ Scheduled(rs) = [j \in Jobs |-> NextRun(rs[j])]
         /\ Scheduled(rs) \in [Jobs -> Entries]
<1>1. NoEntries \in [Jobs -> Entries]
  BY DEF NoEntries, Entries
<1>2. ASSUME NEW j \in Jobs
      PROVE  /\ Scheduled(rs)[j] = NextRun(rs[j])
             /\ NextRun(rs[j]) \in Entries
  <2>1. CASE rs[j] = Absent
    BY <2>1, NextRunType DEF Scheduled, Entries
  <2>2. CASE rs[j] # Absent
    <3>1. rs[j] \in Rows
      BY <2>2 DEF RowOrNone
    <3>2. RescheduleLocked(NoEntries, j, rs[j])[j] = NextRun(rs[j])
      BY <1>1, <3>1, Rescheduled
    <3>. QED BY <2>2, <3>1, <3>2, NextRunType DEF Scheduled
  <2>. QED BY <2>1, <2>2
<1>. QED BY <1>2 DEF Scheduled

\* There is a next id beyond the jobs of a restored configuration.
LEMMA NextId ==
  ASSUME NEW s \in [Jobs -> RowOrNone], NEW next \in 1..MaxJobs + 1
  PROVE  \E n \in next..MaxJobs + 1 :
           /\ \A j \in Jobs : s[j] # Absent => j < n
           /\ n = next \/ s[n - 1] # Absent
<1>. DEFINE Beyond == {n \in next..MaxJobs + 1 :
                         \A j \in Jobs : s[j] # Absent => j < n}
            Less == OpToRel(<, Nat)
<1>1. MaxJobs \in Nat
  BY SchedulerAssumption
<1>2. Beyond \subseteq Nat /\ MaxJobs + 1 \in Beyond
  BY <1>1 DEF Jobs
<1>3. PICK n \in Beyond : \A m \in Beyond : <<m, n>> \notin Less
  <2>. HIDE DEF Beyond
  <2>. QED BY <1>2, WFMin, NatLessThanWellFounded
<1>4. ASSUME n # next PROVE s[n - 1] # Absent
  <2>1. n - 1 \in next..MaxJobs + 1 /\ n - 1 \in Nat /\ n \in Nat
    BY <1>1, <1>4
  <2>2. <<n - 1, n>> \in Less
    BY <2>1 DEF OpToRel
  <2>3. n - 1 \notin Beyond
    BY <1>3, <2>2
  <2>4. PICK j \in Jobs : s[j] # Absent /\ ~(j < n - 1)
    BY <2>1, <2>3
  <2>5. j = n - 1
    <3>1. j < n /\ j \in Int
      BY <2>4, <1>1 DEF Jobs
    <3>. QED BY <2>1, <2>4, <3>1
  <2>. QED BY <2>4, <2>5
<1>. QED BY <1>4

-----------------------------------------------------------------------------
(* Types, and what handlers hold, however requests overlap.                *)

FormedInv == SchedulerTypeOK /\ RequestsFormed

\* What the model says of the constants.
LEMMA Constants ==
  /\ MaxJobs \in Nat /\ MaxFires \in Nat /\ MaxEvents \in Nat
  /\ NoJob \notin Jobs /\ Absent \notin Rows /\ Forms \subseteq Rows
  /\ Snapshots \subseteq [Jobs -> RowOrNone]
BY SchedulerAssumption DEF RowOrNone

\* A handler that answers holds nothing any more.
LEMMA NoRequestFormed ==
  NoRequest \in Requests /\ NoRows \in [Jobs -> RowOrNone]
BY DEF NoRequest, NoRows, Requests, Kinds, RowOrNone

\* Nothing is asked and nothing is scheduled at first.
LEMMA FormedInit == SchedulerInit => FormedInv
<1>. SUFFICES ASSUME SchedulerInit PROVE FormedInv
  OBVIOUS
<1>2. NoEntries \in [Jobs -> Entries]
  BY DEF NoEntries, Entries
<1>. QED
  BY Constants, <1>2, NoRequestFormed
  DEF SchedulerInit, FormedInv, SchedulerTypeOK, RequestsFormed, Entries,
      Stages, Phases, NoRows, NoRequest, RowOrNone

\* RequestsFormed, for one handler after a step.
FormedAt(h) ==
  /\ hpc'[h] \in Stages /\ req'[h] \in Requests
  /\ hpc'[h] = "idle" => req'[h] = NoRequest
  /\ hpc'[h] \in {"list", "replace"} <=> req'[h].kind = "restore"
  /\ req'[h].job \in Jobs => req'[h].job < nextJob'
  /\ hpc'[h] = "store" =>
       /\ req'[h].kind \in {"create", "update", "toggle"}
       /\ req'[h].kind = "create" <=> req'[h].job = NoJob
  /\ hpc'[h] \in {"sync", "remove", "drop", "trigger"} => req'[h].job \in Jobs
  /\ hpc'[h] \in {"store", "sync"} => req'[h].row \in Rows

\* A step of one handler keeps what all hold when the handler ends up with a
\* request that is well formed at its new stage.
LEMMA RequestsKept ==
  ASSUME FormedInv, NEW h \in Handlers,
         \E stage, held : /\ hpc' = [hpc EXCEPT ![h] = stage]
                          /\ req' = [req EXCEPT ![h] = held],
         FormedAt(h), nextJob <= nextJob', nextJob' \in 1..MaxJobs + 1,
         \A j \in Jobs : row'[j] # Absent => j < nextJob'
  PROVE  /\ hpc' \in [Handlers -> Stages] /\ req' \in [Handlers -> Requests]
         /\ RequestsFormed'
<1>0. /\ hpc \in [Handlers -> Stages] /\ req \in [Handlers -> Requests]
      /\ nextJob \in Int /\ nextJob' \in Int /\ Jobs \subseteq Int
  BY Constants DEF FormedInv, SchedulerTypeOK, Jobs
<1>1. /\ hpc' \in [Handlers -> Stages] /\ req' \in [Handlers -> Requests]
      /\ \A g \in Handlers \ {h} : hpc'[g] = hpc[g] /\ req'[g] = req[g]
  BY <1>0 DEF FormedAt
<1>2. ASSUME NEW g \in Handlers \ {h}, req[g].job \in Jobs
      PROVE  req[g].job < nextJob'
  <2>1. req[g].job < nextJob
    BY <1>2 DEF FormedInv, RequestsFormed
  <2>2. req[g].job \in Int
    BY <1>0, <1>2
  <2>3. \A i, m, n \in Int : i < m /\ m <= n => i < n
    OBVIOUS
  <2>. QED BY <1>0, <2>1, <2>2, <2>3
<1>. QED
  BY <1>1, <1>2 DEF FormedInv, RequestsFormed, FormedAt

\* The requests that only ask leave the rows as they are.
LEMMA AsksFormed ==
  ASSUME FormedInv, NEW h \in Handlers,
         \/ AskCreate(h) \/ AskUpdate(h) \/ AskToggle(h)
         \/ AskDelete(h) \/ AskBackup(h)
  PROVE  FormedInv'
<1>. USE DEF Ask, Turn
<1>0. /\ hpc \in [Handlers -> Stages] /\ req \in [Handlers -> Requests]
      /\ row \in [Jobs -> RowOrNone] /\ nextJob \in 1..MaxJobs + 1
      /\ \A j \in Jobs : row[j] # Absent => j < nextJob /\ row[j] \in Rows
      /\ NoRows \in [Jobs -> RowOrNone]
  BY NoRequestFormed DEF FormedInv, SchedulerTypeOK, RequestsFormed, RowOrNone
<1>1. PICK stage \in Stages, kind \in Kinds, j \in Jobs \union {NoJob},
           r \in RowOrNone :
        /\ Ask(h, stage, kind, j, r)
        /\ <<stage, kind>> \in {<<"store", "create">>, <<"store", "update">>,
             <<"store", "toggle">>, <<"remove", "delete">>,
             <<"trigger", "backup">>}
        /\ j = NoJob <=> kind = "create"
        /\ j \in Jobs => j < nextJob
        /\ stage = "store" => r \in Rows
  <2>1. CASE AskCreate(h)
    BY <2>1, Constants DEF AskCreate, Stages, Kinds, RowOrNone
  <2>2. CASE AskUpdate(h)
    <3>1. PICK j \in 1..nextJob - 1, f \in Forms :
            Ask(h, "store", "update", j, f)
      BY <2>2 DEF AskUpdate
    <3>2. j \in Jobs /\ j < nextJob /\ f \in Rows /\ j # NoJob
      BY <1>0, Constants DEF Jobs
    <3>. QED BY <3>1, <3>2 DEF Stages, Kinds, RowOrNone
  <2>3. CASE AskToggle(h)
    <3>1. PICK j \in Jobs :
            /\ row[j] # Absent
            /\ Ask(h, "store", "toggle", j, [row[j] EXCEPT !.enabled = ~@])
      BY <2>3 DEF AskToggle
    <3>2. [row[j] EXCEPT !.enabled = ~@] \in Rows /\ j < nextJob /\ j # NoJob
      BY <1>0, <3>1, Constants DEF Rows
    <3>. QED BY <3>1, <3>2 DEF Stages, Kinds, RowOrNone
  <2>4. CASE AskDelete(h)
    BY <1>0, <2>4, Constants DEF AskDelete, Stages, Kinds, RowOrNone
  <2>5. CASE AskBackup(h)
    BY <1>0, <2>5, Constants DEF AskBackup, Stages, Kinds, RowOrNone
  <2>. QED BY <2>1, <2>2, <2>3, <2>4, <2>5
<1>2. UNCHANGED <<row, nextJob, cronVars, inflight, phase, history, events>>
  BY DEF AskCreate, AskUpdate, AskToggle, AskDelete, AskBackup
<1>3. FormedAt(h)
  <2>1. req'[h] = [kind |-> kind, job |-> j, row |-> r, rows |-> NoRows]
        /\ hpc'[h] = stage
    BY <1>0, <1>1
  <2>2. req'[h] \in Requests
    BY <1>0, <2>1 DEF Requests, RowOrNone
  <2>. QED BY <1>1, <1>2, <2>1, <2>2 DEF FormedAt
<1>4. /\ hpc' \in [Handlers -> Stages] /\ req' \in [Handlers -> Requests]
      /\ RequestsFormed'
  <2>1. nextJob <= nextJob
    BY <1>0, Constants
  <2>. QED BY <1>0, <1>1, <1>2, <1>3, <2>1, RequestsKept
<1>. QED
  BY <1>2, <1>4 DEF FormedInv, SchedulerTypeOK, cronVars, history

\* The steps of a request that is under way.
LEMMA StepsFormed ==
  ASSUME FormedInv, NEW h \in Handlers, HandlerStep(h)
  PROVE  FormedInv'
<1>. USE DEF Turn
<1>0. /\ hpc \in [Handlers -> Stages] /\ req \in [Handlers -> Requests]
      /\ row \in [Jobs -> RowOrNone] /\ nextJob \in 1..MaxJobs + 1
      /\ entry \in [Jobs -> Entries] /\ drift \subseteq Jobs
      /\ req[h] \in Requests /\ NoRequest \in Requests
      /\ \A j \in Jobs : row[j] # Absent => j < nextJob /\ row[j] \in Rows
      /\ \A n \in Int : n <= n /\ n <= n + 1
  BY NoRequestFormed
  DEF FormedInv, SchedulerTypeOK, RequestsFormed, RowOrNone, Entries
<1>1. hpc[h] \in {"sync", "remove", "drop", "trigger"} => req[h].job \in Jobs
  BY DEF FormedInv, RequestsFormed
<1>2. ASSUME NEW from, Answer(h, from)
      PROVE  FormedAt(h)
  BY <1>0, <1>2, Constants DEF Answer, FormedAt, NoRequest, Stages
<1>3. CASE CreateJob(h)
  <2>1. nextJob \in Jobs /\ nextJob' = nextJob + 1 /\ nextJob < nextJob'
    BY <1>0, <1>3, Constants DEF CreateJob, Jobs
  <2>2. req[h].row \in Rows
    BY <1>3 DEF CreateJob, FormedInv, RequestsFormed
  <2>3. FormedAt(h)
    BY <1>0, <1>3, <2>1, <2>2, Constants
    DEF CreateJob, FormedAt, Requests, Stages, FormedInv, RequestsFormed
  <2>4. row' = [row EXCEPT ![nextJob] = req[h].row]
    BY <1>3 DEF CreateJob
  <2>5. \A j \in Jobs : row'[j] # Absent => j < nextJob'
    BY <1>0, <2>1, <2>4, Constants DEF Jobs
  <2>6. nextJob <= nextJob' /\ nextJob' \in 1..MaxJobs + 1
    BY <1>0, <2>1, Constants DEF Jobs
  <2>7. \E stage, held : /\ hpc' = [hpc EXCEPT ![h] = stage]
                         /\ req' = [req EXCEPT ![h] = held]
    BY <1>3 DEF CreateJob
  <2>8. RequestsFormed' /\ hpc' \in [Handlers -> Stages]
        /\ req' \in [Handlers -> Requests]
    BY <2>3, <2>5, <2>6, <2>7, RequestsKept
  <2>9. row' \in [Jobs -> RowOrNone]
    BY <1>0, <2>1, <2>2, <2>4 DEF RowOrNone
  <2>. QED
    BY <1>3, <2>6, <2>8, <2>9
    DEF CreateJob, FormedInv, SchedulerTypeOK, RowOrNone, cronVars, history
<1>4. CASE \/ UpdateJob(h) \/ SetJobEnabled(h) \/ DeleteJob(h)
  <2>. DEFINE job == req[h].job
  <2>1. job \in Jobs /\ (hpc[h] = "store" => req[h].row \in Rows)
    BY <1>0, <1>1, <1>4, Constants
    DEF UpdateJob, SetJobEnabled, DeleteJob, Answer, FormedInv, RequestsFormed,
        Requests
  <2>2. ASSUME Turn(h, "store", "sync"), req' = req, nextJob' = nextJob
        PROVE  FormedAt(h)
    <3>1. hpc'[h] = "sync" /\ req'[h] = req[h] /\ req[h].job < nextJob
      BY <1>0, <2>1, <2>2 DEF FormedInv, RequestsFormed
    <3>2. req[h].kind # "restore" /\ req[h].row \in Rows
      BY <2>1, <2>2 DEF FormedInv, RequestsFormed
    <3>. QED BY <1>0, <2>1, <2>2, <3>1, <3>2 DEF FormedAt, Stages
  <2>3. FormedAt(h)
    <3>1. CASE UpdateJob(h)
      BY <1>2, <2>2, <3>1 DEF UpdateJob
    <3>2. CASE SetJobEnabled(h)
      BY <2>2, <3>2 DEF SetJobEnabled
    <3>3. CASE DeleteJob(h)
      BY <1>2, <3>3 DEF DeleteJob
    <3>. QED BY <1>4, <3>1, <3>2, <3>3
  <2>4. /\ \/ row' = row
           \/ row' = [row EXCEPT ![job] = req[h].row] /\ row[job] # Absent
                /\ hpc[h] = "store"
           \/ row' = [row EXCEPT ![job].enabled = req[h].row.enabled]
                /\ row[job] # Absent /\ hpc[h] = "store"
           \/ row' = [row EXCEPT ![job] = Absent]
        /\ UNCHANGED nextJob
        /\ drift' \in {drift, drift \union {job}, drift \ {job}}
    BY <1>4 DEF UpdateJob, SetJobEnabled, DeleteJob, history
  <2>5. /\ row' \in [Jobs -> RowOrNone]
        /\ \A k \in Jobs : row'[k] # Absent => row[k] # Absent
        /\ drift' \subseteq Jobs
    <3>1. CASE row' = [row EXCEPT ![job].enabled = req[h].row.enabled]
                 /\ row[job] # Absent /\ hpc[h] = "store"
      <4>1. [row[job] EXCEPT !.enabled = req[h].row.enabled] \in Rows
        BY <1>0, <2>1, <3>1 DEF Rows
      <4>. QED BY <1>0, <2>1, <2>4, <3>1, <4>1 DEF RowOrNone
    <3>. QED BY <1>0, <2>1, <2>4, <3>1 DEF RowOrNone
  <2>6. RequestsFormed' /\ hpc' \in [Handlers -> Stages]
        /\ req' \in [Handlers -> Requests]
    <3>1. \E stage, held : /\ hpc' = [hpc EXCEPT ![h] = stage]
                           /\ req' = [req EXCEPT ![h] = held]
      BY <1>0, <1>4 DEF UpdateJob, SetJobEnabled, DeleteJob, Answer
    <3>2. nextJob <= nextJob' /\ nextJob' \in 1..MaxJobs + 1
      BY <1>0, <2>4, Constants
    <3>. QED BY <1>0, <2>3, <2>4, <2>5, <3>1, <3>2, RequestsKept
  <2>. QED
    BY <1>4, <2>4, <2>5, <2>6
    DEF UpdateJob, SetJobEnabled, DeleteJob, FormedInv, SchedulerTypeOK,
        RowOrNone, cronVars, history
<1>5. CASE \/ StoreFails(h) \/ Reschedule(h) \/ Remove(h) \/ DeleteJobFails(h)
           \/ TriggerManually(h) \/ ListJobs(h) \/ ListJobsFails(h)
           \/ Replace(h)
  <2>1. FormedAt(h)
    BY <1>0, <1>1, <1>2, <1>5
    DEF StoreFails, Reschedule, Remove, DeleteJobFails, TriggerManually,
        ListJobs, ListJobsFails, Replace, FormedAt, Requests, RowOrNone, Stages,
        FormedInv, RequestsFormed
  <2>2. UNCHANGED <<row, nextJob, cronOn, fires, phase, late>>
    BY <1>5
    DEF StoreFails, Reschedule, Remove, DeleteJobFails, TriggerManually,
        ListJobs, ListJobsFails, Replace, cronVars, history
  <2>3. RequestsFormed' /\ hpc' \in [Handlers -> Stages]
        /\ req' \in [Handlers -> Requests]
    BY <1>0, <1>5, <2>1, <2>2, RequestsKept
    DEF StoreFails, Reschedule, Remove, DeleteJobFails, TriggerManually,
        ListJobs, ListJobsFails, Replace, Answer
  <2>4. entry' \in [Jobs -> Entries]
    <3>1. CASE Reschedule(h)
      <4>1. req[h].row \in Rows /\ req[h].job \in Jobs
        BY <3>1 DEF Reschedule, Answer, FormedInv, RequestsFormed
      <4>. QED BY <1>0, <3>1, <4>1, Rescheduled, NextRunType DEF Reschedule
    <3>2. CASE Remove(h)
      BY <1>0, <3>2 DEF Remove, RemoveLocked, Entries
    <3>3. CASE Replace(h)
      <4>1. req[h].rows \in [Jobs -> RowOrNone]
        BY <1>0 DEF Requests, RowOrNone
      <4>. QED BY <3>3, <4>1, ScheduledRows DEF Replace, Replaced
    <3>. QED
      BY <1>0, <1>5, <3>1, <3>2, <3>3
      DEF StoreFails, DeleteJobFails, TriggerManually, ListJobs,
          ListJobsFails, cronVars
  <2>5. /\ drift' \subseteq Jobs /\ inflight' \subseteq Jobs
        /\ events' \in 0..MaxEvents
    BY <1>0, <1>1, <1>5, Constants
    DEF StoreFails, Reschedule, Remove, DeleteJobFails, TriggerManually,
        Triggered, ListJobs, ListJobsFails, Replace, Answer, Event, history,
        FormedInv, SchedulerTypeOK
  <2>. QED
    BY <2>2, <2>3, <2>4, <2>5 DEF FormedInv, SchedulerTypeOK, Entries
<1>. QED BY <1>3, <1>4, <1>5 DEF HandlerStep

\* The steps of cron, of the runs and of main touch no row and no request.
LEMMA ProcessSteps ==
  ASSUME \/ \E j \in Jobs : Fire(j) \/ TriggerByCron(j) \/ RunEnds(j)
         \/ Shutdown \/ MainStep
  PROVE  UNCHANGED <<row, nextJob, entry, requests, drift, events>>
BY DEF Fire, TriggerByCron, RunEnds, Shutdown, MainStep, Drained, StopCron,
       WaitReturns, Exit, cronVars, history

\* They keep the types; what was late to stop is a set of jobs.
LEMMA ProcessFormed ==
  ASSUME FormedInv,
         \/ \E j \in Jobs : Fire(j) \/ TriggerByCron(j) \/ RunEnds(j)
         \/ Shutdown \/ MainStep
  PROVE  FormedInv'
<1>1. UNCHANGED <<row, nextJob, entry, requests, drift, events>>
  BY ProcessSteps
<1>2. RequestsFormed'
  BY <1>1 DEF FormedInv, RequestsFormed, requests
<1>3. /\ cronOn' \in BOOLEAN /\ fires' \subseteq Jobs
      /\ inflight' \subseteq Jobs /\ phase' \in Phases
  BY DEF Fire, TriggerByCron, Triggered, RunEnds, Shutdown, MainStep, Drained,
         StopCron, CronStopped, WaitReturns, Exit, FormedInv, SchedulerTypeOK,
         Phases, cronVars
<1>4. late' \subseteq Jobs
  <2>1. CASE StopCron
    BY <2>1 DEF StopCron, FormedInv, SchedulerTypeOK, RequestsFormed
  <2>. QED
    BY <2>1 DEF Fire, TriggerByCron, RunEnds, Shutdown, MainStep, Drained,
                WaitReturns, Exit, FormedInv, SchedulerTypeOK, history
<1>. QED
  BY <1>1, <1>2, <1>3, <1>4 DEF FormedInv, SchedulerTypeOK, requests

\* A restored configuration has ids below the next one.
LEMMA RestoreFormed ==
  ASSUME FormedInv, NEW h \in Handlers, RestoreSnapshot(h)
  PROVE  FormedInv'
<1>0. /\ hpc \in [Handlers -> Stages] /\ req \in [Handlers -> Requests]
      /\ nextJob \in 1..MaxJobs + 1 /\ NoRows \in [Jobs -> RowOrNone]
  BY NoRequestFormed DEF FormedInv, SchedulerTypeOK
<1>1. /\ row' \in [Jobs -> RowOrNone]
      /\ nextJob' \in nextJob..MaxJobs + 1
      /\ \A j \in Jobs : row'[j] # Absent => j < nextJob'
  <2>1. PICK s \in Snapshots :
          /\ row' = s
          /\ nextJob' = CHOOSE n \in nextJob..MaxJobs + 1 :
                          /\ \A j \in Jobs : s[j] # Absent => j < n
                          /\ n = nextJob \/ s[n - 1] # Absent
    BY DEF RestoreSnapshot
  <2>2. s \in [Jobs -> RowOrNone]
    BY Constants
  <2>. QED BY <1>0, <2>1, <2>2, NextId
<1>2. FormedAt(h)
  BY <1>0, Constants
  DEF RestoreSnapshot, Ask, Turn, FormedAt, Stages, Requests, Kinds, RowOrNone
<1>3. RequestsFormed' /\ hpc' \in [Handlers -> Stages]
      /\ req' \in [Handlers -> Requests]
  <2>1. nextJob <= nextJob' /\ nextJob' \in 1..MaxJobs + 1
    BY <1>0, <1>1, Constants
  <2>. QED BY <1>1, <1>2, <2>1, RequestsKept DEF RestoreSnapshot, Ask, Turn
<1>4. nextJob' \in 1..MaxJobs + 1 /\ events' \in 0..MaxEvents
  BY <1>0, <1>1, Constants
  DEF RestoreSnapshot, Event, FormedInv, SchedulerTypeOK
<1>. QED
  BY <1>1, <1>3, <1>4
  DEF RestoreSnapshot, FormedInv, SchedulerTypeOK, RowOrNone, cronVars, history

\* A start makes well-formed entries of the rows.
LEMMA StartFormed ==
  ASSUME FormedInv, Start PROVE FormedInv'
<1>1. row \in [Jobs -> RowOrNone]
  BY DEF FormedInv, SchedulerTypeOK, RowOrNone
<1>2. entry' \in [Jobs -> Entries]
  BY <1>1, ScheduledRows DEF Start
<1>3. RequestsFormed'
  BY Constants DEF Start, NoRequest, FormedInv, RequestsFormed
<1>4. events' \in 0..MaxEvents
  BY Constants DEF Start, Event, FormedInv, SchedulerTypeOK
<1>. QED
  BY <1>2, <1>3, <1>4, NoRequestFormed
  DEF Start, FormedInv, SchedulerTypeOK, Entries, Stages, Phases

\* Every variable keeps its type, and no entry has a schedule that cron does not
\* parse, even when requests on one job overlap.
THEOREM SchedulerTypes == SchedulerSpec => []FormedInv
<1>1. FormedInv /\ [SchedulerNext]_schedulerVars => FormedInv'
  <2>. SUFFICES ASSUME FormedInv, [SchedulerNext]_schedulerVars
                PROVE  FormedInv'
    OBVIOUS
  <2>1. CASE UNCHANGED schedulerVars
    BY <2>1
    DEF schedulerVars, cronVars, requests, history, FormedInv, SchedulerTypeOK,
        RequestsFormed
  <2>. QED
    BY <2>1, AsksFormed, StepsFormed, ProcessFormed, RestoreFormed, StartFormed
    DEF SchedulerNext, Asks
<1>. QED BY <1>1, FormedInit, PTL DEF SchedulerSpec

-----------------------------------------------------------------------------
(* Entries and rows, while requests on a job come one after another.       *)

StepInv == OneAtATime /\ HandlersInStep /\ EntriesFollowRows

\* HandlersInStep, for one handler.
HandlerInStep(h) ==
  LET j == req[h].job IN
  /\ hpc[h] = "store" /\ req[h].kind = "toggle" =>
       row[j] # Absent /\ req[h].row = [row[j] EXCEPT !.enabled = ~@]
  /\ hpc[h] = "sync" =>
       row[j] = req[h].row \/ (row[j] = Absent /\ j \in drift)
  /\ hpc[h] = "drop" => entry[j] = NoEntry
  /\ hpc[h] = "replace" => req[h].rows = row

\* HandlersInStep is HandlerInStep of each.
LEMMA EachInStep == HandlersInStep <=> \A h \in Handlers : HandlerInStep(h)
BY DEF HandlersInStep, HandlerInStep

\* No rows and no entries: they agree.
LEMMA StepInit == SchedulerInit => StepInv
BY NextRunType
DEF SchedulerInit, StepInv, OneAtATime, HandlersInStep, EntriesFollowRows,
    NoRequest, NoRows, NoEntries

\* Before a handler's first step on a job, row and entry of the job agree.
LEMMA UntouchedYet ==
  ASSUME FormedInv, StepInv, NEW h \in Handlers, req[h].job \in Jobs \ drift,
         hpc[h] \in {"store", "remove", "trigger"}
  PROVE  entry[req[h].job] = NextRun(row[req[h].job])
<1>1. ASSUME NEW g \in Handlers PROVE ~Between(g, req[h].job)
  <2>1. CASE g = h
    BY <2>1 DEF Between
  <2>2. CASE g # h
    BY <2>2, Constants DEF Between, StepInv, OneAtATime
  <2>. QED BY <2>1, <2>2
<1>. QED BY <1>1 DEF StepInv, EntriesFollowRows, Settled

\* A handler that touches the row and the entry of one job j, which no other
\* handler holds, keeps everything in step if it leaves j in step.
LEMMA LocalStep ==
  ASSUME FormedInv, StepInv, NEW h \in Handlers, NEW j \in Jobs \union {NoJob},
         hpc[h] \notin {"idle", "list", "replace"},
         hpc'[h] \notin {"list", "replace"},
         req[h].job \in {j, NoJob}, req'[h].job \in {j, NoJob},
         \E stage, held : /\ hpc' = [hpc EXCEPT ![h] = stage]
                          /\ req' = [req EXCEPT ![h] = held],
         j \in Jobs => \A g \in Handlers \ {h} : req[g].job # j,
         \A k \in Jobs \ {j} : /\ row'[k] = row[k] /\ entry'[k] = entry[k]
                               /\ k \in drift' <=> k \in drift,
         HandlerInStep(h)',
         j \in Jobs \ drift' /\ ~Between(h, j)' => entry'[j] = NextRun(row'[j])
  PROVE  StepInv'
<1>0. /\ hpc \in [Handlers -> Stages] /\ req \in [Handlers -> Requests]
      /\ \A g \in Handlers : req[g].job \in Jobs \union {NoJob}
  BY DEF FormedInv, SchedulerTypeOK, Requests
<1>1. \A g \in Handlers \ {h} :
        /\ hpc'[g] = hpc[g] /\ req'[g] = req[g]
        /\ hpc[g] \notin {"list", "replace"}
        /\ j \in Jobs => req[g].job # j
  BY <1>0 DEF StepInv, OneAtATime
<1>2. OneAtATime'
  <2>1. ASSUME NEW f \in Handlers, NEW g \in Handlers, f # g
        PROVE  /\ req'[f].job # NoJob => req'[f].job # req'[g].job
               /\ hpc'[f] \in {"list", "replace"} => hpc'[g] = "idle"
    <3>1. CASE f = h
      BY <1>1, <2>1, <3>1, Constants
    <3>2. CASE g = h
      BY <1>1, <2>1, <3>2, Constants
    <3>3. CASE f # h /\ g # h
      BY <1>1, <2>1, <3>3 DEF StepInv, OneAtATime
    <3>. QED BY <3>1, <3>2, <3>3
  <2>. QED BY <2>1 DEF OneAtATime
<1>3. HandlersInStep'
  <2>1. ASSUME NEW g \in Handlers \ {h} PROVE HandlerInStep(g)'
    <3>1. HandlerInStep(g)
      BY EachInStep DEF StepInv
    <3>2. CASE req[g].job \in Jobs
      <4>1. req[g].job \in Jobs \ {j}
        BY <1>1, <3>2, Constants
      <4>. QED BY <1>1, <3>1, <4>1 DEF HandlerInStep
    <3>3. CASE req[g].job \notin Jobs
      <4>1. hpc[g] \notin {"sync", "drop", "replace"}
        BY <1>1, <3>3 DEF FormedInv, RequestsFormed
      <4>2. ~(hpc[g] = "store" /\ req[g].kind = "toggle")
        BY <1>0, <3>3 DEF FormedInv, RequestsFormed
      <4>. QED BY <1>1, <4>1, <4>2 DEF HandlerInStep
    <3>. QED BY <3>2, <3>3
  <2>. QED BY <2>1 DEF HandlersInStep, HandlerInStep
<1>4. EntriesFollowRows'
  <2>1. ASSUME NEW k \in Jobs \ drift', Settled(k)'
        PROVE  entry'[k] = NextRun(row'[k])
    <3>1. CASE k = j
      BY <2>1, <3>1 DEF Settled
    <3>2. CASE k # j
      <4>1. k \notin drift /\ row'[k] = row[k] /\ entry'[k] = entry[k]
        BY <2>1, <3>2
      <4>2. \A g \in Handlers : ~Between(g, k)
        <5>1. ~Between(h, k)
          BY <2>1, <3>2, Constants DEF Between
        <5>2. ASSUME NEW g \in Handlers \ {h} PROVE ~Between(g, k)
          BY <1>1, <2>1, <5>2 DEF Settled, Between
        <5>. QED BY <5>1, <5>2
      <4>. QED BY <2>1, <4>1, <4>2 DEF StepInv, EntriesFollowRows, Settled
    <3>. QED BY <3>1, <3>2
  <2>. QED BY <2>1 DEF EntriesFollowRows
<1>. QED BY <1>2, <1>3, <1>4 DEF StepInv

\* The steps of the requests on one job.
LEMMA JobSteps ==
  ASSUME FormedInv, StepInv, NEW h \in Handlers,
         \/ CreateJob(h) \/ UpdateJob(h) \/ SetJobEnabled(h) \/ StoreFails(h)
         \/ Reschedule(h) \/ Remove(h) \/ DeleteJob(h) \/ DeleteJobFails(h)
         \/ TriggerManually(h)
  PROVE  StepInv'
<1>. DEFINE j == req[h].job
<1>. USE DEF Turn
<1>0. /\ hpc \in [Handlers -> Stages] /\ req \in [Handlers -> Requests]
      /\ row \in [Jobs -> RowOrNone] /\ entry \in [Jobs -> Entries]
      /\ j \in Jobs \union {NoJob} /\ nextJob \in 1..MaxJobs + 1
      /\ \A k \in Jobs : row[k] # Absent => row[k] \in Rows
  BY DEF FormedInv, SchedulerTypeOK, Requests, Entries, RowOrNone
<1>1. HandlerInStep(h)
  BY EachInStep DEF StepInv
<1>2. j \in Jobs => \A g \in Handlers \ {h} : req[g].job # j
  BY Constants DEF StepInv, OneAtATime
<1>3. /\ hpc[h] \in {"sync", "remove", "drop", "trigger"} => j \in Jobs
      /\ hpc[h] = "store" /\ req[h].kind \in {"update", "toggle"} => j \in Jobs
      /\ hpc[h] \in {"store", "sync"} => req[h].row \in Rows
  BY <1>0 DEF FormedInv, RequestsFormed
<1>4. ASSUME NEW from, Answer(h, from)
      PROVE  /\ hpc' = [hpc EXCEPT ![h] = "idle"] /\ hpc'[h] = "idle"
             /\ req' = [req EXCEPT ![h] = NoRequest] /\ req'[h].job = NoJob
             /\ hpc[h] = from /\ HandlerInStep(h)'
  BY <1>0, <1>4 DEF Answer, NoRequest, HandlerInStep
<1>5. CASE CreateJob(h)
  <2>1. PICK k \in Jobs : k = nextJob
    BY <1>0, <1>5, Constants DEF CreateJob, Jobs
  <2>2. \A g \in Handlers \ {h} : req[g].job # k
    <3>1. ~(nextJob < nextJob)
      BY <1>0, Constants
    <3>. QED BY <2>1, <3>1 DEF FormedInv, RequestsFormed
  <2>3. /\ hpc'[h] = "sync" /\ req'[h].job = k /\ hpc[h] = "store"
        /\ req'[h].row = req[h].row /\ j = NoJob
        /\ row'[k] = req'[h].row
    BY <1>0, <1>5, <2>1 DEF CreateJob, FormedInv, RequestsFormed, Requests
  <2>4. HandlerInStep(h)' /\ Between(h, k)'
    BY <2>3 DEF HandlerInStep, Between
  <2>5. \A i \in Jobs \ {k} :
          /\ row'[i] = row[i] /\ entry'[i] = entry[i]
          /\ i \in drift' <=> i \in drift
    BY <1>0, <1>5, <2>1 DEF CreateJob, cronVars, history
  <2>6. \E stage, held : /\ hpc' = [hpc EXCEPT ![h] = stage]
                         /\ req' = [req EXCEPT ![h] = held]
    BY <1>5 DEF CreateJob
  <2>. QED BY <2>1, <2>2, <2>3, <2>4, <2>5, <2>6, LocalStep
<1>6. CASE (UpdateJob(h) /\ hpc'[h] = "sync") \/ SetJobEnabled(h)
  <2>1. /\ hpc[h] = "store" /\ hpc' = [hpc EXCEPT ![h] = "sync"] /\ req' = req
        /\ hpc'[h] = "sync" /\ j \in Jobs /\ req[h].row \in Rows
    BY <1>0, <1>3, <1>6 DEF UpdateJob, SetJobEnabled, Answer
  <2>2. row'[j] = req[h].row \/ (row'[j] = Absent /\ j \in drift')
    <3>1. CASE UpdateJob(h)
      BY <1>0, <2>1, <3>1 DEF UpdateJob, Answer
    <3>2. CASE SetJobEnabled(h)
      <4>1. row[j] \in Rows /\ req[h].row = [row[j] EXCEPT !.enabled = ~@]
        BY <1>0, <1>1, <2>1, <3>2 DEF SetJobEnabled, HandlerInStep
      <4>2. [row[j] EXCEPT !.enabled = req[h].row.enabled] = req[h].row
        BY <4>1 DEF Rows
      <4>3. row' = [row EXCEPT ![j].enabled = req[h].row.enabled]
        BY <2>1, <4>1, <3>2, Constants DEF SetJobEnabled
      <4>. QED BY <1>0, <2>1, <4>2, <4>3
    <3>. QED BY <1>6, <3>1, <3>2
  <2>3. HandlerInStep(h)'
    BY <2>1, <2>2 DEF HandlerInStep
  <2>4. \A k \in Jobs \ {j} :
          /\ row'[k] = row[k] /\ entry'[k] = entry[k]
          /\ k \in drift' <=> k \in drift
    BY <1>0, <1>6 DEF UpdateJob, SetJobEnabled, Answer, cronVars, history
  <2>5. \E stage, held : /\ hpc' = [hpc EXCEPT ![h] = stage]
                         /\ req' = [req EXCEPT ![h] = held]
    <3>1. req' = [req EXCEPT ![h] = req[h]]
      BY <1>0, <2>1
    <3>. QED BY <2>1, <3>1
  <2>. QED BY <1>0, <1>2, <2>1, <2>3, <2>4, <2>5, LocalStep DEF Between
<1>7. CASE Remove(h)
  <2>1. /\ hpc[h] = "remove" /\ hpc' = [hpc EXCEPT ![h] = "drop"] /\ req' = req
        /\ hpc'[h] = "drop" /\ j \in Jobs
        /\ entry' = [entry EXCEPT ![j] = NoEntry]
    BY <1>0, <1>3, <1>7 DEF Remove, RemoveLocked
  <2>2. HandlerInStep(h)'
    BY <1>0, <2>1 DEF HandlerInStep
  <2>3. \A k \in Jobs \ {j} :
          /\ row'[k] = row[k] /\ entry'[k] = entry[k]
          /\ k \in drift' <=> k \in drift
    BY <1>0, <1>7, <2>1 DEF Remove, history
  <2>4. req' = [req EXCEPT ![h] = req[h]]
    BY <1>0, <2>1
  <2>. QED BY <1>2, <2>1, <2>2, <2>3, <2>4, LocalStep DEF Between
<1>8. CASE \/ UpdateJob(h) /\ hpc'[h] # "sync"
           \/ StoreFails(h) \/ Reschedule(h) \/ DeleteJob(h)
           \/ DeleteJobFails(h) \/ TriggerManually(h)
  <2>1. PICK from \in {"store", "sync", "drop", "trigger"} : Answer(h, from)
    BY <1>0, <1>8
    DEF UpdateJob, StoreFails, Reschedule, DeleteJob, DeleteJobFails,
        TriggerManually
  <2>2. \A k \in Jobs \ {j} :
          /\ row'[k] = row[k] /\ entry'[k] = entry[k]
          /\ k \in drift' <=> k \in drift
    <3>1. ASSUME j \in Jobs, req[h].row \in Rows, NEW k \in Jobs \ {j}
          PROVE  RescheduleLocked(entry, j, req[h].row)[k] = entry[k]
      BY <1>0, <3>1, Rescheduled
    <3>. QED
      BY <1>0, <1>3, <1>4, <1>8, <3>1
      DEF UpdateJob, StoreFails, Reschedule, DeleteJob, DeleteJobFails,
          TriggerManually, cronVars, history
  <2>3. ASSUME j \in Jobs \ drift' PROVE entry'[j] = NextRun(row'[j])
    <3>1. CASE /\ UNCHANGED <<row, entry, drift>>
               /\ hpc[h] \in {"store", "trigger"}
      BY <2>3, <3>1, UntouchedYet
    <3>2. CASE Reschedule(h)
      <4>1. hpc[h] = "sync" /\ req[h].row \in Rows /\ row' = row
        BY <1>3, <1>4, <3>2 DEF Reschedule
      <4>2. entry'[j] = NextRun(req[h].row)
        BY <1>0, <2>3, <3>2, <4>1, Rescheduled DEF Reschedule
      <4>3. row[j] = req[h].row
        BY <1>1, <2>3, <3>2, <4>1, Constants DEF Reschedule, HandlerInStep
      <4>. QED BY <4>1, <4>2, <4>3
    <3>3. CASE DeleteJob(h)
      <4>1. entry[j] = NoEntry /\ row'[j] = Absent /\ entry' = entry
        BY <1>0, <1>1, <1>4, <2>3, <3>3
        DEF DeleteJob, HandlerInStep, cronVars
      <4>. QED BY <4>1, NextRunType
    <3>4. CASE DeleteJobFails(h)
      BY <2>3, <3>4 DEF DeleteJobFails
    <3>. QED
      BY <1>0, <1>4, <1>8, <3>1, <3>2, <3>3, <3>4
      DEF UpdateJob, StoreFails, TriggerManually, cronVars, history
  <2>. QED BY <1>0, <1>2, <1>4, <2>1, <2>2, <2>3, LocalStep
<1>. QED BY <1>5, <1>6, <1>7, <1>8

\* The steps of a restored configuration: no other request is at work.
LEMMA RestoreSteps ==
  ASSUME FormedInv, StepInv, NEW h \in Handlers,
         \/ ~Overlap /\ RestoreSnapshot(h)
         \/ ListJobs(h) \/ ListJobsFails(h) \/ Replace(h)
  PROVE  StepInv'
<1>0. /\ hpc \in [Handlers -> Stages] /\ req \in [Handlers -> Requests]
      /\ row \in [Jobs -> RowOrNone]
      /\ \A g \in Handlers \ {h} :
           /\ hpc[g] = "idle" /\ req[g] = NoRequest
           /\ hpc'[g] = "idle" /\ req'[g] = NoRequest
  BY DEF FormedInv, SchedulerTypeOK, RequestsFormed, RowOrNone, StepInv,
         OneAtATime, RestoreSnapshot, AllFree, ListJobs, ListJobsFails, Replace,
         Ask, Answer, Turn
<1>1. OneAtATime'
  BY <1>0, Constants DEF OneAtATime, NoRequest
<1>2. HandlerInStep(h)' /\ (hpc'[h] = "idle" \/ hpc'[h] \in {"list", "replace"})
  <2>1. CASE ListJobs(h)
    <3>1. req'[h].rows = row
      BY <1>0, <2>1 DEF ListJobs, Requests
    <3>. QED BY <1>0, <2>1, <3>1 DEF HandlerInStep, ListJobs, Turn
  <2>. QED
    BY <1>0, <2>1
    DEF HandlerInStep, RestoreSnapshot, ListJobsFails, Replace, Ask, Answer,
        Turn
<1>3. HandlersInStep'
  <2>1. \A g \in Handlers \ {h} : HandlerInStep(g)'
    BY <1>0 DEF HandlerInStep
  <2>. QED BY <1>2, <2>1 DEF HandlersInStep, HandlerInStep
<1>4. EntriesFollowRows'
  <2>1. CASE hpc'[h] \in {"list", "replace"}
    BY <2>1 DEF EntriesFollowRows, Settled, Between
  <2>2. CASE ListJobsFails(h)
    BY <2>2 DEF ListJobsFails, EntriesFollowRows
  <2>3. CASE Replace(h)
    <3>1. req[h].rows = row /\ row' = row
      BY <2>3 DEF Replace, Answer, Turn, StepInv, HandlersInStep
    <3>2. entry' = [j \in Jobs |-> NextRun(row[j])]
      BY <1>0, <2>3, <3>1, ScheduledRows DEF Replace, Replaced
    <3>. QED BY <3>1, <3>2 DEF EntriesFollowRows
  <2>. QED
    BY <1>0, <2>1, <2>2, <2>3 DEF RestoreSnapshot, ListJobs, Ask, Turn
<1>. QED BY <1>1, <1>3, <1>4 DEF StepInv

\* A request that asks finds its job free and touches nothing.
LEMMA AskSteps ==
  ASSUME FormedInv, StepInv, ~Overlap, NEW h \in Handlers,
         \/ AskCreate(h) \/ AskUpdate(h) \/ AskToggle(h)
         \/ AskDelete(h) \/ AskBackup(h)
  PROVE  StepInv'
<1>. USE DEF Ask, Turn
<1>0. /\ hpc \in [Handlers -> Stages] /\ req \in [Handlers -> Requests]
      /\ UNCHANGED <<row, entry, drift>>
      /\ hpc[h] = "idle" /\ hpc'[h] \in {"store", "remove", "trigger"}
      /\ \A g \in Handlers \ {h} :
           /\ hpc'[g] = hpc[g] /\ req'[g] = req[g]
           /\ req[g].kind # "restore"
  BY DEF AskCreate, AskUpdate, AskToggle, AskDelete, AskBackup, Free, NoRestore,
         cronVars, history, FormedInv, SchedulerTypeOK
<1>1. \A g \in Handlers \ {h} : hpc[g] \notin {"list", "replace"}
  BY <1>0 DEF FormedInv, RequestsFormed
<1>2. \/ req'[h].job = NoJob
      \/ \A g \in Handlers : req[g].job # req'[h].job
  BY <1>0
  DEF AskCreate, AskUpdate, AskToggle, AskDelete, AskBackup, Free, Requests
<1>3. OneAtATime'
  <2>1. ASSUME NEW f \in Handlers, NEW g \in Handlers, f # g
        PROVE  /\ req'[f].job # NoJob => req'[f].job # req'[g].job
               /\ hpc'[f] \in {"list", "replace"} => hpc'[g] = "idle"
    <3>1. CASE f = h
      BY <1>0, <1>2, <2>1, <3>1
    <3>2. CASE g = h
      BY <1>0, <1>1, <1>2, <2>1, <3>2
    <3>3. CASE f # h /\ g # h
      BY <1>0, <2>1, <3>3 DEF StepInv, OneAtATime
    <3>. QED BY <3>1, <3>2, <3>3
  <2>. QED BY <2>1 DEF OneAtATime
<1>4. HandlersInStep'
  <2>1. HandlerInStep(h)'
    <3>1. CASE AskToggle(h)
      <4>1. PICK j \in Jobs :
              /\ row[j] # Absent
              /\ Ask(h, "store", "toggle", j, [row[j] EXCEPT !.enabled = ~@])
        BY <3>1 DEF AskToggle
      <4>2. /\ req'[h].job = j /\ req'[h].row = [row[j] EXCEPT !.enabled = ~@]
            /\ hpc'[h] = "store"
        BY <1>0, <4>1
      <4>. QED BY <1>0, <4>1, <4>2 DEF HandlerInStep
    <3>2. CASE ~AskToggle(h)
      <4>1. hpc'[h] = "store" => req'[h].kind # "toggle"
        BY <1>0, <3>2 DEF AskCreate, AskUpdate, AskDelete, AskBackup
      <4>. QED BY <1>0, <4>1 DEF HandlerInStep
    <3>. QED BY <3>1, <3>2
  <2>2. ASSUME NEW g \in Handlers \ {h} PROVE HandlerInStep(g)'
    <3>1. HandlerInStep(g)
      BY EachInStep DEF StepInv
    <3>. QED BY <1>0, <3>1 DEF HandlerInStep
  <2>. QED BY <2>1, <2>2 DEF HandlersInStep, HandlerInStep
<1>5. EntriesFollowRows'
  <2>1. \A g \in Handlers, j \in Jobs :
          (hpc'[g] = hpc[g] /\ req'[g] = req[g])
          \/ (hpc[g] = "idle" /\ hpc'[g] \in {"store", "remove", "trigger"})
    BY <1>0
  <2>. QED
    BY <1>0, <2>1 DEF StepInv, EntriesFollowRows, Settled, Between
<1>. QED BY <1>3, <1>4, <1>5 DEF StepInv

\* While requests on a job come one after another, each job whose requests have
\* ended is scheduled just as its row says, through edits, toggles, deletions,
\* restored configurations, crashes and restarts.
THEOREM CronFollowsRows ==
  ASSUME ~Overlap PROVE SchedulerSpec => []SchedulerInv
<1>1. StepInv /\ FormedInv /\ [SchedulerNext]_schedulerVars => StepInv'
  <2>. SUFFICES ASSUME StepInv, FormedInv, [SchedulerNext]_schedulerVars
                PROVE  StepInv'
    OBVIOUS
  <2>1. CASE UNCHANGED <<row, entry, requests, drift>>
    BY <2>1
    DEF StepInv, OneAtATime, HandlersInStep, EntriesFollowRows, Settled,
        Between, requests
  <2>2. CASE Start
    <3>1. /\ row \in [Jobs -> RowOrNone] /\ row' = row
          /\ entry' = Scheduled(row)
          /\ \A h \in Handlers : hpc'[h] = "idle" /\ req'[h] = NoRequest
      BY <2>2 DEF Start, FormedInv, SchedulerTypeOK, RowOrNone
    <3>2. entry' = [j \in Jobs |-> NextRun(row[j])]
      BY <3>1, ScheduledRows
    <3>. QED
      BY <3>1, <3>2
      DEF StepInv, OneAtATime, HandlersInStep, EntriesFollowRows, NoRequest
  <2>3. CASE UNCHANGED schedulerVars
    BY <2>1, <2>3 DEF schedulerVars, cronVars, history
  <2>. QED
    BY <2>1, <2>2, <2>3, AskSteps, JobSteps, RestoreSteps, ProcessSteps
    DEF SchedulerNext, Asks, HandlerStep
<1>2. FormedInv /\ StepInv => SchedulerInv
  BY DEF FormedInv, StepInv, SchedulerInv
<1>. QED BY <1>1, <1>2, StepInit, SchedulerTypes, PTL DEF SchedulerSpec

\* While requests on a job come one after another, each entry fires at the hour
\* of the job's own time zone, whichever way Etc/GMT counts.
THEOREM FiresInZone ==
  ASSUME ~Overlap PROVE SchedulerSpec => []OffsetKept
<1>1. SchedulerInv => OffsetKept
  <2>. SUFFICES ASSUME SchedulerInv, NEW j \in Jobs \ drift, Settled(j),
                       entry[j] # NoEntry
                PROVE  Denoted(entry[j].zone) = row[j].zone
    BY DEF OffsetKept
  <2>1. entry[j] = NextRun(row[j]) /\ row[j] \in RowOrNone
    BY DEF SchedulerInv, EntriesFollowRows, SchedulerTypeOK, RowOrNone
  <2>2. /\ row[j] \in Rows /\ CronTimezone(row[j].zone) # Nowhere
        /\ entry[j].zone = CronTimezone(row[j].zone)
    BY <2>1 DEF NextRun, Spec, RowOrNone
  <2>3. row[j].zone \in Timezones
    BY <2>2 DEF Rows
  <2>. QED BY <2>2, <2>3, ZoneFound
<1>. QED BY <1>1, CronFollowsRows, PTL

-----------------------------------------------------------------------------
(* The shutdown.                                                           *)

\* Once cron has stopped, whatever can still trigger a run had begun before.
NothingNew ==
  /\ phase \in {"waiting", "closing", "exited"} =>
       /\ ~cronOn /\ fires \subseteq late
       /\ \A h \in Handlers : hpc[h] = "trigger" => req[h].job \in late
  /\ phase \in {"closing", "exited"} => inflight \subseteq late

\* What is in flight when the process exits was triggered by a fire or a request
\* that had begun when cron stopped, even when requests overlap.
THEOREM ShutdownCutsNoRun == SchedulerSpec => []ExitCutsNoRun
<1>1. SchedulerInit => NothingNew
  BY DEF SchedulerInit, NothingNew
<1>2. FormedInv /\ NothingNew /\ [SchedulerNext]_schedulerVars => NothingNew'
  <2>. SUFFICES ASSUME FormedInv, NothingNew, [SchedulerNext]_schedulerVars
                PROVE  NothingNew'
    OBVIOUS
  <2>. USE DEF NothingNew
  <2>1. ASSUME NEW h \in Handlers, Asks(h) PROVE NothingNew'
    BY <2>1
    DEF Asks, AskCreate, AskUpdate, AskToggle, AskDelete, AskBackup,
        RestoreSnapshot, Ask
  <2>2. ASSUME NEW h \in Handlers, HandlerStep(h) PROVE NothingNew'
    <3>1. /\ UNCHANGED <<phase, cronOn, fires, late>>
          /\ \A g \in Handlers : hpc'[g] = "trigger" =>
               hpc[g] = "trigger" /\ req'[g] = req[g]
      BY <2>2
      DEF HandlerStep, CreateJob, UpdateJob, SetJobEnabled, StoreFails,
          Reschedule, Remove, DeleteJob, DeleteJobFails, TriggerManually,
          ListJobs, ListJobsFails, Replace, Answer, Turn, cronVars, history,
          FormedInv, SchedulerTypeOK
    <3>2. CASE TriggerManually(h)
      BY <3>1, <3>2 DEF TriggerManually, Triggered, Answer, Turn
    <3>3. CASE ~TriggerManually(h)
      <4>1. UNCHANGED inflight
        BY <2>2, <3>3
        DEF HandlerStep, CreateJob, UpdateJob, SetJobEnabled, StoreFails,
            Reschedule, Remove, DeleteJob, DeleteJobFails, ListJobs,
            ListJobsFails, Replace
      <4>. QED BY <3>1, <4>1
    <3>. QED BY <3>2, <3>3
  <2>3. ASSUME NEW j \in Jobs, Fire(j) \/ TriggerByCron(j) \/ RunEnds(j)
        PROVE  NothingNew'
    BY <2>3
    DEF Fire, TriggerByCron, Triggered, RunEnds, cronVars, requests, history
  <2>4. CASE Shutdown \/ MainStep
    BY <2>4
    DEF Shutdown, MainStep, Drained, StopCron, CronStopped, WaitReturns,
        WaitGroupZero, Exit, cronVars, requests, history
  <2>5. CASE Start
    BY <2>5 DEF Start
  <2>6. CASE UNCHANGED schedulerVars
    BY <2>6 DEF schedulerVars, cronVars, requests, history
  <2>. QED BY <2>1, <2>2, <2>3, <2>4, <2>5, <2>6 DEF SchedulerNext
<1>3. NothingNew => ExitCutsNoRun
  BY DEF NothingNew, ExitCutsNoRun
<1>. QED BY <1>1, <1>2, <1>3, SchedulerTypes, PTL DEF SchedulerSpec
=============================================================================

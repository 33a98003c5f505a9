------------------------------ MODULE Monitor -------------------------------
(***************************************************************************)
(* The availability monitor (internal/monitor) with the handlers that use  *)
(* it: the loop is one goroutine that probes the databases one by one;     *)
(* handlers ping a database by hand, change the interval, delete databases *)
(* and restore a configuration, all at the same time.                      *)
(***************************************************************************)
EXTENDS Naturals, FiniteSets

CONSTANTS
  Databases,    \* rows of databases there may be
  Steady,       \* those that always answer
  Intervals,    \* intervals users choose; 0 disables the loop
  Default,      \* DefaultInterval
  Unset,        \* no row of settings for the interval
  NoDatabase,   \* no database at hand
  Snapshots,    \* configurations that may be restored
  Retries,      \* pingRetryCount
  Handlers,     \* requests served at once
  MaxSetters,   \* requests that change the interval at once
  MaxEvents     \* bound: outages, failed statements, restores and restarts

ASSUME MonitorAssumption ==
  /\ Steady \subseteq Databases
  /\ Intervals \subseteq Nat /\ Default \in Intervals
  /\ Unset \notin Nat /\ NoDatabase \notin Databases
  /\ \A s \in Snapshots :
       /\ s.dbs \subseteq Databases /\ s.down \subseteq s.dbs \ Steady
       /\ s.setting \in Intervals \union {Unset}
  /\ {Retries, MaxSetters, MaxEvents} \subseteq Nat

VARIABLES
  dbs,        \* databases: those with a row
  pingState,  \* ping_state.ok of each database
  open,       \* its rows of ping_incidents without ended_at
  ended,      \* its other rows of ping_incidents
  setting,    \* the row ping_interval_seconds of settings
  interval,   \* Monitor.interval
  kick,       \* whether Monitor.kick holds an element
  stopped,    \* Monitor.stop is closed and the context cancelled
  unread,     \* history: the last reading of the setting failed, and none was
              \* read or stored since
  lpc,        \* where the loop stands
  probe,      \* its locals: databases still to probe, the one at hand, failed
              \* attempts, the outcome
  timer,      \* interval the loop's timer was made with, until it fires
  hpc,        \* where each handler stands
  req,        \* its locals: interval to apply, database to ping, outcome
  up,         \* external: databases that answer
  events      \* count, for the bound

tables == <<dbs, pingState, open, ended>>
memory == <<interval, kick, stopped, unread>>
loop == <<lpc, probe, timer>>
requests == <<hpc, req>>
world == <<up, events>>
monitorVars == <<tables, setting, memory, loop, requests, world>>

Values == Intervals \union {Unset}
LoopStages == {"top", "next", "probing", "check", "arming", "armed", "waiting",
               "done"}
HandlerStages == {"idle", "set", "reload", "apply", "kick", "ping", "check"}

Probes == [queue: SUBSET Databases, db: Databases \union {NoDatabase},
           tries: 0..Retries, ok: BOOLEAN]
Requests == [iv: Intervals, ok: BOOLEAN, db: Databases \union {NoDatabase}]

MonitorTypeOK ==
  /\ dbs \subseteq Databases /\ up \subseteq Databases
  /\ pingState \in [Databases -> {"none", "up", "down"}]
  /\ open \in [Databases -> Nat] /\ ended \in [Databases -> Nat]
  /\ setting \in Values /\ interval \in Intervals /\ timer \in Nat
  /\ kick \in BOOLEAN /\ stopped \in BOOLEAN /\ unread \in BOOLEAN
  /\ lpc \in LoopStages
  /\ probe \in Probes
  /\ hpc \in [Handlers -> HandlerStages]
  /\ req \in [Handlers -> Requests]
  /\ events \in 0..MaxEvents

Probing(queue, d) == [queue |-> queue, db |-> d, tries |-> 0, ok |-> FALSE]
NoProbe == Probing({}, NoDatabase)
NoRequest == [iv |-> Default, ok |-> FALSE, db |-> NoDatabase]

\* New and ReloadInterval: an absent setting means the default ...
Effective(value) == IF value = Unset THEN Default ELSE value

\* ... and so does one that New fails to read, whatever is stored.
Loaded(failed) == IF failed THEN Default ELSE Effective(setting)

MonitorInit ==
  /\ dbs = Databases /\ up = Databases
  /\ pingState = [d \in Databases |-> "none"]
  /\ open = [d \in Databases |-> 0] /\ ended = [d \in Databases |-> 0]
  /\ setting \in Values /\ unread \in BOOLEAN
  /\ interval = Loaded(unread) /\ timer = 0
  /\ kick = FALSE /\ stopped = FALSE
  /\ lpc = "top" /\ probe = NoProbe
  /\ hpc = [h \in Handlers |-> "idle"] /\ req = [h \in Handlers |-> NoRequest]
  /\ events = 0

Event == events < MaxEvents /\ events' = events + 1
MayFailOnce == Event /\ UNCHANGED up

-----------------------------------------------------------------------------
(* RecordPingState: one transaction.                                       *)

\* Mutants of Opened and Closed: a failure always inserts an incident; a
\* success leaves it open.
OpenedAgain(d) == [open EXCEPT ![d] = @ + 1]
LeftOpen(d) == UNCHANGED <<open, ended>>

\* A failure inserts an incident when no row is open to take its error.
Opened(d) == [open EXCEPT ![d] = IF @ = 0 THEN 1 ELSE @]

\* A success ends every row that is open.
Closed(d) ==
  /\ ended' = [ended EXCEPT ![d] = @ + open[d]]
  /\ open' = [open EXCEPT ![d] = 0]

\* The foreign keys refuse the result of a database that has been deleted.
RecordPingState(d, ok) ==
  /\ UNCHANGED dbs
  /\ IF d \notin dbs THEN UNCHANGED <<pingState, open, ended>>
     ELSE /\ pingState' = [pingState EXCEPT ![d] = IF ok THEN "up" ELSE "down"]
          /\ IF ok THEN Closed(d) ELSE open' = Opened(d) /\ UNCHANGED ended

-----------------------------------------------------------------------------
(* The loop.                                                               *)

Goto(from, to) == lpc = from /\ lpc' = to

\* Mutant of Listed: databases that are known to be down are not probed again.
ListedWithoutIncident == {d \in dbs : open[d] = 0}

\* ListDatabases.
Listed == dbs

\* The start of a pass; a disabled monitor makes none.
BeginPass ==
  /\ Goto("top", "next")
  /\ interval > 0
  /\ probe' = Probing(Listed, NoDatabase)
  /\ UNCHANGED <<tables, setting, memory, timer, requests, world>>

\* Without a list the pass is skipped.
NoPass ==
  /\ Goto("top", "arming")
  /\ \/ interval = 0 /\ UNCHANGED world
     \/ interval > 0 /\ MayFailOnce
  /\ UNCHANGED <<tables, setting, memory, probe, timer, requests>>

NextDatabase ==
  /\ Goto("next", "probing")
  /\ ~stopped
  /\ \E d \in probe.queue :
       probe' = Probing(probe.queue \ {d}, d)
  /\ UNCHANGED <<tables, setting, memory, timer, requests, world>>

PassEnds ==
  /\ Goto("next", "arming")
  /\ probe.queue = {} \/ stopped
  /\ probe' = NoProbe
  /\ UNCHANGED <<tables, setting, memory, timer, requests, world>>

Answers ==
  /\ Goto("probing", "check")
  /\ probe.db \in up
  /\ probe' = [probe EXCEPT !.ok = TRUE]
  /\ UNCHANGED <<tables, setting, memory, timer, requests, world>>

\* Mutant of RetryLeft: one retry too many.
RetryLeftOffByOne == probe.tries <= Retries

RetryLeft == probe.tries < Retries

\* psql fails and a retry is left: pingWithRetries waits and pings again.
Misses ==
  /\ Goto("probing", "probing")
  /\ probe.db \notin up /\ ~stopped
  /\ RetryLeft
  /\ probe' = [probe EXCEPT !.tries = @ + 1]
  /\ UNCHANGED <<tables, setting, memory, timer, requests, world>>

\* The last attempt fails, or the cancelled context kills psql or the wait.
GivesUp ==
  /\ Goto("probing", "check")
  /\ \/ probe.db \notin up /\ ~RetryLeft
     \/ stopped
  /\ probe' = [probe EXCEPT !.ok = FALSE]
  /\ UNCHANGED <<tables, setting, memory, timer, requests, world>>

\* Mutant of Discarded: the cancelled probe is recorded as a failure.
NeverDiscarded(cut) == FALSE

\* check: "Do not record cancellation as downtime".
Discarded(cut) == cut

\* The end of check: the result is recorded, unless the context is cancelled.
\* The two are one step: only a cancellation could come between them, and then
\* a result is recorded that was not cut.
LoopRecords ==
  /\ Goto("check", "next")
  /\ IF Discarded(stopped) THEN UNCHANGED tables
     ELSE RecordPingState(probe.db, probe.ok)
  /\ probe' = Probing(probe.queue, NoDatabase)
  /\ UNCHANGED <<setting, memory, timer, requests, world>>

\* RecordPingState fails: logged, and the pass goes on.
LoopRecordFails ==
  /\ Goto("check", "next")
  /\ MayFailOnce
  /\ probe' = Probing(probe.queue, NoDatabase)
  /\ UNCHANGED <<tables, setting, memory, timer, requests>>

\* The second reading of the interval makes the timer; 0 idles for an hour ...
Arm ==
  /\ Goto("arming", "armed")
  /\ timer' = interval
  /\ UNCHANGED <<tables, setting, memory, probe, requests, world>>

\* ... and the loop comes to its select.
Wait ==
  /\ Goto("armed", "waiting")
  /\ UNCHANGED <<tables, setting, memory, probe, timer, requests, world>>

TimerFires ==
  /\ Goto("waiting", "top")
  /\ timer' = 0
  /\ UNCHANGED <<tables, setting, memory, probe, requests, world>>

Kicked ==
  /\ Goto("waiting", "top")
  /\ kick /\ kick' = FALSE
  /\ timer' = 0
  /\ UNCHANGED <<tables, setting, interval, stopped, unread, probe, requests,
                 world>>

\* Mutant of StopReady: a select without the case of Stop.
NoCaseForStop == FALSE

\* The select sees that Monitor.stop is closed.
StopReady == stopped

LoopExits ==
  /\ Goto("waiting", "done")
  /\ StopReady
  /\ timer' = 0
  /\ UNCHANGED <<tables, setting, memory, probe, requests, world>>

LoopStep ==
  \/ BeginPass \/ NoPass \/ NextDatabase \/ PassEnds \/ Answers \/ Misses
  \/ GivesUp \/ LoopRecords \/ LoopRecordFails \/ Arm \/ Wait \/ TimerFires
  \/ Kicked \/ LoopExits

-----------------------------------------------------------------------------
(* The handlers.                                                           *)

Turn(h, from, to) == hpc[h] = from /\ hpc' = [hpc EXCEPT ![h] = to]

Setters == {h \in Handlers : hpc[h] \in {"set", "reload", "apply", "kick"}}
MaySet == Cardinality(Setters) < MaxSetters

\* settingsSave, up to SetInterval.
AskInterval(h, v) ==
  /\ Turn(h, "idle", "set")
  /\ MaySet
  /\ req' = [req EXCEPT ![h] = [NoRequest EXCEPT !.iv = v]]
  /\ UNCHANGED <<tables, setting, memory, loop, world>>

\* SetInterval stores the setting first ...
StoreInterval(h) ==
  /\ Turn(h, "set", "apply")
  /\ setting' = req[h].iv /\ unread' = FALSE
  /\ UNCHANGED <<tables, interval, kick, stopped, loop, req, world>>

\* ... and gives up when that fails.
StoreFails(h) ==
  /\ Turn(h, "set", "idle")
  /\ MayFailOnce
  /\ req' = [req EXCEPT ![h] = NoRequest]
  /\ UNCHANGED <<tables, setting, memory, loop>>

\* settingsRestore: RestoreSnapshot replaces every table in one transaction, by
\* one in which an incident is open for the databases that are down.
RestoreSnapshot(h) ==
  /\ Turn(h, "idle", "reload")
  /\ MaySet
  /\ Event
  /\ \E s \in Snapshots :
       /\ dbs' = s.dbs
       /\ setting' = s.setting
       /\ pingState' = [d \in Databases |-> IF d \in s.down THEN "down"
                                            ELSE IF d \in s.dbs THEN "up"
                                            ELSE "none"]
       /\ open' = [d \in Databases |-> IF d \in s.down THEN 1 ELSE 0]
       /\ ended' = [d \in Databases |-> 0]
  /\ UNCHANGED <<memory, loop, req, up>>

\* Mutant of ReadBack: the default whatever the setting says.
ReadDefault == Default

\* What ReloadInterval finds in the settings.
ReadBack == Effective(setting)

\* ReloadInterval reads the setting before it takes the lock.
Reload(h) ==
  /\ Turn(h, "reload", "apply")
  /\ req' = [req EXCEPT ![h] = [NoRequest EXCEPT !.iv = ReadBack]]
  /\ unread' = FALSE
  /\ UNCHANGED <<tables, setting, interval, kick, stopped, loop, world>>

\* GetSetting fails, and the default is going to be applied without a word.
ReloadFails(h) ==
  /\ Turn(h, "reload", "apply")
  /\ MayFailOnce
  /\ req' = [req EXCEPT ![h] = [NoRequest EXCEPT !.iv = Default]]
  /\ unread' = TRUE
  /\ UNCHANGED <<tables, setting, interval, kick, stopped, loop>>

Apply(h) ==
  /\ Turn(h, "apply", "kick")
  /\ interval' = req[h].iv
  /\ UNCHANGED <<tables, setting, kick, stopped, unread, loop, req, world>>

\* Mutant of Sent: a channel without a buffer loses the send when the loop is
\* not at its select.
SentToWaiting == kick \/ lpc = "waiting"

\* The channel holds one element: a send to a full one is dropped.
Sent == TRUE

Kick(h) ==
  /\ Turn(h, "kick", "idle")
  /\ kick' = Sent
  /\ req' = [req EXCEPT ![h] = NoRequest]
  /\ UNCHANGED <<tables, setting, interval, stopped, unread, loop, world>>

\* databasePing: GetDatabase, then Check with one attempt.
AskPing(h, d) ==
  /\ Turn(h, "idle", "ping")
  /\ d \in dbs
  /\ req' = [req EXCEPT ![h] = [NoRequest EXCEPT !.db = d]]
  /\ UNCHANGED <<tables, setting, memory, loop, world>>

PingEnds(h) ==
  /\ Turn(h, "ping", "check")
  /\ req' = [req EXCEPT ![h] = [@ EXCEPT !.ok = req[h].db \in up]]
  /\ UNCHANGED <<tables, setting, memory, loop, world>>

\* The client goes away and its context kills psql.
PingCut(h) ==
  /\ Turn(h, "ping", "idle")
  /\ IF Discarded(TRUE) THEN UNCHANGED tables
     ELSE RecordPingState(req[h].db, FALSE)
  /\ req' = [req EXCEPT ![h] = NoRequest]
  /\ UNCHANGED <<setting, memory, loop, world>>

PingRecords(h) ==
  /\ Turn(h, "check", "idle")
  /\ RecordPingState(req[h].db, req[h].ok)
  /\ req' = [req EXCEPT ![h] = NoRequest]
  /\ UNCHANGED <<setting, memory, loop, world>>

PingRecordFails(h) ==
  /\ Turn(h, "check", "idle")
  /\ MayFailOnce
  /\ req' = [req EXCEPT ![h] = NoRequest]
  /\ UNCHANGED <<tables, setting, memory, loop>>

\* databaseDelete of a database without jobs; its states and incidents cascade.
DeleteDatabase(d) ==
  /\ d \in dbs
  /\ dbs' = dbs \ {d}
  /\ pingState' = [pingState EXCEPT ![d] = "none"]
  /\ open' = [open EXCEPT ![d] = 0]
  /\ ended' = [ended EXCEPT ![d] = 0]
  /\ UNCHANGED <<setting, memory, loop, requests, world>>

Asks(h) ==
  \/ \E v \in Intervals : AskInterval(h, v)
  \/ RestoreSnapshot(h)
  \/ \E d \in Databases : AskPing(h, d)

HandlerStep(h) ==
  \/ StoreInterval(h) \/ StoreFails(h) \/ Reload(h) \/ ReloadFails(h)
  \/ Apply(h) \/ Kick(h)
  \/ PingEnds(h) \/ PingCut(h) \/ PingRecords(h) \/ PingRecordFails(h)

-----------------------------------------------------------------------------
(* The process and the world.                                              *)

\* Stop: the loop is to exit; main waits until it has.
Stop ==
  /\ ~stopped /\ stopped' = TRUE
  /\ UNCHANGED <<tables, setting, interval, kick, unread, loop, requests,
                 world>>

\* The process ends, by a crash or in good order, and starts again; New goes on
\* with the default when it cannot read the setting.
Restart ==
  /\ Event
  /\ unread' \in BOOLEAN
  /\ interval' = Loaded(unread') /\ timer' = 0
  /\ kick' = FALSE /\ stopped' = FALSE
  /\ lpc' = "top" /\ probe' = NoProbe
  /\ hpc' = [h \in Handlers |-> "idle"] /\ req' = [h \in Handlers |-> NoRequest]
  /\ UNCHANGED <<tables, setting, up>>

Falls(d) ==
  /\ d \in up \ Steady
  /\ Event
  /\ up' = up \ {d}
  /\ UNCHANGED <<tables, setting, memory, loop, requests>>

Rises(d) ==
  /\ d \notin up
  /\ up' = up \union {d}
  /\ UNCHANGED <<tables, setting, memory, loop, requests, events>>

MonitorNext ==
  \/ LoopStep
  \/ \E h \in Handlers : Asks(h) \/ HandlerStep(h)
  \/ \E d \in Databases : DeleteDatabase(d) \/ Falls(d) \/ Rises(d)
  \/ Stop \/ Restart

MonitorSpec == MonitorInit /\ [][MonitorNext]_monitorVars

\* The loop and the handlers go on: psql ends within pingTimeout, the timers
\* fire and SQLite answers.  A select that finds both Stop and something else
\* ready picks one of them at random, so that Stop is taken in the end.
MonitorFairness ==
  /\ WF_monitorVars(LoopStep)
  /\ SF_monitorVars(LoopExits)
  /\ \A h \in Handlers : WF_monitorVars(HandlerStep(h))

FairMonitorSpec == MonitorSpec /\ MonitorFairness

-----------------------------------------------------------------------------
(* Properties.                                                             *)

A == INSTANCE Availability WITH
       status <- pingState, periods <- ended, ongoing <- open

\* The package comment: "keeps one incident per downtime period (first failed
\* ping -> first success after it)", whoever pings, however results are delayed
\* between the probe and its record, and whatever is deleted or restored.
OneIncidentPerDowntime == A!AvailabilitySpec

\* The state shown and the history agree: a database is down exactly while one
\* of its incidents is open.  RecordPingState writes the two in one transaction.
StateMatchesIncidents ==
  \A d \in Databases : open[d] = IF pingState[d] = "down" THEN 1 ELSE 0

\* "Do not record cancellation as downtime": a database that always answers is
\* never shown as down, though Stop and clients that go away cut its probes.
CancellationIsNoDowntime == \A d \in Steady : pingState[d] # "down"

\* No change of the interval is slept through: a loop that waits with a timer of
\* another interval than the one in force has a kick to wake it, or is about to.
NoLostKick ==
  lpc = "waiting" /\ timer # interval
    => kick \/ \E h \in Handlers : hpc[h] = "kick"

\* The interval in force is the one that is stored, once requests that change it
\* one after another are done.  The one exception: when the last reading of the
\* setting failed (at a start, with a warning; after a restored configuration,
\* silently), the default is in force instead, and only until the setting is
\* read or stored again.
StoredIsInForce ==
  Setters = {} =>
    interval = IF unread THEN Default ELSE Effective(setting)

\* A database that stays up is in the end shown as up, with no incident open,
\* whatever late or lost results came before (while the loop probes it).
UpIsShown ==
  \A d \in Databases :
    <>[](d \in up /\ d \in dbs /\ interval > 0 /\ ~stopped)
      => <>[](pingState[d] = "up")

\* Stop returns: the loop exits, whatever it was doing.
StopReturns == stopped ~> (lpc = "done" \/ ~stopped)
=============================================================================

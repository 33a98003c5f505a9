--------------------------- MODULE MonitorProofs ----------------------------
(***************************************************************************)
(* Proofs about Monitor, for every set of databases, intervals, snapshots  *)
(* and handlers and for every bound: the loop and the handlers implement   *)
(* Availability, a cancelled probe is never recorded as downtime, no       *)
(* change of the interval is slept through, and the interval in force is   *)
(* the stored one.                                                         *)
(***************************************************************************)
EXTENDS Monitor, FiniteSetTheorems, TLAPS

-----------------------------------------------------------------------------
(* Types.                                                                  *)

\* What the model says of the constants.
LEMMA Constants ==
  /\ Retries \in Nat /\ MaxEvents \in Nat
  /\ Intervals \subseteq Nat /\ Default \in Intervals /\ Unset \notin Intervals
  /\ NoDatabase \notin Databases /\ Steady \subseteq Databases
BY MonitorAssumption

\* The values the locals of the loop are given.
LEMMA ProbeValues ==
  /\ NoProbe \in Probes
  /\ \A q \in SUBSET Databases, d \in Databases \union {NoDatabase} :
       Probing(q, d) \in Probes
  /\ \A p \in Probes :
       /\ p.queue \in SUBSET Databases
       /\ p.tries < Retries => [p EXCEPT !.tries = @ + 1] \in Probes
       /\ [p EXCEPT !.ok = TRUE] \in Probes
       /\ [p EXCEPT !.ok = FALSE] \in Probes
<1>1. NoProbe \in Probes
  BY Constants DEF NoProbe, Probing, Probes
<1>2. ASSUME NEW q \in SUBSET Databases,
             NEW d \in Databases \union {NoDatabase}
      PROVE  Probing(q, d) \in Probes
  BY Constants DEF Probing, Probes
<1>3. ASSUME NEW p \in Probes
      PROVE  /\ p.queue \in SUBSET Databases
             /\ [p EXCEPT !.ok = TRUE] \in Probes
             /\ [p EXCEPT !.ok = FALSE] \in Probes
  BY DEF Probes
<1>4. ASSUME NEW p \in Probes, p.tries < Retries
      PROVE  [p EXCEPT !.tries = @ + 1] \in Probes
  BY <1>4, Constants DEF Probes
<1>. QED
  BY <1>1, <1>2, <1>3, <1>4

\* The values the locals of a handler are given.
LEMMA RequestValues ==
  /\ NoRequest \in Requests
  /\ \A v \in Intervals : [NoRequest EXCEPT !.iv = v] \in Requests
  /\ \A d \in Databases : [NoRequest EXCEPT !.db = d] \in Requests
  /\ \A r \in Requests : /\ r.iv \in Intervals
                         /\ \A b \in BOOLEAN : [r EXCEPT !.ok = b] \in Requests
BY Constants DEF NoRequest, Requests

\* Every variable starts with its type.
LEMMA InitType == MonitorInit => MonitorTypeOK
<1>. SUFFICES ASSUME MonitorInit PROVE MonitorTypeOK
  OBVIOUS
<1>. USE DEF MonitorInit
<1>1. /\ dbs \subseteq Databases /\ up \subseteq Databases
      /\ pingState \in [Databases -> {"none", "up", "down"}]
      /\ open \in [Databases -> Nat] /\ ended \in [Databases -> Nat]
  OBVIOUS
<1>2. setting \in Values /\ interval \in Intervals /\ timer \in Nat
  BY Constants DEF Values, Effective, Loaded
<1>3. /\ kick \in BOOLEAN /\ stopped \in BOOLEAN /\ unread \in BOOLEAN
      /\ lpc \in LoopStages /\ probe \in Probes
  BY ProbeValues DEF LoopStages
<1>4. hpc \in [Handlers -> HandlerStages] /\ req \in [Handlers -> Requests]
  BY RequestValues DEF HandlerStages
<1>5. events \in 0..MaxEvents
  BY Constants
<1>. QED
  BY <1>1, <1>2, <1>3, <1>4, <1>5 DEF MonitorTypeOK

\* Recording a result keeps the types of the tables.
LEMMA RecordTypes ==
  ASSUME MonitorTypeOK, NEW d, NEW ok, RecordPingState(d, ok)
  PROVE  /\ dbs' \subseteq Databases
         /\ pingState' \in [Databases -> {"none", "up", "down"}]
         /\ open' \in [Databases -> Nat] /\ ended' \in [Databases -> Nat]
<1>1. CASE d \notin dbs
  BY <1>1 DEF RecordPingState, MonitorTypeOK
<1>2. CASE d \in dbs /\ ok
  BY <1>2 DEF RecordPingState, Closed, MonitorTypeOK
<1>3. CASE d \in dbs /\ ~ok
  BY <1>3 DEF RecordPingState, Opened, MonitorTypeOK
<1>. QED
  BY <1>1, <1>2, <1>3

\* The loop keeps the types.
LEMMA LoopType ==
  ASSUME MonitorTypeOK, LoopStep PROVE MonitorTypeOK'
<1>. USE Constants DEF MonitorTypeOK, tables, memory, loop, requests, world,
            Goto, LoopStages, HandlerStages, Values
<1>1. CASE BeginPass
  BY <1>1, ProbeValues DEF BeginPass, Listed
<1>2. CASE NoPass
  BY <1>2 DEF NoPass, MayFailOnce, Event
<1>3. CASE NextDatabase
  <2>1. PICK d \in probe.queue :
          probe' = Probing(probe.queue \ {d}, d)
    BY <1>3 DEF NextDatabase
  <2>2. probe' \in Probes
    BY <2>1, ProbeValues
  <2>. QED
    BY <1>3, <2>2 DEF NextDatabase
<1>4. CASE PassEnds
  BY <1>4, ProbeValues DEF PassEnds
<1>5. CASE Answers
  BY <1>5, ProbeValues DEF Answers
<1>6. CASE Misses
  BY <1>6, ProbeValues DEF Misses, RetryLeft
<1>7. CASE GivesUp
  BY <1>7, ProbeValues DEF GivesUp
<1>8. CASE LoopRecords
  <2>1. probe' \in Probes
    BY <1>8, ProbeValues DEF LoopRecords
  <2>2. CASE stopped
    BY <1>8, <2>1, <2>2 DEF LoopRecords, Discarded
  <2>3. CASE ~stopped
    <3>1. RecordPingState(probe.db, probe.ok)
      BY <1>8, <2>3 DEF LoopRecords, Discarded
    <3>. QED
      BY <1>8, <2>1, <3>1, RecordTypes DEF LoopRecords
  <2>. QED
    BY <2>2, <2>3
<1>9. CASE LoopRecordFails
  <2>1. probe' \in Probes
    BY <1>9, ProbeValues DEF LoopRecordFails
  <2>. QED
    BY <1>9, <2>1 DEF LoopRecordFails, MayFailOnce, Event
<1>10. CASE Arm
  BY <1>10 DEF Arm
<1>11. CASE Wait
  BY <1>11 DEF Wait
<1>12. CASE TimerFires
  BY <1>12 DEF TimerFires
<1>13. CASE Kicked
  BY <1>13 DEF Kicked
<1>14. CASE LoopExits
  BY <1>14 DEF LoopExits
<1>. QED
  BY <1>1, <1>2, <1>3, <1>4, <1>5, <1>6, <1>7, <1>8, <1>9, <1>10, <1>11,
     <1>12, <1>13, <1>14 DEF LoopStep

\* The handlers keep the types.
LEMMA HandlerType ==
  ASSUME MonitorTypeOK, NEW h \in Handlers, Asks(h) \/ HandlerStep(h)
  PROVE  MonitorTypeOK'
<1>. USE Constants DEF MonitorTypeOK, tables, memory, loop, requests, world,
            Turn, LoopStages, HandlerStages, Values
<1>1. CASE \E v \in Intervals : AskInterval(h, v)
  BY <1>1, RequestValues DEF AskInterval
<1>2. CASE RestoreSnapshot(h)
  <2>1. PICK s \in Snapshots :
          /\ dbs' = s.dbs /\ setting' = s.setting
          /\ pingState' = [d \in Databases |-> IF d \in s.down THEN "down"
                                               ELSE IF d \in s.dbs THEN "up"
                                               ELSE "none"]
          /\ open' = [d \in Databases |-> IF d \in s.down THEN 1 ELSE 0]
          /\ ended' = [d \in Databases |-> 0]
    BY <1>2 DEF RestoreSnapshot
  <2>2. s.dbs \subseteq Databases /\ s.setting \in Values
    BY MonitorAssumption
  <2>. QED
    BY <1>2, <2>1, <2>2 DEF RestoreSnapshot, Event
<1>3. CASE \E d \in Databases : AskPing(h, d)
  BY <1>3, RequestValues DEF AskPing
<1>4. CASE StoreInterval(h)
  BY <1>4, RequestValues DEF StoreInterval
<1>5. CASE StoreFails(h)
  BY <1>5, RequestValues DEF StoreFails, MayFailOnce, Event
<1>6. CASE Reload(h)
  BY <1>6, RequestValues DEF Reload, ReadBack, Effective
<1>13. CASE ReloadFails(h)
  BY <1>13, RequestValues DEF ReloadFails, MayFailOnce, Event
<1>7. CASE Apply(h)
  BY <1>7, RequestValues DEF Apply
<1>8. CASE Kick(h)
  BY <1>8, RequestValues DEF Kick, Sent
<1>9. CASE PingEnds(h)
  <2>1. (req[h].db \in up) \in BOOLEAN
    OBVIOUS
  <2>2. [req[h] EXCEPT !.ok = req[h].db \in up] \in Requests
    BY <2>1, RequestValues
  <2>3. req' = [req EXCEPT ![h] = [req[h] EXCEPT !.ok = req[h].db \in up]]
    BY <1>9 DEF PingEnds
  <2>4. req' \in [Handlers -> Requests]
    BY <2>2, <2>3
  <2>. QED
    BY <1>9, <2>4 DEF PingEnds
<1>10. CASE PingCut(h)
  BY <1>10, RequestValues DEF PingCut, Discarded
<1>11. CASE PingRecords(h)
  BY <1>11, RequestValues, RecordTypes DEF PingRecords
<1>12. CASE PingRecordFails(h)
  BY <1>12, RequestValues DEF PingRecordFails, MayFailOnce, Event
<1>. QED
  BY <1>1, <1>2, <1>3, <1>4, <1>5, <1>6, <1>7, <1>8, <1>9, <1>10, <1>11, <1>12,
     <1>13
  DEF Asks, HandlerStep

\* So do the process and the world.
LEMMA TypeStep ==
  ASSUME MonitorTypeOK, [MonitorNext]_monitorVars PROVE MonitorTypeOK'
<1>. USE Constants DEF tables, memory, loop, requests, world
<1>1. CASE LoopStep
  BY <1>1, LoopType
<1>2. CASE \E h \in Handlers : Asks(h) \/ HandlerStep(h)
  BY <1>2, HandlerType
<1>3. CASE \E d \in Databases : DeleteDatabase(d)
  BY <1>3 DEF DeleteDatabase, MonitorTypeOK
<1>4. CASE \E d \in Databases : Falls(d) \/ Rises(d)
  BY <1>4 DEF Falls, Rises, Event, MonitorTypeOK
<1>5. CASE Stop
  BY <1>5 DEF Stop, MonitorTypeOK
<1>6. CASE Restart
  <2>. USE <1>6 DEF Restart, MonitorTypeOK
  <2>1. probe' \in Probes /\ lpc' \in LoopStages
    BY ProbeValues DEF LoopStages
  <2>2. hpc' \in [Handlers -> HandlerStages]
    BY DEF HandlerStages
  <2>3. req' \in [Handlers -> Requests]
    BY RequestValues
  <2>4. interval' \in Intervals /\ events' \in 0..MaxEvents
    BY DEF Effective, Loaded, Values, Event
  <2>. QED
    BY <2>1, <2>2, <2>3, <2>4
<1>7. CASE UNCHANGED monitorVars
  BY <1>7 DEF monitorVars, MonitorTypeOK
<1>. QED
  BY <1>1, <1>2, <1>3, <1>4, <1>5, <1>6, <1>7 DEF MonitorNext

\* Every variable keeps its type; in particular a database is tried no more
\* than Retries times more.
THEOREM MonitorTypes == MonitorSpec => []MonitorTypeOK
<1>1. MonitorInit => MonitorTypeOK
  BY InitType
<1>2. MonitorTypeOK /\ [MonitorNext]_monitorVars => MonitorTypeOK'
  BY TypeStep
<1>. QED
  BY <1>1, <1>2, PTL DEF MonitorSpec

-----------------------------------------------------------------------------
(* The history: the monitor implements Availability.                       *)

\* What is recorded is a success or a failure of the abstract history.
LEMMA RecordStep ==
  ASSUME MonitorTypeOK, StateMatchesIncidents, NEW d, NEW ok,
         RecordPingState(d, ok)
  PROVE  \/ \E e \in Databases : A!Succeed(e) \/ A!Fail(e)
         \/ UNCHANGED <<pingState, ended, open>>
<1>1. CASE d \notin dbs
  BY <1>1 DEF RecordPingState
<1>2. CASE d \in dbs /\ ok
  <2>1. d \in Databases
    BY <1>2 DEF MonitorTypeOK
  <2>2. A!Succeed(d)
    BY <1>2 DEF RecordPingState, Closed, A!Succeed
  <2>. QED
    BY <2>1, <2>2
<1>3. CASE d \in dbs /\ ~ok
  <2>1. d \in Databases
    BY <1>3 DEF MonitorTypeOK
  <2>2. open[d] \in {0, 1}
    BY <2>1 DEF StateMatchesIncidents
  <2>3. open' = [open EXCEPT ![d] = 1]
    BY <1>3, <2>1, <2>2 DEF RecordPingState, Opened, MonitorTypeOK
  <2>4. A!Fail(d)
    BY <1>3, <2>3 DEF RecordPingState, A!Fail
  <2>. QED
    BY <2>1, <2>4
<1>. QED
  BY <1>1, <1>2, <1>3

\* The loop changes the history by what it records.
LEMMA LoopHistory ==
  ASSUME LoopStep
  PROVE  \/ \E d, ok : RecordPingState(d, ok)
         \/ UNCHANGED <<pingState, ended, open>>
<1>. USE DEF tables
<1>1. CASE LoopRecords
  BY <1>1 DEF LoopRecords
<1>2. CASE ~LoopRecords
  BY <1>2 DEF LoopStep, BeginPass, NoPass, NextDatabase, PassEnds, Answers,
              Misses, GivesUp, LoopRecordFails, Arm, Wait, TimerFires, Kicked,
              LoopExits
<1>. QED
  BY <1>1, <1>2

\* A restored configuration replaces the history.
LEMMA RestoreHistory ==
  ASSUME NEW h \in Handlers, RestoreSnapshot(h) PROVE A!Replace
<1>1. PICK s \in Snapshots :
        /\ pingState' = [d \in Databases |-> IF d \in s.down THEN "down"
                                             ELSE IF d \in s.dbs THEN "up"
                                             ELSE "none"]
        /\ open' = [d \in Databases |-> IF d \in s.down THEN 1 ELSE 0]
        /\ ended' = [d \in Databases |-> 0]
  BY DEF RestoreSnapshot
<1>2. pingState' \in [Databases -> A!Results]
  BY <1>1 DEF A!Results
<1>3. ended' \in [Databases -> Nat]
  BY <1>1
<1>4. \A d \in Databases : pingState'[d] = "down" <=> d \in s.down
  BY <1>1
<1>5. open' = [d \in Databases |-> IF pingState'[d] = "down" THEN 1 ELSE 0]
  BY <1>1, <1>4
<1>. QED
  BY <1>2, <1>3, <1>5 DEF A!Replace

\* The handlers change it by a restored configuration, or by what they record.
LEMMA HandlerHistory ==
  ASSUME NEW h \in Handlers, Asks(h) \/ HandlerStep(h)
  PROVE  \/ A!Replace
         \/ \E d, ok : RecordPingState(d, ok)
         \/ UNCHANGED <<pingState, ended, open>>
<1>. USE DEF tables
<1>1. CASE RestoreSnapshot(h)
  BY <1>1, RestoreHistory
<1>2. CASE PingRecords(h)
  BY <1>2 DEF PingRecords
<1>3. CASE PingCut(h)
  BY <1>3 DEF PingCut, Discarded
<1>4. CASE /\ ~RestoreSnapshot(h) /\ ~PingRecords(h) /\ ~PingCut(h)
  BY <1>4 DEF Asks, HandlerStep, AskInterval, AskPing, StoreInterval,
              StoreFails, Reload, ReloadFails, Apply, Kick, PingEnds,
              PingRecordFails
<1>. QED
  BY <1>1, <1>2, <1>3, <1>4

\* A deleted database takes its history with it.
LEMMA DeleteHistory ==
  ASSUME MonitorTypeOK, StateMatchesIncidents, NEW d \in Databases,
         DeleteDatabase(d)
  PROVE  A!Replace
<1>1. pingState' \in [Databases -> A!Results]
  BY DEF DeleteDatabase, MonitorTypeOK, A!Results
<1>2. ended' \in [Databases -> Nat]
  BY DEF DeleteDatabase, MonitorTypeOK
<1>3. open' \in [Databases -> Nat]
  BY DEF DeleteDatabase, MonitorTypeOK
<1>4. \A e \in Databases : open'[e] = IF pingState'[e] = "down" THEN 1 ELSE 0
  BY DEF DeleteDatabase, MonitorTypeOK, StateMatchesIncidents
<1>5. open' = [e \in Databases |-> IF pingState'[e] = "down" THEN 1 ELSE 0]
  BY <1>3, <1>4
<1>. QED
  BY <1>1, <1>2, <1>5 DEF A!Replace

\* Every step is a step of the abstract history or leaves it as it is.
LEMMA HistoryStep ==
  ASSUME MonitorTypeOK, StateMatchesIncidents, [MonitorNext]_monitorVars
  PROVE  [A!Next]_<<pingState, ended, open>>
<1>. USE DEF A!Next
<1>1. CASE LoopStep
  BY <1>1, LoopHistory, RecordStep
<1>2. CASE \E h \in Handlers : Asks(h) \/ HandlerStep(h)
  BY <1>2, HandlerHistory, RecordStep
<1>3. CASE \E d \in Databases : DeleteDatabase(d)
  BY <1>3, DeleteHistory
<1>4. CASE \E d \in Databases : Falls(d) \/ Rises(d)
  BY <1>4 DEF Falls, Rises, tables
<1>5. CASE Stop \/ Restart
  BY <1>5 DEF Stop, Restart, tables
<1>6. CASE UNCHANGED monitorVars
  BY <1>6 DEF monitorVars, tables
<1>. QED
  BY <1>1, <1>2, <1>3, <1>4, <1>5, <1>6 DEF MonitorNext

\* In the abstract history the state and the incidents agree.
LEMMA AgreementStep ==
  ASSUME MonitorTypeOK, StateMatchesIncidents,
         [A!Next]_<<pingState, ended, open>>
  PROVE  StateMatchesIncidents'
<1>1. CASE \E d \in Databases : A!Succeed(d)
  BY <1>1 DEF A!Succeed, MonitorTypeOK, StateMatchesIncidents
<1>2. CASE \E d \in Databases : A!Fail(d)
  BY <1>2 DEF A!Fail, MonitorTypeOK, StateMatchesIncidents
<1>3. CASE A!Replace
  BY <1>3 DEF A!Replace, StateMatchesIncidents
<1>4. CASE UNCHANGED <<pingState, ended, open>>
  BY <1>4 DEF StateMatchesIncidents
<1>. QED
  BY <1>1, <1>2, <1>3, <1>4 DEF A!Next

\* A database is shown as down exactly while one incident of it is open: the
\* transaction of RecordPingState keeps the two together.
THEOREM StateAndIncidents == MonitorSpec => []StateMatchesIncidents
<1>1. MonitorInit => StateMatchesIncidents
  BY DEF MonitorInit, StateMatchesIncidents
<1>2. MonitorTypeOK /\ StateMatchesIncidents /\ [MonitorNext]_monitorVars
        => StateMatchesIncidents'
  BY HistoryStep, AgreementStep
<1>. QED
  BY <1>1, <1>2, MonitorTypes, PTL DEF MonitorSpec

\* The monitor keeps the promise of its package comment: one incident per period
\* of downtime, from the first failed ping to the first success after it.
THEOREM OneIncident == MonitorSpec => OneIncidentPerDowntime
<1>1. MonitorInit => A!Init
  BY DEF MonitorInit, A!Init
<1>2. MonitorTypeOK /\ StateMatchesIncidents /\ [MonitorNext]_monitorVars
        => [A!Next]_(A!availabilityVars)
  BY HistoryStep DEF A!availabilityVars
<1>. QED
  BY <1>1, <1>2, MonitorTypes, StateAndIncidents, PTL
  DEF MonitorSpec, OneIncidentPerDowntime, A!AvailabilitySpec

-----------------------------------------------------------------------------
(* Wake-ups.                                                               *)

\* NoLostKick from the moment on the timer is made: between Arm and the select
\* the interval may change, too.
KickPending ==
  lpc \in {"armed", "waiting"} /\ timer # interval
    => kick \/ \E h \in Handlers : hpc[h] = "kick"

\* The loop takes a kick only when it goes on to read the interval again.
LEMMA LoopKick == ASSUME KickPending, LoopStep PROVE KickPending'
<1>. USE DEF KickPending, memory, requests, Goto
<1>1. CASE Arm
  BY <1>1 DEF Arm
<1>2. CASE Wait
  BY <1>2 DEF Wait, loop
<1>3. CASE ~Arm /\ ~Wait
  <2>1. lpc' \notin {"armed", "waiting"}
    BY <1>3 DEF LoopStep, BeginPass, NoPass, NextDatabase, PassEnds, Answers,
                Misses, GivesUp, LoopRecords, LoopRecordFails, TimerFires,
                Kicked, LoopExits
  <2>. QED
    BY <2>1
<1>. QED
  BY <1>1, <1>2, <1>3

\* A handler that changes the interval is about to send a kick, and the one that
\* sends it fills the channel.
LEMMA HandlerKick ==
  ASSUME MonitorTypeOK, KickPending, NEW h \in Handlers,
         Asks(h) \/ HandlerStep(h)
  PROVE  KickPending'
<1>. USE DEF KickPending, memory, loop
<1>1. CASE Apply(h)
  <2>1. hpc'[h] = "kick"
    BY <1>1 DEF Apply, Turn, MonitorTypeOK
  <2>. QED
    BY <2>1
<1>2. CASE Kick(h)
  BY <1>2 DEF Kick, Sent
<1>3. CASE ~Apply(h) /\ ~Kick(h)
  <2>1. UNCHANGED <<interval, kick, loop>>
    BY <1>3 DEF Asks, HandlerStep, AskInterval, RestoreSnapshot, AskPing,
                StoreInterval, StoreFails, Reload, ReloadFails, PingEnds,
                PingCut, PingRecords, PingRecordFails
  <2>2. hpc[h] # "kick"
    BY <1>3 DEF Asks, HandlerStep, AskInterval, RestoreSnapshot, AskPing,
                StoreInterval, StoreFails, Reload, ReloadFails, PingEnds,
                PingCut, PingRecords, PingRecordFails, Turn
  <2>3. \A k \in Handlers \ {h} : hpc'[k] = hpc[k]
    BY <1>3 DEF Asks, HandlerStep, AskInterval, RestoreSnapshot, AskPing,
                StoreInterval, StoreFails, Reload, ReloadFails, PingEnds,
                PingCut, PingRecords, PingRecordFails, Turn, MonitorTypeOK
  <2>4. ASSUME NEW k \in Handlers, hpc[k] = "kick" PROVE hpc'[k] = "kick"
    BY <2>2, <2>3, <2>4
  <2>. QED
    BY <2>1, <2>4
<1>. QED
  BY <1>1, <1>2, <1>3

\* So does every step.
LEMMA KickStep ==
  ASSUME MonitorTypeOK, KickPending, [MonitorNext]_monitorVars
  PROVE  KickPending'
<1>. USE DEF memory, loop, requests
<1>1. CASE LoopStep
  BY <1>1, LoopKick
<1>2. CASE \E h \in Handlers : Asks(h) \/ HandlerStep(h)
  BY <1>2, HandlerKick
<1>3. CASE \E d \in Databases : DeleteDatabase(d) \/ Falls(d) \/ Rises(d)
  BY <1>3 DEF DeleteDatabase, Falls, Rises, KickPending
<1>4. CASE Stop
  BY <1>4 DEF Stop, KickPending
<1>5. CASE Restart
  BY <1>5 DEF Restart, KickPending
<1>6. CASE UNCHANGED monitorVars
  BY <1>6 DEF monitorVars, KickPending
<1>. QED
  BY <1>1, <1>2, <1>3, <1>4, <1>5, <1>6 DEF MonitorNext

\* No change of the interval is slept through, however many handlers change it
\* at once and although a send to the full channel is dropped.
THEOREM NoLostWakeUp == MonitorSpec => []NoLostKick
<1>1. MonitorInit => KickPending
  BY DEF MonitorInit, KickPending
<1>2. MonitorTypeOK /\ KickPending /\ [MonitorNext]_monitorVars
        => KickPending'
  BY KickStep
<1>3. KickPending => NoLostKick
  BY DEF KickPending, NoLostKick
<1>. QED
  BY <1>1, <1>2, <1>3, MonitorTypes, PTL DEF MonitorSpec

-----------------------------------------------------------------------------
(* Cancellation.                                                           *)

\* A result that is going to be recorded as a failure comes from a database that
\* may fall: the loop's other failures were cut by Stop.
OnlyFallersFail ==
  /\ Steady \subseteq up
  /\ lpc = "check" /\ ~probe.ok /\ ~stopped => probe.db \notin Steady
  /\ \A h \in Handlers :
       hpc[h] = "check" /\ ~req[h].ok => req[h].db \notin Steady

\* A record leaves the databases that always answer out of its failures.
LEMMA RecordSteady ==
  ASSUME MonitorTypeOK, CancellationIsNoDowntime, NEW d, NEW ok,
         RecordPingState(d, ok), ~ok => d \notin Steady
  PROVE  CancellationIsNoDowntime'
BY Constants DEF RecordPingState, CancellationIsNoDowntime, MonitorTypeOK

\* The loop records no cut probe.
LEMMA LoopSteady ==
  ASSUME MonitorTypeOK, OnlyFallersFail, CancellationIsNoDowntime, LoopStep
  PROVE  OnlyFallersFail' /\ CancellationIsNoDowntime'
<1>. USE DEF OnlyFallersFail, CancellationIsNoDowntime, tables, memory,
            requests, world, Goto
<1>1. CASE LoopRecords
  <2>1. CancellationIsNoDowntime'
    BY <1>1, RecordSteady DEF LoopRecords, Discarded
  <2>. QED
    BY <1>1, <2>1 DEF LoopRecords
<1>2. CASE Answers
  <2>1. probe'.ok
    BY <1>2 DEF Answers, MonitorTypeOK, Probes
  <2>. QED
    BY <1>2, <2>1 DEF Answers
<1>3. CASE GivesUp
  <2>1. probe'.db = probe.db
    BY <1>3 DEF GivesUp, MonitorTypeOK, Probes
  <2>2. stopped \/ probe.db \notin Steady
    BY <1>3 DEF GivesUp
  <2>. QED
    BY <1>3, <2>1, <2>2 DEF GivesUp
<1>4. CASE ~LoopRecords /\ ~Answers /\ ~GivesUp
  BY <1>4 DEF LoopStep, BeginPass, NoPass, NextDatabase, PassEnds, Misses,
              LoopRecordFails, MayFailOnce, Arm, Wait, TimerFires, Kicked,
              LoopExits
<1>. QED
  BY <1>1, <1>2, <1>3, <1>4

\* Neither do the handlers.
LEMMA HandlerSteady ==
  ASSUME MonitorTypeOK, OnlyFallersFail, CancellationIsNoDowntime,
         NEW h \in Handlers, Asks(h) \/ HandlerStep(h)
  PROVE  OnlyFallersFail' /\ CancellationIsNoDowntime'
<1>. USE DEF OnlyFallersFail, CancellationIsNoDowntime, memory, loop, world
<1>1. CASE PingRecords(h)
  <2>1. CancellationIsNoDowntime'
    BY <1>1, RecordSteady DEF PingRecords, Turn
  <2>. QED
    BY <1>1, <2>1 DEF PingRecords, Turn, MonitorTypeOK
<1>2. CASE RestoreSnapshot(h)
  <2>1. CancellationIsNoDowntime'
    BY <1>2, MonitorAssumption DEF RestoreSnapshot
  <2>. QED
    BY <1>2, <2>1 DEF RestoreSnapshot, Turn, MonitorTypeOK
<1>3. CASE PingEnds(h)
  <2>1. /\ req'[h].db = req[h].db
        /\ ~req'[h].ok => req[h].db \notin up
    BY <1>3 DEF PingEnds, MonitorTypeOK, Requests
  <2>2. \A k \in Handlers \ {h} : hpc'[k] = hpc[k] /\ req'[k] = req[k]
    BY <1>3 DEF PingEnds, Turn, MonitorTypeOK
  <2>. QED
    BY <1>3, <2>1, <2>2 DEF PingEnds, tables
<1>4. CASE ~PingRecords(h) /\ ~RestoreSnapshot(h) /\ ~PingEnds(h)
  <2>1. UNCHANGED <<tables, loop, up, stopped>>
    BY <1>4 DEF Asks, HandlerStep, AskInterval, AskPing, StoreInterval,
                StoreFails, MayFailOnce, Reload, ReloadFails, Apply, Kick,
                PingCut, Discarded, PingRecordFails
  <2>2. /\ hpc'[h] # "check"
        /\ \A k \in Handlers \ {h} : hpc'[k] = hpc[k] /\ req'[k] = req[k]
    BY <1>4 DEF Asks, HandlerStep, AskInterval, AskPing, StoreInterval,
                StoreFails, Reload, ReloadFails, Apply, Kick, PingCut,
                PingRecordFails,
                Turn, MonitorTypeOK
  <2>. QED
    BY <2>1, <2>2 DEF tables
<1>. QED
  BY <1>1, <1>2, <1>3, <1>4

\* So does every step.
LEMMA SteadyStep ==
  ASSUME MonitorTypeOK, OnlyFallersFail, CancellationIsNoDowntime,
         [MonitorNext]_monitorVars
  PROVE  OnlyFallersFail' /\ CancellationIsNoDowntime'
<1>. USE DEF OnlyFallersFail, CancellationIsNoDowntime, tables, memory, loop,
            requests, world
<1>1. CASE LoopStep
  BY <1>1, LoopSteady
<1>2. CASE \E h \in Handlers : Asks(h) \/ HandlerStep(h)
  BY <1>2, HandlerSteady
<1>3. CASE \E d \in Databases : DeleteDatabase(d)
  BY <1>3, Constants DEF DeleteDatabase, MonitorTypeOK
<1>4. CASE \E d \in Databases : Falls(d) \/ Rises(d)
  BY <1>4 DEF Falls, Rises
<1>5. CASE Stop
  BY <1>5 DEF Stop
<1>6. CASE Restart
  BY <1>6 DEF Restart
<1>7. CASE UNCHANGED monitorVars
  BY <1>7 DEF monitorVars
<1>. QED
  BY <1>1, <1>2, <1>3, <1>4, <1>5, <1>6, <1>7 DEF MonitorNext

\* "Do not record cancellation as downtime": Stop and clients that go away never
\* make a database that answers look down.
THEOREM NoFalseDowntime == MonitorSpec => []CancellationIsNoDowntime
<1>1. MonitorInit => OnlyFallersFail /\ CancellationIsNoDowntime
  <2>. SUFFICES ASSUME MonitorInit
                PROVE  OnlyFallersFail /\ CancellationIsNoDowntime
    OBVIOUS
  <2>1. OnlyFallersFail
    BY Constants DEF MonitorInit, OnlyFallersFail
  <2>2. \A d \in Databases : pingState[d] = "none"
    BY DEF MonitorInit
  <2>. QED
    BY <2>1, <2>2, Constants DEF CancellationIsNoDowntime
<1>2. MonitorTypeOK /\ OnlyFallersFail /\ CancellationIsNoDowntime
          /\ [MonitorNext]_monitorVars
        => (OnlyFallersFail /\ CancellationIsNoDowntime)'
  BY SteadyStep
<1>. QED
  BY <1>1, <1>2, MonitorTypes, PTL DEF MonitorSpec

-----------------------------------------------------------------------------
(* The interval in force.                                                  *)

\* What is in force when no request is changing it.
Expected == IF unread THEN Default ELSE Effective(setting)

\* StoredIsInForce while a request is at it: what is about to be applied is what
\* was stored or read, and the two differ only until it is.
InForce ==
  /\ \A h, k \in Setters : h = k
  /\ \A h \in Handlers : hpc[h] = "apply" => req[h].iv = Expected
  /\ (\A h \in Handlers : hpc[h] \notin {"reload", "apply"})
       => interval = Expected

\* When requests that change the interval come one after another, one begins
\* only when none is under way.
LEMMA Alone ==
  ASSUME MaxSetters = 1, InForce, MaySet PROVE Setters = {}
<1>. SUFFICES ASSUME NEW h \in Setters PROVE FALSE
  OBVIOUS
<1>1. Setters = {h}
  BY DEF InForce
<1>2. Cardinality(Setters) = 1
  BY <1>1, FS_Singleton
<1>. QED
  BY <1>2 DEF MaySet

\* A step of a handler at the interval moves no other handler.
LEMMA OthersWait ==
  ASSUME MonitorTypeOK, NEW h \in Handlers, NEW a, NEW b, Turn(h, a, b)
  PROVE  /\ hpc[h] = a /\ hpc'[h] = b
         /\ \A k \in Handlers : k # h => hpc'[k] = hpc[k]
BY DEF Turn, MonitorTypeOK

\* The first step of a request that changes the interval.
LEMMA BeginsInForce ==
  ASSUME MaxSetters = 1, MonitorTypeOK, InForce, NEW h \in Handlers,
         \/ \E v \in Intervals : AskInterval(h, v)
         \/ RestoreSnapshot(h)
  PROVE  InForce'
<1>1. \A k \in Handlers : hpc[k] \notin {"set", "reload", "apply", "kick"}
  BY Alone DEF AskInterval, RestoreSnapshot, Setters
<1>2. PICK b \in {"set", "reload"} : Turn(h, "idle", b)
  BY DEF AskInterval, RestoreSnapshot
<1>3. /\ hpc'[h] = b
      /\ \A k \in Handlers :
           k # h => hpc'[k] \notin {"set", "reload", "apply", "kick"}
  BY <1>1, <1>2, OthersWait
<1>4. b = "set" => UNCHANGED <<setting, interval, unread>>
  BY <1>1, <1>3, OthersWait DEF AskInterval, RestoreSnapshot, memory, Turn
<1>. QED
  BY <1>1, <1>3, <1>4 DEF InForce, Setters, Expected

\* The steps that follow: a request stores, reads, applies and is done.
LEMMA GoesOnInForce ==
  ASSUME MonitorTypeOK, InForce, NEW h \in Handlers,
         \/ StoreInterval(h) \/ StoreFails(h) \/ Reload(h) \/ ReloadFails(h)
         \/ Apply(h) \/ Kick(h)
  PROVE  InForce'
<1>1. /\ h \in Setters
      /\ \A k \in Handlers : k # h =>
           hpc[k] \notin {"set", "reload", "apply", "kick"}
  BY DEF InForce, Setters, StoreInterval, StoreFails, Reload, ReloadFails,
         Apply, Kick, Turn
<1>2. \A k \in Handlers : k # h =>
        hpc'[k] \notin {"set", "reload", "apply", "kick"}
  BY <1>1, OthersWait DEF StoreInterval, StoreFails, Reload, ReloadFails, Apply,
                          Kick
<1>3. /\ hpc'[h] = "apply" => req'[h].iv = Expected'
      /\ hpc'[h] \notin {"reload", "apply"} => interval' = Expected'
  <2>. USE DEF Expected
  <2>1. CASE StoreInterval(h)
    <3>1. req[h].iv \in Intervals
      BY RequestValues DEF MonitorTypeOK
    <3>2. setting' = req[h].iv /\ ~unread' /\ req' = req
      BY <2>1 DEF StoreInterval
    <3>. QED
      BY <2>1, <3>1, <3>2, OthersWait, Constants
      DEF StoreInterval, Effective
  <2>2. CASE StoreFails(h)
    BY <1>1, <2>2, OthersWait DEF StoreFails, memory, InForce, Turn
  <2>3. CASE Reload(h)
    <3>1. req'[h].iv = Effective(setting) /\ setting' = setting /\ ~unread'
      BY <2>3 DEF Reload, ReadBack, NoRequest, MonitorTypeOK
    <3>. QED
      BY <2>3, <3>1, OthersWait DEF Reload, Effective
  <2>4. CASE ReloadFails(h)
    <3>1. req'[h].iv = Default /\ unread'
      BY <2>4 DEF ReloadFails, NoRequest, MonitorTypeOK
    <3>. QED
      BY <2>4, <3>1, OthersWait DEF ReloadFails
  <2>5. CASE Apply(h)
    BY <2>5, OthersWait DEF Apply, InForce
  <2>6. CASE Kick(h)
    BY <1>1, <2>6, OthersWait DEF Kick, InForce, Turn
  <2>. QED
    BY <2>1, <2>2, <2>3, <2>4, <2>5, <2>6
<1>. QED
  BY <1>2, <1>3 DEF InForce, Setters

\* The steps of a ping leave the interval alone.
LEMMA PingsInForce ==
  ASSUME MonitorTypeOK, InForce, NEW h \in Handlers,
         \/ \E d \in Databases : AskPing(h, d)
         \/ PingEnds(h) \/ PingCut(h) \/ PingRecords(h) \/ PingRecordFails(h)
  PROVE  InForce'
<1>1. UNCHANGED <<setting, interval, unread>>
  BY DEF AskPing, PingEnds, PingCut, PingRecords, PingRecordFails, memory
<1>2. /\ \A k \in Handlers : k # h => req'[k] = req[k]
      /\ \E a, b \in {"idle", "ping", "check"} : Turn(h, a, b)
  BY DEF AskPing, PingEnds, PingCut, PingRecords, PingRecordFails,
         MonitorTypeOK
<1>3. /\ hpc[h] \notin {"set", "reload", "apply", "kick"}
      /\ hpc'[h] \notin {"set", "reload", "apply", "kick"}
      /\ \A k \in Handlers : k # h => hpc'[k] = hpc[k]
  BY <1>2, OthersWait
<1>. QED
  BY <1>1, <1>2, <1>3 DEF InForce, Setters, Expected

\* Every step keeps it: those of the loop and the world leave the interval
\* alone, a restart reads the setting or fails to.
LEMMA InForceStep ==
  ASSUME MaxSetters = 1, MonitorTypeOK, InForce, [MonitorNext]_monitorVars
  PROVE  InForce'
<1>. USE DEF InForce, Setters, Expected, memory, requests
<1>1. CASE LoopStep
  <2>1. UNCHANGED <<setting, interval, unread, requests>>
    BY <1>1 DEF LoopStep, BeginPass, NoPass, NextDatabase, PassEnds, Answers,
                Misses, GivesUp, LoopRecords, LoopRecordFails, Arm, Wait,
                TimerFires, Kicked, LoopExits
  <2>. QED
    BY <2>1
<1>2. ASSUME NEW h \in Handlers, Asks(h) \/ HandlerStep(h) PROVE InForce'
  BY <1>2, BeginsInForce, GoesOnInForce, PingsInForce DEF Asks, HandlerStep
<1>3. CASE \E d \in Databases : DeleteDatabase(d) \/ Falls(d) \/ Rises(d)
  BY <1>3 DEF DeleteDatabase, Falls, Rises
<1>4. CASE Stop
  BY <1>4 DEF Stop
<1>5. CASE Restart
  BY <1>5 DEF Restart, Loaded, Effective
<1>6. CASE UNCHANGED monitorVars
  BY <1>6 DEF monitorVars
<1>. QED
  BY <1>1, <1>2, <1>3, <1>4, <1>5, <1>6 DEF MonitorNext

\* The interval in force is the stored one whenever no request is changing it,
\* provided the requests that change it come one after another: a failed store,
\* restored configurations and restarts do not part the two.  A failed reading
\* of the setting does: ReloadInterval and New take the default, which is then
\* in force until the setting is read or stored again.
THEOREM StoredApplies ==
  ASSUME MaxSetters = 1 PROVE MonitorSpec => []StoredIsInForce
<1>1. MonitorInit => InForce
  BY DEF MonitorInit, InForce, Setters, Expected, Loaded
<1>2. MonitorTypeOK /\ InForce /\ [MonitorNext]_monitorVars => InForce'
  BY InForceStep
<1>3. InForce => StoredIsInForce
  BY DEF InForce, StoredIsInForce, Setters, Expected
<1>. QED
  BY <1>1, <1>2, <1>3, MonitorTypes, PTL DEF MonitorSpec
=============================================================================

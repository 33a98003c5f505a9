------------------------- MODULE BackupCopiesProofs -------------------------
(***************************************************************************)
(* Proofs about the copies of the dumps, for every set of jobs and         *)
(* destinations and every bound: what the history lists exists, what       *)
(* exists is listed, retention keeps what it is to keep and no more, and a *)
(* retired row holds nothing.  Each theorem names the calls that must not  *)
(* fail for it; all others may.                                            *)
(***************************************************************************)
EXTENDS BackupEngineProofs

\* What the invariants of the engine say, in the parts the proofs cite.
LEMMA Parts ==
  ASSUME Inv, HistoryInv
  PROVE  /\ TypeOK /\ CatalogTypeOK /\ rows \in [RowIds -> RowRecord]
         /\ RowsInOrder /\ OwnRows /\ VictimsReplaceable /\ StoredCopies
         /\ ClaimsHeld /\ OneRunPerJob
BY DEF Inv, HistoryInv, TypeOK, CatalogTypeOK

-----------------------------------------------------------------------------
(* Rows of runs.                                                           *)

\* The row of a run that has yet to report.
LEMMA OwnRow ==
  ASSUME Inv, HistoryInv, NEW r \in Runners, pc[r] \in Writing
  PROVE  /\ run[r].row \in RowIds /\ Present(run[r].row)
         /\ rows[run[r].row].status = "running"
         /\ rows[run[r].row].job = run[r].job
         /\ Name(run[r].row) = run[r].name /\ pc[r] \in HoldsJob
BY Parts DEF OwnRows, Present, Inv, RowsOpened, Writing, HoldsSlot, HoldsJob

\* A run that has not reported goes on to hold its row.
LEMMA StaysWriting ==
  ASSUME TypeOK, NEW r \in Runners, Step(r), pc[r] \in Writing, ~Closes(r)
  PROVE  pc'[r] \in Writing /\ run'[r].row = run[r].row
<1>. USE DEF TypeOK, RunRecord, Writing, Goto
<1>1. CASE \/ Trigger(r) \/ LoadJob(r) \/ LoadJobFails(r) \/ Leave(r)
           \/ OpenRow(r)
  BY <1>1 DEF Trigger, Claim, LoadJob, LoadJobFails, Leave, GiveBack, OpenRow
<1>2. CASE PassStep(r)
  BY <1>2 DEF PassStep, OpenRowFails, LoadDestinationsFails, Dump, DumpFails,
              NothingLocal, KeepAll, PruneEnds, Pass
<1>3. CASE LoadDestinations(r) \/ AcquireSlot(r) \/ ReleaseSlot(r)
  BY <1>3 DEF LoadDestinations, AcquireSlot, ReleaseSlot
<1>4. ASSUME NEW d \in Dests,
             Upload(r, d) \/ UploadFails(r, d) \/ DeleteObject(r, d)
      PROVE  pc'[r] \in Writing /\ run'[r].row = run[r].row
  BY <1>4 DEF Upload, UploadFails, DeleteObject
<1>5. CASE MarkDestination(r) \/ SaveLocal(r)
  BY <1>5 DEF MarkDestination, SaveLocal
<1>6. CASE \/ ListVictims(r) \/ DeleteFile(r) \/ ListLinks(r)
           \/ ListLinksFails(r) \/ RetireRow(r)
  BY <1>6 DEF ListVictims, DeleteFile, ListLinks, ListLinksFails, RetireRow
<1>. QED
  BY <1>1, <1>2, <1>3, <1>4, <1>5, <1>6
  DEF Step, RunnerStep, PassStep, Closes

\* A row that is not the one being opened and is running after a step, was
\* before.
LEMMA WasRunning ==
  ASSUME Inv, HistoryInv, NEW r \in Runners, Step(r), NEW id \in RowIds,
         rows'[id].status = "running", ~(OpenRow(r) /\ id = nextRow)
  PROVE  rows[id].status = "running"
<1>0. RowsInOrder /\ OwnRows /\ VictimsReplaceable
      /\ rows \in [RowIds -> RowRecord]
  BY Parts
<1>1. CASE OpenRow(r)
  BY <1>0, <1>1, Opens
<1>2. CASE Closes(r)
  BY <1>0, <1>2, ClosesOwn
<1>3. CASE RetireRow(r)
  BY <1>0, <1>3, RetiredRow
<1>4. CASE ~OpenRow(r) /\ ~Closes(r) /\ ~RetireRow(r)
  BY <1>4, RowsStay DEF rowVars
<1>. QED BY <1>1, <1>2, <1>3, <1>4

\* While updates do not fail, a run's report is written.
LEMMA Reported ==
  ASSUME "update" \notin Faults, Inv, HistoryInv, NEW r \in Runners, Closes(r)
  PROVE  rows'[run[r].row].status \in {"completed", "failed"}
<1>1. run[r].row \in RowIds /\ rows[run[r].row].status = "running"
  BY Parts, ClosesOwn
<1>2. PICK status \in {"completed", "failed"}, local \in BOOLEAN :
        UpdateBackup(run[r].row, status, local)
  BY Parts
  DEF Closes, FinishFailed, FinishRow, WriteRow, MayFail, StoredLocal, TypeOK,
      RunRecord
<1>3. rows' = [rows EXCEPT ![run[r].row].status = status,
                           ![run[r].row].local = local]
  BY <1>1, <1>2 DEF UpdateBackup, Present
<1>. QED BY <1>1, <1>3, Parts, WrittenRow

\* A row is running only while its run is on the way.
RunningOwned ==
  \A id \in RowIds : rows[id].status = "running"
    => \E r \in Runners : pc[r] \in Writing /\ run[r].row = id

\* A run leaves its row with a result.
LEMMA OwnedSteps ==
  ASSUME "update" \notin Faults, Inv, HistoryInv, RunningOwned,
         NEW r \in Runners, Step(r)
  PROVE  RunningOwned'
<1>. SUFFICES ASSUME NEW id \in RowIds, rows'[id].status = "running"
              PROVE  \E s \in Runners : pc'[s] \in Writing /\ run'[s].row = id
  BY DEF RunningOwned
<1>1. CASE OpenRow(r) /\ id = nextRow
  BY <1>1, Parts, Opens DEF Writing
<1>2. CASE ~(OpenRow(r) /\ id = nextRow)
  <2>1. PICK s \in Runners : pc[s] \in Writing /\ run[s].row = id
    BY <1>2, WasRunning DEF RunningOwned
  <2>2. CASE s # r
    BY <2>1, <2>2, Parts, OthersStay
  <2>3. CASE s = r
    <3>1. ~Closes(r)
      BY <2>1, <2>3, Reported
    <3>. QED BY <2>1, <2>3, <3>1, Parts, StaysWriting
  <2>. QED BY <2>2, <2>3
<1>. QED BY <1>1, <1>2

\* Without crashes and failed updates every open row has its run.
LEMMA OwnedInvariance ==
  ASSUME "update" \notin Faults, MaxCrashes = 0
  PROVE  Spec => []RunningOwned
<1>1. Init => RunningOwned
  BY DEF Init, CatalogInit, NoRow, RunningOwned
<1>2. Inv /\ HistoryInv /\ RunningOwned /\ [Next]_vars => RunningOwned'
  <2>. SUFFICES ASSUME Inv, HistoryInv, RunningOwned, [Next]_vars
                PROVE  RunningOwned'
    OBVIOUS
  <2>1. ASSUME NEW r \in Runners, Step(r) PROVE RunningOwned'
    BY <2>1, OwnedSteps
  <2>2. ~Crash
    BY DEF Crash, Inv, TypeOK
  <2>3. CASE (\E j \in Jobs : EditJob(j)) \/ UNCHANGED vars
    BY <2>3 DEF EditJob, vars, catalogVars, rowVars, engineVars, RunningOwned
  <2>. QED BY <2>1, <2>2, <2>3 DEF Next, EngineNext, Step
<1>. QED BY <1>1, <1>2, Invariance, HistoryInvariance, PTL DEF Spec

\* Without crashes and failed updates, no row is shown as running without a run:
\* "once nothing runs ... the polling stops".
THEOREM PollingStops ==
  ASSUME "update" \notin Faults, MaxCrashes = 0
  PROVE  Spec => []RunningRowHasRun
<1>1. RunningOwned => RunningRowHasRun
  BY DEF RunningOwned, RunningRowHasRun, Writing, HoldsJob, HoldsSlot
<1>. QED BY <1>1, OwnedInvariance, PTL

-----------------------------------------------------------------------------
(* Retention.                                                              *)

\* A list of completed rows is finite, and so are its parts.
LEMMA FiniteLists ==
  ASSUME NEW S \in SUBSET RowIds
  PROVE  /\ IsFiniteSet(S) /\ Cardinality(S) \in Nat
         /\ \A T \in SUBSET S : /\ IsFiniteSet(T) /\ Cardinality(T) \in Nat
                                /\ Cardinality(T) <= Cardinality(S)
<1>1. IsFiniteSet(RowIds)
  BY CatalogAssumption, FS_Interval DEF RowIds
<1>2. IsFiniteSet(S) /\ Cardinality(S) \in Nat
  BY <1>1, FS_Subset, FS_CardinalityType
<1>3. ASSUME NEW T \in SUBSET S
      PROVE  /\ IsFiniteSet(T) /\ Cardinality(T) \in Nat
             /\ Cardinality(T) <= Cardinality(S)
  BY <1>2, FS_Subset, FS_CardinalityType
<1>. QED BY <1>2, <1>3

\* A set of rows has an oldest.
LEMMA SmallestId ==
  ASSUME NEW S \in SUBSET RowIds, S # {}
  PROVE  \E m \in S : \A k \in S : m <= k
<1>. DEFINE Less == OpToRel(<, Nat)
<1>1. S \subseteq Nat
  BY CatalogAssumption DEF RowIds
<1>2. \A x, y \in Nat : <<x, y>> \in Less <=> x < y
  BY DEF OpToRel
<1>3. PICK m \in S : \A k \in S : <<k, m>> \notin Less
  BY <1>1, WFMin, NatLessThanWellFounded
<1>4. ASSUME NEW k \in S PROVE m <= k
  <2>1. m \in Nat /\ k \in Nat /\ <<k, m>> \notin Less
    BY <1>1, <1>3
  <2>. HIDE DEF Less
  <2>2. ~(k < m)
    BY <2>1, <1>2
  <2>. QED BY <2>1, <2>2
<1>. QED BY <1>4

\* The loop of Prune passes over no more rows than are to be kept.
LEMMA KeptFew ==
  ASSUME Inv, HistoryInv, NEW j \in Jobs, NEW keep \in Nat
  PROVE  Cardinality(CompletedOf(j) \ Beyond(CompletedOf(j), keep)) <= keep
<1>. DEFINE S == CompletedOf(j)
            T == S \ Beyond(S, keep)
            Before(id) == {k \in S : Newer(k, id)}
<1>0. S \in SUBSET RowIds /\ T \in SUBSET RowIds
  BY DEF CompletedOf
<1>1. \A id \in T : Before(id) \in SUBSET RowIds
                    /\ Cardinality(Before(id)) \in Nat
                    /\ Cardinality(Before(id)) < keep
  <2>1. \A id \in T : Before(id) \in SUBSET RowIds
    BY <1>0
  <2>2. \A id \in T : Cardinality(Before(id)) \in Nat
    BY <2>1, FiniteLists
  <2>3. \A id \in T : ~(Cardinality(Before(id)) >= keep)
    BY DEF Beyond
  <2>. QED BY <2>1, <2>2, <2>3
<1>2. CASE T = {}
  BY <1>2, FS_EmptySet
<1>3. CASE T # {}
  <2>1. PICK m \in T : \A k \in T : m <= k
    <3>. HIDE DEF T
    <3>. QED BY <1>0, <1>3, SmallestId
  <2>2. T \ {m} \subseteq Before(m)
    <3>. SUFFICES ASSUME NEW k \in T \ {m} PROVE Newer(k, m)
      OBVIOUS
    <3>1. /\ k \in RowIds /\ m \in RowIds /\ Present(k) /\ Present(m)
          /\ k # m /\ m <= k
      BY <2>1 DEF CompletedOf, Present
    <3>2. k > m
      BY <3>1, CatalogAssumption DEF RowIds
    <3>. QED BY <3>1, <3>2, Parts, NewerIsLarger
  <2>. HIDE DEF T, Before
  <2>3. Cardinality(T \ {m}) <= Cardinality(Before(m))
        /\ IsFiniteSet(T) /\ Cardinality(T) \in Nat
    BY <1>0, <1>1, <2>1, <2>2, FiniteLists
  <2>4. Cardinality(T \ {m}) = Cardinality(T) - 1
    BY <2>1, <2>3, FS_RemoveElement
  <2>5. Cardinality(T) <= keep
    BY <1>1, <2>1, <2>3, <2>4
  <2>. QED BY <2>5 DEF T
<1>. QED BY <1>2, <1>3

\* The completed rows of a job in flight change by no other run than its own.
LEMMA OthersCompleted ==
  ASSUME Inv, HistoryInv, NEW r \in Runners, Step(r), NEW s \in Runners \ {r},
         pc[s] \in HoldsJob
  PROVE  CompletedOf(run[s].job)' = CompletedOf(run[s].job)
<1>. DEFINE j == run[s].job
<1>0. run'[s] = run[s]
  BY Parts, OthersStay
<1>1. ASSUME NEW id \in RowIds, rows[id].status = "completed", rows[id].job = j
      PROVE  rows'[id] = rows[id]
  BY <1>1, Parts, JobsApart DEF Present
<1>2. ASSUME NEW id \in RowIds, rows'[id].status = "completed",
             rows'[id].job = j
      PROVE  rows'[id] = rows[id]
  <2>1. CASE OpenRow(r)
    BY <1>2, <2>1, Parts, Opens
  <2>2. CASE ~OpenRow(r)
    <3>1. Present(id) /\ rows[id].job = j
      BY <1>2, <2>2, Parts, KeptSteps DEF Kept, Present
    <3>. QED BY <3>1, Parts, JobsApart
  <2>. QED BY <2>1, <2>2
<1>3. \A id \in RowIds :
        rows'[id].status = "completed" /\ rows'[id].job = j
          <=> rows[id].status = "completed" /\ rows[id].job = j
  BY <1>1, <1>2
<1>. QED BY <1>0, <1>3 DEF CompletedOf

\* Stages in which no copy has been stored, and those of Prune.
Unkept == {"idle", "claimed", "loaded", "planning", "planFailed", "queued",
           "dumping", "dumpFailed"}
Pruning == {"pruning", "pruneLinks", "pruneObjects"}

\* Completed rows that are to stay when the loop of Prune has ended.
Spared(r) == {id \in CompletedOf(run[r].job) :
                \A v \in run[r].victims : v.id # id}

\* KeepLastBound while Prune is at it: what is no victim is little enough.
Bounded(r) ==
  /\ pc[r] \in Unkept => ~run[r].kept
  /\ pc[r] \in Pruning => Cardinality(Spared(r)) <= run[r].keepLast
  /\ pc[r] = "releasing" /\ run[r].kept /\ run[r].keepLast > 0
       => Cardinality(CompletedOf(run[r].job)) <= run[r].keepLast

BoundKept == \A r \in Runners : Bounded(r)

\* What is listed as a victim leaves few enough.
LEMMA ListedBounded ==
  ASSUME Inv, HistoryInv, NEW r \in Runners, ListVictims(r)
  PROVE  Bounded(r)'
<1>. DEFINE E == Excess(r)
<1>1. /\ pc[r] = "listing" /\ pc'[r] = "pruning" /\ UNCHANGED rows
      /\ run'[r].victims = Read(E) /\ run'[r].job = run[r].job
      /\ run'[r].keepLast = run[r].keepLast /\ run[r].keepLast \in Nat
  BY Parts DEF ListVictims, Goto, TypeOK, RunRecord, catalogVars, rowVars
<1>2. run[r].job \in Jobs
  BY <1>1, Parts DEF TypeOK, ClaimsHeld, HoldsJob, HoldsSlot
<1>3. Spared(r)' = CompletedOf(run[r].job) \ E
  <2>1. ASSUME NEW id PROVE (\A v \in Read(E) : v.id # id) <=> id \notin E
    <3>. HIDE DEF E
    <3>1. id \in E => [id |-> id, local |-> rows[id].local] \in Read(E)
      BY DEF Read
    <3>2. \A v \in Read(E) : v.id \in E
      BY DEF Read
    <3>. QED BY <3>1, <3>2
  <2>2. CompletedOf(run[r].job)' = CompletedOf(run[r].job)
    BY <1>1 DEF CompletedOf
  <2>. QED BY <1>1, <2>1, <2>2 DEF Spared
<1>4. Cardinality(Spared(r)') <= run[r].keepLast
  BY <1>1, <1>2, <1>3, KeptFew DEF Excess
<1>. QED BY <1>1, <1>4 DEF Bounded, Unkept

\* A run that retires a victim takes it out of the completed rows.
LEMMA RetiredBounded ==
  ASSUME "update" \notin Faults, Inv, HistoryInv, NEW r \in Runners,
         Bounded(r), RetireRow(r)
  PROVE  Bounded(r)'
<1>. DEFINE v == Victim(r)
<1>1. /\ v \in run[r].victims /\ v.id \in RowIds /\ rows[v.id].job = run[r].job
      /\ run'[r] = [run[r] EXCEPT !.victims = @ \ {v}]
      /\ pc[r] = "pruneObjects" /\ pc'[r] = "pruning"
      /\ rows[v.id].status = "completed" /\ run[r] \in RunRecord
  BY Parts, RetiresVictim DEF TypeOK
<1>2. rows' = [rows EXCEPT ![v.id].status = "deleted", ![v.id].local = FALSE]
  BY <1>1 DEF RetireRow, MayFail, MarkBackupDeleted, UpdateBackup, Present
<1>3. /\ rows'[v.id].status = "deleted"
      /\ \A k \in RowIds \ {v.id} : rows'[k] = rows[k]
  BY <1>1, <1>2, Parts, WrittenRow
<1>4. /\ run'[r].victims = run[r].victims \ {v} /\ run'[r].job = run[r].job
      /\ run'[r].keepLast = run[r].keepLast
  BY <1>1 DEF RunRecord
<1>5. Spared(r)' \subseteq Spared(r)
  <2>. HIDE DEF v
  <2>. QED BY <1>1, <1>3, <1>4 DEF Spared, CompletedOf
<1>6. Spared(r) \in SUBSET RowIds
  BY DEF Spared, CompletedOf
<1>7. Cardinality(Spared(r)') <= Cardinality(Spared(r))
      /\ Cardinality(Spared(r)) \in Nat /\ Cardinality(Spared(r)') \in Nat
  BY <1>5, <1>6, FiniteLists
<1>8. Cardinality(Spared(r)) <= run[r].keepLast /\ run[r].keepLast \in Nat
  BY <1>1 DEF Bounded, Pruning, RunRecord
<1>. QED BY <1>1, <1>4, <1>7, <1>8 DEF Bounded, Unkept

\* The other steps of the run.
LEMMA RunBounded ==
  ASSUME "query" \notin Faults, Inv, HistoryInv, NEW r \in Runners, Step(r),
         Bounded(r), ~ListVictims(r), ~RetireRow(r)
  PROVE  Bounded(r)'
<1>0. TypeOK
  BY Parts
<1>. USE <1>0 DEF TypeOK, RunRecord, Goto, Bounded, Unkept, Pruning
<1>1. CASE Trigger(r) \/ LoadJob(r) \/ LoadJobFails(r) \/ Leave(r)
           \/ OpenRow(r)
  BY <1>1 DEF Trigger, Claim, LoadJob, LoadJobFails, Leave, GiveBack, OpenRow,
              NoRun
<1>2. CASE PruneEnds(r)
  <2>1. /\ pc[r] = "pruning" /\ run[r].victims = {} /\ run' = run
        /\ pc'[r] = "releasing" /\ UNCHANGED rows
    BY <1>2 DEF PruneEnds, Pass, Unwind, HoldsSlot, catalogVars, rowVars
  <2>2. Spared(r) = CompletedOf(run[r].job)
        /\ CompletedOf(run[r].job)' = CompletedOf(run[r].job)
    BY <2>1 DEF Spared, CompletedOf
  <2>. QED BY <2>1, <2>2
<1>3. CASE PassStep(r) /\ ~PruneEnds(r)
  BY <1>3 DEF PassStep, OpenRowFails, LoadDestinationsFails, Dump, DumpFails,
              NothingLocal, KeepAll, MayFail, Pass, Unwind, HoldsSlot
<1>4. CASE LoadDestinations(r) \/ AcquireSlot(r) \/ ReleaseSlot(r)
  BY <1>4 DEF LoadDestinations, AcquireSlot, ReleaseSlot
<1>5. CASE Closes(r)
  BY <1>5 DEF Closes, FinishFailed, FinishRow, WriteRow, Unwind, HoldsSlot
<1>6. ASSUME NEW d \in Dests, Upload(r, d) \/ UploadFails(r, d)
      PROVE  Bounded(r)'
  BY <1>6 DEF Upload, UploadFails
<1>7. CASE MarkDestination(r) \/ SaveLocal(r)
  BY <1>7 DEF MarkDestination, SaveLocal
<1>8. CASE \/ DeleteFile(r) \/ ListLinks(r) \/ ListLinksFails(r)
           \/ \E d \in Dests : DeleteObject(r, d)
  <2>1. /\ pc[r] \in Pruning /\ pc'[r] \in Pruning /\ UNCHANGED rows
        /\ run'[r].victims = run[r].victims /\ run'[r].job = run[r].job
        /\ run'[r].keepLast = run[r].keepLast
    BY <1>8 DEF DeleteFile, ListLinks, ListLinksFails, DeleteObject, MayFail,
                catalogVars, rowVars
  <2>2. Spared(r)' = Spared(r)
    BY <2>1 DEF Spared, CompletedOf
  <2>. QED BY <2>1, <2>2
<1>. QED
  BY <1>1, <1>2, <1>3, <1>4, <1>5, <1>6, <1>7, <1>8
  DEF Step, RunnerStep, PassStep, Closes

\* No other run completes or retires a row of the job.
LEMMA OthersBounded ==
  ASSUME Inv, HistoryInv, NEW r \in Runners, Step(r), NEW s \in Runners \ {r},
         Bounded(s)
  PROVE  Bounded(s)'
<1>1. run'[s] = run[s] /\ pc'[s] = pc[s]
  BY Parts, OthersStay
<1>2. CASE pc[s] \in HoldsJob
  <2>1. CompletedOf(run[s].job)' = CompletedOf(run[s].job)
    BY <1>2, OthersCompleted
  <2>2. Spared(s)' = Spared(s)
    BY <1>1, <2>1 DEF Spared
  <2>. QED BY <1>1, <2>1, <2>2 DEF Bounded
<1>3. CASE pc[s] \notin HoldsJob
  BY <1>1, <1>3 DEF Bounded, Pruning, HoldsJob, HoldsSlot
<1>. QED BY <1>2, <1>3

\* After the retention of a completed run its job has no more completed backups
\* than were to be kept, while no query and no update fails.
THEOREM RetentionBound ==
  ASSUME "query" \notin Faults, "update" \notin Faults
  PROVE  Spec => []KeepLastBound
<1>1. Init => BoundKept
  BY DEF Init, NoRun, BoundKept, Bounded, Unkept, Pruning
<1>2. Inv /\ HistoryInv /\ BoundKept /\ [Next]_vars => BoundKept'
  <2>. SUFFICES ASSUME Inv, HistoryInv, BoundKept, [Next]_vars
                PROVE  BoundKept'
    OBVIOUS
  <2>1. ASSUME NEW r \in Runners, Step(r) PROVE BoundKept'
    <3>1. ASSUME NEW s \in Runners \ {r} PROVE Bounded(s)'
      BY <2>1, OthersBounded DEF BoundKept
    <3>2. Bounded(r)'
      BY <2>1, ListedBounded, RetiredBounded, RunBounded DEF BoundKept
    <3>. QED BY <3>1, <3>2 DEF BoundKept
  <2>2. CASE Crash
    BY <2>2 DEF Crash, NoRun, BoundKept, Bounded, Unkept, Pruning
  <2>3. CASE (\E j \in Jobs : EditJob(j)) \/ UNCHANGED vars
    <3>1. UNCHANGED <<rows, pc, run>>
      BY <2>3 DEF EditJob, vars, catalogVars, rowVars, engineVars
    <3>. QED BY <3>1 DEF BoundKept, Bounded, Spared, CompletedOf
  <2>. QED BY <2>1, <2>2, <2>3 DEF Next, EngineNext, Step
<1>3. BoundKept => KeepLastBound
  BY DEF BoundKept, Bounded, KeepLastBound
<1>. QED
  BY <1>1, <1>2, <1>3, Invariance, HistoryInvariance, PTL DEF Spec

-----------------------------------------------------------------------------
(* What is recorded.                                                       *)

\* Only a completed row records a local copy, and only a row that is neither
\* unused nor retired has links.
RowsBlank ==
  /\ \A id \in RowIds : rows[id].local => rows[id].status = "completed"
  /\ \A l \in links : rows[l[1]].status \in {"running", "completed", "failed"}

\* A row is written with the local copy it has, and retired with its links.
LEMMA BlankSteps ==
  ASSUME Inv, HistoryInv, RowsBlank, NEW r \in Runners, Step(r)
  PROVE  RowsBlank'
<1>0. /\ rows \in [RowIds -> RowRecord] /\ links \subseteq RowIds \X Dests
      /\ RowsInOrder /\ OwnRows /\ VictimsReplaceable
  BY Parts DEF CatalogTypeOK
<1>1. CASE OpenRow(r)
  BY <1>0, <1>1, Opens DEF RowsBlank
<1>2. CASE Closes(r)
  <2>1. \/ UNCHANGED rows
        \/ \E local \in BOOLEAN, status \in {"completed", "failed"} :
             /\ rows' = [rows EXCEPT ![run[r].row].status = status,
                                     ![run[r].row].local = local]
             /\ local => status = "completed"
    <3>1. run[r].local \in BOOLEAN
      BY Parts DEF TypeOK, RunRecord
    <3>. QED BY <1>0, <1>2, <3>1, ClosesOwn
  <2>2. run[r].row \in RowIds /\ UNCHANGED links
    BY <1>0, <1>2, ClosesOwn
  <2>3. CASE UNCHANGED rows
    BY <2>2, <2>3 DEF RowsBlank
  <2>4. ASSUME NEW local \in BOOLEAN, NEW status \in {"completed", "failed"},
               rows' = [rows EXCEPT ![run[r].row].status = status,
                                    ![run[r].row].local = local],
               local => status = "completed"
        PROVE  RowsBlank'
    <3>1. PICK id \in RowIds : id = run[r].row
      BY <2>2
    <3>2. rows' = [rows EXCEPT ![id].status = status, ![id].local = local]
      BY <2>4, <3>1
    <3>3. /\ rows'[id].status = status /\ rows'[id].local = local
          /\ \A k \in RowIds \ {id} : rows'[k] = rows[k]
      <4>1. rows[id] \in RowRecord
        BY <1>0
      <4>2. rows'[id] = [rows[id] EXCEPT !.status = status, !.local = local]
            /\ \A k \in RowIds \ {id} : rows'[k] = rows[k]
        BY <1>0, <3>2
      <4>. QED BY <4>1, <4>2 DEF RowRecord
    <3>. QED BY <1>0, <2>2, <2>4, <3>3 DEF RowsBlank
  <2>. QED BY <2>1, <2>3, <2>4
<1>3. CASE RetireRow(r)
  <2>. DEFINE v == Victim(r)
  <2>1. CASE UNCHANGED <<rows, links>>
    BY <2>1 DEF RowsBlank
  <2>2. CASE /\ rows' = [rows EXCEPT ![v.id].status = "deleted",
                                     ![v.id].local = FALSE]
             /\ links' = {l \in links : l[1] # v.id}
    <3>1. v.id \in RowIds
      BY <1>0, <1>3, RetiresVictim
    <3>2. /\ rows'[v.id].status = "deleted" /\ ~rows'[v.id].local
          /\ \A k \in RowIds \ {v.id} : rows'[k] = rows[k]
      BY <1>0, <2>2, <3>1, WrittenRow
    <3>. HIDE DEF v
    <3>. QED BY <1>0, <2>2, <3>1, <3>2 DEF RowsBlank
  <2>. QED BY <1>0, <1>3, <2>1, <2>2, RetiresVictim
<1>4. CASE ~OpenRow(r) /\ ~Closes(r) /\ ~RetireRow(r)
  <2>1. UNCHANGED rows
    BY <1>4, RowsStay DEF rowVars
  <2>2. ASSUME NEW l \in links'
        PROVE  rows[l[1]].status \in {"running", "completed", "failed"}
    BY <1>0, LinksGrow DEF RowsBlank
  <2>. QED BY <2>1, <2>2 DEF RowsBlank
<1>. QED BY <1>1, <1>2, <1>3, <1>4

\* Whatever fails, no row but a completed one records a local copy.
LEMMA BlankInvariance == Spec => []RowsBlank
<1>1. Init => RowsBlank
  BY DEF Init, CatalogInit, NoRow, RowsBlank
<1>2. Inv /\ HistoryInv /\ RowsBlank /\ [Next]_vars => RowsBlank'
  <2>. SUFFICES ASSUME Inv, HistoryInv, RowsBlank, [Next]_vars
                PROVE  RowsBlank'
    OBVIOUS
  <2>1. ASSUME NEW r \in Runners, Step(r) PROVE RowsBlank'
    BY <2>1, BlankSteps
  <2>2. CASE (\E j \in Jobs : EditJob(j)) \/ Crash \/ UNCHANGED vars
    BY <2>2 DEF EditJob, Crash, vars, catalogVars, rowVars, RowsBlank
  <2>. QED BY <2>1, <2>2 DEF Next, EngineNext, Step
<1>. QED BY <1>1, <1>2, Invariance, HistoryInvariance, PTL DEF Spec

\* What a run does to the victims it has listed, when no query and no update
\* fails: each is in the set until its row is retired.
LEMMA PrunedUntilRetired ==
  ASSUME "query" \notin Faults, "update" \notin Faults, Inv, HistoryInv,
         NEW r \in Runners, Step(r), NEW v \in run[r].victims,
         v \notin run'[r].victims
  PROVE  rows'[v.id].status = "deleted"
<1>0. TypeOK /\ run[r].victims \subseteq Victims
      /\ pc[r] \in {"pruning", "pruneLinks", "pruneObjects"}
  BY Parts DEF TypeOK, RunRecord, VictimsReplaceable
<1>1. CASE RetireRow(r)
  <2>0. run'[r].victims = run[r].victims \ {Victim(r)}
    BY <1>0, <1>1 DEF RetireRow, TypeOK, RunRecord
  <2>1. run'[r].victims = run[r].victims \ {Victim(r)}
        /\ Victim(r).id \in RowIds /\ Present(Victim(r).id)
    BY <1>1, <2>0, Parts, RetiresVictim DEF Present
  <2>2. v = Victim(r)
    BY <2>1
  <2>3. rows' = [rows EXCEPT ![v.id].status = "deleted", ![v.id].local = FALSE]
    BY <1>1, <2>1, <2>2
    DEF RetireRow, MayFail, MarkBackupDeleted, UpdateBackup
  <2>. QED BY <2>1, <2>2, <2>3, Parts, WrittenRow
<1>2. CASE ~RetireRow(r)
  <2>. USE <1>0 DEF TypeOK, RunRecord, Goto
  <2>1. CASE \/ Trigger(r) \/ LoadJob(r) \/ LoadJobFails(r) \/ Leave(r)
             \/ OpenRow(r) \/ Closes(r) \/ ListVictims(r)
    BY <2>1 DEF Trigger, Claim, LoadJob, LoadJobFails, Leave, GiveBack, OpenRow,
                Closes, FinishFailed, FinishRow, ListVictims
  <2>2. CASE PassStep(r)
    BY <2>2 DEF PassStep, OpenRowFails, LoadDestinationsFails, Dump, DumpFails,
                NothingLocal, KeepAll, PruneEnds, Pass
  <2>3. CASE \/ LoadDestinations(r) \/ AcquireSlot(r) \/ ReleaseSlot(r)
             \/ MarkDestination(r) \/ SaveLocal(r)
    BY <2>3 DEF LoadDestinations, AcquireSlot, ReleaseSlot, MarkDestination,
                SaveLocal
  <2>4. ASSUME NEW d \in Dests,
               Upload(r, d) \/ UploadFails(r, d) \/ DeleteObject(r, d)
        PROVE  run'[r].victims = run[r].victims
    BY <2>4 DEF Upload, UploadFails, DeleteObject
  <2>5. CASE DeleteFile(r) \/ ListLinks(r) \/ ListLinksFails(r)
    BY <2>5 DEF DeleteFile, ListLinks, ListLinksFails, MayFail
  <2>. QED
    BY <1>2, <2>1, <2>2, <2>3, <2>4, <2>5 DEF Step, RunnerStep, PassStep, Closes
<1>. QED BY <1>1, <1>2

\* A row that is being pruned is so until it is retired; any other keeps the
\* copies it records.
LEMMA RecordedSteps ==
  ASSUME "query" \notin Faults, "update" \notin Faults, Inv, HistoryInv,
         RowsBlank, RowsBlank', RecordedCopiesExist, NEW r \in Runners, Step(r)
  PROVE  RecordedCopiesExist'
<1>0. /\ TypeOK /\ RowsInOrder /\ VictimsReplaceable /\ OwnRows
  BY Parts
<1>. SUFFICES ASSUME NEW id \in RowIds
              PROVE  Shared(id)' \/ BeingPruned(id)' \/ CopiesExist(id)'
  BY DEF RecordedCopiesExist
<1>1. CASE OpenRow(r) /\ id = nextRow
  <2>1. ~rows'[id].local /\ UNCHANGED links
    BY <1>0, <1>1, Opens
  <2>2. \A d : <<id, d>> \notin links
    <3>1. nextRow \in Int
      BY <1>1, CatalogAssumption DEF RowIds
    <3>. QED BY <1>0, <1>1, <3>1 DEF RowsInOrder
  <2>. QED BY <2>1, <2>2 DEF CopiesExist, LinksOf
<1>2. CASE rows'[id].status \in {"absent", "deleted"}
  <2>1. ~rows'[id].local /\ \A d : <<id, d>> \notin links'
    BY <1>2 DEF RowsBlank
  <2>. QED BY <2>1 DEF CopiesExist, LinksOf
<1>3. CASE /\ ~(OpenRow(r) /\ id = nextRow)
           /\ rows'[id].status \notin {"absent", "deleted"}
  <2>1. Present(id)
    <3>1. CASE OpenRow(r)
      BY <1>0, <1>3, <3>1, Opens DEF Present
    <3>2. CASE ~OpenRow(r)
      BY <1>0, <1>3, <3>2, KeptSteps DEF Kept, Present
    <3>. QED BY <3>1, <3>2
  <2>2. CASE Shared(id)
    BY <2>1, <2>2, SharedStays
  <2>3. ASSUME NEW s \in Runners, NEW v \in run[s].victims, v.id = id
        PROVE  BeingPruned(id)'
    <3>1. v \in run'[s].victims
      <4>1. CASE s = r
        BY <1>3, <2>3, <4>1, PrunedUntilRetired
      <4>2. CASE s # r
        BY <1>0, <4>2, OthersStay
      <4>. QED BY <4>1, <4>2
    <3>. QED BY <2>3, <3>1 DEF BeingPruned
  <2>4. CASE ~Shared(id) /\ ~BeingPruned(id)
    <3>1. CopiesExist(id)
      BY <2>4 DEF RecordedCopiesExist
    <3>2. ~Gone(r, Name(id))
      BY <1>0, <2>4, GoneIsShared DEF Gone, BeingPruned
    <3>3. CASE OpenRow(r)
      <4>1. rows'[id] = rows[id] /\ UNCHANGED <<dests, links, files, objects>>
        BY <1>0, <1>3, <3>3, Opens
      <4>. QED BY <3>1, <4>1 DEF CopiesExist, LinksOf, Name
    <3>4. CASE ~OpenRow(r)
      BY <1>3, <2>1, <2>4, <3>1, <3>2, <3>4, CopiesLeft
    <3>. QED BY <3>3, <3>4
  <2>. QED BY <2>2, <2>3, <2>4 DEF BeingPruned
<1>. QED BY <1>1, <1>2, <1>3

\* What the history lists can be restored: without crashes, failed queries and
\* failed updates, a row has every copy it records unless it is being pruned or
\* shares its name; dumps, stores, marks and deletions may fail.
THEOREM ListedIsRestorable ==
  ASSUME "query" \notin Faults, "update" \notin Faults, MaxCrashes = 0
  PROVE  Spec => []RecordedCopiesExist
<1>1. Init => RecordedCopiesExist
  BY DEF Init, CatalogInit, NoRow, RecordedCopiesExist, CopiesExist, LinksOf
<1>2. Inv /\ HistoryInv /\ RowsBlank /\ RowsBlank' /\ RecordedCopiesExist
        /\ [Next]_vars => RecordedCopiesExist'
  <2>. SUFFICES ASSUME Inv, HistoryInv, RowsBlank, RowsBlank',
                       RecordedCopiesExist, [Next]_vars
                PROVE  RecordedCopiesExist'
    OBVIOUS
  <2>1. ASSUME NEW r \in Runners, Step(r) PROVE RecordedCopiesExist'
    BY <2>1, RecordedSteps
  <2>2. ~Crash
    BY DEF Crash, Inv, TypeOK
  <2>3. CASE (\E j \in Jobs : EditJob(j)) \/ UNCHANGED vars
    <3>1. UNCHANGED <<dests, rows, nextRow, links, files, objects, run>>
      BY <2>3 DEF EditJob, vars, catalogVars, configVars, rowVars, storeVars,
                  engineVars
    <3>. QED BY <3>1 DEF RecordedCopiesExist, Shared, BeingPruned, CopiesExist,
                         LinksOf, Name
  <2>. QED BY <2>1, <2>2, <2>3 DEF Next, EngineNext, Step
<1>. QED
  BY <1>1, <1>2, BlankInvariance, Invariance, HistoryInvariance, PTL DEF Spec

-----------------------------------------------------------------------------
(* What is stored.                                                         *)

\* A row shown as running whose run is gone: the process died, or the update
\* that was to close the row failed.
Abandoned(id) ==
  /\ rows[id].status = "running"
  /\ \A r \in Runners : pc[r] \in Writing => run[r].row # id

\* The row records its file, or its run is about to, or never will.
FileKnown(id) ==
  \/ rows[id].local
  \/ \E r \in Runners : pc[r] = "finishing" /\ run[r].local /\ run[r].row = id
  \/ Abandoned(id)

\* The same of its object at a destination.
ObjectKnown(id, d) ==
  \/ <<id, d>> \in links
  \/ \E r \in Runners : /\ pc[r] = "marking" /\ d \in run[r].sent
                        /\ run[r].row = id
  \/ Abandoned(id)

FilesKnown == \A n \in files : \E id \in RowIds : Name(id) = n /\ FileKnown(id)
ObjectsKnown ==
  \A o \in objects : \E id \in RowIds : Name(id) = o[2] /\ ObjectKnown(id, o[1])

\* A run marks one destination at a time, and a local copy makes it completed.
OwnSends ==
  \A r \in Runners :
    /\ pc[r] = "marking" => \E d \in Dests : run[r].sent = {d}
    /\ pc[r] = "finishing" /\ run[r].local => run[r].kept

\* What Prune has read of a victim is still so.
VictimsRead ==
  \A r \in Runners : \A v \in run[r].victims : v.local = rows[v.id].local

InHand(r, v) ==
  v \in run[r].victims /\ \A w \in run[r].victims : w.id <= v.id

\* The copies of the victim in hand that the loop of Prune has passed are gone.
Emptied(r) ==
  \A v \in run[r].victims : InHand(r, v) =>
    /\ pc[r] \in {"pruneLinks", "pruneObjects"} /\ v.local
         => Name(v.id) \notin files
    /\ pc[r] = "pruneObjects" =>
         \A d \in Dests \ run[r].todo :
           <<v.id, d>> \in links => <<d, Name(v.id)>> \notin objects

HandEmptied == \A r \in Runners : Emptied(r)

\* No destination is deleted by the engine.
AllDests == dests = Dests

\* The strengthening that is inductive: what is stored is recorded, about to be,
\* or that of an abandoned row.
Accounted ==
  /\ AllDests /\ OwnSends /\ VictimsRead /\ HandEmptied
  /\ FilesKnown /\ ObjectsKnown

\* Two runs that have yet to report have two rows.
LEMMA RowsApart ==
  ASSUME Inv, HistoryInv, NEW r \in Runners, NEW s \in Runners, r # s,
         pc[r] \in Writing, pc[s] \in Writing
  PROVE  run[r].row # run[s].row
BY OwnRow, Parts DEF OneRunPerJob

\* What is known is the copy of a row in use.
LEMMA KnownStatus ==
  ASSUME Inv, HistoryInv, RowsBlank, NEW id \in RowIds
  PROVE  /\ FileKnown(id) => rows[id].status \in {"running", "completed"}
         /\ \A d : ObjectKnown(id, d) =>
              rows[id].status \in {"running", "completed", "failed"}
<1>1. ASSUME NEW r \in Runners, pc[r] \in {"finishing", "marking"},
             run[r].row = id
      PROVE  rows[id].status = "running"
  BY <1>1, OwnRow DEF Writing
<1>2. ASSUME NEW d, <<id, d>> \in links
      PROVE  rows[id].status \in {"running", "completed", "failed"}
  BY <1>2 DEF RowsBlank
<1>. QED BY <1>1, <1>2 DEF FileKnown, ObjectKnown, Abandoned, RowsBlank

\* An abandoned row is nobody's for ever.
LEMMA AbandonedStays ==
  ASSUME Inv, HistoryInv, NEW r \in Runners, Step(r), NEW id \in RowIds,
         Abandoned(id)
  PROVE  Abandoned(id)'
<1>0. /\ RowsInOrder /\ OwnRows /\ VictimsReplaceable /\ TypeOK
      /\ rows[id].status = "running" /\ rows \in [RowIds -> RowRecord]
  BY Parts DEF Abandoned
<1>1. rows'[id].status = "running"
  <2>1. CASE OpenRow(r)
    BY <1>0, <2>1, Opens
  <2>2. CASE Closes(r)
    <3>1. id # run[r].row
      BY <1>0, <2>2, ClosesOwn DEF Abandoned
    <3>. QED BY <1>0, <2>2, <3>1, ClosesOwn
  <2>3. CASE RetireRow(r)
    BY <1>0, <2>3, RetiresVictim
  <2>4. CASE ~OpenRow(r) /\ ~Closes(r) /\ ~RetireRow(r)
    BY <1>0, <2>4, RowsStay DEF rowVars
  <2>. QED BY <2>1, <2>2, <2>3, <2>4
<1>2. ASSUME NEW s \in Runners, pc'[s] \in Writing PROVE run'[s].row # id
  <2>1. CASE s # r
    BY <1>0, <1>2, <2>1, OthersStay DEF Abandoned
  <2>2. CASE s = r /\ OpenRow(r)
    BY <1>0, <2>2, Opens
  <2>3. CASE s = r /\ ~OpenRow(r)
    BY <1>0, <1>2, <2>3, WritingSteps DEF Abandoned
  <2>. QED BY <2>1, <2>2, <2>3
<1>. QED BY <1>1, <1>2 DEF Abandoned

\* A run whose report is not written abandons its row.
LEMMA Abandons ==
  ASSUME Inv, HistoryInv, NEW r \in Runners, Closes(r), UNCHANGED rows
  PROVE  Abandoned(run[r].row)'
<1>0. /\ pc[r] \in Writing /\ pc'[r] \notin Writing /\ run' = run
      /\ rows'[run[r].row].status = "running"
  BY Parts, ClosesOwn DEF Writing
<1>1. ASSUME NEW s \in Runners, pc'[s] \in Writing PROVE run[s].row # run[r].row
  <2>1. s # r
    BY <1>0, <1>1
  <2>2. pc[s] \in Writing
    BY <1>1, <2>1, Parts, OthersStay DEF Closes, Step, RunnerStep
  <2>. QED BY <1>0, <2>1, <2>2, RowsApart
<1>. QED BY <1>0, <1>1 DEF Abandoned

\* What a step adds to the stores.
LEMMA Stored ==
  ASSUME NEW r \in Runners, Step(r)
  PROVE  /\ \A n \in files' : n \notin files =>
              SaveLocal(r) /\ n = run[r].name
         /\ \A o \in objects' : o \notin objects =>
              \E d \in Dests : Upload(r, d) /\ o = <<d, run[r].name>>
<1>1. ASSUME SaveLocal(r)
      PROVE  files' = files \union {run[r].name} /\ objects' = objects
  BY <1>1 DEF SaveLocal
<1>2. ASSUME NEW d \in Dests, Upload(r, d)
      PROVE  files' = files /\ objects' = objects \union {<<d, run[r].name>>}
  BY <1>2 DEF Upload
<1>3. ASSUME ~SaveLocal(r), ~\E d \in Dests : Upload(r, d)
      PROVE  files' \subseteq files /\ objects' \subseteq objects
  BY <1>3
  DEF catalogVars, storeVars, configVars, Step, Trigger, Claim, AcquireSlot,
      RunnerStep, LoadJob, LoadJobFails, GiveBack, OpenRow, OpenRowFails, Pass,
      LoadDestinations, LoadDestinationsFails, Dump, DumpFails, FinishFailed,
      WriteRow, UploadFails, MarkDestination, NothingLocal, DeleteFile,
      DeleteObject, FinishRow, ListVictims, KeepAll, ListLinks, ListLinksFails,
      RetireRow, PruneEnds, ReleaseSlot, Leave
<1>4. ASSUME NEW n \in files', n \notin files
      PROVE  SaveLocal(r) /\ n = run[r].name
  BY <1>1, <1>2, <1>3, <1>4
<1>5. ASSUME NEW o \in objects', o \notin objects
      PROVE  \E d \in Dests : Upload(r, d) /\ o = <<d, run[r].name>>
  BY <1>1, <1>2, <1>3, <1>5
<1>. QED BY <1>4, <1>5

\* Retention takes links, and with them the row; nothing else does.
LEMMA LinksStay ==
  ASSUME Inv, HistoryInv, NEW r \in Runners, Step(r), NEW l \in links,
         l \notin links'
  PROVE  RetireRow(r) /\ l[1] = Victim(r).id
<1>1. ASSUME MarkDestination(r) PROVE FALSE
  BY <1>1 DEF MarkDestination, MarkBackupDestination
<1>2. ASSUME ~MarkDestination(r), ~RetireRow(r) PROVE links' = links
  BY <1>2
  DEF catalogVars, Step, Trigger, Claim, AcquireSlot, RunnerStep, LoadJob,
      LoadJobFails, GiveBack, OpenRow, OpenRowFails, Pass, LoadDestinations,
      LoadDestinationsFails, Dump, DumpFails, FinishFailed, WriteRow, Upload,
      UploadFails, DeleteObject, SaveLocal, NothingLocal, FinishRow,
      ListVictims, KeepAll, DeleteFile, ListLinks, ListLinksFails, PruneEnds,
      ReleaseSlot, Leave
<1>3. RetireRow(r)
  BY <1>1, <1>2
<1>4. links' = links \/ links' = {k \in links : k[1] # Victim(r).id}
  BY <1>3, Parts, RetiresVictim
<1>. QED BY <1>3, <1>4

\* The stages of a run in which it has a copy to record, and the victim in hand.
LEMMA StageSteps ==
  ASSUME TypeOK, NEW r \in Runners, Step(r)
  PROVE  /\ pc'[r] = "marking" => \E d \in Dests : Upload(r, d)
         /\ pc'[r] = "finishing" => SaveLocal(r) \/ NothingLocal(r)
         /\ pc'[r] \in {"pruneLinks", "pruneObjects"} =>
              \/ DeleteFile(r) \/ ListLinks(r)
              \/ \E d \in Dests : DeleteObject(r, d)
         /\ pc[r] = "marking" => MarkDestination(r)
         /\ pc[r] = "finishing" => FinishRow(r)
<1>. DEFINE Good ==
       /\ pc'[r] \notin {"marking", "finishing", "pruneLinks", "pruneObjects"}
       /\ pc[r] \notin {"marking", "finishing"}
<1>. USE DEF TypeOK, RunRecord, Goto
<1>1. CASE Trigger(r) \/ LoadJob(r) \/ LoadJobFails(r) \/ Leave(r)
           \/ OpenRow(r)
  <2>1. Good
    BY <1>1 DEF Trigger, Claim, LoadJob, LoadJobFails, Leave, GiveBack, OpenRow
  <2>. QED BY <2>1
<1>2. CASE PassStep(r) /\ ~NothingLocal(r)
  <2>1. Good
    BY <1>2 DEF PassStep, OpenRowFails, LoadDestinationsFails, Dump, DumpFails,
                KeepAll, PruneEnds, Pass, Unwind, HoldsSlot
  <2>. QED BY <2>1
<1>3. CASE NothingLocal(r)
  BY <1>3 DEF NothingLocal, Pass
<1>4. CASE LoadDestinations(r) \/ AcquireSlot(r) \/ ReleaseSlot(r)
           \/ ListVictims(r) \/ ListLinksFails(r) \/ RetireRow(r)
  <2>1. Good
    BY <1>4 DEF LoadDestinations, AcquireSlot, ReleaseSlot, ListVictims,
                ListLinksFails, RetireRow
  <2>. QED BY <2>1
<1>5. CASE FinishFailed(r) \/ FinishRow(r)
  BY <1>5 DEF FinishFailed, FinishRow, WriteRow, Unwind, HoldsSlot
<1>6. CASE SaveLocal(r) \/ MarkDestination(r) \/ DeleteFile(r) \/ ListLinks(r)
  BY <1>6 DEF SaveLocal, MarkDestination, DeleteFile, ListLinks
<1>7. ASSUME NEW d \in Dests, Upload(r, d) \/ DeleteObject(r, d)
      PROVE  /\ pc'[r] = "marking" => Upload(r, d)
             /\ pc'[r] # "finishing" /\ pc[r] \notin {"marking", "finishing"}
             /\ pc'[r] \in {"pruneLinks", "pruneObjects"} => DeleteObject(r, d)
  BY <1>7 DEF Upload, DeleteObject
<1>8. ASSUME NEW d \in Dests, UploadFails(r, d)
      PROVE  Good
  BY <1>8 DEF UploadFails
<1>. HIDE DEF Good
<1>9. Good => /\ pc'[r] \notin {"marking", "finishing", "pruneLinks",
                                "pruneObjects"}
              /\ pc[r] \notin {"marking", "finishing"}
  BY DEF Good
<1>. QED
  BY <1>1, <1>2, <1>3, <1>4, <1>5, <1>6, <1>7, <1>8, <1>9
  DEF Step, RunnerStep, PassStep

\* A copy that is stored is one to record.
LEMMA SendSteps ==
  ASSUME Inv, HistoryInv, OwnSends, NEW r \in Runners, Step(r)
  PROVE  OwnSends'
<1>0. TypeOK /\ StoredCopies
  BY Parts
<1>1. ASSUME NEW s \in Runners, s # r
      PROVE  /\ pc'[s] = "marking" => \E d \in Dests : run'[s].sent = {d}
             /\ pc'[s] = "finishing" /\ run'[s].local => run'[s].kept
  BY <1>0, <1>1, OthersStay DEF OwnSends
<1>2. pc'[r] = "marking" => \E d \in Dests : run'[r].sent = {d}
  <2>1. ASSUME NEW d \in Dests, Upload(r, d) PROVE run'[r].sent = {d}
    BY <1>0, <2>1 DEF Upload, TypeOK, RunRecord
  <2>. QED BY <1>0, <2>1, StageSteps
<1>3. pc'[r] = "finishing" /\ run'[r].local => run'[r].kept
  <2>1. CASE SaveLocal(r)
    BY <1>0, <2>1 DEF SaveLocal, TypeOK, RunRecord
  <2>2. CASE NothingLocal(r)
    BY <1>0, <2>2
    DEF NothingLocal, Pass, Goto, StoredCopies, Unstored, Writing
  <2>. QED BY <1>0, <2>1, <2>2, StageSteps
<1>. QED BY <1>1, <1>2, <1>3 DEF OwnSends

\* Of the victims one is in hand.
LEMMA TheVictim ==
  ASSUME Inv, HistoryInv, NEW r \in Runners, NEW v, InHand(r, v)
  PROVE  v = Victim(r)
<1>1. Victim(r) \in run[r].victims /\ v \in run[r].victims
      /\ v.id <= Victim(r).id /\ Victim(r).id <= v.id
  BY Parts, VictimInHand DEF InHand
<1>2. v.id \in Int /\ Victim(r).id \in Int
  BY <1>1, Parts, CatalogAssumption DEF TypeOK, RunRecord, Victims, RowIds
<1>3. v.id = Victim(r).id
  BY <1>1, <1>2
<1>. QED BY <1>1, <1>3, Parts DEF VictimsReplaceable, Replaceable

\* A victim is the completed row of a run that holds its job.
LEMMA VictimRow ==
  ASSUME Inv, HistoryInv, NEW r \in Runners, NEW v \in run[r].victims
  PROVE  /\ v \in Victims /\ v.id \in RowIds /\ rows[v.id].status = "completed"
         /\ rows[v.id].job = run[r].job /\ Present(v.id)
         /\ pc[r] \in {"pruning", "pruneLinks", "pruneObjects"}
         /\ pc[r] \in HoldsJob
BY Parts
DEF TypeOK, RunRecord, Victims, VictimsReplaceable, Replaceable, Present,
    HoldsJob, HoldsSlot

\* A victim that is read, or still in the list, is as its row says.
LEMMA ReadSteps ==
  ASSUME Inv, HistoryInv, VictimsRead, NEW r \in Runners, Step(r)
  PROVE  VictimsRead'
<1>0. TypeOK
  BY Parts
<1>1. ASSUME NEW s \in Runners, s # r, NEW v \in run'[s].victims
      PROVE  v.local = rows'[v.id].local
  <2>1. v \in run[s].victims
    BY <1>0, <1>1, OthersStay
  <2>2. rows'[v.id] = rows[v.id]
    BY <1>1, <2>1, VictimRow, Parts, JobsApart
  <2>. QED BY <2>1, <2>2 DEF VictimsRead
<1>2. ASSUME NEW v \in run'[r].victims
      PROVE  v.local = rows'[v.id].local
  <2>1. CASE ListVictims(r)
    <3>1. run'[r].victims = Read(Excess(r)) /\ UNCHANGED rows
      BY <1>0, <2>1 DEF ListVictims, TypeOK, RunRecord, catalogVars, rowVars
    <3>. QED BY <1>2, <3>1 DEF Read
  <2>2. CASE ~ListVictims(r)
    <3>1. v \in run[r].victims
      BY <1>0, <1>2, <2>2, Parts, VictimSteps
      DEF VictimsReplaceable, VictimsInLoop
    <3>2. ASSUME RetireRow(r) PROVE v.id # Victim(r).id
      <4>0. run'[r].victims = run[r].victims \ {Victim(r)}
        BY <1>0, <3>2 DEF RetireRow, TypeOK, RunRecord
      <4>1. v # Victim(r) /\ Victim(r) \in run[r].victims
        BY <1>2, <3>2, <4>0, Parts, RetiresVictim
      <4>. QED BY <3>1, <4>1, Parts DEF VictimsReplaceable, Replaceable
    <3>3. rows'[v.id] = rows[v.id]
      BY <3>1, <3>2, VictimRow, Parts, CompletedStay
    <3>. QED BY <3>1, <3>3 DEF VictimsRead
  <2>. QED BY <2>1, <2>2
<1>. QED BY <1>1, <1>2 DEF VictimsRead

\* Nothing but a run's own steps adds a copy of the run's name.
LEMMA OwnNames ==
  ASSUME Inv, HistoryInv, NEW r \in Runners, Step(r),
         NEW s \in Runners \ {r}, pc[s] \in HoldsJob,
         NEW id \in RowIds, rows[id].job = run[s].job
  PROVE  /\ Name(id) \in files' => Name(id) \in files
         /\ \A d : <<d, Name(id)>> \in objects' => <<d, Name(id)>> \in objects
<1>1. ASSUME SaveLocal(r) \/ \E d \in Dests : Upload(r, d)
      PROVE  run[r].name # Name(id)
  <2>1. pc[r] = "uploading"
    BY <1>1 DEF SaveLocal, Upload, Goto
  <2>2. Name(run[r].row) = run[r].name /\ rows[run[r].row].job = run[r].job
        /\ pc[r] \in HoldsJob
    BY <2>1, OwnRow DEF Writing
  <2>3. run[r].job # run[s].job
    BY <2>2, Parts DEF OneRunPerJob
  <2>. QED BY <2>2, <2>3 DEF Name
<1>2. ASSUME Name(id) \in files' PROVE Name(id) \in files
  BY <1>1, <1>2, Stored
<1>3. ASSUME NEW d, <<d, Name(id)>> \in objects'
      PROVE  <<d, Name(id)>> \in objects
  <2>. SUFFICES ASSUME <<d, Name(id)>> \notin objects PROVE FALSE
    OBVIOUS
  <2>1. PICK e \in Dests : Upload(r, e) /\ <<d, Name(id)>> = <<e, run[r].name>>
    BY <1>3, Stored
  <2>. QED BY <1>1, <2>1
<1>. QED BY <1>2, <1>3

\* What Prune has deleted stays deleted while the victim is in hand: of the
\* names of a job, only the job's run stores copies.
LEMMA OthersEmptied ==
  ASSUME Inv, HistoryInv, HandEmptied, NEW r \in Runners, Step(r),
         NEW s \in Runners, s # r
  PROVE  Emptied(s)'
<1>0. run'[s] = run[s] /\ pc'[s] = pc[s]
  BY Parts, OthersStay
<1>. SUFFICES ASSUME NEW v \in run[s].victims, InHand(s, v)
              PROVE  /\ pc[s] \in {"pruneLinks", "pruneObjects"} /\ v.local
                          => Name(v.id)' \notin files'
                     /\ pc[s] = "pruneObjects" =>
                          \A d \in Dests \ run[s].todo :
                            <<v.id, d>> \in links' =>
                              <<d, Name(v.id)'>> \notin objects'
  BY <1>0 DEF Emptied, InHand
<1>1. /\ v.id \in RowIds /\ Present(v.id) /\ rows[v.id].job = run[s].job
      /\ pc[s] \in HoldsJob /\ rows[v.id].status = "completed"
  BY VictimRow
<1>2. Name(v.id)' = Name(v.id)
  BY <1>1, SharedStays
<1>3. /\ Name(v.id) \in files' => Name(v.id) \in files
      /\ \A d : <<d, Name(v.id)>> \in objects' => <<d, Name(v.id)>> \in objects
  BY <1>1, OwnNames
<1>4. \A d : <<v.id, d>> \in links' => <<v.id, d>> \in links
  BY <1>1, Parts, LinksGrow
<1>5. Emptied(s)
  BY DEF HandEmptied
<1>. QED BY <1>2, <1>3, <1>4, <1>5 DEF Emptied

\* The loop of Prune passes a copy when it is gone.
LEMMA OwnEmptied ==
  ASSUME "delete" \notin Faults, Inv, HistoryInv, AllDests, HandEmptied,
         NEW r \in Runners, Step(r)
  PROVE  Emptied(r)'
<1>0. TypeOK /\ Emptied(r)
  BY Parts DEF HandEmptied
<1>. USE DEF MayFail
<1>1. CASE pc'[r] \notin {"pruneLinks", "pruneObjects"}
  BY <1>1 DEF Emptied
<1>2. CASE DeleteFile(r) \/ ListLinks(r) \/ \E d \in Dests : DeleteObject(r, d)
  <2>1. run'[r].victims = run[r].victims /\ UNCHANGED <<rows, links, dests>>
    BY <1>0, <1>2
    DEF DeleteFile, ListLinks, DeleteObject, TypeOK, RunRecord, catalogVars,
        configVars, rowVars
  <2>. SUFFICES ASSUME NEW v \in run[r].victims, InHand(r, v)
                PROVE  /\ v.local => Name(v.id) \notin files'
                       /\ pc'[r] = "pruneObjects" =>
                            \A d \in Dests \ run'[r].todo :
                              <<v.id, d>> \in links =>
                                <<d, Name(v.id)>> \notin objects'
    BY <2>1 DEF Emptied, InHand, Name
  <2>2. v = Victim(r)
    BY TheVictim
  <2>3. CASE DeleteFile(r)
    BY <1>0, <2>2, <2>3 DEF DeleteFile, Goto, TypeOK
  <2>4. CASE ListLinks(r)
    <3>1. /\ pc[r] = "pruneLinks" /\ UNCHANGED files
          /\ run'[r].todo = LinksOf(v.id)
      BY <1>0, <2>2, <2>4
      DEF ListLinks, Goto, TypeOK, RunRecord, catalogVars, storeVars
    <3>2. \A d \in Dests \ run'[r].todo : <<v.id, d>> \notin links
      BY <3>1 DEF LinksOf, AllDests
    <3>. QED BY <1>0, <3>1, <3>2 DEF Emptied
  <2>5. ASSUME NEW d \in Dests, DeleteObject(r, d)
        PROVE  /\ pc[r] = "pruneObjects" /\ UNCHANGED files
               /\ run'[r].todo = run[r].todo \ {d}
               /\ objects' = objects \ {<<d, Name(v.id)>>}
    BY <1>0, <2>2, <2>5 DEF DeleteObject, TypeOK, RunRecord
  <2>6. CASE \E d \in Dests : DeleteObject(r, d)
    BY <1>0, <2>5, <2>6 DEF Emptied
  <2>. QED BY <1>2, <2>3, <2>4, <2>6
<1>. QED BY <1>0, <1>1, <1>2, StageSteps

\* The victim that is retired has no copy left that its row records.
LEMMA RetiredEmpty ==
  ASSUME Inv, HistoryInv, AllDests, VictimsRead, HandEmptied,
         NEW r \in Runners, RetireRow(r)
  PROVE  LET id == Victim(r).id IN
         /\ rows[id].local => Name(id) \notin files
         /\ \A d \in Dests : <<id, d>> \in links
                               => <<d, Name(id)>> \notin objects
<1>1. /\ pc[r] = "pruneObjects" /\ Victim(r) \in run[r].victims
      /\ \A w \in run[r].victims : w.id <= Victim(r).id
  BY Parts, RetiresVictim, VictimInHand
<1>2. InHand(r, Victim(r)) /\ run[r].todo = {}
  BY <1>1 DEF InHand, RetireRow, ObjectsVisited
<1>. QED BY <1>1, <1>2 DEF HandEmptied, Emptied, VictimsRead

\* A known copy is recorded by its run, stays recorded, or is abandoned; what is
\* recorded by the row that is retired is gone.
LEMMA FileSteps ==
  ASSUME Inv, HistoryInv, RowsBlank, Accounted, NEW r \in Runners, Step(r)
  PROVE  FilesKnown'
<1>. SUFFICES ASSUME NEW n \in files'
              PROVE  \E id \in RowIds : Name(id)' = n /\ FileKnown(id)'
  BY DEF FilesKnown
<1>0. TypeOK
  BY Parts
<1>1. CASE n \notin files
  <2>1. SaveLocal(r) /\ n = run[r].name
    BY <1>1, Stored
  <2>2. /\ pc'[r] = "finishing" /\ run'[r].local /\ run'[r].row = run[r].row
        /\ pc[r] \in Writing
    BY <1>0, <2>1 DEF SaveLocal, Goto, TypeOK, RunRecord, Writing
  <2>3. run[r].row \in RowIds /\ Name(run[r].row)' = n
    BY <2>1, <2>2, OwnRow, SharedStays
  <2>. QED BY <2>2, <2>3 DEF FileKnown
<1>2. CASE n \in files
  <2>1. PICK id \in RowIds : Name(id) = n /\ FileKnown(id)
    BY <1>2 DEF Accounted, FilesKnown
  <2>2. rows[id].status \in {"running", "completed"} /\ Present(id)
    BY <2>1, KnownStatus DEF Present
  <2>3. Name(id)' = n
    BY <2>1, <2>2, SharedStays
  <2>4. CASE rows[id].local
    <3>1. rows[id].status = "completed"
      BY <2>4 DEF RowsBlank
    <3>2. ~(RetireRow(r) /\ id = Victim(r).id)
      BY <1>2, <2>1, <2>4, RetiredEmpty DEF Accounted
    <3>3. rows'[id] = rows[id]
      BY <3>1, <3>2, Parts, CompletedStay
    <3>. QED BY <2>3, <2>4, <3>3 DEF FileKnown
  <2>5. ASSUME NEW s \in Runners, pc[s] = "finishing", run[s].local,
               run[s].row = id
        PROVE  FileKnown(id)'
    <3>1. CASE s # r
      BY <1>0, <2>5, <3>1, OthersStay DEF FileKnown
    <3>2. CASE s = r
      <4>1. FinishRow(r) /\ run[r].kept
        BY <1>0, <2>5, <3>2, StageSteps DEF Accounted, OwnSends
      <4>2. CASE UNCHANGED rows
        <5>1. Closes(r)
          BY <4>1 DEF Closes
        <5>2. Abandoned(run[r].row)'
          BY <4>2, <5>1, Abandons
        <5>3. run'[r].row = id
          BY <2>5, <3>2, <5>1, Parts, ClosesOwn
        <5>4. Abandoned(id)'
          BY <5>2, <5>3
        <5>. QED BY <5>4 DEF FileKnown
      <4>3. CASE ~UNCHANGED rows
        <5>0. PICK local \in BOOLEAN : local = run[r].local
          BY <1>0 DEF TypeOK, RunRecord
        <5>1. UpdateBackup(id, "completed", local)
          BY <2>5, <3>2, <4>1, <4>3, <5>0 DEF FinishRow, WriteRow, StoredLocal
        <5>2. rows' = [rows EXCEPT ![id].status = "completed",
                                   ![id].local = local]
          BY <2>2, <5>1 DEF UpdateBackup
        <5>3. rows'[id].local = local
          BY <5>2, Parts DEF RowRecord
        <5>4. rows'[id].local
          BY <2>5, <3>2, <5>0, <5>3
        <5>. QED BY <5>4 DEF FileKnown
      <4>. QED BY <4>2, <4>3
    <3>. QED BY <3>1, <3>2
  <2>6. CASE Abandoned(id)
    BY <2>3, <2>6, AbandonedStays DEF FileKnown
  <2>. QED BY <2>1, <2>3, <2>4, <2>5, <2>6 DEF FileKnown
<1>. QED BY <1>1, <1>2

\* The same of the objects: the destination that is being marked is linked.
LEMMA ObjectSteps ==
  ASSUME "mark" \notin Faults, Inv, HistoryInv, RowsBlank, Accounted,
         NEW r \in Runners, Step(r)
  PROVE  ObjectsKnown'
<1>. SUFFICES ASSUME NEW o \in objects'
              PROVE  \E id \in RowIds : Name(id)' = o[2]
                                          /\ ObjectKnown(id, o[1])'
  BY DEF ObjectsKnown
<1>0. TypeOK /\ objects \subseteq Dests \X Names
  BY Parts DEF CatalogTypeOK
<1>1. CASE o \notin objects
  <2>1. PICK d \in Dests : Upload(r, d) /\ o = <<d, run[r].name>>
    BY <1>1, Stored
  <2>2. /\ pc'[r] = "marking" /\ run'[r].sent = {d} /\ run'[r].row = run[r].row
        /\ pc[r] \in Writing
    BY <1>0, <2>1 DEF Upload, Goto, TypeOK, RunRecord, Writing
  <2>3. PICK id \in RowIds : id = run[r].row
    BY <2>2, OwnRow
  <2>4. Name(id)' = o[2] /\ o[1] = d
    BY <2>1, <2>2, <2>3, OwnRow, SharedStays
  <2>5. ObjectKnown(id, d)'
    BY <2>2, <2>3 DEF ObjectKnown
  <2>. QED BY <2>4, <2>5
<1>2. CASE o \in objects
  <2>0. PICK d \in Dests : d = o[1]
    BY <1>0, <1>2
  <2>1. PICK id \in RowIds : Name(id) = o[2] /\ ObjectKnown(id, d)
    BY <1>2, <2>0 DEF Accounted, ObjectsKnown
  <2>2. Present(id)
    BY <2>1, KnownStatus DEF Present
  <2>3. Name(id)' = o[2] /\ o = <<d, Name(id)>>
    BY <1>0, <1>2, <2>0, <2>1, <2>2, SharedStays
  <2>4. ASSUME <<id, d>> \in links PROVE ObjectKnown(id, d)'
    <3>1. ~(RetireRow(r) /\ id = Victim(r).id)
      BY <1>2, <2>3, <2>4, RetiredEmpty DEF Accounted
    <3>2. <<id, d>> \in links'
      <4>. SUFFICES ASSUME <<id, d>> \notin links' PROVE FALSE
        OBVIOUS
      <4>1. RetireRow(r) /\ <<id, d>>[1] = Victim(r).id
        BY <2>4, LinksStay
      <4>. QED BY <3>1, <4>1
    <3>. QED BY <3>2 DEF ObjectKnown
  <2>5. ASSUME NEW s \in Runners, pc[s] = "marking", d \in run[s].sent,
               run[s].row = id
        PROVE  ObjectKnown(id, d)'
    <3>1. CASE s # r
      BY <1>0, <2>5, <3>1, OthersStay DEF ObjectKnown
    <3>2. CASE s = r
      <4>1. MarkDestination(r)
        BY <1>0, <2>5, <3>2, StageSteps
      <4>2. run[r].sent = {d}
        BY <2>5, <3>2 DEF Accounted, OwnSends
      <4>3. CanMark(id, d)
        BY <2>2, <2>3 DEF CanMark, Accounted, AllDests
      <4>4. <<id, d>> \in links'
        BY <2>5, <3>2, <4>1, <4>2, <4>3
        DEF MarkDestination, MayFail, MarkBackupDestination
      <4>. QED BY <4>4 DEF ObjectKnown
    <3>. QED BY <3>1, <3>2
  <2>6. ASSUME Abandoned(id) PROVE ObjectKnown(id, d)'
    BY <2>6, AbandonedStays DEF ObjectKnown
  <2>7. ObjectKnown(id, d)'
    BY <2>1, <2>4, <2>5, <2>6 DEF ObjectKnown
  <2>. QED BY <2>0, <2>3, <2>7
<1>. QED BY <1>1, <1>2

\* A crash abandons the rows of the runs it ends.
LEMMA EnvironmentAccounted ==
  ASSUME Inv, HistoryInv, Accounted,
         (\E j \in Jobs : EditJob(j)) \/ Crash \/ UNCHANGED vars
  PROVE  Accounted'
<1>1. UNCHANGED <<dests, rows, links, files, objects>>
  BY DEF EditJob, Crash, vars, catalogVars, configVars, rowVars, storeVars
<1>2. CASE UNCHANGED <<pc, run>>
  <2>1. /\ AllDests' /\ OwnSends' /\ VictimsRead' /\ HandEmptied'
    BY <1>1, <1>2
    DEF Accounted, AllDests, OwnSends, VictimsRead, HandEmptied, Emptied,
        InHand, Name
  <2>2. ASSUME NEW id \in RowIds
        PROVE  /\ Name(id)' = Name(id) /\ FileKnown(id)' = FileKnown(id)
               /\ \A d : ObjectKnown(id, d)' = ObjectKnown(id, d)
    BY <1>1, <1>2 DEF Name, FileKnown, ObjectKnown, Abandoned
  <2>3. FilesKnown' /\ ObjectsKnown'
    BY <1>1, <2>2 DEF Accounted, FilesKnown, ObjectsKnown
  <2>. QED BY <2>1, <2>3 DEF Accounted
<1>3. CASE Crash
  <2>1. \A r \in Runners : pc'[r] = "idle" /\ run'[r].victims = {}
    BY <1>3 DEF Crash, NoRun
  <2>2. /\ AllDests' /\ OwnSends' /\ VictimsRead' /\ HandEmptied'
    BY <1>1, <2>1
    DEF Accounted, AllDests, OwnSends, VictimsRead, HandEmptied, Emptied
  <2>3. ASSUME NEW id \in RowIds
        PROVE  /\ Name(id)' = Name(id) /\ (Abandoned(id) => Abandoned(id)')
               /\ \A r \in Runners :
                    pc[r] \in Writing /\ run[r].row = id => Abandoned(id)'
    BY <1>1, <2>1, OwnRow DEF Name, Abandoned, Writing
  <2>4. ASSUME NEW id \in RowIds
        PROVE  /\ FileKnown(id) => FileKnown(id)'
               /\ \A d : ObjectKnown(id, d) => ObjectKnown(id, d)'
    BY <1>1, <2>3 DEF FileKnown, ObjectKnown, Writing
  <2>5. FilesKnown' /\ ObjectsKnown'
    BY <1>1, <2>3, <2>4 DEF Accounted, FilesKnown, ObjectsKnown
  <2>. QED BY <2>2, <2>5 DEF Accounted
<1>. QED BY <1>2, <1>3 DEF EditJob, vars, engineVars

\* Whatever else fails and whenever the process dies, every copy is accounted
\* for, if what is stored can be marked and deleted.
LEMMA AccountedInvariance ==
  ASSUME "mark" \notin Faults, "delete" \notin Faults
  PROVE  Spec => []Accounted
<1>1. Init => Accounted
  BY DEF Init, CatalogInit, NoRun, Accounted, AllDests, OwnSends, VictimsRead,
         HandEmptied, Emptied, FilesKnown, ObjectsKnown
<1>2. Inv /\ HistoryInv /\ RowsBlank /\ Accounted /\ [Next]_vars => Accounted'
  <2>. SUFFICES ASSUME Inv, HistoryInv, RowsBlank, Accounted, [Next]_vars
                PROVE  Accounted'
    OBVIOUS
  <2>0. /\ AllDests /\ OwnSends /\ VictimsRead /\ HandEmptied
    BY DEF Accounted
  <2>1. ASSUME NEW r \in Runners, Step(r) PROVE Accounted'
    <3>1. AllDests'
      BY <2>0, <2>1, Parts, StoresStay DEF AllDests
    <3>2. HandEmptied'
      BY <2>0, <2>1, OthersEmptied, OwnEmptied DEF HandEmptied
    <3>. QED
      BY <2>0, <2>1, <3>1, <3>2, SendSteps, ReadSteps, FileSteps, ObjectSteps
      DEF Accounted
  <2>2. CASE (\E j \in Jobs : EditJob(j)) \/ Crash \/ UNCHANGED vars
    BY <2>2, EnvironmentAccounted
  <2>. QED BY <2>1, <2>2 DEF Next, EngineNext, Step
<1>. QED
  BY <1>1, <1>2, BlankInvariance, Invariance, HistoryInvariance, PTL DEF Spec

\* A deleted row "holds no file anywhere": while marks and deletions succeed, a
\* copy of a deleted row's name is that of another row of the same second --
\* though queries, updates, dumps and stores fail and the process restarts.
THEOREM DeletedIsEmpty ==
  ASSUME "mark" \notin Faults, "delete" \notin Faults
  PROVE  Spec => []DeletedHoldsNoFile
<1>1. Inv /\ HistoryInv /\ RowsBlank /\ Accounted => DeletedHoldsNoFile
  <2>. SUFFICES ASSUME Inv, HistoryInv, RowsBlank, Accounted,
                       NEW id \in RowIds, rows[id].status = "deleted",
                       ~Shared(id)
                PROVE  /\ Name(id) \notin files
                       /\ \A d \in Dests : <<d, Name(id)>> \notin objects
    BY DEF DeletedHoldsNoFile
  <2>1. ASSUME NEW k \in RowIds, Name(k) = Name(id), Present(k)
        PROVE  k = id
    BY <2>1, Parts DEF Shared, RowsInOrder
  <2>2. ASSUME Name(id) \in files PROVE FALSE
    <3>1. PICK k \in RowIds : Name(k) = Name(id) /\ FileKnown(k)
      BY <2>2 DEF Accounted, FilesKnown
    <3>2. rows[k].status \in {"running", "completed"}
      BY <3>1, KnownStatus
    <3>. QED BY <2>1, <3>1, <3>2 DEF Present
  <2>3. ASSUME NEW d \in Dests, <<d, Name(id)>> \in objects PROVE FALSE
    <3>1. PICK k \in RowIds : Name(k) = Name(id) /\ ObjectKnown(k, d)
      BY <2>3 DEF Accounted, ObjectsKnown
    <3>2. rows[k].status \in {"running", "completed", "failed"}
      BY <3>1, KnownStatus
    <3>. QED BY <2>1, <3>1, <3>2 DEF Present
  <2>. QED BY <2>2, <2>3
<1>. QED
  BY <1>1, AccountedInvariance, BlankInvariance, Invariance, HistoryInvariance,
     PTL

\* No stored copy is forgotten: while marks, deletions and updates succeed and
\* the process does not crash, every file and every object is recorded by a row
\* or about to be -- though queries, dumps and stores fail.
THEOREM NothingForgotten ==
  ASSUME "mark" \notin Faults, "delete" \notin Faults, "update" \notin Faults,
         MaxCrashes = 0
  PROVE  Spec => []NoOrphans
<1>1. Inv /\ HistoryInv /\ RunningOwned /\ Accounted => NoOrphans
  <2>. SUFFICES ASSUME Inv, HistoryInv, RunningOwned, Accounted PROVE NoOrphans
    OBVIOUS
  <2>1. \A id \in RowIds : ~Abandoned(id)
    BY DEF RunningOwned, Abandoned
  <2>2. ASSUME NEW n \in files
        PROVE  \/ \E id \in RowIds : rows[id].local /\ Name(id) = n
               \/ \E r \in Runners : pc[r] = "finishing" /\ run[r].local
                                       /\ run[r].name = n
    <3>1. PICK id \in RowIds : Name(id) = n /\ FileKnown(id)
      BY DEF Accounted, FilesKnown
    <3>2. CASE rows[id].local
      BY <3>1, <3>2
    <3>3. ASSUME NEW r \in Runners, pc[r] = "finishing", run[r].local,
                 run[r].row = id
          PROVE  run[r].name = n
      BY <3>1, <3>3, OwnRow DEF Writing
    <3>. QED BY <2>1, <3>1, <3>2, <3>3 DEF FileKnown
  <2>3. ASSUME NEW o \in objects
        PROVE  \/ \E id \in RowIds : o[1] \in LinksOf(id) /\ Name(id) = o[2]
               \/ \E r \in Runners : pc[r] = "marking" /\ o[1] \in run[r].sent
                                       /\ run[r].name = o[2]
    <3>1. PICK id \in RowIds : Name(id) = o[2] /\ ObjectKnown(id, o[1])
      BY DEF Accounted, ObjectsKnown
    <3>2. CASE <<id, o[1]>> \in links
      <4>1. o[1] \in dests
        BY Parts DEF CatalogTypeOK, Accounted, AllDests
      <4>. QED BY <3>1, <3>2, <4>1 DEF LinksOf
    <3>3. ASSUME NEW r \in Runners, pc[r] = "marking", o[1] \in run[r].sent,
                 run[r].row = id
          PROVE  run[r].name = o[2]
      BY <3>1, <3>3, OwnRow DEF Writing
    <3>. QED BY <2>1, <3>1, <3>2, <3>3 DEF ObjectKnown
  <2>. QED BY <2>2, <2>3 DEF NoOrphans
<1>. QED
  BY <1>1, AccountedInvariance, OwnedInvariance, Invariance, HistoryInvariance,
     PTL
=============================================================================

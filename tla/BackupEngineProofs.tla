------------------------- MODULE BackupEngineProofs -------------------------
(***************************************************************************)
(* Proofs about BackupEngine, for every set of jobs, destinations, runners *)
(* and faults and for every bound.  The inductive invariant is Inv.  Each  *)
(* of its parts is kept for a reason of its own, so each has a lemma with  *)
(* one step per action or group of actions, and the theorems combine them. *)
(* HistoryInv is inductive given Inv; from it follow that retention never  *)
(* costs a job its newest backup and that the engine implements            *)
(* BackupHistory.                                                          *)
(***************************************************************************)
EXTENDS BackupEngine, FiniteSetTheorems, WellFoundedInduction, TLAPS

USE CatalogAssumption, EngineAssumption

\* The steps that do nothing but go on.
PassStep(r) ==
  \/ OpenRowFails(r) \/ LoadDestinationsFails(r) \/ Dump(r) \/ DumpFails(r)
  \/ NothingLocal(r) \/ KeepAll(r) \/ PruneEnds(r)

\* A step that takes no job and gives none back.
Quiet ==
  /\ UNCHANGED running
  /\ \A s \in Runners : run'[s].job = run[s].job
  /\ \A s \in Runners : pc'[s] \in HoldsJob => pc[s] \in HoldsJob

\* A step that takes no slot and gives none back.
Settled == sema' = sema /\ Holders' = Holders

\* Inv but for the clock, which other writers of the history may move on.
Sound ==
  /\ TypeOK
  /\ ClaimsHeld /\ RowsOpened /\ OneRunPerJob
  /\ SlotsCounted /\ DumpCap

-----------------------------------------------------------------------------
(* The transactions of the catalog keep its rows typed.                    *)

\* UPDATE backups: whatever id it is given, the rows stay rows.
LEMMA UpdateBackupType ==
  ASSUME rows \in [RowIds -> RowRecord], NEW id, NEW status \in RowStatus,
         NEW local \in BOOLEAN, UpdateBackup(id, status, local)
  PROVE  rows' \in [RowIds -> RowRecord]
<1>1. CASE ~Present(id)
  BY <1>1 DEF UpdateBackup
<1>2. CASE Present(id) /\ id \in RowIds
  BY <1>2 DEF UpdateBackup, RowRecord
<1>3. CASE id \notin RowIds
  BY <1>3 DEF UpdateBackup
<1>. QED
  BY <1>1, <1>2, <1>3

\* INSERT INTO backups: the next row is a row.
LEMMA CreateBackupType ==
  ASSUME rows \in [RowIds -> RowRecord], NEW j \in Jobs,
      NEW started \in Stamps,
         nextRow \in RowIds, CreateBackup(j, started)
  PROVE  rows' \in [RowIds -> RowRecord]
BY DEF CreateBackup, RowRecord, Owners, RowStatus

-----------------------------------------------------------------------------
(* Initial states.                                                         *)

\* The process starts with an empty history and no run.
LEMMA InitInv == Init => Inv
<1>. SUFFICES ASSUME Init PROVE Inv
  OBVIOUS
<1>1. CatalogTypeOK
  BY
  DEF Init, CatalogInit, CatalogTypeOK, NoRow, RowRecord, Owners, RowStatus,
      Stamps, RowIds
<1>2. TypeOK
 <2>1. NoRun \in RunRecord BY DEF NoRun, RunRecord, Names, Owners, Stamps
 <2> QED BY <1>1, <2>1 DEF Init, TypeOK, Stages
<1>3. Holders = {} BY DEF Init, Holders, HoldsSlot
<1>4. SlotsCounted /\ DumpCap
  BY <1>3, FS_EmptySet DEF SlotsCounted, DumpCap, Init
<1>5. ClaimsHeld /\ RowsOpened /\ OneRunPerJob /\ clock < nextRow
  BY
  DEF Init, CatalogInit, ClaimsHeld, RowsOpened, OneRunPerJob, HoldsJob,
      HoldsSlot
<1>. QED BY <1>2, <1>4, <1>5 DEF Inv

-----------------------------------------------------------------------------
(* Types.                                                                  *)

\* No step of a run breaks a table.
LEMMA CatalogTypeSteps ==
  ASSUME Sound, clock' \in Stamps, NEW r \in Runners, RunnerStep(r)
  PROVE  CatalogTypeOK'
<1>. USE DEF catalogVars, configVars, rowVars, storeVars
<1>0. CatalogTypeOK /\ TypeOK /\ run[r] \in RunRecord
  BY DEF Sound, TypeOK
<1>1. CASE UNCHANGED catalogVars
  BY <1>0, <1>1 DEF CatalogTypeOK
<1>2. CASE OpenRow(r)
  <2>1. PICK started \in {clock, clock + 1} :
          clock' = started /\ CreateBackup(run[r].job, started)
    BY <1>2 DEF OpenRow
  <2>2. nextRow \in RowIds /\ started \in Stamps
    BY <1>0, <1>2, <2>1 DEF OpenRow, CatalogTypeOK, RowIds
  <2>3. run[r].job \in Jobs
    BY <1>2 DEF Sound, TypeOK, ClaimsHeld, OpenRow, Goto, HoldsJob
  <2>4. rows' \in [RowIds -> RowRecord]
    BY <1>0, <2>1, <2>2, <2>3, CreateBackupType DEF CatalogTypeOK
  <2>5. nextRow' = nextRow + 1 /\ nextRow' \in 1..(MaxRows + 1)
    BY <2>1, <2>2 DEF CreateBackup, RowIds
  <2>. QED
    BY <1>0, <1>2, <2>1, <2>2, <2>4, <2>5 DEF OpenRow, CatalogTypeOK, Stamps
<1>3. CASE FinishFailed(r) \/ FinishRow(r)
  <2>1. PICK status \in {"completed", "failed"},
      local \in BOOLEAN : WriteRow(r, status, local)
    BY <1>0, <1>3 DEF FinishFailed, FinishRow, StoredLocal, RunRecord
  <2>2. rows' \in [RowIds -> RowRecord]
    BY <1>0, <2>1, UpdateBackupType DEF WriteRow, CatalogTypeOK, RowStatus
  <2>. QED
    BY <1>0, <2>1, <2>2 DEF WriteRow, CatalogTypeOK
<1>4. ASSUME NEW d \in Dests, Upload(r, d) \/ DeleteObject(r, d)
      PROVE  CatalogTypeOK'
  BY <1>0, <1>4 DEF Upload, DeleteObject, CatalogTypeOK, RunRecord
<1>5. CASE MarkDestination(r)
  <2>1. run[r].row \in RowIds
    BY <1>5 DEF Sound, RowsOpened, MarkDestination, Goto, HoldsSlot
  <2>2. links' \in SUBSET (RowIds \X Dests)
    BY <1>0, <1>5, <2>1
    DEF MarkDestination, MarkBackupDestination, CatalogTypeOK, RunRecord
  <2>. QED BY <1>0, <1>5, <2>2 DEF MarkDestination, CatalogTypeOK
<1>6. CASE SaveLocal(r) \/ DeleteFile(r)
  BY <1>0, <1>6 DEF SaveLocal, DeleteFile, CatalogTypeOK, RunRecord
<1>7. CASE RetireRow(r)
  <2>1. rows' \in [RowIds -> RowRecord]
    BY <1>0, <1>7, UpdateBackupType
    DEF RetireRow, MarkBackupDeleted, CatalogTypeOK, RowStatus
  <2>2. links' \in SUBSET (RowIds \X Dests)
    BY <1>0, <1>7 DEF RetireRow, MarkBackupDeleted, CatalogTypeOK
  <2>. QED
    BY <1>0, <1>7, <2>1, <2>2 DEF RetireRow, CatalogTypeOK
<1>. QED
  BY <1>1, <1>2, <1>3, <1>4, <1>5, <1>6, <1>7
  DEF RunnerStep, LoadJob, LoadJobFails, GiveBack, OpenRowFails, Pass,
      LoadDestinations, LoadDestinationsFails, Dump, DumpFails, UploadFails,
      NothingLocal, ListVictims, KeepAll, ListLinks, ListLinksFails, PruneEnds,
      ReleaseSlot, Leave

\* The local variables of a run keep their types.
LEMMA RunTypeSteps ==
  ASSUME Sound, clock' \in Stamps, NEW r \in Runners, RunnerStep(r)
  PROVE  run' \in [Runners -> RunRecord]
<1>1. CatalogTypeOK /\ run \in [Runners -> RunRecord] /\ run[r] \in RunRecord
  BY DEF Sound, TypeOK
<1>2. CASE UNCHANGED run
  BY <1>1, <1>2
<1>3. ASSUME pc[r] \in HoldsJob
      PROVE  run[r].job \in Jobs /\ jobs[run[r].job] \in JobRecord
  BY <1>1, <1>3 DEF Sound, TypeOK, ClaimsHeld, CatalogTypeOK
<1>4. CASE LoadJob(r)
  <2>1. jobs[run[r].job] \in JobRecord
    BY <1>3, <1>4 DEF LoadJob, Goto, HoldsJob
  <2>2. jobs[run[r].job].keepLast \in Nat
        /\ jobs[run[r].job].destLocal \in BOOLEAN
    BY <2>1 DEF JobRecord
  <2>. QED
    BY <1>1, <1>4, <2>2 DEF LoadJob, RunRecord
<1>5. CASE LoadJobFails(r) \/ Leave(r)
  <2>1. NoRun \in RunRecord
    BY DEF NoRun, RunRecord, Names, Owners, Stamps
  <2>. QED
    BY <1>1, <1>5, <2>1 DEF LoadJobFails, Leave, GiveBack
<1>6. CASE OpenRow(r)
  <2>1. PICK started \in Stamps :
          run' = [run EXCEPT ![r].row = nextRow, ![r].name = <<run[r].job,
              started>>]
    BY <1>6 DEF OpenRow
  <2>2. nextRow \in 0..MaxRows
    BY <1>1, <1>6 DEF OpenRow, CatalogTypeOK
  <2>3. <<run[r].job, started>> \in Names
    BY <1>1, <2>2 DEF Names, Owners, RunRecord
  <2>. QED
    BY <1>1, <2>1, <2>2, <2>3 DEF RunRecord
<1>7. CASE LoadDestinations(r)
  <2>1. jobs[run[r].job] \in JobRecord
    BY <1>3, <1>7 DEF LoadDestinations, Goto, HoldsJob
  <2>2. jobs[run[r].job].dests \in SUBSET Dests
    BY <2>1 DEF JobRecord
  <2>. QED
    BY <1>1, <1>7, <2>2 DEF LoadDestinations, RunRecord
<1>8. ASSUME NEW d \in Dests, Upload(r, d) \/ UploadFails(r,
    d) \/ DeleteObject(r, d)
      PROVE  run' \in [Runners -> RunRecord]
  BY <1>1, <1>8 DEF Upload, UploadFails, DeleteObject, RunRecord
<1>9. CASE MarkDestination(r)
  <2>1. run' = [run EXCEPT ![r].sent = {}]
    BY <1>9 DEF MarkDestination
  <2>. QED
    BY <1>1, <2>1 DEF RunRecord
<1>13. CASE SaveLocal(r)
  BY <1>1, <1>13 DEF SaveLocal, RunRecord
<1>10. CASE ListVictims(r)
  <2>1. \A id \in RowIds : rows[id].local \in BOOLEAN
    BY <1>1 DEF CatalogTypeOK, RowRecord
  <2>2. Excess(r) \subseteq RowIds
    BY DEF Excess, Beyond, CompletedOf
  <2>3. Read(Excess(r)) \subseteq Victims
    BY <2>1, <2>2 DEF Read, Victims
  <2>. QED
    BY <1>1, <1>10, <2>3 DEF ListVictims, RunRecord
<1>11. CASE ListLinks(r)
  <2>1. LinksOf(Victim(r).id) \in SUBSET Dests
    BY <1>1 DEF LinksOf, CatalogTypeOK
  <2>. QED
    BY <1>1, <1>11, <2>1 DEF ListLinks, RunRecord
<1>12. CASE ListLinksFails(r) \/ RetireRow(r)
  BY <1>1, <1>12 DEF ListLinksFails, RetireRow, RunRecord
<1>. QED
  BY <1>2, <1>4, <1>5, <1>6, <1>7, <1>8, <1>9, <1>10, <1>11, <1>12, <1>13
  DEF RunnerStep, OpenRowFails, Pass, LoadDestinationsFails, Dump, DumpFails,
      FinishFailed, FinishRow, WriteRow, NothingLocal, KeepAll, DeleteFile,
      PruneEnds, ReleaseSlot

\* A run goes from stage to stage.
LEMMA PcTypeSteps ==
  ASSUME TypeOK, NEW r \in Runners, RunnerStep(r)
  PROVE  pc' \in [Runners -> Stages]
<1>. USE DEF TypeOK, Stages, HoldsJob, HoldsSlot, Goto
<1>1. CASE PassStep(r)
  BY <1>1 DEF PassStep, OpenRowFails, LoadDestinationsFails, Dump, DumpFails,
     NothingLocal, KeepAll, PruneEnds, Pass, Unwind
<1>2. CASE LoadJob(r) \/ LoadJobFails(r) \/ OpenRow(r) \/ LoadDestinations(r)
  BY <1>2 DEF LoadJob, LoadJobFails, GiveBack, OpenRow, LoadDestinations
<1>3. CASE FinishFailed(r) \/ FinishRow(r)
  BY <1>3 DEF FinishFailed, FinishRow, Unwind
<1>4. ASSUME NEW d \in Dests, Upload(r, d) \/ UploadFails(r,
    d) \/ DeleteObject(r, d)
      PROVE  pc' \in [Runners -> Stages]
  BY <1>4 DEF Upload, UploadFails, DeleteObject
<1>5. CASE MarkDestination(r) \/ SaveLocal(r)
  BY <1>5 DEF MarkDestination, SaveLocal
<1>6. CASE \/ ListVictims(r) \/ DeleteFile(r) \/ ListLinks(r)
          \/ ListLinksFails(r) \/ RetireRow(r)
  BY <1>6 DEF ListVictims, DeleteFile, ListLinks, ListLinksFails, RetireRow
<1>7. CASE ReleaseSlot(r) \/ Leave(r)
  BY <1>7 DEF ReleaseSlot, Leave, GiveBack
<1>. QED
  BY <1>1, <1>2, <1>3, <1>4, <1>5, <1>6, <1>7 DEF RunnerStep, PassStep

-----------------------------------------------------------------------------
(* Claims, slots and rows.                                                 *)

\* Only Claim, LoadJobFails and Leave touch Engine.running.
LEMMA QuietSteps ==
  ASSUME TypeOK, NEW r \in Runners,
         AcquireSlot(r) \/ (RunnerStep(r) /\ ~LoadJobFails(r) /\ ~Leave(r))
  PROVE  Quiet
<1>. USE DEF Quiet, TypeOK, HoldsJob, HoldsSlot, Goto
<1>1. CASE LoadJob(r) BY <1>1 DEF LoadJob, RunRecord
<1>2. CASE OpenRow(r) BY <1>2 DEF OpenRow
<1>3. CASE LoadDestinations(r) BY <1>3 DEF LoadDestinations
<1>4. CASE AcquireSlot(r) BY <1>4 DEF AcquireSlot
<1>5. CASE FinishFailed(r) BY <1>5 DEF FinishFailed, WriteRow, Unwind
<1>6. ASSUME NEW d \in Dests, Upload(r, d) PROVE Quiet BY <1>6 DEF Upload
<1>7. ASSUME NEW d \in Dests, UploadFails(r, d)
  PROVE Quiet BY <1>7 DEF UploadFails
<1>8. CASE MarkDestination(r) BY <1>8 DEF MarkDestination
<1>9. CASE SaveLocal(r) BY <1>9 DEF SaveLocal
<1>10. CASE FinishRow(r) BY <1>10 DEF FinishRow, WriteRow, Unwind
<1>11. CASE ListVictims(r) BY <1>11 DEF ListVictims
<1>12. CASE DeleteFile(r) BY <1>12 DEF DeleteFile
<1>13. CASE ListLinks(r) BY <1>13 DEF ListLinks
<1>14. CASE ListLinksFails(r) BY <1>14 DEF ListLinksFails
<1>15. ASSUME NEW d \in Dests, DeleteObject(r, d)
  PROVE Quiet BY <1>15 DEF DeleteObject
<1>16. CASE RetireRow(r) BY <1>16 DEF RetireRow
<1>17. CASE ReleaseSlot(r) BY <1>17 DEF ReleaseSlot
<1>18. CASE PassStep(r)
  BY <1>18
  DEF PassStep, OpenRowFails, LoadDestinationsFails, Dump, DumpFails,
      NothingLocal, KeepAll, PruneEnds, Pass, Unwind
<1>. QED
  BY <1>1, <1>2, <1>3, <1>4, <1>5, <1>6, <1>7, <1>8, <1>9, <1>10, <1>11,
      <1>12, <1>13, <1>14, <1>15, <1>16, <1>17, <1>18
  DEF RunnerStep, PassStep

\* Only AcquireSlot and ReleaseSlot touch Engine.sema.
LEMMA SettledSteps ==
  ASSUME TypeOK, NEW r \in Runners, RunnerStep(r), ~ReleaseSlot(r)
  PROVE  Settled
<1>. USE DEF Settled, TypeOK, HoldsSlot, Goto, Holders
<1>1. CASE LoadJob(r) BY <1>1 DEF LoadJob, RunRecord
<1>2. CASE OpenRow(r) BY <1>2 DEF OpenRow
<1>3. CASE LoadDestinations(r) BY <1>3 DEF LoadDestinations
<1>4. CASE LoadJobFails(r) \/ Leave(r)
  BY <1>4 DEF LoadJobFails, Leave, GiveBack
<1>5. CASE FinishFailed(r) BY <1>5 DEF FinishFailed, WriteRow, Unwind
<1>6. ASSUME NEW d \in Dests, Upload(r, d) PROVE Settled BY <1>6 DEF Upload
<1>7. ASSUME NEW d \in Dests, UploadFails(r, d)
  PROVE Settled BY <1>7 DEF UploadFails
<1>8. CASE MarkDestination(r) BY <1>8 DEF MarkDestination
<1>9. CASE SaveLocal(r) BY <1>9 DEF SaveLocal
<1>10. CASE FinishRow(r) BY <1>10 DEF FinishRow, WriteRow, Unwind
<1>11. CASE ListVictims(r) BY <1>11 DEF ListVictims
<1>12. CASE DeleteFile(r) BY <1>12 DEF DeleteFile
<1>13. CASE ListLinks(r) BY <1>13 DEF ListLinks
<1>14. CASE ListLinksFails(r) BY <1>14 DEF ListLinksFails
<1>15. ASSUME NEW d \in Dests, DeleteObject(r, d)
  PROVE Settled BY <1>15 DEF DeleteObject
<1>16. CASE RetireRow(r) BY <1>16 DEF RetireRow
<1>18. CASE PassStep(r)
  BY <1>18
  DEF PassStep, OpenRowFails, LoadDestinationsFails, Dump, DumpFails,
      NothingLocal, KeepAll, PruneEnds, Pass, Unwind
<1>. QED
  BY <1>1, <1>2, <1>3, <1>4, <1>5, <1>6, <1>7, <1>8, <1>9, <1>10, <1>11,
      <1>12, <1>13, <1>14, <1>15, <1>16, <1>18
  DEF RunnerStep, PassStep

\* The row is opened before the stages that use it.
LEMMA RowsOpenedSteps ==
  ASSUME Sound, NEW r \in Runners, RunnerStep(r)
  PROVE  RowsOpened'
<1>. DEFINE NeedsRow == HoldsSlot \union {"planning", "planFailed", "queued"}
<1>. SUFFICES ASSUME NEW s \in Runners, pc'[s] \in NeedsRow
              PROVE  run'[s].row \in RowIds
  BY DEF RowsOpened
<1>1. TypeOK /\ (pc[s] \in NeedsRow => run[s].row \in RowIds)
  BY DEF Sound, RowsOpened
<1>2. CASE OpenRow(r)
 <2>1. nextRow \in RowIds /\ run \in [Runners -> RunRecord]
   BY <1>2 DEF OpenRow, Sound, TypeOK, CatalogTypeOK, RowIds
 <2>2. s = r => run'[s].row = nextRow BY <1>2, <2>1 DEF OpenRow, RunRecord
 <2>3. s # r => run'[s] = run[s] /\ pc'[s] = pc[s]
   BY <1>1, <1>2 DEF OpenRow, Goto, TypeOK
 <2> QED BY <1>1, <2>1, <2>2, <2>3
<1>. DEFINE Same == /\ run'[s].row = run[s].row
                    /\ pc'[s] \in NeedsRow => pc[s] \in NeedsRow
<1>3. CASE PassStep(r)
  <2>. Same
    BY <1>1, <1>3 DEF PassStep, OpenRowFails, LoadDestinationsFails, Dump,
       DumpFails, NothingLocal, KeepAll, PruneEnds, Pass, Unwind, Goto,
           TypeOK, HoldsSlot
  <2>. QED BY <1>1
<1>4. CASE LoadJob(r) \/ LoadDestinations(r)
  <2>. Same
    BY <1>1, <1>4
    DEF LoadJob, LoadDestinations, Goto, TypeOK, HoldsSlot, RunRecord
  <2>. QED BY <1>1
<1>5. CASE LoadJobFails(r) \/ Leave(r)
  <2>1. s # r
    BY <1>1, <1>5 DEF LoadJobFails, Leave, GiveBack, Goto, TypeOK, HoldsSlot
  <2>. QED
    BY <1>1, <1>5, <2>1 DEF LoadJobFails, Leave, GiveBack, Goto, TypeOK
<1>6. CASE FinishFailed(r) \/ FinishRow(r)
  <2>. Same
    BY <1>1, <1>6
    DEF FinishFailed, FinishRow, WriteRow, Unwind, Goto, TypeOK, HoldsSlot
  <2>. QED BY <1>1
<1>7. ASSUME NEW d \in Dests, Upload(r, d) \/ UploadFails(r,
    d) \/ DeleteObject(r, d)
      PROVE  run'[s].row \in RowIds
  <2>. Same
    BY <1>1, <1>7
    DEF Upload, UploadFails, DeleteObject, Goto, TypeOK, HoldsSlot, RunRecord
  <2>. QED BY <1>1
<1>8. CASE MarkDestination(r) \/ SaveLocal(r)
  <2>. Same
    BY <1>1, <1>8
    DEF MarkDestination, SaveLocal, Goto, TypeOK, HoldsSlot, RunRecord
  <2>. QED BY <1>1
<1>9. CASE \/ ListVictims(r) \/ DeleteFile(r) \/ ListLinks(r)
          \/ ListLinksFails(r) \/ RetireRow(r)
  <2>. Same
    BY <1>1, <1>9
    DEF ListVictims, DeleteFile, ListLinks, ListLinksFails, RetireRow, Goto,
        TypeOK, HoldsSlot, RunRecord
  <2>. QED BY <1>1
<1>10. CASE ReleaseSlot(r)
  <2>. Same
    BY <1>1, <1>10 DEF ReleaseSlot, Goto, TypeOK, HoldsSlot
  <2>. QED BY <1>1
<1>. QED
  BY <1>2, <1>3, <1>4, <1>5, <1>6, <1>7, <1>8, <1>9, <1>10
  DEF RunnerStep, PassStep

-----------------------------------------------------------------------------
(* Every action preserves Sound.                                           *)

\* A step of a run's own code.
LEMMA RunnerSound ==
  ASSUME Sound, clock' \in Stamps, NEW r \in Runners, RunnerStep(r)
  PROVE  Sound'
<1>. USE DEF Sound
<1>1. CatalogTypeOK' /\ pc' \in [Runners -> Stages]
      /\ run' \in [Runners -> RunRecord] /\ RowsOpened'
  BY CatalogTypeSteps, PcTypeSteps, RunTypeSteps, RowsOpenedSteps
<1>2. running' \in SUBSET Jobs /\ crashes' \in 0..MaxCrashes
  BY
  DEF TypeOK, RunnerStep, LoadJob, LoadJobFails, GiveBack, OpenRow,
      OpenRowFails, Pass,
      LoadDestinations, LoadDestinationsFails, Dump, DumpFails, FinishFailed,
          WriteRow, Upload, UploadFails, DeleteObject,
      MarkDestination, SaveLocal, NothingLocal, FinishRow, ListVictims,
          KeepAll, DeleteFile, ListLinks, ListLinksFails, RetireRow, PruneEnds,
      ReleaseSlot, Leave
<1>3. ClaimsHeld' /\ OneRunPerJob'
 <2>1. CASE LoadJobFails(r) \/ Leave(r)
   <3>1. pc'[r] = "idle" /\ running' = running \ {run[r].job}
         /\ pc[r] \in HoldsJob
               /\ \A s \in Runners \ {r} : run'[s] = run[s] /\ pc'[s] = pc[s]
     BY <2>1 DEF LoadJobFails, Leave, GiveBack, Goto, TypeOK, HoldsJob
   <3> QED BY <3>1 DEF ClaimsHeld, OneRunPerJob, HoldsJob, HoldsSlot
 <2>2. CASE ~(LoadJobFails(r) \/ Leave(r))
  <3>1. Quiet BY <2>2, QuietSteps
  <3> QED BY <3>1 DEF Quiet, ClaimsHeld, OneRunPerJob
 <2> QED BY <2>1, <2>2
<1>4. SlotsCounted' /\ DumpCap' /\ sema' \in Nat
 <2>1. CASE ReleaseSlot(r)
   <3>1. IsFiniteSet(Holders) /\ r \in Holders
     BY <2>1, FS_Subset DEF ReleaseSlot, Goto, Holders, HoldsSlot
   <3>2. Holders' = Holders \ {r}
     BY <2>1 DEF ReleaseSlot, Goto, Holders, HoldsSlot, TypeOK
   <3>3. Cardinality(Holders') = Cardinality(Holders) - 1
         /\ Cardinality(Holders') \in Nat /\ Cardinality(Holders) \in Nat
     BY <3>1, <3>2, FS_RemoveElement, FS_CardinalityType
   <3> QED BY <2>1, <3>3 DEF ReleaseSlot, SlotsCounted, DumpCap
 <2>2. CASE ~ReleaseSlot(r)
   BY <2>2, SettledSteps DEF Settled, SlotsCounted, DumpCap, TypeOK
 <2> QED BY <2>1, <2>2
<1>. QED BY <1>1, <1>2, <1>3, <1>4 DEF TypeOK

\* The send to the semaphore: the one place where a slot is taken.
LEMMA AcquireSound ==
  ASSUME Sound, NEW r \in Runners, AcquireSlot(r)
  PROVE  Sound'
<1>1. TypeOK /\ UNCHANGED <<catalogVars, running, run, crashes>> /\ Goto(r,
    "queued", "dumping")
  BY DEF Sound, AcquireSlot
<1>2. CatalogTypeOK'
  BY <1>1
  DEF Sound, TypeOK, CatalogTypeOK, catalogVars, configVars, rowVars, storeVars
<1>3. RowsOpened' BY <1>1 DEF Sound, RowsOpened, Goto, HoldsSlot, TypeOK
<1>4. ClaimsHeld' /\ OneRunPerJob'
  <2>1. Quiet BY QuietSteps DEF Sound
  <2> QED BY <2>1 DEF Quiet, Sound, ClaimsHeld, OneRunPerJob
<1>5. SlotsCounted' /\ DumpCap' /\ sema' \in Nat
   <2>1. IsFiniteSet(Holders) /\ r \notin Holders
     BY <1>1, FS_Subset DEF Goto, Holders, HoldsSlot
   <2>2. Holders' = Holders \cup {r}
     BY <1>1 DEF Goto, Holders, HoldsSlot, TypeOK
   <2>3. Cardinality(Holders') = Cardinality(Holders) + 1
         /\ Cardinality(Holders) \in Nat
     BY <2>1, <2>2, FS_AddElement, FS_CardinalityType
   <2> QED BY <2>3 DEF AcquireSlot, SlotFree, SlotsCounted, DumpCap, Sound
<1>6. pc' \in [Runners -> Stages]
  BY <1>1 DEF TypeOK, Goto, Stages, HoldsJob, HoldsSlot
<1>7. TypeOK' BY <1>1, <1>2, <1>5, <1>6 DEF TypeOK
<1> QED BY <1>2, <1>3, <1>4, <1>5, <1>7 DEF Sound

\* LoadOrStore: the one place where a job is taken.
LEMMA ClaimSound ==
  ASSUME Sound, NEW r \in Runners, NEW j \in Jobs, Claim(r, j)
  PROVE  Sound'
<1>1. TypeOK /\ UNCHANGED <<catalogVars, sema, crashes>> /\ Goto(r, "idle",
    "claimed") /\ run[r] \in RunRecord
  BY DEF Sound, Claim, TypeOK
<1>2. CatalogTypeOK'
  BY <1>1
  DEF Sound, TypeOK, CatalogTypeOK, catalogVars, configVars, rowVars, storeVars
<1>3. /\ pc' = [pc EXCEPT ![r] = "claimed"]
      /\ run' \in [Runners -> RunRecord]
      /\ run'[r].job = j
      /\ \A s \in Runners \ {r} : run'[s] = run[s]
      /\ running' = running \cup {j}
      /\ j \notin running
  BY <1>1 DEF Claim, Goto, TypeOK, RunRecord, NotInFlight
<1>4. RowsOpened' BY <1>1, <1>3 DEF Sound, RowsOpened, HoldsSlot, TypeOK
<1>5. ClaimsHeld' /\ OneRunPerJob'
  BY <1>1, <1>3 DEF Sound, ClaimsHeld, OneRunPerJob, TypeOK
<1>6. Holders' = Holders BY <1>1, <1>3 DEF Goto, Holders, HoldsSlot, TypeOK
<1>7. TypeOK' BY <1>1, <1>2, <1>3 DEF TypeOK, Stages, HoldsJob
<1> QED BY <1>1, <1>2, <1>4, <1>5, <1>6, <1>7 DEF Sound, SlotsCounted, DumpCap

\* An edit of a job and a crash of the process.
LEMMA EnvironmentSound ==
  ASSUME Sound, (\E j \in Jobs : EditJob(j)) \/ Crash
  PROVE  Sound'
<1>1. CASE Crash
  <2>1. NoRun \in RunRecord
    BY DEF NoRun, RunRecord, Names, Owners, Stamps
  <2>2. CatalogTypeOK'
    BY <1>1
    DEF Sound, Crash, TypeOK, CatalogTypeOK, catalogVars, configVars, rowVars,
        storeVars
  <2>3. TypeOK' BY <1>1, <2>1, <2>2 DEF Sound, Crash, TypeOK, Stages
  <2>4. Holders' = {} BY <1>1 DEF Crash, Holders, HoldsSlot
  <2>5. SlotsCounted' /\ DumpCap'
    BY <1>1, <2>4, FS_EmptySet DEF Crash, SlotsCounted, DumpCap
  <2>6. ClaimsHeld' /\ RowsOpened' /\ OneRunPerJob'
    BY <1>1
    DEF Crash, ClaimsHeld, RowsOpened, OneRunPerJob, HoldsJob, HoldsSlot
  <2> QED BY <2>2, <2>3, <2>5, <2>6 DEF Sound
<1>2. ASSUME NEW j \in Jobs, EditJob(j) PROVE Sound'
  <2>1. PICK c \in Configs : jobs' = [jobs EXCEPT ![j] = c]
    BY <1>2 DEF EditJob, UpdateJob
  <2>2. CatalogTypeOK'
     BY <1>2, <2>1 DEF EditJob, Sound, TypeOK, CatalogTypeOK, rowVars, storeVars
  <2>3. UNCHANGED engineVars BY <1>2 DEF EditJob
  <2> QED
    BY <2>2, <2>3
    DEF engineVars, Sound, TypeOK, ClaimsHeld, RowsOpened, OneRunPerJob,
        SlotsCounted, DumpCap, Holders
<1> QED BY <1>1, <1>2


\* So does every step of the engine.
LEMMA SoundSteps ==
  ASSUME Sound, [Next]_vars, clock' \in Stamps PROVE Sound'
<1>1. ASSUME NEW r \in Runners, Trigger(r) PROVE Sound'
  BY <1>1, ClaimSound DEF Trigger
<1>2. CASE UNCHANGED vars
  BY <1>2
  DEF vars, catalogVars, configVars, rowVars, storeVars, engineVars, Sound,
      TypeOK, CatalogTypeOK, ClaimsHeld, RowsOpened, OneRunPerJob,
      SlotsCounted, DumpCap, Holders
<1>. QED
  BY <1>1, <1>2, AcquireSound, RunnerSound, EnvironmentSound
  DEF Next, EngineNext

\* The clock stays behind the row ids: a second passes at most once per row.
LEMMA ClockSteps ==
  ASSUME Inv, [Next]_vars PROVE clock' \in Stamps /\ clock' < nextRow'
<1>0. clock \in Stamps /\ nextRow \in 1..(MaxRows + 1) /\ clock < nextRow
  BY DEF Inv, TypeOK, CatalogTypeOK
<1>1. ASSUME NEW r \in Runners, OpenRow(r)
      PROVE  clock' \in Stamps /\ clock' < nextRow'
  BY <1>0, <1>1 DEF OpenRow, CreateBackup, Stamps
<1>2. CASE UNCHANGED <<nextRow, clock>>
  BY <1>0, <1>2
<1>3. ASSUME NEW r \in Runners, Trigger(r) \/ AcquireSlot(r) \/ RunnerStep(r),
             ~OpenRow(r)
      PROVE  UNCHANGED <<nextRow, clock>>
  BY <1>3
  DEF catalogVars, rowVars, Trigger, Claim, AcquireSlot, RunnerStep, LoadJob,
      LoadJobFails, GiveBack, OpenRowFails, Pass, LoadDestinations,
      LoadDestinationsFails, Dump, DumpFails, FinishFailed, WriteRow, Upload,
      UploadFails, DeleteObject, MarkDestination, SaveLocal, NothingLocal,
      FinishRow, ListVictims, KeepAll, DeleteFile, ListLinks, ListLinksFails,
      RetireRow, PruneEnds, ReleaseSlot, Leave
<1>4. CASE (\E j \in Jobs : EditJob(j)) \/ Crash \/ UNCHANGED vars
  BY <1>2, <1>4 DEF EditJob, Crash, vars, catalogVars, rowVars
<1>. QED BY <1>1, <1>2, <1>3, <1>4 DEF Next, EngineNext

\* The invariant of the engine is inductive.
LEMMA InvSteps == ASSUME Inv, [Next]_vars PROVE Inv'
<1>1. Sound /\ clock' \in Stamps /\ clock' < nextRow'
  BY ClockSteps DEF Inv, Sound
<1>. QED BY <1>1, SoundSteps DEF Inv, Sound

-----------------------------------------------------------------------------
(* Theorems.                                                               *)

\* Inv holds in every reachable state.
THEOREM Invariance == Spec => []Inv
BY InitInv, InvSteps, PTL DEF Spec

\* Every variable has its type; a slot is never given back that was not taken.
THEOREM TypeCorrectness == Spec => []TypeOK
BY Invariance, PTL DEF Inv

\* Trigger never lets two backups of one job run at once, however the runs end
\* and whenever the process restarts.
THEOREM RunExclusion == Spec => []OneRunPerJob
BY Invariance, PTL DEF Inv

\* The semaphore caps the dumps, for any capacity and any number of runners.
THEOREM DumpConcurrency == Spec => []DumpCap
BY Invariance, PTL DEF Inv

-----------------------------------------------------------------------------
(* The history.                                                            *)

\* A step of a runner, whatever it is.
Step(r) == Trigger(r) \/ AcquireSlot(r) \/ RunnerStep(r)

-----------------------------------------------------------------------------
(* The newest of a set of rows.                                            *)

\* A set of bounded numbers has a largest one.
LEMMA LargestOf ==
  ASSUME NEW N \in Nat, NEW S \in SUBSET (0..N), S # {}
  PROVE  \E m \in S : \A k \in S : k <= m
<1>. DEFINE T == {N - k : k \in S}
            Less == OpToRel(<, Nat)
<1>1. T \subseteq Nat /\ T # {}
  <2>1. \A k \in S : N - k \in Nat
    OBVIOUS
  <2>. QED BY <2>1
<1>2. \A x, y \in Nat : <<x, y>> \in Less <=> x < y
  BY DEF OpToRel
<1>3. PICK x \in T : \A y \in T : <<y, x>> \notin Less
  <2>. HIDE DEF T
  <2>. QED BY <1>1, WFMin, NatLessThanWellFounded
<1>4. ASSUME NEW y \in T PROVE x <= y
  <2>1. x \in Nat /\ y \in Nat /\ <<y, x>> \notin Less
    BY <1>1, <1>3
  <2>. HIDE DEF Less, T
  <2>2. ~(y < x)
    BY <2>1, <1>2
  <2>. QED BY <2>1, <2>2
<1>5. PICK m \in S : x = N - m
  OBVIOUS
<1>6. \A k \in S : N - m <= N - k
  BY <1>4, <1>5
<1>. QED BY <1>6

\* A finite list has a last row.
LEMMA LargestId ==
  ASSUME NEW S \in SUBSET RowIds, S # {}
  PROVE  \E m \in S : \A k \in S : k <= m
<1>1. S \in SUBSET (0..MaxRows) /\ MaxRows \in Nat
  BY CatalogAssumption DEF RowIds
<1>. QED BY <1>1, LargestOf

\* Whatever the order of its rows, a list of rows has a first one.
LEMMA FirstOfList ==
  ASSUME CatalogTypeOK, NEW S \in SUBSET Victims, S # {},
         \A v, w \in S : v.id = w.id => v = w
  PROVE  First(S) \in S
<1>1. /\ \A v \in S : v.id \in RowIds /\ v.id \in Int
      /\ \A v \in S : rows[v.id].stamp \in 0..MaxRows
      /\ MaxRows \in Nat
  BY CatalogAssumption DEF CatalogTypeOK, Victims, RowIds, RowRecord, Stamps
<1>. DEFINE Seconds == {rows[v.id].stamp : v \in S}
<1>2. PICK s \in Seconds : \A t \in Seconds : t <= s
  <2>1. Seconds \in SUBSET (0..MaxRows) /\ Seconds # {}
    BY <1>1
  <2>. HIDE DEF Seconds
  <2>. QED BY <1>1, <2>1, LargestOf
<1>. DEFINE Last == {v \in S : rows[v.id].stamp = s}
            Ids == {v.id : v \in Last}
<1>3. PICK i \in Ids : \A k \in Ids : k <= i
  <2>1. Ids \in SUBSET RowIds /\ Ids # {}
    BY <1>1, <1>2
  <2>. HIDE DEF Ids
  <2>. QED BY <2>1, LargestId
<1>4. PICK v \in S : rows[v.id].stamp = s /\ v.id = i
  BY <1>3
<1>5. ASSUME NEW w \in S \ {v} PROVE Newer(v.id, w.id)
  <2>1. /\ rows[w.id].stamp <= s /\ w.id # v.id
        /\ rows[w.id].stamp = s => w.id <= i
    BY <1>2, <1>3, <1>4
  <2>2. rows[w.id].stamp \in Int /\ s \in Int /\ w.id \in Int /\ i \in Int
    BY <1>1, <1>4
  <2>. QED BY <1>4, <2>1, <2>2 DEF Newer
<1>. QED BY <1>5 DEF First

\* Of two rows the newer is the one with the larger id.
LEMMA NewerIsLarger ==
  ASSUME CatalogTypeOK, RowsInOrder, NEW a \in RowIds, NEW b \in RowIds,
         Present(a), Present(b), a # b
  PROVE  Newer(a, b) <=> a > b
<1>1. /\ a \in Int /\ b \in Int
      /\ rows[a].stamp \in Int /\ rows[b].stamp \in Int
  BY CatalogAssumption DEF CatalogTypeOK, RowRecord, Stamps, RowIds
<1>2. /\ a < b => rows[a].stamp <= rows[b].stamp
      /\ b < a => rows[b].stamp <= rows[a].stamp
  BY DEF RowsInOrder
<1>. QED BY <1>1, <1>2 DEF Newer

\* The loop of Prune has a row in hand as long as victims are left, and it is
\* the one with the largest id.
LEMMA VictimInHand ==
  ASSUME Inv, RowsInOrder, VictimsReplaceable, NEW r \in Runners,
         run[r].victims # {}
  PROVE  /\ Victim(r) \in run[r].victims
         /\ \A w \in run[r].victims : w.id <= Victim(r).id
<1>. DEFINE S == run[r].victims
            I == {v.id : v \in S}
<1>1. CatalogTypeOK /\ S \subseteq Victims
  BY DEF Inv, TypeOK, RunRecord
<1>2. \A v \in S : v.id \in RowIds /\ Present(v.id)
  BY <1>1 DEF VictimsReplaceable, Replaceable, Present, Victims
<1>3. I \in SUBSET RowIds /\ I # {}
  BY <1>2
<1>4. PICK m \in I : \A k \in I : k <= m
  <2>. HIDE DEF I
  <2>. QED BY <1>3, LargestId
<1>5. PICK v \in S : v.id = m
  OBVIOUS
<1>6. ASSUME NEW w \in S \ {v} PROVE Newer(v.id, w.id)
  <2>1. w.id # v.id /\ w.id <= v.id
    BY <1>4, <1>5 DEF VictimsReplaceable, Replaceable
  <2>2. v.id \in RowIds /\ w.id \in RowIds /\ w.id < v.id
    BY <1>2, <2>1, CatalogAssumption DEF RowIds
  <2>. QED BY <1>1, <1>2, <2>1, <2>2, NewerIsLarger
<1>7. Victim(r) \in S /\ \A w \in S \ {Victim(r)} : Newer(Victim(r).id, w.id)
  <2>. HIDE DEF S
  <2>1. First(S) \in S /\ \A w \in S \ {First(S)} : Newer(First(S).id, w.id)
    BY <1>6 DEF First
  <2>. QED BY <2>1 DEF Victim, S
<1>8. ASSUME NEW w \in S PROVE w.id <= Victim(r).id
  <2>1. w.id \in RowIds /\ Victim(r).id \in RowIds
    BY <1>2, <1>7
  <2>2. CASE w = Victim(r)
    BY <2>1, <2>2, CatalogAssumption DEF RowIds
  <2>3. CASE w # Victim(r)
    <3>1. w.id # Victim(r).id
      BY <1>7, <2>3 DEF VictimsReplaceable, Replaceable
    <3>2. Victim(r).id > w.id
      BY <1>1, <1>2, <1>7, <2>1, <2>3, <3>1, NewerIsLarger
    <3>. QED BY <2>1, <3>2, CatalogAssumption DEF RowIds
  <2>. QED BY <2>2, <2>3
<1>. QED BY <1>7, <1>8

-----------------------------------------------------------------------------
(* What a step leaves alone.                                               *)

\* A step of one runner is none of another.
LEMMA OthersStay ==
  ASSUME TypeOK, NEW r \in Runners, Step(r), NEW s \in Runners, s # r
  PROVE  run'[s] = run[s] /\ pc'[s] = pc[s]
BY DEF TypeOK, Step, Trigger, Claim, AcquireSlot, RunnerStep, LoadJob,
       LoadJobFails, GiveBack, OpenRow, OpenRowFails, Pass, Goto,
       LoadDestinations, LoadDestinationsFails, Dump, DumpFails, FinishFailed,
       WriteRow, Upload, UploadFails, DeleteObject, MarkDestination, SaveLocal,
       NothingLocal, FinishRow, ListVictims, KeepAll, DeleteFile, ListLinks,
       ListLinksFails, RetireRow, PruneEnds, ReleaseSlot, Leave

Closes(r) == FinishFailed(r) \/ FinishRow(r)

\* All but four kinds of steps leave the rows alone.
LEMMA RowsStay ==
  ASSUME NEW r \in Runners, Step(r), ~OpenRow(r), ~Closes(r), ~RetireRow(r)
  PROVE  UNCHANGED rowVars
BY DEF Closes, rowVars, catalogVars,
       Step, Trigger, Claim, AcquireSlot, RunnerStep, LoadJob,
       LoadJobFails, GiveBack, OpenRowFails, Pass,
       LoadDestinations, LoadDestinationsFails, Dump, DumpFails,
       Upload, UploadFails, DeleteObject, MarkDestination, SaveLocal,
       NothingLocal, ListVictims, KeepAll, DeleteFile, ListLinks,
       ListLinksFails, PruneEnds, ReleaseSlot, Leave

-----------------------------------------------------------------------------
(* What the four kinds of steps do to a row.                               *)

\* The next id is free, and its stamp is not before any other.
LEMMA Opens ==
  ASSUME Inv, RowsInOrder, NEW r \in Runners, OpenRow(r)
  PROVE  /\ nextRow \in RowIds /\ nextRow' = nextRow + 1
         /\ rows[nextRow].status = "absent" /\ run[r].job \in running
         /\ clock' \in Stamps /\ clock <= clock'
         /\ rows'[nextRow].status = "running" /\ ~rows'[nextRow].local
         /\ rows'[nextRow].job = run[r].job /\ rows'[nextRow].stamp = clock'
         /\ \A id \in RowIds \ {nextRow} : rows'[id] = rows[id]
         /\ run'[r].row = nextRow /\ run'[r].name = <<run[r].job, clock'>>
         /\ run'[r].job = run[r].job /\ run'[r].local = run[r].local
         /\ run'[r].victims = run[r].victims
         /\ pc[r] = "loaded" /\ pc'[r] = "planning"
         /\ UNCHANGED <<dests, links, files, objects, running>>
<1>1. TypeOK /\ CatalogTypeOK /\ clock < nextRow
  BY DEF Inv, TypeOK
<1>2. nextRow \in RowIds
  BY <1>1, CatalogAssumption DEF OpenRow, CatalogTypeOK, RowIds
<1>3. rows[nextRow].status = "absent"
  <2>1. ~(nextRow < nextRow)
    BY <1>2, CatalogAssumption DEF RowIds
  <2>. QED BY <1>2, <2>1 DEF RowsInOrder, Present
<1>4. PICK started \in {clock, clock + 1} :
        /\ clock' = started /\ CreateBackup(run[r].job, started)
        /\ run' = [run EXCEPT ![r].row = nextRow,
                              ![r].name = <<run[r].job, started>>]
  BY DEF OpenRow
<1>5. clock' \in Stamps /\ clock <= clock'
  BY <1>1, <1>2, <1>4, CatalogAssumption DEF CatalogTypeOK, Stamps, RowIds
<1>6. /\ run'[r].row = nextRow /\ run'[r].name = <<run[r].job, clock'>>
      /\ run'[r].job = run[r].job /\ run'[r].local = run[r].local
      /\ run'[r].victims = run[r].victims
  BY <1>1, <1>4 DEF TypeOK, RunRecord
<1>7. pc[r] = "loaded" /\ pc'[r] = "planning"
  BY <1>1 DEF OpenRow, Goto, TypeOK
<1>8. run[r].job \in running
  BY <1>7 DEF Inv, ClaimsHeld, HoldsJob
<1>9. /\ rows'[nextRow].status = "running" /\ ~rows'[nextRow].local
      /\ rows'[nextRow].job = run[r].job /\ rows'[nextRow].stamp = clock'
      /\ \A id \in RowIds \ {nextRow} : rows'[id] = rows[id]
  BY <1>1, <1>2, <1>4 DEF CreateBackup, CatalogTypeOK
<1>. QED
  BY <1>2, <1>3, <1>4, <1>5, <1>6, <1>7, <1>8, <1>9
  DEF OpenRow, CreateBackup, configVars, storeVars

\* A run closes its own row, as completed only from finishing.
LEMMA ClosesOwn ==
  ASSUME Inv, OwnRows, NEW r \in Runners, Closes(r)
  PROVE  /\ run[r].row \in RowIds /\ rows[run[r].row].status = "running"
         /\ rows[run[r].row].job = run[r].job /\ run[r].job \in running
         /\ Name(run[r].row) = run[r].name
         /\ pc[r] \in Writing /\ pc'[r] \in {"listing", "releasing", "leaving"}
         /\ UNCHANGED <<dests, nextRow, clock, links, files, objects, running,
                        run>>
         /\ \/ UNCHANGED rows
            \/ rows' = [rows EXCEPT ![run[r].row].status = "failed",
                                    ![run[r].row].local = FALSE]
            \/ /\ pc[r] = "finishing"
               /\ rows' = [rows EXCEPT ![run[r].row].status = "completed",
                                       ![run[r].row].local = run[r].local]
<1>1. TypeOK
  BY DEF Inv
<1>2. pc[r] \in {"planFailed", "dumpFailed", "finishing"}
  BY DEF Closes, FinishFailed, FinishRow, Goto
<1>3. pc'[r] \in {"listing", "releasing", "leaving"}
  BY <1>1 DEF Closes, FinishFailed, FinishRow, Goto, Unwind, HoldsSlot, TypeOK
<1>4. /\ run[r].row \in RowIds /\ rows[run[r].row].status = "running"
      /\ rows[run[r].row].job = run[r].job
      /\ Name(run[r].row) = run[r].name
  BY <1>2 DEF OwnRows, Writing, Inv, RowsOpened, HoldsSlot
<1>5. run[r].job \in running
  BY <1>2 DEF Inv, ClaimsHeld, HoldsJob, HoldsSlot
<1>6. Present(run[r].row)
  BY <1>4 DEF Present
<1>7. CASE FinishFailed(r)
  BY <1>2, <1>3, <1>4, <1>5, <1>6, <1>7
  DEF FinishFailed, WriteRow, UpdateBackup, Writing, configVars, storeVars
<1>8. CASE FinishRow(r)
  BY <1>2, <1>3, <1>4, <1>5, <1>6, <1>8
  DEF FinishRow, WriteRow, UpdateBackup, Writing, StoredLocal, Goto,
      configVars, storeVars
<1>. QED BY <1>7, <1>8 DEF Closes

\* Retention retires the victim it has in hand.
LEMMA RetiresVictim ==
  ASSUME Inv, RowsInOrder, VictimsReplaceable, NEW r \in Runners, RetireRow(r)
  PROVE  /\ Victim(r) \in run[r].victims /\ Victim(r).id \in RowIds
         /\ rows[Victim(r).id].status = "completed"
         /\ rows[Victim(r).id].job = run[r].job /\ run[r].job \in running
         /\ run'[r] = [run[r] EXCEPT !.victims = @ \ {Victim(r)}]
         /\ pc[r] = "pruneObjects" /\ pc'[r] = "pruning"
         /\ UNCHANGED <<dests, nextRow, clock, files, objects, running>>
         /\ \/ UNCHANGED <<rows, links>>
            \/ /\ rows' = [rows EXCEPT ![Victim(r).id].status = "deleted",
                                       ![Victim(r).id].local = FALSE]
               /\ links' = {l \in links : l[1] # Victim(r).id}
<1>1. TypeOK /\ run[r].victims \subseteq Victims
  BY DEF Inv, TypeOK, RunRecord
<1>2. pc[r] = "pruneObjects" /\ pc'[r] = "pruning"
  BY <1>1 DEF RetireRow, Goto, TypeOK
<1>3. Victim(r) \in run[r].victims
  BY <1>2, VictimInHand DEF VictimsReplaceable
<1>4. /\ Victim(r).id \in RowIds /\ rows[Victim(r).id].status = "completed"
      /\ rows[Victim(r).id].job = run[r].job
  BY <1>1, <1>3 DEF VictimsReplaceable, Replaceable, Victims
<1>5. run[r].job \in running
  BY <1>2 DEF Inv, ClaimsHeld, HoldsJob, HoldsSlot
<1>6. run'[r] = [run[r] EXCEPT !.victims = @ \ {Victim(r)}]
  BY <1>1 DEF RetireRow, TypeOK, RunRecord
<1>7. Present(Victim(r).id)
  BY <1>4 DEF Present
<1>. QED
  BY <1>2, <1>3, <1>4, <1>5, <1>6, <1>7
  DEF RetireRow, MarkBackupDeleted, UpdateBackup, configVars, storeVars

\* A row that is written keeps its job and its stamp, the others all they have.
LEMMA WrittenRow ==
  ASSUME rows \in [RowIds -> RowRecord], NEW id \in RowIds, NEW status,
         NEW local,
         rows' = [rows EXCEPT ![id].status = status, ![id].local = local]
  PROVE  /\ rows'[id].status = status /\ rows'[id].local = local
         /\ rows'[id].job = rows[id].job /\ rows'[id].stamp = rows[id].stamp
         /\ \A k \in RowIds \ {id} : rows'[k] = rows[k]
BY DEF RowRecord

\* Retired, or what it was when the update failed.
LEMMA RetiredRow ==
  ASSUME Inv, RowsInOrder, VictimsReplaceable, NEW r \in Runners, RetireRow(r),
         NEW id \in RowIds
  PROVE  rows'[id] = rows[id] \/ rows'[id].status = "deleted"
<1>1. rows \in [RowIds -> RowRecord]
  BY DEF Inv, TypeOK, CatalogTypeOK
<1>2. CASE UNCHANGED rows
  BY <1>2
<1>3. CASE ~UNCHANGED rows
  <2>1. Victim(r).id \in RowIds
        /\ rows' = [rows EXCEPT ![Victim(r).id].status = "deleted",
                                ![Victim(r).id].local = FALSE]
    BY <1>3, RetiresVictim
  <2>2. /\ rows'[Victim(r).id].status = "deleted"
        /\ \A k \in RowIds \ {Victim(r).id} : rows'[k] = rows[k]
    BY <1>1, <2>1, WrittenRow
  <2>. QED BY <2>2
<1>. QED BY <1>2, <1>3

\* Every step but OpenRow keeps which rows there are, their jobs and stamps.
Kept ==
  /\ nextRow' = nextRow /\ clock' = clock
  /\ \A id \in RowIds :
       /\ rows'[id].job = rows[id].job /\ rows'[id].stamp = rows[id].stamp
       /\ rows'[id].status = "absent" <=> rows[id].status = "absent"

\* So does every step of a run.
LEMMA KeptSteps ==
  ASSUME Inv, RowsInOrder, OwnRows, VictimsReplaceable,
         NEW r \in Runners, Step(r), ~OpenRow(r)
  PROVE  Kept
<1>. USE DEF Kept
<1>0. run[r].local \in BOOLEAN
  BY DEF Inv, TypeOK, RunRecord
<1>1. rows \in [RowIds -> RowRecord]
  BY DEF Inv, TypeOK, CatalogTypeOK
<1>2. CASE UNCHANGED rowVars
  BY <1>2 DEF rowVars
<1>3. CASE Closes(r) /\ ~UNCHANGED rowVars
  <2>. DEFINE id == run[r].row
  <2>1. PICK status \in {"completed", "failed"}, local \in BOOLEAN :
          rows' = [rows EXCEPT ![id].status = status, ![id].local = local]
    BY <1>0, <1>3, ClosesOwn DEF rowVars
  <2>2. id \in RowIds /\ rows[id].status # "absent"
        /\ UNCHANGED <<nextRow, clock>>
    BY <1>3, ClosesOwn
  <2>3. /\ rows'[id].status = status
        /\ rows'[id].job = rows[id].job /\ rows'[id].stamp = rows[id].stamp
        /\ \A k \in RowIds \ {id} : rows'[k] = rows[k]
    BY <1>1, <2>1, <2>2, WrittenRow
  <2>. QED BY <2>2, <2>3
<1>4. CASE RetireRow(r) /\ ~UNCHANGED rowVars
  <2>. DEFINE id == Victim(r).id
  <2>1. rows' = [rows EXCEPT ![id].status = "deleted", ![id].local = FALSE]
    BY <1>4, RetiresVictim DEF rowVars
  <2>2. id \in RowIds /\ rows[id].status # "absent"
        /\ UNCHANGED <<nextRow, clock>>
    BY <1>4, RetiresVictim
  <2>3. /\ rows'[id].status = "deleted"
        /\ rows'[id].job = rows[id].job /\ rows'[id].stamp = rows[id].stamp
        /\ \A k \in RowIds \ {id} : rows'[k] = rows[k]
    BY <1>1, <2>1, <2>2, WrittenRow
  <2>. QED BY <2>2, <2>3
<1>. QED BY <1>2, <1>3, <1>4, RowsStay

\* Names are made of jobs and stamps.
LEMMA KeptNames ==
  ASSUME Kept, NEW id \in RowIds
  PROVE  Name(id)' = Name(id) /\ Shared(id)' = Shared(id)
BY DEF Kept, Name, Shared

-----------------------------------------------------------------------------
(* Ids and seconds grow together.                                          *)

\* A link is added by the run that marks its own row.
LEMMA LinksGrow ==
  ASSUME Inv, OwnRows, NEW r \in Runners, Step(r)
  PROVE  \A l \in links' :
           \/ l \in links
           \/ /\ pc[r] = "marking" /\ run[r].row \in RowIds
              /\ rows[run[r].row].status = "running"
              /\ \E d \in run[r].sent : l = <<run[r].row, d>>
<1>1. CASE MarkDestination(r)
  <2>1. pc[r] = "marking"
    BY <1>1 DEF MarkDestination, Goto
  <2>2. run[r].row \in RowIds /\ rows[run[r].row].status = "running"
    BY <2>1 DEF OwnRows, Writing, Inv, RowsOpened, HoldsSlot
  <2>. QED BY <1>1, <2>1, <2>2 DEF MarkDestination, MarkBackupDestination
<1>2. CASE RetireRow(r)
  BY <1>2 DEF RetireRow, MarkBackupDeleted
<1>3. CASE ~MarkDestination(r) /\ ~RetireRow(r)
  BY <1>3
  DEF catalogVars, Step, Trigger, Claim, AcquireSlot, RunnerStep, LoadJob,
      LoadJobFails, GiveBack, OpenRow, OpenRowFails, Pass, LoadDestinations,
      LoadDestinationsFails, Dump, DumpFails, FinishFailed, WriteRow, Upload,
      UploadFails, DeleteObject, SaveLocal, NothingLocal, FinishRow,
      ListVictims, KeepAll, DeleteFile, ListLinks, ListLinksFails, PruneEnds,
      ReleaseSlot, Leave
<1>. QED BY <1>1, <1>2, <1>3

\* A row is inserted with the next id and the present second.
LEMMA OrderSteps ==
  ASSUME Inv, HistoryInv, NEW r \in Runners, Step(r)
  PROVE  RowsInOrder'
<1>0. /\ RowsInOrder /\ OwnRows /\ VictimsReplaceable /\ CatalogTypeOK
      /\ nextRow \in Int /\ clock \in Int /\ RowIds \subseteq Int
      /\ \A id \in RowIds : rows[id].stamp \in Int
      /\ links \subseteq RowIds \X Dests
  BY CatalogAssumption
  DEF HistoryInv, Inv, TypeOK, CatalogTypeOK, RowRecord, Stamps, RowIds
<1>1. CASE OpenRow(r)
  <2>1. /\ nextRow \in RowIds /\ nextRow' = nextRow + 1
        /\ clock' \in Int /\ clock <= clock'
        /\ rows'[nextRow].stamp = clock' /\ UNCHANGED links
        /\ \A id \in RowIds \ {nextRow} : rows'[id] = rows[id]
    <3>1. clock' \in Int
      BY <1>0, <1>1, Opens, CatalogAssumption DEF Stamps
    <3>. QED BY <1>0, <1>1, <3>1, Opens
  <2>2. ASSUME NEW id \in RowIds, Present(id)'
        PROVE  id < nextRow' /\ rows'[id].stamp <= clock'
    <3>1. CASE id = nextRow
      BY <1>0, <2>1, <3>1
    <3>2. CASE id # nextRow
      <4>1. id < nextRow /\ rows[id].stamp <= clock
        BY <1>0, <2>1, <2>2, <3>2 DEF RowsInOrder, Present
      <4>. QED BY <1>0, <2>1, <3>2, <4>1
    <3>. QED BY <3>1, <3>2
  <2>3. ASSUME NEW id \in RowIds, NEW k \in RowIds, Present(id)', Present(k)',
               k < id
        PROVE  rows'[k].stamp <= rows'[id].stamp
    <3>1. k # nextRow
      <4>1. id < nextRow + 1
        BY <2>1, <2>2, <2>3
      <4>. QED BY <1>0, <2>1, <2>3, <4>1
    <3>2. Present(k) /\ rows'[k] = rows[k] /\ rows[k].stamp <= clock
      BY <1>0, <2>1, <2>3, <3>1 DEF Present, RowsInOrder
    <3>3. CASE id = nextRow
      <4>1. rows'[k].stamp \in Int /\ rows'[k].stamp <= clock
        BY <1>0, <3>2
      <4>. QED BY <1>0, <2>1, <3>3, <4>1
    <3>4. CASE id # nextRow
      BY <1>0, <2>1, <2>3, <3>2, <3>4 DEF Present, RowsInOrder
    <3>. QED BY <3>3, <3>4
  <2>4. ASSUME NEW l \in links' PROVE l[1] < nextRow'
    <3>1. l[1] \in Int /\ l[1] < nextRow
      BY <1>0, <2>1 DEF RowsInOrder
    <3>. QED BY <1>0, <2>1, <3>1
  <2>. QED BY <2>2, <2>3, <2>4 DEF RowsInOrder
<1>2. CASE ~OpenRow(r)
  <2>1. Kept
    BY <1>0, <1>2, KeptSteps
  <2>2. ASSUME NEW l \in links' PROVE l[1] < nextRow'
    <3>1. CASE l \in links
      BY <2>1, <3>1, <1>0 DEF Kept, RowsInOrder
    <3>2. CASE l \notin links
      <4>1. l[1] \in RowIds /\ rows[l[1]].status = "running"
        BY <1>0, <3>2, LinksGrow
      <4>. QED BY <1>0, <2>1, <4>1 DEF Kept, RowsInOrder, Present
    <3>. QED BY <3>1, <3>2
  <2>. QED BY <1>0, <2>1, <2>2 DEF Kept, RowsInOrder, Present
<1>. QED BY <1>1, <1>2

-----------------------------------------------------------------------------
(* Rows of runs in flight.                                                 *)

\* A run writes no row of another job, and no other run has its job.
LEMMA JobsApart ==
  ASSUME Inv, RowsInOrder, OwnRows, VictimsReplaceable,
         NEW r \in Runners, Step(r), NEW s \in Runners \ {r},
         pc[s] \in HoldsJob, NEW id \in RowIds, Present(id),
         rows[id].job = run[s].job
  PROVE  rows'[id] = rows[id]
<1>0. rows \in [RowIds -> RowRecord]
  BY DEF Inv, TypeOK, CatalogTypeOK
<1>1. CASE OpenRow(r)
  BY <1>0, <1>1, Opens DEF Present
<1>2. CASE Closes(r)
  <2>1. pc[r] \in HoldsJob
    BY <1>2, ClosesOwn DEF Writing, HoldsJob, HoldsSlot
  <2>2. id # run[r].row
    <3>1. run[r].job # run[s].job
      BY <2>1 DEF Inv, OneRunPerJob
    <3>. QED BY <1>2, <3>1, ClosesOwn
  <2>3. \/ UNCHANGED rows
        \/ rows' = [rows EXCEPT ![run[r].row].status = "failed",
                                ![run[r].row].local = FALSE]
        \/ rows' = [rows EXCEPT ![run[r].row].status = "completed",
                                ![run[r].row].local = run[r].local]
    BY <1>2, ClosesOwn
  <2>. QED BY <1>0, <2>2, <2>3
<1>3. CASE RetireRow(r)
  <2>1. pc[r] \in HoldsJob
    BY <1>3, RetiresVictim DEF HoldsJob, HoldsSlot
  <2>2. id # Victim(r).id
    <3>1. run[r].job # run[s].job
      BY <2>1 DEF Inv, OneRunPerJob
    <3>. QED BY <1>3, <3>1, RetiresVictim
  <2>3. \/ UNCHANGED rows
        \/ rows' = [rows EXCEPT ![Victim(r).id].status = "deleted",
                                ![Victim(r).id].local = FALSE]
    BY <1>3, RetiresVictim
  <2>. QED BY <1>0, <2>2, <2>3
<1>4. CASE ~OpenRow(r) /\ ~Closes(r) /\ ~RetireRow(r)
  BY <1>4, RowsStay DEF rowVars
<1>. QED BY <1>1, <1>2, <1>3, <1>4

\* On the way to its end a run keeps its row.
LEMMA WritingSteps ==
  ASSUME TypeOK, NEW r \in Runners, Step(r), ~OpenRow(r), pc'[r] \in Writing
  PROVE  /\ pc[r] \in Writing
         /\ run'[r].row = run[r].row /\ run'[r].job = run[r].job
         /\ run'[r].name = run[r].name
<1>. USE DEF TypeOK, RunRecord, Writing, Goto
<1>1. CASE Trigger(r) \/ LoadJob(r) \/ LoadJobFails(r) \/ Leave(r)
  BY <1>1 DEF Trigger, Claim, LoadJob, LoadJobFails, Leave, GiveBack
<1>2. CASE PassStep(r)
  BY <1>2 DEF PassStep, OpenRowFails, LoadDestinationsFails, Dump, DumpFails,
              NothingLocal, KeepAll, PruneEnds, Pass, Unwind, HoldsSlot
<1>3. CASE LoadDestinations(r) \/ AcquireSlot(r) \/ ReleaseSlot(r)
  BY <1>3 DEF LoadDestinations, AcquireSlot, ReleaseSlot
<1>4. CASE Closes(r)
  BY <1>4 DEF Closes, FinishFailed, FinishRow, WriteRow, Unwind, HoldsSlot
<1>5. ASSUME NEW d \in Dests,
             Upload(r, d) \/ UploadFails(r, d) \/ DeleteObject(r, d)
      PROVE  /\ pc[r] \in Writing
             /\ run'[r].row = run[r].row /\ run'[r].job = run[r].job
             /\ run'[r].name = run[r].name
  BY <1>5 DEF Upload, UploadFails, DeleteObject
<1>6. CASE MarkDestination(r) \/ SaveLocal(r)
  BY <1>6 DEF MarkDestination, SaveLocal
<1>7. CASE \/ ListVictims(r) \/ DeleteFile(r) \/ ListLinks(r)
           \/ ListLinksFails(r) \/ RetireRow(r)
  BY <1>7 DEF ListVictims, DeleteFile, ListLinks, ListLinksFails, RetireRow
<1>. QED
  BY <1>1, <1>2, <1>3, <1>4, <1>5, <1>6, <1>7
  DEF Step, RunnerStep, PassStep, Closes

\* Only the run itself closes its row.
LEMMA OwnRowSteps ==
  ASSUME Inv, HistoryInv, NEW r \in Runners, Step(r)
  PROVE  OwnRows'
<1>0. /\ TypeOK /\ RowsInOrder /\ OwnRows /\ VictimsReplaceable
      /\ rows \in [RowIds -> RowRecord]
  BY DEF HistoryInv, Inv, TypeOK, CatalogTypeOK
<1>. SUFFICES ASSUME NEW s \in Runners, pc'[s] \in Writing
              PROVE  /\ rows'[run'[s].row].status = "running"
                     /\ rows'[run'[s].row].job = run'[s].job
                     /\ Name(run[s].row)' = run'[s].name
  BY DEF OwnRows
<1>1. CASE s # r
  <2>1. pc[s] \in Writing /\ run'[s] = run[s]
    BY <1>0, <1>1, OthersStay
  <2>2. /\ run[s].row \in RowIds /\ rows[run[s].row].status = "running"
        /\ rows[run[s].row].job = run[s].job
        /\ Name(run[s].row) = run[s].name
    BY <1>0, <2>1 DEF OwnRows, Inv, RowsOpened, HoldsSlot, Writing
  <2>3. rows'[run[s].row] = rows[run[s].row]
    BY <1>0, <1>1, <2>1, <2>2, JobsApart
    DEF Present, Writing, HoldsJob, HoldsSlot
  <2>. QED BY <2>1, <2>2, <2>3 DEF Name
<1>2. CASE s = r /\ OpenRow(r)
  <2>1. run'[r].row = nextRow /\ run'[r].name = <<run[r].job, clock'>>
        /\ run'[r].job = run[r].job
    BY <1>0, <1>2, Opens DEF TypeOK, RunRecord
  <2>2. /\ rows'[nextRow].status = "running"
        /\ rows'[nextRow].job = run[r].job /\ rows'[nextRow].stamp = clock'
    BY <1>0, <1>2, Opens
  <2>. QED BY <1>2, <2>1, <2>2 DEF Name
<1>3. CASE s = r /\ ~OpenRow(r)
  <2>1. /\ pc[r] \in Writing
        /\ run'[r].row = run[r].row /\ run'[r].job = run[r].job
        /\ run'[r].name = run[r].name
    BY <1>0, <1>3, WritingSteps
  <2>2. ~Closes(r) /\ ~RetireRow(r)
    BY <1>0, <1>3, ClosesOwn, RetiresVictim DEF Writing
  <2>3. UNCHANGED rows
    BY <1>3, <2>2, RowsStay DEF rowVars
  <2>. QED BY <1>0, <1>3, <2>1, <2>3 DEF OwnRows, Name
<1>. QED BY <1>1, <1>2, <1>3

-----------------------------------------------------------------------------
(* Victims.                                                                *)

\* Prune keeps at least one completed row, newer than every victim.
LEMMA ListedReplaceable ==
  ASSUME Inv, RowsInOrder, NEW j \in Jobs, NEW keep \in Nat, keep > 0,
         NEW id \in Beyond(CompletedOf(j), keep)
  PROVE  \E k \in RowIds : /\ k > id /\ rows[k].job = j
                           /\ rows[k].status = "completed"
                           /\ k \notin Beyond(CompletedOf(j), keep)
<1>. DEFINE S == CompletedOf(j)
<1>0. CatalogTypeOK /\ RowIds \subseteq Int
  BY CatalogAssumption DEF Inv, TypeOK, RowIds
<1>1. S \in SUBSET RowIds /\ id \in S
  BY DEF CompletedOf, Beyond
<1>2. PICK m \in S : \A k \in S : k <= m
  BY <1>1, LargestId
<1>3. ASSUME NEW k \in S PROVE ~Newer(k, m)
  <2>1. CASE k = m
    <3>1. rows[m].stamp \in Int /\ m \in Int
      <4>1. m \in RowIds
        BY <1>1
      <4>. HIDE DEF S
      <4>. QED BY <1>0, <4>1, CatalogAssumption
               DEF CatalogTypeOK, RowRecord, Stamps
    <3>. QED BY <2>1, <3>1 DEF Newer
  <2>2. CASE k # m
    <3>1. k \in RowIds /\ m \in RowIds /\ Present(k) /\ Present(m)
      BY <1>1 DEF CompletedOf, Present
    <3>2. k <= m /\ k \in Int /\ m \in Int
      BY <1>0, <1>2, <3>1
    <3>3. Newer(k, m) <=> k > m
      BY <1>0, <2>2, <3>1, NewerIsLarger
    <3>. QED BY <3>2, <3>3
  <2>. QED BY <2>1, <2>2
<1>4. Cardinality({k \in S : Newer(k, m)}) = 0
  <2>1. {k \in S : Newer(k, m)} = {}
    BY <1>3
  <2>. QED BY <2>1, FS_EmptySet
<1>5. m \notin Beyond(S, keep)
  BY <1>4 DEF Beyond
<1>6. m > id
  <2>1. m \in Int /\ id \in Int /\ id <= m /\ id # m
    BY <1>0, <1>1, <1>2, <1>5
  <2>. QED BY <2>1
<1>. QED BY <1>1, <1>5, <1>6 DEF CompletedOf

\* The rows that Prune lists may all be replaced.
LEMMA ListsReplaceable ==
  ASSUME Inv, RowsInOrder, NEW r \in Runners, ListVictims(r)
  PROVE  Replaceable(r)' /\ pc'[r] = "pruning"
<1>. DEFINE j == run[r].job
            E == Beyond(CompletedOf(j), run[r].keepLast)
<1>1. /\ pc[r] = "listing" /\ pc'[r] = "pruning" /\ UNCHANGED rows
      /\ run'[r].victims = Read(E) /\ run'[r].job = j
      /\ run[r].keepLast \in Nat /\ run[r].keepLast > 0
  BY DEF ListVictims, Excess, Goto, Inv, TypeOK, RunRecord, catalogVars, rowVars
<1>2. j \in Jobs
  BY <1>1 DEF Inv, TypeOK, ClaimsHeld, HoldsJob, HoldsSlot
<1>3. ASSUME NEW v \in Read(E)
      PROVE  /\ rows[v.id].status = "completed" /\ rows[v.id].job = j
             /\ \A w \in Read(E) : w.id = v.id => w = v
             /\ \E k \in RowIds : /\ k > v.id /\ rows[k].job = j
                                  /\ rows[k].status = "completed"
                                  /\ \A w \in Read(E) : w.id # k
  <2>1. v.id \in E /\ \A w \in Read(E) : w.id \in E
    BY DEF Read
  <2>2. rows[v.id].status = "completed" /\ rows[v.id].job = j
    BY <2>1 DEF Beyond, CompletedOf
  <2>3. \A w \in Read(E) : w.id = v.id => w = v
    BY DEF Read
  <2>. HIDE DEF E
  <2>4. PICK k \in RowIds : /\ k > v.id /\ rows[k].job = j
                            /\ rows[k].status = "completed" /\ k \notin E
    BY <1>1, <1>2, <2>1, ListedReplaceable DEF E
  <2>. QED BY <2>1, <2>2, <2>3, <2>4
<1>. QED BY <1>1, <1>3 DEF Replaceable

\* A run has victims in its loop, and at no other stage.
VictimsInLoop(r) ==
  /\ pc[r] \in {"pruneLinks", "pruneObjects"} => run[r].victims # {}
  /\ run[r].victims # {} => pc[r] \in {"pruning", "pruneLinks", "pruneObjects"}

\* What else becomes of the victims of a run.
LEMMA VictimSteps ==
  ASSUME TypeOK, NEW r \in Runners, VictimsInLoop(r), Step(r),
         ~ListVictims(r)
  PROVE  /\ run'[r].victims \subseteq run[r].victims
         /\ run'[r].victims # {} =>
              /\ pc'[r] \in {"pruning", "pruneLinks", "pruneObjects"}
              /\ run'[r].job = run[r].job
         /\ pc'[r] \in {"pruneLinks", "pruneObjects"} => run'[r].victims # {}
<1>. DEFINE Good ==
       /\ run'[r].victims \subseteq run[r].victims
       /\ run'[r].victims # {} =>
            /\ pc'[r] \in {"pruning", "pruneLinks", "pruneObjects"}
            /\ run'[r].job = run[r].job
       /\ pc'[r] \in {"pruneLinks", "pruneObjects"} => run'[r].victims # {}
<1>0. /\ pc[r] \in {"pruneLinks", "pruneObjects"} => run[r].victims # {}
      /\ run[r].victims # {} =>
           pc[r] \in {"pruning", "pruneLinks", "pruneObjects"}
  BY DEF VictimsInLoop
<1>. USE <1>0 DEF TypeOK, RunRecord, Goto
<1>1. CASE Trigger(r) \/ LoadJob(r) \/ OpenRow(r)
  BY <1>1 DEF Trigger, Claim, LoadJob, OpenRow
<1>2. CASE LoadJobFails(r) \/ Leave(r)
  BY <1>2 DEF LoadJobFails, Leave, GiveBack, NoRun
<1>3. CASE PassStep(r)
  BY <1>3 DEF PassStep, OpenRowFails, LoadDestinationsFails, Dump, DumpFails,
              NothingLocal, KeepAll, PruneEnds, Pass, Unwind, HoldsSlot
<1>4. CASE LoadDestinations(r) \/ AcquireSlot(r) \/ ReleaseSlot(r)
  BY <1>4 DEF LoadDestinations, AcquireSlot, ReleaseSlot
<1>5. CASE Closes(r)
  BY <1>5 DEF Closes, FinishFailed, FinishRow, WriteRow, Unwind, HoldsSlot
<1>6. ASSUME NEW d \in Dests,
             Upload(r, d) \/ UploadFails(r, d) \/ DeleteObject(r, d)
      PROVE  Good
  BY <1>6 DEF Upload, UploadFails, DeleteObject
<1>7. CASE MarkDestination(r) \/ SaveLocal(r)
  BY <1>7 DEF MarkDestination, SaveLocal
<1>8. CASE DeleteFile(r) \/ ListLinks(r) \/ ListLinksFails(r) \/ RetireRow(r)
  BY <1>8 DEF DeleteFile, ListLinks, ListLinksFails, RetireRow
<1>. QED
  BY <1>1, <1>2, <1>3, <1>4, <1>5, <1>6, <1>7, <1>8
  DEF Step, RunnerStep, PassStep, Closes

\* A row of the victims' job that is not written stays what it is; a victim that
\* is retired leaves the set.
LEMMA CompletedStay ==
  ASSUME Inv, RowsInOrder, OwnRows, VictimsReplaceable,
         NEW r \in Runners, Step(r), NEW id \in RowIds,
         rows[id].status = "completed", ~(RetireRow(r) /\ id = Victim(r).id)
  PROVE  rows'[id] = rows[id]
<1>0. rows \in [RowIds -> RowRecord]
  BY DEF Inv, TypeOK, CatalogTypeOK
<1>1. CASE OpenRow(r)
  BY <1>0, <1>1, Opens
<1>2. CASE Closes(r)
  BY <1>0, <1>2, ClosesOwn
<1>3. CASE RetireRow(r)
  BY <1>0, <1>3, RetiresVictim
<1>4. CASE ~OpenRow(r) /\ ~Closes(r) /\ ~RetireRow(r)
  BY <1>4, RowsStay DEF rowVars
<1>. QED BY <1>1, <1>2, <1>3, <1>4

\* No other run touches the rows of the job, and what this run retires is no
\* victim any more.
LEMMA ReplaceableSteps ==
  ASSUME Inv, HistoryInv, NEW r \in Runners, Step(r)
  PROVE  VictimsReplaceable'
<1>0. /\ TypeOK /\ RowsInOrder /\ OwnRows /\ VictimsReplaceable
  BY DEF HistoryInv, Inv
<1>. DEFINE
       Good(s) ==
         /\ pc'[s] \in {"pruneLinks", "pruneObjects"} => run'[s].victims # {}
         /\ run'[s].victims # {} =>
              pc'[s] \in {"pruning", "pruneLinks", "pruneObjects"}
         /\ Replaceable(s)'
<1>1. ASSUME NEW s \in Runners, s # r PROVE Good(s)
  <2>1. run'[s] = run[s] /\ pc'[s] = pc[s]
    BY <1>0, <1>1, OthersStay
  <2>2. ASSUME NEW id \in RowIds, rows[id].status = "completed",
               rows[id].job = run[s].job, run[s].victims # {}
        PROVE  rows'[id] = rows[id]
    <3>1. pc[s] \in HoldsJob
      BY <1>0, <2>2 DEF VictimsReplaceable, HoldsJob, HoldsSlot
    <3>. QED BY <1>0, <1>1, <2>2, <3>1, JobsApart DEF Present
  <2>3. \A v \in run[s].victims : v.id \in RowIds
    BY <1>0 DEF TypeOK, RunRecord, Victims
  <2>4. Replaceable(s)'
    <3>. SUFFICES ASSUME NEW v \in run[s].victims
         PROVE
           /\ rows'[v.id].status = "completed" /\ rows'[v.id].job = run[s].job
           /\ \A w \in run[s].victims : w.id = v.id => w = v
           /\ \E k \in RowIds : /\ k > v.id /\ rows'[k].job = run[s].job
                                /\ rows'[k].status = "completed"
                                /\ \A w \in run[s].victims : w.id # k
      BY <2>1 DEF Replaceable
    <3>1. /\ rows[v.id].status = "completed" /\ rows[v.id].job = run[s].job
          /\ \A w \in run[s].victims : w.id = v.id => w = v
      BY <1>0 DEF VictimsReplaceable, Replaceable
    <3>2. PICK k \in RowIds : /\ k > v.id /\ rows[k].job = run[s].job
                              /\ rows[k].status = "completed"
                              /\ \A w \in run[s].victims : w.id # k
      BY <1>0 DEF VictimsReplaceable, Replaceable
    <3>. QED BY <2>2, <2>3, <3>1, <3>2
  <2>. QED BY <1>0, <2>1, <2>4 DEF VictimsReplaceable
<1>2. CASE ListVictims(r)
  <2>1. Good(r)
    BY <1>0, <1>2, ListsReplaceable
  <2>. QED BY <1>1, <2>1 DEF VictimsReplaceable
<1>3. CASE ~ListVictims(r)
  <2>1. /\ run'[r].victims \subseteq run[r].victims
        /\ run'[r].victims # {} =>
             /\ pc'[r] \in {"pruning", "pruneLinks", "pruneObjects"}
             /\ run'[r].job = run[r].job
        /\ pc'[r] \in {"pruneLinks", "pruneObjects"} => run'[r].victims # {}
    BY <1>0, <1>3, VictimSteps DEF VictimsReplaceable, VictimsInLoop
  <2>2. \A v \in run[r].victims : v.id \in RowIds
    BY <1>0 DEF TypeOK, RunRecord, Victims
  <2>3. RetireRow(r) => /\ Victim(r) \in run[r].victims
                        /\ Victim(r) \notin run'[r].victims
    <3>1. RetireRow(r) => run'[r].victims = run[r].victims \ {Victim(r)}
      BY <1>0 DEF RetireRow, TypeOK, RunRecord
    <3>. QED BY <1>0, <3>1, RetiresVictim
  <2>4. Replaceable(r)'
    <3>. SUFFICES ASSUME NEW v \in run'[r].victims
         PROVE
           /\ rows'[v.id].status = "completed" /\ rows'[v.id].job = run'[r].job
           /\ \A w \in run'[r].victims : w.id = v.id => w = v
           /\ \E k \in RowIds : /\ k > v.id /\ rows'[k].job = run'[r].job
                                /\ rows'[k].status = "completed"
                                /\ \A w \in run'[r].victims : w.id # k
      BY DEF Replaceable
    <3>1. /\ v \in run[r].victims /\ run'[r].job = run[r].job
          /\ rows[v.id].status = "completed" /\ rows[v.id].job = run[r].job
          /\ \A w \in run[r].victims : w.id = v.id => w = v
      BY <1>0, <2>1 DEF VictimsReplaceable, Replaceable
    <3>2. PICK k \in RowIds : /\ k > v.id /\ rows[k].job = run[r].job
                              /\ rows[k].status = "completed"
                              /\ \A w \in run[r].victims : w.id # k
      BY <1>0, <3>1 DEF VictimsReplaceable, Replaceable
    <3>3. rows'[v.id] = rows[v.id]
      <4>1. RetireRow(r) => v.id # Victim(r).id
        BY <2>3, <3>1
      <4>. QED BY <1>0, <2>2, <3>1, <4>1, CompletedStay
    <3>4. rows'[k] = rows[k]
      BY <1>0, <2>3, <3>2, CompletedStay
    <3>. QED BY <2>1, <3>1, <3>2, <3>3, <3>4
  <2>5. Good(r)
    BY <2>1, <2>4
  <2>. QED BY <1>1, <2>5 DEF VictimsReplaceable
<1>. QED BY <1>2, <1>3

-----------------------------------------------------------------------------
(* Copies.                                                                 *)

\* Two rows that share a name go on to do so, and keep it.
LEMMA SharedStays ==
  ASSUME Inv, HistoryInv, NEW r \in Runners, Step(r),
         NEW id \in RowIds, Present(id)
  PROVE  Name(id)' = Name(id) /\ (Shared(id) => Shared(id)')
<1>0. RowsInOrder /\ OwnRows /\ VictimsReplaceable /\ RowIds \subseteq Int
  BY CatalogAssumption DEF HistoryInv, RowIds
<1>1. CASE OpenRow(r)
  <2>1. /\ nextRow \in RowIds /\ nextRow' = nextRow + 1 /\ ~Present(nextRow)
        /\ \A k \in RowIds \ {nextRow} : rows'[k] = rows[k]
    BY <1>0, <1>1, Opens DEF Present
  <2>2. \A k \in RowIds : k < nextRow => k < nextRow' /\ k # nextRow
    BY <1>0, <2>1
  <2>3. \A k \in RowIds \ {nextRow} : Name(k)' = Name(k)
    BY <2>1 DEF Name
  <2>4. id # nextRow
    BY <2>1
  <2>. QED BY <2>2, <2>3, <2>4 DEF Shared
<1>2. CASE ~OpenRow(r)
  <2>1. Kept
    BY <1>0, <1>2, KeptSteps
  <2>. QED BY <2>1, KeptNames
<1>. QED BY <1>1, <1>2

\* n is the name of the victim that Prune has in hand.
Gone(r, n) == Victim(r) \in run[r].victims /\ n = Name(Victim(r).id)

\* Nothing is deleted but the copies of the victim in hand.
LEMMA StoresStay ==
  ASSUME Inv, RowsInOrder, VictimsReplaceable, NEW r \in Runners, Step(r)
  PROVE  /\ \A n \in files : n \in files' \/ Gone(r, n)
         /\ \A o \in objects : o \in objects' \/ Gone(r, o[2])
         /\ dests' = dests
<1>1. CASE DeleteFile(r)
  <2>1. Victim(r) \in run[r].victims
    BY <1>1, VictimInHand DEF DeleteFile
  <2>. QED BY <1>1, <2>1 DEF DeleteFile, Gone, configVars
<1>2. CASE \E d \in Dests : DeleteObject(r, d)
  <2>1. Victim(r) \in run[r].victims
    BY <1>2, VictimInHand DEF DeleteObject, VictimsReplaceable
  <2>. QED BY <1>2, <2>1 DEF DeleteObject, Gone, configVars
<1>3. CASE ~DeleteFile(r) /\ ~\E d \in Dests : DeleteObject(r, d)
  BY <1>3
  DEF catalogVars, storeVars, configVars, Step, Trigger, Claim, AcquireSlot,
      RunnerStep, LoadJob, LoadJobFails, GiveBack, OpenRow, OpenRowFails, Pass,
      LoadDestinations, LoadDestinationsFails, Dump, DumpFails, FinishFailed,
      WriteRow, Upload, UploadFails, MarkDestination, SaveLocal, NothingLocal,
      FinishRow, ListVictims, KeepAll, ListLinks, ListLinksFails, RetireRow,
      PruneEnds, ReleaseSlot, Leave
<1>. QED BY <1>1, <1>2, <1>3

\* A row whose copies go although it is not the victim shares its name.
LEMMA GoneIsShared ==
  ASSUME Inv, RowsInOrder, VictimsReplaceable, NEW r \in Runners,
         NEW id \in RowIds, Gone(r, Name(id)), id # Victim(r).id
  PROVE  Shared(id)
<1>1. Victim(r).id \in RowIds /\ Present(Victim(r).id)
  BY DEF Gone, VictimsReplaceable, Replaceable, Present, Inv, TypeOK, RunRecord,
         Victims
<1>2. Victim(r).id < nextRow
  BY <1>1 DEF RowsInOrder
<1>. QED BY <1>1, <1>2 DEF Shared, Gone

\* What a run stores, it has stored when it goes on.
LEMMA OwnCopySteps ==
  ASSUME TypeOK, NEW r \in Runners, pc[r] \in Unstored => ~run[r].local,
         Step(r)
  PROVE  /\ pc'[r] \in Unstored => ~run'[r].local
         /\ pc'[r] = "marking" =>
              \A d \in run'[r].sent : <<d, run'[r].name>> \in objects'
         /\ pc'[r] = "finishing" /\ run'[r].local => run'[r].name \in files'
<1>. DEFINE Good ==
       /\ pc'[r] \in Unstored => ~run'[r].local
       /\ pc'[r] = "marking" =>
            \A d \in run'[r].sent : <<d, run'[r].name>> \in objects'
       /\ pc'[r] = "finishing" /\ run'[r].local => run'[r].name \in files'
<1>. USE DEF TypeOK, RunRecord, Goto, Unstored, Writing
<1>1. CASE Trigger(r) \/ LoadJob(r) \/ OpenRow(r)
  BY <1>1 DEF Trigger, Claim, LoadJob, OpenRow
<1>2. CASE LoadJobFails(r) \/ Leave(r)
  BY <1>2 DEF LoadJobFails, Leave, GiveBack, NoRun
<1>3. CASE PassStep(r)
  BY <1>3 DEF PassStep, OpenRowFails, LoadDestinationsFails, Dump, DumpFails,
              NothingLocal, KeepAll, PruneEnds, Pass, Unwind, HoldsSlot
<1>4. CASE LoadDestinations(r) \/ AcquireSlot(r) \/ ReleaseSlot(r)
  BY <1>4 DEF LoadDestinations, AcquireSlot, ReleaseSlot
<1>5. CASE Closes(r)
  BY <1>5 DEF Closes, FinishFailed, FinishRow, WriteRow, Unwind, HoldsSlot
<1>6. ASSUME NEW d \in Dests, UploadFails(r, d) \/ DeleteObject(r, d)
      PROVE  Good
  BY <1>6 DEF UploadFails, DeleteObject
<1>7. ASSUME NEW d \in Dests, Upload(r, d) PROVE Good
  BY <1>7 DEF Upload
<1>8. CASE MarkDestination(r) \/ SaveLocal(r)
  BY <1>8 DEF MarkDestination, SaveLocal
<1>9. CASE \/ ListVictims(r) \/ DeleteFile(r) \/ ListLinks(r)
           \/ ListLinksFails(r) \/ RetireRow(r)
  BY <1>9 DEF ListVictims, DeleteFile, ListLinks, ListLinksFails, RetireRow
<1>. QED
  BY <1>1, <1>2, <1>3, <1>4, <1>5, <1>6, <1>7, <1>8, <1>9
  DEF Step, RunnerStep, PassStep, Closes

\* What goes while a run stores its copies has a name the run's row shares.
LEMMA StoredSteps ==
  ASSUME Inv, HistoryInv, NEW r \in Runners, Step(r)
  PROVE  StoredCopies'
<1>0. /\ TypeOK /\ RowsInOrder /\ OwnRows /\ VictimsReplaceable
      /\ StoredCopies
  BY DEF HistoryInv, Inv
<1>1. ASSUME NEW s \in Runners, s # r
      PROVE
        /\ pc'[s] \in Unstored => ~run'[s].local
        /\ pc'[s] = "marking" =>
             \A d \in run'[s].sent :
               Shared(run[s].row)' \/ <<d, run'[s].name>> \in objects'
        /\ pc'[s] = "finishing" /\ run'[s].local =>
             Shared(run[s].row)' \/ run'[s].name \in files'
  <2>. DEFINE id == run[s].row
  <2>1. run'[s] = run[s] /\ pc'[s] = pc[s]
    BY <1>0, <1>1, OthersStay
  <2>2. ASSUME pc[s] \in Writing
        PROVE  /\ id \in RowIds /\ Present(id)
               /\ Name(id) = run[s].name
               /\ Shared(id) => Shared(id)'
               /\ Gone(r, run[s].name) => Shared(id)'
    <3>1. /\ id \in RowIds /\ rows[id].status = "running"
          /\ Name(id) = run[s].name
      BY <1>0, <2>2 DEF OwnRows, Inv, RowsOpened, HoldsSlot, Writing
    <3>2. Present(id)
      BY <3>1 DEF Present
    <3>3. Shared(id) => Shared(id)'
      <4>1. PICK n \in RowIds : n = id
        BY <3>1
      <4>2. Shared(n) => Shared(n)'
        BY <3>2, <4>1, SharedStays
      <4>. QED BY <2>1, <4>1, <4>2 DEF Shared
    <3>4. Gone(r, Name(id)) => Shared(id)
      <4>1. Gone(r, Name(id)) => id # Victim(r).id
        BY <1>0, <3>1 DEF Gone, VictimsReplaceable, Replaceable
      <4>. QED BY <1>0, <3>1, <4>1, GoneIsShared
    <3>. QED BY <3>1, <3>2, <3>3, <3>4
  <2>3. /\ pc[s] \in Unstored => ~run[s].local
        /\ pc[s] = "marking" =>
             \A d \in run[s].sent :
               Shared(id) \/ <<d, run[s].name>> \in objects
        /\ pc[s] = "finishing" /\ run[s].local =>
             Shared(id) \/ run[s].name \in files
    BY <1>0 DEF StoredCopies
  <2>4. ASSUME pc[s] = "marking", NEW d \in run[s].sent
        PROVE  Shared(id)' \/ <<d, run[s].name>> \in objects'
    <3>1. pc[s] \in Writing
      BY <2>4 DEF Writing
    <3>2. <<d, run[s].name>> \in objects =>
            <<d, run[s].name>> \in objects' \/ Gone(r, run[s].name)
      BY <1>0, StoresStay
    <3>. QED BY <2>2, <2>3, <2>4, <3>1, <3>2
  <2>5. ASSUME pc[s] = "finishing", run[s].local
        PROVE  Shared(id)' \/ run[s].name \in files'
    <3>1. pc[s] \in Writing
      BY <2>5 DEF Writing
    <3>2. run[s].name \in files =>
            run[s].name \in files' \/ Gone(r, run[s].name)
      BY <1>0, StoresStay
    <3>. QED BY <2>2, <2>3, <2>5, <3>1, <3>2
  <2>. QED BY <2>1, <2>3, <2>4, <2>5
<1>2. /\ pc'[r] \in Unstored => ~run'[r].local
      /\ pc'[r] = "marking" =>
           \A d \in run'[r].sent : <<d, run'[r].name>> \in objects'
      /\ pc'[r] = "finishing" /\ run'[r].local => run'[r].name \in files'
  <2>1. pc[r] \in Unstored => ~run[r].local
    BY <1>0 DEF StoredCopies
  <2>. QED BY <1>0, <2>1, OwnCopySteps
<1>3. ASSUME NEW s \in Runners
      PROVE
        /\ pc'[s] \in Unstored => ~run'[s].local
        /\ pc'[s] = "marking" =>
             \A d \in run'[s].sent :
               Shared(run[s].row)' \/ <<d, run'[s].name>> \in objects'
        /\ pc'[s] = "finishing" /\ run'[s].local =>
             Shared(run[s].row)' \/ run'[s].name \in files'
  BY <1>1, <1>2
<1>. QED BY <1>3 DEF StoredCopies

\* A completed row with a newer one keeps a newer one, though that may be
\* another: what is retired had a newer one itself.
LEMMA NewerStays ==
  ASSUME Inv, HistoryInv, NEW r \in Runners, Step(r), NEW id \in RowIds,
         Present(id), HasNewer(id)
  PROVE  HasNewer(id)'
<1>0. /\ RowsInOrder /\ OwnRows /\ VictimsReplaceable /\ RowIds \subseteq Int
      /\ TypeOK
  BY CatalogAssumption DEF HistoryInv, Inv, RowIds
<1>1. PICK k \in RowIds : /\ k > id /\ rows[k].job = rows[id].job
                          /\ rows[k].status = "completed"
  BY DEF HasNewer
<1>2. rows'[id].job = rows[id].job
  <2>1. CASE OpenRow(r)
    BY <1>0, <2>1, Opens DEF Present
  <2>2. CASE ~OpenRow(r)
    BY <1>0, <2>2, KeptSteps DEF Kept
  <2>. QED BY <2>1, <2>2
<1>3. CASE RetireRow(r) /\ k = Victim(r).id
  <2>1. /\ Victim(r) \in run[r].victims /\ rows[k].job = run[r].job
    BY <1>0, <1>3, RetiresVictim
  <2>2. PICK m \in RowIds : /\ m > k /\ rows[m].job = run[r].job
                            /\ rows[m].status = "completed"
                            /\ \A w \in run[r].victims : w.id # m
    BY <1>0, <1>3, <2>1 DEF VictimsReplaceable, Replaceable
  <2>3. rows'[m] = rows[m]
    BY <1>0, <2>1, <2>2, CompletedStay
  <2>4. m > id
    BY <1>0, <1>1, <2>2
  <2>. QED BY <1>1, <1>2, <2>1, <2>2, <2>3, <2>4 DEF HasNewer
<1>4. CASE ~(RetireRow(r) /\ k = Victim(r).id)
  <2>1. rows'[k] = rows[k]
    BY <1>0, <1>1, <1>4, CompletedStay
  <2>. QED BY <1>1, <1>2, <2>1 DEF HasNewer
<1>. QED BY <1>3, <1>4

\* A row that has its copies keeps them, unless they are those of the victim in
\* hand or it is retired; what it comes to record, its run has stored.
LEMMA CopiesLeft ==
  ASSUME Inv, HistoryInv, NEW r \in Runners, Step(r), ~OpenRow(r),
         NEW id \in RowIds, Present(id), CopiesExist(id), ~Shared(id),
         rows'[id].status # "deleted", ~Gone(r, Name(id))
  PROVE  CopiesExist(id)'
<1>0. /\ TypeOK /\ RowsInOrder /\ OwnRows /\ VictimsReplaceable
      /\ StoredCopies /\ rows \in [RowIds -> RowRecord]
  BY DEF HistoryInv, Inv, TypeOK, CatalogTypeOK
<1>1. ~Gone(r, Name(id))
  OBVIOUS
<1>2. Name(id)' = Name(id)
  BY SharedStays
<1>3. rows'[id].local => Name(id) \in files'
  <2>1. CASE Closes(r) /\ id = run[r].row
    <3>1. UNCHANGED files /\ Name(id) = run[r].name
      BY <1>0, <2>1, ClosesOwn
    <3>2. CASE UNCHANGED rows
      BY <3>1, <3>2 DEF CopiesExist
    <3>3. CASE rows' = [rows EXCEPT ![run[r].row].status = "failed",
                                    ![run[r].row].local = FALSE]
      BY <1>0, <2>1, <3>3, WrittenRow
    <3>4. CASE /\ pc[r] = "finishing"
               /\ rows' = [rows EXCEPT ![run[r].row].status = "completed",
                                       ![run[r].row].local = run[r].local]
      <4>1. rows'[id].local = run[r].local
        BY <1>0, <2>1, <3>4 DEF RowRecord
      <4>2. run[r].local => run[r].name \in files
        BY <1>0, <2>1, <3>4 DEF StoredCopies
      <4>. QED BY <3>1, <4>1, <4>2
    <3>. QED BY <1>0, <2>1, <3>2, <3>3, <3>4, ClosesOwn
  <2>2. CASE ~(Closes(r) /\ id = run[r].row)
    <3>1. rows'[id] = rows[id]
      <4>1. CASE Closes(r)
        BY <1>0, <2>2, <4>1, ClosesOwn
      <4>2. CASE RetireRow(r)
        BY <1>0, <4>2, RetiredRow
      <4>3. CASE ~Closes(r) /\ ~RetireRow(r)
        BY <4>3, RowsStay DEF rowVars
      <4>. QED BY <4>1, <4>2, <4>3
    <3>. QED BY <1>0, <1>1, <3>1, StoresStay DEF CopiesExist
  <2>. QED BY <2>1, <2>2
<1>4. ASSUME NEW d \in dests', <<id, d>> \in links'
      PROVE  <<d, Name(id)>> \in objects'
  <2>1. d \in dests
    BY <1>0, StoresStay
  <2>2. <<d, Name(id)>> \in objects
    <3>1. CASE <<id, d>> \in links
      BY <2>1, <3>1 DEF CopiesExist, LinksOf
    <3>2. CASE <<id, d>> \notin links
      <4>1. pc[r] = "marking" /\ id = run[r].row /\ d \in run[r].sent
        BY <1>0, <1>4, <3>2, LinksGrow
      <4>2. Name(id) = run[r].name
        BY <1>0, <4>1 DEF OwnRows, Writing
      <4>. QED BY <1>0, <4>1, <4>2 DEF StoredCopies
    <3>. QED BY <3>1, <3>2
  <2>. QED BY <1>0, <1>1, <2>2, StoresStay
<1>. QED BY <1>2, <1>3, <1>4 DEF CopiesExist, LinksOf

\* A row that is or will be completed and has no newer one keeps its copies:
\* they are not those of a victim, whose name it would share or which it
\* would be.
LEMMA CopiesStay ==
  ASSUME Inv, HistoryInv, NEW r \in Runners, Step(r), ~OpenRow(r),
         NEW id \in RowIds, Present(id), CopiesExist(id), ~Shared(id),
         rows'[id].status \in {"running", "completed"},
         ~(rows[id].status = "completed" /\ HasNewer(id))
  PROVE  CopiesExist(id)'
<1>0. RowsInOrder /\ VictimsReplaceable
  BY DEF HistoryInv
<1>1. ~Gone(r, Name(id))
  <2>. SUFFICES ASSUME Gone(r, Name(id)) PROVE FALSE
    OBVIOUS
  <2>1. id = Victim(r).id
    BY <1>0, GoneIsShared
  <2>2. rows[id].status = "completed" /\ HasNewer(id)
    BY <1>0, <2>1 DEF Gone, VictimsReplaceable, Replaceable, HasNewer
  <2>. QED BY <2>2
<1>. QED BY <1>1, CopiesLeft

\* Copies go with a victim, which a newer row replaces.
LEMMA IntactSteps ==
  ASSUME Inv, HistoryInv, NEW r \in Runners, Step(r)
  PROVE  ReplacedOrIntact'
<1>0. /\ TypeOK /\ RowsInOrder /\ OwnRows /\ VictimsReplaceable
      /\ ReplacedOrIntact /\ rows \in [RowIds -> RowRecord]
  BY DEF HistoryInv, Inv, TypeOK, CatalogTypeOK
<1>. SUFFICES ASSUME NEW id \in RowIds,
                     rows'[id].status \in {"running", "completed"}
              PROVE  \/ Shared(id)' \/ CopiesExist(id)'
                     \/ rows'[id].status = "completed" /\ HasNewer(id)'
  BY DEF ReplacedOrIntact
<1>1. CASE OpenRow(r) /\ id = nextRow
  <2>1. ~rows'[id].local /\ UNCHANGED links
    BY <1>0, <1>1, Opens
  <2>2. \A d : <<id, d>> \notin links
    <3>1. nextRow \in Int
      BY <1>1, CatalogAssumption DEF RowIds
    <3>. QED BY <1>0, <1>1, <3>1 DEF RowsInOrder
  <2>. QED BY <2>1, <2>2 DEF CopiesExist, LinksOf
<1>2. CASE ~(OpenRow(r) /\ id = nextRow)
  <2>1. rows[id].status \in {"running", "completed"}
    <3>1. CASE OpenRow(r)
      BY <1>0, <1>2, <3>1, Opens
    <3>2. CASE Closes(r)
      BY <1>0, <3>2, ClosesOwn
    <3>3. CASE RetireRow(r)
      BY <1>0, <3>3, RetiresVictim
    <3>4. CASE ~OpenRow(r) /\ ~Closes(r) /\ ~RetireRow(r)
      BY <3>4, RowsStay DEF rowVars
    <3>. QED BY <3>1, <3>2, <3>3, <3>4
  <2>2. Present(id)
    BY <2>1 DEF Present
  <2>3. CASE Shared(id)
    BY <2>2, <2>3, SharedStays
  <2>4. CASE rows[id].status = "completed" /\ HasNewer(id)
    <3>1. HasNewer(id)'
      BY <2>2, <2>4, NewerStays
    <3>2. rows'[id].status = "completed"
      <4>1. CASE RetireRow(r)
        BY <1>0, <2>4, <4>1, RetiredRow
      <4>2. CASE ~RetireRow(r)
        BY <1>0, <2>4, <4>2, CompletedStay
      <4>. QED BY <4>1, <4>2
    <3>. QED BY <3>1, <3>2
  <2>5. CASE /\ ~Shared(id)
             /\ ~(rows[id].status = "completed" /\ HasNewer(id))
    <3>1. CopiesExist(id)
      BY <1>0, <2>1, <2>5 DEF ReplacedOrIntact
    <3>2. CASE OpenRow(r)
      <4>1. /\ rows'[id] = rows[id]
            /\ UNCHANGED <<dests, links, files, objects>>
        BY <1>0, <1>2, <3>2, Opens
      <4>. QED BY <3>1, <4>1 DEF CopiesExist, LinksOf, Name
    <3>3. CASE ~OpenRow(r)
      BY <2>2, <2>5, <3>1, <3>3, CopiesStay
    <3>. QED BY <3>2, <3>3
  <2>. QED BY <2>3, <2>4, <2>5
<1>. QED BY <1>1, <1>2

-----------------------------------------------------------------------------
(* The invariant.                                                          *)

\* At the start there is no row, no run and no copy.
LEMMA InitHistory == Init => HistoryInv
<1>. SUFFICES ASSUME Init PROVE HistoryInv
  OBVIOUS
<1>1. \A id \in RowIds : rows[id].status = "absent"
  BY DEF Init, CatalogInit, NoRow
<1>2. RowsInOrder /\ ReplacedOrIntact
  BY <1>1 DEF Init, CatalogInit, RowsInOrder, ReplacedOrIntact, Present
<1>3. OwnRows /\ VictimsReplaceable /\ StoredCopies
  BY DEF Init, OwnRows, VictimsReplaceable, StoredCopies, Replaceable, Writing,
         NoRun
<1>. QED BY <1>2, <1>3 DEF HistoryInv

\* Edits of a job touch no row and no copy; a crash ends the runs.
LEMMA EnvironmentHistory ==
  ASSUME HistoryInv,
         (\E j \in Jobs : EditJob(j)) \/ Crash \/ UNCHANGED vars
  PROVE  HistoryInv'
<1>1. UNCHANGED <<dests, rowVars, links, storeVars>>
  BY DEF EditJob, Crash, vars, catalogVars, configVars
<1>2. RowsInOrder' /\ ReplacedOrIntact'
  BY <1>1
  DEF HistoryInv, RowsInOrder, ReplacedOrIntact, Present, Shared, CopiesExist,
      Name, LinksOf, HasNewer, rowVars, storeVars
<1>3. CASE UNCHANGED engineVars
  BY <1>1, <1>2, <1>3
  DEF HistoryInv, OwnRows, VictimsReplaceable, StoredCopies, Replaceable,
      Shared, Name, rowVars, storeVars, engineVars
<1>4. CASE Crash
  BY <1>2, <1>4
  DEF Crash, NoRun, HistoryInv, OwnRows, VictimsReplaceable, StoredCopies,
      Replaceable, Writing
<1>. QED BY <1>3, <1>4 DEF EditJob, vars

\* Whatever fails, however the runs interleave and whenever the process dies,
\* Prune takes a row only while a newer completed backup of the job stays.
THEOREM HistoryInvariance == Spec => []HistoryInv
<1>1. Inv /\ HistoryInv /\ [Next]_vars => HistoryInv'
  <2>. SUFFICES ASSUME Inv, HistoryInv, [Next]_vars PROVE HistoryInv'
    OBVIOUS
  <2>1. ASSUME NEW r \in Runners, Step(r) PROVE HistoryInv'
    BY <2>1, OrderSteps, OwnRowSteps, ReplaceableSteps, StoredSteps, IntactSteps
    DEF HistoryInv
  <2>. QED BY <2>1, EnvironmentHistory DEF Next, EngineNext, Step
<1>. QED BY InitHistory, <1>1, Invariance, PTL DEF Spec

\* The newest completed backup of a job keeps every copy its row records, for
\* any faults and crashes: Prune never reaches it.
THEOREM NewestSurvives == Spec => []NewestIntact
<1>1. Inv /\ HistoryInv => NewestIntact
  <2>. SUFFICES ASSUME Inv, HistoryInv, NEW j \in Jobs, NEW id \in Newest(j),
                       ~Shared(id)
                PROVE  CopiesExist(id)
    BY DEF NewestIntact
  <2>1. id \in RowIds /\ rows[id].status = "completed" /\ rows[id].job = j
    BY DEF Newest, CompletedOf
  <2>2. ~HasNewer(id)
    <3>. SUFFICES ASSUME NEW k \in RowIds, k > id, rows[k].job = j,
                         rows[k].status = "completed"
                  PROVE  FALSE
      BY <2>1 DEF HasNewer
    <3>1. k # id /\ Present(k) /\ Present(id)
      BY <2>1, CatalogAssumption DEF Present, RowIds
    <3>2. Newer(k, id)
      BY <2>1, <3>1, NewerIsLarger DEF Inv, TypeOK, HistoryInv
    <3>. QED BY <3>2 DEF Newest, CompletedOf
  <2>. QED BY <2>1, <2>2 DEF HistoryInv, ReplacedOrIntact
<1>. QED BY <1>1, Invariance, HistoryInvariance, PTL

-----------------------------------------------------------------------------
(* The engine implements BackupHistory.                                    *)

\* The abstract state.
Owner == [id \in RowIds |-> rows[id].job]
State == [id \in RowIds |-> rows[id].status]

HistoryStep == [History!Next]_(History!historyVars)

\* A step that changes neither rows nor claims.
LEMMA Stutters ==
  ASSUME UNCHANGED <<rows, running>> PROVE HistoryStep
BY DEF HistoryStep, History!historyVars

\* A row that is opened is the newest.
LEMMA OpenRefines ==
  ASSUME Inv, RowsInOrder, NEW r \in Runners, OpenRow(r) PROVE HistoryStep
<1>0. /\ rows \in [RowIds -> RowRecord] /\ run[r].job \in Jobs
  BY Opens DEF Inv, TypeOK, CatalogTypeOK
<1>1. /\ nextRow \in RowIds /\ run[r].job \in running /\ UNCHANGED running
      /\ State[nextRow] = "absent"
  BY Opens DEF State
<1>2. \A k \in RowIds : State[k] # "absent" => k < nextRow
  BY DEF State, RowsInOrder, Present
<1>3. State' = [State EXCEPT ![nextRow] = "running"]
  BY <1>0, Opens DEF State
<1>4. Owner' = [Owner EXCEPT ![nextRow] = run[r].job]
  BY <1>0, Opens DEF Owner
<1>5. PICK j \in Jobs, n \in RowIds : j = run[r].job /\ n = nextRow
  BY <1>0, <1>1
<1>6. History!Open(j, n)
  BY <1>1, <1>2, <1>3, <1>4, <1>5 DEF History!Open, State, Owner
<1>. QED BY <1>6 DEF HistoryStep, History!Next

\* A row is closed by the run that opened it, while its job is busy.
LEMMA CloseRefines ==
  ASSUME Inv, OwnRows, NEW r \in Runners, Closes(r) PROVE HistoryStep
<1>. DEFINE id == run[r].row
<1>0. rows \in [RowIds -> RowRecord] /\ run[r].local \in BOOLEAN
  BY DEF Inv, TypeOK, CatalogTypeOK, RunRecord
<1>1. /\ id \in RowIds /\ State[id] = "running" /\ Owner[id] \in running
      /\ UNCHANGED running
  BY ClosesOwn DEF State, Owner
<1>2. CASE UNCHANGED rows
  BY <1>1, <1>2, Stutters
<1>3. CASE ~UNCHANGED rows
  <2>1. PICK result \in {"completed", "failed"}, local \in BOOLEAN :
          rows' = [rows EXCEPT ![id].status = result, ![id].local = local]
    BY <1>0, <1>3, ClosesOwn
  <2>2. /\ rows'[id].status = result /\ rows'[id].job = rows[id].job
        /\ \A k \in RowIds \ {id} : rows'[k] = rows[k]
    BY <1>0, <1>1, <2>1, WrittenRow
  <2>. HIDE DEF id
  <2>3. State' = [State EXCEPT ![id] = result] /\ Owner' = Owner
    BY <1>1, <2>2 DEF State, Owner
  <2>4. History!Close(id, result)
    BY <1>1, <2>3 DEF History!Close, State, Owner
  <2>. QED BY <1>1, <2>4 DEF HistoryStep, History!Next
<1>. QED BY <1>2, <1>3

\* A row is retired while the job has a newer completed one.
LEMMA RetireRefines ==
  ASSUME Inv, HistoryInv, NEW r \in Runners, RetireRow(r) PROVE HistoryStep
<1>. DEFINE id == Victim(r).id
<1>0. /\ rows \in [RowIds -> RowRecord] /\ RowsInOrder /\ VictimsReplaceable
  BY DEF Inv, TypeOK, CatalogTypeOK, HistoryInv
<1>1. /\ Victim(r) \in run[r].victims /\ id \in RowIds
      /\ rows[id].job = run[r].job /\ UNCHANGED running
      /\ State[id] = "completed" /\ Owner[id] \in running
  BY <1>0, RetiresVictim DEF State, Owner
<1>2. CASE UNCHANGED rows
  BY <1>1, <1>2, Stutters
<1>3. CASE ~UNCHANGED rows
  <2>1. rows' = [rows EXCEPT ![id].status = "deleted", ![id].local = FALSE]
    BY <1>0, <1>3, RetiresVictim
  <2>2. /\ rows'[id].status = "deleted" /\ rows'[id].job = rows[id].job
        /\ \A k \in RowIds \ {id} : rows'[k] = rows[k]
    BY <1>0, <1>1, <2>1, WrittenRow
  <2>3. \E k \in RowIds : k > id /\ Owner[k] = Owner[id]
                                 /\ State[k] = "completed"
    BY <1>0, <1>1 DEF VictimsReplaceable, Replaceable, State, Owner
  <2>. HIDE DEF id
  <2>4. State' = [State EXCEPT ![id] = "deleted"] /\ Owner' = Owner
    BY <1>1, <2>2 DEF State, Owner
  <2>5. PICK n \in RowIds : n = id
    BY <1>1
  <2>6. History!Retire(n)
    BY <1>1, <2>3, <2>4, <2>5 DEF History!Retire, History!HasNewer, State, Owner
  <2>. QED BY <2>6 DEF HistoryStep, History!Next
<1>. QED BY <1>2, <1>3

\* A job becomes busy, and free again.
LEMMA ClaimRefines ==
  ASSUME Inv, NEW r \in Runners, Trigger(r) \/ LoadJobFails(r) \/ Leave(r)
  PROVE  HistoryStep
<1>1. UNCHANGED rows
  BY DEF Trigger, Claim, LoadJobFails, Leave, GiveBack, catalogVars, rowVars
<1>2. ASSUME NEW j \in Jobs, Claim(r, j) PROVE HistoryStep
  <2>1. History!Begin(j)
    BY <1>1, <1>2 DEF Claim, NotInFlight, History!Begin
  <2>. QED BY <2>1 DEF HistoryStep, History!Next
<1>3. CASE LoadJobFails(r) \/ Leave(r)
  <2>1. run[r].job \in running /\ run[r].job \in Jobs
    BY <1>3 DEF LoadJobFails, Leave, GiveBack, Goto, Inv, ClaimsHeld, HoldsJob,
                TypeOK
  <2>2. History!End(run[r].job)
    BY <1>1, <1>3, <2>1 DEF LoadJobFails, Leave, GiveBack, History!End
  <2>. QED BY <2>1, <2>2 DEF HistoryStep, History!Next
<1>. QED BY <1>2, <1>3 DEF Trigger

\* Every step of the engine is one of the history, or none.
LEMMA StepRefines ==
  ASSUME Inv, HistoryInv, [Next]_vars PROVE HistoryStep
<1>0. TypeOK /\ RowsInOrder /\ OwnRows /\ VictimsReplaceable
  BY DEF Inv, HistoryInv
<1>1. ASSUME NEW r \in Runners, Step(r) PROVE HistoryStep
  <2>1. CASE OpenRow(r)
    BY <1>0, <2>1, OpenRefines
  <2>2. CASE Closes(r)
    BY <1>0, <2>2, CloseRefines
  <2>3. CASE RetireRow(r)
    BY <2>3, RetireRefines
  <2>4. CASE Trigger(r) \/ LoadJobFails(r) \/ Leave(r)
    BY <2>4, ClaimRefines
  <2>5. CASE /\ ~OpenRow(r) /\ ~Closes(r) /\ ~RetireRow(r)
             /\ ~Trigger(r) /\ ~LoadJobFails(r) /\ ~Leave(r)
    <3>1. UNCHANGED rows
      BY <1>1, <2>5, RowsStay DEF rowVars
    <3>2. UNCHANGED running
      BY <1>0, <1>1, <2>5, QuietSteps DEF Step, Quiet
    <3>. QED BY <3>1, <3>2, Stutters
  <2>. QED BY <2>1, <2>2, <2>3, <2>4, <2>5
<1>2. CASE Crash
  <2>1. History!Restart
    BY <1>2 DEF Crash, catalogVars, rowVars, History!Restart
  <2>. QED BY <2>1 DEF HistoryStep, History!Next
<1>3. CASE (\E j \in Jobs : EditJob(j)) \/ UNCHANGED vars
  <2>1. UNCHANGED <<rows, running>>
    BY <1>3 DEF EditJob, vars, catalogVars, rowVars, engineVars
  <2>. QED BY <2>1, Stutters
<1>. QED BY <1>1, <1>2, <1>3 DEF Next, EngineNext, Step

\* The engine implements BackupHistory: one run of a job at a time, every row
\* opened and closed once and by that run, and no completed row retired without
\* a newer one -- whatever fails and whenever the process restarts.
THEOREM HistoryKept == Spec => HistorySpec
<1>1. Init => History!Init
  BY DEF Init, CatalogInit, NoRow, History!Init
<1>2. Inv /\ HistoryInv /\ [Next]_vars => [History!Next]_(History!historyVars)
  BY StepRefines DEF HistoryStep
<1>. QED
  BY <1>1, <1>2, Invariance, HistoryInvariance, PTL
  DEF Spec, HistorySpec, History!Spec
=============================================================================

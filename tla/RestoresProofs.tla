--------------------------- MODULE RestoresProofs ---------------------------
(***************************************************************************)
(* Restores and imports beside the engine and the deletions, for every set *)
(* of jobs, destinations, faults, requests and restorers: importMu is held *)
(* by one of them at a time and by none that has returned, a row shows a   *)
(* restore in progress only while one works on it, and what an import has  *)
(* stored, its upload and its safety dump, stays.                          *)
(***************************************************************************)
EXTENDS Restores, DeletionsProofs

USE CatalogAssumption, EngineAssumption, RestoreAssumption

RestorePcs == HoldsMu \union {"idle", "asked", "spoolFailed"}

\* An upload is written under the name of the import's own row.
SpoolsOwnRow ==
  \A k \in Restorers : rpc[k] = "spooling" => res[k].row \in RowIds

\* The strengthening that is inductive: what keeps RestoreInv.
RestoreSound ==
  /\ Sound
  /\ RestoreTypeOK
  /\ ImportsSerialized
  /\ SpoolsOwnRow

-----------------------------------------------------------------------------
(* Types.                                                                  *)

\* A step that keeps its bounds has a row left for what it inserts.
LEMMA RowForNext ==
  ASSUME RestoreSound, RowsLeft', nextRow' = nextRow + 1
  PROVE  nextRow \in RowIds
<1>1. Cardinality(Opening') \in Nat
  <2>1. IsFiniteSet(Opening')
    BY FS_Subset DEF Opening
  <2>. QED BY <2>1, FS_CardinalityType
<1>2. Reserved' \in Nat
  <2>1. \A S \in SUBSET Restorers : Cardinality(S) \in Nat
    BY FS_Subset, FS_CardinalityType
  <2>. QED BY <2>1 DEF Reserved
<1>3. nextRow \in 1..(MaxRows + 1)
  BY DEF RestoreSound, Sound, TypeOK, CatalogTypeOK
<1>. QED BY <1>1, <1>2, <1>3 DEF RowsLeft, RowIds

\* Inserts, updates and files of a restorer leave the tables well typed.
LEMMA RestorerCatalog ==
  ASSUME RestoreSound, RowsLeft', clock' \in Stamps, NEW k \in Restorers,
         RestorerBegins(k) \/ RestorerStep(k)
  PROVE  CatalogTypeOK' /\ UNCHANGED <<engineVars, handlerVars>>
<1>0. /\ CatalogTypeOK /\ res[k] \in ResRecord
      /\ rows \in [RowIds -> RowRecord]
      /\ rpc[k] = "spooling" => res[k].row \in RowIds
  BY DEF RestoreSound, Sound, TypeOK, CatalogTypeOK, RestoreTypeOK, SpoolsOwnRow
<1>. DEFINE Good == CatalogTypeOK' /\ UNCHANGED <<engineVars, handlerVars>>
<1>1. ASSUME OnlyMemory \/ UNCHANGED systemVars PROVE Good
  BY <1>0, <1>1
  DEF OnlyMemory, systemVars, vars, catalogVars, configVars, rowVars, storeVars,
      CatalogTypeOK
<1>2. ASSUME NEW id, NEW status \in {"completed", "failed"},
             NEW local \in BOOLEAN, CloseRow(id, status, local)
      PROVE  Good
  <2>1. rows' \in [RowIds -> RowRecord]
    BY <1>0, <1>2, UpdateBackupType DEF CloseRow, RowStatus
  <2>. QED
    BY <1>0, <1>2, <2>1
    DEF CloseRow, Elsewhere, configVars, CatalogTypeOK
<1>3. ASSUME WriteBack(k) PROVE Good
  <2>1. res[k].local \in BOOLEAN
    BY <1>0 DEF ResRecord
  <2>2. rows' \in [RowIds -> RowRecord]
    BY <1>0, <1>3, <2>1, UpdateBackupType DEF WriteBack, RowStatus
  <2>. QED
    BY <1>0, <1>3, <2>2 DEF WriteBack, Elsewhere, configVars, CatalogTypeOK
<1>4. ASSUME NEW owner \in Jobless, NEW started \in Stamps,
             CreateBackup(owner, started),
             UNCHANGED files, Elsewhere
      PROVE  Good
  <2>1. nextRow' = nextRow + 1 /\ nextRow \in RowIds
    BY <1>4, RowForNext DEF CreateBackup
  <2>2. rows' \in [RowIds -> RowRecord]
    BY <1>0, <1>4, <2>1 DEF CreateBackup, RowRecord, RowStatus, Owners
  <2>3. nextRow' \in 1..(MaxRows + 1)
    BY <2>1 DEF RowIds
  <2>. QED
    BY <1>0, <1>4, <2>2, <2>3 DEF Elsewhere, configVars, CatalogTypeOK
<1>5. ASSUME RecordImport(k) PROVE Good
  <2>1. CreateBackup("uploaded", clock')
    BY <1>5 DEF RecordImport, InsertRow
  <2>. QED BY <1>4, <1>5, <2>1 DEF RecordImport, Jobless
<1>6. ASSUME RecordSafety(k) PROVE Good
  <2>1. res[k].safety[2] \in Stamps
    BY <1>0 DEF ResRecord, Names
  <2>. QED BY <1>4, <1>6, <2>1 DEF RecordSafety, Jobless
<1>7. ASSUME Spool(k) \/ SpoolFails(k) PROVE Good
  <2>1. rpc[k] = "spooling"
    BY <1>7 DEF Spool, SpoolFails, Advance
  <2>2. Name(res[k].row) \in Names
    BY <1>0, <2>1 DEF Name, Names, RowRecord
  <2>3. files' \in SUBSET Names
    BY <1>0, <1>7, <2>2 DEF Spool, SpoolFails, CatalogTypeOK
  <2>. QED
    BY <1>0, <1>7, <2>3
    DEF Spool, SpoolFails, Elsewhere, configVars, rowVars, CatalogTypeOK
<1>8. ASSUME SafetyDump(k) PROVE Good
  <2>1. PICK now \in {clock, clock + 1} :
          clock' = now /\ files' = files \union {<<"pre-restore", now>>}
    BY <1>8 DEF SafetyDump
  <2>2. <<"pre-restore", now>> \in Names
    BY <2>1 DEF Names, Owners, Jobless
  <2>3. files' \in SUBSET Names
    BY <1>0, <2>1, <2>2 DEF CatalogTypeOK
  <2>. QED
    BY <1>0, <1>8, <2>3 DEF SafetyDump, Elsewhere, configVars, CatalogTypeOK
<1>9. ASSUME CloseFailedSpool(k) \/ Report(k) \/ FinishImportFailed(k)
             \/ CloseSafety(k)
      PROVE  Good
  BY <1>1, <1>2, <1>9
  DEF CloseFailedSpool, Report, FinishImportFailed, CloseSafety
<1>. QED
  BY <1>1, <1>3, <1>5, <1>6, <1>7, <1>8, <1>9
  DEF RestorerBegins, AskRestore, StartImport, RestorerStep, LockForRestore,
      Refused, BeginRestore, LoadTarget, LoadTargetFails, FailRestore,
      FoundLocally, NotLocal, FoundNowhere, Fetch, FetchFails, FetchedNothing,
      Replay, ReplayFails, RecordImportFails, BeginImport, Probe, ProbeFails,
      ImportFails, SafetySkipped, SafetyFails, RecordSafetyFails, Drop,
      NothingToDrop, CreateDatabase, ToolFails, Import, ImportingFails,
      LeaveImport, Unlock

\* A restorer goes from stage to stage.
LEMMA RestorerPcTypes ==
  ASSUME RestoreTypeOK, NEW k \in Restorers,
         RestorerBegins(k) \/ RestorerStep(k)
  PROVE  rpc' \in [Restorers -> RestorePcs]
<1>1. SUFFICES ASSUME rpc \in [Restorers -> RestorePcs]
               PROVE  rpc' \in [Restorers -> RestorePcs]
  BY DEF RestoreTypeOK, RestorePcs
<1>2. SUFFICES \/ UNCHANGED rpc
               \/ \E from : \E to \in RestorePcs : Advance(k, from, to)
  BY <1>1 DEF Advance
<1>. USE DEF RestorePcs, HoldsMu, RestoreStages, ImportStages
<1>3. CASE RestorerBegins(k)
  BY <1>3 DEF RestorerBegins, AskRestore, StartImport
<1>4. CASE \/ LockForRestore(k) \/ Refused(k) \/ BeginRestore(k)
           \/ LoadTarget(k) \/ LoadTargetFails(k)
           \/ FoundLocally(k) \/ NotLocal(k) \/ FoundNowhere(k)
           \/ \E d \in Dests : Fetch(k, d) \/ FetchFails(k, d)
           \/ FetchedNothing(k) \/ Replay(k) \/ ReplayFails(k) \/ WriteBack(k)
  BY <1>4
  DEF LockForRestore, Refused, BeginRestore, LoadTarget, LoadTargetFails,
      FailRestore, FoundLocally, NotLocal, FoundNowhere, Fetch, FetchFails,
      FetchedNothing, Replay, ReplayFails, WriteBack
<1>5. CASE \/ RecordImport(k) \/ RecordImportFails(k)
           \/ Spool(k) \/ SpoolFails(k) \/ CloseFailedSpool(k)
           \/ BeginImport(k) \/ Probe(k) \/ ProbeFails(k)
           \/ SafetySkipped(k) \/ SafetyDump(k) \/ SafetyFails(k)
           \/ RecordSafety(k) \/ RecordSafetyFails(k) \/ CloseSafety(k)
  BY <1>5
  DEF RecordImport, RecordImportFails, Spool, SpoolFails, CloseFailedSpool,
      BeginImport, Probe, ProbeFails, ImportFails, SafetySkipped, SafetyDump,
      SafetyFails, AfterFailedSafety, RecordSafety, RecordSafetyFails,
      CloseSafety
<1>6. CASE \/ Drop(k) \/ NothingToDrop(k) \/ CreateDatabase(k) \/ ToolFails(k)
           \/ Import(k) \/ ImportingFails(k) \/ Report(k)
           \/ FinishImportFailed(k) \/ LeaveImport(k) \/ Unlock(k)
  BY <1>6
  DEF Drop, NothingToDrop, CreateDatabase, ToolFails, ImportFails, Import,
      ImportingFails, Report, FinishImportFailed, LeaveImport, Unlock
<1>. QED BY <1>3, <1>4, <1>5, <1>6 DEF RestorerStep

\* The other variables of the restorers keep their types.
LEMMA RestorerTypes ==
  ASSUME RestoreSound, RowsLeft', clock' \in Stamps, NEW k \in Restorers,
         RestorerBegins(k) \/ RestorerStep(k)
  PROVE  /\ importMu' \in BOOLEAN
         /\ progress' \in [RowIds -> {"none", "live", "ended"}]
         /\ exists' \in BOOLEAN
         /\ res' \in [Restorers -> ResRecord]
<1>0. /\ importMu \in BOOLEAN /\ exists \in BOOLEAN
      /\ progress \in [RowIds -> {"none", "live", "ended"}]
      /\ res \in [Restorers -> ResRecord] /\ res[k] \in ResRecord
      /\ \A id \in RowIds : rows[id].local \in BOOLEAN
  BY DEF RestoreSound, RestoreTypeOK, SystemTypeOK, TypeOK, CatalogTypeOK,
         RowRecord
<1>1. NoRestore \in ResRecord
  BY DEF NoRestore, ResRecord, ImportOptions, Names, Owners, Stamps
<1>. DEFINE Good == /\ importMu' \in BOOLEAN
                    /\ progress' \in [RowIds -> {"none", "live", "ended"}]
                    /\ exists' \in BOOLEAN
                    /\ res' \in [Restorers -> ResRecord]
<1>2. ASSUME UNCHANGED <<importMu, exists>>, UNCHANGED res,
             \/ UNCHANGED progress
             \/ \E id : StartProgress(id) \/ Finish(id) \/ ClearProgress(id)
      PROVE  Good
  BY <1>0, <1>2 DEF StartProgress, Finish, ClearProgress
<1>3. ASSUME UNCHANGED progress, importMu' \in BOOLEAN, exists' \in BOOLEAN,
             \/ UNCHANGED res
             \/ \E x \in ResRecord : res' = [res EXCEPT ![k] = x]
      PROVE  Good
  BY <1>0, <1>3
<1>4. ASSUME NEW id \in RowIds, AskRestore(k, id) PROVE Good
  <2>1. id \in 0..MaxRows /\ rows[id].local \in BOOLEAN
    BY <1>0, <1>4 DEF RowIds
  <2>2. [NoRestore EXCEPT !.row = id, !.local = rows[id].local] \in ResRecord
    BY <1>1, <2>1 DEF ResRecord
  <2>. QED BY <1>0, <1>3, <1>4, <2>2 DEF AskRestore, OnlyMemory
<1>5. ASSUME StartImport(k) PROVE Good
  <2>1. PICK opts \in Options :
          res' = [res EXCEPT ![k] = [NoRestore EXCEPT !.opts = opts]]
    BY <1>5 DEF StartImport
  <2>2. [NoRestore EXCEPT !.opts = opts] \in ResRecord
    BY <1>1 DEF ResRecord
  <2>. QED BY <1>0, <1>3, <1>5, <2>1, <2>2 DEF StartImport
<1>6. ASSUME RecordImport(k) PROVE Good
  <2>1. nextRow \in RowIds
    BY <1>6, RowForNext DEF RecordImport, InsertRow, CreateBackup
  <2>2. nextRow \in 0..MaxRows
    BY <2>1 DEF RowIds
  <2>. QED BY <1>0, <1>6, <2>2 DEF RecordImport, ResRecord
<1>7. ASSUME RecordSafety(k) PROVE Good
  <2>1. nextRow \in RowIds
    BY <1>7, RowForNext DEF RecordSafety, CreateBackup
  <2>2. nextRow \in 0..MaxRows
    BY <2>1 DEF RowIds
  <2>. QED BY <1>0, <1>7, <2>2 DEF RecordSafety, Elsewhere, ResRecord
<1>8. ASSUME SafetyDump(k) PROVE Good
  <2>1. PICK now \in {clock, clock + 1} :
          /\ clock' = now
          /\ res' = [res EXCEPT ![k].safety = <<"pre-restore", now>>]
    BY <1>8 DEF SafetyDump
  <2>2. <<"pre-restore", now>> \in Names
    BY <2>1 DEF Names, Owners, Jobless
  <2>. QED BY <1>0, <1>8, <2>1, <2>2 DEF SafetyDump, ResRecord
<1>9. ASSUME NotLocal(k) PROVE Good
  <2>1. LinksOf(res[k].row) \in SUBSET Dests
    BY DEF LinksOf, RestoreSound, Sound, TypeOK, CatalogTypeOK
  <2>. QED BY <1>0, <1>9, <2>1 DEF NotLocal, OnlyMemory, ResRecord
<1>10. ASSUME NEW d \in Dests, Fetch(k, d) \/ FetchFails(k, d) PROVE Good
  BY <1>0, <1>10 DEF Fetch, FetchFails, OnlyMemory, ResRecord
<1>11. ASSUME Probe(k) PROVE Good
  <2>. DEFINE found == (res[k].opts.make \/ res[k].opts.clear) => exists
  <2>1. found \in BOOLEAN
    OBVIOUS
  <2>2. res' = [res EXCEPT ![k].found = found]
    BY <1>11 DEF Probe
  <2>. HIDE DEF found
  <2>. QED BY <1>0, <1>11, <2>1, <2>2 DEF Probe, OnlyMemory, ResRecord
<1>12. CASE \/ LockForRestore(k) \/ Refused(k) \/ BeginRestore(k)
            \/ LoadTarget(k) \/ LoadTargetFails(k)
            \/ FoundLocally(k) \/ FoundNowhere(k)
            \/ FetchedNothing(k) \/ Replay(k) \/ ReplayFails(k) \/ WriteBack(k)
            \/ RecordImportFails(k) \/ Spool(k) \/ SpoolFails(k)
            \/ CloseFailedSpool(k) \/ BeginImport(k)
  BY <1>0, <1>1, <1>2, <1>3, <1>12
  DEF LockForRestore, Refused, BeginRestore, LoadTarget, LoadTargetFails,
      FailRestore, FoundLocally, FoundNowhere, FetchedNothing, Replay,
      ReplayFails, WriteBack, RecordImportFails, Spool, SpoolFails,
      CloseFailedSpool, CloseRow, BeginImport, OnlyMemory
<1>13. CASE \/ ProbeFails(k) \/ SafetySkipped(k) \/ SafetyFails(k)
            \/ RecordSafetyFails(k) \/ CloseSafety(k)
            \/ Drop(k) \/ NothingToDrop(k) \/ CreateDatabase(k) \/ ToolFails(k)
            \/ Import(k) \/ ImportingFails(k) \/ Report(k)
            \/ FinishImportFailed(k) \/ LeaveImport(k) \/ Unlock(k)
  BY <1>0, <1>1, <1>2, <1>3, <1>13
  DEF ProbeFails, ImportFails, SafetySkipped, SafetyFails, RecordSafetyFails,
      CloseSafety, CloseRow, Drop, NothingToDrop, CreateDatabase, ToolFails,
      Import, ImportingFails, Report, FinishImportFailed, LeaveImport, Unlock,
      OnlyMemory
<1>. QED
  BY <1>4, <1>5, <1>6, <1>7, <1>8, <1>9, <1>10, <1>11, <1>12, <1>13
  DEF RestorerBegins, RestorerStep

-----------------------------------------------------------------------------
(* importMu.                                                               *)

\* Of the steps of a restorer two take importMu and two give it back.
LEMMA MuSteps ==
  ASSUME RestoreSound, NEW k \in Restorers,
         RestorerBegins(k) \/ RestorerStep(k)
  PROVE  ImportsSerialized'
<1>0. /\ rpc \in [Restorers -> RestorePcs] /\ importMu \in BOOLEAN
      /\ Cardinality(Holding) = IF importMu THEN 1 ELSE 0
  BY DEF RestoreSound, RestoreTypeOK, ImportsSerialized, RestorePcs
<1>1. IsFiniteSet(Holding)
  BY FS_Subset DEF Holding
<1>. USE DEF Advance, HoldsMu, RestoreStages, ImportStages
<1>2. CASE LockForRestore(k) \/ StartImport(k)
  <2>1. Holding = {} /\ importMu' = TRUE
    BY <1>0, <1>1, <1>2, FS_EmptySet DEF LockForRestore, StartImport, MuFree
  <2>2. Holding' = {k}
    BY <1>0, <1>2, <2>1 DEF LockForRestore, StartImport, Holding
  <2>. QED BY <2>1, <2>2, FS_Singleton DEF ImportsSerialized
<1>3. CASE Unlock(k) \/ SpoolFails(k)
  <2>1. k \in Holding /\ importMu' = FALSE
    BY <1>3 DEF Unlock, SpoolFails, Holding
  <2>2. Holding' = Holding \ {k}
    BY <1>0, <1>3 DEF Unlock, SpoolFails, Holding
  <2>3. Cardinality(Holding) = 1
    BY <1>0, <1>1, <2>1, FS_EmptySet
  <2>4. Cardinality(Holding \ {k}) = Cardinality(Holding) - 1
    BY <1>1, <2>1, FS_RemoveElement
  <2>. QED
    BY <2>1, <2>2, <2>3, <2>4 DEF ImportsSerialized
<1>4. ASSUME UNCHANGED importMu, Holding' = Holding PROVE ImportsSerialized'
  BY <1>4 DEF RestoreSound, ImportsSerialized
<1>5. CASE \/ RestorerBegins(k) /\ ~StartImport(k)
           \/ Refused(k) \/ CloseFailedSpool(k)
  BY <1>0, <1>4, <1>5
  DEF RestorerBegins, AskRestore, Refused, CloseFailedSpool, OnlyMemory, Holding
<1>6. CASE \/ BeginRestore(k) \/ LoadTarget(k) \/ LoadTargetFails(k)
           \/ FoundLocally(k) \/ NotLocal(k) \/ FoundNowhere(k)
           \/ \E d \in Dests : Fetch(k, d) \/ FetchFails(k, d)
           \/ FetchedNothing(k) \/ Replay(k) \/ ReplayFails(k) \/ WriteBack(k)
  BY <1>0, <1>4, <1>6
  DEF BeginRestore, LoadTarget, LoadTargetFails, FailRestore, FoundLocally,
      NotLocal, FoundNowhere, Fetch, FetchFails, FetchedNothing, Replay,
      ReplayFails, WriteBack, OnlyMemory, Holding
<1>7. CASE \/ RecordImport(k) \/ RecordImportFails(k) \/ Spool(k)
           \/ BeginImport(k) \/ Probe(k) \/ ProbeFails(k)
           \/ SafetySkipped(k) \/ SafetyDump(k) \/ SafetyFails(k)
           \/ RecordSafety(k) \/ RecordSafetyFails(k) \/ CloseSafety(k)
  BY <1>0, <1>4, <1>7
  DEF RecordImport, RecordImportFails, Spool, BeginImport, Probe, ProbeFails,
      ImportFails, SafetySkipped, SafetyDump, SafetyFails, AfterFailedSafety,
      RecordSafety, RecordSafetyFails, CloseSafety, OnlyMemory, Holding
<1>8. CASE \/ Drop(k) \/ NothingToDrop(k) \/ CreateDatabase(k) \/ ToolFails(k)
           \/ Import(k) \/ ImportingFails(k) \/ Report(k)
           \/ FinishImportFailed(k) \/ LeaveImport(k)
  BY <1>0, <1>4, <1>8
  DEF Drop, NothingToDrop, CreateDatabase, ToolFails, ImportFails, Import,
      ImportingFails, Report, FinishImportFailed, LeaveImport, OnlyMemory,
      Holding
<1>. QED
  BY <1>2, <1>3, <1>5, <1>6, <1>7, <1>8 DEF RestorerBegins, RestorerStep

\* A step of a restorer leaves the other ones where they are.
LEMMA OneRestorer ==
  ASSUME RestoreTypeOK, NEW k \in Restorers,
         RestorerBegins(k) \/ RestorerStep(k), NEW m \in Restorers \ {k}
  PROVE  res'[m] = res[m] /\ rpc'[m] = rpc[m]
<1>1. rpc \in [Restorers -> RestorePcs] /\ res \in [Restorers -> ResRecord]
  BY DEF RestoreTypeOK, RestorePcs
<1>. QED
  BY <1>1
  DEF RestorerBegins, AskRestore, StartImport, RestorerStep, LockForRestore,
      Refused, BeginRestore, LoadTarget, LoadTargetFails, FailRestore,
      FoundLocally, NotLocal, FoundNowhere, Fetch, FetchFails, FetchedNothing,
      Replay, ReplayFails, WriteBack, RecordImport, RecordImportFails, Spool,
      SpoolFails, CloseFailedSpool, CloseRow, BeginImport, Probe, ProbeFails,
      ImportFails, SafetySkipped, SafetyDump, SafetyFails, RecordSafety,
      RecordSafetyFails, CloseSafety, Drop, NothingToDrop, CreateDatabase,
      ToolFails, Import, ImportingFails, Report, FinishImportFailed,
      LeaveImport, Unlock, OnlyMemory, Advance

\* The row of an import is inserted before anything is written to its name.
LEMMA SpoolsOwnRowSteps ==
  ASSUME RestoreSound, RowsLeft', NEW k \in Restorers,
         RestorerBegins(k) \/ RestorerStep(k)
  PROVE  SpoolsOwnRow'
<1>0. rpc \in [Restorers -> RestorePcs] /\ res \in [Restorers -> ResRecord]
  BY DEF RestoreSound, RestoreTypeOK, RestorePcs
<1>1. ASSUME NEW m \in Restorers \ {k}
      PROVE  res'[m] = res[m] /\ rpc'[m] = rpc[m]
  BY <1>1, OneRestorer DEF RestoreSound
<1>2. ASSUME rpc'[k] = "spooling" PROVE RecordImport(k)
  BY <1>0, <1>2
  DEF RestorerBegins, AskRestore, StartImport, RestorerStep, LockForRestore,
      Refused, BeginRestore, LoadTarget, LoadTargetFails, FailRestore,
      FoundLocally, NotLocal, FoundNowhere, Fetch, FetchFails, FetchedNothing,
      Replay, ReplayFails, WriteBack, RecordImportFails, Spool,
      SpoolFails, CloseFailedSpool, CloseRow, BeginImport, Probe, ProbeFails,
      ImportFails, SafetySkipped, SafetyDump, SafetyFails, RecordSafety,
      RecordSafetyFails, CloseSafety, Drop, NothingToDrop, CreateDatabase,
      ToolFails, Import, ImportingFails, Report, FinishImportFailed,
      LeaveImport, Unlock, OnlyMemory, Advance, AfterFailedSafety
<1>3. ASSUME RecordImport(k) PROVE res'[k].row \in RowIds
  <2>1. nextRow \in RowIds
    BY <1>3, RowForNext DEF RecordImport, InsertRow, CreateBackup
  <2>. QED BY <1>0, <1>3, <2>1 DEF RecordImport, ResRecord
<1>. QED BY <1>1, <1>2, <1>3 DEF RestoreSound, SpoolsOwnRow

-----------------------------------------------------------------------------
(* The theorems on types and importMu.                                     *)

\* Nothing is held and nothing is in progress at the start.
LEMMA RestoreInitSound == RestoreInit => RestoreSound
<1>. SUFFICES ASSUME RestoreInit PROVE RestoreSound
  OBVIOUS
<1>1. Sound
  BY InitInv DEF RestoreInit, SystemInit, Inv, Sound
<1>2. NoRequest \in RequestRecord /\ NoRestore \in ResRecord
  BY DEF NoRequest, RequestRecord, NoRestore, ResRecord, ImportOptions, Names,
         Owners, Stamps
<1>3. RestoreTypeOK
  BY <1>1, <1>2
  DEF RestoreInit, SystemInit, Sound, RestoreTypeOK, SystemTypeOK,
      HandlerStages
<1>4. Holding = {} /\ SpoolsOwnRow
  BY DEF RestoreInit, Holding, HoldsMu, RestoreStages, ImportStages,
         SpoolsOwnRow
<1>5. ImportsSerialized
  BY <1>4, FS_EmptySet DEF RestoreInit, ImportsSerialized
<1>. QED BY <1>1, <1>3, <1>4, <1>5 DEF RestoreSound

\* A step of the engine or of a handler is no step of a restorer.
LEMMA OthersKeepRestorers ==
  ASSUME RestoreSound, SystemTypeOK', Sound', UNCHANGED <<importMu, rpc, res>>,
         progress' \in [RowIds -> {"none", "live", "ended"}],
         exists' = exists
  PROVE  RestoreSound'
BY DEF RestoreSound, RestoreTypeOK, ImportsSerialized, SpoolsOwnRow, Holding

\* Every step of the system keeps what OneImport rests on.
LEMMA RestoreSoundSteps ==
  ASSUME RestoreSound, [RestoreNext]_allVars PROVE RestoreSound'
<1>. USE DEF RestoreSound
<1>0. /\ SystemTypeOK /\ clock \in Stamps
      /\ progress \in [RowIds -> {"none", "live", "ended"}]
  BY DEF RestoreTypeOK, SystemTypeOK, TypeOK, CatalogTypeOK
<1>1. ASSUME clock' \in Stamps, EngineNext \/ (\E j \in Jobs : EditJob(j)),
             UNCHANGED <<handlerVars, restoreVars>>
      PROVE  RestoreSound'
  <2>1. Sound'
    BY <1>1, SoundSteps DEF Next
  <2>2. SystemTypeOK'
    BY <1>0, <1>1, <2>1 DEF SystemTypeOK, handlerVars, Sound
  <2>. QED BY <1>0, <1>1, <2>1, <2>2, OthersKeepRestorers DEF restoreVars
<1>2. ASSUME NEW q \in Requests, HandlerBegins(q) \/ HandlerStep(q),
             UNCHANGED <<importMu, exists, rpc, res>>,
             progress' \in [RowIds -> {"none", "live", "ended"}]
      PROVE  RestoreSound'
  <2>1. CatalogTypeOK' /\ UNCHANGED <<nextRow, clock, engineVars>>
    BY <1>0, <1>2, HandlerCatalog
  <2>2. Sound'
    BY <2>1
    DEF Sound, TypeOK, ClaimsHeld, RowsOpened, OneRunPerJob, SlotsCounted,
        DumpCap, Holders, engineVars
  <2>3. SystemTypeOK'
    BY <1>0, <1>2, <2>2, RequestTypes DEF SystemTypeOK, Sound
  <2>. QED BY <1>2, <2>2, <2>3, OthersKeepRestorers
<1>3. ASSUME NEW k \in Restorers, RestorerBegins(k) \/ RestorerStep(k),
             RowsLeft', clock' \in Stamps
      PROVE  RestoreSound'
  <2>1. CatalogTypeOK' /\ UNCHANGED <<engineVars, handlerVars>>
    BY <1>3, RestorerCatalog
  <2>2. Sound' /\ SystemTypeOK'
    BY <1>0, <2>1
    DEF Sound, TypeOK, ClaimsHeld, RowsOpened, OneRunPerJob, SlotsCounted,
        DumpCap, Holders, engineVars, SystemTypeOK, handlerVars
  <2>3. rpc' \in [Restorers -> RestorePcs]
    BY <1>3, RestorerPcTypes
  <2>4. RestoreTypeOK'
    BY <1>3, <2>2, <2>3, RestorerTypes DEF RestoreTypeOK, RestorePcs
  <2>. QED BY <1>3, <2>2, <2>4, MuSteps, SpoolsOwnRowSteps
<1>4. ASSUME RestoreCrash PROVE RestoreSound'
  <2>1. Sound'
    BY <1>0, <1>4, SoundSteps
    DEF RestoreCrash, SystemCrash, Crash, Next, catalogVars, rowVars
  <2>2. NoRequest \in RequestRecord /\ NoRestore \in ResRecord
    BY DEF NoRequest, RequestRecord, NoRestore, ResRecord, ImportOptions, Names,
           Owners, Stamps
  <2>3. RestoreTypeOK'
    BY <1>4, <2>1, <2>2
    DEF RestoreCrash, SystemCrash, RestoreTypeOK, SystemTypeOK, Sound,
        HandlerStages
  <2>4. Holding' = {} /\ SpoolsOwnRow'
    BY <1>4 DEF RestoreCrash, Holding, HoldsMu, RestoreStages, ImportStages,
                SpoolsOwnRow
  <2>5. ImportsSerialized'
    BY <1>4, <2>4, FS_EmptySet DEF RestoreCrash, ImportsSerialized
  <2>. QED BY <2>1, <2>3, <2>4, <2>5
<1>5. CASE UNCHANGED allVars
  <2>1. Sound'
    BY <1>0, <1>5, SoundSteps
    DEF allVars, systemVars, vars, catalogVars, rowVars
  <2>2. SystemTypeOK'
    BY <1>0, <1>5, <2>1
    DEF allVars, systemVars, handlerVars, SystemTypeOK, Sound
  <2>. QED
    BY <1>0, <1>5, <2>1, <2>2, OthersKeepRestorers DEF allVars, restoreVars
<1>6. ASSUME NEW q \in Requests, DeleteExecutionStarts(q) PROVE RestoreSound'
  <2>1. PICK id \in RowIds : DeleteExecutionBegins(q, id) /\ ClearProgress(id)
    BY <1>6 DEF DeleteExecutionStarts
  <2>2. progress' \in [RowIds -> {"none", "live", "ended"}]
    BY <1>0, <2>1 DEF ClearProgress
  <2>. QED
    BY <1>2, <1>6, <2>1, <2>2 DEF DeleteExecutionStarts, HandlerBegins
<1>7. ASSUME NEW q \in Requests, DeletionBegins(q) \/ HandlerStep(q),
             UNCHANGED restoreVars
      PROVE  RestoreSound'
  BY <1>0, <1>2, <1>7 DEF HandlerBegins, restoreVars
<1>. QED
  BY <1>1, <1>3, <1>4, <1>5, <1>6, <1>7 DEF RestoreNext

\* "Imports are serialized engine-wide": whatever fails and whenever the process
\* restarts, at most one restore or import holds importMu, it is locked only
\* while one does, and every path gives it back.
THEOREM OneImport == RestoreSpec => []RestoreInv
<1>1. RestoreSound => RestoreInv
  BY DEF RestoreSound, RestoreInv
<1>. QED
  BY <1>1, RestoreInitSound, RestoreSoundSteps, PTL DEF RestoreSpec

-----------------------------------------------------------------------------
(* The progress entries.                                                   *)

\* Stages in which the restorer's row shows a restore in progress.
LiveStages == {"loading", "locating", "fetching", "replaying", "probing",
               "safety", "recording", "closing", "clearing", "creating",
               "importing", "reporting", "importFailed", "leaving"}

\* A live entry has a restorer that has yet to end or to clear it.
LiveOwned ==
  \A id \in RowIds : progress[id] = "live"
    => \E k \in Restorers : rpc[k] \in LiveStages /\ res[k].row = id

\* A restorer that goes on under the same entry, or changes none.
GoesOn(k) ==
  /\ UNCHANGED progress
  /\ rpc[k] \in LiveStages
       => rpc'[k] \in LiveStages /\ res'[k].row = res[k].row

\* A restorer whose entry becomes live.
Starts(k) ==
  /\ StartProgress(res[k].row) /\ UNCHANGED res
  /\ rpc[k] \notin LiveStages /\ rpc'[k] \in LiveStages

\* A restorer whose entry becomes terminal, or goes.
Ends(k) == Finish(res[k].row) \/ ClearProgress(res[k].row)

\* Every way into a live entry starts it and every way out ends it.
LEMMA ProgressSteps ==
  ASSUME RestoreTypeOK, NEW k \in Restorers,
         RestorerBegins(k) \/ RestorerStep(k)
  PROVE  GoesOn(k) \/ Starts(k) \/ Ends(k)
<1>0. rpc \in [Restorers -> RestorePcs] /\ res \in [Restorers -> ResRecord]
  BY DEF RestoreTypeOK, RestorePcs
<1>. USE <1>0 DEF Advance, LiveStages
<1>1. CASE BeginRestore(k) \/ BeginImport(k)
  BY <1>1 DEF BeginRestore, BeginImport, Starts
<1>2. CASE \/ LoadTargetFails(k) \/ FoundNowhere(k) \/ FetchedNothing(k)
           \/ Replay(k) \/ ReplayFails(k) \/ LeaveImport(k)
  BY <1>2
  DEF LoadTargetFails, FailRestore, FoundNowhere, FetchedNothing, Replay,
      ReplayFails, LeaveImport, Ends
<1>3. CASE \/ RestorerBegins(k) \/ LockForRestore(k) \/ Refused(k)
           \/ WriteBack(k) \/ RecordImport(k) \/ RecordImportFails(k)
           \/ Spool(k) \/ SpoolFails(k) \/ CloseFailedSpool(k) \/ Unlock(k)
  BY <1>3
  DEF RestorerBegins, AskRestore, StartImport, LockForRestore, Refused,
      WriteBack, RecordImport, RecordImportFails, Spool, SpoolFails,
      CloseFailedSpool, Unlock, GoesOn
<1>4. CASE \/ LoadTarget(k) \/ FoundLocally(k) \/ NotLocal(k)
           \/ \E d \in Dests : Fetch(k, d) \/ FetchFails(k, d)
  <2>1. UNCHANGED progress
        /\ rpc'[k] \in {"locating", "replaying", "fetching"}
    BY <1>4
    DEF LoadTarget, FoundLocally, NotLocal, Fetch, FetchFails, OnlyMemory
  <2>2. res'[k].row = res[k].row
    <3>1. \/ UNCHANGED res
          \/ \E x : res' = [res EXCEPT ![k].todo = x]
          \/ \E x : res' = [res EXCEPT ![k].fetched = TRUE, ![k].todo = x]
      BY <1>4 DEF LoadTarget, FoundLocally, NotLocal, Fetch, FetchFails
    <3>. QED BY <1>0, <3>1 DEF ResRecord
  <2>. QED BY <2>1, <2>2 DEF GoesOn
<1>6. CASE Probe(k) \/ SafetyDump(k) \/ RecordSafety(k)
  <2>1. res'[k].row = res[k].row
    <3>1. \/ \E x : res' = [res EXCEPT ![k].found = x]
          \/ \E x : res' = [res EXCEPT ![k].safety = x]
          \/ \E x : res' = [res EXCEPT ![k].sid = x]
      BY <1>6 DEF Probe, SafetyDump, RecordSafety
    <3>. QED BY <1>0, <3>1 DEF ResRecord
  <2>. QED BY <1>6, <2>1 DEF Probe, SafetyDump, RecordSafety, GoesOn
<1>5. CASE \/ ProbeFails(k) \/ SafetySkipped(k) \/ SafetyFails(k)
           \/ RecordSafetyFails(k) \/ CloseSafety(k)
           \/ Drop(k) \/ NothingToDrop(k) \/ CreateDatabase(k) \/ ToolFails(k)
           \/ Import(k) \/ ImportingFails(k) \/ Report(k)
           \/ FinishImportFailed(k)
  BY <1>5
  DEF ProbeFails, ImportFails, SafetySkipped, SafetyFails, AfterFailedSafety,
      RecordSafetyFails, CloseSafety, Drop, NothingToDrop, CreateDatabase,
      ToolFails, Import, ImportingFails, Report, FinishImportFailed, GoesOn
<1>. QED
  BY <1>1, <1>2, <1>3, <1>4, <1>5, <1>6 DEF RestorerBegins, RestorerStep

\* A restorer that ends an entry is the one that owned it.
LEMMA LiveOwnedSteps ==
  ASSUME RestoreSound, LiveOwned, NEW k \in Restorers,
         RestorerBegins(k) \/ RestorerStep(k)
  PROVE  LiveOwned'
<1>. SUFFICES ASSUME NEW id \in RowIds, progress'[id] = "live"
              PROVE  \E m \in Restorers :
                       rpc'[m] \in LiveStages /\ res'[m].row = id
  BY DEF LiveOwned
<1>0. RestoreTypeOK /\ progress \in [RowIds -> {"none", "live", "ended"}]
  BY DEF RestoreSound, RestoreTypeOK
<1>1. ASSUME progress[id] = "live", rpc[k] \in LiveStages => res[k].row # id
      PROVE  \E m \in Restorers : rpc'[m] \in LiveStages /\ res'[m].row = id
  <2>1. PICK m \in Restorers : rpc[m] \in LiveStages /\ res[m].row = id
    BY <1>1 DEF LiveOwned
  <2>2. m \in Restorers \ {k}
    BY <1>1, <2>1
  <2>. QED BY <1>0, <2>1, <2>2, OneRestorer
<1>2. CASE GoesOn(k)
  <2>1. CASE rpc[k] \in LiveStages /\ res[k].row = id
    BY <1>2, <2>1 DEF GoesOn
  <2>. QED BY <1>1, <1>2, <2>1 DEF GoesOn
<1>3. CASE Starts(k)
  <2>1. CASE id = res[k].row
    BY <1>3, <2>1 DEF Starts
  <2>2. CASE id # res[k].row
    BY <1>0, <1>1, <1>3, <2>2 DEF Starts, StartProgress
  <2>. QED BY <2>1, <2>2
<1>4. CASE Ends(k)
  <2>1. id # res[k].row /\ progress[id] = "live"
    BY <1>0, <1>4 DEF Ends, Finish, ClearProgress
  <2>. QED BY <1>1, <2>1
<1>. QED BY <1>0, <1>2, <1>3, <1>4, ProgressSteps

\* A row shows a restore in progress only while a restorer works on it, whatever
\* fails: no return of either goroutine leaves a live entry behind, which would
\* refuse every later restore of the row.
THEOREM ProgressIsOwned == RestoreSpec => []LiveProgressOwned
<1>1. RestoreInit => LiveOwned
  BY DEF RestoreInit, LiveOwned
<1>2. RestoreSound /\ LiveOwned /\ [RestoreNext]_allVars => LiveOwned'
  <2>. SUFFICES ASSUME RestoreSound, LiveOwned, [RestoreNext]_allVars
                PROVE  LiveOwned'
    OBVIOUS
  <2>1. ASSUME NEW k \in Restorers, RestorerBegins(k) \/ RestorerStep(k)
        PROVE  LiveOwned'
    BY <2>1, LiveOwnedSteps
  <2>2. CASE UNCHANGED <<progress, rpc, res>>
    BY <2>2 DEF LiveOwned
  <2>3. ASSUME NEW q \in Requests, DeleteExecutionStarts(q) PROVE LiveOwned'
    BY <2>3
    DEF DeleteExecutionStarts, ClearProgress, LiveOwned, RestoreSound,
        RestoreTypeOK
  <2>4. CASE RestoreCrash
    BY <2>4 DEF RestoreCrash, LiveOwned
  <2>. QED
    BY <2>1, <2>2, <2>3, <2>4 DEF RestoreNext, restoreVars, allVars
<1>3. LiveOwned => LiveProgressOwned
  BY DEF LiveOwned, LiveProgressOwned, LiveStages, HoldsMu, RestoreStages,
         ImportStages
<1>. QED
  BY <1>1, <1>2, <1>3, RestoreInitSound, RestoreSoundSteps, PTL
  DEF RestoreSpec

-----------------------------------------------------------------------------
(* What is stored for an import stays.                                     *)

\* A handler is about to delete the row: only its last call ends that.
Deleting(id) == \E q \in Requests : req[q].row = id

\* The file of the row's name is there, unless another row has the same name or
\* the row is on its way out.
Safe(id) == \/ Name(id) \in files \/ Shared(id)
            \/ Deleting(id) \/ ~Present(id)

\* Stages in which a run has a row of its own.
RowStages == HoldsSlot \union {"planning", "planFailed", "queued"}

\* A run writes, and retires, rows of jobs.
RunsOfJobs ==
  \A r \in Runners :
    /\ pc[r] \in RowStages
         => run[r].row < nextRow /\ rows[run[r].row].job \in Jobs
    /\ \A v, w \in run[r].victims :
         /\ v.id < nextRow /\ rows[v.id].job \in Jobs
         /\ v.id = w.id => v = w

\* A handler removes files of the row it was asked to delete, or of a job's.
RequestsInHand ==
  \A q \in Requests :
    /\ hpc[q] = "none" => req[q] = NoRequest
    /\ req[q].row # 0 => req[q].job = NoJob /\ req[q].dest = {}
    /\ hpc[q] # "bucket" => \A b, c \in req[q].queue :
         /\ b.id < nextRow /\ (b.id = req[q].row \/ rows[b.id].job \in Jobs)
         /\ b.id = c.id => b = c

Importing == {"starting", "probing", "safety", "recording", "closing",
              "clearing", "creating", "importing", "reporting", "importFailed"}
Restoring == {"locating", "fetching", "replaying", "writeBack"}

\* An import from its safety dump to the replay, if it makes one.
SafetyMade(at, x) ==
  \/ at \in {"recording", "closing"}
  \/ at \in {"clearing", "creating", "importing"} /\ x.opts.first /\ x.found

\* What a restorer at a stage, with its variables, has in hand: a restore works
\* on a job's row, an import on the row of its upload.
Hand(at, x) ==
  /\ at \in Importing \union Restoring \union
            {"asked", "locked", "loading", "spooling"}
       => x.row \in RowIds /\ x.row < nextRow
  /\ at \in Restoring => rows[x.row].job \in Jobs
  /\ at \in Importing \union {"spooling"} => rows[x.row].job = "uploaded"
  /\ at = "spooling" => ~rows[x.row].local
  /\ at \in {"opening", "spooling", "starting", "probing", "safety",
             "recording"} => x.sid = 0
  /\ SafetyMade(at, x) => x.safety[1] = "pre-restore" /\ x.sid < nextRow
  /\ at = "closing" => x.sid # 0 /\ Name(x.sid) = x.safety

RestorersInHand == \A k \in Restorers : Hand(rpc[k], res[k])

\* A safety dump is safe as a row's file is, whether or not a row records it.
SafetySafe(x) ==
  \/ x.safety \in files
  \/ \E id \in RowIds \ {x.sid} : id < nextRow /\ Name(id) = x.safety
  \/ x.sid # 0 /\ (~Present(x.sid) \/ Deleting(x.sid))

\* What an import has stored stays as long as it works on it.
Stored(at, x) ==
  /\ at \in Importing => Safe(x.row)
  /\ SafetyMade(at, x) => SafetySafe(x)

StoredStays == \A k \in Restorers : Stored(rpc[k], res[k])

\* The strengthening that keeps SafetyFirst.
KeptInv ==
  /\ RowsFresh /\ RunsOfJobs /\ RequestsInHand /\ RestorersInHand
  /\ StoredStays

\* With it, the one that keeps JoblessKept.
JoblessSafe ==
  \A id \in RowIds :
    rows[id].job \in Jobless /\ rows[id].local => Safe(id)

-----------------------------------------------------------------------------
(* The engine's steps.                                                     *)

\* Only names of jobs lose their file.
JobFilesGo == \A n \in files \ files' : n[1] \in Jobs

\* A run leaves rows and files of imports alone.
LEMMA RunKeepsImports ==
  ASSUME Sound, clock' \in Stamps, RowsFresh, RunsOfJobs, NEW r \in Runners,
         Step(r)
  PROVE  NamesStay /\ RowsFresh' /\ NoneMarked(0) /\ JobFilesGo
<1>0. /\ CatalogTypeOK /\ TypeOK /\ RowsOpened /\ run[r] \in RunRecord
      /\ Jobs \intersect Jobless = {}
  BY DEF Sound, TypeOK
<1>1. CASE OpenRow(r)
  <2>1. PICK started \in {clock, clock + 1} : CreateBackup(run[r].job, started)
    BY <1>1 DEF OpenRow
  <2>. QED BY <1>0, <1>1, <2>1, InsertedRow DEF OpenRow, storeVars, JobFilesGo
<1>2. CASE Closes(r)
  <2>1. PICK status \in {"completed", "failed"}, local \in BOOLEAN :
          WriteRow(r, status, local)
    BY <1>0, <1>2 DEF Closes, FinishFailed, FinishRow, StoredLocal, RunRecord
  <2>2. PICK id : id = run[r].row
    OBVIOUS
  <2>3. id \in RowIds /\ rows[id].job \in Jobs
    BY <1>0, <1>2, <2>2
    DEF Closes, FinishFailed, FinishRow, Goto, RowsOpened, RunsOfJobs,
        RowStages, HoldsSlot
  <2>4. UpdateBackup(id, status, local) \/ UNCHANGED rows
    BY <2>1, <2>2 DEF WriteRow
  <2>5. UNCHANGED nextRow /\ JobFilesGo
    BY <2>1 DEF WriteRow, storeVars, JobFilesGo
  <2>6. rows[id].job \notin Jobless /\ status \in RowStatus \ {"absent"}
    BY <1>0, <2>3 DEF RowStatus
  <2>. QED BY <1>0, <2>3, <2>4, <2>5, <2>6, UpdatedRows, StillRows
<1>3. CASE RetireRow(r)
  <2>1. PICK id : id = Victim(r).id
    OBVIOUS
  <2>2. UpdateBackup(id, "deleted", FALSE) \/ UNCHANGED rows
    BY <1>3, <2>1 DEF RetireRow, MarkBackupDeleted
  <2>3. UNCHANGED nextRow /\ JobFilesGo
    BY <1>3 DEF RetireRow, storeVars, JobFilesGo
  <2>4. "deleted" \in RowStatus \ {"absent"}
    BY DEF RowStatus
  <2>. QED BY <1>0, <2>2, <2>3, <2>4, UpdatedRows, StillRows
<1>4. ASSUME ~OpenRow(r), ~Closes(r), ~RetireRow(r)
      PROVE  NamesStay /\ RowsFresh' /\ NoneMarked(0)
  <2>1. UNCHANGED rowVars
    BY <1>4, RowsStay
  <2>. QED BY <1>0, <2>1, StillRows DEF rowVars
<1>5. ASSUME DeleteFile(r) PROVE JobFilesGo
  <2>1. run[r].victims \subseteq Victims /\ run[r].victims # {}
    BY <1>0, <1>5 DEF DeleteFile, RunRecord
  <2>2. Victim(r) \in run[r].victims
    BY <1>0, <2>1, FirstOfList DEF Victim, RunsOfJobs
  <2>3. Name(Victim(r).id)[1] \in Jobs
    BY <2>2 DEF Name, RunsOfJobs
  <2>4. files' = files \/ files' = files \ {Name(Victim(r).id)}
    BY <1>5 DEF DeleteFile
  <2>5. \A n \in files \ files' : n = Name(Victim(r).id)
    BY <2>4
  <2>. QED BY <2>3, <2>5 DEF JobFilesGo
<1>6. ASSUME ~DeleteFile(r) PROVE JobFilesGo
  <2>1. files \subseteq files'
    BY <1>6
    DEF Closes, catalogVars, storeVars,
        Step, Trigger, Claim, AcquireSlot, RunnerStep, LoadJob,
        LoadJobFails, GiveBack, OpenRow, OpenRowFails, Pass,
        LoadDestinations, LoadDestinationsFails, Dump, DumpFails,
        FinishFailed, FinishRow, WriteRow, RetireRow,
        Upload, UploadFails, DeleteObject, MarkDestination, SaveLocal,
        NothingLocal, ListVictims, KeepAll, ListLinks,
        ListLinksFails, PruneEnds, ReleaseSlot, Leave
  <2>. QED BY <2>1 DEF JobFilesGo
<1>. QED BY <1>1, <1>2, <1>3, <1>4, <1>5, <1>6

\* A run that takes no other row in hand.
SameRows(s) ==
  /\ pc'[s] \in RowStages => pc[s] \in RowStages /\ run'[s].row = run[s].row
  /\ run'[s].victims \subseteq run[s].victims

\* What a run has in hand stays what it is, whoever takes the step.
LEMMA HandStays ==
  ASSUME Sound, RunsOfJobs, NamesStay, NEW s \in Runners, SameRows(s)
  PROVE  /\ pc'[s] \in RowStages
              => run'[s].row < nextRow' /\ rows'[run'[s].row].job \in Jobs
         /\ \A v, w \in run'[s].victims :
              /\ v.id < nextRow' /\ rows'[v.id].job \in Jobs
              /\ v.id = w.id => v = w
<1>0. /\ TypeOK /\ RowsOpened /\ nextRow \in Int /\ run[s] \in RunRecord
      /\ \A k \in RowIds : k \in Int
  BY CatalogAssumption DEF Sound, TypeOK, CatalogTypeOK, RowIds
<1>1. \A id \in RowIds : id < nextRow /\ rows[id].job \in Jobs
        => id < nextRow' /\ rows'[id].job \in Jobs
  BY <1>0 DEF NamesStay
<1>2. ASSUME pc'[s] \in RowStages
      PROVE  run'[s].row < nextRow' /\ rows'[run'[s].row].job \in Jobs
  <2>1. PICK id : id = run[s].row
    OBVIOUS
  <2>2. id \in RowIds /\ id < nextRow /\ rows[id].job \in Jobs
    BY <1>0, <1>2, <2>1 DEF SameRows, RowsOpened, RunsOfJobs, RowStages
  <2>. QED BY <1>1, <1>2, <2>1, <2>2 DEF SameRows
<1>3. ASSUME NEW v \in run'[s].victims, NEW w \in run'[s].victims
      PROVE  /\ v.id < nextRow' /\ rows'[v.id].job \in Jobs
             /\ v.id = w.id => v = w
  <2>1. v \in run[s].victims /\ w \in run[s].victims
    BY <1>3 DEF SameRows
  <2>2. v.id \in RowIds
    BY <1>0, <2>1 DEF RunRecord, Victims
  <2>. QED BY <1>1, <2>1, <2>2 DEF RunsOfJobs
<1>. QED BY <1>2, <1>3

\* A run takes in hand the row it opens and the completed rows of its job.
LEMMA RunHand ==
  ASSUME Sound, clock' \in Stamps, RowsFresh, RunsOfJobs, NEW r \in Runners,
         Step(r)
  PROVE  RunsOfJobs'
<1>. SUFFICES ASSUME NEW s \in Runners
              PROVE  /\ pc'[s] \in RowStages
                          => /\ run'[s].row < nextRow'
                             /\ rows'[run'[s].row].job \in Jobs
                     /\ \A v, w \in run'[s].victims :
                          /\ v.id < nextRow' /\ rows'[v.id].job \in Jobs
                          /\ v.id = w.id => v = w
  BY DEF RunsOfJobs
<1>0. /\ TypeOK /\ CatalogTypeOK /\ nextRow \in Int /\ run[r] \in RunRecord
      /\ run \in [Runners -> RunRecord] /\ pc \in [Runners -> Stages]
  BY DEF Sound, TypeOK, CatalogTypeOK
<1>1. NamesStay
  BY RunKeepsImports
<1>2. ASSUME s # r PROVE SameRows(s)
  BY <1>0, <1>2, OthersStay DEF SameRows
<1>3. CASE s = r /\ OpenRow(r)
  <2>1. PICK started \in {clock, clock + 1} :
          /\ CreateBackup(run[r].job, started)
          /\ run' = [run EXCEPT ![r].row = nextRow,
                                ![r].name = <<run[r].job, started>>]
    BY <1>3 DEF OpenRow
  <2>2. nextRow \in RowIds /\ run[r].job \in Jobs
    BY <1>0, <1>3
    DEF OpenRow, CatalogTypeOK, RowIds, Sound, ClaimsHeld, TypeOK, Goto,
        HoldsJob
  <2>3. run'[r].row = nextRow /\ run'[r].victims = run[r].victims
    BY <1>0, <2>1 DEF RunRecord
  <2>4. nextRow < nextRow' /\ rows'[nextRow].job \in Jobs
    BY <1>0, <2>1, <2>2 DEF CreateBackup, CatalogTypeOK, RowRecord
  <2>5. \A v, w \in run'[r].victims :
          /\ v.id < nextRow' /\ rows'[v.id].job \in Jobs
          /\ v.id = w.id => v = w
    <3>1. \A v \in run[r].victims : v.id \in RowIds /\ v.id \in Int
      BY <1>0 DEF RunRecord, Victims, RowIds
    <3>. QED BY <1>0, <1>1, <2>3, <3>1 DEF RunsOfJobs, NamesStay
  <2>. QED BY <1>3, <2>3, <2>4, <2>5
<1>4. CASE s = r /\ ListVictims(r)
  <2>1. run'[r].victims = Read(Excess(r)) /\ run'[r].row = run[r].row
    BY <1>0, <1>4 DEF ListVictims, RunRecord
  <2>2. pc[r] \in RowStages /\ pc[r] \in HoldsJob
    BY <1>4 DEF ListVictims, Goto, RowStages, HoldsSlot, HoldsJob
  <2>3. UNCHANGED <<rows, nextRow>>
    BY <1>4 DEF ListVictims, catalogVars, rowVars
  <2>4. \A id \in Excess(r) :
          id \in RowIds /\ id < nextRow /\ rows[id].job \in Jobs
    <3>1. run[r].job \in Jobs
      BY <1>0, <2>2 DEF Sound, ClaimsHeld, TypeOK
    <3>2. \A id \in Excess(r) :
            /\ id \in RowIds /\ rows[id].status = "completed"
            /\ rows[id].job = run[r].job
      BY DEF Excess, Beyond, CompletedOf
    <3>3. \A id \in RowIds : rows[id].status = "completed" => id < nextRow
      BY DEF RowsFresh, Present
    <3>. QED BY <3>1, <3>2, <3>3
  <2>5. \A v, w \in Read(Excess(r)) :
          /\ v.id \in Excess(r) /\ (v.id = w.id => v = w)
    BY DEF Read
  <2>6. run[r].row < nextRow /\ rows[run[r].row].job \in Jobs
    BY <2>2 DEF RunsOfJobs
  <2>. QED BY <1>4, <2>1, <2>3, <2>4, <2>5, <2>6
<1>5. ASSUME s = r, ~OpenRow(r), ~ListVictims(r) PROVE SameRows(s)
  <2>. USE <1>0 DEF SameRows, RowStages, HoldsSlot, Goto
  <2>1. CASE Trigger(r) \/ AcquireSlot(r) \/ LoadJobFails(r) \/ Leave(r)
    BY <1>5, <2>1
    DEF Trigger, Claim, AcquireSlot, LoadJobFails, Leave, GiveBack, NoRun,
        RunRecord
  <2>2. CASE PassStep(r)
    BY <1>5, <2>2
    DEF PassStep, OpenRowFails, LoadDestinationsFails, Dump, DumpFails,
        NothingLocal, KeepAll, PruneEnds, Pass, Unwind
  <2>3. CASE LoadJob(r) \/ LoadDestinations(r) \/ ReleaseSlot(r)
    BY <1>5, <2>3 DEF LoadJob, LoadDestinations, ReleaseSlot, RunRecord
  <2>4. CASE FinishFailed(r) \/ FinishRow(r)
    BY <1>5, <2>4 DEF FinishFailed, FinishRow, WriteRow, Unwind
  <2>5. ASSUME NEW d \in Dests,
               Upload(r, d) \/ UploadFails(r, d) \/ DeleteObject(r, d)
        PROVE  SameRows(s)
    BY <1>5, <2>5 DEF Upload, UploadFails, DeleteObject, RunRecord
  <2>6. CASE MarkDestination(r) \/ SaveLocal(r)
    BY <1>5, <2>6 DEF MarkDestination, SaveLocal, RunRecord
  <2>7. CASE \/ DeleteFile(r) \/ ListLinks(r) \/ ListLinksFails(r)
             \/ RetireRow(r)
    BY <1>5, <2>7
    DEF DeleteFile, ListLinks, ListLinksFails, RetireRow, RunRecord
  <2>. QED
    BY <1>5, <2>1, <2>2, <2>3, <2>4, <2>5, <2>6, <2>7
    DEF Step, RunnerStep, PassStep
<1>. QED BY <1>1, <1>2, <1>3, <1>4, <1>5, HandStays

-----------------------------------------------------------------------------
(* The handlers' steps.                                                    *)

\* A file goes with the name of a job, or of a row on its way out.
FilesGo(but) ==
  \A n \in files \ files' :
    \/ n[1] \in Jobs
    \/ \E id \in RowIds : /\ id < nextRow /\ Name(id) = n
                          /\ Deleting(id)' \/ id = but

\* A deletion of an execution ends with its row.
DeletionsEnd ==
  \A id \in RowIds : Deleting(id) => Deleting(id)' \/ ~Present(id)'

\* What a handler has in hand, and the file it removes.
LEMMA HandlerHand ==
  ASSUME SystemTypeOK, RowsFresh, RequestsInHand, "update" \notin Faults,
         NEW q \in Requests, HandlerBegins(q) \/ HandlerStep(q)
  PROVE  RequestsInHand' /\ FilesGo(0) /\ DeletionsEnd
<1>0. /\ CatalogTypeOK /\ nextRow \in Int /\ req[q] \in RequestRecord
      /\ req \in [Requests -> RequestRecord]
      /\ hpc \in [Requests -> HandlerStages]
      /\ \A id \in RowIds : id \in Int /\ id # 0
  BY CatalogAssumption DEF SystemTypeOK, TypeOK, CatalogTypeOK, RowIds
<1>1. NamesStay
  BY HandlerRowsStay
<1>2. \A id \in RowIds : Present(id) => id < nextRow
  BY DEF RowsFresh
\* What has to be shown of the handler that takes the step.
<1>. DEFINE InHand(h, x) ==
       /\ h = "none" => x = NoRequest
       /\ x.row # 0 => x.job = NoJob /\ x.dest = {}
       /\ h # "bucket" => \A b, c \in x.queue :
            /\ b.id < nextRow /\ (b.id = x.row \/ rows[b.id].job \in Jobs)
            /\ b.id = c.id => b = c
<1>3. ASSUME NEW p \in Requests PROVE InHand(hpc[p], req[p])
  BY DEF RequestsInHand
<1>4. ASSUME NEW h \in HandlerStages, NEW x \in RequestRecord, InHand(h, x),
             hpc' = [hpc EXCEPT ![q] = h], req' = [req EXCEPT ![q] = x]
      PROVE  RequestsInHand'
  <2>. SUFFICES ASSUME NEW p \in Requests
                PROVE  /\ hpc'[p] = "none" => req'[p] = NoRequest
                       /\ req'[p].row # 0
                            => req'[p].job = NoJob /\ req'[p].dest = {}
                       /\ hpc'[p] # "bucket" => \A b, c \in req'[p].queue :
                            /\ b.id < nextRow'
                            /\ b.id = req'[p].row \/ rows'[b.id].job \in Jobs
                            /\ b.id = c.id => b = c
    BY DEF RequestsInHand
  <2>1. PICK g, y : g = hpc'[p] /\ y = req'[p]
    OBVIOUS
  <2>2. InHand(g, y) /\ y \in RequestRecord
    BY <1>0, <1>3, <1>4, <2>1
  <2>3. \A b \in y.queue : b.id \in RowIds
    BY <2>2 DEF RequestRecord, Victims
  <2>4. \A b \in y.queue : b.id < nextRow => b.id < nextRow'
                             /\ rows'[b.id].job = rows[b.id].job
    BY <1>0, <1>1, <2>3 DEF NamesStay
  <2>. QED BY <2>1, <2>2, <2>4
\* The request of another handler is none of q's.
<1>5. ASSUME NEW x, req' = [req EXCEPT ![q] = x],
             \A id \in RowIds : req[q].row = id => x.row = id \/ ~Present(id)'
      PROVE  DeletionsEnd
  <2>1. x = req'[q] /\ \A p \in Requests \ {q} : req'[p] = req[p]
    BY <1>0, <1>5
  <2>. QED BY <1>5, <2>1 DEF DeletionsEnd, Deleting
<1>6. files' = files => FilesGo(0)
  BY DEF FilesGo
<1>7. hpc[q] = "none" => req[q].row = 0
  BY <1>3 DEF NoRequest
<1>8. NoRequest \in RequestRecord /\ InHand("none", NoRequest)
  BY CatalogAssumption DEF NoRequest, RequestRecord
<1>9. \A S \in SUBSET RowIds : Read(S) \subseteq Victims
  BY <1>0 DEF Read, Victims, CatalogTypeOK, RowRecord
<1>10. ASSUME NEW id \in RowIds, DeleteExecutionBegins(q, id)
       PROVE  RequestsInHand' /\ FilesGo(0) /\ DeletionsEnd
  <2>. DEFINE x == [NoRequest EXCEPT !.row = id, !.queue = Read({id})]
  <2>1. /\ hpc' = [hpc EXCEPT ![q] = "files"] /\ hpc[q] = "none"
        /\ req' = [req EXCEPT ![q] = x] /\ Present(id) /\ files' = files
    BY <1>10 DEF DeleteExecutionBegins, Turn, vars, catalogVars, storeVars
  <2>2. /\ x.row = id /\ x.job = NoJob /\ x.dest = {}
        /\ x.queue = Read({id}) /\ x \in RequestRecord
    <3>1. Read({id}) \subseteq Victims /\ id \in 0..MaxRows
      BY <1>9, CatalogAssumption DEF RowIds
    <3>. QED BY <1>8, <3>1 DEF NoRequest, RequestRecord
  <2>3. InHand("files", x)
    BY <1>2, <2>1, <2>2 DEF Read
  <2>4. \A k \in RowIds : req[q].row # k
    BY <1>0, <1>7, <2>1
  <2>. HIDE DEF x, InHand
  <2>. QED BY <1>4, <1>5, <1>6, <2>1, <2>2, <2>3, <2>4 DEF HandlerStages
<1>11. ASSUME NEW j \in Jobs, DeleteJobBegins(q, j)
       PROVE  RequestsInHand' /\ FilesGo(0) /\ DeletionsEnd
  <2>1. PICK found \in {RowsOf(j), {}} :
          req' = [req EXCEPT ![q] =
                    [NoRequest EXCEPT !.job = j, !.queue = Read(found)]]
    BY <1>11 DEF DeleteJobBegins
  <2>. DEFINE x == [NoRequest EXCEPT !.job = j, !.queue = Read(found)]
  <2>2. hpc' = [hpc EXCEPT ![q] = "files"] /\ hpc[q] = "none" /\ files' = files
    BY <1>11 DEF DeleteJobBegins, Turn, vars, catalogVars, storeVars
  <2>3. /\ x.row = 0 /\ x.job = j /\ x.queue = Read(found)
        /\ x \in RequestRecord
    <3>1. Read(found) \subseteq Victims
      BY <1>9, <2>1 DEF RowsOf
    <3>. QED BY <1>8, <3>1 DEF NoRequest, RequestRecord
  <2>4. \A b, c \in Read(found) :
          /\ b.id \in RowIds /\ Present(b.id) /\ rows[b.id].job = j
          /\ b.id = c.id => b = c
    BY <2>1 DEF Read, RowsOf
  <2>5. InHand("files", x)
    BY <1>2, <2>3, <2>4
  <2>6. \A k \in RowIds : req[q].row # k
    BY <1>0, <1>7, <2>2
  <2>. HIDE DEF x, InHand
  <2>7. req' = [req EXCEPT ![q] = x]
    BY <2>1 DEF x
  <2>. QED BY <1>4, <1>5, <1>6, <2>2, <2>3, <2>5, <2>6, <2>7 DEF HandlerStages
<1>12. ASSUME NEW d \in Dests, DeleteDestinationBegins(q, d)
       PROVE  RequestsInHand' /\ FilesGo(0) /\ DeletionsEnd
  <2>1. PICK found \in SUBSET RowIds :
          req' = [req EXCEPT ![q] =
                    [NoRequest EXCEPT !.dest = {d}, !.queue = Read(found)]]
    BY <1>12 DEF DeleteDestinationBegins
  <2>. DEFINE x == [NoRequest EXCEPT !.dest = {d}, !.queue = Read(found)]
  <2>2. hpc' = [hpc EXCEPT ![q] = "bucket"] /\ hpc[q] = "none" /\ files' = files
    BY <1>12 DEF DeleteDestinationBegins, Turn, vars, catalogVars, storeVars
  <2>3. x.row = 0 /\ x \in RequestRecord
    BY <1>8, <1>9 DEF NoRequest, RequestRecord
  <2>4. InHand("bucket", x)
    BY <2>3
  <2>5. \A k \in RowIds : req[q].row # k
    BY <1>0, <1>7, <2>2
  <2>. HIDE DEF x, InHand
  <2>6. req' = [req EXCEPT ![q] = x]
    BY <2>1 DEF x
  <2>. QED BY <1>4, <1>5, <1>6, <2>2, <2>3, <2>4, <2>5, <2>6 DEF HandlerStages
\* The steps of the loops: the queue does not grow, the row stays the same.
<1>13. ASSUME NEW h \in HandlerStages, NEW x \in RequestRecord,
              hpc[q] # "none", h # "none", hpc[q] = "bucket" <=> h = "bucket",
              hpc' = [hpc EXCEPT ![q] = h], req' = [req EXCEPT ![q] = x],
              x.row = req[q].row, x.job = req[q].job, x.dest = req[q].dest,
              x.queue \subseteq req[q].queue
       PROVE  RequestsInHand' /\ DeletionsEnd
  <2>1. InHand(hpc[q], req[q])
    BY <1>3
  <2>2. InHand(h, x)
    BY <1>13, <2>1
  <2>. HIDE DEF InHand
  <2>. QED BY <1>4, <1>5, <1>13, <2>2
<1>. HIDE DEF InHand
<1>14. ASSUME RemoveFile(q)
       PROVE  RequestsInHand' /\ FilesGo(0) /\ DeletionsEnd
  <2>1. /\ hpc[q] = "files" /\ hpc' = [hpc EXCEPT ![q] = "links"]
        /\ req' = req /\ req' = [req EXCEPT ![q] = req[q]]
    BY <1>0, <1>14 DEF RemoveFile, Turn
  <2>2. RequestsInHand' /\ DeletionsEnd
    BY <1>0, <1>13, <2>1 DEF HandlerStages
  <2>3. Current(q) \in req[q].queue
    <3>1. req[q].queue \in SUBSET Victims /\ req[q].queue # {}
      BY <1>0, <1>14 DEF RemoveFile, RequestRecord
    <3>2. \A b, c \in req[q].queue : b.id = c.id => b = c
      BY <2>1 DEF RequestsInHand
    <3>. QED BY <1>0, <3>1, <3>2, FirstOfList DEF Current
  <2>4. PICK id : id = Current(q).id
    OBVIOUS
  <2>5. /\ id \in RowIds /\ id < nextRow
        /\ id = req[q].row \/ rows[id].job \in Jobs
    BY <1>0, <2>1, <2>3, <2>4 DEF RequestsInHand, RequestRecord, Victims
  <2>6. \A n \in files \ files' : n = Name(id)
    BY <1>14, <2>4 DEF RemoveFile
  <2>7. id = req[q].row => Deleting(id)'
    BY <2>1 DEF Deleting
  <2>8. FilesGo(0)
    BY <2>5, <2>6, <2>7 DEF FilesGo, Name
  <2>. QED BY <2>2, <2>8
<1>15. CASE \/ ReadLinks(q) \/ ReadLinksFails(q) \/ NextRowOfQueue(q)
            \/ EmptyBucket(q) \/ \E d \in Dests : RemoveObject(q, d)
  <2>1. files' = files
    BY <1>15
    DEF ReadLinks, ReadLinksFails, NextRowOfQueue, EmptyBucket, RemoveObject,
        vars, catalogVars, storeVars
  <2>2. PICK h \in HandlerStages :
          /\ hpc[q] # "none" /\ h # "none"
          /\ hpc[q] = "bucket" <=> h = "bucket"
          /\ hpc' = [hpc EXCEPT ![q] = h]
    BY <1>0, <1>15
    DEF ReadLinks, ReadLinksFails, NextRowOfQueue, EmptyBucket, RemoveObject,
        Turn, HandlerStages
  <2>3. PICK x \in RequestRecord :
          /\ req' = [req EXCEPT ![q] = x]
          /\ x.row = req[q].row /\ x.job = req[q].job /\ x.dest = req[q].dest
          /\ x.queue \subseteq req[q].queue
    <3>1. LinksOf(Current(q).id) \subseteq Dests
      BY <1>0 DEF LinksOf, CatalogTypeOK
    <3>2. \/ \E t \in SUBSET Dests : req' = [req EXCEPT ![q].todo = t]
          \/ \E b : req' = [req EXCEPT ![q].queue = @ \ {b}]
      BY <1>0, <1>15, <3>1
      DEF ReadLinks, ReadLinksFails, NextRowOfQueue, EmptyBucket, RemoveObject,
          RequestRecord
    <3>. QED BY <1>0, <3>2 DEF RequestRecord
  <2>. QED BY <1>6, <1>13, <2>1, <2>2, <2>3
<1>16. CASE DeleteExecution(q) \/ DeleteJobRow(q) \/ DeleteDestinationRow(q)
  <2>1. /\ hpc' = [hpc EXCEPT ![q] = "none"]
        /\ req' = [req EXCEPT ![q] = NoRequest] /\ files' = files
    BY <1>16
    DEF DeleteExecution, DeleteJobRow, DeleteDestinationRow, LastCall, Turn,
        storeVars
  <2>2. \A id \in RowIds : req[q].row = id => ~Present(id)'
    <3>1. CASE DeleteExecution(q)
      BY <1>0, <3>1
      DEF DeleteExecution, DeleteBackup, Present, CatalogTypeOK, RowRecord
    <3>2. CASE DeleteJobRow(q) \/ DeleteDestinationRow(q)
      <4>1. req[q].row = 0
        BY <3>2 DEF DeleteJobRow, DeleteDestinationRow, RequestsInHand
      <4>. QED BY <1>0, <4>1
    <3>. QED BY <1>16, <3>1, <3>2
  <2>3. RequestsInHand'
    BY <1>4, <1>8, <2>1 DEF HandlerStages
  <2>4. DeletionsEnd
    BY <1>5, <2>1, <2>2
  <2>. QED BY <1>6, <2>1, <2>3, <2>4
<1>17. ~LastCallFails(q)
  BY DEF LastCallFails, MayFail
<1>. QED
  BY <1>10, <1>11, <1>12, <1>14, <1>15, <1>16, <1>17
  DEF HandlerBegins, DeletionBegins, HandlerStep

-----------------------------------------------------------------------------
(* What every step leaves to the restorers that do not take it.            *)

\* What a restorer has in hand stays what it is while others step.
LEMMA HandKept ==
  ASSUME CatalogTypeOK, NamesStay, NEW at, NEW x \in ResRecord, Hand(at, x),
         at = "spooling" => NoneMarked(0)
  PROVE  Hand(at, x)'
<1>0. /\ nextRow \in Int /\ nextRow' \in Int /\ nextRow <= nextRow'
      /\ \A id \in RowIds : id \in Int /\ id # 0
      /\ x.sid \in Int /\ (x.sid # 0 => x.sid \in RowIds)
  BY CatalogAssumption DEF CatalogTypeOK, RowIds, NamesStay, ResRecord
<1>1. \A id \in RowIds : id < nextRow =>
        /\ id < nextRow' /\ rows'[id].job = rows[id].job
        /\ Name(id)' = Name(id)
  BY <1>0 DEF NamesStay, Name
<1>2. PICK id : id = x.row
  OBVIOUS
<1>3. at \in Importing \union Restoring \union
            {"asked", "locked", "loading", "spooling"}
        => id \in RowIds /\ id < nextRow /\ id < nextRow'
           /\ rows'[id].job = rows[id].job
  BY <1>1, <1>2 DEF Hand
<1>4. at = "spooling" => ~rows'[id].local
  <2>. SUFFICES ASSUME at = "spooling" PROVE ~rows'[id].local
    OBVIOUS
  <2>1. rows[id].job = "uploaded" /\ ~rows[id].local
    BY <1>2 DEF Hand
  <2>. QED BY <1>0, <1>3, <2>1 DEF NoneMarked, Jobless
<1>5. SafetyMade(at, x) => x.sid < nextRow' /\ x.safety[1] = "pre-restore"
  BY <1>0 DEF Hand
<1>6. at = "closing" => x.sid # 0 /\ Name(x.sid)' = x.safety
  <2>. SUFFICES ASSUME at = "closing" PROVE x.sid # 0 /\ Name(x.sid)' = x.safety
    OBVIOUS
  <2>1. x.sid \in RowIds /\ x.sid < nextRow /\ Name(x.sid) = x.safety
    BY <1>0 DEF Hand, SafetyMade
  <2>. QED BY <1>0, <1>1, <2>1
<1>7. /\ at \in Restoring => rows[id].job \in Jobs
      /\ at \in Importing \union {"spooling"} => rows[id].job = "uploaded"
      /\ at \in {"opening", "spooling", "starting", "probing", "safety",
                 "recording"} => x.sid = 0
  BY <1>2 DEF Hand
<1>. QED
  BY <1>2, <1>3, <1>4, <1>5, <1>6, <1>7 DEF Hand, SafetyMade

\* The file of a row without a job stays, but for what deletions and the removal
\* of a failed upload take.
LEMMA SafeKept ==
  ASSUME CatalogTypeOK, NamesStay, DeletionsEnd, NEW but, FilesGo(but),
         NEW row \in RowIds, row # but, row < nextRow,
         rows[row].job \in Jobless, Safe(row)
  PROVE  Safe(row)'
<1>0. /\ nextRow \in Int /\ nextRow' \in Int /\ nextRow <= nextRow'
      /\ \A id \in RowIds : id \in Int
      /\ Jobs \intersect Jobless = {}
  BY CatalogAssumption DEF CatalogTypeOK, RowIds, NamesStay
<1>1. \A id \in RowIds : id < nextRow =>
        /\ id < nextRow' /\ Name(id)' = Name(id)
        /\ Present(id)' => Present(id)
  BY <1>0 DEF NamesStay, Name
<1>2. CASE Name(row) \in files
  <2>1. PICK n : n = Name(row)
    OBVIOUS
  <2>2. Name(row)' = n /\ n \in files /\ n[1] \notin Jobs
    BY <1>0, <1>1, <1>2, <2>1 DEF Name
  <2>3. n \in files' \/ \E id \in RowIds :
          id < nextRow' /\ Name(id)' = n /\ (Deleting(id)' \/ id = but)
    BY <1>1, <2>2 DEF FilesGo
  <2>. QED BY <2>2, <2>3 DEF Safe, Shared
<1>3. CASE Shared(row)
  <2>1. PICK id \in RowIds \ {row} : id < nextRow /\ Name(id) = Name(row)
    BY <1>3 DEF Shared
  <2>2. id < nextRow' /\ Name(id)' = Name(row)'
    BY <1>1, <2>1
  <2>. QED BY <2>2 DEF Safe, Shared
<1>4. CASE Deleting(row)
  BY <1>4 DEF DeletionsEnd, Safe
<1>5. CASE ~Present(row)
  BY <1>1, <1>5 DEF Safe
<1>. QED BY <1>2, <1>3, <1>4, <1>5 DEF Safe

\* What an import has stored stays while others step.
LEMMA StoredKept ==
  ASSUME CatalogTypeOK, NamesStay, FilesGo(0), DeletionsEnd,
         NEW at, NEW x \in ResRecord, Hand(at, x), Stored(at, x)
  PROVE  Stored(at, x)'
<1>0. /\ nextRow \in Int /\ nextRow' \in Int /\ nextRow <= nextRow'
      /\ \A id \in RowIds : id \in Int /\ id # 0
      /\ x.sid \in Int /\ (x.sid # 0 => x.sid \in RowIds)
      /\ Jobs \intersect Jobless = {}
  BY CatalogAssumption DEF CatalogTypeOK, RowIds, NamesStay, ResRecord
<1>1. \A id \in RowIds : id < nextRow =>
        /\ id < nextRow' /\ Name(id)' = Name(id)
        /\ Present(id)' => Present(id)
  BY <1>0 DEF NamesStay, Name
<1>2. ASSUME NEW n, n \in files, n[1] \in Jobless, n \notin files'
      PROVE  \E id \in RowIds : /\ id < nextRow' /\ Name(id)' = n
                                /\ Deleting(id)'
  BY <1>0, <1>1, <1>2 DEF FilesGo
<1>3. ASSUME NEW row \in RowIds, row < nextRow, rows[row].job = "uploaded",
             Safe(row)
      PROVE  Safe(row)'
  <2>1. row # 0 /\ rows[row].job \in Jobless
    BY <1>0, <1>3 DEF Jobless
  <2>. QED BY <1>3, <2>1, SafeKept
<1>4. ASSUME x.safety[1] = "pre-restore", x.sid < nextRow, SafetySafe(x)
      PROVE  SafetySafe(x)'
  <2>1. CASE x.safety \in files
    <3>1. x.safety \in files' \/ \E id \in RowIds :
            id < nextRow' /\ Name(id)' = x.safety /\ Deleting(id)'
      BY <1>2, <1>4, <2>1 DEF Jobless
    <3>. QED BY <1>0, <3>1 DEF SafetySafe
  <2>2. ASSUME NEW id \in RowIds \ {x.sid}, id < nextRow, Name(id) = x.safety
        PROVE  SafetySafe(x)'
    BY <1>1, <2>2 DEF SafetySafe
  <2>3. CASE x.sid # 0 /\ (~Present(x.sid) \/ Deleting(x.sid))
    BY <1>0, <1>1, <1>4, <2>3 DEF SafetySafe, DeletionsEnd
  <2>. QED BY <1>4, <2>1, <2>2, <2>3 DEF SafetySafe
<1>5. at \in Importing => Safe(x.row)'
  <2>. SUFFICES ASSUME at \in Importing PROVE Safe(x.row)'
    OBVIOUS
  <2>1. PICK row : row = x.row
    OBVIOUS
  <2>2. /\ row \in RowIds /\ row < nextRow /\ rows[row].job = "uploaded"
        /\ Safe(row)
    BY <2>1 DEF Hand, Stored
  <2>. QED BY <1>3, <2>1, <2>2
<1>6. SafetyMade(at, x) => SafetySafe(x)'
  BY <1>4 DEF Hand, Stored
<1>. QED BY <1>5, <1>6 DEF Stored, SafetyMade

-----------------------------------------------------------------------------
(* The restorers' steps.                                                   *)

\* importMu lets one restorer at a time beyond it.
LEMMA OneHolder ==
  ASSUME RestoreSound, NEW k \in Holding, NEW m \in Holding
  PROVE  k = m
<1>1. IsFiniteSet(Holding)
  BY FS_Subset DEF Holding
<1>2. Cardinality(Holding) = 0 \/ Cardinality(Holding) = 1
  BY DEF RestoreSound, ImportsSerialized
<1>3. Cardinality(Holding) # 0
  BY <1>1, FS_EmptySet
<1>4. Cardinality(Holding \ {k}) = Cardinality(Holding) - 1
  BY <1>1, FS_RemoveElement
<1>5. IsFiniteSet(Holding \ {k}) /\ Cardinality(Holding \ {k}) = 0
  BY <1>1, <1>2, <1>3, <1>4, FS_RemoveElement
<1>6. Holding \ {k} = {}
  BY <1>5, FS_EmptySet
<1>. QED BY <1>6

\* The row that the step of a restorer may mark as having a file.
Marked(k) == CASE rpc[k] = "closing" -> res[k].sid
               [] rpc[k] \in {"reporting", "importFailed"} -> res[k].row
               [] OTHER -> 0

\* A restorer inserts rows of its own and marks those only.
LEMMA RestorerRows ==
  ASSUME RestoreSound, RowsFresh, RestorersInHand, NEW k \in Restorers,
         RestorerBegins(k) \/ RestorerStep(k)
  PROVE  NamesStay /\ RowsFresh' /\ NoneMarked(Marked(k))
<1>. DEFINE Good == NamesStay /\ RowsFresh' /\ NoneMarked(Marked(k))
<1>0. CatalogTypeOK /\ res[k] \in ResRecord /\ Jobs \intersect Jobless = {}
  BY DEF RestoreSound, RestoreTypeOK, SystemTypeOK, TypeOK
<1>1. ASSUME UNCHANGED <<rows, nextRow>> PROVE Good
  BY <1>0, <1>1, StillRows DEF NoneMarked
<1>2. NoneMarked(0) => NoneMarked(Marked(k))
  <2>1. \A id \in RowIds : id # 0
    BY DEF RowIds
  <2>. QED BY <2>1 DEF NoneMarked
<1>3. ASSUME NEW id, NEW status \in {"completed", "failed"},
             NEW local \in BOOLEAN, UNCHANGED nextRow,
             UpdateBackup(id, status, local) \/ UNCHANGED rows,
             ~local \/ id = Marked(k)
                    \/ (id \in RowIds /\ rows[id].job \in Jobs)
      PROVE  Good
  <2>1. CASE UNCHANGED rows
    BY <1>1, <1>3, <2>1
  <2>2. CASE UpdateBackup(id, status, local)
    <3>1. status \in RowStatus \ {"absent"}
      BY DEF RowStatus
    <3>2. /\ NamesStay /\ RowsFresh' /\ NoneMarked(id)
          /\ ~local => NoneMarked(0)
          /\ id \in RowIds /\ rows[id].job \notin Jobless => NoneMarked(0)
      BY <1>0, <1>3, <2>2, <3>1, UpdatedRows
    <3>3. id \in RowIds /\ rows[id].job \in Jobs => NoneMarked(0)
      BY <1>0, <3>2
    <3>4. id = Marked(k) => NoneMarked(Marked(k))
      BY <3>2
    <3>. QED BY <1>2, <1>3, <3>2, <3>3, <3>4
  <2>. QED BY <1>3, <2>1, <2>2
<1>4. ASSUME NEW owner, NEW started, CreateBackup(owner, started) PROVE Good
  BY <1>0, <1>2, <1>4, InsertedRow
<1>5. CASE RecordImport(k) \/ RecordSafety(k)
  BY <1>4, <1>5 DEF RecordImport, InsertRow, RecordSafety
<1>6. CASE WriteBack(k)
  <2>1. PICK id, local : id = res[k].row /\ local = res[k].local
    OBVIOUS
  <2>2. rpc[k] = "writeBack" /\ local \in BOOLEAN
    BY <1>0, <1>6, <2>1 DEF WriteBack, Advance, ResRecord
  <2>3. id \in RowIds /\ rows[id].job \in Jobs
    BY <2>1, <2>2 DEF RestorersInHand, Hand, Restoring
  <2>4. /\ UpdateBackup(id, "completed", local) \/ UNCHANGED rows
        /\ UNCHANGED nextRow
    BY <1>6, <2>1 DEF WriteBack
  <2>. QED BY <1>3, <2>2, <2>3, <2>4
<1>7. CASE CloseFailedSpool(k)
  BY <1>3, <1>7 DEF CloseFailedSpool, CloseRow
<1>8. CASE CloseSafety(k)
  <2>1. Marked(k) = res[k].sid
    BY <1>8 DEF CloseSafety, Advance, Marked
  <2>2. CASE res[k].safety \in files
    BY <1>3, <1>8, <2>1, <2>2 DEF CloseSafety, CloseRow
  <2>3. CASE res[k].safety \notin files
    BY <1>1, <1>8, <2>3 DEF CloseSafety, OnlyMemory, catalogVars, rowVars
  <2>. QED BY <2>2, <2>3
<1>9. CASE Report(k) \/ FinishImportFailed(k)
  <2>1. Marked(k) = res[k].row
    BY <1>9 DEF Report, FinishImportFailed, Advance, Marked
  <2>2. \/ CloseRow(res[k].row, "completed", TRUE)
        \/ CloseRow(res[k].row, "failed", FALSE)
        \/ CloseRow(res[k].row, "failed", TRUE)
    BY <1>9 DEF Report, FinishImportFailed
  <2>. QED BY <1>3, <2>1, <2>2 DEF CloseRow
<1>10. CASE UNCHANGED <<rows, nextRow>>
  BY <1>1, <1>10
<1>. QED
  BY <1>5, <1>6, <1>7, <1>8, <1>9, <1>10
  DEF RestorerBegins, AskRestore, StartImport, RestorerStep, LockForRestore,
      Refused, BeginRestore, LoadTarget, LoadTargetFails, FailRestore,
      FoundLocally, NotLocal, FoundNowhere, Fetch, FetchFails, FetchedNothing,
      Replay, ReplayFails, RecordImportFails, Spool, SpoolFails, BeginImport,
      Probe, ProbeFails, ImportFails, SafetySkipped, SafetyDump, SafetyFails,
      RecordSafetyFails, Drop, NothingToDrop, CreateDatabase, ToolFails, Import,
      ImportingFails, LeaveImport, Unlock, OnlyMemory, systemVars, vars,
      catalogVars, rowVars

\* Only an upload that failed is removed.
LEMMA RestorerFiles ==
  ASSUME NEW k \in Restorers, RestorerBegins(k) \/ RestorerStep(k),
         ~SpoolFails(k)
  PROVE  files \subseteq files'
BY DEF RestorerBegins, AskRestore, StartImport, RestorerStep, LockForRestore,
      Refused, BeginRestore, LoadTarget, LoadTargetFails, FailRestore,
      FoundLocally, NotLocal, FoundNowhere, Fetch, FetchFails, FetchedNothing,
      Replay, ReplayFails, WriteBack, RecordImport, RecordImportFails, Spool,
      CloseFailedSpool, CloseRow, BeginImport, Probe, ProbeFails, ImportFails,
      SafetySkipped, SafetyDump, SafetyFails, RecordSafety, RecordSafetyFails,
      CloseSafety, Drop, NothingToDrop, CreateDatabase, ToolFails, Import,
      ImportingFails, Report, FinishImportFailed, LeaveImport, Unlock,
      OnlyMemory, systemVars, vars, catalogVars, storeVars

\* Stages of a restorer that is not working on anything.
Resting == {"idle", "unlocking", "leaving", "spoolFailed"}

\* Most steps go on with what the restorer has in hand, or let go of it.
LEMMA GoesOnInHand ==
  ASSUME RestoreSound, RowsFresh, RestorersInHand, StoredStays,
         NEW k \in Restorers, RestorerBegins(k) \/ RestorerStep(k),
         ~RecordImport(k), ~Spool(k), ~SafetyDump(k), ~RecordSafety(k),
         NEW at, at = rpc'[k], NEW x, x = res'[k]
  PROVE  Hand(at, x) /\ Stored(at, x) /\ at # "spooling"
<1>. DEFINE Good == Hand(at, x) /\ Stored(at, x) /\ at # "spooling"
<1>. PICK y : y = res[k]
  OBVIOUS
<1>0. /\ rpc \in [Restorers -> RestorePcs] /\ res \in [Restorers -> ResRecord]
      /\ y = res[k] /\ y \in ResRecord /\ Hand(rpc[k], y) /\ Stored(rpc[k], y)
      /\ nextRow \in Int /\ 0 < nextRow
  BY DEF RestoreSound, RestoreTypeOK, RestorePcs, RestorersInHand, StoredStays,
         SystemTypeOK, TypeOK, CatalogTypeOK
<1>. USE DEF Advance
<1>1. ASSUME at \in Resting PROVE Good
  BY <1>1
  DEF Resting, Hand, Stored, SafetyMade, Importing, Restoring
<1>2. CASE \/ Refused(k) \/ LoadTargetFails(k) \/ FoundNowhere(k)
           \/ FetchedNothing(k) \/ ReplayFails(k) \/ WriteBack(k)
           \/ RecordImportFails(k) \/ SpoolFails(k) \/ CloseFailedSpool(k)
           \/ Report(k) \/ FinishImportFailed(k) \/ LeaveImport(k) \/ Unlock(k)
  <2>1. at \in Resting
    BY <1>0, <1>2
    DEF Refused, LoadTargetFails, FoundNowhere, FetchedNothing, ReplayFails,
        FailRestore, WriteBack, RecordImportFails, SpoolFails, CloseFailedSpool,
        Report, FinishImportFailed, LeaveImport, Unlock, Resting
  <2>. QED BY <1>1, <2>1
<1>3. CASE StartImport(k)
  <2>1. at = "opening" /\ x.sid = 0
    BY <1>0, <1>3 DEF StartImport, NoRestore
  <2>. QED BY <2>1 DEF Hand, Stored, SafetyMade, Importing, Restoring
<1>4. ASSUME NEW id \in RowIds, AskRestore(k, id) PROVE Good
  <2>1. at = "asked" /\ x.row = id /\ rows[id].status = "completed"
    BY <1>0, <1>4 DEF AskRestore, NoRestore
  <2>2. id < nextRow
    BY <2>1 DEF RowsFresh, Present
  <2>. QED BY <2>1, <2>2 DEF Hand, Stored, SafetyMade, Importing, Restoring
<1>5. ASSUME x.row = y.row,
             rpc[k] \in Restoring \union {"asked", "locked", "loading"},
             \/ at \in {"asked", "locked", "loading"}
             \/ at \in Restoring /\ rows[y.row].job \in Jobs
      PROVE  Good
  BY <1>0, <1>5 DEF Hand, Stored, SafetyMade, Importing, Restoring
<1>6. CASE \/ LockForRestore(k) \/ BeginRestore(k) \/ LoadTarget(k)
           \/ FoundLocally(k) \/ NotLocal(k)
           \/ \E d \in Dests : Fetch(k, d) \/ FetchFails(k, d)
           \/ Replay(k)
  <2>1. x.row = y.row
    <3>1. \/ UNCHANGED res
          \/ \E t : res' = [res EXCEPT ![k].todo = t]
          \/ \E t : res' = [res EXCEPT ![k].fetched = TRUE, ![k].todo = t]
      BY <1>6
      DEF LockForRestore, BeginRestore, LoadTarget, FoundLocally, NotLocal,
          Fetch, FetchFails, Replay
    <3>. QED BY <1>0, <3>1 DEF ResRecord
  <2>2. rpc[k] \in Restoring \union {"asked", "locked", "loading"}
    BY <1>6
    DEF LockForRestore, BeginRestore, LoadTarget, FoundLocally, NotLocal,
        Fetch, FetchFails, Replay, Restoring
  <2>3. \/ at \in {"asked", "locked", "loading"}
        \/ at \in Restoring /\ rows[y.row].job \in Jobs
    <3>1. rpc[k] \in Restoring => rows[y.row].job \in Jobs
      BY <1>0 DEF Hand
    <3>. QED
      BY <1>0, <1>6, <3>1
      DEF LockForRestore, BeginRestore, LoadTarget, HasTarget, FoundLocally,
          NotLocal, Fetch, FetchFails, Replay, Restoring
  <2>. QED BY <1>5, <2>1, <2>2, <2>3
\* From a stage of an import to another one.
<1>7. ASSUME x.row = y.row, rpc[k] \in Importing, at \in Importing,
             at \notin {"recording", "closing"},
             at \in {"starting", "probing", "safety"}
               => rpc[k] \in {"starting", "probing"} /\ x.sid = y.sid,
             SafetyMade(at, x) => /\ SafetyMade(rpc[k], y)
                                  /\ x.safety = y.safety /\ x.sid = y.sid
      PROVE  Good
  <2>1. Hand(at, x)
    <3>1. at \notin Restoring \union {"asked", "locked", "loading", "spooling",
                                     "opening"}
      BY <1>7 DEF Importing, Restoring
    <3>. QED BY <1>0, <1>7, <3>1 DEF Hand
  <2>2. Stored(at, x)
    BY <1>0, <1>7 DEF Stored, SafetySafe
  <2>. QED BY <1>7, <2>1, <2>2 DEF Importing
<1>8. CASE \/ BeginImport(k) \/ SafetySkipped(k) \/ SafetyFails(k)
           \/ ProbeFails(k) \/ ToolFails(k) \/ Import(k) \/ ImportingFails(k)
           \/ RecordSafetyFails(k) \/ CloseSafety(k) \/ Drop(k)
           \/ NothingToDrop(k) \/ CreateDatabase(k)
  <2>. USE <1>0, <1>8
       DEF BeginImport, SafetySkipped, SafetyWanted, SafetyFails,
           AfterFailedSafety, ProbeFails, ToolFails, ImportFails, Import,
           ImportingFails, RecordSafetyFails, CloseSafety, Drop, NothingToDrop,
           CreateDatabase
  <2>1. x = y
    OBVIOUS
  <2>2. rpc[k] \in Importing /\ at \in Importing
    BY DEF Importing
  <2>3. /\ at \notin {"recording", "closing"}
        /\ at \in {"starting", "probing", "safety"}
             => rpc[k] \in {"starting", "probing"}
        /\ SafetyMade(at, x) => SafetyMade(rpc[k], y)
    BY <2>1 DEF SafetyMade
  <2>. QED BY <1>7, <2>1, <2>2, <2>3
<1>9. CASE Probe(k)
  <2>1. rpc[k] = "probing" /\ at = "safety"
    BY <1>0, <1>9 DEF Probe
  <2>2. PICK f : res' = [res EXCEPT ![k].found = f]
    BY <1>9 DEF Probe
  <2>3. x.row = y.row /\ x.sid = y.sid
    BY <1>0, <2>2 DEF ResRecord
  <2>. QED BY <1>7, <2>1, <2>3 DEF SafetyMade, Importing
<1>. QED
  BY <1>2, <1>3, <1>4, <1>6, <1>8, <1>9 DEF RestorerBegins, RestorerStep

\* A restorer has in hand what its next stage needs.
LEMMA OwnHand ==
  ASSUME RestoreSound, RowsLeft', clock' \in Stamps, RowsFresh,
         RestorersInHand, StoredStays,
         NEW k \in Restorers, RestorerBegins(k) \/ RestorerStep(k)
  PROVE  Hand(rpc[k], res[k])' /\ Stored(rpc[k], res[k])'
<1>. PICK at, x, y : at = rpc'[k] /\ x = res'[k] /\ y = res[k]
  OBVIOUS
<1>0. /\ rpc \in [Restorers -> RestorePcs] /\ res \in [Restorers -> ResRecord]
      /\ y = res[k] /\ at = rpc'[k] /\ x = res'[k]
      /\ y \in ResRecord /\ Hand(rpc[k], y) /\ Stored(rpc[k], y)
      /\ nextRow \in Int /\ 0 < nextRow /\ CatalogTypeOK
      /\ UNCHANGED handlerVars
  BY RestorerCatalog
  DEF RestoreSound, RestoreTypeOK, RestorePcs, RestorersInHand, StoredStays,
      SystemTypeOK, TypeOK, CatalogTypeOK
<1>1. x \in ResRecord
  BY <1>0, RestorerTypes
<1>2. NamesStay /\ RowsFresh' /\ NoneMarked(Marked(k))
  BY RestorerRows
<1>3. DeletionsEnd
  BY <1>0 DEF DeletionsEnd, Deleting, handlerVars
<1>4. SUFFICES Hand(at, x)' /\ Stored(at, x)'
  BY <1>0
<1>5. ASSUME files \subseteq files' PROVE FilesGo(0)
  BY <1>5 DEF FilesGo
<1>. USE DEF Advance
<1>6. CASE RecordImport(k)
  <2>1. at = "spooling" /\ CreateBackup("uploaded", clock')
        /\ rpc[k] = "opening"
    BY <1>0, <1>6 DEF RecordImport, InsertRow
  <2>2. x.row = nextRow /\ x.sid = y.sid
    BY <1>0, <1>6 DEF RecordImport, ResRecord
  <2>3. nextRow \in RowIds /\ nextRow' = nextRow + 1
    BY <2>1, RowForNext DEF CreateBackup
  <2>4. rows'[nextRow].job = "uploaded" /\ ~rows'[nextRow].local
    BY <1>0, <2>1, <2>3 DEF CreateBackup, CatalogTypeOK
  <2>5. y.sid = 0
    BY <1>0, <2>1 DEF Hand
  <2>6. Hand(at, x)'
    BY <1>0, <2>1, <2>2, <2>3, <2>4, <2>5
    DEF Hand, SafetyMade, Importing, Restoring
  <2>. QED BY <2>1, <2>6 DEF Stored, SafetyMade, Importing
<1>7. CASE Spool(k)
  <2>1. /\ rpc[k] = "spooling" /\ at = "starting" /\ x = y
        /\ UNCHANGED <<rows, nextRow>>
        /\ files' = files \union {Name(y.row)}
    BY <1>0, <1>7 DEF Spool, rowVars
  <2>2. Hand(at, x)
    BY <1>0, <2>1 DEF Hand, SafetyMade, Importing, Restoring
  <2>3. Hand(at, x)'
    BY <1>0, <1>1, <1>2, <2>1, <2>2, HandKept
  <2>4. Safe(x.row)'
    BY <2>1 DEF Safe, Name
  <2>. QED BY <2>1, <2>3, <2>4 DEF Stored, SafetyMade
<1>8. CASE SafetyDump(k)
  <2>1. PICK now \in {clock, clock + 1} :
          /\ files' = files \union {<<"pre-restore", now>>}
          /\ res' = [res EXCEPT ![k].safety = <<"pre-restore", now>>]
    BY <1>8 DEF SafetyDump
  <2>2. rpc[k] = "safety" /\ at = "recording"
    BY <1>0, <1>8 DEF SafetyDump
  <2>3. x.row = y.row /\ x.sid = y.sid /\ x.safety = <<"pre-restore", now>>
    BY <1>0, <2>1 DEF ResRecord
  <2>4. Hand(at, x)
    BY <1>0, <2>2, <2>3 DEF Hand, SafetyMade, Importing, Restoring
  <2>5. Hand(at, x)'
    BY <1>0, <1>1, <1>2, <2>2, <2>4, HandKept
  <2>6. FilesGo(0)
    BY <1>5, <2>1
  <2>7. Safe(y.row)'
    <3>1. Hand("safety", y) /\ Stored("safety", y)
      BY <1>0, <2>2
    <3>2. Stored("safety", y)'
      BY <1>0, <1>2, <1>3, <2>6, <3>1, StoredKept
    <3>. QED BY <3>2 DEF Stored, Importing
  <2>8. SafetySafe(x)'
    BY <2>1, <2>3 DEF SafetySafe
  <2>. QED BY <2>3, <2>5, <2>7, <2>8 DEF Stored
<1>9. CASE RecordSafety(k)
  <2>1. /\ rpc[k] = "recording" /\ at = "closing" /\ UNCHANGED files
        /\ CreateBackup("pre-restore", y.safety[2])
    BY <1>0, <1>9 DEF RecordSafety
  <2>2. x.row = y.row /\ x.safety = y.safety /\ x.sid = nextRow
    BY <1>0, <1>9 DEF RecordSafety, ResRecord
  <2>3. nextRow \in RowIds /\ nextRow' = nextRow + 1 /\ nextRow # 0
    BY <2>1, RowForNext DEF CreateBackup, RowIds
  <2>4. Hand("recording", y) /\ Stored("recording", y)
    BY <1>0, <2>1
  <2>5. Hand("recording", y)' /\ Stored("recording", y)'
    BY <1>0, <1>2, <1>3, <1>5, <2>1, <2>4, HandKept, StoredKept
  <2>6. y.safety[1] = "pre-restore" /\ y.safety = <<y.safety[1], y.safety[2]>>
    BY <1>0, <2>4 DEF Hand, SafetyMade, ResRecord, Names
  <2>7. Name(x.sid)' = x.safety
    <3>1. PICK new : new = nextRow
      OBVIOUS
    <3>2. /\ rows'[new].job = "pre-restore"
          /\ rows'[new].stamp = y.safety[2]
      BY <1>0, <2>1, <2>3, <3>1 DEF CreateBackup, CatalogTypeOK
    <3>3. x.sid = new /\ x.safety = <<"pre-restore", y.safety[2]>>
      BY <2>2, <2>6, <3>1
    <3>. QED BY <3>2, <3>3 DEF Name
  <2>8. Hand(at, x)'
    BY <1>0, <2>1, <2>2, <2>3, <2>5, <2>6, <2>7
    DEF Hand, SafetyMade, Importing, Restoring
  <2>9. SafetySafe(x)'
    <3>1. SafetySafe(y) /\ y.sid = 0
      BY <2>4 DEF Stored, SafetyMade, Hand
    <3>2. CASE y.safety \in files
      BY <2>1, <2>2, <3>2 DEF SafetySafe
    <3>3. ASSUME NEW id \in RowIds, id < nextRow, Name(id) = y.safety
          PROVE  SafetySafe(x)'
      <4>1. /\ id # x.sid /\ id < nextRow' /\ Name(id)' = Name(id)
        BY <1>0, <1>2, <2>2, <2>3, <3>3, CatalogAssumption
        DEF NamesStay, Name, RowIds
      <4>. QED BY <2>2, <3>3, <4>1 DEF SafetySafe
    <3>. QED BY <3>1, <3>2, <3>3 DEF SafetySafe
  <2>10. Safe(x.row)'
    BY <2>2, <2>5 DEF Stored, Importing
  <2>. QED BY <2>8, <2>9, <2>10 DEF Stored
<1>10. ASSUME ~RecordImport(k), ~Spool(k), ~SafetyDump(k), ~RecordSafety(k)
       PROVE  Hand(at, x)' /\ Stored(at, x)'
  <2>1. Hand(at, x) /\ Stored(at, x) /\ at # "spooling"
    BY <1>0, <1>10, GoesOnInHand
  <2>2. Hand(at, x)'
    BY <1>0, <1>1, <1>2, <2>1, HandKept
  <2>3. CASE ~SpoolFails(k)
    <3>1. FilesGo(0)
      BY <1>5, <2>3, RestorerFiles
    <3>. QED BY <1>0, <1>1, <1>2, <1>3, <2>1, <2>2, <3>1, StoredKept
  <2>4. CASE SpoolFails(k)
    <3>1. at = "spoolFailed"
      BY <1>0, <2>4 DEF SpoolFails
    <3>. QED BY <2>2, <3>1 DEF Stored, SafetyMade, Importing
  <2>. QED BY <2>3, <2>4
<1>. QED BY <1>6, <1>7, <1>8, <1>9, <1>10
-----------------------------------------------------------------------------
(* The theorems on what is stored for an import.                           *)

\* A step that is no run's, and keeps the names, leaves the runs their rows.
LEMMA RunsStay ==
  ASSUME Sound, RunsOfJobs, NamesStay, UNCHANGED engineVars
  PROVE  RunsOfJobs'
<1>1. \A s \in Runners : SameRows(s)
  BY DEF engineVars, SameRows
<1>. QED BY <1>1, HandStays DEF RunsOfJobs

\* A step that is no handler's, and keeps the names, leaves the handlers theirs.
LEMMA RequestsStay ==
  ASSUME SystemTypeOK, RequestsInHand, NamesStay, UNCHANGED handlerVars
  PROVE  RequestsInHand' /\ DeletionsEnd
<1>1. DeletionsEnd
  BY DEF DeletionsEnd, Deleting, handlerVars
<1>2. ASSUME NEW q \in Requests, hpc[q] # "bucket",
             NEW b \in req[q].queue, NEW c \in req[q].queue
      PROVE  /\ b.id < nextRow'
             /\ b.id = req[q].row \/ rows'[b.id].job \in Jobs
             /\ b.id = c.id => b = c
  <2>1. /\ b.id < nextRow /\ (b.id = req[q].row \/ rows[b.id].job \in Jobs)
        /\ b.id = c.id => b = c
    BY <1>2 DEF RequestsInHand
  <2>2. b.id \in RowIds /\ b.id \in Int /\ nextRow \in Int
    BY <1>2
    DEF SystemTypeOK, RequestRecord, Victims, RowIds, TypeOK, CatalogTypeOK
  <2>. QED BY <2>1, <2>2 DEF NamesStay
<1>. QED BY <1>1, <1>2 DEF RequestsInHand, handlerVars

\* A step that is no restorer's leaves the restorers what they have in hand.
LEMMA RestorersStay ==
  ASSUME RestoreSound, RestorersInHand, StoredStays, NamesStay, NoneMarked(0),
         FilesGo(0), DeletionsEnd, UNCHANGED <<rpc, res>>
  PROVE  RestorersInHand' /\ StoredStays'
<1>1. ASSUME NEW m \in Restorers
      PROVE  Hand(rpc[m], res[m])' /\ Stored(rpc[m], res[m])'
  <2>1. PICK at, x : at = rpc[m] /\ x = res[m]
    OBVIOUS
  <2>2. /\ CatalogTypeOK /\ x \in ResRecord /\ Hand(at, x) /\ Stored(at, x)
        /\ rpc'[m] = at /\ res'[m] = x
    BY <2>1
    DEF RestoreSound, RestoreTypeOK, SystemTypeOK, TypeOK, RestorersInHand,
        StoredStays
  <2>3. Hand(at, x)' /\ Stored(at, x)'
    BY <2>2, HandKept, StoredKept
  <2>. QED BY <2>2, <2>3
<1>. QED BY <1>1 DEF RestorersInHand, StoredStays

\* A restorer's step leaves the other ones what they have in hand: beside the
\* one that writes or removes something none has importMu.
LEMMA OthersHand ==
  ASSUME RestoreSound, RowsLeft', clock' \in Stamps,
         RowsFresh, RestorersInHand, StoredStays,
         NEW k \in Restorers, RestorerBegins(k) \/ RestorerStep(k),
         NEW m \in Restorers \ {k}
  PROVE  Hand(rpc[m], res[m])' /\ Stored(rpc[m], res[m])'
<1>1. PICK at, x : at = rpc[m] /\ x = res[m]
  OBVIOUS
<1>2. /\ CatalogTypeOK /\ x \in ResRecord /\ Hand(at, x) /\ Stored(at, x)
      /\ rpc'[m] = at /\ res'[m] = x /\ UNCHANGED handlerVars
  BY <1>1, OneRestorer, RestorerCatalog
  DEF RestoreSound, RestoreTypeOK, SystemTypeOK, TypeOK, RestorersInHand,
      StoredStays
<1>3. NamesStay /\ RowsFresh' /\ NoneMarked(Marked(k))
  BY RestorerRows
<1>4. ASSUME rpc[k] \in HoldsMu PROVE at \notin HoldsMu
  BY <1>1, <1>4, OneHolder DEF Holding
<1>5. at = "spooling" => NoneMarked(0)
  <2>1. ASSUME at = "spooling"
        PROVE  rpc[k] \notin {"closing", "reporting", "importFailed"}
    BY <1>4, <2>1 DEF HoldsMu, ImportStages
  <2>. QED BY <1>3, <2>1 DEF Marked
<1>6. Hand(at, x)'
  BY <1>2, <1>3, <1>5, HandKept
<1>7. Stored(at, x)'
  <2>1. CASE SpoolFails(k)
    <3>1. at \notin HoldsMu
      BY <1>4, <2>1 DEF SpoolFails, Advance, HoldsMu, ImportStages
    <3>. QED
      BY <3>1 DEF Stored, SafetyMade, Importing, HoldsMu, ImportStages
  <2>2. CASE ~SpoolFails(k)
    <3>1. FilesGo(0) /\ DeletionsEnd
      BY <1>2, <2>2, RestorerFiles
      DEF FilesGo, DeletionsEnd, Deleting, handlerVars
    <3>. QED BY <1>2, <1>3, <3>1, StoredKept
  <2>. QED BY <2>1, <2>2
<1>. QED BY <1>2, <1>6, <1>7

\* Nothing is in hand after a start of the process.
LEMMA RestingInHand ==
  ASSUME NEW at, NEW x, at = "idle" PROVE Hand(at, x) /\ Stored(at, x)
BY DEF Hand, Stored, SafetyMade, Importing, Restoring

\* Nothing is stored and nothing is in hand at the start.
LEMMA KeptInit == RestoreInit => KeptInv
<1>. SUFFICES ASSUME RestoreInit PROVE KeptInv
  OBVIOUS
<1>1. RowsFresh
  BY DEF RestoreInit, SystemInit, Init, CatalogInit, RowsFresh, Present, NoRow
<1>2. RunsOfJobs
  BY DEF RestoreInit, SystemInit, Init, RunsOfJobs, RowStages, HoldsSlot, NoRun
<1>3. RequestsInHand
  BY DEF RestoreInit, SystemInit, RequestsInHand, NoRequest
<1>4. RestorersInHand /\ StoredStays
  BY RestingInHand DEF RestoreInit, RestorersInHand, StoredStays
<1>. QED BY <1>1, <1>2, <1>3, <1>4 DEF KeptInv

\* Every step keeps it, crashes included, while rows can be updated.
LEMMA KeptInvSteps ==
  ASSUME RestoreSound, KeptInv, "update" \notin Faults, [RestoreNext]_allVars
  PROVE  KeptInv'
<1>0. /\ Sound /\ SystemTypeOK /\ CatalogTypeOK /\ clock \in Stamps
      /\ RowsFresh /\ RunsOfJobs /\ RequestsInHand /\ RestorersInHand
      /\ StoredStays
  BY DEF RestoreSound, RestoreTypeOK, SystemTypeOK, TypeOK, CatalogTypeOK,
         KeptInv
<1>1. ASSUME NEW r \in Runners, Step(r), clock' \in Stamps,
             UNCHANGED <<handlerVars, restoreVars>>
      PROVE  KeptInv'
  <2>1. NamesStay /\ RowsFresh' /\ NoneMarked(0) /\ JobFilesGo
    BY <1>0, <1>1, RunKeepsImports
  <2>2. RunsOfJobs'
    BY <1>0, <1>1, RunHand
  <2>3. RequestsInHand' /\ DeletionsEnd
    BY <1>0, <1>1, <2>1, RequestsStay
  <2>4. FilesGo(0)
    BY <2>1 DEF JobFilesGo, FilesGo
  <2>5. RestorersInHand' /\ StoredStays'
    BY <1>0, <1>1, <2>1, <2>3, <2>4, RestorersStay DEF restoreVars
  <2>. QED BY <2>1, <2>2, <2>3, <2>5 DEF KeptInv
<1>2. ASSUME UNCHANGED <<rows, nextRow, files, engineVars, handlerVars,
                         rpc, res>>
      PROVE  KeptInv'
  <2>1. NamesStay /\ RowsFresh' /\ NoneMarked(0) /\ FilesGo(0)
    BY <1>0, <1>2, StillRows DEF FilesGo
  <2>2. RunsOfJobs'
    BY <1>0, <1>2, <2>1, RunsStay
  <2>3. RequestsInHand' /\ DeletionsEnd
    BY <1>0, <1>2, <2>1, RequestsStay
  <2>4. RestorersInHand' /\ StoredStays'
    BY <1>0, <1>2, <2>1, <2>3, RestorersStay
  <2>. QED BY <2>1, <2>2, <2>3, <2>4 DEF KeptInv
<1>3. ASSUME NEW q \in Requests, HandlerBegins(q) \/ HandlerStep(q),
             UNCHANGED <<rpc, res>>
      PROVE  KeptInv'
  <2>1. NamesStay /\ RowsFresh' /\ NoneMarked(0)
    BY <1>0, <1>3, HandlerRowsStay
  <2>2. RequestsInHand' /\ FilesGo(0) /\ DeletionsEnd
    BY <1>0, <1>3, HandlerHand
  <2>3. RunsOfJobs'
    BY <1>0, <1>3, <2>1, HandlerCatalog, RunsStay
  <2>4. RestorersInHand' /\ StoredStays'
    BY <1>0, <1>3, <2>1, <2>2, RestorersStay
  <2>. QED BY <2>1, <2>2, <2>3, <2>4 DEF KeptInv
<1>4. ASSUME NEW k \in Restorers, RestorerBegins(k) \/ RestorerStep(k),
             RowsLeft', clock' \in Stamps
      PROVE  KeptInv'
  <2>1. UNCHANGED <<engineVars, handlerVars>>
    BY <1>4, RestorerCatalog
  <2>2. NamesStay /\ RowsFresh'
    BY <1>0, <1>4, RestorerRows
  <2>3. RunsOfJobs' /\ RequestsInHand'
    BY <1>0, <2>1, <2>2, RunsStay, RequestsStay
  <2>4. ASSUME NEW m \in Restorers
        PROVE  Hand(rpc[m], res[m])' /\ Stored(rpc[m], res[m])'
    <3>1. CASE m = k
      BY <1>0, <1>4, <3>1, OwnHand
    <3>2. CASE m # k
      BY <1>0, <1>4, <3>2, OthersHand
    <3>. QED BY <3>1, <3>2
  <2>5. RestorersInHand' /\ StoredStays'
    BY <2>4 DEF RestorersInHand, StoredStays
  <2>. QED BY <2>2, <2>3, <2>5 DEF KeptInv
<1>5. ASSUME RestoreCrash PROVE KeptInv'
  <2>1. UNCHANGED <<rows, nextRow>>
    BY <1>5 DEF RestoreCrash, SystemCrash, Crash, catalogVars, rowVars
  <2>2. RowsFresh'
    BY <1>0, <2>1, StillRows
  <2>3. RunsOfJobs'
    BY <1>5 DEF RestoreCrash, SystemCrash, Crash, RunsOfJobs, RowStages,
                HoldsSlot, NoRun
  <2>4. RequestsInHand'
    BY <1>5 DEF RestoreCrash, SystemCrash, RequestsInHand, NoRequest
  <2>5. ASSUME NEW m \in Restorers
        PROVE  Hand(rpc[m], res[m])' /\ Stored(rpc[m], res[m])'
    <3>1. PICK at, x : at = rpc'[m] /\ x = res'[m]
      OBVIOUS
    <3>2. at = "idle"
      BY <1>5, <3>1 DEF RestoreCrash
    <3>3. Hand(at, x)' /\ Stored(at, x)'
      BY <3>2 DEF Hand, Stored, SafetyMade, Importing, Restoring
    <3>. QED BY <3>1, <3>3
  <2>. QED
    BY <2>2, <2>3, <2>4, <2>5 DEF KeptInv, RestorersInHand, StoredStays
<1>6. ASSUME EngineNext, UNCHANGED <<handlerVars, restoreVars>>,
             clock' \in Stamps
      PROVE  KeptInv'
  BY <1>1, <1>6 DEF EngineNext, Step
<1>7. CASE \/ /\ \E j \in Jobs : EditJob(j)
              /\ UNCHANGED <<handlerVars, restoreVars>>
           \/ UNCHANGED allVars
  BY <1>2, <1>7
  DEF EditJob, rowVars, storeVars, restoreVars, allVars, systemVars, vars,
      catalogVars
<1>8. ASSUME NEW q \in Requests,
             \/ DeleteExecutionStarts(q)
             \/ (DeletionBegins(q) \/ HandlerStep(q)) /\ UNCHANGED restoreVars
      PROVE  KeptInv'
  BY <1>3, <1>8 DEF DeleteExecutionStarts, HandlerBegins, restoreVars
<1>. QED
  BY <1>4, <1>5, <1>6, <1>7, <1>8 DEF RestoreNext

\* "If the backup fails, the restore is skipped": whatever else runs, is deleted
\* or crashes, from the drop of a database that was found to the end of the
\* replay its safety dump is stored, or the user has its execution deleted.
THEOREM SafetyDumpKept ==
  ASSUME "update" \notin Faults
  PROVE  RestoreSpec => []SafetyFirst
<1>1. RestoreSound /\ KeptInv => SafetyFirst
  <2>. SUFFICES ASSUME RestoreSound, KeptInv, NEW k \in Restorers,
                       rpc[k] \in {"clearing", "creating", "importing"},
                       SafetyWanted(k)
                PROVE  \/ res[k].safety \in files \/ SafetyShared(k)
                       \/ /\ res[k].sid # 0
                          /\ ~Present(res[k].sid) \/ BeingDeleted(res[k].sid)
    BY DEF SafetyFirst
  <2>1. SafetySafe(res[k])
    BY DEF KeptInv, StoredStays, Stored, SafetyMade, SafetyWanted
  <2>2. \A id : Deleting(id) => BeingDeleted(id)
    BY DEF Deleting, BeingDeleted
  <2>. QED BY <2>1, <2>2 DEF SafetySafe, SafetyShared
<1>2. RestoreSound /\ KeptInv /\ [RestoreNext]_allVars => KeptInv'
  BY KeptInvSteps
<1>. QED
  BY <1>1, <1>2, KeptInit, RestoreInitSound, RestoreSoundSteps, PTL
  DEF RestoreSpec

\* An upload or a safety dump that a row says is stored stays, if what a step
\* newly marks so is stored.
LEMMA JoblessStays ==
  ASSUME CatalogTypeOK, RowsFresh, JoblessSafe, NamesStay, DeletionsEnd,
         NEW but, FilesGo(but), but \in RowIds => ~rows[but].local,
         NEW marked, NoneMarked(marked),
         (marked \in RowIds /\ rows'[marked].local /\ ~rows[marked].local)
           => Safe(marked)'
  PROVE  JoblessSafe'
<1>. SUFFICES ASSUME NEW id \in RowIds, rows'[id].job \in Jobless,
                     rows'[id].local
              PROVE  Safe(id)'
  BY DEF JoblessSafe
<1>1. CASE ~rows[id].local
  BY <1>1 DEF NoneMarked
<1>2. CASE rows[id].local
  <2>1. id < nextRow /\ id # but
    BY <1>2 DEF RowsFresh
  <2>2. rows[id].job \in Jobless
    BY <2>1 DEF NamesStay
  <2>. QED BY <1>2, <2>1, <2>2, SafeKept DEF JoblessSafe
<1>. QED BY <1>1, <1>2

\* A restorer marks a row as stored in three of its steps.
LEMMA MarkingSteps ==
  ASSUME NEW k \in Restorers, RestorerBegins(k) \/ RestorerStep(k)
  PROVE  /\ rpc[k] = "closing" => CloseSafety(k)
         /\ rpc[k] = "reporting" => Report(k)
         /\ rpc[k] = "importFailed" => FinishImportFailed(k)
<1>. DEFINE Marks == {"closing", "reporting", "importFailed"}
<1>. USE DEF Advance
<1>1. RestorerBegins(k) => rpc[k] \notin Marks
  BY DEF RestorerBegins, AskRestore, StartImport
<1>2. ASSUME \/ LockForRestore(k) \/ Refused(k) \/ BeginRestore(k)
             \/ LoadTarget(k) \/ LoadTargetFails(k)
             \/ FoundLocally(k) \/ NotLocal(k) \/ FoundNowhere(k)
             \/ \E d \in Dests : Fetch(k, d) \/ FetchFails(k, d)
             \/ FetchedNothing(k) \/ Replay(k) \/ ReplayFails(k) \/ WriteBack(k)
      PROVE  rpc[k] \notin Marks
  BY <1>2
  DEF LockForRestore, Refused, BeginRestore, LoadTarget, LoadTargetFails,
      FailRestore, FoundLocally, NotLocal, FoundNowhere, Fetch, FetchFails,
         FetchedNothing, Replay, ReplayFails, WriteBack
<1>3. ASSUME \/ RecordImport(k) \/ RecordImportFails(k) \/ Spool(k)
             \/ SpoolFails(k) \/ CloseFailedSpool(k) \/ BeginImport(k)
             \/ Probe(k) \/ ProbeFails(k) \/ SafetySkipped(k) \/ SafetyDump(k)
             \/ SafetyFails(k) \/ RecordSafety(k) \/ RecordSafetyFails(k)
      PROVE  rpc[k] \notin Marks
  BY <1>3
  DEF RecordImport, RecordImportFails, Spool, SpoolFails, CloseFailedSpool,
      BeginImport, Probe, ProbeFails, ImportFails, SafetySkipped, SafetyDump,
      SafetyFails, RecordSafety, RecordSafetyFails
<1>4. ASSUME \/ Drop(k) \/ NothingToDrop(k) \/ CreateDatabase(k) \/ ToolFails(k)
             \/ Import(k) \/ ImportingFails(k) \/ LeaveImport(k) \/ Unlock(k)
      PROVE  rpc[k] \notin Marks
  BY <1>4
  DEF Drop, NothingToDrop, CreateDatabase, ToolFails, ImportFails, Import,
      ImportingFails, LeaveImport, Unlock
<1>5. /\ CloseSafety(k) => rpc[k] = "closing"
      /\ Report(k) => rpc[k] = "reporting"
      /\ FinishImportFailed(k) => rpc[k] = "importFailed"
  BY DEF CloseSafety, Report, FinishImportFailed
<1>. QED BY <1>1, <1>2, <1>3, <1>4, <1>5 DEF RestorerStep

\* The row that a restorer marks as stored has its file.
LEMMA MarkedSafe ==
  ASSUME RestoreSound, RowsLeft', clock' \in Stamps, RowsFresh,
         RestorersInHand, StoredStays,
         NEW k \in Restorers, RestorerBegins(k) \/ RestorerStep(k),
         NEW id \in RowIds, id = Marked(k), rows'[id].local, ~rows[id].local
  PROVE  Safe(id)'
<1>1. /\ Hand(rpc[k], res[k]) /\ Stored(rpc[k], res[k])
      /\ CatalogTypeOK /\ rows \in [RowIds -> RowRecord]
      /\ id # 0 /\ UNCHANGED handlerVars /\ NamesStay
  BY RestorerRows, RestorerCatalog
  DEF RestorersInHand, StoredStays, RestoreSound, RestoreTypeOK, SystemTypeOK,
      TypeOK, CatalogTypeOK, RowIds
<1>2. ASSUME Name(id) \in files, UNCHANGED files, id < nextRow
      PROVE  Safe(id)'
  BY <1>1, <1>2 DEF Safe, Name, NamesStay
<1>3. CASE rpc[k] = "closing"
  <2>1. CloseSafety(k) /\ id = res[k].sid
    BY <1>3, MarkingSteps DEF Marked
  <2>2. id < nextRow /\ Name(id) = res[k].safety
    BY <1>1, <1>3, <2>1 DEF Hand, SafetyMade
  <2>3. CASE res[k].safety \in files
    BY <1>2, <2>1, <2>2, <2>3 DEF CloseSafety, CloseRow
  <2>4. CASE res[k].safety \notin files
    BY <2>1, <2>4 DEF CloseSafety, OnlyMemory, catalogVars, rowVars
  <2>. QED BY <2>3, <2>4
<1>4. CASE rpc[k] = "reporting"
  <2>1. Report(k) /\ id = res[k].row
    BY <1>4, MarkingSteps DEF Marked
  <2>2. id < nextRow
    BY <1>1, <1>4, <2>1 DEF Hand, Importing
  <2>3. CASE Name(id) \in files
    BY <1>2, <2>1, <2>2, <2>3 DEF Report, CloseRow
  <2>4. CASE Name(id) \notin files
    <3>1. UpdateBackup(id, "failed", FALSE) \/ UNCHANGED rows
      BY <2>1, <2>4 DEF Report, CloseRow
    <3>2. ~rows'[id].local
      BY <1>1, <3>1 DEF UpdateBackup, RowRecord
    <3>. QED BY <3>2
  <2>. QED BY <2>3, <2>4
<1>5. CASE rpc[k] = "importFailed"
  <2>1. FinishImportFailed(k) /\ id = res[k].row
    BY <1>5, MarkingSteps DEF Marked
  <2>2. /\ id < nextRow /\ rows[id].job \in Jobless /\ Safe(id)
        /\ UNCHANGED files
    BY <1>1, <1>5, <2>1
    DEF Hand, Stored, Importing, Jobless, FinishImportFailed, CloseRow
  <2>3. FilesGo(0) /\ DeletionsEnd
    BY <1>1, <2>2 DEF FilesGo, DeletionsEnd, Deleting, handlerVars
  <2>. QED BY <1>1, <2>2, <2>3, SafeKept
<1>. QED BY <1>1, <1>3, <1>4, <1>5 DEF Marked

\* No step but a crash takes the file of a row without a job.
LEMMA JoblessSteps ==
  ASSUME RestoreSound, KeptInv, JoblessSafe, "update" \notin Faults,
         MaxCrashes = 0, [RestoreNext]_allVars
  PROVE  JoblessSafe'
<1>0. /\ Sound /\ SystemTypeOK /\ CatalogTypeOK /\ clock \in Stamps
      /\ RowsFresh /\ RunsOfJobs /\ RequestsInHand /\ RestorersInHand
      /\ StoredStays /\ 0 \notin RowIds
  BY DEF RestoreSound, RestoreTypeOK, SystemTypeOK, TypeOK, CatalogTypeOK,
         KeptInv, RowIds
<1>1. ASSUME NamesStay, DeletionsEnd, FilesGo(0), NoneMarked(0)
      PROVE  JoblessSafe'
  BY <1>0, <1>1, JoblessStays
<1>2. ASSUME NEW r \in Runners, Step(r), clock' \in Stamps,
             UNCHANGED <<handlerVars, restoreVars>>
      PROVE  JoblessSafe'
  <2>1. NamesStay /\ NoneMarked(0) /\ JobFilesGo
    BY <1>0, <1>2, RunKeepsImports
  <2>2. FilesGo(0) /\ DeletionsEnd
    BY <1>2, <2>1
    DEF JobFilesGo, FilesGo, DeletionsEnd, Deleting, handlerVars
  <2>. QED BY <1>1, <2>1, <2>2
<1>3. ASSUME UNCHANGED <<rows, nextRow, files, handlerVars>>
      PROVE  JoblessSafe'
  <2>1. NamesStay /\ NoneMarked(0)
    BY <1>0, <1>3, StillRows
  <2>2. FilesGo(0) /\ DeletionsEnd
    BY <1>3 DEF FilesGo, DeletionsEnd, Deleting, handlerVars
  <2>. QED BY <1>1, <2>1, <2>2
<1>4. ASSUME NEW q \in Requests, HandlerBegins(q) \/ HandlerStep(q)
      PROVE  JoblessSafe'
  BY <1>0, <1>1, <1>4, HandlerRowsStay, HandlerHand
<1>5. ASSUME NEW k \in Restorers, RestorerBegins(k) \/ RestorerStep(k),
             RowsLeft', clock' \in Stamps
      PROVE  JoblessSafe'
  <2>1. NamesStay /\ NoneMarked(Marked(k))
    BY <1>0, <1>5, RestorerRows
  <2>2. DeletionsEnd
    BY <1>5, RestorerCatalog DEF DeletionsEnd, Deleting, handlerVars
  <2>3. PICK marked : marked = Marked(k)
    OBVIOUS
  <2>4. marked \in RowIds /\ rows'[marked].local /\ ~rows[marked].local
          => Safe(marked)'
    BY <1>0, <1>5, <2>3, MarkedSafe
  <2>5. CASE SpoolFails(k)
    <3>1. PICK but : but = res[k].row
      OBVIOUS
    <3>2. /\ but \in RowIds /\ but < nextRow /\ ~rows[but].local
          /\ files' = files \ {Name(but)}
      BY <1>0, <2>5, <3>1 DEF SpoolFails, Advance, RestorersInHand, Hand
    <3>3. FilesGo(but)
      BY <3>2 DEF FilesGo
    <3>. QED BY <1>0, <2>1, <2>2, <2>3, <2>4, <3>2, <3>3, JoblessStays
  <2>6. CASE ~SpoolFails(k)
    <3>1. FilesGo(0)
      BY <1>5, <2>6, RestorerFiles DEF FilesGo
    <3>. QED BY <1>0, <2>1, <2>2, <2>3, <2>4, <3>1, JoblessStays
  <2>. QED BY <2>5, <2>6
<1>6. ~RestoreCrash
  BY <1>0 DEF RestoreCrash, SystemCrash, Crash, Sound, TypeOK
<1>7. ASSUME EngineNext, UNCHANGED <<handlerVars, restoreVars>>,
             clock' \in Stamps
      PROVE  JoblessSafe'
  BY <1>2, <1>7 DEF EngineNext, Step
<1>8. CASE \/ /\ \E j \in Jobs : EditJob(j)
              /\ UNCHANGED <<handlerVars, restoreVars>>
           \/ UNCHANGED allVars
  BY <1>3, <1>8
  DEF EditJob, rowVars, storeVars, restoreVars, allVars, systemVars, vars,
      catalogVars
<1>9. ASSUME NEW q \in Requests,
             DeleteExecutionStarts(q) \/ DeletionBegins(q) \/ HandlerStep(q)
      PROVE  JoblessSafe'
  BY <1>4, <1>9 DEF DeleteExecutionStarts, HandlerBegins
<1>. QED
  BY <1>5, <1>6, <1>7, <1>8, <1>9 DEF RestoreNext

\* "Nothing silently removes them": an upload or a safety dump whose row says
\* that it is stored is there, whatever retention, deletions of other rows and
\* failing imports do, until a user has its own execution deleted.
THEOREM UploadsKept ==
  ASSUME "update" \notin Faults, MaxCrashes = 0
  PROVE  RestoreSpec => []JoblessKept
<1>1. RestoreInit => JoblessSafe
  BY DEF RestoreInit, SystemInit, Init, CatalogInit, NoRow, JoblessSafe
<1>2. RestoreSound /\ KeptInv /\ JoblessSafe /\ [RestoreNext]_allVars
        => JoblessSafe'
  BY JoblessSteps
<1>3. RestoreSound /\ KeptInv /\ [RestoreNext]_allVars => KeptInv'
  BY KeptInvSteps
<1>4. KeptInv /\ JoblessSafe => JoblessKept
  <2>1. \A id : Deleting(id) => BeingDeleted(id)
    BY DEF Deleting, BeingDeleted
  <2>. QED BY <2>1 DEF KeptInv, RowsFresh, JoblessSafe, JoblessKept, Safe
<1>. QED
  BY <1>1, <1>2, <1>3, <1>4, KeptInit, RestoreInitSound, RestoreSoundSteps, PTL
  DEF RestoreSpec
=============================================================================

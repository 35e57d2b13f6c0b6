--------------------------- MODULE ServicesProofs ---------------------------
(***************************************************************************)
(* The two services that work through rows on a timer: what the garbage    *)
(* collector never removes (Retention), and what any number of schedulers  *)
(* never claim twice (ScheduleClaims).                                     *)
(***************************************************************************)
EXTENDS Retention, ScheduleClaims, TLAPS

-----------------------------------------------------------------------------
(* Retention *)

\* cleanupRecords goes on to the row only after the file is gone, and a file
\* never comes back under a name that a pass has listed.
FileBeforeRow ==
  \A p \in Passes : \A o \in Objects : todo[p][o] = "row" => o \notin files

RetentionInv == RetentionInvariant /\ FileBeforeRow

LEMMA RetentionInitInv == RetentionInit => RetentionInv
  BY RetentionAssumption DEF RetentionInit, RetentionInv, RetentionInvariant, RetentionTypeOK, Nothing,
    RowStates, LiveRowHasFile, RemovedRowHasNoFile, PassesHandleExpired, FileBeforeRow

\* The agreement survives a step that leaves the passes' lists alone when
\* every row and file moves only forward: a new file belongs to no row, a row
\* comes after its file, and files disappear only from expired rows.
LEMMA MetadataInv ==
  ASSUME RetentionInv, NEW o \in Objects, RetentionTypeOK', UNCHANGED todo,
         \/ row[o] = "none" /\ files' = files \cup {o} /\ row' = row
         \/ row[o] = "none" /\ o \in files /\ row' = [row EXCEPT ![o] = "live"] /\ files' = files
         \/ row[o] = "live" /\ row' = [row EXCEPT ![o] = "expired"] /\ files' = files
         \/ o \in saved /\ row[o] # "none" /\ row' = [row EXCEPT ![o] = "gone"] /\ files' = files
         \/ row[o] = "expired" /\ row' = row /\ files' = files \ {o}
         \/ UNCHANGED <<row, files>>,
         saved \subseteq saved'
  PROVE  RetentionInv'
  <1> USE DEF RetentionInv, RetentionInvariant
  <1>0. row \in [Objects -> RowStates] /\ files \subseteq Objects
    BY DEF RetentionTypeOK
  <1>1. LiveRowHasFile'
    BY <1>0 DEF LiveRowHasFile
  <1>2. RemovedRowHasNoFile'
    BY <1>0 DEF RemovedRowHasNoFile
  <1>3. PassesHandleExpired'
    BY <1>0 DEF PassesHandleExpired, RowStates
  <1>4. FileBeforeRow'
    BY <1>0 DEF FileBeforeRow, PassesHandleExpired
  <1> QED
    BY <1>1, <1>2, <1>3, <1>4

\* A claimed upload has a row or had one: it was returned by an upload.
ClaimsHaveRows == \A u \in saved : row[u] # "none"

LEMMA UploadInv ==
  ASSUME RetentionInv, ClaimsHaveRows, NEW o \in Objects,
         StoreUpload(o) \/ CreateStagedUpload(o) \/ SavePipeline(o) \/ ClaimUploads(o)
  PROVE  RetentionInv'
  <1> USE RetentionAssumption DEF RetentionInv, RetentionInvariant
  <1>1. RetentionTypeOK'
    BY DEF StoreUpload, CreateStagedUpload, SavePipeline, ClaimUploads, ClaimStagedUploads, Fault, RetentionTypeOK,
      RowStates, runVars, uploadVars, passVars
  <1>2. CASE StoreUpload(o)
    BY <1>1, <1>2, MetadataInv DEF StoreUpload, uploadVars, passVars
  <1>3. CASE CreateStagedUpload(o)
    BY <1>1, <1>3, MetadataInv DEF CreateStagedUpload, uploadVars, passVars
  <1>4. CASE SavePipeline(o)
    BY <1>1, <1>4, MetadataInv DEF SavePipeline, passVars
  <1>5. CASE ClaimUploads(o)
    <2>1. o \in saved /\ row[o] # "none"
      BY <1>5 DEF ClaimUploads, RetentionTypeOK, ClaimsHaveRows
    <2> QED BY <1>1, <1>5, <2>1, MetadataInv DEF ClaimUploads, ClaimStagedUploads, passVars
  <1> QED
    BY <1>2, <1>3, <1>4, <1>5

LEMMA RunObjectsInv ==
  ASSUME RetentionInv, NEW o \in Objects, StoreObject(o) \/ Expire(o) \/ WorkerDeletes(o)
  PROVE  RetentionInv'
  <1> USE RetentionAssumption DEF RetentionInv, RetentionInvariant
  <1>1. RetentionTypeOK'
    BY DEF StoreObject, Expire, WorkerDeletes, RetentionTypeOK, RowStates, runVars, uploadVars, passVars
  <1>2. CASE StoreObject(o)
    BY <1>1, <1>2, MetadataInv DEF StoreObject, uploadVars, passVars
  <1>3. CASE Expire(o)
    BY <1>1, <1>3, MetadataInv DEF Expire, uploadVars, passVars
  <1>4. CASE WorkerDeletes(o)
    BY <1>1, <1>4, MetadataInv DEF WorkerDeletes, uploadVars, passVars
  <1> QED
    BY <1>2, <1>3, <1>4

LEMMA RunsInv ==
  ASSUME RetentionInv, NEW r \in Runs, StartRun(r) \/ FinishRun(r) \/ ExpireRun(r)
  PROVE  RetentionInv'
  <1>1. UNCHANGED <<row, files, uploadVars, passVars, passFaults>>
    BY DEF StartRun, FinishRun, ExpireRun
  <1>2. run' \in [Runs -> {"queued", "running", "terminal", "expired", "deleted"}]
        /\ children' \subseteq Runs /\ events' \subseteq Runs
    BY DEF StartRun, FinishRun, ExpireRun, RetentionInv, RetentionInvariant, RetentionTypeOK
  <1> QED
    BY <1>1, <1>2 DEF RetentionInv, RetentionInvariant, RetentionTypeOK, LiveRowHasFile, RemovedRowHasNoFile,
      PassesHandleExpired, FileBeforeRow, uploadVars, passVars

\* A pass lists only expired rows.
LEMMA StartPassInv == ASSUME RetentionInv, NEW p \in Passes, StartPass(p) PROVE RetentionInv'
  <1> USE DEF RetentionInv, RetentionInvariant
  <1> DEFINE listed == ListExpiredDatasets \cup ListExpiredArtifacts \cup ListExpiredStagedUploads
  <1>1. \A o \in listed : row[o] = "expired"
    BY DEF ListExpiredDatasets, ListExpiredArtifacts, ListExpiredStagedUploads, ListExpired, Oldest
  <1>2. todo' = [todo EXCEPT ![p] = [o \in Objects |-> IF o \in listed THEN "file" ELSE "none"]]
    BY DEF StartPass
  <1> HIDE DEF listed
  <1>3. UNCHANGED <<row, files, runVars, uploadVars, todoRuns, passFaults>> /\ pc' = [pc EXCEPT ![p] = "objects"]
    BY DEF StartPass
  <1>4. todo \in [Passes -> [Objects -> {"none", "file", "row"}]] /\ pc \in [Passes -> {"idle", "objects", "runs"}]
    BY DEF RetentionTypeOK
  <1>5. RetentionTypeOK'
    BY <1>2, <1>3, <1>4 DEF RetentionTypeOK, runVars, uploadVars
  <1>6. PassesHandleExpired' /\ FileBeforeRow'
    BY <1>1, <1>2, <1>3, <1>4 DEF PassesHandleExpired, FileBeforeRow
  <1> QED
    BY <1>3, <1>5, <1>6 DEF LiveRowHasFile, RemovedRowHasNoFile, uploadVars

\* The file goes first, of an object whose row is not live.
LEMMA DeleteFileInv == ASSUME RetentionInv, NEW p \in Passes, NEW o \in Objects, DeleteFile(p, o) PROVE RetentionInv'
  <1> USE RetentionAssumption DEF RetentionInv, RetentionInvariant
  <1>1. /\ todo \in [Passes -> [Objects -> {"none", "file", "row"}]] /\ files \subseteq Objects
        /\ passFaults \in 0..MaxPassFaults /\ row[o] \in {"expired", "gone"}
    BY DEF RetentionTypeOK, PassesHandleExpired, DeleteFile
  <1>2. \/ files' = files \ {o} /\ todo' = [todo EXCEPT ![p][o] = "row"]
        \/ files' = files /\ todo' = [todo EXCEPT ![p][o] = "none"]
    BY DEF DeleteFile, StorageDelete
  <1>3. UNCHANGED <<row, runVars, uploadVars, todoRuns, pc>> /\ passFaults' \in 0..MaxPassFaults
    BY <1>1 DEF DeleteFile, Fault
  <1>0. /\ todo' \in [Passes -> [Objects -> {"none", "file", "row"}]] /\ files' \subseteq files
        /\ \A q \in Passes : \A b \in Objects :
             \/ todo'[q][b] = todo[q][b]
             \/ b = o /\ (todo'[q][b] = "row" => o \notin files')
    <2>1. CASE files' = files \ {o} /\ todo' = [todo EXCEPT ![p][o] = "row"]
      BY <1>1, <2>1
    <2>2. CASE files' = files /\ todo' = [todo EXCEPT ![p][o] = "none"]
      BY <1>1, <2>2
    <2> QED BY <1>2, <2>1, <2>2
  <1>4. RetentionTypeOK'
    <2>1. files' \subseteq Objects
      BY <1>0, <1>1
    <2> QED BY <1>0, <1>3, <2>1 DEF RetentionTypeOK, runVars, uploadVars
  <1>5. LiveRowHasFile' /\ RemovedRowHasNoFile'
    BY <1>1, <1>2, <1>3 DEF LiveRowHasFile, RemovedRowHasNoFile, uploadVars
  <1>6. PassesHandleExpired'
    BY <1>0, <1>1, <1>3 DEF PassesHandleExpired
  <1>7. FileBeforeRow'
    BY <1>0 DEF FileBeforeRow
  <1> QED
    BY <1>4, <1>5, <1>6, <1>7

\* The row goes only when the file has gone.
LEMMA DeleteRowInv == ASSUME RetentionInv, NEW p \in Passes, NEW o \in Objects, DeleteRow(p, o) PROVE RetentionInv'
  <1> USE RetentionAssumption DEF RetentionInv, RetentionInvariant
  <1>1. /\ todo \in [Passes -> [Objects -> {"none", "file", "row"}]] /\ row \in [Objects -> RowStates]
        /\ passFaults \in 0..MaxPassFaults /\ row[o] \in {"expired", "gone"} /\ o \notin files
    BY DEF RetentionTypeOK, PassesHandleExpired, FileBeforeRow, DeleteRow
  <1>2. row' = row \/ row' = [row EXCEPT ![o] = "gone"]
    BY <1>1 DEF DeleteRow, DeleteExpiredDataset, DeleteExpiredRecord
  <1>3. /\ todo' = [todo EXCEPT ![p][o] = "none"] /\ passFaults' \in 0..MaxPassFaults
        /\ UNCHANGED <<files, runVars, uploadVars, todoRuns, pc>>
    BY <1>1 DEF DeleteRow, Fault
  <1>4. RetentionTypeOK'
    BY <1>1, <1>2, <1>3 DEF RetentionTypeOK, RowStates, runVars, uploadVars
  <1>5. LiveRowHasFile' /\ RemovedRowHasNoFile'
    BY <1>1, <1>2, <1>3 DEF LiveRowHasFile, RemovedRowHasNoFile, uploadVars
  <1>6. PassesHandleExpired' /\ FileBeforeRow'
    BY <1>1, <1>2, <1>3 DEF PassesHandleExpired, FileBeforeRow
  <1> QED
    BY <1>4, <1>5, <1>6

\* Deleting runs touches neither objects nor files.
LEMMA PassRunsInv ==
  ASSUME RetentionInv, NEW p \in Passes, ListRuns(p) \/ EndPass(p) \/ \E r \in Runs : DeleteRun(p, r)
  PROVE  RetentionInv'
  <1> USE DEF RetentionInv, RetentionInvariant
  <1>1. UNCHANGED <<row, files, events, uploadVars, todo, passFaults>>
    BY DEF ListRuns, EndPass, DeleteRun, runVars
  <1>2. pc' \in [Passes -> {"idle", "objects", "runs"}]
    BY DEF ListRuns, EndPass, DeleteRun, RetentionTypeOK
  <1>3. todoRuns' \in [Passes -> SUBSET Runs]
    <2>1. ListExpiredRuns \subseteq Runs
      BY DEF ListExpiredRuns, Oldest
    <2>2. \A r : todoRuns[p] \ {r} \subseteq Runs
      BY DEF RetentionTypeOK
    <2> QED
      BY <2>1, <2>2 DEF ListRuns, EndPass, DeleteRun, RetentionTypeOK
  <1>4. run' \in [Runs -> {"queued", "running", "terminal", "expired", "deleted"}]
    BY DEF ListRuns, EndPass, DeleteRun, RetentionTypeOK, runVars
  <1>5. children' \subseteq Runs
    BY DEF ListRuns, EndPass, DeleteRun, RetentionTypeOK, runVars
  <1> QED
    BY <1>1, <1>2, <1>3, <1>4, <1>5 DEF RetentionTypeOK, LiveRowHasFile, RemovedRowHasNoFile,
      PassesHandleExpired, FileBeforeRow, uploadVars

LEMMA RetentionNextInv ==
  ASSUME RetentionInv /\ ClaimsHaveRows, [RetentionNext]_retentionVars
  PROVE  (RetentionInv /\ ClaimsHaveRows)'
  <1>1. RetentionInv'
    <2>1. CASE \E o \in Objects : StoreUpload(o) \/ CreateStagedUpload(o) \/ SavePipeline(o) \/ ClaimUploads(o)
      BY <2>1, UploadInv
    <2>2. CASE \E o \in Objects : StoreObject(o) \/ Expire(o) \/ WorkerDeletes(o)
      BY <2>2, RunObjectsInv
    <2>3. CASE \E r \in Runs : StartRun(r) \/ FinishRun(r) \/ ExpireRun(r)
      BY <2>3, RunsInv
    <2>4. CASE \E p \in Passes : Collect(p)
      BY <2>4, StartPassInv, DeleteFileInv, DeleteRowInv, PassRunsInv DEF Collect
    <2>5. CASE UNCHANGED retentionVars
      BY <2>5 DEF retentionVars, RetentionInv, RetentionInvariant, RetentionTypeOK, LiveRowHasFile,
        RemovedRowHasNoFile, PassesHandleExpired, FileBeforeRow
    <2> QED BY <2>1, <2>2, <2>3, <2>4, <2>5 DEF RetentionNext
  <1>2. ClaimsHaveRows'
    <2>1. row \in [Objects -> RowStates] /\ saved \subseteq Objects
      BY DEF RetentionInv, RetentionInvariant, RetentionTypeOK, Objects
    <2>2. \A o \in saved : row'[o] # "none"
      BY <2>1 DEF RetentionNext, Collect, retentionVars, StoreUpload, CreateStagedUpload, SavePipeline, ClaimUploads,
        ClaimStagedUploads, StoreObject, Expire, WorkerDeletes, StartRun, FinishRun, ExpireRun, StartPass, DeleteFile,
        DeleteRow, DeleteExpiredDataset, DeleteExpiredRecord, ListRuns, DeleteRun, EndPass, ClaimsHaveRows
    <2>3. saved' = saved \/ \E u \in Objects : saved' = saved \cup {u} /\ row'[u] # "none"
      BY <2>1 DEF RetentionNext, Collect, retentionVars, StoreUpload, CreateStagedUpload, SavePipeline, ClaimUploads,
        StoreObject, Expire, WorkerDeletes, StartRun, FinishRun, ExpireRun, StartPass, DeleteFile,
        DeleteRow, ListRuns, DeleteRun, EndPass, uploadVars
    <2> QED BY <2>2, <2>3 DEF ClaimsHaveRows
  <1> QED
    BY <1>1, <1>2

\* The collector never removes the file of a live row and never forgets a file,
\* for any number of overlapping passes.
THEOREM RetentionSafe == RetentionSpec => []RetentionInvariant
  <1>1. RetentionInit => RetentionInv /\ ClaimsHaveRows
    BY RetentionInitInv DEF RetentionInit, ClaimsHaveRows
  <1>2. RetentionInv => RetentionInvariant
    BY DEF RetentionInv
  <1> QED
    BY <1>1, <1>2, RetentionNextInv, PTL DEF RetentionSpec

-----------------------------------------------------------------------------
(* ScheduleClaims *)

\* A pass owns both rows of everything it has selected until it ends, and
\* what it read of them is still so: the trigger's time and that the pipeline
\* is enabled.
Owns(s, t) == trigLock[t] = s /\ lock[PipelineOf[t]] = s /\ nextRunAt[t] <= clock
PassOwnsRows ==
  \A s \in Schedulers : \A t \in Triggers :
    /\ t \in due[s] => Owns(s, t)
    /\ \A o \in Occurrences :
         <<t, o>> \in claimed[s] => Owns(s, t) /\ o = nextRunAt[t] /\ PipelineOf[t] \in enabled

ScheduleInv == ScheduleInvariant /\ PassOwnsRows

LEMMA ScheduleInitInv == ScheduleInit => ScheduleInv
  <1> SUFFICES ASSUME ScheduleInit PROVE ScheduleInv
    OBVIOUS
  <1> USE ScheduleAssumption DEF ScheduleInit
  <1>1. ScheduleTypeOK
    BY DEF ScheduleTypeOK, Occurrences
  <1>2. EachOccurrenceOnce
    BY DEF EachOccurrenceOnce, Occurrences
  <1>3. BatchStaysEligible /\ PassOwnsRows
    BY DEF BatchStaysEligible, PassOwnsRows
  <1> QED
    BY <1>1, <1>2, <1>3 DEF ScheduleInv, ScheduleInvariant

\* Time passes: what was due stays due.
LEMMA TickInv == ASSUME ScheduleInv, Tick PROVE ScheduleInv'
  <1> USE ScheduleAssumption DEF ScheduleInv, ScheduleInvariant
  <1>1. /\ UNCHANGED <<enabled, nextRunAt, runs, lock, trigLock, due, claimed, toggles, claimFaults>>
        /\ clock' = clock + 1 /\ clock \in 0..MaxTime /\ clock < MaxTime
    BY DEF Tick, rowVars, lockVars, ScheduleTypeOK
  <1>2. ScheduleTypeOK' /\ EachOccurrenceOnce' /\ BatchStaysEligible'
    BY <1>1 DEF ScheduleTypeOK, EachOccurrenceOnce, BatchStaysEligible
  <1>3. PassOwnsRows'
    <2>1. \A t \in Triggers : nextRunAt[t] \in Nat
      BY DEF ScheduleTypeOK
    <2>2. \A s \in Schedulers : \A t \in Triggers : Owns(s, t) => Owns(s, t)'
      <3> SUFFICES ASSUME NEW s \in Schedulers, NEW t \in Triggers, Owns(s, t) PROVE Owns(s, t)'
        OBVIOUS
      <3>1. nextRunAt[t] <= clock'
        BY <1>1, <2>1 DEF Owns
      <3> QED BY <1>1, <3>1 DEF Owns
    <2> QED BY <1>1, <2>2 DEF PassOwnsRows
  <1> QED
    BY <1>2, <1>3

\* The state of a pipeline changes only while no pass holds its row.
LEMMA ToggleInv == ASSUME ScheduleInv, NEW p \in Pipelines, Toggle(p) PROVE ScheduleInv'
  <1> USE ScheduleAssumption DEF ScheduleInv, ScheduleInvariant
  <1>1. /\ UNCHANGED <<clock, nextRunAt, runs, lock, trigLock, due, claimed, claimFaults>>
        /\ lock[p] = Nobody /\ toggles' \in 0..MaxToggles
        /\ enabled' \subseteq Pipelines
        /\ \A q \in Pipelines \ {p} : q \in enabled => q \in enabled'
    BY DEF Toggle, lockVars, ScheduleTypeOK
  <1>2. ScheduleTypeOK' /\ EachOccurrenceOnce'
    BY <1>1 DEF ScheduleTypeOK, EachOccurrenceOnce
  <1>3. \A s \in Schedulers : \A t \in Triggers : Owns(s, t) =>
          Owns(s, t)' /\ (PipelineOf[t] \in enabled => PipelineOf[t] \in enabled')
    <2> SUFFICES ASSUME NEW s \in Schedulers, NEW t \in Triggers, Owns(s, t)
                 PROVE  Owns(s, t)' /\ (PipelineOf[t] \in enabled => PipelineOf[t] \in enabled')
      OBVIOUS
    <2>1. PipelineOf[t] \in Pipelines /\ s # Nobody
      OBVIOUS
    <2> QED BY <1>1, <2>1 DEF Owns
  <1>4. \A s \in Schedulers : due[s] \subseteq Triggers
    BY DEF ScheduleTypeOK
  <1>5. BatchStaysEligible'
    BY <1>1, <1>3, <1>4 DEF BatchStaysEligible, PassOwnsRows
  <1>6. PassOwnsRows'
    BY <1>1, <1>3 DEF PassOwnsRows
  <1> QED
    BY <1>2, <1>5, <1>6

\* A pass selects due rows that nobody else has locked.
LEMMA SelectDueInv == ASSUME ScheduleInv, NEW s \in Schedulers, SelectDue(s) PROVE ScheduleInv'
  <1> USE ScheduleAssumption DEF ScheduleInv, ScheduleInvariant
  <1>1. /\ UNCHANGED <<clock, enabled, nextRunAt, runs, claimed, toggles, claimFaults>>
        /\ due[s] = {} /\ claimed[s] = {}
        /\ due' = [due EXCEPT ![s] = Selected]
        /\ trigLock' = [t \in Triggers |-> IF t \in Selected THEN s ELSE trigLock[t]]
        /\ lock' = [p \in Pipelines |-> IF \E t \in Selected : PipelineOf[t] = p THEN s ELSE lock[p]]
    BY DEF SelectDue, Idle, rowVars
  <1>2. /\ Selected \subseteq Triggers
        /\ \A t \in Selected : /\ PipelineOf[t] \in enabled /\ nextRunAt[t] <= clock
                               /\ trigLock[t] = Nobody /\ lock[PipelineOf[t]] = Nobody
    BY DEF Selected, IsDue, Free
  <1> HIDE DEF Selected
  <1>3. ScheduleTypeOK'
    BY <1>1, <1>2 DEF ScheduleTypeOK
  <1>4. EachOccurrenceOnce' /\ BatchStaysEligible'
    BY <1>1, <1>2 DEF EachOccurrenceOnce, BatchStaysEligible, ScheduleTypeOK
  <1>5. PassOwnsRows'
    <2>1. /\ due'[s] = Selected /\ claimed'[s] = {}
          /\ \A u \in Schedulers \ {s} : due'[u] = due[u] /\ claimed'[u] = claimed[u]
      BY <1>1 DEF ScheduleTypeOK
    <2>2. \A t \in Selected : Owns(s, t)'
      BY <1>1, <1>2 DEF Owns
    <2>3. \A u \in Schedulers \ {s} : \A t \in Triggers : Owns(u, t) => Owns(u, t)'
      BY <1>1, <1>2 DEF Owns
    <2>4. UNCHANGED <<nextRunAt, enabled>>
      BY <1>1
    <2> SUFFICES ASSUME NEW u \in Schedulers, NEW t \in Triggers
                 PROVE  /\ t \in due'[u] => Owns(u, t)'
                        /\ \A o \in Occurrences : <<t, o>> \in claimed'[u] =>
                             Owns(u, t)' /\ o = nextRunAt'[t] /\ PipelineOf[t] \in enabled'
      BY DEF PassOwnsRows
    <2>5. CASE u = s
      BY <2>1, <2>2, <2>5
    <2>6. CASE u # s
      BY <2>1, <2>3, <2>4, <2>6 DEF PassOwnsRows
    <2> QED BY <2>5, <2>6
  <1> QED
    BY <1>3, <1>4, <1>5

\* One trigger moves from the selection to the claims; a pass never claims the
\* same trigger twice.
LEMMA ClaimOneInv == ASSUME ScheduleInv, NEW s \in Schedulers, ClaimOne(s) PROVE ScheduleInv'
  <1> USE ScheduleAssumption DEF ScheduleInv, ScheduleInvariant
  <1>1. PICK t \in due[s] :
          /\ PipelineOf[t] \in enabled
          /\ due' = [due EXCEPT ![s] = @ \ {t}]
          /\ claimed' = [claimed EXCEPT ![s] = @ \cup {<<t, nextRunAt[t]>>}]
          /\ UNCHANGED <<clock, rowVars, lockVars, toggles, claimFaults>>
    BY DEF ClaimOne
  <1>2. /\ t \in Triggers /\ Owns(s, t) /\ nextRunAt[t] \in Occurrences
        /\ UNCHANGED <<clock, enabled, nextRunAt, runs, lock, trigLock, toggles, claimFaults>>
    <2>1. t \in Triggers /\ clock \in 0..MaxTime /\ nextRunAt[t] \in 1..(MaxTime + 1)
      BY <1>1 DEF ScheduleTypeOK
    <2>2. Owns(s, t)
      BY <1>1, <2>1 DEF PassOwnsRows
    <2> QED BY <1>1, <2>1, <2>2 DEF Owns, Occurrences, rowVars, lockVars
  <1>3. ScheduleTypeOK'
    BY <1>1, <1>2 DEF ScheduleTypeOK
  <1>4. EachOccurrenceOnce' /\ BatchStaysEligible'
    BY <1>1, <1>2 DEF EachOccurrenceOnce, BatchStaysEligible, ScheduleTypeOK
  <1>5. PassOwnsRows'
    <2>1. /\ due'[s] = due[s] \ {t} /\ claimed'[s] = claimed[s] \cup {<<t, nextRunAt[t]>>}
          /\ \A u \in Schedulers \ {s} : due'[u] = due[u] /\ claimed'[u] = claimed[u]
      BY <1>1 DEF ScheduleTypeOK
    <2>2. \A u \in Schedulers : \A v \in Triggers : Owns(u, v) => Owns(u, v)'
      BY <1>2 DEF Owns
    <2> QED BY <1>1, <1>2, <2>1, <2>2 DEF PassOwnsRows
  <1> QED
    BY <1>3, <1>4, <1>5

\* The end of a transaction frees its rows and nobody else's.
LEMMA ReleaseFacts ==
  ASSUME ScheduleInv, NEW s \in Schedulers, Release(s)
  PROVE  /\ due' \in [Schedulers -> SUBSET Triggers] /\ claimed' \in [Schedulers -> SUBSET (Triggers \X Occurrences)]
         /\ lock' \in [Pipelines -> Schedulers \cup {Nobody}] /\ trigLock' \in [Triggers -> Schedulers \cup {Nobody}]
         /\ due'[s] = {} /\ claimed'[s] = {}
         /\ \A u \in Schedulers \ {s} : due'[u] = due[u] /\ claimed'[u] = claimed[u]
  <1> USE ScheduleAssumption DEF ScheduleInv, ScheduleInvariant
  <1>1. /\ lock' = [p \in Pipelines |-> IF lock[p] = s THEN Nobody ELSE lock[p]]
        /\ trigLock' = [t \in Triggers |-> IF trigLock[t] = s THEN Nobody ELSE trigLock[t]]
        /\ claimed' = [claimed EXCEPT ![s] = {}] /\ due' = [due EXCEPT ![s] = {}]
    BY DEF Release
  <1>2. /\ due' \in [Schedulers -> SUBSET Triggers] /\ claimed' \in [Schedulers -> SUBSET (Triggers \X Occurrences)]
        /\ lock' \in [Pipelines -> Schedulers \cup {Nobody}] /\ trigLock' \in [Triggers -> Schedulers \cup {Nobody}]
        /\ due'[s] = {} /\ claimed'[s] = {}
        /\ \A u \in Schedulers \ {s} : due'[u] = due[u] /\ claimed'[u] = claimed[u]
    BY <1>1 DEF ScheduleTypeOK
  <1> QED
    BY <1>2

LEMMA ReleaseKeepsLocks ==
  ASSUME NEW s \in Schedulers, Release(s), NEW u \in Schedulers, u # s, NEW t \in Triggers, Owns(u, t)
  PROVE  trigLock'[t] = u /\ lock'[PipelineOf[t]] = u
  <1>1. PipelineOf[t] \in Pipelines
    BY ScheduleAssumption
  <1> QED
    BY <1>1 DEF Release, Owns

\* What a commit writes for a trigger that it claimed, and for one it did not.
LEMMA CommitFacts ==
  ASSUME ScheduleInv, NEW s \in Schedulers, Commit(s), NEW t \in Triggers
  PROVE  \/ /\ <<t, nextRunAt[t]>> \in claimed[s] /\ nextRunAt'[t] = nextRunAt[t] + 1
            /\ \A o \in Occurrences : runs'[t][o] = runs[t][o] + IF o = nextRunAt[t] THEN 1 ELSE 0
         \/ /\ \A o \in Occurrences : <<t, o>> \notin claimed[s]
            /\ nextRunAt'[t] = nextRunAt[t]
            /\ \A o \in Occurrences : runs'[t][o] = runs[t][o]
  <1> USE ScheduleAssumption DEF ScheduleInv, ScheduleInvariant
  <1> DEFINE mine == {c \in claimed[s] : c[1] = t}
             one == CHOOSE c \in mine : TRUE
  <1>1. /\ nextRunAt'[t] = IF mine = {} THEN nextRunAt[t] ELSE one[2] + 1
        /\ \A o \in Occurrences : runs'[t][o] = runs[t][o] + IF <<t, o>> \in claimed[s] THEN 1 ELSE 0
    BY DEF Commit, CalculateNextScheduleRun
  <1>2. \A o \in Occurrences : <<t, o>> \in claimed[s] => o = nextRunAt[t] /\ <<t, o>> \in mine
    BY DEF PassOwnsRows
  <1>3. \A c \in mine : c = <<t, nextRunAt[t]>>
    <2>1. claimed[s] \subseteq Triggers \X Occurrences
      BY DEF ScheduleTypeOK
    <2> SUFFICES ASSUME NEW c \in mine PROVE c = <<t, nextRunAt[t]>>
      OBVIOUS
    <2>2. PICK u \in Triggers, o \in Occurrences : c = <<u, o>>
      BY <2>1
    <2> QED BY <1>2, <2>2
  <1>4. \A o \in Occurrences : runs[t][o] \in Nat
    BY DEF ScheduleTypeOK
  <1>5. mine # {} => one \in mine
    OBVIOUS
  <1>6. mine \subseteq claimed[s]
    OBVIOUS
  <1> HIDE DEF mine, one
  <1>7. CASE mine = {}
    <2>1. \A o \in Occurrences : <<t, o>> \notin claimed[s]
      BY <1>2, <1>7
    <2>2. nextRunAt'[t] = nextRunAt[t]
      BY <1>1, <1>7
    <2>3. \A o \in Occurrences : runs'[t][o] = runs[t][o]
      <3> SUFFICES ASSUME NEW o \in Occurrences PROVE runs'[t][o] = runs[t][o]
        OBVIOUS
      <3>1. runs'[t][o] = runs[t][o] + 0
        BY <1>1, <2>1
      <3> QED BY <1>4, <3>1
    <2> QED BY <2>1, <2>2, <2>3
  <1>8. CASE mine # {}
    <2>1. one = <<t, nextRunAt[t]>>
      BY <1>3, <1>5, <1>8
    <2>2. <<t, nextRunAt[t]>> \in claimed[s]
      BY <1>5, <1>6, <1>8, <2>1
    <2>3. nextRunAt'[t] = nextRunAt[t] + 1
      BY <1>1, <1>8, <2>1
    <2>4. \A o \in Occurrences : (<<t, o>> \in claimed[s]) <=> (o = nextRunAt[t])
      BY <1>2, <2>2
    <2> QED BY <1>1, <2>2, <2>3, <2>4
  <1> QED
    BY <1>7, <1>8

LEMMA CommitInv == ASSUME ScheduleInv, NEW s \in Schedulers, Commit(s) PROVE ScheduleInv'
  <1> USE ScheduleAssumption DEF ScheduleInv, ScheduleInvariant
  <1>1. Release(s) /\ UNCHANGED <<clock, enabled, toggles, claimFaults>>
    BY DEF Commit
  <1>2. \A t \in Triggers : <<t, nextRunAt[t]>> \in claimed[s] => nextRunAt[t] \in Occurrences /\ Owns(s, t)
    BY DEF ScheduleTypeOK, PassOwnsRows
  <1>3. \A t \in Triggers : nextRunAt'[t] \in 1..(MaxTime + 1)
    <2> SUFFICES ASSUME NEW t \in Triggers PROVE nextRunAt'[t] \in 1..(MaxTime + 1)
      OBVIOUS
    <2>1. nextRunAt[t] \in 1..(MaxTime + 1)
      BY DEF ScheduleTypeOK
    <2>2. \/ <<t, nextRunAt[t]>> \in claimed[s] /\ nextRunAt'[t] = nextRunAt[t] + 1
          \/ nextRunAt'[t] = nextRunAt[t]
      BY CommitFacts
    <2>3. <<t, nextRunAt[t]>> \in claimed[s] => nextRunAt[t] \in 1..MaxTime
      BY <1>2 DEF Occurrences
    <2> QED BY <2>1, <2>2, <2>3
  <1>4. \A t \in Triggers : \A o \in Occurrences : runs'[t][o] \in Nat /\ runs'[t][o] = IF o < nextRunAt'[t] THEN 1 ELSE 0
    <2> SUFFICES ASSUME NEW t \in Triggers, NEW o \in Occurrences
                 PROVE  runs'[t][o] = IF o < nextRunAt'[t] THEN 1 ELSE 0
      OBVIOUS
    <2>1. runs[t][o] = (IF o < nextRunAt[t] THEN 1 ELSE 0) /\ nextRunAt[t] \in Nat /\ o \in Nat
      BY DEF EachOccurrenceOnce, ScheduleTypeOK, Occurrences
    <2>2. \/ nextRunAt'[t] = nextRunAt[t] + 1 /\ runs'[t][o] = runs[t][o] + IF o = nextRunAt[t] THEN 1 ELSE 0
          \/ nextRunAt'[t] = nextRunAt[t] /\ runs'[t][o] = runs[t][o]
      BY CommitFacts
    <2> QED BY <2>1, <2>2
  <1>5. /\ nextRunAt' \in [Triggers -> 1..(MaxTime + 1)]
        /\ runs' \in [Triggers -> [Occurrences -> Nat]]
    BY <1>3, <1>4 DEF Commit
  <1>6. ScheduleTypeOK'
    BY <1>1, <1>5, ReleaseFacts DEF ScheduleTypeOK
  <1>7. EachOccurrenceOnce'
    BY <1>4 DEF EachOccurrenceOnce, Occurrences
  <1>8. \A u \in Schedulers \ {s} : \A t \in Triggers : Owns(u, t) => nextRunAt'[t] = nextRunAt[t] /\ Owns(u, t)'
    <2> SUFFICES ASSUME NEW u \in Schedulers \ {s}, NEW t \in Triggers, Owns(u, t)
                 PROVE  nextRunAt'[t] = nextRunAt[t] /\ Owns(u, t)'
      OBVIOUS
    <2>1. ~ Owns(s, t)
      BY DEF Owns
    <2>2. nextRunAt'[t] = nextRunAt[t]
      BY <1>2, <2>1, CommitFacts
    <2>3. trigLock'[t] = u /\ lock'[PipelineOf[t]] = u
      BY <1>1, ReleaseKeepsLocks
    <2> QED BY <1>1, <2>2, <2>3 DEF Owns
  <1>9. BatchStaysEligible' /\ PassOwnsRows'
    BY <1>1, <1>8, ReleaseFacts DEF BatchStaysEligible, PassOwnsRows
  <1> QED
    BY <1>6, <1>7, <1>9

LEMMA RollbackInv == ASSUME ScheduleInv, NEW s \in Schedulers, Rollback(s) PROVE ScheduleInv'
  <1> USE ScheduleAssumption DEF ScheduleInv, ScheduleInvariant
  <1>1. /\ Release(s) /\ UNCHANGED <<clock, enabled, nextRunAt, runs, toggles>>
        /\ claimFaults' \in 0..MaxClaimFaults
    BY DEF Rollback, rowVars, ScheduleTypeOK
  <1>2. ScheduleTypeOK' /\ EachOccurrenceOnce'
    BY <1>1, ReleaseFacts DEF ScheduleTypeOK, EachOccurrenceOnce
  <1>3. \A u \in Schedulers \ {s} : \A t \in Triggers : Owns(u, t) => Owns(u, t)'
    <2> SUFFICES ASSUME NEW u \in Schedulers \ {s}, NEW t \in Triggers, Owns(u, t) PROVE Owns(u, t)'
      OBVIOUS
    <2>1. trigLock'[t] = u /\ lock'[PipelineOf[t]] = u
      BY <1>1, ReleaseKeepsLocks
    <2> QED BY <1>1, <2>1 DEF Owns
  <1>4. BatchStaysEligible' /\ PassOwnsRows'
    BY <1>1, <1>3, ReleaseFacts DEF BatchStaysEligible, PassOwnsRows
  <1> QED
    BY <1>2, <1>4

LEMMA ScheduleNextInv == ASSUME ScheduleInv, [ScheduleNext]_scheduleVars PROVE ScheduleInv'
  <1>1. CASE UNCHANGED scheduleVars
    BY <1>1 DEF scheduleVars, ScheduleInv, ScheduleInvariant, ScheduleTypeOK, EachOccurrenceOnce,
      BatchStaysEligible, PassOwnsRows, Owns
  <1> QED
    BY <1>1, TickInv, ToggleInv, SelectDueInv, ClaimOneInv, CommitInv, RollbackInv DEF ScheduleNext, Pass

\* Every occurrence is claimed exactly once and no pass meets a pipeline that
\* was disabled under it, for any number of schedulers.
THEOREM OccurrencesClaimedOnce == ScheduleSpec => []ScheduleInvariant
  <1>1. ScheduleInv => ScheduleInvariant
    BY DEF ScheduleInv
  <1> QED
    BY <1>1, ScheduleInitInv, ScheduleNextInv, PTL DEF ScheduleSpec

\* Only a commit creates runs, of occurrences that its locks kept due.
LEMMA CommitsAreDue ==
  ASSUME ScheduleInv, [ScheduleNext]_scheduleVars
  PROVE  \A t \in Triggers : \A o \in Occurrences :
           runs'[t][o] # runs[t][o] => o <= clock /\ PipelineOf[t] \in enabled
  <1>1. CASE \E s \in Schedulers : Commit(s)
    <2>1. PICK s \in Schedulers : Commit(s)
      BY <1>1
    <2> SUFFICES ASSUME NEW t \in Triggers, NEW o \in Occurrences, runs'[t][o] # runs[t][o]
                 PROVE  o <= clock /\ PipelineOf[t] \in enabled
      OBVIOUS
    <2>2. runs[t][o] \in Nat
      BY DEF ScheduleInv, ScheduleInvariant, ScheduleTypeOK
    <2>3. <<t, nextRunAt[t]>> \in claimed[s] /\ o = nextRunAt[t]
      BY <2>1, <2>2, CommitFacts
    <2> QED BY <2>3 DEF ScheduleInv, PassOwnsRows, Owns
  <1>2. CASE ~ \E s \in Schedulers : Commit(s)
    BY <1>2 DEF ScheduleNext, scheduleVars, Tick, Toggle, Pass, SelectDue, ClaimOne, Rollback, rowVars
  <1> QED
    BY <1>1, <1>2

\* No run is created early or for a pipeline that is disabled at the commit.
THEOREM ClaimsAreDue == ScheduleSpec => RunsAreDue
  <1>1. ASSUME ScheduleInv, [ScheduleNext]_scheduleVars
        PROVE  [\A t \in Triggers : \A o \in Occurrences :
                  runs'[t][o] # runs[t][o] => o <= clock /\ PipelineOf[t] \in enabled]_scheduleVars
    BY <1>1, CommitsAreDue
  <1> QED
    BY <1>1, ScheduleInitInv, ScheduleNextInv, PTL DEF ScheduleSpec, RunsAreDue
=============================================================================

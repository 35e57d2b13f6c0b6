----------------------------- MODULE Retention -----------------------------
(***************************************************************************)
(* Retention: staged uploads of the web application (apps/web/src/uploads),*)
(* temporary Datasets and artifacts of runs, the retention queries         *)
(* (packages/database/src/retention.ts) and the garbage collector that     *)
(* removes files and rows (apps/garbage-collector/src).                    *)
(*                                                                         *)
(* A pass lists expired rows, then handles all of them concurrently: for   *)
(* each the file is removed first and its row second, by separate calls    *)
(* that may fail.  setInterval starts a pass while the previous one is     *)
(* still going and deployments may run several collectors, so passes       *)
(* overlap.                                                                *)
(***************************************************************************)
EXTENDS Naturals, FiniteSets

CONSTANTS
  Datasets, Artifacts, Uploads,  \* tracked objects: naturals in order of expiry
  Remote,                        \* objects whose storage_kind is 's3'
  Runs,                          \* naturals in order of expiry too
  RunOf,                         \* the run of a Dataset or an artifact
  Passes,                        \* cleanup passes that may overlap
  BatchSize,                     \* GC_BATCH_SIZE
  MaxPassFaults                      \* bound: storage or database calls that fail

Objects == Datasets \cup Artifacts \cup Uploads
RunObjects == Datasets \cup Artifacts

ASSUME RetentionAssumption ==
  /\ Objects \cup Runs \subseteq Nat
  /\ Datasets \cap Artifacts = {} /\ RunObjects \cap Uploads = {}
  /\ Remote \subseteq Objects
  /\ RunOf \in [RunObjects -> Runs]
  /\ BatchSize \in Nat \ {0}
  /\ MaxPassFaults \in Nat

VARIABLES
  row,       \* metadata row of an object
  files,     \* objects in storage
  run,       \* runs.state, with expires_at elapsed once "expired"
  children,  \* runs that have jobs and run_steps rows
  events,    \* runs that have operational_events rows
  saved,     \* uploads a saved pipeline configuration names
  claiming,  \* uploads whose save request has not yet called claimStagedUploads
  todo,      \* what a pass has still to do for an object: file, then row
  todoRuns,  \* runs a pass has listed and not yet handled
  pc,        \* where a pass is
  passFaults

retentionVars == <<row, files, run, children, events, saved, claiming, todo, todoRuns, pc, passFaults>>
passVars == <<todo, todoRuns, pc>>
uploadVars == <<saved, claiming>>
runVars == <<run, children, events>>

RowStates == {"none", "live", "expired", "gone"}
TerminalRun(r) == run[r] \in {"terminal", "expired"}

RetentionTypeOK ==
  /\ row \in [Objects -> RowStates]
  /\ files \subseteq Objects
  /\ run \in [Runs -> {"queued", "running", "terminal", "expired", "deleted"}]
  /\ children \subseteq Runs /\ events \subseteq Runs
  /\ saved \subseteq Uploads /\ claiming \subseteq saved
  /\ todo \in [Passes -> [Objects -> {"none", "file", "row"}]]
  /\ todoRuns \in [Passes -> SUBSET Runs]
  /\ pc \in [Passes -> {"idle", "objects", "runs"}]
  /\ passFaults \in 0..MaxPassFaults

Nothing == [o \in Objects |-> "none"]

RetentionInit ==
  /\ row = Nothing
  /\ files = {}
  /\ run = [r \in Runs |-> "queued"]
  /\ children = Runs /\ events = {}
  /\ saved = {} /\ claiming = {}
  /\ todo = [p \in Passes |-> Nothing]
  /\ todoRuns = [p \in Passes |-> {}]
  /\ pc = [p \in Passes |-> "idle"]
  /\ passFaults = 0

Fault == passFaults < MaxPassFaults /\ passFaults' = passFaults + 1

-----------------------------------------------------------------------------
(* Uploads: POST /api/uploads, then a save that names the file. *)

\* LocalImportStorage.store writes under a fresh name, or the request is refused.
StoreUpload(u) ==
  /\ u \in Uploads
  /\ row[u] = "none" /\ u \notin files
  /\ files' = files \cup {u}
  /\ UNCHANGED <<row, runVars, uploadVars, passVars, passFaults>>

\* The row follows the file; when it cannot be written the file stays untracked.
CreateStagedUpload(u) ==
  /\ u \in Uploads
  /\ row[u] = "none" /\ u \in files
  /\ row' = [row EXCEPT ![u] = "live"]
  /\ UNCHANGED <<files, runVars, uploadVars, passVars, passFaults>>

\* A pipeline is created or updated with the returned sourcePath; the browser
\* may hold on to it for as long as it likes.
SavePipeline(u) ==
  /\ u \in Uploads
  /\ row[u] # "none" /\ u \notin saved
  /\ saved' = saved \cup {u}
  /\ claiming' = claiming \cup {u}
  /\ UNCHANGED <<row, files, runVars, passVars, passFaults>>

\* The row is dropped whether or not its expiry has elapsed.
ClaimStagedUploads(u) == row' = [row EXCEPT ![u] = "gone"]

\* claimPipelineUploads swallows a failed claim: the save has succeeded.
ClaimUploads(u) ==
  /\ u \in claiming
  /\ claiming' = claiming \ {u}
  /\ \/ ClaimStagedUploads(u) /\ UNCHANGED passFaults
     \/ Fault /\ UNCHANGED row
  /\ UNCHANGED <<files, runVars, saved, passVars>>

-----------------------------------------------------------------------------
(* Runs and what they store. *)

StartRun(r) ==
  /\ run[r] = "queued"
  /\ run' = [run EXCEPT ![r] = "running"]
  /\ events' = events \cup {r}
  /\ UNCHANGED <<row, files, children, uploadVars, passVars, passFaults>>

\* A worker stores a Dataset or an artifact, then records it.
StoreObject(o) ==
  /\ o \in RunObjects
  /\ run[RunOf[o]] = "running" /\ row[o] = "none"
  /\ \/ o \notin files /\ files' = files \cup {o} /\ UNCHANGED row
     \/ o \in files /\ row' = [row EXCEPT ![o] = "live"] /\ UNCHANGED files
  /\ UNCHANGED <<runVars, uploadVars, passVars, passFaults>>

FinishRun(r) ==
  /\ run[r] = "running"
  /\ run' = [run EXCEPT ![r] = "terminal"]
  /\ UNCHANGED <<row, files, children, events, uploadVars, passVars, passFaults>>

\* _EXPIRE_RUN_DATASETS for a Dataset; the clock for everything else.
Expire(o) ==
  /\ row[o] = "live"
  /\ o \in Datasets => TerminalRun(RunOf[o])
  /\ row' = [row EXCEPT ![o] = "expired"]
  /\ UNCHANGED <<files, runVars, uploadVars, passVars, passFaults>>

\* The worker's own _cleanup_datasets, after it has set the expiry.
WorkerDeletes(d) ==
  /\ d \in Datasets \cap files /\ row[d] = "expired"
  /\ files' = files \ {d}
  /\ UNCHANGED <<row, runVars, uploadVars, passVars, passFaults>>

ExpireRun(r) ==
  /\ run[r] = "terminal"
  /\ run' = [run EXCEPT ![r] = "expired"]
  /\ UNCHANGED <<row, files, children, events, uploadVars, passVars, passFaults>>

-----------------------------------------------------------------------------
(* A cleanup pass. *)

\* ORDER BY expires_at LIMIT batchSize.
Oldest(S) == {o \in S : Cardinality({q \in S : q < o}) < BatchSize}

\* Faulty: an off-by-one that never reaches the last of a full batch.
ListExpiredShort(S) == {o \in Oldest({q \in S : row[q] = "expired"}) :
                          \E q \in S : row[q] = "expired" /\ q > o}

ListExpired(S) == Oldest({o \in S : row[o] = "expired"})

ListExpiredArtifacts == ListExpired(Artifacts)
ListExpiredStagedUploads == ListExpired(Uploads)

\* listExpiredDatasets joins the run, which must be terminal.
ListExpiredDatasets == ListExpired({d \in Datasets : TerminalRun(RunOf[d])})

\* listExpiredRuns.
ListExpiredRuns == Oldest({r \in Runs : run[r] = "expired"})

StartPass(p) ==
  /\ pc[p] = "idle"
  /\ LET listed == ListExpiredDatasets \cup ListExpiredArtifacts \cup ListExpiredStagedUploads
     IN  todo' = [todo EXCEPT ![p] = [o \in Objects |-> IF o \in listed THEN "file" ELSE "none"]]
  /\ pc' = [pc EXCEPT ![p] = "objects"]
  /\ UNCHANGED <<row, files, runVars, uploadVars, todoRuns, passFaults>>

\* Faulty: the metadata is removed although the storage call failed.
DeleteFileIgnoringFailure(p, o) ==
  /\ todo[p][o] = "file"
  /\ \/ /\ o \notin Remote
        /\ files' = files \ {o} /\ UNCHANGED passFaults
     \/ /\ o \notin Remote
        /\ Fault /\ UNCHANGED files
     \/ o \in Remote /\ UNCHANGED <<files, passFaults>>
  /\ todo' = [todo EXCEPT ![p][o] = "row"]
  /\ UNCHANGED <<row, runVars, uploadVars, todoRuns, pc>>

\* LocalRetentionStorage.delete: force makes a missing file no error.
StorageDelete(o) == o \notin Remote /\ files' = files \ {o}

\* cleanupRecords: a remote object is unsupported and skipped; a failure ends
\* the handling of this record only.
DeleteFile(p, o) ==
  /\ todo[p][o] = "file"
  /\ \/ /\ StorageDelete(o)
        /\ todo' = [todo EXCEPT ![p][o] = "row"]
        /\ UNCHANGED passFaults
     \/ /\ o \in Remote
        /\ todo' = [todo EXCEPT ![p][o] = "none"]
        /\ UNCHANGED <<files, passFaults>>
     \/ /\ o \notin Remote
        /\ Fault
        /\ todo' = [todo EXCEPT ![p][o] = "none"]
        /\ UNCHANGED files
  /\ UNCHANGED <<row, runVars, uploadVars, todoRuns, pc>>

\* deleteExpiredRecord: only a row that still exists and is still expired.
DeleteExpiredRecord(o) == row' = [row EXCEPT ![o] = IF @ = "expired" THEN "gone" ELSE @]

\* deleteExpiredDataset looks at the run again.
DeleteExpiredDataset(o) ==
  IF TerminalRun(RunOf[o]) THEN DeleteExpiredRecord(o) ELSE UNCHANGED row

DeleteRow(p, o) ==
  /\ todo[p][o] = "row"
  /\ todo' = [todo EXCEPT ![p][o] = "none"]
  /\ \/ /\ IF o \in Datasets THEN DeleteExpiredDataset(o) ELSE DeleteExpiredRecord(o)
        /\ UNCHANGED passFaults
     \/ Fault /\ UNCHANGED row
  /\ UNCHANGED <<files, runVars, uploadVars, todoRuns, pc>>

\* RetentionCleanup.run resolves, then ExecutionRetentionCleanup.run lists.
\* No code writes run_logs rows, so their deletion finds nothing.
ListRuns(p) ==
  /\ pc[p] = "objects" /\ todo[p] = Nothing
  /\ pc' = [pc EXCEPT ![p] = "runs"]
  /\ todoRuns' = [todoRuns EXCEPT ![p] = ListExpiredRuns]
  /\ UNCHANGED <<row, files, runVars, uploadVars, todo, passFaults>>

HasRows(S, r) == \E o \in S : RunOf[o] = r /\ row[o] \in {"live", "expired"}

\* One transaction.  Deleting jobs and steps raises while operational_events
\* or datasets rows reference them (ON DELETE RESTRICT); the run itself goes
\* only without artifacts.
DeleteRun(p, r) ==
  /\ r \in todoRuns[p]
  /\ todoRuns' = [todoRuns EXCEPT ![p] = @ \ {r}]
  /\ IF run[r] = "expired" /\ r \notin events /\ ~HasRows(Datasets, r)
       THEN /\ children' = children \ {r}
            /\ run' = [run EXCEPT ![r] = IF HasRows(Artifacts, r) THEN @ ELSE "deleted"]
       ELSE UNCHANGED <<children, run>>
  /\ UNCHANGED <<row, files, events, uploadVars, todo, pc, passFaults>>

EndPass(p) ==
  /\ pc[p] = "runs" /\ todoRuns[p] = {}
  /\ pc' = [pc EXCEPT ![p] = "idle"]
  /\ UNCHANGED <<row, files, runVars, uploadVars, todo, todoRuns, passFaults>>

-----------------------------------------------------------------------------
Collect(p) ==
  \/ StartPass(p)
  \/ \E o \in Objects : DeleteFile(p, o) \/ DeleteRow(p, o)
  \/ ListRuns(p)
  \/ \E r \in Runs : DeleteRun(p, r)
  \/ EndPass(p)

RetentionNext ==
  \/ \E o \in Objects :
       \/ StoreUpload(o) \/ CreateStagedUpload(o) \/ SavePipeline(o) \/ ClaimUploads(o)
       \/ StoreObject(o) \/ Expire(o) \/ WorkerDeletes(o)
  \/ \E r \in Runs : StartRun(r) \/ FinishRun(r) \/ ExpireRun(r)
  \/ \E p \in Passes : Collect(p)

RetentionSpec == RetentionInit /\ [][RetentionNext]_retentionVars

-----------------------------------------------------------------------------
(* Properties. *)

\* The file of a row whose expiry has not elapsed is never removed, however
\* passes overlap with uploads, claims and runs (listExpired*, cleanupRecords).
LiveRowHasFile == \A o \in Objects : row[o] = "live" => o \in files

\* The collector never loses track of a file: once a row is gone so is the
\* file, unless a pipeline claimed it (cleanupRecords removes the object first).
RemovedRowHasNoFile == \A o \in Objects : row[o] = "gone" /\ o \in files => o \in saved

\* A pass works only on objects whose retention had elapsed when it listed
\* them; what it lists stays expired until some pass or claim removes it.
PassesHandleExpired ==
  \A p \in Passes : \A o \in Objects : todo[p][o] # "none" => row[o] \in {"expired", "gone"}

\* Rows, files and the passes' lists agree, however passes overlap with uploads,
\* claims and runs.
RetentionInvariant ==
  RetentionTypeOK /\ LiveRowHasFile /\ RemovedRowHasNoFile /\ PassesHandleExpired

\* Every expired local object is eventually removed by repeated passes,
\* although calls fail: batches are taken oldest first.  Objects that no pass
\* can remove are listed again in every one, so less than a whole batch of them
\* may be older.
ExpiredIsCollected ==
  \A o \in Objects \ Remote :
    LET Ahead == {q \in Remote : q < o /\ \E S \in {Datasets, Artifacts, Uploads} : {q, o} \subseteq S}
    IN  Cardinality(Ahead) < BatchSize => (row[o] = "expired" ~> row[o] = "gone")

=============================================================================

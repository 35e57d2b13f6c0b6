-------------------------- MODULE WorkerExecution --------------------------
(***************************************************************************)
(* Worker processes that claim source jobs from PostgreSQL and execute the *)
(* persisted linear graph of one pipeline (workers/python/execution.py,    *)
(* job_queue.py, checkpoints.py, artifacts.py, storage.py, server.py).     *)
(*                                                                         *)
(* Every database call of WorkerExecutionService opens, commits and closes *)
(* its own transaction, so each is one action; a file operation is one     *)
(* action.  A call may raise: before its transaction commits, or after it, *)
(* in the operational event that a second transaction records.  A process  *)
(* may stop between any two calls.                                         *)
(***************************************************************************)
EXTENDS Naturals, FiniteSets

CONSTANTS
  Workers,      \* worker ids; a restarted process draws a fresh uuid4
  Nobody,       \* SQL NULL in jobs.worker_id
  NRuns,        \* the runs of the pipeline, in the order they are made active
  NSteps,       \* components of the chain: 1 is the Source, NSteps the Export
  TableRuns,    \* the runs whose Export writes a table and publishes no artifact
  MaxAttempts,  \* jobs.retry_max_attempts
  MaxFaults,    \* bound: calls that raise
  MaxStops      \* bound: processes that are told to stop or die without notice

ASSUME ConstantsAssumption ==
  /\ Nobody \notin Workers
  /\ NRuns \in Nat
  /\ NSteps \in Nat \ {0, 1}
  /\ TableRuns \subseteq 1..NRuns
  /\ MaxAttempts \in Nat \ {0}
  /\ MaxFaults \in Nat
  /\ MaxStops \in Nat

Runs == 1..NRuns
Steps == 1..NSteps

VARIABLES
  \* committed rows
  run,         \* runs.state, "waiting" before the run is made active
  step,        \* run_steps.state
  job,         \* the run's source job: state, worker_id, attempt
  rows,        \* datasets rows, identified by run, attempt and step
  expired,     \* those whose expires_at is set
  artifacts,   \* artifacts rows, identified by run and attempt
  checkpoint,  \* source_checkpoints.checkpoint: the run whose position it is, 0 if none
  \* files under the storage root
  files,       \* temporary Dataset files
  outputs,     \* finalized artifact files
  \* the destination database of a table Export
  delivered,   \* its committed transactions, identified by run and attempt
  \* worker memory
  pc,          \* the next call of run_once
  at,          \* the run of the claimed job, 0 if none
  cur,         \* `current`: the component being executed, 0 for None
  held,        \* `datasets`: descriptors produced by this attempt
  candidate,   \* the run has a proposed checkpoint candidate
  stopped,     \* the shutdown event is set
  \* bookkeeping
  loaded,      \* the checkpoint a run's Source last started from
  faults,
  stops

rowVars == <<run, step, job, rows, expired, artifacts, checkpoint>>
fileVars == <<files, outputs, delivered>>
memVars == <<at, cur, held, candidate>>
boundVars == <<faults, stops>>
vars == <<rowVars, fileVars, memVars, pc, stopped, loaded, boundVars>>

\* run_once inside its try block, its success epilogue and _handle_failure.
TryCalls == {"load_plan", "start_run", "start_step", "execute", "record_dataset",
             "record_artifact", "succeed_step", "finish_success"}
EpilogueCalls == {"commit", "expire", "delete"}
HandlerCalls == {"fail", "finish_failure", "expire_failed", "delete_failed"}
Busy == TryCalls \cup EpilogueCalls \cup HandlerCalls

RunStates == {"waiting", "queued", "running", "succeeded", "failed"}
Terminal == {"succeeded", "failed"}
DatasetId == Runs \X (1..MaxAttempts) \X Steps
ArtifactId == Runs \X (1..MaxAttempts)

Attempt(w) == job[at[w]].attempt
Dataset(w) == <<at[w], Attempt(w), cur[w]>>
RowsOf(r) == {d \in rows : d[1] = r}
Owns(w, r) == job[r].state = "running" /\ job[r].worker = w

TypeOK ==
  /\ run \in [Runs -> RunStates]
  /\ step \in [Runs -> [Steps -> {"queued", "running", "succeeded", "failed"}]]
  /\ job \in [Runs -> [state : {"none", "queued", "running", "succeeded", "failed"},
                       worker : Workers \cup {Nobody}, attempt : 0..MaxAttempts]]
  /\ rows \subseteq DatasetId
  /\ expired \subseteq rows
  /\ artifacts \subseteq ArtifactId
  /\ checkpoint \in 0..NRuns
  /\ files \subseteq DatasetId
  /\ outputs \subseteq ArtifactId
  /\ delivered \subseteq ArtifactId
  /\ pc \in [Workers -> Busy \cup {"idle", "dead"}]
  /\ at \in [Workers -> 0..NRuns]
  /\ cur \in [Workers -> 0..NSteps]
  /\ held \in [Workers -> SUBSET DatasetId]
  /\ candidate \in [Workers -> BOOLEAN]
  /\ stopped \in [Workers -> BOOLEAN]
  /\ loaded \in [Runs -> 0..NRuns]
  /\ faults \in 0..MaxFaults
  /\ stops \in 0..MaxStops

Init ==
  /\ run = [r \in Runs |-> "waiting"]
  /\ step = [r \in Runs |-> [s \in Steps |-> "queued"]]
  /\ job = [r \in Runs |-> [state |-> "none", worker |-> Nobody, attempt |-> 0]]
  /\ rows = {} /\ expired = {} /\ artifacts = {} /\ checkpoint = 0
  /\ files = {} /\ outputs = {} /\ delivered = {}
  /\ pc = [w \in Workers |-> "idle"]
  /\ at = [w \in Workers |-> 0]
  /\ cur = [w \in Workers |-> 0]
  /\ held = [w \in Workers |-> {}]
  /\ candidate = [w \in Workers |-> FALSE]
  /\ stopped = [w \in Workers |-> FALSE]
  /\ loaded = [r \in Runs |-> 0]
  /\ faults = 0 /\ stops = 0

-----------------------------------------------------------------------------
(* Control flow of a call: it returns, it raises, or it raises in the      *)
(* operational event recorded after its transaction committed.             *)

Goto(w, l) == pc' = [pc EXCEPT ![w] = l]

\* Where an exception leads: run_once's except clause, or out of the loop
\* when _handle_failure itself raises, which ends the executor thread.
Except(l) == IF l \in HandlerCalls THEN "dead" ELSE "fail"

Raise(w) ==
  /\ faults < MaxFaults
  /\ faults' = faults + 1
  /\ Goto(w, Except(pc[w]))
  /\ UNCHANGED stops

Return(w, l) == Goto(w, l) /\ UNCHANGED boundVars

\* The call committed; then its event is recorded, or recording it raises.
ReturnOrRaise(w, l) == Return(w, l) \/ Raise(w)

\* run_once returns and forgets the job.
Done(w) ==
  /\ at' = [at EXCEPT ![w] = 0]
  /\ cur' = [cur EXCEPT ![w] = 0]
  /\ held' = [held EXCEPT ![w] = {}]
  /\ candidate' = [candidate EXCEPT ![w] = FALSE]

\* Any call may fail without having had an effect; publish cleans up first.
CallRaises(w) ==
  /\ pc[w] \in Busy \ {"record_artifact"}
  /\ Raise(w)
  /\ UNCHANGED <<rowVars, fileVars, memVars, stopped, loaded>>

-----------------------------------------------------------------------------
(* The claim. *)

\* The scheduler makes the next run active once the one before is terminal.
Activate(r) ==
  /\ run[r] = "waiting"
  /\ \A q \in 1..(r - 1) : run[q] \in Terminal
  /\ run' = [run EXCEPT ![r] = "queued"]
  /\ job' = [job EXCEPT ![r].state = "queued"]
  /\ UNCHANGED <<step, rows, expired, artifacts, checkpoint, fileVars, memVars,
                 pc, stopped, loaded, boundVars>>

\* _CLAIM_NEXT: WHERE state = 'queued'; an uncommitted claim is skipped.
Claimable(r) == job[r].state = "queued"

ClaimNext(w) ==
  /\ pc[w] = "idle" /\ ~stopped[w]
  /\ \E r \in Runs :
       /\ Claimable(r)
       /\ job' = [job EXCEPT ![r] = [state |-> "running", worker |-> w,
                                     attempt |-> @.attempt + 1]]
       /\ at' = [at EXCEPT ![w] = r]
  /\ Return(w, "load_plan")
  /\ UNCHANGED <<run, step, rows, expired, artifacts, checkpoint, fileVars,
                 cur, held, candidate, stopped, loaded>>

-----------------------------------------------------------------------------
(* The try block of run_once. *)

LoadPlan(w) ==
  /\ pc[w] = "load_plan"
  /\ Return(w, "start_run")
  /\ UNCHANGED <<rowVars, fileVars, memVars, stopped, loaded>>

StartRun(w) ==
  /\ pc[w] = "start_run"
  /\ run' = [run EXCEPT ![at[w]] = IF @ = "queued" THEN "running" ELSE @]
  /\ \/ Return(w, "start_step") /\ cur' = [cur EXCEPT ![w] = 1]
     \/ Raise(w) /\ UNCHANGED cur
  /\ UNCHANGED <<step, job, rows, expired, artifacts, checkpoint, fileVars,
                 at, held, candidate, stopped, loaded>>

StartStep(w) ==
  /\ pc[w] = "start_step"
  /\ step' = [step EXCEPT ![at[w]][cur[w]] = IF @ = "queued" THEN "running" ELSE @]
  /\ ReturnOrRaise(w, "execute")
  /\ UNCHANGED <<run, job, rows, expired, artifacts, checkpoint, fileVars,
                 memVars, stopped, loaded>>

\* Acquisition starts from the last committed checkpoint.
LoadCheckpoint(w) == loaded' = [loaded EXCEPT ![at[w]] = checkpoint]

\* SourceCheckpointLifecycle.propose keeps a candidate in memory.
Propose(w) == candidate' = [candidate EXCEPT ![w] = TRUE]

\* discard_run forgets it.
Discard(w) == candidate' = [candidate EXCEPT ![w] = FALSE]

\* Faulty: propose() advances the durable checkpoint.
ExecuteSourceAdvances(w) ==
  /\ pc[w] = "execute" /\ cur[w] = 1
  /\ LoadCheckpoint(w)
  /\ checkpoint' = at[w]
  /\ Propose(w)
  /\ files' = files \cup {Dataset(w)}
  /\ held' = [held EXCEPT ![w] = @ \cup {Dataset(w)}]
  /\ Return(w, "record_dataset")
  /\ UNCHANGED <<run, step, job, rows, expired, artifacts, outputs, delivered, at, cur, stopped>>

\* The Source reads the checkpoint, acquires, proposes its next position and
\* stores its Dataset with one atomic rename.
ExecuteSource(w) ==
  /\ pc[w] = "execute" /\ cur[w] = 1
  /\ LoadCheckpoint(w)
  /\ Propose(w)
  /\ files' = files \cup {Dataset(w)}
  /\ held' = [held EXCEPT ![w] = @ \cup {Dataset(w)}]
  /\ Return(w, "record_dataset")
  /\ UNCHANGED <<rowVars, outputs, delivered, at, cur, stopped>>

ExecuteTransform(w) ==
  /\ pc[w] = "execute" /\ cur[w] \in 2..(NSteps - 1)
  /\ files' = files \cup {Dataset(w)}
  /\ held' = [held EXCEPT ![w] = @ \cup {Dataset(w)}]
  /\ Return(w, "record_dataset")
  /\ UNCHANGED <<rowVars, outputs, delivered, at, cur, candidate, stopped, loaded>>

\* A file Export finalizes its file, and only then records it.
ExecuteFileExport(w) ==
  /\ pc[w] = "execute" /\ cur[w] = NSteps /\ at[w] \notin TableRuns
  /\ outputs' = outputs \cup {<<at[w], Attempt(w)>>}
  /\ Return(w, "record_artifact")
  /\ UNCHANGED <<rowVars, files, delivered, memVars, stopped, loaded>>

\* A table Export replaces or appends rows in one transaction and returns None;
\* the answer to its commit may be lost.
ExecuteTableExport(w) ==
  /\ pc[w] = "execute" /\ cur[w] = NSteps /\ at[w] \in TableRuns
  /\ delivered' = delivered \cup {<<at[w], Attempt(w)>>}
  /\ ReturnOrRaise(w, "succeed_step")
  /\ UNCHANGED <<rowVars, files, outputs, memVars, stopped, loaded>>

\* Faulty: a publisher that swallows the metadata failure.
RecordArtifactSwallows(w) ==
  /\ pc[w] = "record_artifact"
  /\ \/ /\ artifacts' = artifacts \cup {<<at[w], Attempt(w)>>}
        /\ UNCHANGED outputs
     \/ /\ outputs' = outputs \ {<<at[w], Attempt(w)>>}
        /\ UNCHANGED artifacts
  /\ Return(w, "succeed_step")
  /\ UNCHANGED <<run, step, job, rows, expired, checkpoint, files, delivered, memVars,
                 stopped, loaded>>

\* publish: metadata that cannot be recorded takes the finalized file with it.
RecordArtifact(w) ==
  /\ pc[w] = "record_artifact"
  /\ \/ /\ artifacts' = artifacts \cup {<<at[w], Attempt(w)>>}
        /\ Return(w, "succeed_step")
        /\ UNCHANGED outputs
     \/ /\ Raise(w)
        /\ outputs' = outputs \ {<<at[w], Attempt(w)>>}
        /\ UNCHANGED artifacts
     \/ /\ faults + 1 < MaxFaults    \* the cleanup fails as well
        /\ faults' = faults + 2
        /\ Goto(w, "fail")
        /\ UNCHANGED <<artifacts, outputs, stops>>
  /\ UNCHANGED <<run, step, job, rows, expired, checkpoint, files, delivered, memVars,
                 stopped, loaded>>

RecordDataset(w) ==
  /\ pc[w] = "record_dataset"
  /\ rows' = rows \cup {Dataset(w)}
  /\ Return(w, "succeed_step")
  /\ UNCHANGED <<run, step, job, expired, artifacts, checkpoint, fileVars,
                 memVars, stopped, loaded>>

\* The loop goes on to the next component, after the last one to finish_success.
MarkStepSucceeded(w) ==
  /\ pc[w] = "succeed_step"
  /\ step' = [step EXCEPT ![at[w]][cur[w]] = IF @ = "running" THEN "succeeded" ELSE @]
  /\ \/ /\ cur[w] < NSteps
        /\ Return(w, "start_step")
        /\ cur' = [cur EXCEPT ![w] = @ + 1]
     \/ /\ cur[w] = NSteps
        /\ Return(w, "finish_success")
        /\ UNCHANGED cur
     \/ Raise(w) /\ UNCHANGED cur
  /\ UNCHANGED <<run, job, rows, expired, artifacts, checkpoint, fileVars,
                 at, held, candidate, stopped, loaded>>

\* _SUCCEED_JOB and _SUCCEED_RUN must each update one row, else both roll back.
MaySucceed(w) ==
  /\ Owns(w, at[w])
  /\ run[at[w]] = "running"
  /\ \A s \in Steps : step[at[w]][s] = "succeeded"

FinishSuccess(w) ==
  /\ pc[w] = "finish_success"
  /\ \/ /\ MaySucceed(w)
        /\ job' = [job EXCEPT ![at[w]].state = "succeeded", ![at[w]].worker = Nobody]
        /\ run' = [run EXCEPT ![at[w]] = "succeeded"]
        /\ ReturnOrRaise(w, "commit")
     \/ /\ ~MaySucceed(w)
        /\ Return(w, "fail")
        /\ UNCHANGED <<job, run>>
  /\ UNCHANGED <<step, rows, expired, artifacts, checkpoint, fileVars, memVars,
                 stopped, loaded>>

-----------------------------------------------------------------------------
(* The success epilogue, still inside the try block. *)

\* The upsert selects the run's row and stores nothing unless it succeeded.
CommitIfRunSucceeded(w) ==
  checkpoint' = IF run[at[w]] = "succeeded" THEN at[w] ELSE checkpoint

CommitCheckpoint(w) ==
  /\ pc[w] = "commit"
  /\ IF candidate[w] THEN CommitIfRunSucceeded(w) ELSE UNCHANGED checkpoint
  /\ Return(w, "expire")
  /\ UNCHANGED <<run, step, job, rows, expired, artifacts, fileVars, memVars,
                 stopped, loaded>>

MarkCleanupEligible(w) ==
  /\ pc[w] \in {"expire", "expire_failed"}
  /\ expired' = expired \cup RowsOf(at[w])
  /\ Return(w, IF pc[w] = "expire" THEN "delete" ELSE "delete_failed")
  /\ UNCHANGED <<run, step, job, rows, artifacts, checkpoint, fileVars, memVars,
                 stopped, loaded>>

\* A missing file is no error; a failure may leave any of the files behind.
DeleteDatasets(w) ==
  /\ pc[w] \in {"delete", "delete_failed"}
  /\ \/ /\ files' = files \ held[w]
        /\ Return(w, "idle")
        /\ Done(w)
     \/ /\ \E kept \in SUBSET held[w] : files' = files \ (held[w] \ kept)
        /\ Raise(w)
        /\ UNCHANGED memVars
  /\ UNCHANGED <<rowVars, outputs, delivered, stopped, loaded>>

-----------------------------------------------------------------------------
(* _handle_failure. *)

\* Faulty: fail() touches no row, the claim is kept.
FailRowKept(r, w) == job[r]

\* _FAIL_OR_REQUEUE; no row when this worker no longer runs the job.
FailRow(r, w) ==
  IF Owns(w, r)
    THEN [state |-> IF job[r].attempt < MaxAttempts THEN "queued" ELSE "failed",
          worker |-> Nobody, attempt |-> job[r].attempt]
    ELSE job[r]

HandleFailure(w) ==
  /\ pc[w] = "fail"
  /\ job' = [job EXCEPT ![at[w]] = FailRow(at[w], w)]
  /\ IF job'[at[w]] # job[at[w]] /\ job'[at[w]].state = "failed" /\ cur[w] # 0
       THEN /\ Return(w, "finish_failure")
            /\ Discard(w)
            /\ UNCHANGED <<at, cur, held>>
       ELSE Return(w, "idle") /\ Done(w)
  /\ UNCHANGED <<run, step, rows, expired, artifacts, checkpoint, fileVars,
                 stopped, loaded>>

\* _FAIL_STEP, _FAIL_RUN and _EXPIRE_RUN_DATASETS in one transaction.
FinishFailure(w) ==
  /\ pc[w] = "finish_failure"
  /\ step' = [step EXCEPT ![at[w]][cur[w]] = IF @ \in {"queued", "running"} THEN "failed" ELSE @]
  /\ run' = [run EXCEPT ![at[w]] = IF @ \in {"queued", "running"} THEN "failed" ELSE @]
  /\ expired' = expired \cup RowsOf(at[w])
  /\ ReturnOrRaise(w, "expire_failed")
  /\ UNCHANGED <<job, rows, artifacts, checkpoint, fileVars, memVars,
                 stopped, loaded>>

-----------------------------------------------------------------------------
(* Shutdown and crash. *)

\* SIGTERM: the loop claims nothing more.
Stop(w) ==
  /\ ~stopped[w] /\ pc[w] # "dead"
  /\ stops < MaxStops
  /\ stops' = stops + 1
  /\ stopped' = [stopped EXCEPT ![w] = TRUE]
  /\ UNCHANGED <<rowVars, fileVars, memVars, pc, loaded, faults>>

\* run_server returns once its loop ends, or when join() times out: the
\* executor is a daemon thread and dies with the process, job or no job.
Exit(w) ==
  /\ stopped[w] /\ pc[w] # "dead"
  /\ Return(w, "dead")
  /\ UNCHANGED <<rowVars, fileVars, memVars, stopped, loaded>>

\* The process dies without notice; nothing reclaims its job.
Crash(w) ==
  /\ pc[w] \in Busy
  /\ stops < MaxStops
  /\ stops' = stops + 1
  /\ Goto(w, "dead")
  /\ UNCHANGED <<rowVars, fileVars, memVars, stopped, loaded, faults>>

-----------------------------------------------------------------------------
RunOnce(w) ==
  \/ LoadPlan(w) \/ StartRun(w) \/ StartStep(w)
  \/ ExecuteSource(w) \/ ExecuteTransform(w)
  \/ ExecuteFileExport(w) \/ ExecuteTableExport(w)
  \/ RecordArtifact(w) \/ RecordDataset(w) \/ MarkStepSucceeded(w)
  \/ FinishSuccess(w) \/ CommitCheckpoint(w)
  \/ MarkCleanupEligible(w) \/ DeleteDatasets(w)
  \/ HandleFailure(w) \/ FinishFailure(w)

Next ==
  \/ \E r \in Runs : Activate(r)
  \/ \E w \in Workers :
       \/ ClaimNext(w) \/ RunOnce(w) \/ CallRaises(w)
       \/ Stop(w) \/ Exit(w) \/ Crash(w)

\* A worker thread keeps executing the statements of run_once.
Fairness ==
  /\ \A r \in Runs : WF_vars(Activate(r))
  /\ \A w \in Workers : WF_vars(ClaimNext(w)) /\ WF_vars(RunOnce(w))

Spec == Init /\ [][Next]_vars
FairSpec == Spec /\ Fairness

-----------------------------------------------------------------------------
(* Properties. *)

\* A worker inside the try block still owns the job it claimed: no second
\* worker executes the same run, whatever failed, was requeued or crashed
\* (run_once, _CLAIM_NEXT, _FAIL_OR_REQUEUE).
WorkersOwnTheirRun ==
  \A w \in Workers : pc[w] \in TryCalls => at[w] \in Runs /\ Owns(w, at[w])

\* The last attempt of a run delivered its output: the artifact is recorded, or
\* the transaction on the destination table committed.
Delivered(r) == <<r, job[r].attempt>> \in IF r \in TableRuns THEN delivered ELSE artifacts

\* A run recorded as succeeded has every step succeeded, a succeeded job and
\* the output of the very attempt that succeeded (finish_success), although the
\* step rows may have been marked by an earlier attempt: the artifact its Export
\* published, or for an Export that returns none the rows it committed.
SuccessIsComplete ==
  \A r \in Runs : run[r] = "succeeded" =>
    /\ job[r].state = "succeeded"
    /\ \A s \in Steps : step[r][s] = "succeeded"
    /\ Delivered(r)

\* The durable checkpoint is always the position of a run that succeeded
\* (commit_if_run_succeeded), however late the commit comes, and a Source only
\* ever started from the position of an earlier run that succeeded.
CheckpointAfterSuccess ==
  /\ checkpoint # 0 => run[checkpoint] = "succeeded"
  /\ \A r \in Runs : loaded[r] # 0 => loaded[r] < r /\ run[loaded[r]] = "succeeded"

\* A failed run leaves no Dataset row the garbage collector cannot see as
\* expired, although workers record rows concurrently (finish_failure).
FailedRunExpiresDatasets == \A r \in Runs : run[r] = "failed" => RowsOf(r) \subseteq expired

\* One failing call never orphans a finalized artifact file: it has its
\* metadata row, or a worker is about to record or remove it; only a crash or
\* a failure of the cleanup too can leave one behind (ArtifactPublisher.publish).
ArtifactFilesAccounted ==
  faults <= 1 =>
    \A o \in outputs :
      \/ o \in artifacts
      \/ \E w \in Workers : at[w] = o[1] /\ pc[w] \in {"record_artifact", "dead"}

\* What workers share stays consistent: the rows have their types, a run has
\* one worker, a succeeded run is complete, and neither Datasets of failed runs
\* nor artifact files get lost.
WorkerInvariant ==
  /\ TypeOK /\ WorkersOwnTheirRun /\ SuccessIsComplete
  /\ FailedRunExpiresDatasets /\ ArtifactFilesAccounted

\* A worker that neither crashes nor loses the database inside its failure
\* handler always hands its job over: succeeded, failed or queued again.
ClaimedJobEnds ==
  \A w \in Workers : \A r \in Runs : (Owns(w, r) /\ pc[w] # "dead") ~> (~Owns(w, r) \/ pc[w] = "dead")

=============================================================================

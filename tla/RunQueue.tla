------------------------------ MODULE RunQueue ------------------------------
(***************************************************************************)
(* The persisted run queue: how scheduler transactions create and promote  *)
(* runs (apps/scheduler/src/run-queue.ts), how the control plane edits a   *)
(* pipeline meanwhile (packages/database/src/pipelines), and what workers  *)
(* do to a run's row (workers/python/execution.py).                        *)
(*                                                                         *)
(* Scheduler transactions run at READ COMMITTED and are modelled statement *)
(* by statement: each statement sees what is committed when it starts plus *)
(* the transaction's own writes, an updated or SELECT ... FOR UPDATE row   *)
(* stays locked until commit, and a wait cycle makes PostgreSQL abort one  *)
(* of its members.  Web and worker transactions touch one pipeline row or  *)
(* one run row between their lock and their commit and are single actions  *)
(* that wait for that row.                                                 *)
(***************************************************************************)
EXTENDS Naturals, FiniteSets

CONSTANTS
  Pipelines,       \* pipeline ids
  Runs,            \* run ids (gen_random_uuid, so a run id is never reused)
  PipelineOf,      \* the pipeline a run request names
  ScheduledFor,    \* the occurrence a request was made for, NotScheduled if manual
  NotScheduled,    \* SQL NULL in runs.scheduled_for
  Creators,        \* connections executing createPipelineRun
  Promoters,       \* connections executing promoteQueuedPipelineRuns
  Nobody,          \* no transaction, no pipeline, no run
  PromotionLimit,  \* DEFAULT_QUEUED_RUN_PROMOTION_LIMIT
  Graphs,          \* pipeline graphs validatePipelineGraph accepts
  Executable,      \* those assertPipelineExecutable accepts too
  MaxClock         \* bound: how many run requests are made

Txns == Creators \cup Promoters

ASSUME ConstantsAssumption ==
  /\ PipelineOf \in [Runs -> Pipelines]
  /\ ScheduledFor \in [Runs -> Nat \cup {NotScheduled}]
  /\ NotScheduled \notin Nat
  /\ Creators \cap Promoters = {}
  /\ Nobody \notin Txns \cup Pipelines \cup Runs
  /\ PromotionLimit \in Nat \ {0}
  /\ Executable \subseteq Graphs
  /\ MaxClock \in Nat

VARIABLES
  \* committed rows
  pipelineState,   \* pipelines.state, "deleted" once the row is gone
  graph,           \* pipeline_components and pipeline_edges of a pipeline
  runState,        \* runs.state, "none" before the row exists
  isActive,        \* the runs whose is_active column is true
  createdAt,       \* runs.created_at
  jobs,            \* run_steps and the source job of a run, with the job's state;
                   \* "failing": failed, and its worker will fail the run next
  clock,           \* the wall clock that gives each request its "now"
  \* row locks
  pipelineLock,    \* who holds the FOR UPDATE lock of a pipelines row
  runLock,         \* who holds the row lock of a runs row
  \* scheduler transactions
  pc,              \* the statement a transaction executes next
  request,         \* the run a creator is creating
  batch,           \* terminal active runs a promoter has selected and not handled
  current,         \* the pipeline whose row a transaction locks or has locked
  targets,         \* rows its "SET is_active = false" statement matched
  released,        \* own uncommitted writes: rows set inactive ...
  promoted,        \* ... and rows set active
  foundActive,     \* what findActiveRun returned
  \* history
  queuedGraph      \* the graph a run was enqueued against

rows == <<pipelineState, graph, runState, isActive, createdAt, jobs>>
locks == <<pipelineLock, runLock>>
txn == <<pc, request, batch, current, targets, released, promoted, foundActive>>
vars == <<rows, clock, locks, txn, queuedGraph>>

-----------------------------------------------------------------------------
(* Rows and views *)

activeRunStates == {"queued", "running"}
terminalRunStates == {"succeeded", "completed_with_warnings", "failed", "cancelled"}

RunsOf(p) == {r \in Runs : PipelineOf[r] = p}

\* runs.is_active as transaction t sees it: committed rows and its own writes.
ActiveView(t) == (isActive \ released[t]) \cup promoted[t]

\* What findActiveRun and runs_one_active_pipeline_index look at.
ActiveIn(active, p) == {r \in active : PipelineOf[r] = p /\ runState[r] \in activeRunStates}

ActiveRuns(p) == ActiveIn(isActive, p)

WaitingView(t, p) == {r \in RunsOf(p) : runState[r] = "queued" /\ r \notin ActiveView(t)}

WaitingRuns(p) == {r \in RunsOf(p) : runState[r] = "queued" /\ r \notin isActive}

TerminalActive == {r \in isActive : runState[r] \in terminalRunStates}

\* ORDER BY scheduled_for ASC, created_at ASC: PostgreSQL sorts NULL last.
Precedes(r, s) ==
  \/ /\ ScheduledFor[r] # NotScheduled
     /\ ScheduledFor[s] = NotScheduled
  \/ /\ ScheduledFor[r] # NotScheduled
     /\ ScheduledFor[s] # NotScheduled
     /\ ScheduledFor[r] < ScheduledFor[s]
  \/ /\ ScheduledFor[r] = ScheduledFor[s]
     /\ createdAt[r] < createdAt[s]

\* Faulty: descending order, so the newest waiting run is taken.
NewestOf(S) == {r \in S : \A s \in S \ {r} : Precedes(s, r)}

\* LIMIT 1 of that order.
OldestOf(S) == {r \in S : \A s \in S \ {r} : Precedes(r, s)}

\* The edit lock: any queued or running run, active or waiting.
BlockingRuns(p) == {r \in RunsOf(p) : runState[r] \in activeRunStates}

Free(lock, t) == lock \in {Nobody, t}

-----------------------------------------------------------------------------
(* Ending a transaction *)

\* The parts of a commit and of a rollback that are the same.
EndTxn(t) ==
  /\ pc' = [pc EXCEPT ![t] = "idle"]
  /\ request' = [request EXCEPT ![t] = Nobody]
  /\ batch' = [batch EXCEPT ![t] = {}]
  /\ current' = [current EXCEPT ![t] = Nobody]
  /\ targets' = [targets EXCEPT ![t] = {}]
  /\ released' = [released EXCEPT ![t] = {}]
  /\ promoted' = [promoted EXCEPT ![t] = {}]
  /\ foundActive' = [foundActive EXCEPT ![t] = FALSE]
  /\ pipelineLock' = [p \in Pipelines |-> IF pipelineLock[p] = t THEN Nobody ELSE pipelineLock[p]]
  /\ runLock' = [r \in Runs |-> IF runLock[r] = t THEN Nobody ELSE runLock[r]]

Rollback(t) == EndTxn(t) /\ UNCHANGED <<rows, clock, queuedGraph>>

-----------------------------------------------------------------------------
(* createPipelineRun *)

\* runPipelineForOwner's unlocked read finds the pipeline enabled; the request's
\* "now" is taken before any lock.  A request of claimDueSchedules is the case
\* in which nothing happens before CreateLock: its join has locked the row.
BeginCreate(t, r) ==
  /\ pc[t] = "idle"
  /\ pipelineState[PipelineOf[r]] = "enabled"
  /\ runState[r] = "none"
  /\ \A u \in Creators : request[u] # r
  /\ clock < MaxClock
  /\ clock' = clock + 1
  /\ createdAt' = [createdAt EXCEPT ![r] = clock]
  /\ pc' = [pc EXCEPT ![t] = "lock"]
  /\ request' = [request EXCEPT ![t] = r]
  /\ current' = [current EXCEPT ![t] = PipelineOf[r]]
  /\ UNCHANGED <<pipelineState, graph, runState, isActive, jobs, locks, batch, targets,
                 released, promoted, foundActive, queuedGraph>>

\* Faulty: the release statement lost its terminal-state condition.
LockRowAnyState(t) ==
  LET p == current[t] IN
  /\ Free(pipelineLock[p], t)
  /\ pipelineLock' = [pipelineLock EXCEPT ![p] = t]
  /\ targets' = [targets EXCEPT ![t] = {r \in ActiveView(t) : PipelineOf[r] = p}]
  /\ pc' = [pc EXCEPT ![t] = "release"]
  /\ UNCHANGED <<rows, clock, runLock, request, batch, current, released, promoted,
                 foundActive, queuedGraph>>

\* SELECT ... FROM pipelines FOR UPDATE, and the scan of the UPDATE that
\* follows it: the rows it matches are those its snapshot shows as active and
\* terminal.
LockRow(t) ==
  LET p == current[t] IN
  /\ Free(pipelineLock[p], t)
  /\ pipelineLock' = [pipelineLock EXCEPT ![p] = t]
  /\ targets' = [targets EXCEPT ![t] = {r \in ActiveView(t) : PipelineOf[r] = p
                                         /\ runState[r] \in terminalRunStates}]
  /\ pc' = [pc EXCEPT ![t] = "release"]
  /\ UNCHANGED <<rows, clock, runLock, request, batch, current, released, promoted,
                 foundActive, queuedGraph>>

\* assertPipelineCanCreateRun under the lock; not_found and not_enabled roll back.
CreateLock(t) ==
  /\ pc[t] = "lock"
  /\ IF pipelineState[current[t]] = "enabled"
     THEN LockRow(t)
     ELSE Free(pipelineLock[current[t]], t) /\ Rollback(t)

\* UPDATE runs SET is_active = false, row by row: waits for a matched row
\* that another transaction has locked and updates it if it still matches.
ReleaseTerminal(t, next) ==
  /\ pc[t] = "release"
  /\ \/ /\ targets[t] = {}
        /\ pc' = [pc EXCEPT ![t] = next]
        /\ UNCHANGED <<targets, released, runLock>>
     \/ \E r \in targets[t] :
          /\ Free(runLock[r], t)
          /\ targets' = [targets EXCEPT ![t] = @ \ {r}]
          /\ IF r \in isActive
             THEN /\ released' = [released EXCEPT ![t] = @ \cup {r}]
                  /\ runLock' = [runLock EXCEPT ![r] = t]
             ELSE UNCHANGED <<released, runLock>>
          /\ UNCHANGED pc
  /\ UNCHANGED <<rows, clock, pipelineLock, request, batch, current, promoted,
                 foundActive, queuedGraph>>

CreateRelease(t) == ReleaseTerminal(t, "find")

\* Faulty: the active run is read without FOR UPDATE.
FindActiveRunUnlocked(t) ==
  /\ pc[t] = "find"
  /\ foundActive' = [foundActive EXCEPT ![t] = ActiveIn(ActiveView(t), current[t]) # {}]
  /\ pc' = [pc EXCEPT ![t] = "insert"]
  /\ UNCHANGED <<rows, clock, locks, request, batch, current, targets, released,
                 promoted, queuedGraph>>

\* findActiveRun ... FOR UPDATE: a found row stays locked, so no worker can
\* finish that run before this transaction ends.
FindActiveRun(t) ==
  LET found == ActiveIn(ActiveView(t), current[t]) IN
  /\ pc[t] = "find"
  /\ \A r \in found : Free(runLock[r], t)
  /\ foundActive' = [foundActive EXCEPT ![t] = found # {}]
  /\ runLock' = [r \in Runs |-> IF r \in found THEN t ELSE runLock[r]]
  /\ pc' = [pc EXCEPT ![t] = "insert"]
  /\ UNCHANGED <<rows, clock, pipelineLock, request, batch, current, targets, released,
                 promoted, queuedGraph>>

\* INSERT INTO runs, createInitialSourceJobs for whichever run became active,
\* COMMIT.  "next" holds the run that became active, if one did.
InsertCommit(t, next) ==
  /\ runState' = [runState EXCEPT ![request[t]] = "queued"]
  /\ isActive' = ActiveView(t) \cup next
  /\ jobs' = [s \in Runs |-> IF s \in next THEN "queued" ELSE jobs[s]]
  /\ queuedGraph' = [queuedGraph EXCEPT ![request[t]] = graph[current[t]]]
  /\ EndTxn(t)
  /\ UNCHANGED <<pipelineState, graph, createdAt, clock>>

\* When nothing is active, promoteOldestQueuedRun takes the oldest waiting run
\* first, and without one the new run itself becomes active.
InsertRun(t) ==
  LET waiting == WaitingView(t, current[t]) IN
  /\ pc[t] = "insert"
  /\ IF foundActive[t] THEN InsertCommit(t, {})
     ELSE IF ActiveIn(ActiveView(t), current[t]) # {}
     THEN Rollback(t)        \* runs_one_active_pipeline_index
     ELSE IF waiting = {} THEN InsertCommit(t, {request[t]})
     ELSE \E q \in OldestOf(waiting) : InsertCommit(t, {q})

-----------------------------------------------------------------------------
(* promoteQueuedPipelineRuns *)

\* SELECT terminal active runs FOR UPDATE SKIP LOCKED LIMIT n.  The batch is
\* handled in any order here; the source orders it by completed_at.
BeginPromote(t) ==
  /\ pc[t] = "idle"
  /\ \E B \in SUBSET {r \in TerminalActive : runLock[r] = Nobody} :
       /\ B # {}
       /\ Cardinality(B) = PromotionLimit
            \/ /\ Cardinality(B) < PromotionLimit
               /\ B = {r \in TerminalActive : runLock[r] = Nobody}
       /\ batch' = [batch EXCEPT ![t] = B]
       /\ runLock' = [r \in Runs |-> IF r \in B THEN t ELSE runLock[r]]
  /\ pc' = [pc EXCEPT ![t] = "next"]
  /\ UNCHANGED <<rows, clock, pipelineLock, request, current, targets, released,
                 promoted, foundActive, queuedGraph>>

\* Faulty: the loop handles the same selected run again and again.
PromoteSameAgain(t) ==
  /\ pc[t] = "next"
  /\ \E r \in batch[t] : current' = [current EXCEPT ![t] = PipelineOf[r]]
  /\ pc' = [pc EXCEPT ![t] = "lock"]
  /\ UNCHANGED <<rows, clock, locks, request, batch, targets, released, promoted, foundActive,
                 queuedGraph>>

\* One loop iteration takes a selected run and goes for its pipeline's row.
PromoteNext(t) ==
  /\ pc[t] = "next"
  /\ \E r \in batch[t] :
       /\ batch' = [batch EXCEPT ![t] = @ \ {r}]
       /\ current' = [current EXCEPT ![t] = PipelineOf[r]]
  /\ pc' = [pc EXCEPT ![t] = "lock"]
  /\ UNCHANGED <<rows, clock, locks, request, targets, released, promoted, foundActive,
                 queuedGraph>>

\* Unlike createPipelineRun this never looks at the pipeline's state.
PromoteLock(t) == pc[t] = "lock" /\ LockRow(t)

PromoteRelease(t) == ReleaseTerminal(t, "promote")

\* Faulty: no partial unique index backs the promotion.
PromoteWithoutIndex(t) ==
  LET waiting == WaitingView(t, current[t]) IN
  /\ pc[t] = "promote"
  /\ \E next \in (IF waiting = {} THEN {{}} ELSE {{q} : q \in OldestOf(waiting)}) :
       promoted' = [promoted EXCEPT ![t] = @ \cup next]
  /\ pc' = [pc EXCEPT ![t] = "next"]
  /\ UNCHANGED <<rows, clock, locks, request, batch, current, targets, released,
                 foundActive, queuedGraph>>

\* Faulty: the batch remembers its last promotion only.
PromoteLastOnly(t) ==
  LET p == current[t]
      waiting == WaitingView(t, p)
  IN
  /\ pc[t] = "promote"
  /\ waiting = {} \/ ActiveIn(ActiveView(t), p) = {}
  /\ \E next \in (IF waiting = {} THEN {{}} ELSE {{q} : q \in OldestOf(waiting)}) :
       promoted' = [promoted EXCEPT ![t] = next]
  /\ pc' = [pc EXCEPT ![t] = "next"]
  /\ UNCHANGED <<rows, clock, locks, request, batch, current, targets, released,
                 foundActive, queuedGraph>>

\* promoteOldestQueuedRun: does not ask whether a run is active already, so
\* runs_one_active_pipeline_index may reject it, which aborts the whole batch.
PromoteOldestQueuedRun(t) ==
  LET p == current[t]
      waiting == WaitingView(t, p)
  IN
  /\ pc[t] = "promote"
  /\ \/ /\ waiting # {}
        /\ ActiveIn(ActiveView(t), p) # {}
        /\ Rollback(t)
     \/ /\ waiting = {} \/ ActiveIn(ActiveView(t), p) = {}
        /\ \E next \in (IF waiting = {} THEN {{}} ELSE {{q} : q \in OldestOf(waiting)}) :
             promoted' = [promoted EXCEPT ![t] = @ \cup next]
        /\ pc' = [pc EXCEPT ![t] = "next"]
        /\ UNCHANGED <<rows, clock, locks, request, batch, current, targets, released,
                       foundActive, queuedGraph>>

\* COMMIT: own writes, and the steps and jobs of every promoted run, appear.
PromoteCommit(t) ==
  /\ pc[t] = "next"
  /\ batch[t] = {}
  /\ isActive' = ActiveView(t)
  /\ jobs' = [s \in Runs |-> IF s \in promoted[t] THEN "queued" ELSE jobs[s]]
  /\ EndTxn(t)
  /\ UNCHANGED <<pipelineState, graph, runState, createdAt, clock, queuedGraph>>

-----------------------------------------------------------------------------
(* PostgreSQL's deadlock detector *)

WaitsFor(t, u) ==
  /\ t # u
  /\ \/ pc[t] = "lock" /\ pipelineLock[current[t]] = u
     \/ /\ pc[t] = "release"
        /\ \A r \in targets[t] : ~Free(runLock[r], t)
        /\ \E r \in targets[t] : runLock[r] = u

\* Some member of a wait cycle is aborted.
AbortDeadlocked(t) ==
  /\ \E S \in SUBSET Txns :
       /\ t \in S
       /\ \A u \in S : (\E v \in S : WaitsFor(u, v)) /\ (\E v \in S : WaitsFor(v, u))
  /\ Rollback(t)

-----------------------------------------------------------------------------
(* The control plane: one transaction each, under the pipeline's row lock *)

\* setPipelineStateForOwner: enable needs an executable graph.
SetPipelineState(p, state) ==
  /\ pipelineLock[p] = Nobody
  /\ pipelineState[p] # "deleted"
  /\ BlockingRuns(p) = {}
  /\ state = "enabled" => graph[p] \in Executable
  /\ pipelineState' = [pipelineState EXCEPT ![p] = state]
  /\ UNCHANGED <<graph, runState, isActive, createdAt, jobs, clock, locks, txn, queuedGraph>>

\* updatePipeline: an optional new state and an optional new graph.  Only
\* validatePipelineGraph is asked, whatever the new state is.
UpdatePipeline(p, state, g) ==
  /\ pipelineLock[p] = Nobody
  /\ pipelineState[p] # "deleted"
  /\ BlockingRuns(p) = {}
  /\ pipelineState' = [pipelineState EXCEPT ![p] = state]
  /\ graph' = [graph EXCEPT ![p] = g]
  /\ UNCHANGED <<runState, isActive, createdAt, jobs, clock, locks, txn, queuedGraph>>

\* deletePipeline: refused while work is queued and while history is retained.
DeletePipeline(p) ==
  /\ pipelineLock[p] = Nobody
  /\ pipelineState[p] # "deleted"
  /\ \A r \in RunsOf(p) : runState[r] = "none"
  /\ pipelineState' = [pipelineState EXCEPT ![p] = "deleted"]
  /\ UNCHANGED <<graph, runState, isActive, createdAt, jobs, clock, locks, txn, queuedGraph>>

-----------------------------------------------------------------------------
(* Workers, seen from the run's row *)

ClaimNextJob(r) ==
  /\ jobs[r] = "queued"
  /\ jobs' = [jobs EXCEPT ![r] = "running"]
  /\ UNCHANGED <<pipelineState, graph, runState, isActive, createdAt, clock, locks, txn,
                 queuedGraph>>

\* start_run: UPDATE ... WHERE state = 'queued'.
StartRun(r) ==
  /\ jobs[r] = "running"
  /\ runState[r] = "queued"
  /\ runLock[r] = Nobody
  /\ runState' = [runState EXCEPT ![r] = "running"]
  /\ UNCHANGED <<pipelineState, graph, isActive, createdAt, jobs, clock, locks, txn,
                 queuedGraph>>

\* finish_success: one transaction ends the job and the run.
FinishSuccess(r) ==
  /\ jobs[r] = "running"
  /\ runState[r] = "running"
  /\ runLock[r] = Nobody
  /\ jobs' = [jobs EXCEPT ![r] = "succeeded"]
  /\ runState' = [runState EXCEPT ![r] = "succeeded"]
  /\ UNCHANGED <<pipelineState, graph, isActive, createdAt, clock, locks, txn, queuedGraph>>

\* _handle_failure first commits the job's failure: jobs are created with
\* retry_max_attempts 1, so the first failure is the last.
FailJob(r) ==
  /\ jobs[r] = "running"
  /\ runState[r] = "running"
  /\ jobs' = [jobs EXCEPT ![r] = "failing"]
  /\ UNCHANGED <<pipelineState, graph, runState, isActive, createdAt, clock, locks, txn,
                 queuedGraph>>

\* finish_failure: a second transaction ends the run.
FinishFailure(r) ==
  /\ jobs[r] = "failing"
  /\ runLock[r] = Nobody
  /\ jobs' = [jobs EXCEPT ![r] = "failed"]
  /\ runState' = [runState EXCEPT ![r] = "failed"]
  /\ UNCHANGED <<pipelineState, graph, isActive, createdAt, clock, locks, txn, queuedGraph>>

\* An exception in load_plan or start_run, whose UPDATE may have been committed
\* already, fails the job only: _handle_failure has no current component and
\* leaves the run as it is.
FailBeforeFirstStep(r) ==
  /\ jobs[r] = "running"
  /\ jobs' = [jobs EXCEPT ![r] = "failed"]
  /\ UNCHANGED <<pipelineState, graph, runState, isActive, createdAt, clock, locks, txn,
                 queuedGraph>>

-----------------------------------------------------------------------------

Init ==
  /\ pipelineState = [p \in Pipelines |-> "draft"]
  /\ graph \in [Pipelines -> Graphs]
  /\ runState = [r \in Runs |-> "none"]
  /\ isActive = {}
  /\ createdAt = [r \in Runs |-> 0]
  /\ jobs = [r \in Runs |-> "none"]
  /\ clock = 0
  /\ pipelineLock = [p \in Pipelines |-> Nobody]
  /\ runLock = [r \in Runs |-> Nobody]
  /\ pc = [t \in Txns |-> "idle"]
  /\ request = [t \in Txns |-> Nobody]
  /\ batch = [t \in Txns |-> {}]
  /\ current = [t \in Txns |-> Nobody]
  /\ targets = [t \in Txns |-> {}]
  /\ released = [t \in Txns |-> {}]
  /\ promoted = [t \in Txns |-> {}]
  /\ foundActive = [t \in Txns |-> FALSE]
  /\ queuedGraph = [r \in Runs |-> graph[PipelineOf[r]]]

CreateStep(t) ==
  CreateLock(t) \/ CreateRelease(t) \/ FindActiveRun(t) \/ InsertRun(t)

PromoteStep(t) ==
  \/ PromoteNext(t) \/ PromoteLock(t) \/ PromoteRelease(t)
  \/ PromoteOldestQueuedRun(t) \/ PromoteCommit(t)

WebStep(p) ==
  \/ \E state \in {"enabled", "disabled"} : SetPipelineState(p, state)
  \/ \E state \in {"draft", "enabled", "disabled"}, g \in Graphs : UpdatePipeline(p, state, g)
  \/ DeletePipeline(p)

WorkerStep(r) ==
  \/ ClaimNextJob(r)
  \/ StartRun(r)
  \/ FinishSuccess(r)
  \/ FailJob(r) \/ FinishFailure(r)
  \/ FailBeforeFirstStep(r)

Next ==
  \/ \E t \in Creators : CreateStep(t) \/ \E r \in Runs : BeginCreate(t, r)
  \/ \E t \in Promoters : PromoteStep(t) \/ BeginPromote(t)
  \/ \E t \in Txns : AbortDeadlocked(t)
  \/ \E p \in Pipelines : WebStep(p)
  \/ \E r \in Runs : WorkerStep(r)

Spec == Init /\ [][Next]_vars

\* Sessions keep executing, PostgreSQL queues lock waiters first come first
\* served and breaks every wait cycle that persists (the last session to join
\* it runs the detector), workers keep polling.  Nothing is assumed about
\* users or about new triggers.
Fairness ==
  /\ \A t \in Creators : SF_vars(CreateStep(t))
  /\ \A t \in Promoters : SF_vars(PromoteStep(t)) /\ WF_vars(BeginPromote(t))
  /\ \A t \in Txns : WF_vars(AbortDeadlocked(t))
  /\ \A r \in Runs : WF_vars(WorkerStep(r))

FairSpec == Spec /\ Fairness

-----------------------------------------------------------------------------
(* Properties *)

RunStates == {"none"} \cup activeRunStates \cup terminalRunStates
JobStates == {"none", "queued", "running", "failing", "succeeded", "failed"}
Statements == {"idle", "lock", "release", "find", "insert", "next", "promote"}

\* The rows keep their column types and transactions their shapes.
TypeOK ==
  /\ pipelineState \in [Pipelines -> {"draft", "enabled", "disabled", "deleted"}]
  /\ graph \in [Pipelines -> Graphs]
  /\ runState \in [Runs -> RunStates]
  /\ isActive \in SUBSET Runs
  /\ createdAt \in [Runs -> Nat]
  /\ jobs \in [Runs -> JobStates]
  /\ clock \in 0..MaxClock
  /\ pipelineLock \in [Pipelines -> Txns \cup {Nobody}]
  /\ runLock \in [Runs -> Txns \cup {Nobody}]
  /\ pc \in [Txns -> Statements]
  /\ request \in [Txns -> Runs \cup {Nobody}]
  /\ batch \in [Txns -> SUBSET Runs]
  /\ current \in [Txns -> Pipelines \cup {Nobody}]
  /\ targets \in [Txns -> SUBSET Runs]
  /\ released \in [Txns -> SUBSET Runs]
  /\ promoted \in [Txns -> SUBSET Runs]
  /\ foundActive \in [Txns -> BOOLEAN]
  /\ queuedGraph \in [Runs -> Graphs]

\* pipeline-model.md: "A single pipeline has at most one active run."  Holds
\* whatever creators, promoters and workers interleave, also across a commit
\* that applies a whole promotion batch.
OneActiveRun ==
  \A r, s \in isActive :
    /\ PipelineOf[r] = PipelineOf[s]
    /\ runState[r] \in activeRunStates
    /\ runState[s] \in activeRunStates
    => r = s

\* What workers can see of it: jobs of two runs of one pipeline are never
\* claimable or running together.
SerialExecution ==
  \A r, s \in Runs :
    /\ PipelineOf[r] = PipelineOf[s]
    /\ jobs[r] \in {"queued", "running"}
    /\ jobs[s] \in {"queued", "running"}
    => r = s

\* Both: a pipeline has one run at a time, in the rows and for the workers.
OneRunAtATime == OneActiveRun /\ SerialExecution

\* createPipelineRun never trips runs_one_active_pipeline_index: the pipeline
\* row lock, taken before findActiveRun looks, makes its answer still true
\* when the run is inserted.
CreateNeverConflicts ==
  \A t \in Creators :
    pc[t] = "insert" /\ ~foundActive[t] => ActiveIn(ActiveView(t), current[t]) = {}

\* A run has steps and a job exactly from the commit that makes it active; a
\* waiting run has none, so no worker can reach it early.
JobsFollowActivation ==
  \A r \in Runs :
    (jobs[r] = "none") <=> (runState[r] = "none" \/ (runState[r] = "queued" /\ r \notin isActive))

\* state-machine.ts: a queued run "will use the pipeline definition captured
\* by the control plane".  Whatever web edits race with creation, a queued or
\* running run's pipeline is enabled and has the graph it was enqueued with,
\* although promotion checks neither.
EditLock ==
  \A r \in Runs :
    runState[r] \in activeRunStates =>
      /\ pipelineState[PipelineOf[r]] = "enabled"
      /\ graph[PipelineOf[r]] = queuedGraph[r]

\* A run keeps its turn until it is terminal: no transaction takes is_active
\* away from a queued or running run, and none gives it to a finished one.
TurnKeptUntilTerminal ==
  [][/\ \A r \in isActive \ isActive' : runState[r] \in terminalRunStates
     /\ \A r \in isActive' \ isActive : runState'[r] = "queued"]_vars

\* A committed createPipelineRun never leaves a pipeline with a backlog and no
\* active run, even when the run it looked at finished meanwhile.
CreateLeavesActiveRun ==
  [][\A t \in Creators :
       (pc[t] = "insert" /\ pc'[t] = "idle" /\ runState' # runState) =>
          \E r \in isActive' : PipelineOf[r] = current[t] /\ runState'[r] \in activeRunStates]_vars

\* A committed promotion batch leaves no pipeline it released stranded: each has
\* an active run or nothing waiting, however many pipelines the batch spans and
\* whatever was triggered or finished while it ran.
PromotionAdvancesBacklog ==
  [][\A t \in Promoters :
       (pc[t] = "next" /\ pc'[t] = "idle") =>
          \A r \in released[t] :
             \/ \E s \in isActive' : /\ PipelineOf[s] = PipelineOf[r]
                                    /\ runState'[s] \in activeRunStates
             \/ \A s \in RunsOf(PipelineOf[r]) : runState'[s] = "queued" => s \in isActive']_vars

\* Row locks never wedge the scheduler: every transaction that starts ends,
\* although creators lock pipeline then run and promoters run then pipeline.
TransactionsEnd == \A t \in Txns : pc[t] # "idle" ~> pc[t] = "idle"

-----------------------------------------------------------------------------
(* The inductive invariant behind these properties *)

\* Where each kind of transaction can be, and what it holds there.
TxnShape ==
  /\ \A t \in Creators :
       /\ pc[t] \in {"idle", "lock", "release", "find", "insert"}
       /\ promoted[t] = {}
       /\ pc[t] # "idle" => /\ request[t] \in Runs
                           /\ runState[request[t]] = "none"
                           /\ current[t] = PipelineOf[request[t]]
  /\ \A t, u \in Creators :
       pc[t] # "idle" /\ pc[u] # "idle" /\ request[t] = request[u] => t = u
  /\ \A t \in Promoters : pc[t] \in {"idle", "next", "lock", "release", "promote"}
  /\ \A t \in Txns :
       /\ pc[t] \in {"lock", "release", "find", "insert", "promote"} => current[t] \in Pipelines
       /\ pc[t] \in {"release", "find", "insert", "promote"} => pipelineLock[current[t]] = t

\* Uncommitted is_active writes concern only pipelines whose row the
\* transaction has locked: they release finished runs and promote waiting ones.
PendingWrites ==
  \A t \in Txns :
    /\ \A r \in targets[t] : runState[r] \in terminalRunStates /\ PipelineOf[r] = current[t]
    /\ targets[t] # {} => pc[t] = "release"
    /\ \A r \in released[t] :
         /\ r \in isActive
         /\ runState[r] \in terminalRunStates
         /\ pipelineLock[PipelineOf[r]] = t
    /\ \A r \in promoted[t] :
         /\ r \notin isActive
         /\ runState[r] = "queued"
         /\ pipelineLock[PipelineOf[r]] = t

\* Every transaction's own view obeys the partial unique index.
OneActiveInView ==
  \A t \in Txns : \A r, s \in ActiveView(t) :
    /\ PipelineOf[r] = PipelineOf[s]
    /\ runState[r] \in activeRunStates
    /\ runState[s] \in activeRunStates
    => r = s

\* The answer of findActiveRun stays true until the run is inserted, because
\* the found row stays locked.
FoundStaysActive ==
  \A t \in Creators :
    pc[t] = "insert" /\ foundActive[t] =>
      \E r \in isActive : /\ PipelineOf[r] = current[t]
                          /\ runState[r] \in activeRunStates
                          /\ runLock[r] = t

\* Job and run agree: unfinished work belongs to an unfinished active run.
JobsMatchRuns ==
  \A r \in Runs :
    /\ jobs[r] \in {"queued", "running", "failing"} =>
         r \in isActive /\ runState[r] \in activeRunStates
    /\ runState[r] = "none" => r \notin isActive

\* A creator past its check works on an enabled pipeline.
CreatorsEnabled ==
  \A t \in Creators :
    pc[t] \in {"release", "find", "insert"} => pipelineState[current[t]] = "enabled"

IndInv ==
  /\ TypeOK /\ TxnShape /\ PendingWrites /\ OneActiveInView /\ OneActiveRun
  /\ CreateNeverConflicts /\ FoundStaysActive /\ JobsFollowActivation /\ JobsMatchRuns
  /\ EditLock /\ CreatorsEnabled
=============================================================================

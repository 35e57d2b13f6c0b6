# Verification of PantaETL

PantaETL stores pipelines (a Source, Transforms, an Export), queues a run of a
pipeline whenever a user or a schedule asks for one, and lets Python workers
execute the runs. Everything the services agree on lives in PostgreSQL or in
files under a storage root: there is no message bus, and the correctness of the
product is the correctness of short transactions and file operations that
interleave, fail halfway and are repeated. This directory holds TLA+ modules
that model them, TLC configurations that check them on small instances, and
TLAPS proofs of the central results for instances of any size.

## The system

| Component | Source | State it keeps | Operations | Interacts with |
|---|---|---|---|---|
| Execution state machine | `packages/pipeline/src/state-machine.ts` | availability, active run, FIFO backlog of one pipeline (pure values) | set state, enqueue, start, request cancellation, complete | the scheduler and the control plane use it as a guard |
| Run queue | `apps/scheduler/src/run-queue.ts` | `runs`, `run_steps`, `jobs` | `createPipelineRun`, `promoteQueuedPipelineRuns` | row locks, a partial unique index, workers |
| Schedule claims | `apps/scheduler/src/schedule-claims.ts` | `pipeline_triggers.next_run_at` | `claimDueSchedules` | creates runs inside its transaction |
| Scheduler service | `apps/scheduler/src/main.ts`, `internal-run-route.ts` | the process | serve a run request, stop | the web server, the run queue |
| Control plane | `packages/database/src/pipelines/*`, `apps/web/src/pipeline-api` | `pipelines`, components, edges, triggers | create, read, update, delete, duplicate, enable, disable, run | the edit lock: queued or running runs |
| Graph validation | `pipelines/create.ts`, `executable-validation.ts`, `compatibility.ts`, `topology.ts`; `execution.py`, `registries.py` | none | accept, refuse or plan a graph | save, enable, execute |
| Web editor and wizard | `apps/web/src/components/pipeline*` | drafts, the query cache, `localStorage` | edit, save, resume, click an action | the API |
| Worker queue and execution | `workers/python/job_queue.py`, `execution.py` | jobs, steps, runs, datasets | claim, start, steps, finish, fail | run rows, checkpoints, artifacts |
| Cancellation | `workers/python/cancellation.py` | `cancellation_requested_at`, jobs | `raise_if_requested`: poll, cancel, finalise | a library for executors; `run_once` and its executors never call it, only tests do |
| Checkpoints | `workers/python/checkpoints.py` | `source_checkpoints`, candidates in memory | load, propose, commit, discard | run success |
| REST Source | `workers/python/components/sources/rest_source.py` | position in a remote collection | request pages, propose a checkpoint | a remote API, checkpoints |
| Artifacts, datasets | `workers/python/artifacts.py`, `storage.py` | files and their metadata rows | stage, encrypt, publish, record, read, delete | garbage collector |
| Retention | `packages/database/src/retention.ts`, `apps/garbage-collector` | expiry of every stored record | list expired, delete object, delete row | uploads, datasets, runs |
| Uploads | `apps/web/src/uploads` | staged files and rows | store, stage, claim | saved pipelines, garbage collector |
| Development supervisor | `scripts/development.mjs` | `local-stack.json`, process groups | stack-up, stack-reset, shutdown | other invocations of itself |
| Migration adoption | `packages/database/scripts/adopt-migration-history.mjs` | the Drizzle journal, the catalog | recognise, record, apply | drizzle-kit, other invocations |
| Accounts | `apps/web/src/auth/*`, `routes/{login,welcome}.tsx`, `routes/api/tokens.ts`, `routes/api/auth/$.ts`, `scripts/{bootstrap-admin,reset-admin-password}.ts` | `users`, `accounts`, sessions, API tokens | seed, sign in, set up, reset, create and revoke tokens; Better Auth's own endpoints | every route's session check |
| System and settings pages | `apps/web/src/system/*`, `components/{system,settings}-workspace.tsx` | the probed components, one retention setting | load, probe, answer, save | the services' health routes, `settings` |
| Trigger panel | `pipeline-trigger-editor.tsx`, `pipeline-trigger-draft.ts` | a draft of triggers, the query cache | edit, save, refetch | pipeline updates |
| Configuration form | `component-configuration-form.tsx`, `component-source-file-field.tsx`, `component-picker.tsx` | values of one component, texts, uploads under way | select, type, upload, clear, retry | the upload route, drafts |
| Everything else | `packages/{config,contracts,logging,ui}`, file components | | parse, render, transform rows | |

What is hard here: transactions at READ COMMITTED whose statements use
different snapshots; two lock orders over `pipelines` and `runs`; a partial
unique index that turns a lost race into an aborted batch; an edit lock that is
a query rather than a lock; handlers of several transactions, any of which may
raise; files and rows that are not written or deleted together; replies lost
after the commit, and requests that nobody waits for any more and that are
served all the same; drafts that change while their save, or an upload into them,
is under way; checks that are made before a password is hashed and used after
it; processes killed between two writes. `PROJECT.json` lists every hazard with its line and
the properties that would notice it going wrong.

What makes each component correct:

- *state machine*: work only for an enabled pipeline, no stranded backlog, turns
  in arrival order, cancellation not lost;
- *run queue*: at most one active run, serial execution, steps and jobs exactly
  for activated runs, no lost wake-up, transactions that end;
- *schedule claims*: each occurrence claimed once, overdue ones kept;
- *control plane, editor, wizard*: a run keeps the pipeline it was enqueued
  against, stored graphs are whole, answers are true, drafts are not lost;
- *validation*: what is enabled can be planned and, where the worker registers its
  components, executed, no less, no more;
- *worker*: a succeeded run has delivered its output, a claimed job is handed over, checkpoints follow
  success, no file or row is lost track of;
- *cancellation*: an executor that polls strands no run, and a cancelled run is
  quiet;
- *REST Source*: every record once, whatever fails;
- *storage*: what is described can be read back whole;
- *retention*: nothing live is removed, a repeated pass is harmless, what is
  expired goes in the end;
- *accounts*: one account per identity, one setup per reset, no token of an
  account that was never set up, every submission answered;
- *system and settings pages*: what is shown as healthy was, a load ends, a
  save that was reported is in force until a later one is stored;
- *trigger panel*: controls show what will be stored, an unedited save keeps every
  definition, and times and runs belong to the schedule they were made for;
- *configuration form*: an upload changes nothing else;
- *tooling*: a restart finds what it has to stop, a partial schema is untouched.

## Modules

| Module | Models | Proved in |
|---|---|---|
| `PipelineStateMachine` | the domain state machine of one pipeline | `RunLifecycleProofs` |
| `CooperativeCancellation` | the four transactions of a cancellation among sibling jobs | `RunLifecycleProofs` |
| `RunQueue` | creation and promotion of runs with row locks, the control plane's edits, the workers' updates | `RunQueueProofs` |
| `RunQueueRefinement` | the mapping under which `RunQueue` implements `PipelineStateMachine` | `RunQueueProofs` |
| `WorkerExecution` | workers that execute the runs of a pipeline, call by call | `WorkerExecutionProofs` |
| `ScheduleClaims` | schedulers that claim due occurrences | `ServicesProofs` |
| `Retention` | uploads, datasets, artifacts, runs and overlapping collector passes | `ServicesProofs` |
| `RunRequests` | an action from the button through web server and scheduler and back | `ControlPlaneProofs` |
| `PipelineEditing` | one stored pipeline, its editors, partial updates, copies, deletion | `ControlPlaneProofs` |
| `PipelineTopology` | the catalogue, the indexes of a graph, the checks of single steps and edges, compatibility | |
| `PipelineGraphs` | the traversals and the judgements on a graph, as operators | |
| `PipelineGraphBuilder` | every small graph, and reference definitions to compare with | |
| `PipelineBuilder` | the creation wizard, its draft, its saves and its resumption | `ControlPlaneProofs` |
| `RestSource` | successive runs of a REST Source against a growing collection | `WorkerDataProofs` |
| `LocalStorage` | staging, encryption, publication and recording of files | `WorkerDataProofs` |
| `DevelopmentStack` | invocations of stack-up and stack-reset | `DevelopmentProofs` |
| `MigrationAdoption` | invocations of migrate:apply | `DevelopmentProofs` |
| `AdminAccounts` | seeding, sign-in, setup, reset and tokens | `WebProofs` |
| `SystemPages` | the health page and its probes, the settings pages | `WebProofs` |
| `TriggerEditor` | the trigger panel and its friendly schedules | `WebProofs` |
| `ConfigurationForm` | the component picker and form, with uploads | `WebProofs` |
| `MC*` | small instances for TLC | |
| `RunQueueClaims`, `WorkerExecutionClaims` | sentences of the repository that the code does not keep | |

Two kinds of composition. Components that touch the same rows are in one
module, so that their steps interleave: `RunQueue` has the scheduler, the
control plane and the workers on `runs` and `pipelines`; `WorkerExecution` has
queue, execution, checkpoints, artifacts, datasets and shutdown; `Retention` has
uploads, workers and collector. Components that share nothing are only checked
together: in `MCRunLifecycle`, `MCServices`, `MCDevelopment`, `MCControlPlane`,
`MCPipelineGraphs`, `MCWorkerData` and `MCWeb` a variable `subject`, fixed in `Init`,
says which of the parts a behaviour is about; the other parts stay in their
initial state, every part has all of its own behaviours, and fairness is that
of the part. (In `MCWeb` the accounts come as five subjects, each of which
leaves some actors idle: setup against a reset, seeding with several identities,
tokens, what owners change, and a seeder that meets a renamed account.) `MCRunQueue` uses `subject` to say which contention is looked at.

Definitions whose comment starts with "Faulty:" are not part of a
specification. Each is what a plausible bug would make of the definition that
follows it, and is kept to show that the property it belongs to notices.

### State and actions

**PipelineStateMachine.** `pipelineState`, `activeRun` and `queuedRunIds` are the
fields of `PipelineExecutionState`; one action per exported function. A call that
throws `PipelineStateTransitionError` is a disabled action. The terminal result
passed to `completeActiveRun` is not retained by the source and is left out.

**RunQueue.** Committed rows are variables (`pipelineState`, `graph`, `runState`,
`isActive`, `createdAt`, `jobs`), row locks are `pipelineLock` and `runLock`, and
every scheduler session has a program counter and uncommitted writes
(`released`, `promoted`). A session sees `ActiveView(t)`: committed rows and its
own writes.

| Action | Code |
|---|---|
| `BeginCreate` | `runPipelineForOwner` reads the pipeline without a lock and takes `now` |
| `CreateLock` | `SELECT ... FOR UPDATE` of the pipeline, `assertPipelineCanCreateRun`, and the snapshot of the release statement |
| `CreateRelease` | `UPDATE runs SET is_active = false`, one row per step, waiting for locked rows |
| `FindActiveRun` | `findActiveRun ... FOR UPDATE` |
| `InsertRun` | `promoteOldestQueuedRun` or the new run itself, `INSERT`, steps and jobs, `COMMIT` |
| `BeginPromote` | `SELECT ... FOR UPDATE SKIP LOCKED LIMIT n` |
| `PromoteNext`, `PromoteLock`, `PromoteRelease`, `PromoteOldestQueuedRun`, `PromoteCommit` | the loop of a promotion pass and its end |
| `AbortDeadlocked` | PostgreSQL's detector aborts a member of a wait cycle |
| `SetPipelineState`, `UpdatePipeline`, `DeletePipeline` | the control plane, one transaction each under the pipeline's row lock |
| `ClaimNextJob`, `StartRun`, `FinishSuccess`, `FailJob`, `FinishFailure` | the worker's transactions |
| `FailBeforeFirstStep` | the failure handler when no component was current: the run is left alone |

A run's steps and its source job are one value of `jobs`. A graph is a model
value that is executable or not. Insertions of `createPipelineRun` and the final
promotion happen at the commit: nobody sees them earlier, and the pipeline row
is locked meanwhile. The clock advances once per request, so `created_at` has no
ties and the third sort key, `runs.id`, is left out; in the program
`claimDueSchedules` gives one `now` to a whole batch (`schedule-claims.ts:94-98`),
and runs of one batch and pipeline are told apart by their occurrence alone. `cancelled` and `completed_with_warnings` have no writer here and appear
only in the sets that the queries test.

**WorkerExecution.** Every database call of `WorkerExecutionService` has its own
transaction and is one action; so is every file operation. `pc` is the next call
of `run_once`, `cur` its local `current`, `held` the descriptors of the attempt.
`CallRaises` lets any call raise, before its transaction or after it in the
event that a second transaction records; then `HandleFailure` and
`FinishFailure` follow, and they may raise too. `Stop`, `Exit` and `Crash` are a
shutdown with its bounded join and a death without notice. `Activate` stands for
the scheduler, which makes the next run active once the previous one is terminal.
A file Export publishes an artifact, which the next call records; a table Export
(the runs of the constant `TableRuns`, `PostgresExport` in the code) writes its
rows in one transaction, returns no artifact, and no call follows. `delivered`
says which attempts have committed. Records, configurations and schemas are left
out; a checkpoint is the number of the run whose position it is.

**CooperativeCancellation.** `raise_if_requested` in the hands of executors that
call it between units of work. `polls`, fixed in `Init`, is any set of workers
whose executors do; `run_once` (`execution.py:335-416`) never polls, so the
deployed worker is the case `polls = {}`, in which a requested run is executed to
its end. The poll, `CancelIfRequested`, `CancelPendingForRun`,
`FinalizeCancelledRun` and `MarkRunCleanupEligible` are its five calls,
between which siblings are claimed, released, requeued and finished, and any of
which may raise. Nothing in the repository writes `cancellation_requested_at`;
`Request` is the program that does.

**ScheduleClaims.** `SelectDue` takes the locks of a batch, `ClaimOne` handles one
row, `Commit` publishes everything, `Rollback` nothing. The selection's
`FOR UPDATE` names no table, so the joined pipeline rows are locked as well. An
occurrence is a natural number; cron arithmetic is "the next one".

**Retention.** `row` is the life of a metadata row, `files` what is stored, `todo`
what a pass still has to do with each listed object: its file, then its row.
Listing, deletion and failures of every kind of record are actions of a pass;
passes overlap because `setInterval` does not wait for the previous one. Objects
in S3 are listed and never removed, as in the code. `DeleteRun` fails for a run
with operational events.

**RunRequests.** `req[n]` is where request `n` stands between tab, web server and
scheduler; `waiting`, `shown` and `cached` are what the tab holds. A response may
be lost, a session may have expired, the database may fail, the scheduler may be
stopped or end with an unhandled rejection and takes every open request along.

**PipelineEditing.** A stored pipeline is `[exists, state, steps, edges, sched,
gen]`. Steps are abstracted to which step identifiers there are and edges to the
steps they join into a valid graph. A read takes four statements; an update or
a deletion is one transaction.

**PipelineTopology, PipelineGraphs, PipelineGraphBuilder.** A graph is a pair of sequences, rows as
read, so identifiers and edges may repeat. Each traversal of the code is
translated as it is written (work lists, path and done sets, a plan loop without
a visited set). `PipelineGraphBuilder` compares them with definitions that
traverse nothing. A configuration value is one of "none", "null", "empty",
"fits" and "misfits". A browser labels a step with its component's kind and
writes only values its controls can produce; another caller need not. `Catalog` is
what the control plane lists (22 components in the code), `Registered` what the
worker's registries hold (nine of them, `execution.py:508-520`); `Resolve` asks
the latter.

**PipelineBuilder.** The draft, its edits (functions from drafts to drafts), the
conversion of a draft to a graph and back, `create` and `update`, lost replies,
and the resumption of a stored draft whose rows come back in any order. A wait may
end before the server has served the request: it goes to `late` and is served at
any later time, after a newer save too (`LoseReply`, `ServeLate`).
`UpdateByAnother` is a second wizard tab with the same stored identifier, or the
pipeline editor, that saves one change; the pipeline may also be run, after which
its components cannot be replaced, and deleted. A resumption whose queries fail
starts with an empty draft and forgets the stored identifier, also one that a
create has stored meanwhile (`ForgetStoredId`). `current` is the set of rows that
nobody but this page's awaited saves has written since the page last saw them, and
`opened` the last pipeline there was when it was opened. The loop of `orderStepsByEdges` is a
recursive function over as many rounds as there are rows, which is enough for a
stored graph: it has no cycle. The server's rule that Sources and Exports are
connected is the constant `Connects`; the run gives it the traversal of
`PipelineGraphs`.

**RestSource.** Records are numbered in the order they appear, and a watermark or
a token is a record number. APIs differ in the watermark of an empty page and in
whether watermarks contain capitals; every combination of settings is an
initial state.

**LocalStorage.** A file is its form, its number of blocks and its key. A write is
a sequence of steps of a process that may raise, die, come back with another
key, or lose the tail of a file that was never synced. An `unlink` in a `finally` may raise
as well and leave its file behind (`UnlinkFails`, recorded in `orphaned`). A scalar
JSON document cut short, which can still parse, is not told apart from other damage.

**DevelopmentStack, MigrationAdoption.** `stage` is where an invocation stands,
`svc` the process groups, `file` what `local-stack.json` names, possibly torn.
A migration creates one catalog object of each kind; the catalog queries are
separate statements, and nothing is locked.

**AdminAccounts.** An account is named after the seeder that inserted it (the
sign-in page, or a bootstrap script with an identity of its own). What happens
between two awaits is an action: `ensureFirstAdmin` reads, hashes and inserts;
`completeAdminSetup` resolves the session, hashes, locks the pending row and
writes; the reset writes the credential and then the row in one transaction, in
the other lock order, and `DeadlockDetected` is PostgreSQL's way out. Passwords
are "published", "weak", "temporary" or acceptable. `routes/api/auth/$.ts` mounts
all of Better Auth's endpoints: those that write an account, `/change-password` and
`/update-user`, are `ChangePassword` and `UpdateUser`, open to any session, that of
a pending account too, and external; `owning` is a request of theirs under way,
`owned` what an account's owner has changed that way.

**SystemPages.** The health route probes every component concurrently: a probe
answers with the condition of that instant, or a service's timeout fires, and
the answer is sent when no probe is pending. `wasOk` is a history of what was ok
at an instant of each load. A settings page holds what it shows, what is typed
and one submission. A fetch that fails ends the wait wherever the server is with
it (`SaveBreaksOff`); the form can be used again, and the statement may run at any
later time (`abandoned`, `ServeAbandoned`). `lastWriter` is the page whose awaited
save was the last to be stored.

**TriggerEditor.** A cron expression is its five fields, each a number, a star or
something else; the three patterns and the renderer of
`friendlyScheduleFromCron` and `cronFromFriendlySchedule` are translated as they
are. Controls pass on any number. `replaceTriggers` deletes the rows and inserts
new ones: `times` (`next_run_at`, with the definition it was computed from) and
`credited` (runs that still name the trigger that caused them) lose what belonged
to the old rows. `ClaimSchedule` is a scheduler that claims a row with a time (nothing
here sets a first one), `RunsEnd` lets the edit lock go. A save carries the graph once the editor has
loaded it and fails as a whole after a first run (`ON DELETE RESTRICT`);
`Save(FALSE)` is one made before that.

**ConfigurationForm.** An upload keeps the component and the values of the render
that started it, and its answer writes them back with the new path; `mount`
tells instances of the file control apart. `intended` and `disturbed` are
histories of what the operator entered, and whether during an upload.

## Runs

| Run | Instance |
|---|---|
| `run_lifecycle` | 4 run ids; 2 workers, 2 jobs, 2 attempts, 1 release, 1 failing call; executors of none, one or both workers poll |
| `run_queue` | 2 creators, a promoter and edits; a batch over 2 pipelines; 2 promoters and a creator: 3 requests each |
| `worker_execution` | 2 workers, 2 consecutive runs, the first with a file Export, the second with a table Export, 3 steps, 2 attempts, 2 failing calls, 1 stop or crash |
| `services` | 1 Dataset, 1 remote artifact, 1 upload (2 in the behaviours about full batches), 1 run, 2 overlapping passes with batches of 1; 2 schedulers, 3 triggers of 2 pipelines, batches of 2, 3 instants |
| `development` | 2 invocations, 2 services of which 1 ignores SIGTERM, 1 fault; 2 runners, 3 migrations of which 2 have a fingerprint, 1 crash, 3 repetitions |
| `control_plane` | 2 tabs, 2 clicks, 1 fault, 1 stop; 1 editor or 1 copier, 2 graphs, 2 writes, 1 run |
| `pipeline_graphs` | every graph of 4 steps and 4 edges, configurations of 3 steps, requests of other callers, a worker that does not register the JSON Source; 5 edits, by the wizard or by others, and 2 saves of a draft, 4 edits where a reply is lost or the pipeline is run |
| `worker_data` | 4 records in pages of 2, every API and setting, 1 failing run; 2 writers, 2 files of 2 blocks, 1 key, 1 failing call, crash, power loss and lost answer |
| `web` | a sign-in page, a bootstrap script, 2 browsers, 2 addresses and usernames, 1 token, 1 reset; 2 services, 2 loads, 2 changes; 2 settings pages, 3 saves, 1 of them broken off at a time; 2 schedules, 3 edits, numbers of two and three digits; 3 components, 3 keys, 2 uploads, 5 edits |
| `backlog_progress`, `worker_failed_job`, `pipeline_editing_history` | expected violations, see below |

`run_lifecycle`: `QueueInOrder` (types, `WorkOnlyWhenEnabled`,
`BacklogBehindActiveRun`, `NoRunTwice`), `FirstInFirstOut`, `CancellationSticks`;
`CancellationInvariant` (`CancelledRunIsQuiet`, `CleanupOnlyAfterTerminal`),
`CancelledOnRequest`, and `CancellationCompletes` (`RequestedRunEnds`,
`CancelledRunExpires`): whoever polls, the run ends, by its cancellation or by its
jobs, as long as the database does not fail between two of the transactions.
Where nobody polls, it ends as if nobody had asked.

`run_queue`: `RunQueueInvariant`, which is `OneRunAtATime` (`OneActiveRun`,
`SerialExecution`) with the inductive invariants of the proofs, `IndInv` and
`TurnsInOrder`; a
run keeps its turn until it is terminal; a committed creation leaves an active
run; a committed promotion advances every pipeline of its batch; transactions
end; and `ImplementsStateMachine`. Creation never trips over the unique index,
because the pipeline row is locked before anything is inspected; a run that was
found active stays active until the insert, because its row is locked; an edit
never slips between a check and an insert.

`ImplementsStateMachine` is a refinement: a pipeline whose active run has just
ended has, in the domain's terms, already handed its turn to the oldest waiting
run, and the rows follow later. With that mapping every step is a step of
`PipelineStateMachine` or a stutter, with one exception: a request's "now" is
taken before it waits for the pipeline's row, so a request that was overtaken
while it waited is inserted ahead of a later one (`Overtaken`). That is all such
an insertion does: it never displaces the run whose turn it is. The requests of
the run are manual; the theorem is about any mixture of manual and scheduled ones,
where a request for an occurrence is inserted ahead of every manual one (see
below). No two requests have the same "now".

`worker_execution`: `WorkerInvariant` (`WorkersOwnTheirRun`,
`SuccessIsComplete`, `FailedRunExpiresDatasets`, `ArtifactFilesAccounted`),
`CheckpointAfterSuccess` and `ClaimedJobEnds`, with failing calls inside the
failure handler too. `SuccessIsComplete` asks for the output of the attempt that
succeeded: its artifact, or the committed rows of a table Export.

`services`: `RetentionInvariant` (`LiveRowHasFile`, `RemovedRowHasNoFile`,
`PassesHandleExpired`) and `ExpiredIsCollected`; `ScheduleInvariant`
(`EachOccurrenceOnce`, `BatchStaysEligible`) and `DueIsClaimed`.

`development`: `StackInvariant` (`ShutdownStopsAll`, `RunningIsRecorded` for
invocations of stack-up that follow one another), `InvocationsEnd`;
`MigrationInvariant` (`RecordedIsPresent`, `SuccessMeansMigrated`),
`PartialIsUntouched`, `RecognisedIsMigrated`.

`control_plane`: `RequestInvariant` (`SuccessIsReal`, `RefusalIsReal`,
`OneInFlight`) and `ClickEnds`; `EditingInvariant` (`StoredGraphFits`,
`CopiesFit`, `HistoryKeepsItsGraph`) and `ActiveRunFreezesPipeline`.

`pipeline_graphs`: `JudgementsAgree`, which is `ValidGraphsArePaths` (validation
against a definition without traversal) and `ExecutableMeansRunnable`
(`PlanAlwaysEnds`, `ExecutableGraphsHaveAPlan`, `PlannableGraphsAreExecutable`,
`ExecutableStepsAreAccepted`: of a graph the browser can enable, the worker accepts
a step if and only if it registers the component); `WizardInvariant` (`ResumeRestoresDraft`,
`OneVisitOnePipeline`, `CleanMeansSaved`).

`worker_data`: `SourceInvariant` (`NoGap`, `NothingTwice`) and
`EveryRecordDelivered`; `StorageInvariant` (`DescribedIsReadable`,
`NothingLeftStaged`, `ArtifactsMatchRows`).

`web`: `AccountsInvariant` (`LockedIsPending`, `SeededHasAccount`,
`RowsAreUnique`, `OneAccountPerIdentity`, `SetupOncePerReset`,
`PublishedIsPending`, `TokenOwnersWereSetUp`), `EstablishedChangesByResetOrOwner`
and `SubmissionsAreAnswered`; `PagesInvariant` (`ViewIsCurrent`, `HealthyWasOk`,
`LastSaveIsInForce`) and `LoadingEnds`; `TriggersInvariant`
(`FriendlyDescribesCron`, `UneditedSaveKeepsDefinitions`, `RuntimeFitsDefinition`);
`FormInvariant`
(`JsonShowsItsValue`, `OneUploadPerControl`, `UndisturbedFormKeepsEntries`).

### Bounds

Three requests for one pipeline are an active run, a waiting run and a third
that arrives meanwhile: every case of `InsertRun` and of a release that races
with a finishing worker occurs. Two pipelines and a limit of 2 make a batch that
spans pipelines. `backlog_progress` needs four runs: two that finish and two
that wait when the batch aborts. Two consecutive runs are enough for a late
checkpoint commit to meet the next run, three steps for a Source, a Transform
and an Export. Two jobs and two workers give every order of poll, claim and
finish of siblings. A batch of 1 with more expired records than that is a full
batch; two passes overlap in every way. Three triggers and a limit of 2 leave
one behind. Four steps and four edges are a diamond, a cycle beside a path, a
self-loop and a repeated edge. Pages of two and four records are a full, a
partial and an empty page, and with one page allowed a backlog beyond the
limit. Two blocks are a file that is missing, torn or whole. Two browsers and a
reset are two setups that race with each other and with a reset; two seeders
with two usernames are every race for an identity. Two changes of what is probed
are a component that fails and comes back during a load. A number of three
digits leaves the pattern of the friendly controls. Five edits are enough to
select a second component while the upload of the first is under way, and to
edit it.

No run checks deadlock: requests, faults and clocks are bounded, and a system
nobody asks anything really may stop. That nobody waits for ever is what the
liveness properties say.

### Fairness

- Scheduler sessions: strong fairness of each session's next statement, because
  another session may take the row in between and PostgreSQL serves lock
  waiters in order; a persistent wait cycle is broken (`deadlock_timeout`).
- Workers: weak fairness of `run_once`, a loop in a thread that nothing else
  blocks. A crashed worker has none, and no call is assumed to succeed.
- Collector and schedulers: passes recur (`setInterval`; for schedulers that of
  a deployment that calls `claimDueSchedules`) and a pass that began goes on;
  the clock reaches every expiry.
- Requests: a server answers what it has received. Nobody has to click, edit,
  request a run or restart anything.
- Stack and migrations: a process that can run runs; for `RecognisedIsMigrated`
  the operator repeats an invocation that failed.
- REST Source: a schedule keeps starting runs and a run goes to its end.
- Accounts: strong fairness of the steps of a submitted setup, because another
  transaction may take the row in between and PostgreSQL serves the waiters in
  turn; a deadlock is ended, and the reset script runs on.
- System page: the database and the file system answer or fail, a service answers
  or its two-second timeout fires, and an answer reaches the browser or is lost.

In `backlog_progress` promotion passes recur as well. Nothing in the repository
calls `promoteQueuedPipelineRuns` or `claimDueSchedules` from a timer, so this is
the fairness of a deployment that does.

## Where the code and its own words disagree

Three disagreements are runs that TLC must find violated; `PROJECT.json` quotes
the sentences.

- `backlog_progress`: the release statement of `createPipelineRun` and
  `findActiveRun` have different snapshots. When a worker finishes the active run
  between them, the finished row keeps `is_active` while another run becomes
  active. Once that has finished as well, every promotion pass selects both rows,
  promotes twice for the same pipeline and is aborted by the unique index, which
  also takes back the promotions of the other pipelines of the batch. A later
  `createPipelineRun` repairs the pipeline; without one the backlog stays.
- `worker_failed_job`: the failure handler ends the run only when a component was
  current, so a job that fails for good in `load_plan` or `start_run` leaves its
  run queued or running, and with it the pipeline blocked.
- `pipeline_editing_history`: an update replaces all components, which run history
  refers to with ON DELETE RESTRICT; after its first run a pipeline cannot be
  saved from the editor any more.

The models contain the following too; the properties above are stated so that
they say exactly what does hold.

| Where | What the model shows | Which property stops short of it |
|---|---|---|
| `run-queue.ts:267` | waiting runs are ordered by `scheduled_for` first and NULLs sort last: a manual run is overtaken by every scheduled one, although the doc comment says FIFO | `ImplementsStateMachine` (but for `Overtaken`) |
| `execution-state.ts:30` | the query for the in-flight run has no `is_active` condition and no order: with a backlog it returns any of several rows | |
| `update.ts:95` | an update may enable a pipeline, or change an enabled one, without the executable check that `setPipelineState` makes | `IndInv` (runs keep the graph they were queued with, executable or not) |
| `execution.py:408` | the checkpoint is committed after the run is terminal: the next run may start from the position before | `CheckpointAfterSuccess` (earlier, not latest) |
| `server.py:101` | shutdown never releases a job; a stopped or dead worker's job stays running and nothing reclaims it | `ClaimedJobEnds` (live workers) |
| `execution.py:410` | an exception after `finish_success` skips the cleanup: the Datasets of that successful run never expire | `FailedRunExpiresDatasets` (failed runs) |
| `cancellation.py:109` | an exception after the job was cancelled leaves the run running with nobody to end it | `CancellationCompletes` (no such exception) |
| `retention.ts:124` | a claim that arrives after a pass listed an expired upload removes the row, and the pass still removes the file | `LiveRowHasFile` (rows that have not expired) |
| `retention.ts:269` | a run with operational events can never be deleted, and one rejected deletion rejects the run part of the pass | `ExpiredIsCollected` (objects) |
| `retention.ts:154` | objects a pass cannot remove (S3, failing deletes) are listed again first; a whole batch of them stops collection | `ExpiredIsCollected` (less than a batch) |
| `main.ts:29` | a database error while a run is enqueued is an unhandled rejection and ends the scheduler with all its requests | `ClickEnds` (requests end; the process may not live) |
| `data/pipelines/actions.ts:109` | a response lost after the commit is shown as "could not be completed", and a repetition queues a second run; `parseErrorCode` turns `pipeline_not_executable` into the same message | `SuccessIsReal`, `RefusalIsReal` (nothing is promised of "unavailable") |
| `executable-validation.ts:88` | `step.kind` is never compared with the component's own kind: a mislabelled step of another API caller is enabled and fails on every run | `ExecutableStepsAreAccepted` (browser) |
| `pipeline-builder-wizard.tsx:138` | a reply clears the dirty flag of a draft that was edited meanwhile | `CleanMeansSaved` (not overtaken) |
| `cancellation.py:102` | "Executors call this between bounded units of Source, Transform, or Export work": `run_once` never does and no executor is given a `WorkerCancellation`, so a run that was asked to stop is executed to its end | `CancellationCompletes` (it ends, cancelled or not) |
| `execution.py:508` | `actions.ts:118` says that "a pipeline can never be enabled with a component [...] the running deployment cannot execute"; the catalogue lists 22 components and the worker registers nine: the others are enabled and fail in `resolve` (`registries.py:85-89`) | `ExecutableStepsAreAccepted` (exactly the registered ones) |
| `create.ts:43` | `executable-validation.ts:51` and `UX_SPEC.md:32` say that a persisted draft can be incomplete, and the wizard offers to save one; `validatePipelineGraph` refuses every graph that is not made of paths from a Source to an Export | `ValidGraphsArePaths` (what the code does) |
| `pipeline-builder-wizard.tsx:139` | a request whose wait has ended may be served after a later save and take its place; another tab, which resumes the same stored identifier, and the editor update the pipeline under a draft that stays clean | `CleanMeansSaved` (rows not written since) |
| `pipeline-builder-page.tsx:76` | a failed query removes the stored identifier, also the one a create has just stored, and the pipeline cannot be resumed | |
| `pipeline-builder-wizard.tsx:132` | after a create whose reply was lost, every later save is a create with the same identifiers and is refused | `OneVisitOnePipeline` (never a second one) |
| `read.ts:80` | a copy may combine the steps of one version with the triggers of another, and is made when they happen to fit | `CopiesFit` |
| `admin.ts:61` | `ensureFirstAdmin` promises to seed when there are no accounts at all; two seeders with different identities both find none and both insert | `OneAccountPerIdentity` (one identity) |
| `component-source-file-field.tsx:79` | the answer of an upload writes back the values of the render that started it, also after another component was selected, whose configuration then holds the previous one's keys (contrary to `pipeline-builder-draft.ts:63`), and over what was typed meanwhile | `UndisturbedFormKeepsEntries` (nobody acts during the upload) |
| `routes/api/auth/$.ts:6` | with Better Auth's endpoints an owner may choose the published password again, without a pending setup, and rename the account, after which a second seeder of the same identity inserts another | `PublishedIsPending`, `OneAccountPerIdentity` (but for what an owner has changed), `EstablishedChangesByResetOrOwner` |
| `settings-workspace.tsx:46` | a save whose connection broke may be stored after a newer one that was reported saved | `LastSaveIsInForce` (until a later statement is stored) |
| `update.ts:254` | saving the trigger panel, unedited too, replaces the rows: `next_run_at` and `last_claimed_at` are lost, which disarms the schedules, and `runs.trigger_id` becomes null | `UneditedSaveKeepsDefinitions` (definitions), `RuntimeFitsDefinition` |
| `pipeline-editor.tsx:76` | a refetch that finds new trigger rows discards unsaved trigger edits | |
| `update.ts:266` | neither create nor update sets `next_run_at`, which `claimDueSchedules` needs: a schedule created here never becomes due | `DueIsClaimed` (triggers that have a time) |
| `schedule-claims.ts:73` | one trigger whose cron expression does not parse fails the whole batch | |
| `rest_source.py:208` | a backlog longer than `maxPages` pages raises instead of stopping, and is never read | `EveryRecordDelivered` (within the limit) |
| `rest_source.py:473` | a watermark is sent as `str(value).lower()`, which changes text with capitals | `EveryRecordDelivered` (no capitals) |
| `rest_source.py:196` | an empty last page without a watermark erases the checkpoint; the proposed page token is always null, so resuming from a token is dead code | `NothingTwice` (APIs that repeat the watermark) |
| `artifacts.py:236` | when an insert committed and only its answer was lost, the file is removed and the row stays | `ArtifactsMatchRows` (no such answer) |
| `storage.py:351` | a process that dies leaves its staging file, which no row names and no pass lists; nothing is synced to disk, so a described file may lose its tail; an `unlink` that raises in `finally` (`storage.py:369`) leaves the staged file too | `NothingLeftStaged`, `DescribedIsReadable` (not those) |
| `development.mjs:78` | a supervisor started by stack-reset is not recognised by the next stack-up | `RunningIsRecorded` (stack-up) |
| `development.mjs:88` | a torn `local-stack.json` makes every later invocation fail | `InvocationsEnd` (an end, perhaps a failure) |
| `development.mjs:127` | the restart waits as long as the supervisor waits before SIGKILL, and fails when a service ignores SIGTERM | as above |
| `development.mjs:503` | a service that exits before its exit listener is registered is never missed | |

Seen on the way: the second, backward visit of
`assertGraphConnectsSourcesToExports` is redundant;
`ComponentSecretBindingFields` is rendered nowhere; production creates its
dataset storage without a key; a Parquet export cannot scan an encrypted Dataset.

## Proofs

All proofs are for arbitrary constants under the named assumptions of the
modules: names of absent values are values of their own, limits and bounds are
naturals, requests name pipelines, objects of different kinds are different, and
there is at least one tab and one schedule number to speak of. The sets of runs,
workers, passes, schedulers and so on need not be finite; the exceptions are
editors and copiers (`EditingAssumption`) and the writers, identifiers and keys
of `StorageAssumption`. Each theorem comes from an inductive invariant that
strengthens the one the runs check, with one lemma per action or group of
actions that disturb the same conjuncts; the last step of each is temporal
(`PTL`). Every safety invariant and action property of the passing runs is
stated by a theorem, except those listed at the end.

**RunQueueProofs**, `Spec => []IndInv`. `OneActiveRun` is not inductive: commits
publish a session's own writes, so the invariant must speak about every
session's view. `IndInv` adds

- `TxnShape`: a session past its lock statement holds the pipeline's row lock;
- `PendingWrites`: uncommitted releases concern finished active runs, and
  uncommitted promotions waiting runs, of pipelines the session has locked, so
  that no two sessions have writes on one pipeline;
- `OneActiveInView`: the index holds in each session's view;
- `FoundStaysActive`: a run found by `findActiveRun` stays active, its row being
  locked; without it `CreateLeavesActiveRun` fails;
- `JobsMatchRuns`, `CreatorsEnabled`: unfinished jobs belong to unfinished
  active runs, and creators past their check work on an enabled pipeline.

`EndTxnFrame` is what commits and rollbacks have in common. From `IndInv` follow
the theorems about its parts (`TypeCorrect`, `AtMostOneActiveRun`,
`RunsExecuteSerially`, `CreationNeverConflicts`, `ActivationCreatesJobs`,
`PendingRunsLockPipeline`) and, as action properties, `RunKeepsTurn` and
`CreationLeavesActiveRun`; `RunQueueInvariant` is `IndInv` with `TurnsInOrder`
(below). `BatchesAdvanceBacklogs` needs
`BatchSettled` besides: of every pipeline a promoter has released a run of, and
is not working on, it has promoted one or sees nothing waiting. Nobody else can
add a waiting run to it before the commit, because the promoter holds its row.

`QueueImplementsStateMachine`, for any pipeline, any requests and any schedule.
The mapping puts the waiting runs in a line, which is defined by what it must be
(`InLine`), and three facts about lines carry the proof: a set has at most one
(`LineUnique`, by the least index at which two lines differ), and the line
without its head, with a run at the end, or with a run inserted is again a line
(`TailOfLine`, `JoinAtEnd`, `JoinAhead`). The least-number principle, from
`WFMin`, stands in for induction. That there is a line at all would be an
induction over the size of the backlog; instead it is an invariant of the
behaviours, `BacklogInLine`, which every step re-establishes by one of the three
operations. `TurnsInOrder` also has `StampsDiffer`, which is about the model's clock and without
which the order has ties, and `PromotedInTurn`: what a promoter chose is still the head of the line
when it commits, although others have inserted runs meanwhile. `StepKinds` sorts
the steps of all sessions by what they do to the rows of a pipeline, and each
kind has its simulation lemma (`StepSimulated`).

**RunLifecycleProofs.** The parts of `QueueInOrder` together (the edit lock looks
at the active run only and needs `BacklogBehindActiveRun`), and from them
`FirstInFirstOut`, which needs `NoRunTwice`, and `CancellationSticks`, which
needs it too: the successor of a completed run is another run.
`CancellationInvariant` with `AttemptsLeft` (a queued job has an attempt left, or
was released) and `CleanupSawEnd` (a worker about to give up the Datasets has
seen the end of the run, which is final); `CancelledOnRequest` from it. The heart
is that no step makes a job queued or running that was neither, once the run is
cancelled.

**WorkerExecutionProofs.** `WorkerInvariant` and `CheckpointAfterSuccess` from
`WorkerInv`: `RowsAgree` (a live job belongs to a live run, a job that may be
claimed has an attempt left, runs are live one at a time), `AtCall` (what a worker
may rely on at each call: it owns its job in the calls of the try block, and at
the last step's success what it exported is recorded or committed), and
`OutputHasOwner`, which names the attempt a file belongs to: without it a
requeued job's next worker could not be told from the one that wrote the file.

**ServicesProofs.** `ScheduleInvariant` with `PassOwnsRows`: a pass owns both
rows of everything it selected until it ends, so what it read of them stays
true. `RunsAreDue` (no run before its occurrence, none for a disabled pipeline)
follows. `RetentionInvariant` with `FileBeforeRow` (a pass turns to a row only
once the file is gone, and no file comes back under a listed name) and
`ClaimsHaveRows`.

**ControlPlaneProofs.** `EditingInvariant` with `RealGraphs` (a save in flight
and a stored pipeline name a real graph), and `ActiveRunFreezesPipeline`.
`RequestInvariant` from `RequestInv`: `TabsAwaitTheirOwn`, `AnswersAreTrue` (a
request has an effect in its last steps only, and its code says which),
`RefusedIsSettled` and `FewGivenUp`, which counts the requests a tab no longer
waits for against the faults and is proved with the cardinality theorems;
`EffectsAreLegal` from it.

`WizardInvariant` from `WizardInv`, for any catalogue and whatever `Connects`
demands. It says that drafts and stored graphs are chains (`DraftOK`,
`ChainGraph`: a Source at most first, an Export at most last, every identifier
once); `SavingOK`, that a save in flight carries the draft unless the draft was
edited since, and that what was stored is what was sent; and `VisitOK`, that
every pipeline created since the page was opened holds the identifier of the
draft's Source. No edit, of this page or of another, changes that identifier, and
a graph that is accepted has a Source, so a second create of one visit meets a
stored identifier and conflicts; a lost reply changes nothing of this. `LateOK`
says the same of the requests nobody waits for, which write a row older
than themselves, or their own, and take it out of `current`; `StoreOK`,
`CountersOK` and `CleanIsStored` are the rest. The round trip is
`ResumeInvertsSave`: the rows of a chain have exactly one that no edge leads to
(`HeadOfChain`), from each step the loop goes on to the next (`FollowChain`),
and so the loop restores the chain (`OrderRestored`) and the filters by kind cut
it into the three slots (`StretchOfKind`). What the two recursive functions
compute is shown without induction: a closed form satisfies the recursion, and
two solutions agree because there is no least index at which they differ
(`LeastNumber`).

**WorkerDataProofs.** `SourceInvariant` from `SourceInv`: `RunMemory`,
`PagesSoFar` (while page tokens are followed, everything from the committed
watermark to the position is read), `WatermarkEndsPages`, `SucceededIsDelivered`
and `NothingBeyond` the watermark. `StorageInvariant` from `StorageInv`: `OwnIds`
(no two writes meet), `AtWork` (what a write relies on from one step to the next:
the staged file is whole, the encrypted one has the writer's key) and `IdOK` (what
is left of an identifier afterwards). The key is the one of the process that
wrote, which a restart may change.

**DevelopmentProofs.** `StackInvariant` from `StackInv`: `NothingLeft` after an
escalated shutdown, and, as long as invocations of stack-up follow one another
(`InTurn`), `Orderly`: one starts at a time, the file names the supervisor until
it has gone, and a starting invocation waits for exactly that one.
`MigrationInvariant` from `MigrationInv`: the database's own part
(`HistoryInOrder`, `PartialStops`) and what each invocation knows of a database
that others migrate meanwhile (`KnownOf`, `ReadingOf`, `AdoptingOf`,
`MigratingOf`): a gap below a present migration is never overlooked, because the
catalog only grows. `PartialIsUntouched` follows.

**WebProofs.** `AccountsInvariant` from `AccountsInv`, which adds
`AccountsHaveSeeders`, `SetupsAreValidated`, `NamedAccountsExist`,
`SetupsAreCounted` (a pending account is one setup behind its resets, which makes
`SetupOncePerReset` inductive) and `OwnersWereSetUp`;
`EstablishedChangesByResetOrOwner` from it. `PagesInvariant` with `OneLoadAtATime`,
`FoundWasOk` (what a probe found healthy was ok at an instant of its load) and
`WriterKnowsRow` (the page whose awaited save was stored last has sent, or shows,
what is stored; a statement nobody awaits leaves no such page).
`TriggersInvariant` from `DraftFollowsCache`, `RuntimeFitsDefinition`, which is
inductive because nothing of the old rows survives a replacement, and the lemma
`RoundTrip`: for every expression, rendering its friendly reading gives it back.
`FormInvariant` with `UndisturbedUpload`: as long as the operator does not act,
the one upload under way closed over the current values.

Only model-checked:

- liveness: `TransactionsEnd`, `ClaimedJobEnds`, `CancellationCompletes`,
  `ExpiredIsCollected`, `DueIsClaimed`, `InvocationsEnd`, `RecognisedIsMigrated`,
  `ClickEnds`, `EveryRecordDelivered`, `SubmissionsAreAnswered`, `LoadingEnds`:
  the prover does not do fairness;
- `JudgementsAgree`: the traversals of `PipelineGraphs` are recursive operators on
  work lists, which the prover does not take.

## Not modelled

- Better Auth, beyond what sign-in, sessions, `/change-password`, `/update-user`
  and its tables mean for the code here (an expired session is also a fault of
  `RunRequests`).
- `PostgresJobQueue.heartbeat`, which nothing calls; creates of other API clients and the
  single-page cache of the wizard's page; what another page saves of a wizard's
  pipeline is one edit of the stored row at a time.
- Import of a portable definition, which nothing calls.
- File Sources, Transforms, Exports and the PostgreSQL components: functions of
  their input and of one statement each, without state between calls.
- `packages/{config,contracts,logging,ui}`, localisation, routing, listings and
  rendering. The contracts that decide whether a request is accepted are in
  `PipelineGraphs`.
- The data in records, schemas and configurations beyond what a judgement tells
  apart; cron arithmetic; path checks of the storage root; the cryptography.
- Development commands that only run other programs (setup, generate, migrate)
  and the status report.
- S3, the remote API, PostgreSQL and drizzle-kit are external: modelled as far
  as the code's use of them shows.

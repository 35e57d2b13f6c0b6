------------------------ MODULE PipelineStateMachine ------------------------
(***************************************************************************)
(* The execution state machine of ONE pipeline, as the domain package      *)
(* promises it (packages/pipeline/src/state-machine.ts): availability set  *)
(* by the user, at most one active run, and a first-in first-out backlog.  *)
(* Every exported function of the source is one action; a call the source  *)
(* rejects with PipelineStateTransitionError is a call that is not         *)
(* enabled here.  RunQueue.tla implements this machine in PostgreSQL.      *)
(***************************************************************************)
EXTENDS Naturals, Sequences

CONSTANTS RunIds,   \* run identifiers callers may use (non-empty strings in the source)
          NoRun     \* "activeRun: undefined"

VARIABLES pipelineState,   \* user-controlled availability
          activeRun,       \* the only run that may be queued or executing, or NoRun
          queuedRunIds     \* later triggers, in arrival order

vars == <<pipelineState, activeRun, queuedRunIds>>

PipelineStates == {"draft", "enabled", "disabled"}

ActivePipelineRun ==
  [id: RunIds, state: {"queued", "running"}, cancellationRequested: BOOLEAN]

ASSUME NoRunAssumption == NoRun \notin ActivePipelineRun

QueuedActive(id) == [id |-> id, state |-> "queued", cancellationRequested |-> FALSE]

QueuedIds == {queuedRunIds[i] : i \in DOMAIN queuedRunIds}

containsRun(id) ==
  \/ activeRun # NoRun /\ activeRun.id = id
  \/ id \in QueuedIds

isPipelineEditable == activeRun = NoRun

-----------------------------------------------------------------------------

\* createPipelineExecutionState: idle, in the given availability.
Init ==
  /\ pipelineState \in PipelineStates
  /\ activeRun = NoRun
  /\ queuedRunIds = <<>>

setPipelineState(state) ==
  /\ isPipelineEditable
  /\ pipelineState' = state
  /\ UNCHANGED <<activeRun, queuedRunIds>>

\* Faulty: the new run is put in front.
enqueueInFront(id) ==
  /\ pipelineState = "enabled"
  /\ ~containsRun(id)
  /\ IF activeRun = NoRun
     THEN activeRun' = QueuedActive(id) /\ UNCHANGED queuedRunIds
     ELSE queuedRunIds' = <<id>> \o queuedRunIds /\ UNCHANGED activeRun
  /\ UNCHANGED pipelineState

enqueuePipelineRun(id) ==
  /\ pipelineState = "enabled"
  /\ ~containsRun(id)
  /\ IF activeRun = NoRun
     THEN activeRun' = QueuedActive(id) /\ UNCHANGED queuedRunIds
     ELSE queuedRunIds' = Append(queuedRunIds, id) /\ UNCHANGED activeRun
  /\ UNCHANGED pipelineState

\* Faulty: starting forgets a cancellation request instead of refusing.
startCancelledRun ==
  /\ activeRun # NoRun
  /\ activeRun.state = "queued"
  /\ activeRun' = [activeRun EXCEPT !.state = "running", !.cancellationRequested = FALSE]
  /\ UNCHANGED <<pipelineState, queuedRunIds>>

startActiveRun ==
  /\ activeRun # NoRun
  /\ activeRun.state = "queued"
  /\ ~activeRun.cancellationRequested
  /\ activeRun' = [activeRun EXCEPT !.state = "running"]
  /\ UNCHANGED <<pipelineState, queuedRunIds>>

requestActiveRunCancellation ==
  /\ activeRun # NoRun
  /\ ~activeRun.cancellationRequested
  /\ activeRun' = [activeRun EXCEPT !.cancellationRequested = TRUE]
  /\ UNCHANGED <<pipelineState, queuedRunIds>>

\* Faulty: the pipeline is released without promoting.
completeWithoutPromotion ==
  /\ activeRun # NoRun
  /\ activeRun' = NoRun
  /\ UNCHANGED <<pipelineState, queuedRunIds>>

\* The terminal result is not retained: any terminal state releases the
\* pipeline and the head of the backlog becomes the active run.
completeActiveRun ==
  /\ activeRun # NoRun
  /\ IF queuedRunIds = <<>>
     THEN activeRun' = NoRun /\ UNCHANGED queuedRunIds
     ELSE /\ activeRun' = QueuedActive(Head(queuedRunIds))
          /\ queuedRunIds' = Tail(queuedRunIds)
  /\ UNCHANGED pipelineState

Next ==
  \/ \E state \in PipelineStates : setPipelineState(state)
  \/ \E id \in RunIds : enqueuePipelineRun(id)
  \/ startActiveRun
  \/ requestActiveRunCancellation
  \/ completeActiveRun

Spec == Init /\ [][Next]_vars

-----------------------------------------------------------------------------

\* Every state the exported functions can produce is a well-formed
\* PipelineExecutionState.
TypeOK ==
  /\ pipelineState \in PipelineStates
  /\ activeRun \in ActivePipelineRun \cup {NoRun}
  /\ queuedRunIds \in Seq(RunIds)

\* A backlog exists only behind an active run.  isPipelineEditable looks at
\* activeRun alone, so the edit lock of setPipelineState covers waiting runs
\* only because of this.
BacklogBehindActiveRun == queuedRunIds # <<>> => activeRun # NoRun

\* Work exists only for an enabled pipeline: no sequence of calls leaves a
\* queued or running run behind a pipeline that was disabled or sent back to
\* draft.
WorkOnlyWhenEnabled == activeRun # NoRun => pipelineState = "enabled"

\* No run is represented twice, so completing a run can never hand the
\* pipeline to a run that has already had its turn.
NoRunTwice ==
  /\ \A i, j \in DOMAIN queuedRunIds :
        queuedRunIds[i] = queuedRunIds[j] => i = j
  /\ activeRun # NoRun => activeRun.id \notin QueuedIds

\* After any sequence of calls the machine is in order: its parts have their
\* types, waiting runs have an active one ahead of them, work belongs to an
\* enabled pipeline, and every run is there once.
QueueInOrder == TypeOK /\ BacklogBehindActiveRun /\ WorkOnlyWhenEnabled /\ NoRunTwice

\* Runs take their turn strictly in arrival order: the pipeline passes from
\* one run to another only to the head of the backlog, and nobody already
\* waiting is overtaken or dropped.
FirstInFirstOut ==
  [][/\ (activeRun # NoRun /\ activeRun' # NoRun /\ activeRun'.id # activeRun.id)
          => queuedRunIds = <<activeRun'.id>> \o queuedRunIds'
     /\ (activeRun = NoRun \/ activeRun' = NoRun) => queuedRunIds' = <<>>
     /\ (activeRun # NoRun /\ activeRun' # NoRun /\ activeRun'.id = activeRun.id)
          => SubSeq(queuedRunIds', 1, Len(queuedRunIds)) = queuedRunIds]_vars

\* A cooperative cancellation is never lost: once requested it stays on the
\* active run until that run completes, and a run cancelled before it began
\* never begins.
CancellationSticks ==
  [][(activeRun # NoRun /\ activeRun.cancellationRequested) =>
       \/ activeRun' = activeRun
       \/ activeRun' = NoRun
       \/ activeRun'.id # activeRun.id]_vars
=============================================================================

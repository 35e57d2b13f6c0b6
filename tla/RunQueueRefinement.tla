------------------------- MODULE RunQueueRefinement -------------------------
(***************************************************************************)
(* The run queue implements the state machine of packages/pipeline for     *)
(* every pipeline.  A pipeline whose active run just became terminal has,  *)
(* in the domain's terms, already handed its turn to the oldest waiting    *)
(* run; the scheduler makes that true in the rows some time later.         *)
(***************************************************************************)
EXTENDS RunQueue, SequencesExt

CONSTANT p1   \* the pipeline looked at

\* The runs that promotion takes before a run.
Ahead == [r \in Runs |-> {s \in Runs : Precedes(s, r)}]

\* s lists the runs of W, each ahead of the ones after it.
InLine(s, W, ahead) ==
  /\ s \in Seq(W)
  /\ \A r \in W : \E i \in 1..Len(s) : s[i] = r
  /\ \A i, j \in 1..Len(s) : i < j => s[i] \in ahead[s[j]]

LineOf(W, ahead) == CHOOSE s \in [1..Cardinality(W) -> W] : InLine(s, W, ahead)

\* The backlog in the order promotion takes it.
Backlog(p) == LineOf(WaitingRuns(p), Ahead)

RunInTurn(p) ==
  IF ActiveRuns(p) # {} THEN CHOOSE r \in ActiveRuns(p) : TRUE
  ELSE IF Backlog(p) # <<>> THEN Head(Backlog(p))
  ELSE Nobody

MappedActiveRun(p) ==
  IF RunInTurn(p) = Nobody THEN Nobody
  ELSE [id |-> RunInTurn(p), state |-> runState[RunInTurn(p)], cancellationRequested |-> FALSE]

MappedBacklog(p) ==
  IF ActiveRuns(p) # {} \/ Backlog(p) = <<>> THEN Backlog(p) ELSE Tail(Backlog(p))

\* The machine has no deletion: a deleted pipeline, which has no runs and can
\* get none, is to it a pipeline sent back to draft for good.
MappedState(p) == IF pipelineState[p] = "deleted" THEN "draft" ELSE pipelineState[p]

Machine == INSTANCE PipelineStateMachine
  WITH RunIds <- RunsOf(p1), NoRun <- Nobody,
       pipelineState <- MappedState(p1),
       activeRun <- MappedActiveRun(p1),
       queuedRunIds <- MappedBacklog(p1)

ASSUME MappingAssumption ==
  /\ p1 \in Pipelines
  /\ Nobody \notin Machine!ActivePipelineRun

\* A request's "now" is taken before it waits for the pipeline's row, and a
\* request for an occurrence goes before a manual one: a run may be inserted
\* behind one that it precedes, and takes its place ahead of that one.
Overtaken ==
  \E t \in Creators, i \in DOMAIN MappedBacklog(p1) :
    /\ pc[t] = "insert" /\ current[t] = p1
    /\ Precedes(request[t], MappedBacklog(p1)[i])
    /\ MappedState(p1) = "enabled"
    /\ MappedBacklog(p1)' = InsertAt(MappedBacklog(p1), i, request[t])
    /\ UNCHANGED <<MappedState(p1), MappedActiveRun(p1)>>

\* Every step of the transactions, workers and edits is, for a pipeline, a step
\* of the domain state machine or none: one run at a time, turns handed over
\* first in first out, edits only when idle.  The one exception is the insertion
\* of a request that was overtaken: it goes ahead of runs that wait, never of the
\* run whose turn it is.
ImplementsStateMachine == Machine!Init /\ [][Machine!Next \/ Overtaken]_(Machine!vars)

-----------------------------------------------------------------------------
(* What the refinement rests on besides RunQueue's invariant *)

\* The runs whose "now" has been taken.
Stamped == {r \in Runs : runState[r] # "none" \/ \E t \in Creators : request[t] = r}

\* No two requests have the same "now".
StampsDiffer ==
  \A r \in Stamped :
    /\ createdAt[r] < clock
    /\ \A s \in Stamped : createdAt[r] = createdAt[s] => r = s

\* A run promoted but not committed still waits in the rows, before all others.
PromotedInTurn ==
  \A t \in Txns : \A q \in promoted[t] :
    /\ q \in WaitingRuns(PipelineOf[q])
    /\ \A s \in WaitingRuns(PipelineOf[q]) \ {q} : Precedes(q, s)

\* The waiting runs can be put in a line, and the backlog is that line.
BacklogInLine == InLine(Backlog(p1), WaitingRuns(p1), Ahead)

\* Turns are in order at every moment of a promotion: a batch that has promoted a
\* run and not committed yet, while others request, insert and promote, still has
\* the run whose turn it is; the backlog is one line with everybody in it once.
TurnsInOrder == StampsDiffer /\ PromotedInTurn /\ BacklogInLine

\* A pipeline has one run at a time, in the rows and for the workers, whatever
\* creators, promoters and workers interleave, and the others wait in one line;
\* between any two statements of the transactions all that this rests on holds.
RunQueueInvariant == OneRunAtATime /\ IndInv /\ TurnsInOrder
=============================================================================

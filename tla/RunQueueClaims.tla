--------------------------- MODULE RunQueueClaims ---------------------------
(***************************************************************************)
(* A sentence of the repository about the run queue that the code does not *)
(* keep.                                                                   *)
(***************************************************************************)
EXTENDS RunQueue

CONSTANTS p1, r1, r2, r3, r4, g1, c1, d1

OnePipeline == [r \in Runs |-> p1]
AllManual == [r \in Runs |-> NotScheduled]

\* promoteQueuedPipelineRuns "guarantees that a same-pipeline backlog
\* progresses even when no later trigger arrives".
BacklogProgresses ==
  \A p \in Pipelines :
    (WaitingRuns(p) # {} /\ ActiveRuns(p) = {}) ~> (ActiveRuns(p) # {})
=============================================================================

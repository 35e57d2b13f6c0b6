----------------------- MODULE WorkerExecutionClaims -----------------------
(***************************************************************************)
(* What the documents and comments of the repository say of the worker and *)
(* its code does not do.                                                   *)
(***************************************************************************)
EXTENDS WorkerExecution

SomeWorkerDead == \E w \in Workers : pc[w] = "dead"

\* execution.py:117, :291: a run is finished after its terminal source job
\* failure.
FailedJobFailsRun ==
  \A r \in Runs : (job[r].state = "failed") ~> (run[r] = "failed" \/ SomeWorkerDead)
=============================================================================

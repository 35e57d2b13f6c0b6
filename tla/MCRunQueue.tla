----------------------------- MODULE MCRunQueue -----------------------------
(***************************************************************************)
(* The run queue on small instances.  Which contention a behaviour is      *)
(* about is fixed in Init: two creators against a promoter and the control *)
(* plane, one batch over two pipelines, or two promoters against a creator.*)
(***************************************************************************)
EXTENDS RunQueueRefinement

CONSTANTS p2, r1, r2, r3, r4, g1, g2, c1, c2, d1, d2

VARIABLE subject

\* Three requests for p1 and one for p2, all manual.
RequestedPipeline == [r \in Runs |-> IF r = r4 THEN p2 ELSE p1]
AllManual == [r \in Runs |-> NotScheduled]

Actors ==
  CASE subject = "creation" -> {c1, c2, d1}
    [] subject = "batches" -> {c1, d1}
    [] subject = "locks" -> {c1, d1, d2}

Requests == IF subject = "batches" THEN {r1, r2, r4} ELSE {r1, r2, r3}

\* Requests are interchangeable: their ids are drawn in one order.
Drawn(r) == r = r4 \/ \A s \in {r1, r2} :
  (r = r3 \/ (r = r2 /\ s = r1)) => runState[s] # "none" \/ \E t \in Creators : request[t] = s

MCInit ==
  /\ subject \in {"creation", "batches", "locks"}
  /\ Init
  /\ \A p \in Pipelines : graph[p] = g1

\* Creation is about edits, the others are about failures.
Edit(p) ==
  \/ subject = "creation" /\ p = p1 /\ WebStep(p)
  \/ subject = "batches" /\ SetPipelineState(p, "enabled")
  \/ subject = "locks" /\ p = p1 /\ SetPipelineState(p, "enabled")
Work(r) ==
  \/ subject # "creation" /\ WorkerStep(r)
  \/ subject = "creation" /\ (ClaimNextJob(r) \/ StartRun(r) \/ FinishSuccess(r))

MCNext ==
  /\ \/ \E t \in Creators \cap Actors :
          CreateStep(t) \/ \E r \in Requests : Drawn(r) /\ BeginCreate(t, r)
     \/ \E t \in Promoters \cap Actors : PromoteStep(t) \/ BeginPromote(t)
     \/ \E t \in Txns : AbortDeadlocked(t)
     \/ \E p \in Pipelines : Edit(p)
     \/ \E r \in Runs : Work(r)
  /\ UNCHANGED subject

mcVars == <<subject, vars>>

\* Sessions keep executing, lock waiters are served and wait cycles broken;
\* workers, users and the scheduler's loop need not go on.
MCSpec ==
  /\ MCInit /\ [][MCNext]_mcVars
  /\ \A t \in Creators : SF_vars(CreateStep(t))
  /\ \A t \in Promoters : SF_vars(PromoteStep(t))
  /\ \A t \in Txns : WF_vars(AbortDeadlocked(t))
=============================================================================

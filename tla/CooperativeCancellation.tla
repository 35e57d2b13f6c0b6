----------------------- MODULE CooperativeCancellation -----------------------
(***************************************************************************)
(* Cooperative cancellation of a run (workers/python/cancellation.py and   *)
(* the cancellation transitions of workers/python/job_queue.py): an        *)
(* executor that calls raise_if_requested between units of work cancels,   *)
(* on a request, its own job, the queued sibling jobs and, when no job is  *)
(* left, the run, in four separate transactions that interleave with       *)
(* claims, releases, retries and the ordinary end of sibling jobs.         *)
(*                                                                         *)
(* Only tests call raise_if_requested: run_once of execution.py does not,  *)
(* so the worker create_execution_service builds never polls. Which        *)
(* workers' executors poll is left open here (polls): none, some or all.   *)
(*                                                                         *)
(* The program that sets runs.cancellation_requested_at is not part of the *)
(* repository; Request stands for it.                                      *)
(***************************************************************************)
EXTENDS Naturals

CONSTANTS
  Workers, Nobody,
  Jobs,         \* the source jobs of one run
  MaxAttempts,  \* jobs.retry_max_attempts
  MaxReleases,  \* bound: calls of release
  MaxFaults     \* bound: database calls of the cancellation that raise

ASSUME ConstantsAssumption ==
  /\ Nobody \notin Workers
  /\ MaxAttempts \in Nat \ {0}
  /\ MaxReleases \in Nat /\ MaxFaults \in Nat

VARIABLES
  polls,      \* the workers whose executors call raise_if_requested
  run,        \* runs.state
  requested,  \* runs.cancellation_requested_at IS NOT NULL
  job,        \* state, worker_id and attempt of a job
  done,       \* jobs whose run_steps all succeeded
  rows,       \* jobs that recorded a temporary Dataset
  expired,    \* the run's datasets rows with expires_at set
  pc, at,     \* a worker's next call, and its job
  releases, faults

cancellationVars == <<polls, run, requested, job, done, rows, expired, pc, at, releases, faults>>

Calls == {"start", "work", "poll", "finish", "fail", "finish_failure",
          "cancel", "pending", "finalize", "cleanup"}
Terminal == run \in {"succeeded", "failed", "cancelled"}
Owns(w) == job[at[w]].state = "running" /\ job[at[w]].worker = w
Goto(w, l) == pc' = [pc EXCEPT ![w] = l]

CancellationTypeOK ==
  /\ polls \subseteq Workers
  /\ run \in {"queued", "running", "succeeded", "failed", "cancelled"}
  /\ requested \in BOOLEAN
  /\ job \in [Jobs -> [state : {"queued", "running", "succeeded", "failed", "cancelled"},
                       worker : Workers \cup {Nobody}, attempt : 0..MaxAttempts + MaxReleases]]
  /\ done \subseteq Jobs /\ rows \subseteq Jobs /\ expired \subseteq rows
  /\ pc \in [Workers -> Calls \cup {"idle"}]
  /\ at \in [Workers -> Jobs]
  /\ releases \in 0..MaxReleases /\ faults \in 0..MaxFaults

CancellationInit ==
  /\ polls \in SUBSET Workers
  /\ run = "queued" /\ requested = FALSE
  /\ job = [j \in Jobs |-> [state |-> "queued", worker |-> Nobody, attempt |-> 0]]
  /\ done = {} /\ rows = {} /\ expired = {}
  /\ pc = [w \in Workers |-> "idle"]
  /\ at \in [Workers -> Jobs]
  /\ releases = 0 /\ faults = 0

Request ==
  /\ ~Terminal /\ ~requested
  /\ requested' = TRUE
  /\ UNCHANGED <<polls, run, job, done, rows, expired, pc, at, releases, faults>>

-----------------------------------------------------------------------------
(* Ordinary execution of a job, as far as it interferes. *)

ClaimNext(w) ==
  /\ pc[w] = "idle"
  /\ \E j \in Jobs :
       /\ job[j].state = "queued"
       /\ job' = [job EXCEPT ![j] = [state |-> "running", worker |-> w, attempt |-> @.attempt + 1]]
       /\ at' = [at EXCEPT ![w] = j]
  /\ Goto(w, "start")
  /\ UNCHANGED <<polls, run, requested, done, rows, expired, releases, faults>>

StartRun(w) ==
  /\ pc[w] = "start"
  /\ run' = IF run = "queued" THEN "running" ELSE run
  /\ Goto(w, "work")
  /\ UNCHANGED <<polls, requested, job, done, rows, expired, at, releases, faults>>

\* The work of a job, one bounded unit when its executor polls; it records its
\* Dataset and may raise.
Work(w) ==
  /\ pc[w] = "work"
  /\ \/ rows' = rows \cup {at[w]} /\ Goto(w, IF w \in polls THEN "poll" ELSE "finish")
     \/ Goto(w, "fail") /\ UNCHANGED rows
  /\ UNCHANGED <<polls, run, requested, job, done, expired, at, releases, faults>>

\* finish_success: job and run in one transaction, both or neither.
FinishSuccess(w) ==
  /\ pc[w] = "finish"
  /\ done' = done \cup {at[w]}
  /\ IF Owns(w) /\ run = "running" /\ done' = Jobs
       THEN /\ job' = [job EXCEPT ![at[w]].state = "succeeded", ![at[w]].worker = Nobody]
            /\ run' = "succeeded"
            /\ Goto(w, "idle")
       ELSE Goto(w, "fail") /\ UNCHANGED <<job, run>>
  /\ UNCHANGED <<polls, requested, rows, expired, at, releases, faults>>

\* _FAIL_OR_REQUEUE: attempts remain.
Retry(w) == job[at[w]].attempt < MaxAttempts

\* fail() in _handle_failure; nothing happens to a job this worker lost.
Fail(w) ==
  /\ pc[w] = "fail"
  /\ IF Owns(w)
       THEN /\ job' = [job EXCEPT ![at[w]].state = IF Retry(w) THEN "queued" ELSE "failed",
                                  ![at[w]].worker = Nobody]
            /\ Goto(w, IF Retry(w) THEN "idle" ELSE "finish_failure")
       ELSE Goto(w, "idle") /\ UNCHANGED job
  /\ UNCHANGED <<polls, run, requested, done, rows, expired, at, releases, faults>>

FinishFailure(w) ==
  /\ pc[w] = "finish_failure"
  /\ run' = IF run \in {"queued", "running"} THEN "failed" ELSE run
  /\ expired' = rows
  /\ Goto(w, "idle")
  /\ UNCHANGED <<polls, requested, job, done, rows, at, releases, faults>>

\* release() hands a claim back between two units of work.
Release(w) ==
  /\ pc[w] \in {"work", "poll"} /\ Owns(w)
  /\ releases < MaxReleases
  /\ releases' = releases + 1
  /\ job' = [job EXCEPT ![at[w]].state = "queued", ![at[w]].worker = Nobody]
  /\ Goto(w, "idle")
  /\ UNCHANGED <<polls, run, requested, done, rows, expired, at, faults>>

-----------------------------------------------------------------------------
(* raise_if_requested, one transaction after the other. *)

\* Faulty: owning the job is enough.
MayCancelUnasked(w) == Owns(w)

\* The predicate of _CANCELLATION_REQUESTED and of _CANCEL_IF_REQUESTED.
MayCancel(w) == Owns(w) /\ requested

CancellationRequested(w) ==
  /\ pc[w] = "poll"
  /\ Goto(w, IF MayCancel(w) THEN "cancel" ELSE "finish")
  /\ UNCHANGED <<polls, run, requested, job, done, rows, expired, at, releases, faults>>

\* JobClaimLost when the claim is gone by now.
CancelIfRequested(w) ==
  /\ pc[w] = "cancel"
  /\ IF MayCancel(w)
       THEN /\ job' = [job EXCEPT ![at[w]].state = "cancelled", ![at[w]].worker = Nobody]
            /\ Goto(w, "pending")
       ELSE Goto(w, "fail") /\ UNCHANGED job
  /\ UNCHANGED <<polls, run, requested, done, rows, expired, at, releases, faults>>

\* Faulty: with no sibling to cancel there is nothing left to do.
CancelPendingReturnsEarly(w) ==
  /\ pc[w] = "pending"
  /\ job' = [j \in Jobs |-> IF job[j].state = "queued" /\ requested
                            THEN [job[j] EXCEPT !.state = "cancelled"] ELSE job[j]]
  /\ Goto(w, IF job' = job THEN "fail" ELSE "finalize")
  /\ UNCHANGED <<polls, run, requested, done, rows, expired, at, releases, faults>>

CancelPendingForRun(w) ==
  /\ pc[w] = "pending"
  /\ job' = [j \in Jobs |-> IF job[j].state = "queued" /\ requested
                            THEN [job[j] EXCEPT !.state = "cancelled"] ELSE job[j]]
  /\ Goto(w, "finalize")
  /\ UNCHANGED <<polls, run, requested, done, rows, expired, at, releases, faults>>

\* Faulty: only running siblings keep the run alive.
MayFinalizeDespiteQueued == run = "running" /\ requested /\ \A j \in Jobs : job[j].state # "running"

\* _FINALIZE_CANCELLED_RUN: no job queued or running.
MayFinalize == run = "running" /\ requested /\ \A j \in Jobs : job[j].state \notin {"queued", "running"}

FinalizeCancelledRun(w) ==
  /\ pc[w] = "finalize"
  /\ run' = IF MayFinalize THEN "cancelled" ELSE run
  /\ Goto(w, IF MayFinalize THEN "cleanup" ELSE "fail")
  /\ UNCHANGED <<polls, requested, job, done, rows, expired, at, releases, faults>>

\* mark_run_cleanup_eligible; then CancellationRequested ends in _handle_failure.
MarkRunCleanupEligible(w) ==
  /\ pc[w] = "cleanup"
  /\ expired' = rows
  /\ Goto(w, "fail")
  /\ UNCHANGED <<polls, run, requested, job, done, rows, at, releases, faults>>

\* A database error between the transactions is handled like any other.
CancellationRaises(w) ==
  /\ pc[w] \in {"poll", "cancel", "pending", "finalize", "cleanup"}
  /\ faults < MaxFaults
  /\ faults' = faults + 1
  /\ Goto(w, "fail")
  /\ UNCHANGED <<polls, run, requested, job, done, rows, expired, at, releases>>

-----------------------------------------------------------------------------
RaiseIfRequested(w) ==
  \/ CancellationRequested(w) \/ CancelIfRequested(w) \/ CancelPendingForRun(w)
  \/ FinalizeCancelledRun(w) \/ MarkRunCleanupEligible(w)

RunOnce(w) ==
  \/ ClaimNext(w) \/ StartRun(w) \/ Work(w) \/ FinishSuccess(w)
  \/ Fail(w) \/ FinishFailure(w) \/ RaiseIfRequested(w)

CancellationNext == Request \/ \E w \in Workers : RunOnce(w) \/ Release(w) \/ CancellationRaises(w)

CancellationSpec == CancellationInit /\ [][CancellationNext]_cancellationVars

-----------------------------------------------------------------------------
(* Properties. *)

\* A cancelled run has stopped for good: no job of it is queued for a claim or
\* still running, although siblings were claimed, requeued by a failure or
\* released while the four transactions ran (_FINALIZE_CANCELLED_RUN).
CancelledRunIsQuiet ==
  run = "cancelled" => \A j \in Jobs : job[j].state \notin {"queued", "running"}

\* The collector is never told to remove the Datasets of a run that may still
\* read them (raise_if_requested: only if run_is_terminal).
CleanupOnlyAfterTerminal == expired # {} => Terminal

\* Between any two of the four transactions: types, a quiet cancelled run, and
\* no Dataset given up early.
CancellationInvariant == CancellationTypeOK /\ CancelledRunIsQuiet /\ CleanupOnlyAfterTerminal

\* A run is not reported cancelled, nor any job of it, without a request, and a
\* terminal state is final (job_queue.py, WHERE cancellation_requested_at).
CancelledOnRequest ==
  [][/\ \A j \in Jobs : job'[j].state = "cancelled" /\ job[j].state # "cancelled" => requested
     /\ Terminal => run' = run]_cancellationVars

\* A run whose cancellation was requested ends: whichever executor polls first,
\* whether all of them do, some or none (then its jobs end as if nobody had
\* asked), and whatever its siblings do meanwhile, unless the database fails
\* between two transactions of raise_if_requested. A worker that polls may leave
\* a job cancelled that another one needed to finish the run; it does not leave
\* the run without anybody to end it.
RequestedRunEnds == requested ~> (Terminal \/ faults > 0)

\* Unless the database fails so, the Datasets of a cancelled run all become
\* eligible for collection (mark_run_cleanup_eligible).
CancelledRunExpires == run = "cancelled" ~> (expired = rows \/ faults > 0)

\* Polling never strands a run: it ends, by its cancellation or by its jobs, and
\* when it was cancelled its Datasets are given to the collector.
CancellationCompletes == RequestedRunEnds /\ CancelledRunExpires
=============================================================================

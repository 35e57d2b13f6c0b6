-------------------------- MODULE RunLifecycleProofs --------------------------
(***************************************************************************)
(* The life of a run: the domain state machine for any set of run ids      *)
(* (PipelineStateMachine) and cooperative cancellation for any number of   *)
(* workers, jobs, attempts and failing calls (CooperativeCancellation).    *)
(***************************************************************************)
EXTENDS PipelineStateMachine, CooperativeCancellation, TLAPS

-----------------------------------------------------------------------------
(* PipelineStateMachine.  The conjuncts of QueueInOrder need each other: the *)
(* edit lock of setPipelineState protects the availability of waiting runs   *)
(* only because they wait behind an active one.                              *)

\* A promoted or first run starts out queued and not cancelled.
LEMMA QueuedActiveType ==
  ASSUME NEW id \in RunIds
  PROVE  /\ QueuedActive(id) \in ActivePipelineRun
         /\ QueuedActive(id) # NoRun => QueuedActive(id).id = id
  BY DEF QueuedActive, ActivePipelineRun

\* What taking the head of a backlog without repetitions leaves.
LEMMA TailFacts ==
  ASSUME NEW q \in Seq(RunIds), q # <<>>
  PROVE  /\ Head(q) \in RunIds /\ Head(q) = q[1]
         /\ Tail(q) \in Seq(RunIds)
         /\ Len(Tail(q)) = Len(q) - 1
         /\ \A i \in 1..Len(Tail(q)) : Tail(q)[i] = q[i + 1]
         /\ q = <<Head(q)>> \o Tail(q)
  OBVIOUS

\* createPipelineExecutionState returns an idle pipeline.
LEMMA InitInv == Init => QueueInOrder
  BY NoRunAssumption DEF Init, QueueInOrder, TypeOK, BacklogBehindActiveRun, WorkOnlyWhenEnabled,
     NoRunTwice, QueuedIds

\* Every exported function preserves the invariant.
LEMMA NextInv == ASSUME QueueInOrder, [Next]_vars PROVE QueueInOrder'
<1> USE NoRunAssumption DEF QueueInOrder
<1>1. ASSUME NEW state \in PipelineStates, setPipelineState(state) PROVE QueueInOrder'
  BY <1>1 DEF setPipelineState, isPipelineEditable, TypeOK, BacklogBehindActiveRun,
              WorkOnlyWhenEnabled, NoRunTwice, QueuedIds
<1>2. ASSUME NEW id \in RunIds, enqueuePipelineRun(id) PROVE QueueInOrder'
  <2>1. CASE activeRun = NoRun
    <3>1. activeRun' = QueuedActive(id) /\ queuedRunIds' = queuedRunIds /\ queuedRunIds = <<>>
      BY <1>2, <2>1 DEF enqueuePipelineRun, BacklogBehindActiveRun
    <3> QED BY <1>2, <3>1, QueuedActiveType
            DEF enqueuePipelineRun, TypeOK, BacklogBehindActiveRun, WorkOnlyWhenEnabled,
                NoRunTwice, QueuedIds
  <2>2. CASE activeRun # NoRun
    <3>1. /\ activeRun' = activeRun
          /\ queuedRunIds' = Append(queuedRunIds, id)
          /\ pipelineState' = pipelineState
      BY <1>2, <2>2 DEF enqueuePipelineRun
    <3>2. /\ activeRun.id # id
          /\ \A i \in DOMAIN queuedRunIds : queuedRunIds[i] # id
      BY <1>2, <2>2 DEF enqueuePipelineRun, containsRun, QueuedIds
    <3>3. /\ Len(queuedRunIds') = Len(queuedRunIds) + 1
          /\ queuedRunIds' \in Seq(RunIds)
          /\ DOMAIN queuedRunIds' = 1..Len(queuedRunIds) + 1
          /\ DOMAIN queuedRunIds = 1..Len(queuedRunIds)
          /\ queuedRunIds'[Len(queuedRunIds) + 1] = id
          /\ \A i \in 1..Len(queuedRunIds) : queuedRunIds'[i] = queuedRunIds[i]
      BY <3>1 DEF TypeOK
    <3>4. NoRunTwice'
      BY <2>2, <3>1, <3>2, <3>3 DEF NoRunTwice, QueuedIds, TypeOK
    <3> QED BY <2>2, <3>1, <3>3, <3>4 DEF TypeOK, BacklogBehindActiveRun, WorkOnlyWhenEnabled
  <2> QED BY <2>1, <2>2
<1>3. CASE startActiveRun \/ requestActiveRunCancellation
  <2>1. /\ activeRun # NoRun /\ activeRun \in ActivePipelineRun
        /\ UNCHANGED <<pipelineState, queuedRunIds>>
    BY <1>3 DEF startActiveRun, requestActiveRunCancellation, TypeOK
  <2>2. activeRun' \in ActivePipelineRun /\ activeRun'.id = activeRun.id
    BY <1>3, <2>1 DEF startActiveRun, requestActiveRunCancellation, ActivePipelineRun
  <2> QED BY <2>1, <2>2 DEF TypeOK, BacklogBehindActiveRun, WorkOnlyWhenEnabled, NoRunTwice, QueuedIds
<1>4. CASE completeActiveRun
  <2>1. CASE queuedRunIds = <<>>
    BY <1>4, <2>1 DEF completeActiveRun, TypeOK, BacklogBehindActiveRun, WorkOnlyWhenEnabled,
                      NoRunTwice, QueuedIds
  <2>2. CASE queuedRunIds # <<>>
    <3>1. /\ activeRun' = QueuedActive(Head(queuedRunIds))
          /\ queuedRunIds' = Tail(queuedRunIds)
          /\ activeRun # NoRun /\ pipelineState' = pipelineState
      BY <1>4, <2>2 DEF completeActiveRun
    <3>2. TypeOK' /\ activeRun'.id = Head(queuedRunIds)
      BY <2>2, <3>1, QueuedActiveType, TailFacts DEF TypeOK, QueuedActive
    <3>3. NoRunTwice'
      <4>1. /\ queuedRunIds \in Seq(RunIds) /\ Len(queuedRunIds) \in Nat
            /\ DOMAIN queuedRunIds = 1..Len(queuedRunIds)
            /\ DOMAIN queuedRunIds' = 1..Len(queuedRunIds) - 1
        BY <2>2, <3>1, TailFacts DEF TypeOK
      <4>2. \A i \in DOMAIN queuedRunIds' : /\ queuedRunIds'[i] = queuedRunIds[i + 1]
                                           /\ i + 1 \in DOMAIN queuedRunIds /\ i + 1 # 1
        BY <2>2, <3>1, <4>1, TailFacts
      <4>3. activeRun'.id = queuedRunIds[1] /\ 1 \in DOMAIN queuedRunIds
        BY <2>2, <3>2, <4>1, TailFacts
      <4> QED BY <4>1, <4>2, <4>3 DEF NoRunTwice, QueuedIds
    <3>4. activeRun' # NoRun
      BY <2>2, <3>1, QueuedActiveType, TailFacts DEF TypeOK
    <3> QED BY <3>1, <3>2, <3>3, <3>4 DEF BacklogBehindActiveRun, WorkOnlyWhenEnabled
  <2> QED BY <2>1, <2>2
<1>5. CASE UNCHANGED vars
  BY <1>5 DEF vars, TypeOK, BacklogBehindActiveRun, WorkOnlyWhenEnabled, NoRunTwice, QueuedIds
<1> QED BY <1>1, <1>2, <1>3, <1>4, <1>5 DEF Next

\* Every sequence of accepted calls leaves a well-formed state in which work
\* exists only for an enabled pipeline, waiting runs wait behind an active one
\* and no run is represented twice.
THEOREM StateMachineSafe == Spec => []QueueInOrder
BY InitInv, NextInv, PTL DEF Spec

\* The state of the machine keeps its shape.
THEOREM StateMachineTyped == Spec => []TypeOK
<1>1. QueueInOrder => TypeOK BY DEF QueueInOrder
<1> QED BY <1>1, StateMachineSafe, PTL

\* No sequence of calls leaves work behind a pipeline that is not enabled.
THEOREM WorkNeedsEnabledPipeline == Spec => []WorkOnlyWhenEnabled
<1>1. QueueInOrder => WorkOnlyWhenEnabled BY DEF QueueInOrder
<1> QED BY <1>1, StateMachineSafe, PTL

\* No run is represented twice, so none has two turns.
THEOREM RunsAreDistinct == Spec => []NoRunTwice
<1>1. QueueInOrder => NoRunTwice BY DEF QueueInOrder
<1> QED BY <1>1, StateMachineSafe, PTL

-----------------------------------------------------------------------------
(* What a step may never do *)

\* What FirstInFirstOut asks of one step.
TurnsInOrder ==
  /\ (activeRun # NoRun /\ activeRun' # NoRun /\ activeRun'.id # activeRun.id)
       => queuedRunIds = <<activeRun'.id>> \o queuedRunIds'
  /\ (activeRun = NoRun \/ activeRun' = NoRun) => queuedRunIds' = <<>>
  /\ (activeRun # NoRun /\ activeRun' # NoRun /\ activeRun'.id = activeRun.id)
       => SubSeq(queuedRunIds', 1, Len(queuedRunIds)) = queuedRunIds

\* Nothing a call appends changes what was waiting already.
LEMMA BacklogKept ==
  ASSUME NEW q \in Seq(RunIds), NEW id \in RunIds
  PROVE  /\ SubSeq(q, 1, Len(q)) = q
         /\ SubSeq(Append(q, id), 1, Len(q)) = q
  OBVIOUS

\* Every exported function respects arrival order.  NoRunTwice is needed: were
\* the completed run's id waiting as well, its successor would look like itself.
LEMMA NextInOrder == ASSUME QueueInOrder, Next PROVE TurnsInOrder
<1> USE NoRunAssumption DEF QueueInOrder
<1>0. /\ queuedRunIds \in Seq(RunIds)
      /\ SubSeq(queuedRunIds, 1, Len(queuedRunIds)) = queuedRunIds
  BY BacklogKept DEF TypeOK
<1>1. ASSUME NEW state \in PipelineStates, setPipelineState(state) PROVE TurnsInOrder
  BY <1>1 DEF setPipelineState, isPipelineEditable, BacklogBehindActiveRun, TurnsInOrder
<1>2. ASSUME NEW id \in RunIds, enqueuePipelineRun(id) PROVE TurnsInOrder
  <2>1. CASE activeRun = NoRun
    BY <1>2, <2>1 DEF enqueuePipelineRun, BacklogBehindActiveRun, TurnsInOrder
  <2>2. CASE activeRun # NoRun
    BY <1>0, <1>2, <2>2, BacklogKept DEF enqueuePipelineRun, TurnsInOrder
  <2> QED BY <2>1, <2>2
<1>3. CASE startActiveRun \/ requestActiveRunCancellation
  <2>1. activeRun # NoRun /\ activeRun \in ActivePipelineRun /\ queuedRunIds' = queuedRunIds
    BY <1>3 DEF startActiveRun, requestActiveRunCancellation, TypeOK
  <2>2. activeRun' \in ActivePipelineRun /\ activeRun'.id = activeRun.id
    BY <1>3, <2>1 DEF startActiveRun, requestActiveRunCancellation, ActivePipelineRun
  <2> QED BY <1>0, <2>1, <2>2 DEF TurnsInOrder
<1>4. CASE completeActiveRun
  <2>1. CASE queuedRunIds = <<>>
    BY <1>4, <2>1 DEF completeActiveRun, TurnsInOrder
  <2>2. CASE queuedRunIds # <<>>
    <3>1. /\ activeRun # NoRun
          /\ activeRun' = QueuedActive(Head(queuedRunIds))
          /\ queuedRunIds' = Tail(queuedRunIds)
      BY <1>4, <2>2 DEF completeActiveRun
    <3>2. /\ Head(queuedRunIds) \in RunIds /\ Head(queuedRunIds) \in QueuedIds
          /\ queuedRunIds = <<Head(queuedRunIds)>> \o Tail(queuedRunIds)
      BY <1>0, <2>2, TailFacts DEF QueuedIds
    <3>3. activeRun'.id = Head(queuedRunIds) /\ activeRun' # NoRun
      BY <3>1, <3>2, QueuedActiveType
    <3>4. activeRun'.id # activeRun.id
      BY <3>1, <3>2, <3>3 DEF NoRunTwice
    <3> QED BY <3>1, <3>2, <3>3, <3>4 DEF TurnsInOrder
  <2> QED BY <2>1, <2>2
<1> QED BY <1>1, <1>2, <1>3, <1>4 DEF Next

\* Runs take their turn strictly in arrival order, whatever calls are made.
THEOREM RunsTakeTurnsInOrder == Spec => FirstInFirstOut
<1>1. ASSUME QueueInOrder, [Next]_vars PROVE [TurnsInOrder]_vars
  BY <1>1, NextInOrder
<1> QED BY <1>1, InitInv, NextInv, PTL DEF Spec, FirstInFirstOut, TurnsInOrder

\* What a step does to an active run whose cancellation was requested.
RequestStays ==
  (activeRun # NoRun /\ activeRun.cancellationRequested) =>
    \/ activeRun' = activeRun
    \/ activeRun' = NoRun
    \/ activeRun'.id # activeRun.id

LEMMA NextKeepsRequest == ASSUME QueueInOrder, Next PROVE RequestStays
<1> USE DEF RequestStays
<1>1. CASE \E state \in PipelineStates : setPipelineState(state)
  BY <1>1 DEF setPipelineState
<1>2. CASE \E id \in RunIds : enqueuePipelineRun(id)
  BY <1>2 DEF enqueuePipelineRun
<1>3. CASE startActiveRun \/ requestActiveRunCancellation
  BY <1>3 DEF startActiveRun, requestActiveRunCancellation
<1>4. CASE completeActiveRun
  <2>1. CASE queuedRunIds = <<>>
    BY <1>4, <2>1 DEF completeActiveRun
  <2>2. CASE queuedRunIds # <<>>
    <3>1. Head(queuedRunIds) \in QueuedIds
      BY <2>2 DEF QueueInOrder, TypeOK, QueuedIds
    <3>2. activeRun'.id = Head(queuedRunIds)
      BY <1>4, <2>2 DEF completeActiveRun, QueuedActive
    <3> QED BY <1>4, <3>1, <3>2 DEF completeActiveRun, QueueInOrder, NoRunTwice
  <2> QED BY <2>1, <2>2
<1> QED BY <1>1, <1>2, <1>3, <1>4 DEF Next

\* A requested cancellation stays on the active run until that run completes and
\* another one takes its place, for any set of runs
\* (requestActiveRunCancellation, startActiveRun, completeActiveRun).
THEOREM RequestedCancellationSticks == Spec => CancellationSticks
<1>1. ASSUME QueueInOrder, [Next]_vars PROVE [RequestStays]_vars
  BY <1>1, NextKeepsRequest
<1> QED BY <1>1, InitInv, NextInv, PTL DEF Spec, CancellationSticks, RequestStays

-----------------------------------------------------------------------------
(* CooperativeCancellation: what no interleaving of its transactions can *)
(* produce. *)

\* A job that is queued again has an attempt left, or was released; and the
\* Datasets are given up only by a worker that saw the end of the run.
AttemptsLeft ==
  \A j \in Jobs :
    /\ job[j].attempt <= MaxAttempts + releases
    /\ job[j].state = "queued" => job[j].attempt < MaxAttempts + releases
CleanupSawEnd == \A w \in Workers : pc[w] = "cleanup" => Terminal

CancellationInv == CancellationInvariant /\ AttemptsLeft /\ CleanupSawEnd

JobRecord == [state : {"queued", "running", "succeeded", "failed", "cancelled"},
              worker : Workers \cup {Nobody}, attempt : 0..MaxAttempts + MaxReleases]

LEMMA CancellationInitInv == CancellationInit => CancellationInv
  <1> SUFFICES ASSUME CancellationInit PROVE CancellationInv
    OBVIOUS
  <1> USE ConstantsAssumption DEF CancellationInit
  <1>1. CancellationTypeOK
    <2>1. 0 \in 0..MaxAttempts + MaxReleases /\ 0 \in 0..MaxReleases /\ 0 \in 0..MaxFaults
      OBVIOUS
    <2>2. job \in [Jobs -> JobRecord]
      BY <2>1 DEF JobRecord
    <2> HIDE ConstantsAssumption
    <2> QED
      BY <2>1, <2>2 DEF CancellationTypeOK, JobRecord
  <1>2. AttemptsLeft
    BY DEF AttemptsLeft
  <1>3. CancelledRunIsQuiet /\ CleanupOnlyAfterTerminal /\ CleanupSawEnd
    BY DEF CancelledRunIsQuiet, CleanupOnlyAfterTerminal, CleanupSawEnd
  <1> QED
    BY <1>1, <1>2, <1>3 DEF CancellationInv, CancellationInvariant

\* One job moves on: the states it may move between, and what its counter does.
LEMMA JobMoves ==
  ASSUME CancellationInv, NEW j \in Jobs, NEW new \in JobRecord, job' = [job EXCEPT ![j] = new],
         releases' \in 0..MaxReleases, releases <= releases',
         new.attempt <= MaxAttempts + releases',
         new.state = "queued" => new.attempt < MaxAttempts + releases',
         new.state \in {"queued", "running"} => job[j].state \in {"queued", "running"}
  PROVE  /\ job' \in [Jobs -> JobRecord]
         /\ AttemptsLeft'
         /\ (\A i \in Jobs : job[i].state \notin {"queued", "running"})
              => \A i \in Jobs : job'[i].state \notin {"queued", "running"}
  <1> USE ConstantsAssumption DEF CancellationInv, CancellationInvariant
  <1>1. job \in [Jobs -> JobRecord] /\ releases \in 0..MaxReleases
    BY DEF CancellationTypeOK, JobRecord
  <1>2. \A i \in Jobs : job'[i] = IF i = j THEN new ELSE job[i]
    BY <1>1
  <1>3. AttemptsLeft'
    <2> SUFFICES ASSUME NEW i \in Jobs
                 PROVE  /\ job'[i].attempt <= MaxAttempts + releases'
                        /\ job'[i].state = "queued" => job'[i].attempt < MaxAttempts + releases'
      BY DEF AttemptsLeft
    <2>1. CASE i = j
      BY <1>2, <2>1
    <2>2. CASE i # j
      <3>1. job'[i] = job[i] /\ job[i].attempt \in Nat
        BY <1>1, <1>2, <2>2 DEF JobRecord
      <3> QED BY <1>1, <3>1 DEF AttemptsLeft
    <2> QED BY <2>1, <2>2
  <1> QED
    BY <1>1, <1>2, <1>3

\* Steps that leave the jobs alone.
LEMMA RunMoves ==
  ASSUME CancellationInv, UNCHANGED <<job, releases>>, CancellationTypeOK',
         Terminal => run' = run, CleanupSawEnd',
         run' = "cancelled" => run = "cancelled" \/ MayFinalize,
         expired' # {} => expired # {} \/ Terminal'
  PROVE  CancellationInv'
  <1> USE DEF CancellationInv, CancellationInvariant
  <1>1. CancelledRunIsQuiet'
    BY DEF CancelledRunIsQuiet, MayFinalize
  <1>2. CleanupOnlyAfterTerminal'
    BY DEF CleanupOnlyAfterTerminal, Terminal
  <1> QED
    BY <1>1, <1>2 DEF AttemptsLeft

LEMMA QuietSteps ==
  ASSUME CancellationInv, NEW w \in Workers,
         \/ Request \/ StartRun(w) \/ Work(w) \/ FinishFailure(w) \/ CancellationRequested(w)
         \/ FinalizeCancelledRun(w) \/ MarkRunCleanupEligible(w) \/ CancellationRaises(w)
  PROVE  CancellationInv'
  <1> USE ConstantsAssumption DEF CancellationInv, CancellationInvariant
  <1>1. UNCHANGED <<job, releases>> /\ (Terminal => run' = run)
    BY DEF Request, StartRun, Work, FinishFailure, CancellationRequested, FinalizeCancelledRun,
      MarkRunCleanupEligible, CancellationRaises, Terminal, MayFinalize
  <1>2. CancellationTypeOK'
    <2>1. pc' \in [Workers -> Calls \cup {"idle"}]
      BY DEF CancellationTypeOK, Calls, Goto, Request, StartRun, Work, FinishFailure, CancellationRequested,
        FinalizeCancelledRun, MarkRunCleanupEligible, CancellationRaises
    <2>2. faults' \in 0..MaxFaults
      BY DEF CancellationTypeOK, Request, StartRun, Work, FinishFailure, CancellationRequested,
        FinalizeCancelledRun, MarkRunCleanupEligible, CancellationRaises
    <2>3. rows' \subseteq Jobs /\ expired' \subseteq rows' /\ done' \subseteq Jobs
      BY DEF CancellationTypeOK, Request, StartRun, Work, FinishFailure, CancellationRequested,
        FinalizeCancelledRun, MarkRunCleanupEligible, CancellationRaises
    <2>4. /\ run' \in {"queued", "running", "succeeded", "failed", "cancelled"}
          /\ requested' \in BOOLEAN /\ UNCHANGED <<at, polls>>
      BY DEF CancellationTypeOK, Request, StartRun, Work, FinishFailure, CancellationRequested,
        FinalizeCancelledRun, MarkRunCleanupEligible, CancellationRaises
    <2> QED
      BY <1>1, <2>1, <2>2, <2>3, <2>4 DEF CancellationTypeOK
  <1>3. CleanupSawEnd'
    BY DEF CleanupSawEnd, Terminal, CancellationTypeOK, Goto, Request, StartRun, Work, FinishFailure, CancellationRequested,
      FinalizeCancelledRun, MayFinalize, MarkRunCleanupEligible, CancellationRaises
  <1>4. run' = "cancelled" => run = "cancelled" \/ MayFinalize
    BY DEF Request, StartRun, Work, FinishFailure, CancellationRequested, FinalizeCancelledRun,
      MarkRunCleanupEligible, CancellationRaises
  <1>5. expired' # {} => expired # {} \/ Terminal'
    BY DEF CleanupSawEnd, Terminal, CancellationTypeOK, Request, StartRun, Work, FinishFailure, CancellationRequested,
      FinalizeCancelledRun, MarkRunCleanupEligible, CancellationRaises
  <1> QED
    BY <1>1, <1>2, <1>3, <1>4, <1>5, RunMoves

\* Steps that move a job: nothing becomes queued or running that was not.
LEMMA JobSteps ==
  ASSUME CancellationInv, job' \in [Jobs -> JobRecord], AttemptsLeft',
         (\A i \in Jobs : job[i].state \notin {"queued", "running"})
            => \A i \in Jobs : job'[i].state \notin {"queued", "running"},
         UNCHANGED <<polls, requested, rows, expired, faults>>, releases' \in 0..MaxReleases,
         done' \subseteq Jobs, at' \in [Workers -> Jobs],
         NEW w \in Workers, NEW l \in (Calls \cup {"idle"}) \ {"cleanup"}, Goto(w, l),
         run' = run \/ (run = "running" /\ run' = "succeeded")
  PROVE  CancellationInv'
  <1> USE DEF CancellationInv, CancellationInvariant
  <1>1. CancellationTypeOK'
    BY DEF CancellationTypeOK, JobRecord, Goto
  <1>2. CancelledRunIsQuiet' /\ CleanupOnlyAfterTerminal'
    BY DEF CancelledRunIsQuiet, CleanupOnlyAfterTerminal, Terminal
  <1>3. CleanupSawEnd'
    BY DEF CleanupSawEnd, Terminal, CancellationTypeOK, Goto
  <1> QED
    BY <1>1, <1>2, <1>3

LEMMA ClaimInv == ASSUME CancellationInv, NEW w \in Workers, ClaimNext(w) PROVE CancellationInv'
  <1> USE ConstantsAssumption
  <1>1. PICK j \in Jobs :
          /\ job[j].state = "queued"
          /\ job' = [job EXCEPT ![j] = [state |-> "running", worker |-> w, attempt |-> @.attempt + 1]]
          /\ at' = [at EXCEPT ![w] = j]
    BY DEF ClaimNext
  <1>2. /\ job \in [Jobs -> JobRecord] /\ releases \in 0..MaxReleases /\ done \subseteq Jobs
        /\ at \in [Workers -> Jobs]
    BY DEF CancellationInv, CancellationInvariant, CancellationTypeOK, JobRecord
  <1>3. job[j].attempt \in Nat /\ job[j].attempt < MaxAttempts + releases
    BY <1>1, <1>2 DEF CancellationInv, AttemptsLeft, JobRecord
  <1> DEFINE new == [state |-> "running", worker |-> w, attempt |-> job[j].attempt + 1]
  <1>4. new \in JobRecord /\ new.attempt <= MaxAttempts + releases /\ new.state = "running"
    BY <1>2, <1>3 DEF JobRecord
  <1>5. job' = [job EXCEPT ![j] = new]
    BY <1>1, <1>2
  <1>6. /\ UNCHANGED <<polls, run, requested, done, rows, expired, releases, faults>> /\ Goto(w, "start")
        /\ at' \in [Workers -> Jobs]
    BY <1>1, <1>2 DEF ClaimNext
  <1> HIDE DEF new
  <1>7. /\ job' \in [Jobs -> JobRecord] /\ AttemptsLeft'
        /\ (\A i \in Jobs : job[i].state \notin {"queued", "running"})
             => \A i \in Jobs : job'[i].state \notin {"queued", "running"}
    <2>1. /\ releases' \in 0..MaxReleases /\ releases <= releases'
          /\ new.attempt <= MaxAttempts + releases'
      BY <1>2, <1>4, <1>6
    <2>2. new.state # "queued" /\ job[j].state \in {"queued", "running"}
      BY <1>1, <1>4
    <2> QED BY <1>4, <1>5, <2>1, <2>2, JobMoves
  <1>8. "start" \in (Calls \cup {"idle"}) \ {"cleanup"}
    BY DEF Calls
  <1> QED
    BY <1>2, <1>6, <1>7, <1>8, JobSteps

\* A worker gives up the job it owns: the ways its transactions do so.
LEMMA OwnJob ==
  ASSUME CancellationInv, NEW w \in Workers, Owns(w),
         NEW st \in {"queued", "succeeded", "failed", "cancelled"},
         job' = [job EXCEPT ![at[w]].state = st, ![at[w]].worker = Nobody],
         releases' \in 0..MaxReleases, releases <= releases',
         st = "queued" => job[at[w]].attempt < MaxAttempts + releases'
  PROVE  /\ job' \in [Jobs -> JobRecord] /\ AttemptsLeft'
         /\ (\A i \in Jobs : job[i].state \notin {"queued", "running"})
              => \A i \in Jobs : job'[i].state \notin {"queued", "running"}
  <1> USE ConstantsAssumption
  <1> DEFINE new == [state |-> st, worker |-> Nobody, attempt |-> job[at[w]].attempt]
  <1>1. job \in [Jobs -> JobRecord] /\ at[w] \in Jobs /\ releases \in 0..MaxReleases
    BY DEF CancellationInv, CancellationInvariant, CancellationTypeOK, JobRecord
  <1>2. /\ new \in JobRecord /\ new.state = st /\ new.attempt = job[at[w]].attempt
        /\ job[at[w]].attempt \in Nat
    BY <1>1 DEF JobRecord
  <1>3. job' = [job EXCEPT ![at[w]] = new]
    <2>1. job'[at[w]] = new
      BY <1>1 DEF JobRecord
    <2>2. \A i \in Jobs : i # at[w] => job'[i] = job[i]
      BY <1>1
    <2>3. job' = [i \in Jobs |-> job'[i]]
      BY <1>1
    <2> HIDE DEF new
    <2> QED BY <1>1, <2>1, <2>2, <2>3
  <1>4. new.attempt <= MaxAttempts + releases'
    BY <1>1, <1>2 DEF CancellationInv, AttemptsLeft
  <1>5. job[at[w]].state = "running"
    BY DEF Owns
  <1> HIDE DEF new
  <1> QED
    BY <1>1, <1>2, <1>3, <1>4, <1>5, JobMoves

LEMMA SameJobs ==
  ASSUME CancellationInv, UNCHANGED <<job, releases>>
  PROVE  /\ job' \in [Jobs -> JobRecord] /\ AttemptsLeft'
         /\ (\A i \in Jobs : job[i].state \notin {"queued", "running"})
              => \A i \in Jobs : job'[i].state \notin {"queued", "running"}
  BY DEF CancellationInv, CancellationInvariant, CancellationTypeOK, JobRecord, AttemptsLeft

LEMMA EndSteps ==
  ASSUME CancellationInv, NEW w \in Workers,
         FinishSuccess(w) \/ Fail(w) \/ Release(w) \/ CancelIfRequested(w)
  PROVE  CancellationInv'
  <1> USE ConstantsAssumption
  <1> DEFINE Moved ==
        /\ job' \in [Jobs -> JobRecord] /\ AttemptsLeft'
        /\ (\A i \in Jobs : job[i].state \notin {"queued", "running"})
             => \A i \in Jobs : job'[i].state \notin {"queued", "running"}
  <1>1. /\ releases \in 0..MaxReleases /\ done \subseteq Jobs /\ at \in [Workers -> Jobs]
        /\ job \in [Jobs -> JobRecord]
    BY DEF CancellationInv, CancellationInvariant, CancellationTypeOK, JobRecord
  <1>2. UNCHANGED <<polls, requested, rows, expired, at, faults>> /\ done' \subseteq Jobs
    BY <1>1 DEF FinishSuccess, Fail, Release, CancelIfRequested
  <1>3. run' = run \/ (run = "running" /\ run' = "succeeded")
    BY DEF FinishSuccess, Fail, Release, CancelIfRequested
  <1>4. \E l \in (Calls \cup {"idle"}) \ {"cleanup"} : Goto(w, l)
    BY DEF FinishSuccess, Fail, Release, CancelIfRequested, Calls
  <1>5. releases' \in 0..MaxReleases /\ releases <= releases'
    BY <1>1 DEF FinishSuccess, Fail, Release, CancelIfRequested
  <1>6. Moved
    <2>1. CASE FinishSuccess(w)
      <3>1. UNCHANGED <<job, releases>> \/
              (Owns(w) /\ job' = [job EXCEPT ![at[w]].state = "succeeded", ![at[w]].worker = Nobody])
        BY <2>1 DEF FinishSuccess
      <3> QED BY <1>5, <3>1, OwnJob, SameJobs
    <2>2. CASE Fail(w)
      <3> DEFINE st == IF Retry(w) THEN "queued" ELSE "failed"
      <3>1. UNCHANGED <<job, releases>> \/
              (Owns(w) /\ job' = [job EXCEPT ![at[w]].state = st, ![at[w]].worker = Nobody])
        BY <2>2 DEF Fail
      <3>2. st \in {"queued", "failed"} /\ (st = "queued" => job[at[w]].attempt < MaxAttempts)
        BY DEF Retry
      <3>3. job[at[w]].attempt \in Nat
        BY <1>1 DEF JobRecord
      <3>4. st = "queued" => job[at[w]].attempt < MaxAttempts + releases'
        BY <1>5, <3>2, <3>3
      <3> HIDE DEF st
      <3> QED BY <1>5, <3>1, <3>2, <3>4, OwnJob, SameJobs
    <2>3. CASE Release(w)
      <3>1. /\ Owns(w) /\ releases' = releases + 1
            /\ job' = [job EXCEPT ![at[w]].state = "queued", ![at[w]].worker = Nobody]
        BY <2>3 DEF Release
      <3>2. job[at[w]].attempt \in Nat /\ job[at[w]].attempt <= MaxAttempts + releases
        BY <1>1 DEF JobRecord, CancellationInv, AttemptsLeft
      <3>3. job[at[w]].attempt < MaxAttempts + releases'
        BY <1>1, <3>1, <3>2
      <3> QED BY <1>5, <3>1, <3>3, OwnJob
    <2>4. CASE CancelIfRequested(w)
      <3>1. UNCHANGED <<job, releases>> \/
              (Owns(w) /\ job' = [job EXCEPT ![at[w]].state = "cancelled", ![at[w]].worker = Nobody])
        BY <2>4 DEF CancelIfRequested, MayCancel
      <3> QED BY <1>5, <3>1, OwnJob, SameJobs
    <2> QED BY <2>1, <2>2, <2>3, <2>4
  <1> QED
    BY <1>1, <1>2, <1>3, <1>4, <1>5, <1>6, JobSteps

LEMMA CancelPendingInv == ASSUME CancellationInv, NEW w \in Workers, CancelPendingForRun(w) PROVE CancellationInv'
  <1> USE ConstantsAssumption
  <1>1. /\ job \in [Jobs -> JobRecord] /\ releases \in 0..MaxReleases /\ done \subseteq Jobs /\ at \in [Workers -> Jobs]
    BY DEF CancellationInv, CancellationInvariant, CancellationTypeOK, JobRecord
  <1>2. /\ UNCHANGED <<polls, run, requested, done, rows, expired, at, releases, faults>> /\ Goto(w, "finalize")
        /\ job' = [j \in Jobs |-> IF job[j].state = "queued" /\ requested
                                  THEN [job[j] EXCEPT !.state = "cancelled"] ELSE job[j]]
    BY DEF CancelPendingForRun
  <1>3. \A j \in Jobs : job'[j] = job[j] \/ (job'[j] \in JobRecord /\ job'[j].state = "cancelled"
                                               /\ job'[j].attempt = job[j].attempt)
    BY <1>1, <1>2 DEF JobRecord
  <1>4. job' \in [Jobs -> JobRecord]
    BY <1>1, <1>2, <1>3
  <1>5. AttemptsLeft'
    BY <1>2, <1>3 DEF CancellationInv, AttemptsLeft
  <1>6. (\A i \in Jobs : job[i].state \notin {"queued", "running"})
          => \A i \in Jobs : job'[i].state \notin {"queued", "running"}
    BY <1>3
  <1>7. "finalize" \in (Calls \cup {"idle"}) \ {"cleanup"}
    BY DEF Calls
  <1> QED
    BY <1>1, <1>2, <1>4, <1>5, <1>6, <1>7, JobSteps

LEMMA CancellationNextInv == ASSUME CancellationInv, [CancellationNext]_cancellationVars PROVE CancellationInv'
  <1>1. CASE UNCHANGED cancellationVars
    BY <1>1 DEF cancellationVars, CancellationInv, CancellationInvariant, CancellationTypeOK, CancelledRunIsQuiet, CleanupOnlyAfterTerminal,
      AttemptsLeft, CleanupSawEnd, Terminal
  <1>2. CASE Request
    <2>1. CASE Workers = {}
      BY <1>2, <2>1 DEF Request, CancellationInv, CancellationInvariant, CancellationTypeOK, CancelledRunIsQuiet,
        CleanupOnlyAfterTerminal, AttemptsLeft, CleanupSawEnd, Terminal
    <2>2. CASE Workers # {}
      BY <1>2, <2>2, QuietSteps
    <2> QED BY <2>1, <2>2
  <1>3. CASE \E w \in Workers : RunOnce(w) \/ Release(w) \/ CancellationRaises(w)
    BY <1>3, QuietSteps, ClaimInv, EndSteps, CancelPendingInv DEF RunOnce, RaiseIfRequested
  <1> QED
    BY <1>1, <1>2, <1>3 DEF CancellationNext

\* A cancelled run is quiet and Datasets are given up only after the end of the
\* run, whatever claims, releases and failures interleave with a cancellation.
THEOREM CancellationSafe == CancellationSpec => []CancellationInvariant
  <1>1. CancellationInv => CancellationInvariant
    BY DEF CancellationInv
  <1> QED
    BY <1>1, CancellationInitInv, CancellationNextInv, PTL DEF CancellationSpec

LEMMA OnlyOnRequest ==
  ASSUME CancellationInv, CancellationNext
  PROVE  /\ \A j \in Jobs : job'[j].state = "cancelled" /\ job[j].state # "cancelled" => requested
         /\ Terminal => run' = run
  <1>1. job \in [Jobs -> JobRecord]
    BY DEF CancellationInv, CancellationInvariant, CancellationTypeOK, JobRecord
  <1>2. at \in [Workers -> Jobs]
    BY DEF CancellationInv, CancellationInvariant, CancellationTypeOK
  <1>3. Terminal => run' = run
    BY DEF CancellationNext, RunOnce, RaiseIfRequested, Request, ClaimNext, StartRun, Work, FinishSuccess, Fail, FinishFailure,
      Release, CancellationRequested, CancelIfRequested, CancelPendingForRun, FinalizeCancelledRun, MayFinalize,
      MarkRunCleanupEligible, CancellationRaises, Terminal
  <1>4. ASSUME NEW j \in Jobs, job'[j].state = "cancelled", job[j].state # "cancelled" PROVE requested
    <2>1. CASE job' = job
      BY <1>4, <2>1
    <2>2. CASE \E w \in Workers : ClaimNext(w) \/ FinishSuccess(w) \/ Fail(w) \/ Release(w)
      BY <1>1, <1>2, <1>4, <2>2 DEF ClaimNext, FinishSuccess, Fail, Release, JobRecord
    <2>3. CASE \E w \in Workers : CancelIfRequested(w) \/ CancelPendingForRun(w)
      BY <1>1, <1>2, <1>4, <2>3 DEF CancelIfRequested, MayCancel, CancelPendingForRun, JobRecord
    <2> QED
      BY <2>1, <2>2, <2>3 DEF CancellationNext, RunOnce, RaiseIfRequested, Request, StartRun, Work, FinishFailure,
        CancellationRequested, FinalizeCancelledRun, MarkRunCleanupEligible, CancellationRaises
  <1> QED
    BY <1>3, <1>4

\* No job is cancelled without a request, and a run that has ended stays as it is.
THEOREM CancelsOnlyOnRequest == CancellationSpec => CancelledOnRequest
  <1>1. ASSUME CancellationInv, [CancellationNext]_cancellationVars
        PROVE  [/\ \A j \in Jobs : job'[j].state = "cancelled" /\ job[j].state # "cancelled" => requested
                /\ Terminal => run' = run]_cancellationVars
    BY <1>1, OnlyOnRequest
  <1> QED
    BY <1>1, CancellationInitInv, CancellationNextInv, PTL DEF CancellationSpec, CancelledOnRequest
===============================================================================

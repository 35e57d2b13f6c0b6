----------------------- MODULE WorkerExecutionProofs -----------------------
(***************************************************************************)
(* WorkerExecution for any number of workers, runs, components, attempts,  *)
(* failing calls and crashes: the safety properties the run checks on two  *)
(* workers, two runs and three components.                                 *)
(***************************************************************************)
EXTENDS WorkerExecution, TLAPS

\* The run row and its job row: a live job belongs to a live run, a job that
\* may still be claimed has an attempt left, and runs are live one at a time.
RowsAgree ==
  /\ \A r \in Runs :
       /\ run[r] = "waiting" => job[r].state = "none"
       /\ job[r].state \in {"queued", "running"} => run[r] \in {"queued", "running"}
       /\ run[r] = "failed" => job[r].state = "failed"
       /\ job[r].state \in {"none", "queued"} => job[r].attempt < MaxAttempts
       /\ job[r].state = "running" => job[r].attempt > 0
  /\ \A q, r \in Runs : q < r /\ run[r] # "waiting" => run[q] \in Terminal

\* The calls between the first step's start and the last step's success.
StepCalls == {"start_step", "execute", "record_dataset", "record_artifact", "succeed_step"}

\* What a worker may rely on at each call of run_once and _handle_failure.
AtCall(w) ==
  /\ pc[w] \in Busy => at[w] \in Runs
  /\ pc[w] \in TryCalls => Owns(w, at[w])
  /\ pc[w] \in StepCalls => cur[w] \in Steps
  /\ pc[w] = "record_dataset" => cur[w] # NSteps
  /\ pc[w] = "record_artifact" => at[w] \notin TableRuns
  /\ pc[w] = "finish_success" \/ (pc[w] = "succeed_step" /\ cur[w] = NSteps) => Delivered(at[w])
  /\ pc[w] = "finish_failure" => job[at[w]].state = "failed" /\ cur[w] \in Steps

\* A finalized file without its row is one that a worker is about to record or
\* remove in this very attempt, or one a dead worker left.
OutputHasOwner ==
  faults <= 1 =>
    \A o \in outputs : o \in artifacts \/ \E w \in Workers :
      /\ at[w] = o[1]
      /\ pc[w] = "dead" \/ (pc[w] = "record_artifact" /\ Attempt(w) = o[2])

WorkerInv ==
  /\ TypeOK /\ RowsAgree /\ \A w \in Workers : AtCall(w)
  /\ SuccessIsComplete /\ CheckpointAfterSuccess
  /\ FailedRunExpiresDatasets /\ OutputHasOwner

PcValues == Busy \cup {"idle", "dead"}
JobRow == [state : {"none", "queued", "running", "succeeded", "failed"},
           worker : Workers \cup {Nobody}, attempt : 0..MaxAttempts]

-----------------------------------------------------------------------------
(* What the invariant says, and what a step that moves one worker keeps.   *)

LEMMA InitInv == Init => WorkerInv
  <1> SUFFICES ASSUME Init PROVE WorkerInv
    OBVIOUS
  <1> USE ConstantsAssumption DEF Init
  <1>1. TypeOK
    <2>1. 0 \in 0..MaxAttempts /\ 0 \in 0..NRuns /\ 0 \in 0..NSteps /\ 0 \in 0..MaxFaults /\ 0 \in 0..MaxStops
      OBVIOUS
    <2>2. job \in [Runs -> JobRow]
      BY <2>1 DEF JobRow
    <2>3. step \in [Runs -> [Steps -> {"queued", "running", "succeeded", "failed"}]]
      OBVIOUS
    <2> HIDE ConstantsAssumption
    <2> QED
      BY <2>1, <2>2, <2>3 DEF TypeOK, JobRow, RunStates
  <1>2. RowsAgree
    BY DEF RowsAgree, Runs
  <1>3. \A w \in Workers : AtCall(w)
    BY DEF AtCall, Busy, TryCalls, EpilogueCalls, HandlerCalls, StepCalls
  <1>5. SuccessIsComplete /\ CheckpointAfterSuccess
    BY DEF SuccessIsComplete, CheckpointAfterSuccess
  <1>6. FailedRunExpiresDatasets /\ OutputHasOwner
    BY DEF FailedRunExpiresDatasets, OutputHasOwner
  <1> QED
    BY <1>1, <1>2, <1>3, <1>5, <1>6 DEF WorkerInv

\* A worker's own call moves its program counter only, and counts its fault.
LEMMA Moves ==
  ASSUME TypeOK, NEW w \in Workers, NEW l \in PcValues, ReturnOrRaise(w, l)
  PROVE  /\ pc' \in [Workers -> PcValues]
         /\ pc'[w] = l \/ pc'[w] = Except(pc[w])
         /\ \A v \in Workers : v # w => pc'[v] = pc[v]
         /\ faults' \in 0..MaxFaults /\ faults <= faults' /\ stops' = stops
  <1> USE ConstantsAssumption
  <1>1. pc \in [Workers -> PcValues] /\ faults \in 0..MaxFaults
    BY DEF TypeOK, PcValues
  <1>2. Except(pc[w]) \in PcValues
    BY DEF Except, PcValues, Busy, HandlerCalls
  <1>3. CASE Return(w, l)
    BY <1>1, <1>3 DEF Return, Goto, boundVars
  <1>4. CASE Raise(w)
    <2>1. pc' = [pc EXCEPT ![w] = Except(pc[w])]
      BY <1>4 DEF Raise, Goto
    <2>2. faults' = faults + 1 /\ faults < MaxFaults /\ stops' = stops
      BY <1>4 DEF Raise
    <2> QED BY <1>1, <1>2, <2>1, <2>2
  <1> QED BY <1>3, <1>4 DEF ReturnOrRaise

\* The calls of the other workers keep what they rely on: nobody touches a
\* job that another worker owns, and no failed job comes back.
LEMMA OthersAtCall ==
  ASSUME WorkerInv, NEW v \in Workers,
         pc'[v] = pc[v], at'[v] = at[v], cur'[v] = cur[v],
         artifacts \subseteq artifacts', delivered \subseteq delivered',
         \A r \in Runs : job'[r] = job[r] \/ (~Owns(v, r) /\ job[r].state # "failed")
  PROVE  AtCall(v)'
  <1>1. AtCall(v)
    BY DEF WorkerInv
  <1>2. TryCalls \subseteq Busy /\ "finish_failure" \in Busy /\ "succeed_step" \in Busy
    BY DEF TryCalls, Busy, HandlerCalls
  <1>3. pc[v] \in TryCalls => Owns(v, at[v])'
    BY <1>1, <1>2 DEF AtCall, Owns
  <1>4. pc[v] = "finish_failure" => job'[at[v]].state = "failed"
    BY <1>1, <1>2 DEF AtCall
  <1>5. pc[v] \in TryCalls /\ Delivered(at[v]) => Delivered(at[v])'
    BY <1>1, <1>2 DEF AtCall, Owns, Delivered
  <1>6. "finish_success" \in TryCalls /\ "succeed_step" \in TryCalls
    BY DEF TryCalls
  <1> QED
    BY <1>1, <1>3, <1>4, <1>5, <1>6 DEF AtCall

\* Steps that leave the rows of runs, steps and jobs alone.
LEMMA RowsStay ==
  ASSUME WorkerInv, UNCHANGED <<run, step, job>>,
         artifacts \subseteq artifacts', delivered \subseteq delivered'
  PROVE  RowsAgree' /\ SuccessIsComplete'
  <1>1. \A r : Delivered(r) => Delivered(r)'
    BY DEF Delivered
  <1>2. RowsAgree'
    BY DEF WorkerInv, RowsAgree
  <1>3. SuccessIsComplete'
    BY <1>1 DEF WorkerInv, SuccessIsComplete, Delivered
  <1> QED BY <1>2, <1>3

LEMMA DatasetsStay ==
  ASSUME WorkerInv, UNCHANGED <<run, rows>>, expired \subseteq expired'
  PROVE  FailedRunExpiresDatasets'
  BY DEF WorkerInv, FailedRunExpiresDatasets, RowsOf

LEMMA CheckpointStays ==
  ASSUME WorkerInv, UNCHANGED <<run, checkpoint, loaded>>
  PROVE  CheckpointAfterSuccess'
  BY DEF WorkerInv, CheckpointAfterSuccess

\* Steps of a worker that is not about to record its artifact, or that dies.
LEMMA OwnersStay ==
  ASSUME WorkerInv, NEW w \in Workers, faults' \in Nat, faults <= faults', outputs' \subseteq outputs,
         artifacts \subseteq artifacts',
         \A v \in Workers : v # w => pc'[v] = pc[v] /\ at'[v] = at[v],
         \/ pc[w] \notin {"record_artifact", "dead"}
         \/ pc'[w] \in {pc[w], "dead"} /\ at'[w] = at[w],
         \A v \in Workers : pc[v] = "record_artifact" => job'[at[v]].attempt = job[at[v]].attempt
  PROVE  OutputHasOwner'
  <1> SUFFICES ASSUME faults' <= 1, NEW o \in outputs', o \notin artifacts'
               PROVE  \E v \in Workers :
                        /\ at'[v] = o[1]
                        /\ pc'[v] = "dead" \/ (pc'[v] = "record_artifact" /\ job'[at'[v]].attempt = o[2])
    BY DEF OutputHasOwner, Attempt
  <1>1. faults <= 1
    BY ConstantsAssumption DEF WorkerInv, TypeOK
  <1>2. PICK v \in Workers : /\ at[v] = o[1]
                             /\ pc[v] = "dead" \/ (pc[v] = "record_artifact" /\ job[at[v]].attempt = o[2])
    BY <1>1 DEF WorkerInv, OutputHasOwner, Attempt
  <1>3. at'[v] = at[v] /\ pc'[v] \in {pc[v], "dead"}
    BY <1>2
  <1> QED
    BY <1>2, <1>3

-----------------------------------------------------------------------------
(* Calls that change no row: a call that raises at once, the end of a      *)
(* process, and the file operations of the components.                     *)

LEMMA QuietSteps ==
  ASSUME WorkerInv, NEW w \in Workers,
         LoadPlan(w) \/ CallRaises(w) \/ Stop(w) \/ Exit(w) \/ Crash(w)
  PROVE  WorkerInv'
  <1> USE ConstantsAssumption
  <1>0. TypeOK /\ AtCall(w)
    BY DEF WorkerInv
  <1>1. UNCHANGED <<rowVars, fileVars, memVars, loaded>>
    BY DEF LoadPlan, CallRaises, Stop, Exit, Crash
  <1>2. /\ pc' \in [Workers -> PcValues]
        /\ \A v \in Workers : v # w => pc'[v] = pc[v]
        /\ \/ pc'[w] \in {pc[w], "dead"}
           \/ pc[w] = "load_plan" /\ pc'[w] = "start_run"
           \/ pc[w] \in Busy \ {"record_artifact"} /\ pc'[w] = "fail"
        /\ faults' \in 0..MaxFaults /\ faults <= faults' /\ stops' \in 0..MaxStops
    <2>1. CASE LoadPlan(w)
      <3>1. "start_run" \in PcValues /\ ReturnOrRaise(w, "start_run")
        BY <2>1 DEF LoadPlan, ReturnOrRaise, PcValues, Busy, TryCalls
      <3>2. pc' = [pc EXCEPT ![w] = "start_run"] /\ pc[w] = "load_plan"
        BY <2>1 DEF LoadPlan, Return, Goto
      <3> QED BY <1>0, <3>1, <3>2, Moves DEF TypeOK
    <2>2. CASE CallRaises(w)
      <3>1. "fail" \in PcValues /\ ReturnOrRaise(w, "fail")
        BY <2>2 DEF CallRaises, ReturnOrRaise, PcValues, Busy, HandlerCalls
      <3>2. pc[w] \in Busy \ {"record_artifact"}
        BY <2>2 DEF CallRaises
      <3> QED BY <1>0, <3>1, <3>2, Moves DEF TypeOK, Except
    <2>3. CASE Stop(w)
      BY <1>0, <2>3 DEF Stop, TypeOK, PcValues
    <2>4. CASE Exit(w)
      BY <1>0, <2>4 DEF Exit, Return, Goto, boundVars, TypeOK, PcValues
    <2>5. CASE Crash(w)
      BY <1>0, <2>5 DEF Crash, Goto, TypeOK, PcValues
    <2> QED BY <2>1, <2>2, <2>3, <2>4, <2>5
  <1>3. stopped' \in [Workers -> BOOLEAN]
    BY <1>0 DEF LoadPlan, CallRaises, Stop, Exit, Crash, TypeOK
  <1>4. TypeOK'
    BY <1>0, <1>1, <1>2, <1>3 DEF TypeOK, PcValues, rowVars, fileVars, memVars
  <1>5. \A v \in Workers : AtCall(v)'
    <2> TAKE v \in Workers
    <2>1. CASE pc'[v] = pc[v]
      BY <1>1, <2>1, OthersAtCall DEF rowVars, fileVars, memVars
    <2>2. CASE v = w /\ pc'[v] # pc[v]
      BY <1>0, <1>1, <1>2, <2>2 DEF AtCall, Owns, rowVars, memVars, Busy, TryCalls, EpilogueCalls,
        HandlerCalls, StepCalls
    <2> QED BY <1>2, <2>1, <2>2
  <1>6. RowsAgree' /\ SuccessIsComplete' /\ CheckpointAfterSuccess'
        /\ FailedRunExpiresDatasets'
    BY <1>1, RowsStay, CheckpointStays, DatasetsStay DEF rowVars, fileVars
  <1>7. OutputHasOwner'
    <2>1. \/ pc[w] \notin {"record_artifact", "dead"}
          \/ pc'[w] \in {pc[w], "dead"} /\ at'[w] = at[w]
      BY <1>1, <1>2 DEF memVars, Busy, TryCalls, EpilogueCalls, HandlerCalls
    <2>2. faults' \in Nat /\ faults <= faults'
      BY <1>2
    <2> QED BY <1>1, <1>2, <2>1, <2>2, OwnersStay DEF rowVars, fileVars, memVars
  <1> QED BY <1>4, <1>5, <1>6, <1>7 DEF WorkerInv

\* What a worker names while it owns its run is of the right type.
LEMMA Names ==
  ASSUME WorkerInv, NEW w \in Workers, pc[w] \in TryCalls
  PROVE  /\ at[w] \in Runs /\ Attempt(w) \in 1..MaxAttempts
         /\ cur[w] \in Steps => Dataset(w) \in DatasetId
         /\ <<at[w], Attempt(w)>> \in ArtifactId
         /\ run[at[w]] \in {"queued", "running"}
  <1>1. at[w] \in Runs /\ Owns(w, at[w])
    BY DEF WorkerInv, AtCall, Busy
  <1>2. job \in [Runs -> JobRow]
    BY DEF WorkerInv, TypeOK, JobRow
  <1>3. job[at[w]].attempt \in 0..MaxAttempts
    BY <1>1, <1>2 DEF JobRow
  <1>4. job[at[w]].attempt > 0 /\ run[at[w]] \in {"queued", "running"}
    BY <1>1 DEF WorkerInv, RowsAgree, Owns
  <1>5. Attempt(w) \in 1..MaxAttempts
    BY <1>3, <1>4, ConstantsAssumption DEF Attempt
  <1> QED
    BY <1>1, <1>4, <1>5 DEF Dataset, DatasetId, ArtifactId

LEMMA ExecuteSteps ==
  ASSUME WorkerInv, NEW w \in Workers, ExecuteSource(w) \/ ExecuteTransform(w)
  PROVE  WorkerInv'
  <1> USE ConstantsAssumption
  <1>0. TypeOK /\ AtCall(w)
    BY DEF WorkerInv
  <1>1. /\ UNCHANGED <<run, step, job, rows, expired, artifacts, checkpoint, outputs, delivered, at, cur, stopped>>
        /\ pc[w] = "execute" /\ cur[w] \in 1..(NSteps - 1)
        /\ files' = files \cup {Dataset(w)}
        /\ held' = [held EXCEPT ![w] = @ \cup {Dataset(w)}]
        /\ Return(w, "record_dataset")
    BY DEF ExecuteSource, ExecuteTransform, rowVars
  <1>2. pc[w] \in TryCalls /\ pc[w] \in StepCalls /\ pc[w] \in Busy
    BY <1>1 DEF TryCalls, StepCalls, Busy
  <1>3. at[w] \in Runs /\ Owns(w, at[w]) /\ cur[w] \in Steps /\ Dataset(w) \in DatasetId
    BY <1>0, <1>2, Names DEF AtCall
  <1>4. pc' = [pc EXCEPT ![w] = "record_dataset"] /\ UNCHANGED <<faults, stops>>
    BY <1>1 DEF Return, Goto, boundVars
  <1>5. CheckpointAfterSuccess' /\ loaded' \in [Runs -> 0..NRuns] /\ candidate' \in [Workers -> BOOLEAN]
    <2>1. CASE ExecuteTransform(w)
      BY <1>0, <1>1, <2>1, CheckpointStays DEF ExecuteTransform, TypeOK
    <2>2. CASE ExecuteSource(w)
      <3>1. loaded' = [loaded EXCEPT ![at[w]] = checkpoint] /\ candidate' = [candidate EXCEPT ![w] = TRUE]
        BY <2>2 DEF ExecuteSource, LoadCheckpoint, Propose
      <3>2. checkpoint \in 0..NRuns /\ loaded \in [Runs -> 0..NRuns] /\ candidate \in [Workers -> BOOLEAN]
        BY <1>0 DEF TypeOK
      <3>3. checkpoint # 0 => checkpoint < at[w] /\ run[checkpoint] = "succeeded"
        <4> SUFFICES ASSUME checkpoint # 0 PROVE checkpoint < at[w] /\ run[checkpoint] = "succeeded"
          OBVIOUS
        <4>1. checkpoint \in Runs /\ run[checkpoint] = "succeeded"
          BY <3>2 DEF WorkerInv, CheckpointAfterSuccess, Runs
        <4>2. run[at[w]] \in {"queued", "running"}
          BY <1>2, Names
        <4>3. ~(at[w] < checkpoint) /\ at[w] # checkpoint
          BY <1>3, <4>1, <4>2 DEF WorkerInv, RowsAgree, Terminal
        <4> QED BY <1>3, <4>1, <4>3 DEF Runs
      <3>4. \A r \in Runs : loaded'[r] = IF r = at[w] THEN checkpoint ELSE loaded[r]
        BY <3>1, <3>2
      <3>5. CheckpointAfterSuccess'
        BY <1>1, <3>3, <3>4 DEF WorkerInv, CheckpointAfterSuccess
      <3> QED BY <3>1, <3>2, <3>5
    <2> QED BY <2>1, <2>2
  <1>6. TypeOK'
    <2>1. pc' \in [Workers -> PcValues]
      BY <1>0, <1>4 DEF TypeOK, PcValues, Busy, TryCalls
    <2>2. held' \in [Workers -> SUBSET DatasetId] /\ files' \subseteq DatasetId
      BY <1>0, <1>1, <1>3 DEF TypeOK
    <2> QED BY <1>0, <1>1, <1>4, <1>5, <2>1, <2>2 DEF TypeOK, PcValues
  <1>7. \A v \in Workers : AtCall(v)'
    <2> TAKE v \in Workers
    <2>1. CASE v # w
      BY <1>0, <1>1, <1>4, <2>1, OthersAtCall DEF TypeOK
    <2>2. CASE v = w
      <3>1. pc'[w] = "record_dataset" /\ Owns(w, at[w])'
        BY <1>0, <1>1, <1>3, <1>4 DEF TypeOK, Owns
      <3>2. cur[w] # NSteps
        BY <1>1
      <3> QED
        BY <1>1, <1>3, <2>2, <3>1, <3>2 DEF AtCall
    <2> QED BY <2>1, <2>2
  <1>8. RowsAgree' /\ SuccessIsComplete' /\ FailedRunExpiresDatasets'
    BY <1>1, RowsStay, DatasetsStay
  <1>9. OutputHasOwner'
    <2>1. faults' \in Nat /\ faults <= faults'
      BY <1>0, <1>4 DEF TypeOK
    <2>2. \A v \in Workers : v # w => pc'[v] = pc[v] /\ at'[v] = at[v]
      BY <1>0, <1>1, <1>4 DEF TypeOK
    <2> QED BY <1>1, <2>1, <2>2, OwnersStay
  <1> QED BY <1>5, <1>6, <1>7, <1>8, <1>9 DEF WorkerInv

LEMMA ExecuteFileExportStep ==
  ASSUME WorkerInv, NEW w \in Workers, ExecuteFileExport(w)
  PROVE  WorkerInv'
  <1> USE ConstantsAssumption
  <1>0. TypeOK /\ AtCall(w)
    BY DEF WorkerInv
  <1>1. /\ UNCHANGED <<run, step, job, rows, expired, artifacts, checkpoint, files, delivered, at, cur, held,
                       candidate, stopped, loaded>>
        /\ pc[w] = "execute" /\ cur[w] = NSteps /\ at[w] \notin TableRuns
        /\ outputs' = outputs \cup {<<at[w], Attempt(w)>>}
        /\ Return(w, "record_artifact")
    BY DEF ExecuteFileExport, rowVars, memVars
  <1>2. pc[w] \in TryCalls /\ pc[w] \in StepCalls /\ pc[w] \in Busy
    BY <1>1 DEF TryCalls, StepCalls, Busy
  <1>3. /\ at[w] \in Runs /\ Owns(w, at[w]) /\ cur[w] \in Steps
        /\ <<at[w], Attempt(w)>> \in ArtifactId
    BY <1>0, <1>2, Names DEF AtCall
  <1>4. pc' = [pc EXCEPT ![w] = "record_artifact"] /\ UNCHANGED <<faults, stops>>
    BY <1>1 DEF Return, Goto, boundVars
  <1>5. pc' \in [Workers -> PcValues] /\ pc'[w] = "record_artifact"
        /\ \A v \in Workers : v # w => pc'[v] = pc[v]
    BY <1>0, <1>4 DEF TypeOK, PcValues, Busy, TryCalls
  <1>6. TypeOK'
    BY <1>0, <1>1, <1>3, <1>4, <1>5 DEF TypeOK, PcValues
  <1>7. \A v \in Workers : AtCall(v)'
    <2> TAKE v \in Workers
    <2>1. CASE v # w
      BY <1>1, <1>5, <2>1, OthersAtCall
    <2>2. CASE v = w
      BY <1>1, <1>3, <1>5, <2>2 DEF AtCall, Owns
    <2> QED BY <2>1, <2>2
  <1>8. RowsAgree' /\ SuccessIsComplete' /\ FailedRunExpiresDatasets'
        /\ CheckpointAfterSuccess'
    BY <1>1, RowsStay, DatasetsStay, CheckpointStays
  <1>9. OutputHasOwner'
    <2> SUFFICES ASSUME faults' <= 1, NEW o \in outputs', o \notin artifacts'
                 PROVE  \E v \in Workers :
                          /\ at'[v] = o[1]
                          /\ \/ pc'[v] = "dead"
                             \/ pc'[v] = "record_artifact" /\ job'[at'[v]].attempt = o[2]
      BY DEF OutputHasOwner, Attempt
    <2>1. CASE o = <<at[w], Attempt(w)>>
      BY <1>1, <1>5, <2>1 DEF Attempt
    <2>2. CASE o \in outputs
      <3>1. PICK v \in Workers : /\ at[v] = o[1]
                                 /\ \/ pc[v] = "dead"
                                    \/ pc[v] = "record_artifact" /\ job[at[v]].attempt = o[2]
        BY <1>1, <1>4, <2>2 DEF WorkerInv, OutputHasOwner, Attempt
      <3>2. v # w
        BY <1>1, <3>1
      <3> QED BY <1>1, <1>5, <3>1, <3>2
    <2> QED BY <1>1, <2>1, <2>2
  <1> QED BY <1>6, <1>7, <1>8, <1>9 DEF WorkerInv

LEMMA ExecuteTableExportStep ==
  ASSUME WorkerInv, NEW w \in Workers, ExecuteTableExport(w)
  PROVE  WorkerInv'
  <1> USE ConstantsAssumption
  <1> DEFINE mine == <<at[w], Attempt(w)>>
  <1>0. TypeOK /\ AtCall(w)
    BY DEF WorkerInv
  <1>1. /\ UNCHANGED <<run, step, job, rows, expired, artifacts, checkpoint, files, outputs, at, cur,
                       held, candidate, stopped, loaded>>
        /\ pc[w] = "execute" /\ cur[w] = NSteps /\ at[w] \in TableRuns
        /\ delivered' = delivered \cup {mine}
        /\ ReturnOrRaise(w, "succeed_step")
    BY DEF ExecuteTableExport, rowVars, memVars
  <1>2. pc[w] \in TryCalls /\ pc[w] \in StepCalls /\ pc[w] \in Busy /\ Except(pc[w]) = "fail"
    BY <1>1 DEF TryCalls, StepCalls, Busy, HandlerCalls, Except
  <1>3. at[w] \in Runs /\ Owns(w, at[w]) /\ cur[w] \in Steps /\ mine \in ArtifactId
    BY <1>0, <1>2, Names DEF AtCall
  <1>4. /\ pc' \in [Workers -> PcValues] /\ pc'[w] \in {"succeed_step", "fail"}
        /\ \A v \in Workers : v # w => pc'[v] = pc[v]
        /\ faults' \in 0..MaxFaults /\ faults <= faults' /\ stops' = stops
    <2>1. "succeed_step" \in PcValues
      BY DEF PcValues, Busy, TryCalls
    <2> QED BY <1>0, <1>1, <1>2, <2>1, Moves
  <1>5. delivered \subseteq delivered' /\ delivered' \subseteq ArtifactId
    BY <1>0, <1>1, <1>3 DEF TypeOK
  <1>6. TypeOK'
    BY <1>0, <1>1, <1>4, <1>5 DEF TypeOK, PcValues
  <1>7. \A v \in Workers : AtCall(v)'
    <2> TAKE v \in Workers
    <2>1. CASE v # w
      BY <1>1, <1>4, <1>5, <2>1, OthersAtCall
    <2>2. CASE v = w
      <3>1. Delivered(at[w])' /\ Owns(w, at[w])'
        BY <1>1, <1>3 DEF Delivered, Owns, Attempt
      <3> QED BY <1>1, <1>3, <1>4, <2>2, <3>1 DEF AtCall, TryCalls, StepCalls
    <2> QED BY <2>1, <2>2
  <1>8. RowsAgree' /\ SuccessIsComplete' /\ FailedRunExpiresDatasets' /\ CheckpointAfterSuccess'
    BY <1>1, <1>5, RowsStay, DatasetsStay, CheckpointStays
  <1>9. OutputHasOwner'
    <2>1. faults' \in Nat /\ pc[w] \notin {"record_artifact", "dead"}
      BY <1>1, <1>4
    <2> QED BY <1>1, <1>4, <2>1, OwnersStay
  <1> QED BY <1>6, <1>7, <1>8, <1>9 DEF WorkerInv

LEMMA RecordArtifactStep ==
  ASSUME WorkerInv, NEW w \in Workers, RecordArtifact(w)
  PROVE  WorkerInv'
  <1> USE ConstantsAssumption
  <1> DEFINE mine == <<at[w], Attempt(w)>>
  <1>0. TypeOK /\ AtCall(w)
    BY DEF WorkerInv
  <1>1. /\ UNCHANGED <<run, step, job, rows, expired, checkpoint, files, delivered, at, cur, held,
                       candidate, stopped, loaded>>
        /\ pc[w] = "record_artifact"
    BY DEF RecordArtifact, memVars
  <1>2. pc[w] \in TryCalls /\ pc[w] \in StepCalls /\ pc[w] \in Busy /\ pc[w] \notin HandlerCalls
    BY <1>1 DEF TryCalls, StepCalls, Busy, HandlerCalls
  <1>3. at[w] \in Runs /\ Owns(w, at[w]) /\ cur[w] \in Steps /\ mine \in ArtifactId
    BY <1>0, <1>2, Names DEF AtCall
  <1>4. /\ \A v \in Workers : v # w => pc'[v] = pc[v]
        /\ pc' \in [Workers -> PcValues]
        /\ faults' \in 0..MaxFaults /\ faults <= faults' /\ stops' = stops
        /\ \/ pc'[w] = "succeed_step" /\ artifacts' = artifacts \cup {mine} /\ outputs' = outputs
           \/ pc'[w] = "fail" /\ artifacts' = artifacts /\ outputs' = outputs \ {mine}
           \/ pc'[w] = "fail" /\ artifacts' = artifacts /\ outputs' = outputs /\ faults' >= 2
    <2>1. pc \in [Workers -> PcValues] /\ "succeed_step" \in PcValues /\ "fail" \in PcValues
          /\ faults \in 0..MaxFaults
      BY <1>0 DEF TypeOK, PcValues, Busy, TryCalls, HandlerCalls
    <2>2. Except(pc[w]) = "fail"
      BY <1>2 DEF Except
    <2>3. CASE artifacts' = artifacts \cup {mine} /\ Return(w, "succeed_step") /\ UNCHANGED outputs
      BY <2>1, <2>3 DEF Return, Goto, boundVars
    <2>4. CASE Raise(w) /\ outputs' = outputs \ {mine} /\ UNCHANGED artifacts
      BY <2>1, <2>2, <2>4 DEF Raise, Goto
    <2>5. CASE /\ faults + 1 < MaxFaults /\ faults' = faults + 2 /\ Goto(w, "fail")
               /\ UNCHANGED <<artifacts, outputs, stops>>
      BY <2>1, <2>5 DEF Goto
    <2> QED BY <2>3, <2>4, <2>5 DEF RecordArtifact
  <1>5. artifacts \subseteq artifacts' /\ artifacts' \subseteq artifacts \cup {mine} /\ outputs' \subseteq outputs
    BY <1>4
  <1>6. TypeOK'
    BY <1>0, <1>1, <1>3, <1>4, <1>5 DEF TypeOK, PcValues
  <1>7. \A v \in Workers : AtCall(v)'
    <2> TAKE v \in Workers
    <2>1. CASE v # w
      BY <1>1, <1>4, <1>5, <2>1, OthersAtCall
    <2>2. CASE v = w /\ pc'[w] = "succeed_step"
      <3>1. Delivered(at[w])' /\ Owns(w, at[w])'
        BY <1>0, <1>1, <1>3, <1>4, <2>2 DEF AtCall, Delivered, Owns, Attempt
      <3> QED BY <1>1, <1>3, <2>2, <3>1 DEF AtCall, StepCalls
    <2>3. CASE v = w /\ pc'[w] = "fail"
      BY <1>1, <1>3, <2>3 DEF AtCall, TryCalls, StepCalls
    <2> QED BY <1>4, <2>1, <2>2, <2>3
  <1>8. RowsAgree' /\ SuccessIsComplete' /\ FailedRunExpiresDatasets'
        /\ CheckpointAfterSuccess'
    BY <1>1, <1>5, RowsStay, DatasetsStay, CheckpointStays
  <1>9. OutputHasOwner'
    <2> SUFFICES ASSUME faults' <= 1, NEW o \in outputs', o \notin artifacts'
                 PROVE  \E v \in Workers :
                          /\ at'[v] = o[1]
                          /\ \/ pc'[v] = "dead"
                             \/ pc'[v] = "record_artifact" /\ job'[at'[v]].attempt = o[2]
      BY DEF OutputHasOwner, Attempt
    <2>0. o \in outputs /\ o \notin artifacts /\ o # mine /\ faults <= 1
      BY <1>0, <1>4, <1>5 DEF TypeOK
    <2>1. PICK v \in Workers : /\ at[v] = o[1]
                               /\ \/ pc[v] = "dead"
                                  \/ pc[v] = "record_artifact" /\ job[at[v]].attempt = o[2]
      BY <2>0 DEF WorkerInv, OutputHasOwner, Attempt
    <2>2. v # w
      <3> SUFFICES ASSUME v = w PROVE FALSE
        OBVIOUS
      <3>1. at[w] = o[1] /\ job[at[w]].attempt = o[2]
        BY <1>1, <2>1
      <3>2. o \in Runs \X (1..MaxAttempts)
        BY <1>0, <2>0 DEF TypeOK, ArtifactId
      <3>3. o = <<o[1], o[2]>>
        BY <3>2
      <3> QED BY <2>0, <3>1, <3>3 DEF Attempt
    <2> QED BY <1>1, <1>4, <2>1, <2>2
  <1> QED BY <1>6, <1>7, <1>8, <1>9 DEF WorkerInv

-----------------------------------------------------------------------------
(* Dataset rows, the checkpoint and the cleanup of an ended run.           *)

LEMMA RecordDatasetStep ==
  ASSUME WorkerInv, NEW w \in Workers, RecordDataset(w)
  PROVE  WorkerInv'
  <1> USE ConstantsAssumption
  <1>0. TypeOK /\ AtCall(w)
    BY DEF WorkerInv
  <1>1. /\ UNCHANGED <<run, step, job, expired, artifacts, checkpoint, files, outputs, delivered, at, cur, held,
                       candidate, stopped, loaded, faults, stops>>
        /\ pc[w] = "record_dataset" /\ rows' = rows \cup {Dataset(w)}
        /\ pc' = [pc EXCEPT ![w] = "succeed_step"]
    BY DEF RecordDataset, memVars, fileVars, Return, Goto, boundVars
  <1>2. pc[w] \in TryCalls /\ pc[w] \in StepCalls /\ pc[w] \in Busy
    BY <1>1 DEF TryCalls, StepCalls, Busy
  <1>3. /\ at[w] \in Runs /\ Owns(w, at[w]) /\ cur[w] \in Steps /\ Dataset(w) \in DatasetId
        /\ run[at[w]] \in {"queued", "running"} /\ cur[w] # NSteps
    BY <1>0, <1>1, <1>2, Names DEF AtCall
  <1>4. /\ pc' \in [Workers -> PcValues] /\ pc'[w] = "succeed_step"
        /\ \A v \in Workers : v # w => pc'[v] = pc[v]
    BY <1>0, <1>1 DEF TypeOK, PcValues, Busy, TryCalls
  <1>5. TypeOK'
    BY <1>0, <1>1, <1>3, <1>4 DEF TypeOK, PcValues
  <1>6. \A v \in Workers : AtCall(v)'
    <2> TAKE v \in Workers
    <2>1. CASE v # w
      BY <1>1, <1>4, <2>1, OthersAtCall
    <2>2. CASE v = w
      BY <1>1, <1>3, <1>4, <2>2 DEF AtCall, Owns
    <2> QED BY <2>1, <2>2
  <1>7. FailedRunExpiresDatasets'
    <2> SUFFICES ASSUME NEW r \in Runs, run[r] = "failed", NEW d \in rows', d[1] = r
                 PROVE  d \in expired
      BY <1>1 DEF FailedRunExpiresDatasets, RowsOf
    <2>1. d # Dataset(w)
      BY <1>3 DEF Dataset
    <2> QED BY <1>1, <2>1 DEF WorkerInv, FailedRunExpiresDatasets, RowsOf
  <1>8. RowsAgree' /\ SuccessIsComplete' /\ CheckpointAfterSuccess'
    BY <1>1, RowsStay, CheckpointStays
  <1>9. OutputHasOwner'
    <2>1. faults' \in Nat /\ faults <= faults'
      BY <1>0, <1>1 DEF TypeOK
    <2> QED BY <1>1, <1>4, <2>1, OwnersStay
  <1> QED BY <1>5, <1>6, <1>7, <1>8, <1>9 DEF WorkerInv

LEMMA CommitCheckpointStep ==
  ASSUME WorkerInv, NEW w \in Workers, CommitCheckpoint(w)
  PROVE  WorkerInv'
  <1> USE ConstantsAssumption
  <1>0. TypeOK /\ AtCall(w)
    BY DEF WorkerInv
  <1>1. /\ UNCHANGED <<run, step, job, rows, expired, artifacts, files, outputs, delivered, at, cur, held,
                       candidate, stopped, loaded, faults, stops>>
        /\ pc[w] = "commit" /\ pc' = [pc EXCEPT ![w] = "expire"]
        /\ checkpoint' = checkpoint \/ (checkpoint' = at[w] /\ run[at[w]] = "succeeded")
    BY DEF CommitCheckpoint, CommitIfRunSucceeded, memVars, fileVars, Return, Goto, boundVars
  <1>2. at[w] \in Runs
    BY <1>0, <1>1 DEF AtCall, Busy, EpilogueCalls
  <1>3. /\ pc' \in [Workers -> PcValues] /\ pc'[w] = "expire"
        /\ \A v \in Workers : v # w => pc'[v] = pc[v]
    BY <1>0, <1>1 DEF TypeOK, PcValues, Busy, EpilogueCalls
  <1>4. TypeOK'
    BY <1>0, <1>1, <1>2, <1>3, SMTT(20) DEF TypeOK, PcValues, Runs
  <1>5. \A v \in Workers : AtCall(v)'
    <2> TAKE v \in Workers
    <2>1. CASE v # w
      BY <1>1, <1>3, <2>1, OthersAtCall
    <2>2. CASE v = w
      BY <1>1, <1>2, <1>3, <2>2 DEF AtCall, TryCalls, StepCalls
    <2> QED BY <2>1, <2>2
  <1>6. CheckpointAfterSuccess'
    BY <1>1 DEF WorkerInv, CheckpointAfterSuccess
  <1>7. RowsAgree' /\ SuccessIsComplete' /\ FailedRunExpiresDatasets'
    BY <1>1, RowsStay, DatasetsStay
  <1>8. OutputHasOwner'
    <2>1. faults' \in Nat /\ faults <= faults'
      BY <1>0, <1>1 DEF TypeOK
    <2> QED BY <1>1, <1>3, <2>1, OwnersStay
  <1> QED BY <1>4, <1>5, <1>6, <1>7, <1>8 DEF WorkerInv

LEMMA CleanupSteps ==
  ASSUME WorkerInv, NEW w \in Workers, MarkCleanupEligible(w) \/ DeleteDatasets(w)
  PROVE  WorkerInv'
  <1> USE ConstantsAssumption
  <1>0. TypeOK /\ AtCall(w)
    BY DEF WorkerInv
  <1>1. /\ UNCHANGED <<run, step, job, rows, artifacts, checkpoint, outputs, delivered, stopped, loaded>>
        /\ expired \subseteq expired' /\ expired' \subseteq rows /\ files' \subseteq files
        /\ pc[w] \in {"expire", "expire_failed", "delete", "delete_failed"}
    BY <1>0 DEF MarkCleanupEligible, DeleteDatasets, rowVars, fileVars, RowsOf, TypeOK
  <1>2. /\ pc' \in [Workers -> PcValues]
        /\ pc'[w] \in {"delete", "delete_failed", "idle", "fail", "dead"}
        /\ \A v \in Workers : v # w => pc'[v] = pc[v]
        /\ faults' \in 0..MaxFaults /\ faults <= faults' /\ stops' = stops
    <2>1. PICK l \in {"delete", "delete_failed", "idle"} : ReturnOrRaise(w, l)
      BY DEF MarkCleanupEligible, DeleteDatasets, ReturnOrRaise
    <2>2. l \in PcValues /\ Except(pc[w]) \in {"fail", "dead"}
      BY DEF PcValues, Busy, EpilogueCalls, HandlerCalls, Except
    <2> QED BY <1>0, <2>1, <2>2, Moves
  <1>3. /\ pc'[w] # "idle" => UNCHANGED memVars
        /\ UNCHANGED memVars \/ Done(w)
    BY <1>0 DEF MarkCleanupEligible, DeleteDatasets, Return, Raise, Goto, TypeOK
  <1>4. /\ at' \in [Workers -> 0..NRuns] /\ cur' \in [Workers -> 0..NSteps]
        /\ held' \in [Workers -> SUBSET DatasetId] /\ candidate' \in [Workers -> BOOLEAN]
        /\ \A v \in Workers : v # w => at'[v] = at[v] /\ cur'[v] = cur[v]
    <2>1. CASE UNCHANGED memVars
      BY <1>0, <2>1 DEF TypeOK, memVars
    <2>2. CASE Done(w)
      <3>1. 0 \in 0..NRuns /\ 0 \in 0..NSteps /\ {} \in SUBSET DatasetId /\ FALSE \in BOOLEAN
        OBVIOUS
      <3>2. at' \in [Workers -> 0..NRuns] /\ cur' \in [Workers -> 0..NSteps]
        BY <1>0, <2>2, <3>1 DEF TypeOK, Done
      <3>3. held' \in [Workers -> SUBSET DatasetId]
        BY <1>0, <2>2, <3>1 DEF TypeOK, Done
      <3>4. candidate' \in [Workers -> BOOLEAN]
        BY <1>0, <2>2 DEF TypeOK, Done
      <3> QED BY <1>0, <2>2, <3>2, <3>3, <3>4 DEF TypeOK, Done
    <2> QED BY <1>3, <2>1, <2>2
  <1>5. TypeOK'
    BY <1>0, <1>1, <1>2, <1>4 DEF TypeOK, PcValues
  <1>6. \A v \in Workers : AtCall(v)'
    <2> TAKE v \in Workers
    <2>1. CASE v # w
      BY <1>1, <1>2, <1>4, <2>1, OthersAtCall
    <2>2. CASE v = w
      <3>1. at[w] \in Runs
        BY <1>0, <1>1 DEF AtCall, Busy, EpilogueCalls, HandlerCalls
      <3>2. pc'[w] # "idle" => at'[w] \in Runs
        BY <1>3, <3>1 DEF memVars
      <3> QED
        BY <1>2, <2>2, <3>2 DEF AtCall, TryCalls, StepCalls, Busy, EpilogueCalls, HandlerCalls
    <2> QED BY <2>1, <2>2
  <1>7. RowsAgree' /\ SuccessIsComplete' /\ FailedRunExpiresDatasets'
        /\ CheckpointAfterSuccess'
    BY <1>1, RowsStay, DatasetsStay, CheckpointStays
  <1>8. OutputHasOwner'
    <2>1. faults' \in Nat /\ pc[w] \notin {"record_artifact", "dead"}
      BY <1>1, <1>2
    <2> QED BY <1>1, <1>2, <1>4, <2>1, OwnersStay
  <1> QED BY <1>5, <1>6, <1>7, <1>8 DEF WorkerInv

-----------------------------------------------------------------------------
(* The steps of a run. *)

LEMMA StepRowSteps ==
  ASSUME WorkerInv, NEW w \in Workers, StartStep(w) \/ MarkStepSucceeded(w)
  PROVE  WorkerInv'
  <1> USE ConstantsAssumption
  <1>0. TypeOK /\ AtCall(w)
    BY DEF WorkerInv
  <1>1. /\ UNCHANGED <<run, job, rows, expired, artifacts, checkpoint, files, outputs, delivered, at, held,
                       candidate, stopped, loaded>>
        /\ pc[w] \in {"start_step", "succeed_step"}
    BY DEF StartStep, MarkStepSucceeded, memVars, fileVars
  <1>2. pc[w] \in TryCalls /\ pc[w] \in StepCalls /\ pc[w] \in Busy /\ Except(pc[w]) = "fail"
    BY <1>1 DEF TryCalls, StepCalls, Busy, HandlerCalls, Except
  <1>3. /\ at[w] \in Runs /\ Owns(w, at[w]) /\ cur[w] \in Steps
        /\ run[at[w]] \in {"queued", "running"}
    BY <1>0, <1>2, Names DEF AtCall
  <1>4. /\ pc' \in [Workers -> PcValues]
        /\ \A v \in Workers : v # w => pc'[v] = pc[v] /\ cur'[v] = cur[v]
        /\ pc'[w] \in {"execute", "start_step", "finish_success", "fail"}
        /\ cur' \in [Workers -> 0..NSteps]
        /\ pc'[w] \in {"execute", "start_step"} => cur'[w] \in Steps
        /\ pc'[w] = "finish_success" => pc[w] = "succeed_step" /\ cur[w] = NSteps
        /\ faults' \in 0..MaxFaults /\ faults <= faults' /\ stops' = stops
    <2>0. cur \in [Workers -> 0..NSteps] /\ pc \in [Workers -> PcValues]
      BY <1>0 DEF TypeOK, PcValues
    <2>1. CASE UNCHANGED cur /\ \E l \in {"execute", "finish_success"} :
            ReturnOrRaise(w, l) /\ (l = "finish_success" => pc[w] = "succeed_step" /\ cur[w] = NSteps)
      <3>1. PICK l \in {"execute", "finish_success"} :
            ReturnOrRaise(w, l) /\ (l = "finish_success" => pc[w] = "succeed_step" /\ cur[w] = NSteps)
        BY <2>1
      <3>2. l \in PcValues
        BY DEF PcValues, Busy, TryCalls
      <3>3. /\ pc' \in [Workers -> PcValues] /\ pc'[w] \in {l, "fail"}
            /\ \A v \in Workers : v # w => pc'[v] = pc[v]
            /\ faults' \in 0..MaxFaults /\ faults <= faults' /\ stops' = stops
        BY <1>0, <1>2, <3>1, <3>2, Moves
      <3>4. pc'[w] = "finish_success" => pc[w] = "succeed_step" /\ cur[w] = NSteps
        BY <3>1, <3>3
      <3> QED BY <1>3, <2>0, <2>1, <3>3, <3>4
    <2>2. CASE cur[w] < NSteps /\ Return(w, "start_step") /\ cur' = [cur EXCEPT ![w] = @ + 1]
      <3>1. "start_step" \in PcValues /\ ReturnOrRaise(w, "start_step")
        BY <2>2 DEF PcValues, Busy, TryCalls, ReturnOrRaise
      <3>2. cur[w] + 1 \in Steps
        BY <1>3, <2>2 DEF Steps
      <3> QED BY <1>0, <1>2, <2>0, <2>2, <3>1, <3>2, Moves DEF Steps
    <2> QED BY <2>1, <2>2 DEF StartStep, MarkStepSucceeded, ReturnOrRaise, memVars
  <1>5. TypeOK'
    <2>1. step' \in [Runs -> [Steps -> {"queued", "running", "succeeded", "failed"}]]
      <3>0. step \in [Runs -> [Steps -> {"queued", "running", "succeeded", "failed"}]]
        BY <1>0 DEF TypeOK
      <3>1. PICK x \in {"queued", "running", "succeeded", "failed"} : step' = [step EXCEPT ![at[w]][cur[w]] = x]
        BY <1>3, <3>0, SMTT(20) DEF StartStep, MarkStepSucceeded
      <3> QED BY <1>3, <3>0, <3>1
    <2> QED BY <1>0, <1>1, <1>4, <2>1 DEF TypeOK, PcValues
  <1>6. \A v \in Workers : AtCall(v)'
    <2> TAKE v \in Workers
    <2>1. CASE v # w
      BY <1>1, <1>4, <2>1, OthersAtCall
    <2>2. CASE v = w
      <3>1. pc'[w] = "finish_success" => Delivered(at[w])'
        BY <1>0, <1>1, <1>4 DEF AtCall, Delivered
      <3> QED BY <1>1, <1>3, <1>4, <2>2, <3>1 DEF AtCall, Owns, TryCalls, StepCalls, Busy
    <2> QED BY <2>1, <2>2
  <1>7. \A r \in Runs, s \in Steps : step[r][s] = "succeeded" => step'[r][s] = "succeeded"
    <2>0. step \in [Runs -> [Steps -> {"queued", "running", "succeeded", "failed"}]]
      BY <1>0 DEF TypeOK
    <2>1. CASE StartStep(w)
      BY <1>3, <2>0, <2>1 DEF StartStep
    <2>2. CASE MarkStepSucceeded(w)
      BY <1>3, <2>0, <2>2 DEF MarkStepSucceeded
    <2> QED BY <2>1, <2>2
  <1>8. SuccessIsComplete' /\ RowsAgree'
    BY <1>1, <1>7 DEF WorkerInv, SuccessIsComplete, Delivered, RowsAgree
  <1>9. CheckpointAfterSuccess' /\ FailedRunExpiresDatasets'
    BY <1>1, DatasetsStay, CheckpointStays
  <1>10. OutputHasOwner'
    <2>1. faults' \in Nat /\ pc[w] \notin {"record_artifact", "dead"}
      BY <1>1, <1>4
    <2> QED BY <1>1, <1>4, <2>1, OwnersStay
  <1> QED BY <1>5, <1>6, <1>8, <1>9, <1>10 DEF WorkerInv

-----------------------------------------------------------------------------
(* The run and its job: activation, claim, start, success and failure.     *)

\* Pointwise reading of an update of one job row, and the facts that follow.
LEMMA JobRowMoves ==
  ASSUME WorkerInv, NEW r \in Runs, NEW new \in JobRow, job' = [job EXCEPT ![r] = new]
  PROVE  /\ job' \in [Runs -> JobRow]
         /\ \A q \in Runs : job'[q] = IF q = r THEN new ELSE job[q]
  <1>1. job \in [Runs -> JobRow]
    BY DEF WorkerInv, TypeOK, JobRow
  <1> QED BY <1>1

LEMMA ActivateStep ==
  ASSUME WorkerInv, NEW r \in Runs, Activate(r)
  PROVE  WorkerInv'
  <1> USE ConstantsAssumption
  <1> DEFINE new == [job[r] EXCEPT !.state = "queued"]
  <1>0. TypeOK /\ job[r] \in JobRow /\ job[r].state = "none"
    BY DEF WorkerInv, TypeOK, JobRow, RowsAgree, Activate
  <1>1. /\ UNCHANGED <<step, rows, expired, artifacts, checkpoint, files, outputs, delivered, at, cur, held,
                       candidate, pc, stopped, loaded, faults, stops>>
        /\ run[r] = "waiting" /\ run' = [run EXCEPT ![r] = "queued"]
        /\ \A q \in 1..(r - 1) : run[q] \in Terminal
        /\ job' = [job EXCEPT ![r] = new]
    BY DEF Activate, fileVars, memVars, boundVars
  <1>2. new \in JobRow /\ new.state = "queued" /\ new.attempt = job[r].attempt
    BY <1>0 DEF JobRow
  <1>3. /\ job' \in [Runs -> JobRow]
        /\ \A q \in Runs : job'[q] = IF q = r THEN new ELSE job[q]
    BY <1>1, <1>2, JobRowMoves
  <1>4. /\ run' \in [Runs -> RunStates]
        /\ \A q \in Runs : run'[q] = IF q = r THEN "queued" ELSE run[q]
    BY <1>0, <1>1 DEF TypeOK, RunStates
  <1> HIDE DEF new
  <1>5. TypeOK'
    BY <1>0, <1>1, <1>3, <1>4 DEF TypeOK, JobRow
  <1>6. \A v \in Workers : AtCall(v)'
    <2>1. \A v \in Workers, q \in Runs : job'[q] = job[q] \/ (~Owns(v, q) /\ job[q].state # "failed")
      BY <1>0, <1>3 DEF Owns
    <2> QED BY <1>1, <2>1, OthersAtCall
  <1>7. RowsAgree'
    <2>1. \A q \in Runs :
            /\ run'[q] = "waiting" => job'[q].state = "none"
            /\ job'[q].state \in {"queued", "running"} => run'[q] \in {"queued", "running"}
            /\ run'[q] = "failed" => job'[q].state = "failed"
            /\ job'[q].state \in {"none", "queued"} => job'[q].attempt < MaxAttempts
            /\ job'[q].state = "running" => job'[q].attempt > 0
      BY <1>0, <1>2, <1>3, <1>4 DEF WorkerInv, RowsAgree
    <2>2. ASSUME NEW p \in Runs, NEW q \in Runs, p < q, run'[q] # "waiting"
          PROVE  run'[p] \in Terminal
      <3>1. CASE q = r
        BY <1>1, <1>4, <2>2, <3>1 DEF Runs
      <3>2. CASE q # r
        BY <1>1, <1>4, <2>2, <3>2 DEF WorkerInv, RowsAgree, Terminal
      <3> QED BY <3>1, <3>2
    <2> QED BY <2>1, <2>2 DEF RowsAgree
  <1>8. SuccessIsComplete' /\ CheckpointAfterSuccess' /\ FailedRunExpiresDatasets'
    <2>1. \A q \in Runs : run'[q] \in Terminal => run[q] = run'[q] /\ job'[q] = job[q]
      BY <1>3, <1>4 DEF Terminal
    <2>2. SuccessIsComplete'
      BY <1>1, <2>1 DEF WorkerInv, SuccessIsComplete, Delivered, Terminal
    <2>3. \A q \in Runs : run[q] = "succeeded" => run'[q] = "succeeded"
      BY <1>1, <1>4
    <2>4. checkpoint \in 0..NRuns /\ \A q \in Runs : loaded[q] \in 0..NRuns
      BY <1>0 DEF TypeOK
    <2>5. CheckpointAfterSuccess'
      BY <1>1, <2>3, <2>4 DEF WorkerInv, CheckpointAfterSuccess, Runs
    <2> QED BY <1>1, <2>1, <2>2, <2>5 DEF WorkerInv, FailedRunExpiresDatasets, RowsOf, Terminal
  <1>9. OutputHasOwner'
    <2>1. \A v \in Workers : pc[v] = "record_artifact" => job'[at[v]].attempt = job[at[v]].attempt
      BY <1>2, <1>3 DEF WorkerInv, AtCall, Busy, TryCalls
    <2> QED BY <1>1, <2>1 DEF WorkerInv, OutputHasOwner, Attempt
  <1> QED BY <1>5, <1>6, <1>7, <1>8, <1>9 DEF WorkerInv

LEMMA ClaimNextStep ==
  ASSUME WorkerInv, NEW w \in Workers, ClaimNext(w)
  PROVE  WorkerInv'
  <1> USE ConstantsAssumption
  <1>1. PICK r \in Runs : /\ Claimable(r)
                          /\ job' = [job EXCEPT ![r] = [state |-> "running", worker |-> w,
                                                        attempt |-> @.attempt + 1]]
                          /\ at' = [at EXCEPT ![w] = r]
    BY DEF ClaimNext
  <1> DEFINE new == [state |-> "running", worker |-> w, attempt |-> job[r].attempt + 1]
  <1>2. /\ UNCHANGED <<run, step, rows, expired, artifacts, checkpoint, files, outputs, delivered, cur, held,
                       candidate, stopped, loaded, faults, stops>>
        /\ pc[w] = "idle" /\ pc' = [pc EXCEPT ![w] = "load_plan"]
    BY DEF ClaimNext, Return, Goto, boundVars, fileVars
  <1>3. TypeOK /\ job[r] \in JobRow /\ job[r].state = "queued"
    BY <1>1 DEF WorkerInv, TypeOK, JobRow, Claimable
  <1>4. job[r].attempt < MaxAttempts /\ job[r].attempt \in Nat /\ run[r] \in {"queued", "running"}
    BY <1>3 DEF WorkerInv, RowsAgree, JobRow
  <1>5. new \in JobRow /\ new.state = "running" /\ new.worker = w /\ new.attempt > 0
    BY <1>4 DEF JobRow
  <1>6. job' = [job EXCEPT ![r] = new]
    BY <1>1, <1>3 DEF TypeOK
  <1>7. /\ job' \in [Runs -> JobRow]
        /\ \A q \in Runs : job'[q] = IF q = r THEN new ELSE job[q]
    BY <1>5, <1>6, JobRowMoves
  <1> HIDE DEF new
  <1>8. /\ pc' \in [Workers -> PcValues] /\ pc'[w] = "load_plan" /\ at'[w] = r
        /\ at' \in [Workers -> 0..NRuns]
        /\ \A v \in Workers : v # w => pc'[v] = pc[v] /\ at'[v] = at[v]
    BY <1>1, <1>2, <1>3 DEF TypeOK, PcValues, Busy, TryCalls, Runs
  <1>9. TypeOK'
    BY <1>2, <1>3, <1>7, <1>8 DEF TypeOK, PcValues, JobRow
  <1>10. \A v \in Workers : AtCall(v)'
    <2> TAKE v \in Workers
    <2>1. CASE v # w
      <3>1. \A q \in Runs : job'[q] = job[q] \/ (~Owns(v, q) /\ job[q].state # "failed")
        BY <1>3, <1>7 DEF Owns
      <3> QED BY <1>2, <1>8, <2>1, <3>1, OthersAtCall
    <2>2. CASE v = w
      BY <1>5, <1>7, <1>8, <2>2 DEF AtCall, Owns, StepCalls
    <2> QED BY <2>1, <2>2
  <1>11. RowsAgree'
    BY <1>2, <1>4, <1>5, <1>7 DEF WorkerInv, RowsAgree
  <1>12. SuccessIsComplete' /\ CheckpointAfterSuccess' /\ FailedRunExpiresDatasets'
    <2>1. SuccessIsComplete'
      BY <1>2, <1>4, <1>7 DEF WorkerInv, SuccessIsComplete, Delivered
    <2> QED BY <1>2, <2>1, CheckpointStays, DatasetsStay
  <1>13. OutputHasOwner'
    <2>1. \A v \in Workers : pc[v] = "record_artifact" => job'[at[v]].attempt = job[at[v]].attempt
      BY <1>3, <1>7 DEF WorkerInv, AtCall, Owns, Busy, TryCalls
    <2>2. faults' \in Nat /\ faults <= faults'
      BY <1>2, <1>3 DEF TypeOK
    <2> QED BY <1>2, <1>8, <2>1, <2>2, OwnersStay
  <1> QED BY <1>9, <1>10, <1>11, <1>12, <1>13 DEF WorkerInv

LEMMA StartRunStep ==
  ASSUME WorkerInv, NEW w \in Workers, StartRun(w)
  PROVE  WorkerInv'
  <1> USE ConstantsAssumption
  <1>0. TypeOK /\ AtCall(w)
    BY DEF WorkerInv
  <1>1. /\ UNCHANGED <<step, job, rows, expired, artifacts, checkpoint, files, outputs, delivered, at, held,
                       candidate, stopped, loaded>>
        /\ pc[w] = "start_run"
        /\ run' = [run EXCEPT ![at[w]] = IF @ = "queued" THEN "running" ELSE @]
    BY DEF StartRun, fileVars
  <1>2. pc[w] \in TryCalls /\ pc[w] \in Busy /\ Except(pc[w]) = "fail"
    BY <1>1 DEF TryCalls, Busy, HandlerCalls, Except
  <1>3. at[w] \in Runs /\ Owns(w, at[w]) /\ run[at[w]] \in {"queued", "running"}
    BY <1>0, <1>2, Names DEF AtCall
  <1>4. /\ pc' \in [Workers -> PcValues] /\ cur' \in [Workers -> 0..NSteps]
        /\ \A v \in Workers : v # w => pc'[v] = pc[v] /\ cur'[v] = cur[v]
        /\ pc'[w] = "fail" \/ (pc'[w] = "start_step" /\ cur'[w] \in Steps)
        /\ faults' \in 0..MaxFaults /\ faults <= faults' /\ stops' = stops
    <2>0. "start_step" \in PcValues /\ 1 \in Steps /\ 1 \in 0..NSteps
      BY DEF PcValues, Busy, TryCalls, Steps
    <2>1. CASE Return(w, "start_step") /\ cur' = [cur EXCEPT ![w] = 1]
      <3>1. ReturnOrRaise(w, "start_step") /\ pc' = [pc EXCEPT ![w] = "start_step"]
        BY <2>1 DEF ReturnOrRaise, Return, Goto
      <3> QED BY <1>0, <2>0, <2>1, <3>1, Moves DEF TypeOK
    <2>2. CASE Raise(w) /\ UNCHANGED cur
      <3>1. ReturnOrRaise(w, "start_step") /\ pc' = [pc EXCEPT ![w] = "fail"]
        BY <1>2, <2>2 DEF ReturnOrRaise, Raise, Goto
      <3> QED BY <1>0, <2>0, <2>2, <3>1, Moves DEF TypeOK
    <2> QED BY <2>1, <2>2 DEF StartRun
  <1>5. /\ run' \in [Runs -> RunStates]
        /\ \A q \in Runs : run'[q] = run[q] \/ (q = at[w] /\ run'[q] = "running")
    BY <1>0, <1>1, <1>3 DEF TypeOK, RunStates
  <1>6. TypeOK'
    BY <1>0, <1>1, <1>4, <1>5 DEF TypeOK, PcValues
  <1>7. \A v \in Workers : AtCall(v)'
    <2> TAKE v \in Workers
    <2>1. CASE v # w
      BY <1>1, <1>4, <2>1, OthersAtCall
    <2>2. CASE v = w
      BY <1>1, <1>3, <1>4, <2>2 DEF AtCall, Owns, TryCalls, StepCalls
    <2> QED BY <2>1, <2>2
  <1>8. RowsAgree'
    BY <1>1, <1>3, <1>5 DEF WorkerInv, RowsAgree, Terminal, Owns
  <1>9. SuccessIsComplete' /\ CheckpointAfterSuccess' /\ FailedRunExpiresDatasets'
    <2>1. \A q \in Runs : run'[q] \in Terminal <=> run[q] \in Terminal
      BY <1>3, <1>5 DEF Terminal
    <2>2. \A q \in Runs : run[q] \in Terminal => run'[q] = run[q]
      BY <1>3, <1>5 DEF Terminal
    <2>3. checkpoint \in 0..NRuns /\ \A q \in Runs : loaded[q] \in 0..NRuns
      BY <1>0 DEF TypeOK
    <2>4. CheckpointAfterSuccess'
      BY <1>1, <2>2, <2>3 DEF WorkerInv, CheckpointAfterSuccess, Runs, Terminal
    <2>5. SuccessIsComplete'
      BY <1>1, <2>1, <2>2 DEF WorkerInv, SuccessIsComplete, Delivered, Terminal
    <2> QED BY <1>1, <2>1, <2>2, <2>4, <2>5 DEF WorkerInv, FailedRunExpiresDatasets, RowsOf, Terminal
  <1>10. OutputHasOwner'
    <2>1. faults' \in Nat /\ pc[w] \notin {"record_artifact", "dead"}
      BY <1>1, <1>4
    <2> QED BY <1>1, <1>4, <2>1, OwnersStay
  <1> QED BY <1>6, <1>7, <1>8, <1>9, <1>10 DEF WorkerInv

LEMMA FinishSuccessStep ==
  ASSUME WorkerInv, NEW w \in Workers, FinishSuccess(w)
  PROVE  WorkerInv'
  <1> USE ConstantsAssumption
  <1> DEFINE r == at[w]
             new == [job[r] EXCEPT !.state = "succeeded", !.worker = Nobody]
  <1>0. TypeOK /\ AtCall(w)
    BY DEF WorkerInv
  <1>1. /\ UNCHANGED <<step, rows, expired, artifacts, checkpoint, files, outputs, delivered, at, cur, held,
                       candidate, stopped, loaded>>
        /\ pc[w] = "finish_success"
    BY DEF FinishSuccess, fileVars, memVars
  <1>2. pc[w] \in TryCalls /\ pc[w] \in Busy /\ Except(pc[w]) = "fail"
    BY <1>1 DEF TryCalls, Busy, HandlerCalls, Except
  <1>3. r \in Runs /\ Owns(w, r) /\ job[r] \in JobRow
    BY <1>0, <1>2 DEF AtCall, TypeOK, JobRow
  <1>4. /\ pc' \in [Workers -> PcValues]
        /\ \A v \in Workers : v # w => pc'[v] = pc[v]
        /\ pc'[w] \in {"commit", "fail"}
        /\ faults' \in 0..MaxFaults /\ faults <= faults' /\ stops' = stops
    <2>1. PICK l \in {"commit", "fail"} : ReturnOrRaise(w, l)
      BY DEF FinishSuccess, ReturnOrRaise
    <2>2. l \in PcValues
      BY DEF PcValues, Busy, EpilogueCalls, HandlerCalls
    <2> QED BY <1>0, <1>2, <2>1, <2>2, Moves
  <1>5. \/ UNCHANGED <<run, job>>
        \/ MaySucceed(w) /\ job' = [job EXCEPT ![r] = new] /\ run' = [run EXCEPT ![r] = "succeeded"]
    <2>1. job \in [Runs -> JobRow]
      BY <1>0 DEF TypeOK, JobRow
    <2>2. [job EXCEPT ![r].state = "succeeded", ![r].worker = Nobody] = [job EXCEPT ![r] = new]
      BY <1>3, <2>1 DEF JobRow
    <2> QED BY <2>2 DEF FinishSuccess
  <1>6. new \in JobRow /\ new.state = "succeeded" /\ new.attempt = job[r].attempt
    BY <1>3 DEF JobRow
  <1>7. AtCall(w)'
    BY <1>1, <1>3, <1>4 DEF AtCall, TryCalls, StepCalls
  <1>8. CASE UNCHANGED <<run, job>>
    <2>1. TypeOK'
      BY <1>0, <1>1, <1>4, <1>8 DEF TypeOK, PcValues
    <2>2. \A v \in Workers : AtCall(v)'
      BY <1>1, <1>4, <1>7, <1>8, OthersAtCall
    <2>3. RowsAgree' /\ SuccessIsComplete' /\ CheckpointAfterSuccess'
          /\ FailedRunExpiresDatasets'
      BY <1>1, <1>8, RowsStay, CheckpointStays, DatasetsStay
    <2>4. OutputHasOwner'
      <3>1. faults' \in Nat /\ pc[w] \notin {"record_artifact", "dead"}
        BY <1>1, <1>4
      <3> QED BY <1>1, <1>4, <1>8, <3>1, OwnersStay
    <2> QED BY <2>1, <2>2, <2>3, <2>4 DEF WorkerInv
  <1>9. CASE MaySucceed(w) /\ job' = [job EXCEPT ![r] = new] /\ run' = [run EXCEPT ![r] = "succeeded"]
    <2>1. /\ job' \in [Runs -> JobRow]
          /\ \A q \in Runs : job'[q] = IF q = r THEN new ELSE job[q]
      BY <1>3, <1>6, <1>9, JobRowMoves
    <2>2. /\ run' \in [Runs -> RunStates] /\ run[r] = "running"
          /\ \A q \in Runs : run'[q] = IF q = r THEN "succeeded" ELSE run[q]
      BY <1>0, <1>3, <1>9 DEF TypeOK, RunStates, MaySucceed
    <2> HIDE DEF new
    <2>3. TypeOK'
      BY <1>0, <1>1, <1>4, <2>1, <2>2 DEF TypeOK, PcValues, JobRow
    <2>4. \A v \in Workers : AtCall(v)'
      <3> TAKE v \in Workers
      <3>1. CASE v # w
        <4>1. \A q \in Runs : job'[q] = job[q] \/ (~Owns(v, q) /\ job[q].state # "failed")
          BY <1>3, <2>1, <3>1 DEF Owns
        <4> QED BY <1>1, <1>4, <3>1, <4>1, OthersAtCall
      <3> QED BY <1>7, <3>1
    <2>5. RowsAgree'
      BY <1>3, <1>6, <2>1, <2>2 DEF WorkerInv, RowsAgree, Terminal
    <2>6. SuccessIsComplete'
      <3> SUFFICES ASSUME NEW q \in Runs, run'[q] = "succeeded"
                   PROVE  /\ job'[q].state = "succeeded"
                          /\ \A s \in Steps : step'[q][s] = "succeeded"
                          /\ Delivered(q)'
        BY DEF SuccessIsComplete
      <3>1. CASE q # r
        BY <1>1, <2>1, <2>2, <3>1 DEF WorkerInv, SuccessIsComplete, Delivered
      <3>2. CASE q = r
        <4>1. \A s \in Steps : step[r][s] = "succeeded"
          BY <1>9 DEF MaySucceed
        <4>2. Delivered(r)'
          BY <1>0, <1>1, <1>3, <1>6, <2>1 DEF AtCall, Delivered
        <4> QED BY <1>1, <1>6, <2>1, <3>2, <4>1, <4>2
      <3> QED BY <3>1, <3>2
    <2>7. CheckpointAfterSuccess' /\ FailedRunExpiresDatasets'
      <3>1. checkpoint \in 0..NRuns /\ \A q \in Runs : loaded[q] \in 0..NRuns
        BY <1>0 DEF TypeOK
      <3>2. CheckpointAfterSuccess'
        BY <1>1, <2>2, <3>1 DEF WorkerInv, CheckpointAfterSuccess, Runs
      <3> QED BY <1>1, <2>2, <3>2 DEF WorkerInv, FailedRunExpiresDatasets, RowsOf
    <2>8. OutputHasOwner'
      <3>1. faults' \in Nat /\ pc[w] \notin {"record_artifact", "dead"}
        BY <1>1, <1>4
      <3>2. \A v \in Workers : pc[v] = "record_artifact" => job'[at[v]].attempt = job[at[v]].attempt
        BY <1>6, <2>1 DEF WorkerInv, AtCall, Busy, TryCalls
      <3> QED BY <1>1, <1>4, <3>1, <3>2, OwnersStay
    <2> QED BY <2>3, <2>4, <2>5, <2>6, <2>7, <2>8 DEF WorkerInv
  <1> QED BY <1>5, <1>8, <1>9

LEMMA HandleFailureStep ==
  ASSUME WorkerInv, NEW w \in Workers, HandleFailure(w)
  PROVE  WorkerInv'
  <1> USE ConstantsAssumption
  <1> DEFINE r == at[w]
             new == FailRow(r, w)
  <1>0. TypeOK /\ AtCall(w)
    BY DEF WorkerInv
  <1>1. /\ UNCHANGED <<run, step, rows, expired, artifacts, checkpoint, files, outputs, delivered,
                       stopped, loaded, faults, stops>>
        /\ pc[w] = "fail" /\ job' = [job EXCEPT ![r] = new]
    BY DEF HandleFailure, Return, boundVars, fileVars
  <1>2. r \in Runs
    BY <1>0, <1>1 DEF AtCall, Busy, HandlerCalls
  <1>3. job[r] \in JobRow
    BY <1>0, <1>2 DEF TypeOK, JobRow
  <1>4. /\ new \in JobRow /\ new.attempt = job[r].attempt
        /\ ~Owns(w, r) => new = job[r]
        /\ Owns(w, r) => job[r].state = "running" /\ new.state \in {"queued", "failed"}
                         /\ (new.state = "queued" => job[r].attempt < MaxAttempts)
    BY <1>3 DEF FailRow, JobRow, Owns
  <1>5. /\ job' \in [Runs -> JobRow]
        /\ \A q \in Runs : job'[q] = IF q = r THEN new ELSE job[q]
    BY <1>1, <1>2, <1>4, JobRowMoves
  <1>6. \/ /\ pc' = [pc EXCEPT ![w] = "finish_failure"] /\ UNCHANGED <<at, cur, held>>
           /\ candidate' = [candidate EXCEPT ![w] = FALSE] /\ job'[r].state = "failed" /\ cur[w] # 0
        \/ pc' = [pc EXCEPT ![w] = "idle"] /\ Done(w)
    BY DEF HandleFailure, Return, Goto, Discard
  <1>7. /\ pc' \in [Workers -> PcValues]
        /\ \A v \in Workers : v # w => pc'[v] = pc[v]
        /\ pc'[w] = "idle" \/ (/\ pc'[w] = "finish_failure" /\ at'[w] = r /\ cur'[w] \in Steps
                               /\ job'[r].state = "failed")
    <2>1. pc \in [Workers -> PcValues] /\ "idle" \in PcValues /\ "finish_failure" \in PcValues
      BY <1>0 DEF TypeOK, PcValues, Busy, HandlerCalls
    <2>2. cur[w] # 0 => cur[w] \in Steps
      BY <1>0 DEF TypeOK, Steps
    <2> QED BY <1>6, <2>1, <2>2
  <1>8. /\ at' \in [Workers -> 0..NRuns] /\ cur' \in [Workers -> 0..NSteps]
        /\ held' \in [Workers -> SUBSET DatasetId] /\ candidate' \in [Workers -> BOOLEAN]
        /\ \A v \in Workers : v # w => at'[v] = at[v] /\ cur'[v] = cur[v]
    <2>0. /\ at \in [Workers -> 0..NRuns] /\ cur \in [Workers -> 0..NSteps]
          /\ held \in [Workers -> SUBSET DatasetId] /\ candidate \in [Workers -> BOOLEAN]
      BY <1>0 DEF TypeOK
    <2>1. 0 \in 0..NRuns /\ 0 \in 0..NSteps
      OBVIOUS
    <2>2. /\ at' = at \/ at' = [at EXCEPT ![w] = 0]
          /\ cur' = cur \/ cur' = [cur EXCEPT ![w] = 0]
          /\ held' = held \/ held' = [held EXCEPT ![w] = {}]
          /\ candidate' = [candidate EXCEPT ![w] = FALSE]
      BY <1>6 DEF Done
    <2>3. at' \in [Workers -> 0..NRuns] /\ \A v \in Workers : v # w => at'[v] = at[v]
      BY <2>0, <2>1, <2>2
    <2>4. cur' \in [Workers -> 0..NSteps] /\ \A v \in Workers : v # w => cur'[v] = cur[v]
      BY <2>0, <2>1, <2>2
    <2>5. held' \in [Workers -> SUBSET DatasetId]
      BY <2>0, <2>2
    <2>6. candidate' \in [Workers -> BOOLEAN]
      BY <2>0, <2>2
    <2> QED BY <2>3, <2>4, <2>5, <2>6
  <1> HIDE DEF new
  <1>9. TypeOK'
    BY <1>0, <1>1, <1>5, <1>7, <1>8 DEF TypeOK, PcValues, JobRow
  <1>10. \A v \in Workers : AtCall(v)'
    <2> TAKE v \in Workers
    <2>1. CASE v # w
      <3>1. \A q \in Runs : job'[q] = job[q] \/ (~Owns(v, q) /\ job[q].state # "failed")
        BY <1>4, <1>5, <2>1 DEF Owns
      <3> QED BY <1>1, <1>7, <1>8, <2>1, <3>1, OthersAtCall
    <2>2. CASE v = w
      BY <1>2, <1>7, <2>2 DEF AtCall, TryCalls, StepCalls, Busy, EpilogueCalls, HandlerCalls
    <2> QED BY <2>1, <2>2
  <1>11. RowsAgree'
    BY <1>1, <1>2, <1>4, <1>5 DEF WorkerInv, RowsAgree
  <1>12. SuccessIsComplete' /\ CheckpointAfterSuccess' /\ FailedRunExpiresDatasets'
    <2>1. SuccessIsComplete'
      BY <1>1, <1>2, <1>4, <1>5 DEF WorkerInv, SuccessIsComplete, Delivered
    <2> QED BY <1>1, <2>1, CheckpointStays, DatasetsStay
  <1>13. OutputHasOwner'
    <2>1. \A v \in Workers : pc[v] = "record_artifact" => job'[at[v]].attempt = job[at[v]].attempt
      BY <1>4, <1>5 DEF WorkerInv, AtCall, Busy, TryCalls
    <2>2. faults' \in Nat /\ faults <= faults'
      BY <1>0, <1>1 DEF TypeOK
    <2> QED BY <1>1, <1>7, <1>8, <2>1, <2>2, OwnersStay
  <1> QED BY <1>9, <1>10, <1>11, <1>12, <1>13 DEF WorkerInv

LEMMA FinishFailureStep ==
  ASSUME WorkerInv, NEW w \in Workers, FinishFailure(w)
  PROVE  WorkerInv'
  <1> USE ConstantsAssumption
  <1> DEFINE r == at[w]
  <1>0. TypeOK /\ AtCall(w)
    BY DEF WorkerInv
  <1>1. /\ UNCHANGED <<job, rows, artifacts, checkpoint, files, outputs, delivered, at, cur, held,
                       candidate, stopped, loaded>>
        /\ pc[w] = "finish_failure" /\ expired' = expired \cup RowsOf(r)
        /\ run' = [run EXCEPT ![r] = IF @ \in {"queued", "running"} THEN "failed" ELSE @]
        /\ step' = [step EXCEPT ![r][cur[w]] = IF @ \in {"queued", "running"} THEN "failed" ELSE @]
    BY DEF FinishFailure, fileVars, memVars
  <1>2. r \in Runs /\ job[r].state = "failed" /\ cur[w] \in Steps
    BY <1>0, <1>1 DEF AtCall, Busy, HandlerCalls
  <1>3. /\ pc' \in [Workers -> PcValues]
        /\ \A v \in Workers : v # w => pc'[v] = pc[v]
        /\ pc'[w] \in {"expire_failed", "dead"}
        /\ faults' \in 0..MaxFaults /\ faults <= faults' /\ stops' = stops
    <2>1. "expire_failed" \in PcValues /\ Except(pc[w]) = "dead" /\ ReturnOrRaise(w, "expire_failed")
      BY <1>1 DEF PcValues, Busy, HandlerCalls, Except, FinishFailure
    <2> QED BY <1>0, <2>1, Moves
  <1>4. /\ run' \in [Runs -> RunStates]
        /\ \A q \in Runs : run'[q] = run[q] \/ (q = r /\ run[q] \in {"queued", "running"} /\ run'[q] = "failed")
    BY <1>0, <1>1, <1>2 DEF TypeOK, RunStates
  <1>5. /\ step' \in [Runs -> [Steps -> {"queued", "running", "succeeded", "failed"}]]
        /\ \A q \in Runs, s \in Steps : step[q][s] = "succeeded" <=> step'[q][s] = "succeeded"
    <2>0. step \in [Runs -> [Steps -> {"queued", "running", "succeeded", "failed"}]]
      BY <1>0 DEF TypeOK
    <2> DEFINE was == step[r][cur[w]]
               x == IF was \in {"queued", "running"} THEN "failed" ELSE was
    <2>1. x \in {"queued", "running", "succeeded", "failed"} /\ (x = "succeeded" <=> was = "succeeded")
      BY <1>2, <2>0
    <2>2. step' = [step EXCEPT ![r][cur[w]] = x]
      BY <1>1
    <2> HIDE DEF x
    <2> QED BY <1>2, <2>0, <2>1, <2>2
  <1>6. TypeOK'
    BY <1>0, <1>1, <1>3, <1>4, <1>5 DEF TypeOK, PcValues, RowsOf
  <1>7. \A v \in Workers : AtCall(v)'
    <2> TAKE v \in Workers
    <2>1. CASE v # w
      BY <1>1, <1>3, <2>1, OthersAtCall
    <2>2. CASE v = w
      BY <1>1, <1>2, <1>3, <2>2 DEF AtCall, TryCalls, StepCalls
    <2> QED BY <2>1, <2>2
  <1>8. RowsAgree'
    BY <1>1, <1>2, <1>4 DEF WorkerInv, RowsAgree, Terminal
  <1>9. SuccessIsComplete' /\ CheckpointAfterSuccess' /\ FailedRunExpiresDatasets'
    <2>3. SuccessIsComplete'
      BY <1>1, <1>4, <1>5 DEF WorkerInv, SuccessIsComplete, Delivered
    <2>4. checkpoint \in 0..NRuns /\ \A q \in Runs : loaded[q] \in 0..NRuns
      BY <1>0 DEF TypeOK
    <2>5. CheckpointAfterSuccess'
      BY <1>1, <1>4, <2>4 DEF WorkerInv, CheckpointAfterSuccess, Runs
    <2>6. FailedRunExpiresDatasets'
      BY <1>1, <1>4 DEF WorkerInv, FailedRunExpiresDatasets, RowsOf
    <2> QED BY <2>3, <2>5, <2>6
  <1>10. OutputHasOwner'
    <2>1. faults' \in Nat /\ pc[w] \notin {"record_artifact", "dead"}
      BY <1>1, <1>3
    <2> QED BY <1>1, <1>3, <2>1, OwnersStay
  <1> QED BY <1>6, <1>7, <1>8, <1>9, <1>10 DEF WorkerInv

-----------------------------------------------------------------------------
LEMMA NextInv == WorkerInv /\ [Next]_vars => WorkerInv'
  <1> SUFFICES ASSUME WorkerInv, [Next]_vars PROVE WorkerInv'
    OBVIOUS
  <1>1. CASE UNCHANGED vars
    <2>1. UNCHANGED <<run, step, job, rows, expired, artifacts, checkpoint, files, outputs, delivered, at, cur,
                      held, candidate, pc, stopped, loaded, faults, stops>>
      BY <1>1 DEF vars, rowVars, fileVars, memVars, boundVars
    <2>2. \A w \in Workers : AtCall(w)'
      BY <2>1 DEF WorkerInv, AtCall, Owns, Delivered
    <2>3. RowsAgree' /\ SuccessIsComplete' /\ CheckpointAfterSuccess'
          /\ FailedRunExpiresDatasets'
      BY <2>1, RowsStay, CheckpointStays, DatasetsStay
    <2>4. TypeOK' /\ OutputHasOwner'
      BY <2>1 DEF WorkerInv, TypeOK, OutputHasOwner, Attempt
    <2> QED BY <2>2, <2>3, <2>4 DEF WorkerInv
  <1>2. ASSUME NEW r \in Runs, Activate(r) PROVE WorkerInv'
    BY <1>2, ActivateStep
  <1>3. ASSUME NEW w \in Workers, ClaimNext(w) PROVE WorkerInv'
    BY <1>3, ClaimNextStep
  <1>4. ASSUME NEW w \in Workers, CallRaises(w) \/ Stop(w) \/ Exit(w) \/ Crash(w) PROVE WorkerInv'
    BY <1>4, QuietSteps
  <1>5. ASSUME NEW w \in Workers, RunOnce(w) PROVE WorkerInv'
    BY <1>5, QuietSteps, StartRunStep, StepRowSteps, ExecuteSteps, ExecuteFileExportStep,
      ExecuteTableExportStep,
      RecordArtifactStep, RecordDatasetStep, FinishSuccessStep, CommitCheckpointStep, CleanupSteps,
      HandleFailureStep, FinishFailureStep DEF RunOnce
  <1> QED BY <1>1, <1>2, <1>3, <1>4, <1>5 DEF Next

\* The inductive invariant: what every call of run_once may rely on, whatever
\* the other workers, the failing calls and the crashes did before.
THEOREM WorkerInvHolds == Spec => []WorkerInv
  BY InitInv, NextInv, PTL DEF Spec

\* Rows, files and memory of the workers stay consistent: a run has one worker
\* (run_once, _CLAIM_NEXT), a succeeded one is complete, a failed one's Datasets are all expired
\* (finish_failure), and one failing call orphans no artifact file (publish).
THEOREM WorkersStayConsistent == Spec => []WorkerInvariant
  <1>1. WorkerInv => WorkerInvariant
    <2> SUFFICES ASSUME WorkerInv PROVE WorkerInvariant
      OBVIOUS
    <2>1. WorkersOwnTheirRun
      BY DEF WorkerInv, AtCall, WorkersOwnTheirRun, Busy
    <2>2. ArtifactFilesAccounted
      BY DEF WorkerInv, OutputHasOwner, ArtifactFilesAccounted
    <2> QED BY <2>1, <2>2 DEF WorkerInv, WorkerInvariant
  <1> QED BY <1>1, WorkerInvHolds, PTL

\* A run is only ever recorded as succeeded with every step and its job
\* succeeded and the output of its last attempt delivered: the artifact of a file
\* Export, the committed rows of a table Export (finish_success).
THEOREM SuccessIsAlwaysComplete == Spec => []SuccessIsComplete
  <1>1. WorkerInv => SuccessIsComplete
    BY DEF WorkerInv
  <1> QED BY <1>1, WorkerInvHolds, PTL

\* The durable checkpoint is the position of a run that succeeded, and every
\* Source started from that of an earlier one (commit_if_run_succeeded).
THEOREM CheckpointsFollowSuccess == Spec => []CheckpointAfterSuccess
  <1>1. WorkerInv => CheckpointAfterSuccess
    BY DEF WorkerInv
  <1> QED BY <1>1, WorkerInvHolds, PTL
=============================================================================

--------------------------- MODULE RunQueueProofs ---------------------------
(***************************************************************************)
(* RunQueue for any set of pipelines, runs and scheduler sessions: types,  *)
(* and the invariant from which the serial execution of a pipeline and its *)
(* edit lock follow.                                                       *)
(***************************************************************************)
EXTENDS RunQueueRefinement, FiniteSetTheorems, SequenceTheorems, WellFoundedInduction, TLAPS

\* What ending a transaction, by commit or by rollback, does to the types.
LEMMA EndTxnType ==
  ASSUME TypeOK, NEW t \in Txns, EndTxn(t)
  PROVE  /\ pipelineLock' \in [Pipelines -> Txns \cup {Nobody}]
         /\ runLock' \in [Runs -> Txns \cup {Nobody}]
         /\ pc' \in [Txns -> Statements]
         /\ request' \in [Txns -> Runs \cup {Nobody}]
         /\ batch' \in [Txns -> SUBSET Runs]
         /\ current' \in [Txns -> Pipelines \cup {Nobody}]
         /\ targets' \in [Txns -> SUBSET Runs]
         /\ released' \in [Txns -> SUBSET Runs]
         /\ promoted' \in [Txns -> SUBSET Runs]
         /\ foundActive' \in [Txns -> BOOLEAN]
  BY DEF TypeOK, EndTxn, Statements

\* A rollback leaves every committed row as it was.
LEMMA RollbackType == ASSUME TypeOK, NEW t \in Txns, Rollback(t) PROVE TypeOK'
  BY EndTxnType DEF Rollback, TypeOK, rows

\* One row of the release statement, or its end.
LEMMA ReleaseType ==
  ASSUME TypeOK, NEW t \in Txns, NEW next \in Statements, ReleaseTerminal(t, next)
  PROVE  TypeOK'
<1>1. CASE targets[t] = {} /\ pc' = [pc EXCEPT ![t] = next]
                           /\ UNCHANGED <<targets, released, runLock>>
  BY <1>1 DEF ReleaseTerminal, TypeOK, rows
<1>2. ASSUME NEW r \in targets[t],
             targets' = [targets EXCEPT ![t] = @ \ {r}],
             IF r \in isActive
             THEN /\ released' = [released EXCEPT ![t] = @ \cup {r}]
                  /\ runLock' = [runLock EXCEPT ![r] = t]
             ELSE UNCHANGED <<released, runLock>>,
             UNCHANGED pc
      PROVE  TypeOK'
  <2>1. /\ released' \in [Txns -> SUBSET Runs]
        /\ runLock' \in [Runs -> Txns \cup {Nobody}]
        /\ targets' \in [Txns -> SUBSET Runs]
        /\ pc' \in [Txns -> Statements]
    BY <1>2 DEF TypeOK
  <2> QED BY <2>1 DEF ReleaseTerminal, TypeOK, rows
<1> QED BY <1>1, <1>2 DEF ReleaseTerminal

\* Every statement of createPipelineRun keeps the types.
LEMMA CreateType ==
  ASSUME TypeOK, TxnShape, NEW t \in Creators,
         CreateStep(t) \/ \E r \in Runs : BeginCreate(t, r)
  PROVE  TypeOK'
<1> t \in Txns BY DEF Txns
<1>1. ASSUME NEW r \in Runs, BeginCreate(t, r) PROVE TypeOK'
  <2>1. clock' \in 0..MaxClock /\ createdAt' \in [Runs -> Nat]
    BY <1>1, ConstantsAssumption DEF BeginCreate, TypeOK
  <2>2. PipelineOf[r] \in Pipelines
    BY ConstantsAssumption
  <2> QED BY <1>1, <2>1, <2>2 DEF BeginCreate, TypeOK, locks, Statements
<1>2. ASSUME LockRow(t) PROVE TypeOK'
  BY <1>2 DEF LockRow, TypeOK, rows, Statements, ActiveView
<1>3. CASE CreateLock(t)
  <2>1. LockRow(t) \/ Rollback(t) BY <1>3 DEF CreateLock
  <2> QED BY <2>1, <1>2, RollbackType
<1>4. CASE CreateRelease(t)
  BY <1>4, ReleaseType DEF CreateRelease, Statements
<1>5. CASE FindActiveRun(t)
  BY <1>5 DEF FindActiveRun, TypeOK, rows, Statements
<1>6. CASE InsertRun(t)
  <2>1. CASE Rollback(t)
    BY <2>1, RollbackType
  <2>2. CASE ~Rollback(t)
    <3>1. request[t] \in Runs
      BY <1>6 DEF InsertRun, TxnShape
    <3>2. OldestOf(WaitingView(t, current[t])) \subseteq Runs
      BY DEF OldestOf, WaitingView, RunsOf
    <3>3. PICK next \in SUBSET Runs : InsertCommit(t, next)
      <4>1. \/ InsertCommit(t, {})
            \/ InsertCommit(t, {request[t]})
            \/ \E q \in OldestOf(WaitingView(t, current[t])) : InsertCommit(t, {q})
        BY <1>6, <2>2 DEF InsertRun
      <4> QED BY <4>1, <3>1, <3>2
    <3>4. /\ runState' \in [Runs -> RunStates]
          /\ isActive' \in SUBSET Runs
          /\ jobs' \in [Runs -> JobStates]
      BY <3>1, <3>3 DEF InsertCommit, TypeOK, ActiveView, RunStates, JobStates, activeRunStates
    <3>5. queuedGraph' \in [Runs -> Graphs]
      BY <1>6, <3>1, <3>3 DEF InsertRun, InsertCommit, TypeOK, TxnShape
    <3> QED BY <3>3, <3>4, <3>5, EndTxnType DEF InsertCommit, TypeOK
  <2> QED BY <2>1, <2>2
<1> QED BY <1>1, <1>3, <1>4, <1>5, <1>6 DEF CreateStep

\* Every statement of promoteQueuedPipelineRuns keeps the types.
LEMMA PromoteType ==
  ASSUME TypeOK, NEW t \in Promoters, PromoteStep(t) \/ BeginPromote(t)
  PROVE  TypeOK'
<1> t \in Txns BY DEF Txns
<1>1. CASE BeginPromote(t)
  BY <1>1 DEF BeginPromote, TerminalActive, TypeOK, rows, Statements
<1>2. CASE PromoteNext(t)
  BY <1>2, ConstantsAssumption DEF PromoteNext, TypeOK, rows, locks, Statements
<1>3. CASE PromoteLock(t)
  BY <1>3 DEF PromoteLock, LockRow, TypeOK, rows, Statements, ActiveView
<1>4. CASE PromoteRelease(t)
  BY <1>4, ReleaseType DEF PromoteRelease, Statements
<1>5. CASE PromoteOldestQueuedRun(t)
  <2>1. CASE Rollback(t)
    BY <2>1, RollbackType
  <2>2. CASE ~Rollback(t)
    BY <1>5, <2>2, SMTT(30) DEF PromoteOldestQueuedRun, OldestOf, WaitingView, RunsOf, TypeOK, rows,
                      locks, Statements
  <2> QED BY <2>1, <2>2
<1>6. CASE PromoteCommit(t)
  BY <1>6, EndTxnType DEF PromoteCommit, TypeOK, ActiveView, JobStates
<1> QED BY <1>1, <1>2, <1>3, <1>4, <1>5, <1>6 DEF PromoteStep

\* Control-plane edits and worker updates keep the types.
LEMMA WebAndWorkerType ==
  ASSUME TypeOK,
         \/ \E p \in Pipelines : WebStep(p)
         \/ \E r \in Runs : WorkerStep(r)
  PROVE  TypeOK'
<1> USE DEF TypeOK, locks, txn
<1>1. ASSUME NEW p \in Pipelines, NEW state \in {"enabled", "disabled"}, SetPipelineState(p, state)
      PROVE  TypeOK'
  BY <1>1 DEF SetPipelineState
<1>2. ASSUME NEW p \in Pipelines, NEW state \in {"draft", "enabled", "disabled"},
             NEW g \in Graphs, UpdatePipeline(p, state, g)
      PROVE  TypeOK'
  BY <1>2 DEF UpdatePipeline
<1>3. ASSUME NEW p \in Pipelines, DeletePipeline(p) PROVE TypeOK'
  BY <1>3 DEF DeletePipeline
<1>4. ASSUME NEW r \in Runs, ClaimNextJob(r) PROVE TypeOK'
  BY <1>4 DEF ClaimNextJob, JobStates
<1>5. ASSUME NEW r \in Runs, StartRun(r) PROVE TypeOK'
  BY <1>5 DEF StartRun, RunStates, activeRunStates
<1>6. ASSUME NEW r \in Runs, FinishSuccess(r) \/ FinishFailure(r) PROVE TypeOK'
  <2>1. CASE FinishSuccess(r)
    BY <2>1 DEF FinishSuccess, RunStates, JobStates, terminalRunStates
  <2>2. CASE FinishFailure(r)
    BY <2>2 DEF FinishFailure, RunStates, JobStates, terminalRunStates
  <2> QED BY <1>6, <2>1, <2>2
<1>7. ASSUME NEW r \in Runs, FailJob(r) \/ FailBeforeFirstStep(r) PROVE TypeOK'
  BY <1>7 DEF FailJob, FailBeforeFirstStep, JobStates
<1> QED BY <1>1, <1>2, <1>3, <1>4, <1>5, <1>6, <1>7 DEF WebStep, WorkerStep

-----------------------------------------------------------------------------
(* Ending a transaction *)

\* Locks of other transactions survive, and the ended one keeps nothing.
LEMMA EndTxnFrame ==
  ASSUME TypeOK, NEW t \in Txns, EndTxn(t)
  PROVE  /\ pc'[t] = "idle" /\ targets'[t] = {} /\ released'[t] = {} /\ promoted'[t] = {}
         /\ \A u \in Txns \ {t} :
              /\ pc'[u] = pc[u] /\ request'[u] = request[u] /\ current'[u] = current[u]
              /\ targets'[u] = targets[u] /\ released'[u] = released[u]
              /\ promoted'[u] = promoted[u] /\ foundActive'[u] = foundActive[u]
              /\ \A p \in Pipelines : pipelineLock[p] = u => pipelineLock'[p] = u
              /\ \A r \in Runs : runLock[r] = u => runLock'[r] = u
  BY DEF EndTxn, TypeOK

\* A rollback preserves the invariant: it takes back only what nobody saw.
LEMMA RollbackInv == ASSUME IndInv, NEW t \in Txns, Rollback(t) PROVE IndInv'
<1> USE ConstantsAssumption DEF IndInv
<1>0. EndTxn(t) /\ UNCHANGED rows /\ UNCHANGED <<clock, queuedGraph>>
  BY DEF Rollback
<1>1. TypeOK'
  BY RollbackType
<1>2. TxnShape'
  BY <1>0, EndTxnFrame DEF TxnShape, rows, Txns
<1>3. PendingWrites'
  BY <1>0, EndTxnFrame DEF PendingWrites, rows, TypeOK
<1>4. OneActiveInView' /\ OneActiveRun'
  BY <1>0, EndTxnFrame DEF OneActiveInView, OneActiveRun, ActiveView, rows
<1>5. CreateNeverConflicts'
  BY <1>0, EndTxnFrame DEF CreateNeverConflicts, ActiveIn, ActiveView, rows, Txns
<1>6. FoundStaysActive'
  BY <1>0, EndTxnFrame DEF FoundStaysActive, rows, Txns, TypeOK
<1>7. JobsFollowActivation' /\ JobsMatchRuns' /\ EditLock'
  BY <1>0 DEF JobsFollowActivation, JobsMatchRuns, EditLock, rows
<1>8. CreatorsEnabled'
  BY <1>0, EndTxnFrame DEF CreatorsEnabled, rows, Txns
<1> QED BY <1>1, <1>2, <1>3, <1>4, <1>5, <1>6, <1>7, <1>8

-----------------------------------------------------------------------------
(* Statements that both kinds of transaction execute *)

\* Locking the pipeline row.  A creator gets here only after its check.
LEMMA LockRowInv ==
  ASSUME IndInv, NEW t \in Txns, pc[t] = "lock", LockRow(t),
         t \in Creators => pipelineState[current[t]] = "enabled"
  PROVE  IndInv'
<1> USE ConstantsAssumption DEF IndInv
<1>0. /\ current[t] \in Pipelines
      /\ \A u \in Txns \ {t} : pc'[u] = pc[u] /\ targets'[u] = targets[u]
      /\ pc'[t] = "release"
      /\ \A p \in Pipelines, u \in Txns : pipelineLock[p] = u => pipelineLock'[p] = u
      /\ pipelineLock'[current[t]] = t
  BY DEF LockRow, TxnShape, TypeOK, Free
<1>1. TypeOK'
  BY DEF LockRow, TypeOK, rows, Statements, ActiveView
<1>2. TxnShape'
  BY <1>0 DEF LockRow, TxnShape, rows, Txns
<1>3. PendingWrites'
  <2>1. targets'[t] = {r \in ActiveView(t) : PipelineOf[r] = current[t]
                                            /\ runState[r] \in terminalRunStates}
    BY DEF LockRow, TypeOK
  <2>2. UNCHANGED <<rows, current, released, promoted>>
    BY DEF LockRow
  <2> QED BY <1>0, <2>1, <2>2 DEF PendingWrites, rows, TypeOK
<1>4. OneActiveInView' /\ OneActiveRun'
  BY DEF LockRow, OneActiveInView, OneActiveRun, ActiveView, rows
<1>5. CreateNeverConflicts'
  BY <1>0 DEF LockRow, CreateNeverConflicts, ActiveIn, ActiveView, rows, Txns
<1>6. FoundStaysActive'
  BY <1>0 DEF LockRow, FoundStaysActive, rows, Txns
<1>7. JobsFollowActivation' /\ JobsMatchRuns' /\ EditLock'
  BY DEF LockRow, JobsFollowActivation, JobsMatchRuns, EditLock, rows
<1>8. CreatorsEnabled'
  BY <1>0 DEF LockRow, CreatorsEnabled, rows, Txns
<1> QED BY <1>1, <1>2, <1>3, <1>4, <1>5, <1>6, <1>7, <1>8

\* Setting finished runs inactive, row by row.
LEMMA ReleaseInv ==
  ASSUME IndInv, NEW t \in Txns, NEW next \in Statements, ReleaseTerminal(t, next),
         next = IF t \in Creators THEN "find" ELSE "promote"
  PROVE  IndInv'
<1> USE ConstantsAssumption DEF IndInv
<1>0. /\ pc[t] = "release" /\ pc'[t] \in {"release", next}
      /\ \A u \in Txns \ {t} : pc'[u] = pc[u] /\ targets'[u] = targets[u] /\ released'[u] = released[u]
      /\ pc'[t] = next => targets'[t] = {}
      /\ targets'[t] \subseteq targets[t]
      /\ released'[t] \subseteq released[t] \cup (targets[t] \cap isActive)
      /\ released[t] \subseteq released'[t]
      /\ \A r \in Runs, u \in Txns : runLock[r] = u => runLock'[r] = u
  BY DEF ReleaseTerminal, TypeOK, Free
<1>a. UNCHANGED <<rows, clock, pipelineLock, request, batch, current, promoted, foundActive,
                  queuedGraph>>
  BY DEF ReleaseTerminal
<1>1. TypeOK'
  BY ReleaseType
<1>2. TxnShape'
  BY <1>0, <1>a DEF TxnShape, rows, Txns
<1>3. PendingWrites'
  BY <1>0, <1>a DEF PendingWrites, TxnShape, rows
<1>4. OneActiveInView' /\ OneActiveRun'
  BY <1>0, <1>a DEF OneActiveInView, OneActiveRun, ActiveView, rows
<1>5. CreateNeverConflicts'
  BY <1>0, <1>a DEF CreateNeverConflicts, ActiveIn, ActiveView, rows, Txns
<1>6. FoundStaysActive'
  BY <1>0, <1>a DEF FoundStaysActive, rows, Txns, TypeOK
<1>7. JobsFollowActivation' /\ JobsMatchRuns' /\ EditLock'
  BY <1>a DEF JobsFollowActivation, JobsMatchRuns, EditLock, rows
<1>8. CreatorsEnabled'
  BY <1>0, <1>a DEF CreatorsEnabled, rows, Txns
<1> QED BY <1>1, <1>2, <1>3, <1>4, <1>5, <1>6, <1>7, <1>8

-----------------------------------------------------------------------------
(* createPipelineRun *)

\* A request starts with no lock and no write, for a run that does not exist.
LEMMA BeginCreateInv ==
  ASSUME IndInv, NEW t \in Creators, NEW r \in Runs, BeginCreate(t, r)
  PROVE  IndInv'
<1> USE ConstantsAssumption DEF IndInv
<1>0. /\ pc'[t] = "lock" /\ pc[t] = "idle" /\ request'[t] = r /\ current'[t] = PipelineOf[r]
      /\ \A u \in Txns \ {t} : pc'[u] = pc[u] /\ request'[u] = request[u] /\ current'[u] = current[u]
  BY DEF BeginCreate, TypeOK, Txns
<1>1. TypeOK'
  BY CreateType
<1>2. TxnShape'
  BY <1>0 DEF BeginCreate, TxnShape, locks, Txns
<1>3. PendingWrites'
  BY <1>0 DEF BeginCreate, PendingWrites, locks
<1>4. OneActiveInView' /\ OneActiveRun'
  BY DEF BeginCreate, OneActiveInView, OneActiveRun, ActiveView
<1>5. CreateNeverConflicts'
  BY <1>0 DEF BeginCreate, CreateNeverConflicts, ActiveIn, ActiveView, Txns
<1>6. FoundStaysActive'
  BY <1>0 DEF BeginCreate, FoundStaysActive, locks, Txns
<1>7. JobsFollowActivation' /\ JobsMatchRuns' /\ EditLock'
  BY DEF BeginCreate, JobsFollowActivation, JobsMatchRuns, EditLock
<1>8. CreatorsEnabled'
  BY <1>0 DEF BeginCreate, CreatorsEnabled, Txns
<1> QED BY <1>1, <1>2, <1>3, <1>4, <1>5, <1>6, <1>7, <1>8

\* findActiveRun locks what it finds, so a positive answer stays true, and a
\* negative one is protected by the pipeline row lock.
LEMMA FindActiveRunInv ==
  ASSUME IndInv, NEW t \in Creators, FindActiveRun(t)
  PROVE  IndInv'
<1> USE ConstantsAssumption DEF IndInv
<1> DEFINE found == ActiveIn(ActiveView(t), current[t])
<1>0. /\ pc[t] = "find" /\ pc'[t] = "insert" /\ foundActive'[t] = (found # {})
      /\ \A u \in Txns \ {t} : pc'[u] = pc[u] /\ foundActive'[u] = foundActive[u]
      /\ \A r \in Runs, u \in Txns : runLock[r] = u => runLock'[r] = u
      /\ \A r \in found : r \in Runs => runLock'[r] = t
  BY DEF FindActiveRun, TypeOK, Txns, Free
<1>a. UNCHANGED <<rows, clock, pipelineLock, request, batch, current, targets, released,
                  promoted, queuedGraph>>
  BY DEF FindActiveRun
<1>1. TypeOK'
  BY CreateType DEF CreateStep
<1>2. TxnShape'
  BY <1>0, <1>a DEF TxnShape, rows, Txns
<1>3. PendingWrites'
  BY <1>0, <1>a DEF PendingWrites, rows
<1>4. OneActiveInView' /\ OneActiveRun'
  BY <1>a DEF OneActiveInView, OneActiveRun, ActiveView, rows
<1>5. CreateNeverConflicts'
  <2> SUFFICES ASSUME NEW u \in Creators, pc'[u] = "insert", ~foundActive'[u]
               PROVE  ActiveIn(ActiveView(u), current[u])' = {}
    BY DEF CreateNeverConflicts
  <2>1. ActiveIn(ActiveView(u), current[u])' = ActiveIn(ActiveView(u), current[u])
    BY <1>a DEF ActiveIn, ActiveView, rows
  <2>2. CASE u = t
    BY <1>0, <2>1, <2>2
  <2>3. CASE u # t
    BY <1>0, <2>1, <2>3 DEF CreateNeverConflicts, Txns
  <2> QED BY <2>2, <2>3
<1>6. FoundStaysActive'
  <2>1. ASSUME found # {} PROVE \E r \in isActive : /\ PipelineOf[r] = current[t]
                                                    /\ runState[r] \in activeRunStates
                                                    /\ runLock'[r] = t
    BY <1>0, <2>1 DEF ActiveIn, ActiveView, TxnShape, TypeOK
  <2> SUFFICES ASSUME NEW u \in Creators, pc'[u] = "insert", foundActive'[u]
               PROVE  \E r \in isActive : /\ PipelineOf[r] = current[u]
                                          /\ runState[r] \in activeRunStates
                                          /\ runLock'[r] = u
    BY <1>a DEF FoundStaysActive, rows
  <2>2. CASE u = t
    BY <1>0, <2>1, <2>2
  <2>3. CASE u # t
    BY <1>0, <2>3 DEF FoundStaysActive, Txns, TypeOK
  <2> QED BY <2>2, <2>3
<1>7. JobsFollowActivation' /\ JobsMatchRuns' /\ EditLock'
  BY <1>a DEF JobsFollowActivation, JobsMatchRuns, EditLock, rows
<1>8. CreatorsEnabled'
  BY <1>0, <1>a DEF CreatorsEnabled, rows, Txns
<1> QED BY <1>1, <1>2, <1>3, <1>4, <1>5, <1>6, <1>7, <1>8

\* The committing insert: nothing became active, because a locked active run
\* was found, or exactly one run did, because none was.
LEMMA InsertCommitInv ==
  ASSUME IndInv, NEW t \in Creators, pc[t] = "insert", NEW next \in SUBSET Runs,
         InsertCommit(t, next),
         \A q \in next : /\ ~foundActive[t]
                         /\ next = {q}
                         /\ PipelineOf[q] = current[t]
                         /\ q = request[t] \/ (runState[q] = "queued" /\ q \notin isActive)
  PROVE  IndInv'
<1> USE ConstantsAssumption DEF IndInv
<1> DEFINE r0 == request[t]
<1> t \in Txns BY DEF Txns
<1>0. /\ r0 \in Runs /\ runState[r0] = "none" /\ r0 \notin isActive
      /\ PipelineOf[r0] = current[t] /\ current[t] \in Pipelines
      /\ pipelineLock[current[t]] = t
      /\ pipelineState[current[t]] = "enabled"
  BY DEF TxnShape, JobsMatchRuns, CreatorsEnabled, TypeOK
<1>a. /\ isActive' = (isActive \ released[t]) \cup next
      /\ runState'[r0] = "queued"
      /\ \A r \in Runs \ {r0} : runState'[r] = runState[r]
      /\ EndTxn(t)
      /\ UNCHANGED <<pipelineState, graph, createdAt, clock>>
  BY <1>0 DEF InsertCommit, ActiveView, TxnShape, TypeOK
<1>b. /\ pc'[t] = "idle" /\ targets'[t] = {} /\ released'[t] = {} /\ promoted'[t] = {}
      /\ \A u \in Txns \ {t} :
           /\ pc'[u] = pc[u] /\ request'[u] = request[u] /\ current'[u] = current[u]
           /\ targets'[u] = targets[u] /\ released'[u] = released[u]
           /\ promoted'[u] = promoted[u] /\ foundActive'[u] = foundActive[u]
           /\ \A p \in Pipelines : pipelineLock[p] = u => pipelineLock'[p] = u
           /\ \A r \in Runs : runLock[r] = u => runLock'[r] = u
  BY <1>a, EndTxnFrame
<1>c. \A u \in Txns \ {t} : \A r \in released[u] \cup promoted[u] :
        r \in Runs /\ r # r0 /\ r \notin next /\ r \notin released[t]
  <2> SUFFICES ASSUME NEW u \in Txns \ {t}, NEW r \in released[u] \cup promoted[u]
               PROVE  r \in Runs /\ r # r0 /\ r \notin next /\ r \notin released[t]
    OBVIOUS
  <2>1. r \in Runs
    BY DEF TypeOK
  <2>2. pipelineLock[PipelineOf[r]] = u /\ runState[r] \in terminalRunStates \cup {"queued"}
    BY DEF PendingWrites
  <2>3. r \notin released[t]
    BY <2>2 DEF PendingWrites
  <2> QED
    BY <1>0, <2>1, <2>2, <2>3 DEF terminalRunStates
<1>d. \A r \in isActive : r \in Runs /\ r # r0 /\ (runState[r] \in activeRunStates => r \notin released[t])
  <2>1. isActive \subseteq Runs
    BY DEF TypeOK
  <2>2. \A r \in released[t] : runState[r] \in terminalRunStates
    BY DEF PendingWrites
  <2> QED
    BY <1>0, <2>1, <2>2 DEF activeRunStates, terminalRunStates
<1>1. TypeOK'
  <2>1. /\ runState' \in [Runs -> RunStates]
        /\ isActive' \in SUBSET Runs
        /\ jobs' \in [Runs -> JobStates]
        /\ queuedGraph' \in [Runs -> Graphs]
    BY <1>0 DEF InsertCommit, TypeOK, ActiveView, RunStates, JobStates, activeRunStates
  <2> QED BY <1>a, <2>1, EndTxnType DEF TypeOK
<1>2. TxnShape'
  BY <1>0, <1>a, <1>b DEF TxnShape, Txns
<1>3. PendingWrites'
  <2>1. \A u \in Txns \ {t} : \A r \in targets[u] : r \in Runs /\ r # r0
    BY <1>0 DEF PendingWrites, TypeOK, terminalRunStates
  <2> QED BY <1>a, <1>b, <1>c, <2>1 DEF PendingWrites, TypeOK
<1>4. OneActiveRun'
  <2>1. \A q \in next : \A r \in isActive \ released[t] :
          PipelineOf[r] = current[t] => runState[r] \notin activeRunStates
    BY DEF CreateNeverConflicts, ActiveIn, ActiveView
  <2> QED BY <1>0, <1>a, <1>d, <2>1 DEF OneActiveRun
<1>5. OneActiveInView'
  <2> SUFFICES ASSUME NEW u \in Txns,
                      NEW r \in ActiveView(u)', NEW s \in ActiveView(u)',
                      PipelineOf[r] = PipelineOf[s],
                      runState'[r] \in activeRunStates, runState'[s] \in activeRunStates
               PROVE  r = s
    BY DEF OneActiveInView
  <2>1. CASE r \in isActive' /\ s \in isActive'
    BY <1>4, <2>1 DEF OneActiveRun
  <2>2. CASE ~(r \in isActive' /\ s \in isActive')
    <3>1. u # t /\ (r \in promoted[u] \/ s \in promoted[u])
      BY <1>b, <2>2 DEF ActiveView
    <3>2. PipelineOf[r] # current[t]
      BY <1>0, <3>1 DEF PendingWrites
    <3>3. r \in ActiveView(u) /\ s \in ActiveView(u)
      BY <1>a, <1>b, <3>1, <3>2 DEF ActiveView
    <3>4. runState'[r] = runState[r] /\ runState'[s] = runState[s]
      BY <1>0, <1>a, <3>2, <3>3 DEF ActiveView, TypeOK
    <3> QED BY <3>3, <3>4 DEF OneActiveInView
  <2> QED BY <2>1, <2>2
<1>6. CreateNeverConflicts'
  <2> SUFFICES ASSUME NEW u \in Creators, pc'[u] = "insert", ~foundActive'[u],
                      NEW r \in ActiveView(u)', PipelineOf[r] = current'[u],
                      runState'[r] \in activeRunStates
               PROVE  FALSE
    BY DEF CreateNeverConflicts, ActiveIn
  <2>1. u \in Txns /\ u # t /\ current'[u] = current[u] /\ pc[u] = "insert" /\ ~foundActive[u]
    BY <1>b DEF Txns
  <2>2. PipelineOf[r] # current[t]
    BY <1>0, <2>1 DEF TxnShape
  <2>3. r \in ActiveView(u)
    BY <1>a, <1>b, <2>1, <2>2 DEF ActiveView
  <2>4. runState'[r] = runState[r]
    BY <1>0, <1>a, <2>1, <2>2, <2>3 DEF ActiveView, TypeOK
  <2> QED BY <2>1, <2>3, <2>4 DEF CreateNeverConflicts, ActiveIn
<1>7. FoundStaysActive'
  <2> SUFFICES ASSUME NEW u \in Creators, pc'[u] = "insert", foundActive'[u]
               PROVE  \E r \in isActive' : /\ PipelineOf[r] = current'[u]
                                           /\ runState'[r] \in activeRunStates
                                           /\ runLock'[r] = u
    BY DEF FoundStaysActive
  <2>1. u \in Txns /\ u # t /\ current'[u] = current[u] /\ pc[u] = "insert" /\ foundActive[u]
    BY <1>b DEF Txns
  <2>2. PICK r \in isActive : /\ PipelineOf[r] = current[u]
                              /\ runState[r] \in activeRunStates
                              /\ runLock[r] = u
    BY <2>1 DEF FoundStaysActive
  <2> QED BY <1>a, <1>b, <1>d, <2>1, <2>2
<1>8. JobsFollowActivation' /\ JobsMatchRuns'
  <2>1. \A r \in Runs : jobs'[r] = IF r \in next THEN "queued" ELSE jobs[r]
    BY DEF InsertCommit
  <2>2. \A r \in released[t] : runState[r] \in terminalRunStates
    BY DEF PendingWrites
  <2> QED BY <1>0, <1>a, <1>d, <2>1, <2>2
          DEF JobsFollowActivation, JobsMatchRuns, activeRunStates, terminalRunStates, TypeOK
<1>9. EditLock'
  <2>1. /\ queuedGraph'[r0] = graph[current[t]]
        /\ \A r \in Runs \ {r0} : queuedGraph'[r] = queuedGraph[r]
    BY <1>0 DEF InsertCommit, TypeOK
  <2> QED BY <1>0, <1>a, <2>1 DEF EditLock
<1>10. CreatorsEnabled'
  BY <1>a, <1>b DEF CreatorsEnabled, Txns
<1> QED BY <1>1, <1>2, <1>3, <1>4, <1>5, <1>6, <1>7, <1>8, <1>9, <1>10

\* Every statement of createPipelineRun preserves the invariant.
LEMMA CreateInv ==
  ASSUME IndInv, NEW t \in Creators, CreateStep(t)
  PROVE  IndInv'
<1> t \in Txns BY DEF Txns
<1>1. CASE CreateLock(t)
  <2>1. CASE pipelineState[current[t]] = "enabled"
    BY <1>1, <2>1, LockRowInv DEF CreateLock
  <2>2. CASE pipelineState[current[t]] # "enabled"
    BY <1>1, <2>2, RollbackInv DEF CreateLock
  <2> QED BY <2>1, <2>2
<1>2. CASE CreateRelease(t)
  BY <1>2, ReleaseInv DEF CreateRelease, Statements
<1>3. CASE FindActiveRun(t)
  BY <1>3, FindActiveRunInv
<1>4. CASE InsertRun(t)
  <2>1. /\ pc[t] = "insert"
        /\ request[t] \in Runs /\ PipelineOf[request[t]] = current[t]
    BY <1>4 DEF InsertRun, IndInv, TxnShape
  <2>2. CASE foundActive[t]
    BY <1>4, <2>1, <2>2, InsertCommitInv DEF InsertRun
  <2>3. CASE Rollback(t)
    BY <2>3, RollbackInv
  <2>4. CASE ~foundActive[t] /\ InsertCommit(t, {request[t]})
    BY <2>1, <2>4, InsertCommitInv
  <2>5. ASSUME ~foundActive[t],
               NEW q \in OldestOf(WaitingView(t, current[t])), InsertCommit(t, {q})
        PROVE  IndInv'
    <3>1. /\ q \in Runs /\ PipelineOf[q] = current[t]
          /\ runState[q] = "queued" /\ q \notin ActiveView(t)
      BY <2>5 DEF OldestOf, WaitingView, RunsOf
    <3>2. q \notin isActive
      BY <3>1 DEF ActiveView, IndInv, PendingWrites, terminalRunStates
    <3> QED BY <2>1, <2>5, <3>1, <3>2, InsertCommitInv
  <2> QED BY <1>4, <2>2, <2>3, <2>4, <2>5 DEF InsertRun
<1> QED BY <1>1, <1>2, <1>3, <1>4 DEF CreateStep

-----------------------------------------------------------------------------
(* promoteQueuedPipelineRuns *)

\* Selecting the batch locks only rows nobody has locked.
LEMMA BeginPromoteInv == ASSUME IndInv, NEW t \in Promoters, BeginPromote(t) PROVE IndInv'
<1> USE ConstantsAssumption DEF IndInv
<1>0. /\ pc[t] = "idle" /\ pc'[t] = "next"
      /\ \A u \in Txns \ {t} : pc'[u] = pc[u]
      /\ \A r \in Runs, u \in Txns : runLock[r] = u => runLock'[r] = u
  BY DEF BeginPromote, TypeOK, Txns
<1>a. UNCHANGED <<rows, clock, pipelineLock, request, current, targets, released, promoted,
                  foundActive, queuedGraph>>
  BY DEF BeginPromote
<1>1. TypeOK'
  BY PromoteType
<1>2. TxnShape'
  BY <1>0, <1>a DEF TxnShape, rows, Txns
<1>3. PendingWrites'
  BY <1>0, <1>a DEF PendingWrites, rows
<1>4. OneActiveInView' /\ OneActiveRun'
  BY <1>a DEF OneActiveInView, OneActiveRun, ActiveView, rows
<1>5. CreateNeverConflicts'
  BY <1>0, <1>a DEF CreateNeverConflicts, ActiveIn, ActiveView, rows, Txns
<1>6. FoundStaysActive'
  BY <1>0, <1>a DEF FoundStaysActive, rows, Txns, TypeOK
<1>7. JobsFollowActivation' /\ JobsMatchRuns' /\ EditLock'
  BY <1>a DEF JobsFollowActivation, JobsMatchRuns, EditLock, rows
<1>8. CreatorsEnabled'
  BY <1>0, <1>a DEF CreatorsEnabled, rows, Txns
<1> QED BY <1>1, <1>2, <1>3, <1>4, <1>5, <1>6, <1>7, <1>8

\* Taking the next selected run moves the promoter to another pipeline; what
\* it wrote for earlier ones stays covered by their row locks.
LEMMA PromoteNextInv == ASSUME IndInv, NEW t \in Promoters, PromoteNext(t) PROVE IndInv'
<1> USE ConstantsAssumption DEF IndInv
<1>0. /\ pc[t] = "next" /\ pc'[t] = "lock" /\ current'[t] \in Pipelines
      /\ \A u \in Txns \ {t} : pc'[u] = pc[u] /\ current'[u] = current[u]
  BY DEF PromoteNext, TypeOK, Txns
<1>a. UNCHANGED <<rows, clock, locks, request, targets, released, promoted, foundActive,
                  queuedGraph>>
  BY DEF PromoteNext
<1>1. TypeOK'
  BY PromoteType DEF PromoteStep
<1>2. TxnShape'
  BY <1>0, <1>a DEF TxnShape, rows, locks, Txns
<1>3. PendingWrites'
  BY <1>0, <1>a DEF PendingWrites, rows, locks
<1>4. OneActiveInView' /\ OneActiveRun'
  BY <1>a DEF OneActiveInView, OneActiveRun, ActiveView, rows
<1>5. CreateNeverConflicts'
  BY <1>0, <1>a DEF CreateNeverConflicts, ActiveIn, ActiveView, rows, Txns
<1>6. FoundStaysActive'
  BY <1>0, <1>a DEF FoundStaysActive, rows, locks, Txns
<1>7. JobsFollowActivation' /\ JobsMatchRuns' /\ EditLock'
  BY <1>a DEF JobsFollowActivation, JobsMatchRuns, EditLock, rows
<1>8. CreatorsEnabled'
  BY <1>0, <1>a DEF CreatorsEnabled, rows, Txns
<1> QED BY <1>1, <1>2, <1>3, <1>4, <1>5, <1>6, <1>7, <1>8

\* Promoting the oldest waiting run, or nothing: the index check makes the
\* promoter's own view keep one active run per pipeline.
LEMMA PromoteOldestInv ==
  ASSUME IndInv, NEW t \in Promoters, PromoteOldestQueuedRun(t)
  PROVE  IndInv'
<1> USE ConstantsAssumption DEF IndInv
<1> t \in Txns BY DEF Txns
<1>r. CASE Rollback(t)
  BY <1>r, RollbackInv
<1>n. CASE ~Rollback(t)
  <2>a. /\ pc[t] = "promote"
        /\ pc' = [pc EXCEPT ![t] = "next"]
        /\ UNCHANGED <<rows, clock, locks, request, batch, current, targets, released,
                       foundActive, queuedGraph>>
    BY <1>n DEF PromoteOldestQueuedRun
  <2>b. PICK next \in SUBSET WaitingView(t, current[t]) :
          /\ promoted' = [promoted EXCEPT ![t] = @ \cup next]
          /\ \A q, r \in next : q = r
          /\ next # {} => ActiveIn(ActiveView(t), current[t]) = {}
    BY <1>n DEF PromoteOldestQueuedRun, OldestOf
  <2>0. /\ pc'[t] = "next" /\ promoted'[t] = promoted[t] \cup next
        /\ \A u \in Txns \ {t} : pc'[u] = pc[u] /\ promoted'[u] = promoted[u]
        /\ current[t] \in Pipelines /\ pipelineLock[current[t]] = t
    BY <2>a, <2>b DEF TypeOK, TxnShape
  <2>c. \A q \in next : /\ q \in Runs /\ PipelineOf[q] = current[t]
                        /\ runState[q] = "queued" /\ q \notin isActive
    BY DEF WaitingView, RunsOf, ActiveView, PendingWrites, terminalRunStates
  <2>1. TypeOK'
    BY PromoteType DEF PromoteStep
  <2>2. TxnShape'
    BY <2>0, <2>a DEF TxnShape, rows, locks, Txns
  <2>3. PendingWrites'
    BY <2>0, <2>a, <2>c DEF PendingWrites, rows, locks
  <2>4. OneActiveRun'
    BY <2>a DEF OneActiveRun, rows
  <2>5. OneActiveInView'
    <3>1. \A u \in Txns \ {t} : ActiveView(u)' = ActiveView(u)
      BY <2>0, <2>a DEF ActiveView, rows
    <3>2. ActiveView(t)' = ActiveView(t) \cup next
      BY <2>0, <2>a DEF ActiveView, rows
    <3>3. \A q \in next : \A r \in ActiveView(t) :
            PipelineOf[r] = PipelineOf[q] => runState[r] \notin activeRunStates
      BY <2>b, <2>c DEF ActiveIn
    <3>4. runState' = runState
      BY <2>a DEF rows
    <3> QED BY <2>b, <3>1, <3>2, <3>3, <3>4 DEF OneActiveInView
  <2>6. CreateNeverConflicts'
    BY <2>0, <2>a DEF CreateNeverConflicts, ActiveIn, ActiveView, rows, Txns
  <2>7. FoundStaysActive'
    BY <2>0, <2>a DEF FoundStaysActive, rows, locks, Txns
  <2>8. JobsFollowActivation' /\ JobsMatchRuns' /\ EditLock'
    BY <2>a DEF JobsFollowActivation, JobsMatchRuns, EditLock, rows
  <2>9. CreatorsEnabled'
    BY <2>0, <2>a DEF CreatorsEnabled, rows, Txns
  <2> QED BY <2>1, <2>2, <2>3, <2>4, <2>5, <2>6, <2>7, <2>8, <2>9
<1> QED BY <1>r, <1>n

\* The committing promoter: its view becomes the committed state, and no other
\* transaction has a pending write or a check on a pipeline it wrote to.
LEMMA PromoteCommitInv == ASSUME IndInv, NEW t \in Promoters, PromoteCommit(t) PROVE IndInv'
<1> USE ConstantsAssumption DEF IndInv
<1> t \in Txns BY DEF Txns
<1>a. /\ isActive' = (isActive \ released[t]) \cup promoted[t]
      /\ \A r \in Runs : jobs'[r] = IF r \in promoted[t] THEN "queued" ELSE jobs[r]
      /\ EndTxn(t)
      /\ UNCHANGED <<pipelineState, graph, runState, createdAt, clock, queuedGraph>>
  BY DEF PromoteCommit, ActiveView
<1>b. /\ pc'[t] = "idle" /\ targets'[t] = {} /\ released'[t] = {} /\ promoted'[t] = {}
      /\ \A u \in Txns \ {t} :
           /\ pc'[u] = pc[u] /\ request'[u] = request[u] /\ current'[u] = current[u]
           /\ targets'[u] = targets[u] /\ released'[u] = released[u]
           /\ promoted'[u] = promoted[u] /\ foundActive'[u] = foundActive[u]
           /\ \A p \in Pipelines : pipelineLock[p] = u => pipelineLock'[p] = u
           /\ \A r \in Runs : runLock[r] = u => runLock'[r] = u
  BY <1>a, EndTxnFrame
<1>c. \A r \in released[t] \cup promoted[t] : r \in Runs /\ pipelineLock[PipelineOf[r]] = t
  BY DEF PendingWrites, TypeOK
<1>1. TypeOK'
  BY PromoteType DEF PromoteStep
<1>2. TxnShape'
  BY <1>a, <1>b DEF TxnShape, Txns
<1>3. PendingWrites'
  <2>1. \A u \in Txns \ {t} : \A r \in released[u] \cup promoted[u] :
          r \in Runs /\ r \notin promoted[t] /\ r \notin released[t]
    BY DEF PendingWrites, TypeOK
  <2> QED BY <1>a, <1>b, <2>1 DEF PendingWrites, TypeOK
<1>4. OneActiveRun'
  BY <1>a DEF OneActiveRun, OneActiveInView, ActiveView
<1>5. OneActiveInView'
  <2> SUFFICES ASSUME NEW u \in Txns,
                      NEW r \in ActiveView(u)', NEW s \in ActiveView(u)',
                      PipelineOf[r] = PipelineOf[s],
                      runState'[r] \in activeRunStates, runState'[s] \in activeRunStates
               PROVE  r = s
    BY DEF OneActiveInView
  <2>1. CASE r \in isActive' /\ s \in isActive'
    BY <1>4, <2>1 DEF OneActiveRun
  <2>2. CASE ~(r \in isActive' /\ s \in isActive')
    <3>1. u # t /\ (r \in promoted[u] \/ s \in promoted[u])
      BY <1>b, <2>2 DEF ActiveView
    <3>2. pipelineLock[PipelineOf[r]] = u
      BY <3>1 DEF PendingWrites
    <3>3. r \in ActiveView(u) /\ s \in ActiveView(u)
      BY <1>a, <1>b, <1>c, <3>1, <3>2 DEF ActiveView
    <3> QED BY <1>a, <3>3 DEF OneActiveInView
  <2> QED BY <2>1, <2>2
<1>6. CreateNeverConflicts'
  <2> SUFFICES ASSUME NEW u \in Creators, pc'[u] = "insert", ~foundActive'[u],
                      NEW r \in ActiveView(u)', PipelineOf[r] = current'[u],
                      runState'[r] \in activeRunStates
               PROVE  FALSE
    BY DEF CreateNeverConflicts, ActiveIn
  <2>1. u \in Txns /\ u # t /\ current'[u] = current[u] /\ pc[u] = "insert" /\ ~foundActive[u]
    BY <1>b DEF Txns
  <2>2. pipelineLock[PipelineOf[r]] = u
    BY <2>1 DEF TxnShape
  <2>3. r \in ActiveView(u)
    BY <1>a, <1>b, <1>c, <2>1, <2>2 DEF ActiveView
  <2> QED BY <1>a, <2>1, <2>3 DEF CreateNeverConflicts, ActiveIn
<1>7. FoundStaysActive'
  <2>1. \A r \in released[t] : runState[r] \notin activeRunStates
    BY DEF PendingWrites, activeRunStates, terminalRunStates
  <2> QED BY <1>a, <1>b, <2>1 DEF FoundStaysActive, Txns, TypeOK
<1>8. JobsFollowActivation' /\ JobsMatchRuns'
  <2>1. /\ \A r \in released[t] : runState[r] \in terminalRunStates
        /\ \A r \in promoted[t] : runState[r] = "queued" /\ r \notin isActive
    BY DEF PendingWrites
  <2> QED BY <1>a, <2>1 DEF JobsFollowActivation, JobsMatchRuns, activeRunStates, terminalRunStates
<1>9. EditLock'
  BY <1>a DEF EditLock
<1>10. CreatorsEnabled'
  BY <1>a, <1>b DEF CreatorsEnabled, Txns
<1> QED BY <1>1, <1>2, <1>3, <1>4, <1>5, <1>6, <1>7, <1>8, <1>9, <1>10

\* Every statement of promoteQueuedPipelineRuns preserves the invariant.
LEMMA PromoteInv == ASSUME IndInv, NEW t \in Promoters, PromoteStep(t) PROVE IndInv'
<1> t \in Txns /\ t \notin Creators
  BY ConstantsAssumption DEF Txns
<1>1. CASE PromoteNext(t)
  BY <1>1, PromoteNextInv
<1>2. CASE PromoteLock(t)
  BY <1>2, LockRowInv DEF PromoteLock
<1>3. CASE PromoteRelease(t)
  BY <1>3, ReleaseInv DEF PromoteRelease, Statements
<1>4. CASE PromoteOldestQueuedRun(t)
  BY <1>4, PromoteOldestInv
<1>5. CASE PromoteCommit(t)
  BY <1>5, PromoteCommitInv
<1> QED BY <1>1, <1>2, <1>3, <1>4, <1>5 DEF PromoteStep

-----------------------------------------------------------------------------
(* The control plane and the workers *)

\* An edit needs the pipeline row unlocked and no queued or running run, so it
\* disturbs neither a creator past its check nor the graph of a pending run.
LEMMA WebInv == ASSUME IndInv, NEW p \in Pipelines, WebStep(p) PROVE IndInv'
<1> USE ConstantsAssumption DEF IndInv
<1>0. /\ pipelineLock[p] = Nobody
      /\ \A r \in Runs : PipelineOf[r] = p => runState[r] \notin activeRunStates
      /\ \A q \in Pipelines \ {p} : pipelineState'[q] = pipelineState[q] /\ graph'[q] = graph[q]
      /\ UNCHANGED <<runState, isActive, createdAt, jobs, clock, locks, txn, queuedGraph>>
  BY DEF WebStep, SetPipelineState, UpdatePipeline, DeletePipeline, BlockingRuns, RunsOf,
         TypeOK, activeRunStates
<1>1. TypeOK'
  BY WebAndWorkerType
<1>2. TxnShape'
  BY <1>0 DEF TxnShape, locks, txn
<1>3. PendingWrites' /\ OneActiveInView' /\ OneActiveRun'
  BY <1>0 DEF PendingWrites, OneActiveInView, OneActiveRun, ActiveView, locks, txn
<1>4. CreateNeverConflicts' /\ FoundStaysActive'
  BY <1>0 DEF CreateNeverConflicts, FoundStaysActive, ActiveIn, ActiveView, locks, txn
<1>5. JobsFollowActivation' /\ JobsMatchRuns'
  BY <1>0 DEF JobsFollowActivation, JobsMatchRuns
<1>6. EditLock'
  BY <1>0 DEF EditLock
<1>7. CreatorsEnabled'
  <2>1. \A t \in Creators : pc[t] \in {"release", "find", "insert"} =>
          current[t] \in Pipelines \ {p}
    BY <1>0 DEF TxnShape, Txns
  <2> QED BY <1>0, <2>1 DEF CreatorsEnabled, txn
<1> QED BY <1>1, <1>2, <1>3, <1>4, <1>5, <1>6, <1>7

\* A worker changes only the job, and the state of a run that has a job: such
\* a run is active, and it is not finished while a creator has it locked.
LEMMA WorkerInv == ASSUME IndInv, NEW r \in Runs, WorkerStep(r) PROVE IndInv'
<1> USE ConstantsAssumption DEF IndInv
<1>0. /\ jobs[r] \in {"queued", "running", "failing"}
      /\ r \in isActive /\ runState[r] \in activeRunStates
  <2>1. jobs[r] \in {"queued", "running", "failing"}
    BY DEF WorkerStep, ClaimNextJob, StartRun, FinishSuccess, FailJob, FinishFailure,
         FailBeforeFirstStep
  <2> QED BY <2>1 DEF JobsMatchRuns
<1>a. /\ UNCHANGED <<pipelineState, graph, isActive, createdAt, clock, locks, txn, queuedGraph>>
      /\ \A s \in Runs \ {r} : runState'[s] = runState[s] /\ jobs'[s] = jobs[s]
      /\ jobs'[r] \in {"running", "failing", "succeeded", "failed"}
  BY DEF WorkerStep, ClaimNextJob, StartRun, FinishSuccess, FailJob, FinishFailure,
         FailBeforeFirstStep, TypeOK
<1>b. \/ runState'[r] \in activeRunStates
      \/ /\ runState'[r] \in terminalRunStates
         /\ runLock[r] = Nobody
         /\ jobs'[r] \in {"succeeded", "failed"}
  BY <1>0 DEF WorkerStep, ClaimNextJob, StartRun, FinishSuccess, FailJob, FinishFailure,
         FailBeforeFirstStep, TypeOK,
              activeRunStates, terminalRunStates
<1>c. /\ runState'[r] # "none"
      /\ \A s \in isActive : runState'[s] \in activeRunStates => runState[s] \in activeRunStates
      /\ \A t \in Txns : r \notin targets[t] /\ r \notin released[t] /\ r \notin promoted[t]
  BY <1>0, <1>a, <1>b DEF PendingWrites, activeRunStates, terminalRunStates, TypeOK
<1>1. TypeOK'
  BY WebAndWorkerType
<1>2. TxnShape'
  <2>1. \A t \in Creators : pc[t] # "idle" => request[t] # r
    BY <1>0 DEF TxnShape, activeRunStates
  <2> QED BY <1>a, <2>1 DEF TxnShape, locks, txn
<1>3. PendingWrites'
  <2>1. \A t \in Txns : \A s \in targets[t] \cup released[t] \cup promoted[t] :
          runState'[s] = runState[s]
    BY <1>a, <1>c DEF TypeOK
  <2> QED BY <1>a, <2>1 DEF PendingWrites, locks, txn
<1>d. \A t \in Txns : \A s \in ActiveView(t) :
        runState'[s] \in activeRunStates => runState[s] \in activeRunStates
  BY <1>a, <1>c DEF ActiveView, TypeOK
<1>4. OneActiveInView' /\ OneActiveRun'
  BY <1>a, <1>c, <1>d DEF OneActiveInView, OneActiveRun, ActiveView, txn
<1>5. CreateNeverConflicts'
  BY <1>a, <1>d DEF CreateNeverConflicts, ActiveIn, ActiveView, txn, Txns
<1>6. FoundStaysActive'
  <2> SUFFICES ASSUME NEW t \in Creators, pc[t] = "insert", foundActive[t]
               PROVE  \E s \in isActive : /\ PipelineOf[s] = current[t]
                                          /\ runState'[s] \in activeRunStates
                                          /\ runLock[s] = t
    BY <1>a DEF FoundStaysActive, locks, txn
  <2>1. PICK s \in isActive : /\ PipelineOf[s] = current[t]
                              /\ runState[s] \in activeRunStates
                              /\ runLock[s] = t
    BY DEF FoundStaysActive
  <2> QED BY <1>a, <1>b, <2>1 DEF Txns, TypeOK
<1>7. JobsFollowActivation'
  BY <1>0, <1>a, <1>c DEF JobsFollowActivation
<1>8. JobsMatchRuns'
  BY <1>0, <1>a, <1>b, <1>c DEF JobsMatchRuns
<1>9. EditLock'
  BY <1>0, <1>a DEF EditLock
<1>10. CreatorsEnabled'
  BY <1>a DEF CreatorsEnabled, txn
<1> QED BY <1>1, <1>2, <1>3, <1>4, <1>5, <1>6, <1>7, <1>8, <1>9, <1>10

-----------------------------------------------------------------------------
(* The theorems *)

\* An empty database satisfies the invariant.
LEMMA InitInv == Init => IndInv
<1> SUFFICES ASSUME Init PROVE IndInv
  OBVIOUS
<1> USE ConstantsAssumption DEF Init
<1>1. TypeOK
  BY DEF TypeOK, RunStates, JobStates, Statements
<1>2. TxnShape /\ PendingWrites /\ CreatorsEnabled
  BY DEF TxnShape, PendingWrites, CreatorsEnabled, Txns
<1>3. OneActiveInView /\ OneActiveRun /\ CreateNeverConflicts /\ FoundStaysActive
  BY DEF OneActiveInView, OneActiveRun, CreateNeverConflicts, FoundStaysActive, ActiveView,
         ActiveIn, Txns
<1>4. JobsFollowActivation /\ JobsMatchRuns /\ EditLock
  BY DEF JobsFollowActivation, JobsMatchRuns, EditLock, activeRunStates
<1> QED BY <1>1, <1>2, <1>3, <1>4 DEF IndInv

\* A step that changes nothing keeps the invariant.
LEMMA StutterInv == ASSUME IndInv, UNCHANGED vars PROVE IndInv'
<1> USE DEF vars, rows, locks, txn
<1>1. TypeOK' BY DEF IndInv, TypeOK
<1>2. TxnShape' /\ PendingWrites' /\ CreatorsEnabled'
  BY DEF IndInv, TxnShape, PendingWrites, CreatorsEnabled
<1>3. OneActiveInView' /\ OneActiveRun' /\ CreateNeverConflicts' /\ FoundStaysActive'
  BY DEF IndInv, OneActiveInView, OneActiveRun, CreateNeverConflicts, FoundStaysActive,
         ActiveView, ActiveIn
<1>4. JobsFollowActivation' /\ JobsMatchRuns' /\ EditLock'
  BY DEF IndInv, JobsFollowActivation, JobsMatchRuns, EditLock
<1> QED BY <1>1, <1>2, <1>3, <1>4 DEF IndInv

\* Every step of every actor preserves the invariant.
LEMMA NextInv == ASSUME IndInv, [Next]_vars PROVE IndInv'
<1>1. ASSUME NEW t \in Creators, CreateStep(t) PROVE IndInv'
  BY <1>1, CreateInv
<1>2. ASSUME NEW t \in Creators, NEW r \in Runs, BeginCreate(t, r) PROVE IndInv'
  BY <1>2, BeginCreateInv
<1>3. ASSUME NEW t \in Promoters, PromoteStep(t) PROVE IndInv'
  BY <1>3, PromoteInv
<1>4. ASSUME NEW t \in Promoters, BeginPromote(t) PROVE IndInv'
  BY <1>4, BeginPromoteInv
<1>5. ASSUME NEW t \in Txns, AbortDeadlocked(t) PROVE IndInv'
  BY <1>5, RollbackInv DEF AbortDeadlocked
<1>6. ASSUME NEW p \in Pipelines, WebStep(p) PROVE IndInv'
  BY <1>6, WebInv
<1>7. ASSUME NEW r \in Runs, WorkerStep(r) PROVE IndInv'
  BY <1>7, WorkerInv
<1>8. CASE UNCHANGED vars
  BY <1>8, StutterInv
<1> QED BY <1>1, <1>2, <1>3, <1>4, <1>5, <1>6, <1>7, <1>8 DEF Next

\* The inductive invariant holds in every reachable state of the run queue,
\* for any number of pipelines, runs, sessions and any promotion limit.
THEOREM QueueInvariant == Spec => []IndInv
  BY InitInv, NextInv, PTL DEF Spec

\* Rows and transactions keep their types.
THEOREM TypeCorrect == Spec => []TypeOK
<1>1. IndInv => TypeOK BY DEF IndInv
<1> QED BY <1>1, QueueInvariant, PTL

\* At most one run of a pipeline is active, whatever createPipelineRun,
\* promoteQueuedPipelineRuns and the workers interleave.
THEOREM AtMostOneActiveRun == Spec => []OneActiveRun
<1>1. IndInv => OneActiveRun BY DEF IndInv
<1> QED BY <1>1, QueueInvariant, PTL

\* No two runs of a pipeline have claimable or running jobs together: an
\* unfinished job belongs to an unfinished active run, and there is one.
THEOREM RunsExecuteSerially == Spec => []SerialExecution
<1>1. IndInv => SerialExecution
  BY DEF IndInv, SerialExecution, JobsMatchRuns, OneActiveRun
<1> QED BY <1>1, QueueInvariant, PTL

\* A pipeline has one run at a time, in the rows and for the workers.
THEOREM PipelineRunsOneAtATime == Spec => []OneRunAtATime
  BY AtMostOneActiveRun, RunsExecuteSerially, PTL DEF OneRunAtATime

\* createPipelineRun never violates runs_one_active_pipeline_index.
THEOREM CreationNeverConflicts == Spec => []CreateNeverConflicts
<1>1. IndInv => CreateNeverConflicts BY DEF IndInv
<1> QED BY <1>1, QueueInvariant, PTL

\* Steps and jobs exist exactly from the commit that makes a run active.
THEOREM ActivationCreatesJobs == Spec => []JobsFollowActivation
<1>1. IndInv => JobsFollowActivation BY DEF IndInv
<1> QED BY <1>1, QueueInvariant, PTL

\* A queued or running run's pipeline stays enabled and keeps its graph.
THEOREM PendingRunsLockPipeline == Spec => []EditLock
<1>1. IndInv => EditLock BY DEF IndInv
<1> QED BY <1>1, QueueInvariant, PTL

-----------------------------------------------------------------------------
(* What a step may never do *)

\* What TurnKeptUntilTerminal asks of one step.
KeepsTurn ==
  /\ \A r \in isActive \ isActive' : runState[r] \in terminalRunStates
  /\ \A r \in isActive' \ isActive : runState'[r] = "queued"

\* An inserting commit takes is_active from released runs only, and gives it to
\* the new run or to a waiting one.
LEMMA CreateKeepsTurn ==
  ASSUME IndInv, NEW t \in Creators, CreateStep(t)
  PROVE  KeepsTurn
<1> t \in Txns BY DEF Txns
<1>1. CASE isActive' = isActive
  BY <1>1 DEF KeepsTurn
<1>2. CASE isActive' # isActive
  <2>1. InsertRun(t) /\ ~Rollback(t)
    BY <1>2 DEF CreateStep, CreateLock, LockRow, CreateRelease, ReleaseTerminal, FindActiveRun,
                Rollback, rows
  <2>2. pc[t] = "insert" /\ request[t] \in Runs /\ promoted[t] = {}
    BY <2>1 DEF InsertRun, IndInv, TxnShape
  <2>3. PICK next \in SUBSET Runs :
          /\ InsertCommit(t, next)
          /\ \A q \in next : q = request[t] \/ runState[q] = "queued"
    <3>1. \/ InsertCommit(t, {})
          \/ InsertCommit(t, {request[t]})
          \/ \E q \in OldestOf(WaitingView(t, current[t])) : InsertCommit(t, {q})
      BY <2>1 DEF InsertRun
    <3>2. \A q \in OldestOf(WaitingView(t, current[t])) : q \in Runs /\ runState[q] = "queued"
      BY <2>2 DEF OldestOf, WaitingView, RunsOf
    <3>3. CASE InsertCommit(t, {})
      BY <3>3
    <3>4. CASE InsertCommit(t, {request[t]})
      BY <2>2, <3>4
    <3>5. ASSUME NEW q \in OldestOf(WaitingView(t, current[t])), InsertCommit(t, {q})
          PROVE  \E next \in SUBSET Runs :
                   InsertCommit(t, next) /\ \A r \in next : r = request[t] \/ runState[r] = "queued"
      <4>1. {q} \in SUBSET Runs /\ runState[q] = "queued"
        BY <3>2
      <4> QED BY <3>5, <4>1
    <3> QED BY <3>1, <3>3, <3>4, <3>5
  <2>4. isActive' = (isActive \ released[t]) \cup next
    BY <2>2, <2>3 DEF InsertCommit, ActiveView
  <2>5. \A q \in next : runState'[q] = "queued"
    BY <2>2, <2>3 DEF InsertCommit, IndInv, TypeOK
  <2> QED BY <2>4, <2>5 DEF KeepsTurn, IndInv, PendingWrites
<1> QED BY <1>1, <1>2

\* A promoting commit takes is_active from released runs and gives it to
\* waiting ones.
LEMMA PromoteKeepsTurn ==
  ASSUME IndInv, NEW t \in Promoters, PromoteStep(t) \/ BeginPromote(t)
  PROVE  KeepsTurn
<1> t \in Txns BY DEF Txns
<1>1. CASE isActive' = isActive
  BY <1>1 DEF KeepsTurn
<1>2. CASE isActive' # isActive
  <2>1. PromoteCommit(t)
    BY <1>2 DEF PromoteStep, BeginPromote, PromoteNext, PromoteLock, LockRow, PromoteRelease,
                ReleaseTerminal, PromoteOldestQueuedRun, Rollback, rows
  <2>2. /\ isActive' = (isActive \ released[t]) \cup promoted[t]
        /\ runState' = runState
    BY <2>1 DEF PromoteCommit, ActiveView
  <2> QED BY <2>2 DEF KeepsTurn, IndInv, PendingWrites
<1> QED BY <1>1, <1>2

\* A run keeps its turn until it is terminal: no step takes is_active away from
\* a queued or running run, and none gives it to a finished one.
THEOREM RunKeepsTurn == Spec => TurnKeptUntilTerminal
<1>1. ASSUME IndInv, [Next]_vars PROVE [KeepsTurn]_vars
  <2>1. ASSUME NEW t \in Creators, NEW r \in Runs, BeginCreate(t, r) PROVE KeepsTurn
    BY <2>1 DEF BeginCreate, KeepsTurn
  <2>2. ASSUME NEW t \in Txns, AbortDeadlocked(t) PROVE KeepsTurn
    BY <2>2 DEF AbortDeadlocked, Rollback, rows, KeepsTurn
  <2>3. ASSUME NEW p \in Pipelines, WebStep(p) PROVE KeepsTurn
    BY <2>3 DEF WebStep, SetPipelineState, UpdatePipeline, DeletePipeline, KeepsTurn
  <2>4. ASSUME NEW r \in Runs, WorkerStep(r) PROVE KeepsTurn
    BY <2>4 DEF WorkerStep, ClaimNextJob, StartRun, FinishSuccess, FailJob, FinishFailure,
         FailBeforeFirstStep, KeepsTurn
  <2> QED BY <1>1, <2>1, <2>2, <2>3, <2>4, CreateKeepsTurn, PromoteKeepsTurn DEF Next
<1> QED BY <1>1, QueueInvariant, PTL DEF Spec, TurnKeptUntilTerminal, KeepsTurn

\* What CreateLeavesActiveRun asks of one step.
LeavesActiveRun ==
  \A t \in Creators :
    (pc[t] = "insert" /\ pc'[t] = "idle" /\ runState' # runState) =>
       \E r \in isActive' : PipelineOf[r] = current[t] /\ runState'[r] \in activeRunStates

\* The inserting commit either found a run that is still active, because its
\* row is still locked, or makes one active itself.
LEMMA InsertLeavesActiveRun ==
  ASSUME IndInv, NEW t \in Creators, InsertRun(t), runState' # runState
  PROVE  \E r \in isActive' : PipelineOf[r] = current[t] /\ runState'[r] \in activeRunStates
<1> t \in Txns BY DEF Txns
<1>1. /\ pc[t] = "insert" /\ ~Rollback(t) /\ request[t] \in Runs
      /\ runState[request[t]] = "none" /\ PipelineOf[request[t]] = current[t]
  BY DEF InsertRun, Rollback, rows, IndInv, TxnShape
<1>2. CASE foundActive[t]
  <2>1. PICK r \in isActive : PipelineOf[r] = current[t] /\ runState[r] \in activeRunStates
    BY <1>1, <1>2 DEF IndInv, FoundStaysActive
  <2>2. r \notin released[t] /\ r # request[t]
    BY <1>1, <2>1 DEF IndInv, PendingWrites, activeRunStates, terminalRunStates
  <2>3. InsertCommit(t, {})
    BY <1>2 DEF InsertRun
  <2>4. r \in isActive' /\ runState'[r] = runState[r]
    BY <1>1, <2>2, <2>3 DEF InsertCommit, ActiveView, IndInv, TypeOK
  <2> QED BY <2>1, <2>4
<1>3. CASE ~foundActive[t]
  <2>1. PICK q \in Runs : /\ InsertCommit(t, {q}) /\ PipelineOf[q] = current[t]
                          /\ q = request[t] \/ runState[q] = "queued"
    <3>1. \/ InsertCommit(t, {request[t]})
          \/ \E q \in OldestOf(WaitingView(t, current[t])) : InsertCommit(t, {q})
      BY <1>1, <1>3 DEF InsertRun
    <3> QED BY <1>1, <3>1 DEF OldestOf, WaitingView, RunsOf
  <2>2. q \in isActive' /\ runState'[q] = "queued"
    BY <1>1, <2>1 DEF InsertCommit, IndInv, TypeOK
  <2> QED BY <2>1, <2>2 DEF activeRunStates
<1> QED BY <1>2, <1>3

\* A committed createPipelineRun leaves its pipeline with an active run, even
\* when the run it looked at finished meanwhile.
THEOREM CreationLeavesActiveRun == Spec => CreateLeavesActiveRun
<1>1. ASSUME IndInv, [Next]_vars PROVE [LeavesActiveRun]_vars
  <2> SUFFICES ASSUME Next, NEW t \in Creators, pc[t] = "insert", pc'[t] = "idle",
                      runState' # runState
               PROVE  InsertRun(t)
    BY <1>1, InsertLeavesActiveRun DEF LeavesActiveRun
  <2> USE DEF IndInv
  <2>0. t \in Txns BY DEF Txns
  <2>1. ASSUME NEW u \in Creators, CreateStep(u) PROVE InsertRun(t)
    <3>1. InsertRun(u)
      BY <2>1 DEF CreateStep, CreateLock, LockRow, CreateRelease, ReleaseTerminal,
                  FindActiveRun, Rollback, rows
    <3>2. EndTxn(u)
      BY <3>1 DEF InsertRun, InsertCommit, Rollback
    <3>3. u = t
      BY <1>1, <2>0, <3>2 DEF EndTxn, TypeOK, Txns
    <3> QED BY <3>1, <3>3
  <2>2. ASSUME NEW u \in Creators, NEW r \in Runs, BeginCreate(u, r) PROVE FALSE
    BY <2>2 DEF BeginCreate
  <2>3. ASSUME NEW u \in Promoters, PromoteStep(u) \/ BeginPromote(u) PROVE FALSE
    BY <2>3 DEF PromoteStep, BeginPromote, PromoteNext, PromoteLock, LockRow, PromoteRelease,
                ReleaseTerminal, PromoteOldestQueuedRun, PromoteCommit, Rollback, rows
  <2>4. ASSUME NEW u \in Txns, AbortDeadlocked(u) PROVE FALSE
    BY <2>4 DEF AbortDeadlocked, Rollback, rows
  <2>5. ASSUME NEW p \in Pipelines, WebStep(p) PROVE FALSE
    BY <2>5 DEF WebStep, SetPipelineState, UpdatePipeline, DeletePipeline
  <2>6. ASSUME NEW r \in Runs, WorkerStep(r) PROVE FALSE
    BY <2>0, <2>6 DEF WorkerStep, ClaimNextJob, StartRun, FinishSuccess, FailJob, FinishFailure,
         FailBeforeFirstStep, txn
  <2> QED BY <2>1, <2>2, <2>3, <2>4, <2>5, <2>6 DEF Next
<1> QED BY <1>1, QueueInvariant, PTL DEF Spec, CreateLeavesActiveRun, LeavesActiveRun

-----------------------------------------------------------------------------
(* A promotion batch strands no pipeline it has released. *)

\* Transaction t has promoted a run of p, or sees nothing waiting there.
Unstranded(t, p) ==
  WaitingView(t, p) = {} \/ \E q \in promoted[t] : PipelineOf[q] = p

\* Every pipeline of which a promoter has released a run, except the one it is
\* working on.
SettledFor(t) ==
  \A r \in released[t] :
    \/ Unstranded(t, PipelineOf[r])
    \/ pc[t] \in {"release", "promote"} /\ PipelineOf[r] = current[t]

BatchSettled == \A t \in Promoters : SettledFor(t)

\* Nobody else can make a run of a locked pipeline wait.
LEMMA OthersKeepSettled ==
  ASSUME IndInv, NEW t \in Promoters, SettledFor(t),
         released'[t] = released[t], promoted'[t] = promoted[t], pc'[t] = pc[t], current'[t] = current[t],
         \A s \in Runs : pipelineLock[PipelineOf[s]] = t /\ runState'[s] = "queued" =>
                          runState[s] = "queued" /\ (s \in isActive => s \in isActive')
  PROVE  SettledFor(t)'
<1> t \in Txns BY DEF Txns
<1> SUFFICES ASSUME NEW r \in released[t], Unstranded(t, PipelineOf[r])
             PROVE  Unstranded(t, PipelineOf[r])'
  BY DEF SettledFor
<1>1. pipelineLock[PipelineOf[r]] = t
  BY DEF IndInv, PendingWrites
<1>2. CASE \E q \in promoted[t] : PipelineOf[q] = PipelineOf[r]
  BY <1>2 DEF Unstranded
<1>3. CASE WaitingView(t, PipelineOf[r]) = {}
  <2>1. ASSUME NEW s \in RunsOf(PipelineOf[r]), runState'[s] = "queued" PROVE s \in ActiveView(t)'
    <3>1. s \in Runs /\ PipelineOf[s] = PipelineOf[r]
      BY DEF RunsOf
    <3>2. runState[s] = "queued" /\ (s \in isActive => s \in isActive')
      BY <1>1, <2>1, <3>1
    <3>3. s \in ActiveView(t)
      BY <1>3, <3>2 DEF WaitingView
    <3> QED BY <3>2, <3>3 DEF ActiveView
  <2>2. WaitingView(t, PipelineOf[r])' = {}
    BY <2>1 DEF WaitingView, RunsOf
  <2> QED BY <2>2 DEF Unstranded
<1> QED BY <1>2, <1>3 DEF Unstranded

\* A creator works on pipelines that no promoter has locked.
LEMMA CreatorsKeepSettled ==
  ASSUME IndInv, NEW t \in Promoters, SettledFor(t), NEW u \in Creators,
         CreateStep(u) \/ \E r \in Runs : BeginCreate(u, r)
  PROVE  SettledFor(t)'
<1> USE DEF IndInv
<1>0. t \in Txns /\ u \in Txns /\ t # u
  BY ConstantsAssumption DEF Txns
<1>1. released'[t] = released[t] /\ promoted'[t] = promoted[t] /\ pc'[t] = pc[t] /\ current'[t] = current[t]
  BY <1>0 DEF CreateStep, CreateLock, LockRow, CreateRelease, ReleaseTerminal, FindActiveRun, InsertRun,
              InsertCommit, Rollback, EndTxn, BeginCreate, TypeOK
<1>2. CASE UNCHANGED <<runState, isActive>>
  BY <1>1, <1>2, OthersKeepSettled
<1>3. CASE ~UNCHANGED <<runState, isActive>>
  <2>1. InsertRun(u) /\ ~Rollback(u)
    BY <1>3 DEF CreateStep, CreateLock, LockRow, CreateRelease, ReleaseTerminal, FindActiveRun, BeginCreate,
                Rollback, rows
  <2>2. PICK next : InsertCommit(u, next)
    BY <2>1 DEF InsertRun
  <2>3. pc[u] = "insert" /\ request[u] \in Runs /\ pipelineLock[PipelineOf[request[u]]] = u
    BY <1>0, <2>1 DEF InsertRun, TxnShape
  <2>4. ASSUME NEW s \in Runs, pipelineLock[PipelineOf[s]] = t, runState'[s] = "queued"
        PROVE  runState[s] = "queued" /\ (s \in isActive => s \in isActive')
    <3>1. s # request[u]
      BY <1>0, <2>3, <2>4
    <3>2. s \notin released[u]
      BY <1>0, <2>4 DEF PendingWrites
    <3> QED BY <2>2, <2>4, <3>1, <3>2 DEF InsertCommit, ActiveView, TypeOK
  <2> QED BY <1>1, <2>4, OthersKeepSettled
<1> QED BY <1>2, <1>3

\* Another promoter commits changes to the pipelines that it has locked.
LEMMA OtherPromotersKeepSettled ==
  ASSUME IndInv, NEW t \in Promoters, SettledFor(t), NEW u \in Promoters, u # t,
         PromoteStep(u) \/ BeginPromote(u)
  PROVE  SettledFor(t)'
<1> USE DEF IndInv
<1>0. t \in Txns /\ u \in Txns
  BY DEF Txns
<1>1. released'[t] = released[t] /\ promoted'[t] = promoted[t] /\ pc'[t] = pc[t] /\ current'[t] = current[t]
  BY <1>0 DEF PromoteStep, BeginPromote, PromoteNext, PromoteLock, LockRow, PromoteRelease, ReleaseTerminal,
              PromoteOldestQueuedRun, PromoteCommit, Rollback, EndTxn, TypeOK
<1>2. runState' = runState
  BY DEF PromoteStep, BeginPromote, PromoteNext, PromoteLock, LockRow, PromoteRelease, ReleaseTerminal,
         PromoteOldestQueuedRun, PromoteCommit, Rollback, rows
<1>3. isActive' = isActive \/ isActive' = ActiveView(u)
  BY DEF PromoteStep, BeginPromote, PromoteNext, PromoteLock, LockRow, PromoteRelease, ReleaseTerminal,
         PromoteOldestQueuedRun, PromoteCommit, Rollback, rows
<1>4. ASSUME NEW s \in Runs, pipelineLock[PipelineOf[s]] = t, s \in isActive PROVE s \in isActive'
  BY <1>0, <1>3, <1>4 DEF ActiveView, PendingWrites
<1> QED BY <1>1, <1>2, <1>4, OthersKeepSettled

\* The promoter's own statements: what it released last is what it works on.
LEMMA OwnStepsSettle ==
  ASSUME IndInv, NEW t \in Promoters, SettledFor(t), PromoteStep(t) \/ BeginPromote(t)
  PROVE  SettledFor(t)'
<1> USE DEF IndInv
<1>0. t \in Txns /\ pc[t] \in Statements
  BY DEF Txns, TypeOK
<1>1. CASE EndTxn(t)
  <2>1. released'[t] = {}
    BY <1>0, <1>1 DEF EndTxn, TypeOK
  <2> QED BY <2>1 DEF SettledFor
<1>2. CASE BeginPromote(t) \/ PromoteNext(t) \/ PromoteLock(t)
  <2>1. UNCHANGED <<runState, isActive, released, promoted>>
    BY <1>2 DEF BeginPromote, PromoteNext, PromoteLock, LockRow, rows
  <2>2. pc[t] \notin {"release", "promote"}
    BY <1>2 DEF BeginPromote, PromoteNext, PromoteLock
  <2>3. \A r \in released[t] : Unstranded(t, PipelineOf[r])
    BY <2>2 DEF SettledFor
  <2> QED BY <2>1, <2>3 DEF SettledFor, Unstranded, WaitingView, ActiveView
<1>3. CASE PromoteRelease(t)
  <2>1. UNCHANGED <<runState, isActive, promoted, current>>
    BY <1>3 DEF PromoteRelease, ReleaseTerminal, rows
  <2>2. pc[t] = "release" /\ pc'[t] \in {"release", "promote"}
    BY <1>0, <1>3 DEF PromoteRelease, ReleaseTerminal, TypeOK
  <2>3. ASSUME NEW r \in released'[t], PipelineOf[r] # current[t] PROVE Unstranded(t, PipelineOf[r])'
    <3>1. r \in released[t]
      BY <1>0, <1>3, <2>3 DEF PromoteRelease, ReleaseTerminal, TypeOK, PendingWrites
    <3>2. Unstranded(t, PipelineOf[r])
      BY <2>3, <3>1 DEF SettledFor
    <3>3. ASSUME NEW s \in released'[t] \ released[t] PROVE runState[s] # "queued"
      <4>1. s \in targets[t]
        BY <1>0, <1>3, <3>3 DEF PromoteRelease, ReleaseTerminal, TypeOK
      <4> QED BY <1>0, <4>1 DEF PendingWrites, terminalRunStates
    <3>4. released[t] \subseteq released'[t]
      BY <1>0, <1>3 DEF PromoteRelease, ReleaseTerminal, TypeOK
    <3> QED BY <2>1, <3>2, <3>3, <3>4 DEF Unstranded, WaitingView, ActiveView
  <2> QED BY <2>1, <2>2, <2>3 DEF SettledFor
<1>4. CASE PromoteOldestQueuedRun(t) /\ ~EndTxn(t)
  <2>1. /\ pc[t] = "promote" /\ UNCHANGED <<runState, isActive, released, current>>
        /\ \E next \in (IF WaitingView(t, current[t]) = {} THEN {{}}
                        ELSE {{q} : q \in OldestOf(WaitingView(t, current[t]))}) :
             promoted' = [promoted EXCEPT ![t] = @ \cup next]
    BY <1>4 DEF PromoteOldestQueuedRun, Rollback, rows
  <2>2. promoted[t] \subseteq promoted'[t]
    BY <1>0, <2>1 DEF TypeOK
  <2>3. ASSUME NEW p, Unstranded(t, p) PROVE Unstranded(t, p)'
    BY <2>1, <2>2, <2>3 DEF Unstranded, WaitingView, ActiveView
  <2>4. Unstranded(t, current[t])'
    <3>1. CASE WaitingView(t, current[t]) = {}
      BY <2>1, <2>3, <3>1 DEF Unstranded
    <3>2. CASE WaitingView(t, current[t]) # {}
      <4>1. PICK q \in OldestOf(WaitingView(t, current[t])) : promoted' = [promoted EXCEPT ![t] = @ \cup {q}]
        BY <2>1, <3>2
      <4>2. q \in promoted'[t] /\ PipelineOf[q] = current[t]
        BY <1>0, <4>1 DEF TypeOK, OldestOf, WaitingView, RunsOf
      <4> QED BY <2>1, <4>2 DEF Unstranded
    <3> QED BY <3>1, <3>2
  <2> QED BY <2>1, <2>3, <2>4 DEF SettledFor
<1> QED BY <1>1, <1>2, <1>3, <1>4 DEF PromoteStep, PromoteCommit

LEMMA BatchStaysSettled ==
  ASSUME IndInv, BatchSettled, [Next]_vars PROVE BatchSettled'
<1> SUFFICES ASSUME NEW t \in Promoters, SettledFor(t) PROVE SettledFor(t)'
  BY DEF BatchSettled
<1> USE DEF IndInv
<1>0. t \in Txns
  BY DEF Txns
<1>1. CASE UNCHANGED vars
  BY <1>1, OthersKeepSettled DEF vars, rows, txn
<1>2. ASSUME NEW u \in Txns, AbortDeadlocked(u) PROVE SettledFor(t)'
  <2>1. CASE u = t
    <3>1. released'[t] = {}
      BY <1>0, <1>2, <2>1 DEF AbortDeadlocked, Rollback, EndTxn, TypeOK
    <3> QED BY <3>1 DEF SettledFor
  <2>2. CASE u # t
    BY <1>0, <1>2, <2>2, OthersKeepSettled DEF AbortDeadlocked, Rollback, EndTxn, TypeOK, rows
  <2> QED BY <2>1, <2>2
<1>3. ASSUME NEW p \in Pipelines, WebStep(p) PROVE SettledFor(t)'
  BY <1>3, OthersKeepSettled DEF WebStep, SetPipelineState, UpdatePipeline, DeletePipeline, txn
<1>4. ASSUME NEW r \in Runs, WorkerStep(r) PROVE SettledFor(t)'
  <2>1. UNCHANGED <<isActive, txn>>
    BY <1>4 DEF WorkerStep, ClaimNextJob, StartRun, FinishSuccess, FailJob, FinishFailure, FailBeforeFirstStep
  <2>2. \A s \in Runs : runState'[s] = "queued" => runState[s] = "queued"
    BY <1>4 DEF WorkerStep, ClaimNextJob, StartRun, FinishSuccess, FailJob, FinishFailure, FailBeforeFirstStep,
                TypeOK
  <2> QED BY <2>1, <2>2, OthersKeepSettled DEF txn
<1> QED
  BY <1>1, <1>2, <1>3, <1>4, CreatorsKeepSettled, OtherPromotersKeepSettled, OwnStepsSettle DEF Next

\* What PromotionAdvancesBacklog asks of one step.
AdvancesBacklog ==
  \A t \in Promoters :
    (pc[t] = "next" /\ pc'[t] = "idle") =>
       \A r \in released[t] :
          \/ \E s \in isActive' : /\ PipelineOf[s] = PipelineOf[r]
                                 /\ runState'[s] \in activeRunStates
          \/ \A s \in RunsOf(PipelineOf[r]) : runState'[s] = "queued" => s \in isActive'

\* Only its commit takes a promoter from the head of its loop to the end.
LEMMA LoopEndsInCommit ==
  ASSUME IndInv, Next, NEW t \in Promoters, pc[t] = "next", pc'[t] = "idle"
  PROVE  PromoteCommit(t)
<1> USE DEF IndInv
<1>0. t \in Txns /\ t \notin Creators
  BY ConstantsAssumption DEF Txns
<1>1. ASSUME NEW u \in Creators, CreateStep(u) \/ \E r \in Runs : BeginCreate(u, r) PROVE FALSE
  <2>1. u \in Txns /\ u # t
    BY <1>0 DEF Txns
  <2> QED BY <1>0, <1>1, <2>1 DEF CreateStep, CreateLock, LockRow, CreateRelease, ReleaseTerminal, FindActiveRun,
             InsertRun, InsertCommit, Rollback, EndTxn, BeginCreate, TypeOK
<1>2. ASSUME NEW u \in Promoters, PromoteStep(u) \/ BeginPromote(u) PROVE PromoteCommit(t)
  <2>1. CASE u # t
    <3>1. u \in Txns
      BY DEF Txns
    <3> QED BY <1>0, <1>2, <2>1, <3>1 DEF PromoteStep, BeginPromote, PromoteNext, PromoteLock, LockRow,
               PromoteRelease, ReleaseTerminal, PromoteOldestQueuedRun, PromoteCommit, Rollback, EndTxn, TypeOK
  <2>2. CASE u = t
    BY <1>0, <1>2, <2>2 DEF PromoteStep, BeginPromote, PromoteNext, PromoteLock, PromoteRelease, ReleaseTerminal,
       PromoteOldestQueuedRun, TypeOK
  <2> QED BY <2>1, <2>2
<1>3. ASSUME NEW u \in Txns, AbortDeadlocked(u) PROVE FALSE
  <2>1. pc[u] \in {"lock", "release"}
    BY <1>3 DEF AbortDeadlocked, WaitsFor
  <2> QED BY <1>0, <1>3, <2>1 DEF AbortDeadlocked, Rollback, EndTxn, TypeOK
<1>4. ASSUME NEW p \in Pipelines, WebStep(p) PROVE FALSE
  BY <1>4 DEF WebStep, SetPipelineState, UpdatePipeline, DeletePipeline, txn
<1>5. ASSUME NEW r \in Runs, WorkerStep(r) PROVE FALSE
  BY <1>5 DEF WorkerStep, ClaimNextJob, StartRun, FinishSuccess, FailJob, FinishFailure, FailBeforeFirstStep, txn
<1> QED BY <1>1, <1>2, <1>3, <1>4, <1>5 DEF Next

\* A committed promotion batch leaves every pipeline it released with an active
\* run or with nothing waiting (promoteQueuedPipelineRuns): the row lock keeps
\* what it saw true until its commit.
THEOREM BatchesAdvanceBacklogs == Spec => PromotionAdvancesBacklog
<1>1. Init => BatchSettled
  BY DEF Init, BatchSettled, SettledFor, Txns
<1>2. ASSUME IndInv, BatchSettled, [Next]_vars PROVE [AdvancesBacklog]_vars
  <2> SUFFICES ASSUME Next, NEW t \in Promoters, pc[t] = "next", pc'[t] = "idle", NEW r \in released[t]
               PROVE  \/ \E s \in isActive' : PipelineOf[s] = PipelineOf[r] /\ runState'[s] \in activeRunStates
                      \/ \A s \in RunsOf(PipelineOf[r]) : runState'[s] = "queued" => s \in isActive'
    BY <1>2 DEF AdvancesBacklog
  <2>1. isActive' = ActiveView(t) /\ runState' = runState
    BY <1>2, LoopEndsInCommit DEF PromoteCommit
  <2>2. Unstranded(t, PipelineOf[r])
    BY <1>2 DEF BatchSettled, SettledFor
  <2>3. \A q \in promoted[t] : runState[q] = "queued"
    BY <1>2 DEF IndInv, PendingWrites, Txns
  <2> QED BY <2>1, <2>2, <2>3 DEF Unstranded, ActiveView, WaitingView, activeRunStates
<1> QED BY <1>1, <1>2, QueueInvariant, BatchStaysSettled, PTL DEF Spec, PromotionAdvancesBacklog, AdvancesBacklog

-----------------------------------------------------------------------------
(* Lines of waiting runs *)

\* A non-empty set of numbers has a least element.
LEMMA LeastNumber ==
  ASSUME NEW T, T \subseteq Nat, T # {}
  PROVE  \E x \in T : \A y \in T : x <= y
<1> DEFINE R == OpToRel(<, Nat)
<1>1. IsWellFoundedOn(R, Nat)
  BY NatLessThanWellFounded, Zenon
<1>2. \A x, y \in Nat : <<y, x>> \in R <=> y < x
  BY Zenon DEF OpToRel
<1> HIDE DEF R
<1>3. PICK x \in T : \A y \in T : ~(<<y, x>> \in R)
  BY <1>1, WFMin, Zenon
<1>4. \A y \in T : ~(y < x)
  BY <1>2, <1>3, Zenon
<1> QED BY <1>4

\* Among the runs of W nobody is ahead of himself, or of one who is ahead of him.
Asymmetric(W, ahead) ==
  \A r, s \in W : r \in ahead[s] => s \notin ahead[r]

\* A line has each run once, and as many runs as W.
LEMMA LineCounts ==
  ASSUME NEW W, NEW ahead, Asymmetric(W, ahead), NEW s, InLine(s, W, ahead)
  PROVE  Len(s) \in Nat /\ Cardinality(W) = Len(s) /\ s \in [1..Cardinality(W) -> W]
<1>1. Len(s) \in Nat /\ s \in [1..Len(s) -> W] /\ \A i \in 1..Len(s) : s[i] \in W
  BY DEF InLine
<1>2. \A i, j \in 1..Len(s) : s[i] = s[j] => i = j
  BY <1>1 DEF InLine, Asymmetric
<1>3. \A r \in W : \E i \in 1..Len(s) : s[i] = r
  BY DEF InLine
<1>4. s \in Bijection(1..Len(s), W)
  BY <1>1, <1>2, <1>3 DEF Bijection, Injection, Surjection, IsInjective
<1>5. Cardinality(W) = Len(s)
  BY <1>1, <1>4, FS_CountingElements DEF ExistsBijection
<1> QED BY <1>1, <1>5

\* W can be lined up in one way only.
LEMMA LineUnique ==
  ASSUME NEW W, NEW ahead, Asymmetric(W, ahead),
         NEW s, InLine(s, W, ahead), NEW u, InLine(u, W, ahead)
  PROVE  s = u
<1> DEFINE n == Cardinality(W)
<1>1. n \in Nat /\ s \in [1..n -> W] /\ u \in [1..n -> W] /\ Len(s) = n /\ Len(u) = n
  BY LineCounts, Zenon
<1> HIDE DEF n
<1> SUFFICES ASSUME s # u PROVE FALSE
  OBVIOUS
<1> DEFINE D == {i \in 1..n : s[i] # u[i]}
<1>2. D # {} /\ D \subseteq Nat
  BY <1>1
<1>3. PICK i \in D : \A k \in D : i <= k
  BY <1>2, LeastNumber
<1>4. i \in 1..n /\ s[i] # u[i] /\ s[i] \in W /\ u[i] \in W
  BY <1>1, <1>3
<1>5. \A k \in 1..n : k < i => s[k] = u[k]
  BY <1>1, <1>3
<1>6. \A j, k \in 1..n : j < k => s[j] \in ahead[s[k]] /\ u[j] \in ahead[u[k]]
  BY <1>1 DEF InLine
<1>7. PICK j \in 1..n : u[j] = s[i]
  BY <1>1, <1>4 DEF InLine
<1>8. PICK k \in 1..n : s[k] = u[i]
  BY <1>1, <1>4 DEF InLine
<1>9. \A x \in W : x \notin ahead[x]
  BY DEF Asymmetric
<1>10. ~(j < i) /\ ~(k < i)
  BY <1>1, <1>4, <1>5, <1>6, <1>7, <1>8, <1>9
<1>11. i < j /\ i < k
  BY <1>1, <1>4, <1>7, <1>8, <1>10
<1> QED BY <1>4, <1>6, <1>7, <1>8, <1>11 DEF Asymmetric

\* So the line of W is any s that lines W up.
LEMMA LineOfIs ==
  ASSUME NEW W, NEW ahead, Asymmetric(W, ahead), NEW s, InLine(s, W, ahead)
  PROVE  LineOf(W, ahead) = s
<1>1. s \in [1..Cardinality(W) -> W]
  BY LineCounts, Zenon
<1>2. InLine(LineOf(W, ahead), W, ahead)
  BY <1>1, Zenon DEF LineOf
<1> QED BY <1>2, LineUnique, Zenon

\* Nobody waits.
LEMMA EmptyLine == ASSUME NEW ahead PROVE InLine(<<>>, {}, ahead)
  BY DEF InLine

\* The oldest run heads the line.
LEMMA HeadOfLine ==
  ASSUME NEW W, NEW ahead, Asymmetric(W, ahead), NEW s, InLine(s, W, ahead),
         NEW q \in W, \A r \in W \ {q} : q \in ahead[r]
  PROVE  s # <<>> /\ Head(s) = q
<1>1. PICK i \in 1..Len(s) : s[i] = q
  BY DEF InLine
<1>2. s \in Seq(W) /\ Len(s) \in Nat /\ 1 \in 1..Len(s) /\ s # <<>> /\ Head(s) = s[1] /\ s[1] \in W
  <2>1. s \in Seq(W)
    BY DEF InLine
  <2>2. Len(s) \in Nat /\ 1 \in 1..Len(s)
    BY <1>1, <2>1, LenProperties
  <2>3. s # <<>> /\ s[1] \in W
    BY <2>1, <2>2, EmptySeq, ElementOfSeq
  <2> QED BY <2>1, <2>2, <2>3
<1>3. CASE i # 1
  <2>0. \A j, k \in 1..Len(s) : j < k => s[j] \in ahead[s[k]]
    BY DEF InLine
  <2>1. s[1] \in ahead[q]
    BY <1>1, <1>2, <1>3, <2>0
  <2> QED BY <1>2, <2>1 DEF Asymmetric
<1> QED BY <1>1, <1>2, <1>3

\* When the head leaves, the others stay in line.
LEMMA TailOfLine ==
  ASSUME NEW W, NEW ahead, Asymmetric(W, ahead), NEW s, InLine(s, W, ahead), s # <<>>
  PROVE  InLine(Tail(s), W \ {Head(s)}, ahead)
<1>1. /\ s \in Seq(W) /\ Len(s) \in Nat /\ 1 \in 1..Len(s) /\ Head(s) = s[1]
      /\ Len(Tail(s)) = Len(s) - 1 /\ \A i \in 1..Len(s) - 1 : Tail(s)[i] = s[i + 1]
      /\ Tail(s) \in Seq(W)
  BY DEF InLine
<1>2. \A i \in 1..Len(s) - 1 : Tail(s)[i] \in W \ {Head(s)}
  <2> SUFFICES ASSUME NEW i \in 1..Len(s) - 1 PROVE Tail(s)[i] \in W \ {Head(s)}
    OBVIOUS
  <2>1. i + 1 \in 1..Len(s) /\ s[i + 1] \in W /\ 1 < i + 1 /\ s[1] \in W
    BY <1>1
  <2>2. s[1] \in ahead[s[i + 1]]
    BY <1>1, <2>1 DEF InLine
  <2> QED BY <1>1, <2>1, <2>2 DEF Asymmetric
<1>3. Tail(s) \in Seq(W \ {Head(s)})
  <2> DEFINE z == Tail(s)
  <2>1. z \in Seq(W) /\ Len(z) = Len(s) - 1 /\ \A i \in 1..Len(s) - 1 : z[i] \in W \ {Head(s)}
    BY <1>1, <1>2
  <2> HIDE DEF z
  <2>2. z \in [1..Len(z) -> W \ {Head(s)}] /\ Len(z) \in Nat
    BY <1>1, <2>1
  <2>3. z \in Seq(W \ {Head(s)})
    BY <2>2, SeqDef, Zenon
  <2> QED BY <2>3 DEF z
<1>4. \A r \in W \ {Head(s)} : \E i \in 1..Len(s) - 1 : Tail(s)[i] = r
  <2> SUFFICES ASSUME NEW r \in W \ {Head(s)} PROVE \E i \in 1..Len(s) - 1 : Tail(s)[i] = r
    OBVIOUS
  <2>1. PICK j \in 1..Len(s) : s[j] = r
    BY DEF InLine
  <2>2. j # 1 /\ j - 1 \in 1..Len(s) - 1
    BY <1>1, <2>1
  <2>3. Tail(s)[j - 1] = s[(j - 1) + 1] /\ (j - 1) + 1 = j
    BY <1>1, <2>2
  <2> QED BY <2>1, <2>2, <2>3
<1>5. \A i, j \in 1..Len(s) - 1 : i < j => Tail(s)[i] \in ahead[Tail(s)[j]]
  <2> SUFFICES ASSUME NEW i \in 1..Len(s) - 1, NEW j \in 1..Len(s) - 1, i < j
               PROVE  Tail(s)[i] \in ahead[Tail(s)[j]]
    OBVIOUS
  <2>1. i + 1 \in 1..Len(s) /\ j + 1 \in 1..Len(s) /\ i + 1 < j + 1
    BY <1>1
  <2>2. s[i + 1] \in ahead[s[j + 1]]
    BY <2>1 DEF InLine
  <2> QED BY <1>1, <2>2
<1> QED BY <1>1, <1>3, <1>4, <1>5 DEF InLine

\* A run that everyone is ahead of joins at the end.
LEMMA JoinAtEnd ==
  ASSUME NEW W, NEW ahead, NEW s, InLine(s, W, ahead),
         NEW q, \A r \in W : r \in ahead[q]
  PROVE  InLine(Append(s, q), W \cup {q}, ahead)
<1>1. /\ s \in Seq(W) /\ Len(s) \in Nat /\ \A i \in 1..Len(s) : s[i] \in W
      /\ Append(s, q) \in Seq(W \cup {q})
      /\ Len(Append(s, q)) = Len(s) + 1 /\ Append(s, q)[Len(s) + 1] = q
      /\ \A i \in 1..Len(s) : Append(s, q)[i] = s[i]
  <2>1. s \in Seq(W) /\ s \in Seq(W \cup {q})
    BY DEF InLine
  <2> QED BY <2>1
<1>2. \A r \in W \cup {q} : \E i \in 1..Len(s) + 1 : Append(s, q)[i] = r
  BY <1>1 DEF InLine
<1>3. ASSUME NEW i \in 1..Len(s) + 1, NEW j \in 1..Len(s) + 1, i < j
      PROVE  Append(s, q)[i] \in ahead[Append(s, q)[j]]
  <2>1. i \in 1..Len(s) /\ Append(s, q)[i] = s[i] /\ s[i] \in W
    BY <1>1, <1>3
  <2>2. CASE j \in 1..Len(s)
    BY <1>1, <1>3, <2>1, <2>2 DEF InLine
  <2>3. CASE j = Len(s) + 1
    BY <1>1, <2>1, <2>3
  <2> QED BY <1>1, <2>2, <2>3
<1> QED BY <1>1, <1>2, <1>3 DEF InLine

\* A run that is ahead of someone joins before the first such.
LEMMA JoinAhead ==
  ASSUME NEW W, NEW ahead, NEW s, InLine(s, W, ahead), NEW q,
         \A r \in W : r \in ahead[q] \/ q \in ahead[r],
         \A r, x \in W : q \in ahead[r] /\ r \in ahead[x] => q \in ahead[x],
         \E r \in W : r \notin ahead[q]
  PROVE  \E i \in 1..Len(s) : q \in ahead[s[i]] /\ InLine(InsertAt(s, i, q), W \cup {q}, ahead)
<1>1. s \in Seq(W) /\ Len(s) \in Nat /\ \A i \in 1..Len(s) : s[i] \in W
  BY DEF InLine
<1> DEFINE D == {i \in 1..Len(s) : s[i] \notin ahead[q]}
<1>2. D \subseteq Nat /\ D # {}
  <2>1. PICK r \in W : r \notin ahead[q]
    OBVIOUS
  <2>2. PICK k \in 1..Len(s) : s[k] = r
    BY DEF InLine
  <2>3. k \in D
    BY <2>1, <2>2
  <2> QED BY <2>3
<1>3. PICK i \in D : \A k \in D : i <= k
  BY <1>2, LeastNumber
<1>4. i \in 1..Len(s) /\ q \in ahead[s[i]] /\ \A k \in 1..Len(s) : k < i => s[k] \in ahead[q]
  BY <1>1, <1>3
<1>5. \A k \in 1..Len(s) : i <= k => q \in ahead[s[k]]
  <2> SUFFICES ASSUME NEW k \in 1..Len(s), i < k PROVE q \in ahead[s[k]]
    BY <1>1, <1>4
  <2>1. s[i] \in ahead[s[k]]
    BY <1>4 DEF InLine
  <2> QED BY <1>1, <1>4, <2>1
<1> DEFINE z == InsertAt(s, i, q)
<1>6. /\ z \in Seq(W \cup {q}) /\ Len(z) = Len(s) + 1
      /\ \A k \in 1..Len(s) + 1 :
           z[k] = IF k < i THEN s[k] ELSE IF k = i THEN q ELSE s[k - 1]
  <2> DEFINE a == SubSeq(s, 1, i - 1)
             b == SubSeq(s, i, Len(s))
  <2>1. /\ a \in Seq(W \cup {q}) /\ Len(a) = i - 1 /\ \A k \in 1..i - 1 : a[k] = s[k]
    BY <1>1, <1>4
  <2>2. /\ b \in Seq(W \cup {q}) /\ Len(b) = Len(s) - i + 1
        /\ \A k \in 1..Len(s) - i + 1 : b[k] = s[i + k - 1]
    BY <1>1, <1>4
  <2>3. z = (a \o <<q>>) \o b
    BY DEF InsertAt
  <2> DEFINE c == a \o <<q>>
  <2>3a. <<q>> \in Seq(W \cup {q}) /\ Len(<<q>>) = 1 /\ <<q>>[1] = q
    OBVIOUS
  <2> HIDE DEF a, b
  <2>4. c \in Seq(W \cup {q}) /\ Len(c) = i /\ \A k \in 1..i : c[k] = IF k < i THEN s[k] ELSE q
    BY <1>1, <1>4, <2>1, <2>3a
  <2>5. z = c \o b
    BY <2>3
  <2> HIDE DEF c, z
  <2>5a. b \in Seq(W \cup {q}) /\ c \in Seq(W \cup {q})
    BY <2>2, <2>4
  <2>6. z \in Seq(W \cup {q}) /\ Len(z) = Len(s) + 1
    <3>1. z \in Seq(W \cup {q}) /\ Len(z) = Len(c) + Len(b)
      BY <2>5, <2>5a, ConcatProperties
    <3> QED BY <1>1, <1>4, <2>2, <2>4, <3>1
  <2>7. \A k \in 1..Len(s) + 1 : z[k] = IF k <= i THEN c[k] ELSE b[k - i]
    <3>1. \A k \in 1..Len(c) + Len(b) : z[k] = IF k <= Len(c) THEN c[k] ELSE b[k - Len(c)]
      BY <2>5, <2>5a, ConcatProperties
    <3>2. Len(c) + Len(b) = Len(s) + 1 /\ Len(c) = i
      BY <1>1, <1>4, <2>2, <2>4
    <3> QED BY <3>1, <3>2
  <2>8. \A k \in 1..Len(s) + 1 : k > i => k - i \in 1..Len(s) - i + 1 /\ i + (k - i) - 1 = k - 1
    BY <1>1, <1>4
  <2>9. ASSUME NEW k \in 1..Len(s) + 1
        PROVE  z[k] = IF k < i THEN s[k] ELSE IF k = i THEN q ELSE s[k - 1]
    <3>1. CASE k <= i
      BY <1>1, <1>4, <2>4, <2>7, <3>1
    <3>2. CASE k > i
      <4>1. z[k] = b[k - i]
        BY <1>1, <1>4, <2>7, <3>2
      <4>2. b[k - i] = s[i + (k - i) - 1]
        BY <2>2, <2>8, <3>2
      <4> QED BY <1>1, <1>4, <2>8, <3>2, <4>1, <4>2
    <3> QED BY <1>1, <1>4, <3>1, <3>2
  <2> QED BY <2>6, <2>9
<1> HIDE DEF z, D
<1>7. \A r \in W \cup {q} : \E k \in 1..Len(s) + 1 : z[k] = r
  <2> SUFFICES ASSUME NEW r \in W \cup {q} PROVE \E k \in 1..Len(s) + 1 : z[k] = r
    OBVIOUS
  <2>1. CASE r = q
    BY <1>1, <1>4, <1>6, <2>1
  <2>2. CASE r \in W
    <3>1. PICK k \in 1..Len(s) : s[k] = r
      BY <2>2 DEF InLine
    <3>2. CASE k < i
      BY <1>1, <1>4, <1>6, <3>1, <3>2
    <3>3. CASE i <= k
      <4>1. k + 1 \in 1..Len(s) + 1 /\ k + 1 > i /\ (k + 1) - 1 = k
        BY <1>1, <1>4, <3>3
      <4>2. z[k + 1] = s[(k + 1) - 1]
        BY <1>1, <1>4, <1>6, <3>3, <4>1
      <4> QED BY <3>1, <4>1, <4>2
    <3> QED BY <1>1, <1>4, <3>2, <3>3
  <2> QED BY <2>1, <2>2
<1>8. \A j, k \in 1..Len(s) + 1 : j < k => z[j] \in ahead[z[k]]
  <2> SUFFICES ASSUME NEW j \in 1..Len(s) + 1, NEW k \in 1..Len(s) + 1, j < k
               PROVE  z[j] \in ahead[z[k]]
    OBVIOUS
  <2>1. \A x, y \in 1..Len(s) : x < y => s[x] \in ahead[s[y]]
    BY DEF InLine
  <2>2. CASE k < i
    <3>1. j \in 1..Len(s) /\ k \in 1..Len(s) /\ z[j] = s[j] /\ z[k] = s[k]
      BY <1>1, <1>4, <1>6, <2>2
    <3> QED BY <2>1, <3>1
  <2>3. CASE k = i
    <3>1. z[k] = q
      BY <1>6, <2>3
    <3>2. j \in 1..Len(s) /\ j < i /\ z[j] = s[j]
      BY <1>1, <1>4, <1>6, <2>3
    <3> QED BY <1>4, <3>1, <3>2
  <2>4. CASE k > i
    <3>1. k - 1 \in 1..Len(s) /\ i <= k - 1 /\ z[k] = s[k - 1]
      BY <1>1, <1>4, <1>6, <2>4
    <3>2. CASE j = i
      BY <1>4, <1>5, <1>6, <3>1, <3>2
    <3>3. CASE j < i
      <4>1. j \in 1..Len(s) /\ j < k - 1 /\ z[j] = s[j]
        BY <1>1, <1>4, <1>6, <3>1, <3>3
      <4> QED BY <2>1, <3>1, <4>1
    <3>4. CASE j > i
      <4>1. j - 1 \in 1..Len(s) /\ j - 1 < k - 1 /\ z[j] = s[j - 1]
        BY <1>1, <1>4, <1>6, <3>4
      <4> QED BY <2>1, <3>1, <4>1
    <3> QED BY <1>1, <1>4, <3>2, <3>3, <3>4
  <2> QED BY <1>1, <1>4, <2>2, <2>3, <2>4
<1>9. InLine(z, W \cup {q}, ahead)
  BY <1>6, <1>7, <1>8 DEF InLine
<1> QED BY <1>4, <1>9 DEF z

\* The line depends only on who is ahead of whom among its members.
LEMMA SameLine ==
  ASSUME NEW W, NEW ahead, NEW other, NEW s, InLine(s, W, ahead),
         \A r, x \in W : r \in ahead[x] => r \in other[x]
  PROVE  InLine(s, W, other)
<1>1. s \in Seq(W) /\ Len(s) \in Nat /\ \A i \in 1..Len(s) : s[i] \in W
  BY DEF InLine
<1> QED BY <1>1 DEF InLine

-----------------------------------------------------------------------------
(* The order of requests *)

\* The runs ahead of each run when c gives their created_at.
AheadAt(c) ==
  [r \in Runs |-> {s \in Runs :
     \/ ScheduledFor[s] # NotScheduled /\ ScheduledFor[r] = NotScheduled
     \/ /\ ScheduledFor[s] # NotScheduled /\ ScheduledFor[r] # NotScheduled
        /\ ScheduledFor[s] < ScheduledFor[r]
     \/ ScheduledFor[s] = ScheduledFor[r] /\ c[s] < c[r]}]

\* Of any two runs of W one is ahead of the other, consistently.
Ordered(W, ahead) ==
  /\ Asymmetric(W, ahead)
  /\ \A r, s \in W : r = s \/ r \in ahead[s] \/ s \in ahead[r]
  /\ \A r, s, x \in W : r \in ahead[s] /\ s \in ahead[x] => r \in ahead[x]

\* ORDER BY scheduled_for, created_at is a total order on requests made at
\* different times.
LEMMA AheadOrders ==
  ASSUME NEW c \in [Runs -> Nat], NEW W \in SUBSET Runs,
         \A r, s \in W : c[r] = c[s] => r = s
  PROVE  Ordered(W, AheadAt(c))
<1> DEFINE f == ScheduledFor
<1>1. \A r, s \in W : s \in AheadAt(c)[r] <=>
         \/ f[s] # NotScheduled /\ f[r] = NotScheduled
         \/ f[s] # NotScheduled /\ f[r] # NotScheduled /\ f[s] < f[r]
         \/ f[s] = f[r] /\ c[s] < c[r]
  BY DEF AheadAt
<1>2. \A r \in W : c[r] \in Nat /\ (f[r] # NotScheduled => f[r] \in Nat)
  BY ConstantsAssumption
<1> HIDE DEF f
<1>3. Asymmetric(W, AheadAt(c))
  BY <1>1, <1>2 DEF Asymmetric
<1>4. \A r, s \in W : r = s \/ r \in AheadAt(c)[s] \/ s \in AheadAt(c)[r]
  BY <1>1, <1>2
<1>5. ASSUME NEW r \in W, NEW s \in W, NEW x \in W, r \in AheadAt(c)[s], s \in AheadAt(c)[x]
      PROVE  r \in AheadAt(c)[x]
  BY <1>1, <1>2, <1>5
<1> QED BY <1>3, <1>4, <1>5 DEF Ordered

\* In every state whose stamps differ, and in the next one.
LEMMA OrderNow == ASSUME TypeOK, StampsDiffer PROVE Ordered(Stamped, Ahead)
<1>1. Ahead = AheadAt(createdAt) BY DEF Ahead, AheadAt, Precedes
<1>2. Stamped \in SUBSET Runs BY DEF Stamped
<1>3. createdAt \in [Runs -> Nat] /\ \A r, s \in Stamped : createdAt[r] = createdAt[s] => r = s
  BY DEF TypeOK, StampsDiffer
<1> QED BY <1>1, <1>2, <1>3, AheadOrders

LEMMA OrderNext == ASSUME TypeOK', StampsDiffer' PROVE Ordered(Stamped', Ahead')
<1>1. Ahead' = AheadAt(createdAt') BY DEF Ahead, AheadAt, Precedes
<1>2. Stamped' \in SUBSET Runs BY DEF Stamped
<1>3. /\ createdAt' \in [Runs -> Nat]
      /\ \A r, s \in Stamped' : createdAt'[r] = createdAt'[s] => r = s
  BY DEF TypeOK, StampsDiffer
<1> QED BY <1>1, <1>2, <1>3, AheadOrders

\* A sequence that lines the waiting runs up after a step is then the backlog.
LEMMA NewBacklog ==
  ASSUME TypeOK', StampsDiffer', NEW s, InLine(s, WaitingRuns(p1)', Ahead')
  PROVE  Backlog(p1)' = s /\ BacklogInLine'
<1>1. Asymmetric(WaitingRuns(p1)', Ahead')
  BY OrderNext DEF Ordered, Asymmetric, WaitingRuns, Stamped, RunsOf
<1>2. LineOf(WaitingRuns(p1)', Ahead') = s
  BY <1>1, LineOfIs
<1> QED BY <1>2 DEF Backlog, BacklogInLine

-----------------------------------------------------------------------------
(* What steps do to turns *)

\* Steps that touch no row a turn depends on.
Quiet ==
  /\ UNCHANGED <<pipelineState, runState, isActive, createdAt, clock>>
  /\ \A u \in Creators : request'[u] \in {request[u], Nobody}
  /\ \A u \in Txns : promoted'[u] \in {promoted[u], {}}

\* What a creator that inserts its run finds, and which run becomes active.
Inserts(t, next) ==
  /\ pc[t] = "insert"
  /\ InsertCommit(t, next)
  /\ \/ ActiveRuns(current[t]) # {} /\ next = {}
     \/ /\ ActiveRuns(current[t]) = {} /\ WaitingRuns(current[t]) = {}
        /\ next = {request[t]}
     \/ /\ ActiveRuns(current[t]) = {}
        /\ \E q \in OldestOf(WaitingRuns(current[t])) : next = {q}

LEMMA RollbackQuiet == ASSUME TypeOK, NEW t \in Txns, Rollback(t) PROVE Quiet
  BY DEF Rollback, EndTxn, Quiet, rows, TypeOK, Txns

\* A creator's own writes hide no active run and no waiting one.
LEMMA CreatorSees ==
  ASSUME IndInv, NEW t \in Creators, NEW p \in Pipelines
  PROVE  ActiveIn(ActiveView(t), p) = ActiveRuns(p) /\ WaitingView(t, p) = WaitingRuns(p)
<1>1. t \in Txns /\ promoted[t] = {} /\ \A r \in released[t] : runState[r] \in terminalRunStates
  BY DEF IndInv, TxnShape, PendingWrites, Txns
<1> QED BY <1>1 DEF ActiveIn, ActiveView, ActiveRuns, WaitingView, WaitingRuns,
                    activeRunStates, terminalRunStates

LEMMA InsertCases ==
  ASSUME IndInv, NEW t \in Creators, InsertRun(t)
  PROVE  Quiet \/ \E next \in SUBSET Runs : Inserts(t, next)
<1> t \in Txns BY DEF Txns
<1>1. /\ pc[t] = "insert" /\ current[t] \in Pipelines /\ request[t] \in Runs
      /\ ActiveIn(ActiveView(t), current[t]) = ActiveRuns(current[t])
      /\ WaitingView(t, current[t]) = WaitingRuns(current[t])
  BY CreatorSees DEF InsertRun, IndInv, TxnShape
<1>2. CASE foundActive[t] /\ InsertCommit(t, {})
  <2>1. ActiveRuns(current[t]) # {}
    BY <1>1, <1>2 DEF IndInv, FoundStaysActive, ActiveRuns, ActiveIn
  <2> QED BY <1>1, <1>2, <2>1 DEF Inserts
<1>3. CASE Rollback(t)
  BY <1>3, RollbackQuiet DEF IndInv
<1>4. CASE /\ ~foundActive[t] /\ ActiveRuns(current[t]) = {} /\ WaitingRuns(current[t]) = {}
           /\ InsertCommit(t, {request[t]})
  BY <1>1, <1>4 DEF Inserts
<1>5. ASSUME ActiveRuns(current[t]) = {},
             NEW q \in OldestOf(WaitingRuns(current[t])), InsertCommit(t, {q})
      PROVE  \E next \in SUBSET Runs : Inserts(t, next)
  <2>1. {q} \in SUBSET Runs
    BY <1>5 DEF OldestOf, WaitingRuns, RunsOf
  <2> QED BY <1>1, <1>5, <2>1 DEF Inserts
<1> QED BY <1>1, <1>2, <1>3, <1>4, <1>5 DEF InsertRun

\* Every step is one of these.
LEMMA StepKinds ==
  ASSUME IndInv, [Next]_vars
  PROVE  \/ Quiet
         \/ \E t \in Creators, r \in Runs : BeginCreate(t, r)
         \/ \E t \in Creators, next \in SUBSET Runs : Inserts(t, next)
         \/ \E t \in Promoters : PromoteOldestQueuedRun(t) /\ ~Rollback(t)
         \/ \E t \in Promoters : PromoteCommit(t)
         \/ \E p \in Pipelines : WebStep(p)
         \/ \E r \in Runs : StartRun(r) \/ FinishSuccess(r) \/ FinishFailure(r)
<1>1. CASE UNCHANGED vars
  BY <1>1 DEF vars, rows, txn, Quiet
<1>2. ASSUME NEW t \in Creators, CreateStep(t)
      PROVE  Quiet \/ \E next \in SUBSET Runs : Inserts(t, next)
  <2> t \in Txns BY DEF Txns
  <2>1. CASE CreateLock(t)
    <3>1. CASE LockRow(t)
      BY <3>1 DEF LockRow, rows, Quiet
    <3>2. CASE Rollback(t)
      BY <3>2, RollbackQuiet DEF IndInv
    <3> QED BY <2>1, <3>1, <3>2 DEF CreateLock
  <2>2. CASE CreateRelease(t)
    BY <2>2 DEF CreateRelease, ReleaseTerminal, rows, Quiet
  <2>3. CASE FindActiveRun(t)
    BY <2>3 DEF FindActiveRun, rows, Quiet
  <2>4. CASE InsertRun(t)
    BY <2>4, InsertCases
  <2> QED BY <1>2, <2>1, <2>2, <2>3, <2>4 DEF CreateStep
<1>3. ASSUME NEW t \in Promoters, PromoteStep(t) \/ BeginPromote(t)
      PROVE  Quiet \/ (PromoteOldestQueuedRun(t) /\ ~Rollback(t)) \/ PromoteCommit(t)
  <2> t \in Txns BY DEF Txns
  <2>1. CASE BeginPromote(t) \/ PromoteNext(t)
    BY <2>1 DEF BeginPromote, PromoteNext, rows, Quiet
  <2>2. CASE PromoteLock(t) \/ PromoteRelease(t)
    BY <2>2 DEF PromoteLock, LockRow, PromoteRelease, ReleaseTerminal, rows, Quiet
  <2>3. CASE Rollback(t)
    BY <2>3, RollbackQuiet DEF IndInv
  <2> QED BY <1>3, <2>1, <2>2, <2>3 DEF PromoteStep
<1>4. ASSUME NEW t \in Txns, AbortDeadlocked(t) PROVE Quiet
  BY <1>4, RollbackQuiet DEF AbortDeadlocked, IndInv
<1>5. ASSUME NEW r \in Runs, WorkerStep(r)
      PROVE  Quiet \/ StartRun(r) \/ FinishSuccess(r) \/ FinishFailure(r)
  BY <1>5 DEF WorkerStep, ClaimNextJob, FailJob, FailBeforeFirstStep, txn, Quiet
<1> QED BY <1>1, <1>2, <1>3, <1>4, <1>5 DEF Next

\* The rows of an insertion: in its own pipeline the new run waits, or becomes
\* active, or the oldest waiting run does; other pipelines see nothing.
LEMMA InsertRows ==
  ASSUME IndInv, NEW t \in Creators, NEW next \in SUBSET Runs, Inserts(t, next)
  PROVE  /\ request[t] \in Runs /\ runState[request[t]] = "none"
         /\ current[t] \in Pipelines /\ PipelineOf[request[t]] = current[t]
         /\ pipelineLock[current[t]] = t /\ pipelineState[current[t]] = "enabled"
         /\ UNCHANGED <<pipelineState, createdAt, clock>>
         /\ runState' = [runState EXCEPT ![request[t]] = "queued"]
         /\ \A p \in Pipelines :
              IF p = current[t]
              THEN /\ ActiveRuns(p)' = ActiveRuns(p) \cup next
                   /\ WaitingRuns(p)' = (WaitingRuns(p) \cup {request[t]}) \ next
              ELSE ActiveRuns(p)' = ActiveRuns(p) /\ WaitingRuns(p)' = WaitingRuns(p)
<1> DEFINE r0 == request[t]
           p0 == current[t]
<1> t \in Txns BY DEF Txns
<1>1. /\ r0 \in Runs /\ runState[r0] = "none" /\ p0 \in Pipelines /\ PipelineOf[r0] = p0
      /\ pipelineLock[p0] = t /\ pipelineState[p0] = "enabled" /\ promoted[t] = {}
      /\ r0 \notin isActive /\ isActive \subseteq Runs /\ runState \in [Runs -> RunStates]
      /\ \A r \in released[t] : runState[r] \in terminalRunStates
  BY DEF Inserts, IndInv, TxnShape, CreatorsEnabled, JobsMatchRuns, PendingWrites, TypeOK
<1>2. /\ UNCHANGED <<pipelineState, createdAt, clock>>
      /\ runState' = [runState EXCEPT ![r0] = "queued"]
      /\ isActive' = (isActive \ released[t]) \cup next
  BY <1>1 DEF Inserts, InsertCommit, ActiveView
<1>3. /\ runState'[r0] = "queued"
      /\ \A r \in Runs \ {r0} : runState'[r] = runState[r]
  BY <1>1, <1>2
<1>4. \A q \in next : PipelineOf[q] = p0 /\ (q = r0 \/ runState[q] = "queued")
  BY <1>1 DEF Inserts, OldestOf, WaitingRuns, RunsOf
<1>5. \A q \in next : runState'[q] = "queued"
  BY <1>1, <1>3, <1>4
<1> HIDE DEF r0, p0
<1>6. ASSUME NEW p \in Pipelines, p = p0 PROVE ActiveRuns(p)' = ActiveRuns(p) \cup next
  BY <1>6, <1>1, <1>2, <1>3, <1>4, <1>5 DEF ActiveRuns, ActiveIn, activeRunStates, terminalRunStates
<1>7. ASSUME NEW p \in Pipelines, p = p0
      PROVE  WaitingRuns(p)' = (WaitingRuns(p) \cup {r0}) \ next
  BY <1>7, <1>1, <1>2, <1>3, <1>4 DEF WaitingRuns, RunsOf, terminalRunStates
<1>8. ASSUME NEW p \in Pipelines \ {p0}
      PROVE  ActiveRuns(p)' = ActiveRuns(p) /\ WaitingRuns(p)' = WaitingRuns(p)
  <2>1. ActiveRuns(p)' = ActiveRuns(p)
    BY <1>1, <1>2, <1>3, <1>4 DEF ActiveRuns, ActiveIn, activeRunStates, terminalRunStates
  <2>2. WaitingRuns(p)' = WaitingRuns(p)
    BY <1>1, <1>2, <1>3, <1>4 DEF WaitingRuns, RunsOf, terminalRunStates
  <2> QED BY <2>1, <2>2
<1> QED BY <1>1, <1>2, <1>6, <1>7, <1>8 DEF r0, p0

\* The rows of a promotion: in each pipeline nothing happens, or the run the
\* batch promoted there becomes the active one, where none was.
LEMMA PromoteRows ==
  ASSUME IndInv, NEW t \in Promoters, PromoteCommit(t), NEW p \in Pipelines
  PROVE  /\ UNCHANGED <<pipelineState, runState, createdAt, clock>>
         /\ \/ ActiveRuns(p)' = ActiveRuns(p) /\ WaitingRuns(p)' = WaitingRuns(p)
            \/ \E q \in promoted[t] :
                 /\ PipelineOf[q] = p /\ runState[q] = "queued"
                 /\ ActiveRuns(p) = {} /\ ActiveRuns(p)' = {q}
                 /\ WaitingRuns(p)' = WaitingRuns(p) \ {q}
<1> t \in Txns BY DEF Txns
<1>1. /\ UNCHANGED <<pipelineState, runState, createdAt, clock>>
      /\ isActive' = (isActive \ released[t]) \cup promoted[t]
  BY DEF PromoteCommit, ActiveView
<1>2. /\ \A r \in released[t] : runState[r] \in terminalRunStates
      /\ \A q \in promoted[t] : runState[q] = "queued" /\ q \notin isActive /\ q \in Runs
  BY DEF IndInv, PendingWrites, TypeOK
<1>3. CASE \A q \in promoted[t] : PipelineOf[q] # p
  <2>1. ActiveRuns(p)' = ActiveRuns(p)
    BY <1>1, <1>2, <1>3 DEF ActiveRuns, ActiveIn, activeRunStates, terminalRunStates
  <2>2. WaitingRuns(p)' = WaitingRuns(p)
    BY <1>1, <1>2, <1>3 DEF WaitingRuns, RunsOf, terminalRunStates
  <2> QED BY <1>1, <2>1, <2>2
<1>4. ASSUME NEW q \in promoted[t], PipelineOf[q] = p
      PROVE  /\ ActiveRuns(p) = {} /\ ActiveRuns(p)' = {q}
             /\ WaitingRuns(p)' = WaitingRuns(p) \ {q}
  <2>1. \A r \in ActiveView(t) : PipelineOf[r] = p /\ runState[r] \in activeRunStates => r = q
    BY <1>2, <1>4 DEF IndInv, OneActiveInView, ActiveView, activeRunStates
  <2>2. ActiveRuns(p) = {}
    BY <1>2, <2>1 DEF ActiveRuns, ActiveIn, ActiveView, activeRunStates, terminalRunStates
  <2>3. ActiveRuns(p)' = {q}
    BY <1>1, <1>2, <1>4, <2>1 DEF ActiveRuns, ActiveIn, ActiveView, activeRunStates
  <2>4. \A r \in promoted[t] : PipelineOf[r] = p => r = q
    BY <1>2, <2>1 DEF ActiveView, activeRunStates
  <2>5. WaitingRuns(p)' = WaitingRuns(p) \ {q}
    BY <1>1, <1>2, <1>4, <2>4 DEF WaitingRuns, RunsOf, terminalRunStates
  <2> QED BY <2>2, <2>3, <2>5
<1> QED BY <1>1, <1>2, <1>3, <1>4

\* The rows of a worker's step: the run was its pipeline's active one, and
\* nobody who waits is touched.
LEMMA WorkerRows ==
  ASSUME IndInv, NEW r \in Runs, StartRun(r) \/ FinishSuccess(r) \/ FinishFailure(r)
  PROVE  /\ UNCHANGED <<pipelineState, createdAt, clock, isActive, request, promoted>>
         /\ ActiveRuns(PipelineOf[r]) = {r}
         /\ \A p \in Pipelines : WaitingRuns(p)' = WaitingRuns(p)
         /\ \A p \in Pipelines \ {PipelineOf[r]} : ActiveRuns(p)' = ActiveRuns(p)
         /\ \A s \in Runs \ {r} : runState'[s] = runState[s]
         /\ \/ /\ runState[r] = "queued" /\ runState'[r] = "running"
               /\ ActiveRuns(PipelineOf[r])' = {r}
            \/ /\ runState'[r] \in terminalRunStates
               /\ ActiveRuns(PipelineOf[r])' = {}
<1>1. r \in isActive /\ runState[r] \in activeRunStates
  BY DEF StartRun, FinishSuccess, FinishFailure, IndInv, JobsMatchRuns
<1>2. /\ UNCHANGED <<pipelineState, createdAt, clock, isActive, request, promoted>>
      /\ \A s \in Runs \ {r} : runState'[s] = runState[s]
      /\ \/ runState[r] = "queued" /\ runState'[r] = "running"
         \/ runState'[r] \in {"succeeded", "failed"}
  BY DEF StartRun, FinishSuccess, FinishFailure, IndInv, TypeOK, txn
<1>3. isActive \subseteq Runs /\ \A s \in isActive :
        PipelineOf[s] = PipelineOf[r] /\ runState[s] \in activeRunStates => s = r
  BY <1>1 DEF IndInv, OneActiveRun, TypeOK
<1>4. ActiveRuns(PipelineOf[r]) = {r}
  BY <1>1, <1>3 DEF ActiveRuns, ActiveIn
<1>5. \A p \in Pipelines : WaitingRuns(p)' = WaitingRuns(p)
  BY <1>1, <1>2 DEF WaitingRuns, RunsOf
<1>6. \A p \in Pipelines \ {PipelineOf[r]} : ActiveRuns(p)' = ActiveRuns(p)
  BY <1>2, <1>3 DEF ActiveRuns, ActiveIn
<1>7. CASE runState[r] = "queued" /\ runState'[r] = "running"
  <2>1. ActiveRuns(PipelineOf[r])' = {r}
    BY <1>1, <1>2, <1>3, <1>7 DEF ActiveRuns, ActiveIn, activeRunStates
  <2> QED BY <1>2, <1>4, <1>5, <1>6, <1>7, <2>1
<1>8. CASE runState'[r] \in {"succeeded", "failed"}
  <2>1. ActiveRuns(PipelineOf[r])' = {}
    BY <1>2, <1>3, <1>8 DEF ActiveRuns, ActiveIn, activeRunStates
  <2> QED BY <1>2, <1>4, <1>5, <1>6, <1>8, <2>1 DEF terminalRunStates
<1> QED BY <1>2, <1>7, <1>8

\* Web requests touch no run.
LEMMA WebRows ==
  ASSUME TypeOK, NEW p \in Pipelines, WebStep(p)
  PROVE  /\ UNCHANGED <<runState, isActive, createdAt, clock, request, promoted>>
         /\ \A o \in Pipelines \ {p} : pipelineState'[o] = pipelineState[o]
         /\ pipelineState'[p] \in {"draft", "enabled", "disabled", "deleted"}
         /\ pipelineState[p] # "deleted"
         /\ ActiveRuns(p) = {} /\ WaitingRuns(p) = {}
<1>1. ASSUME BlockingRuns(p) = {} PROVE ActiveRuns(p) = {} /\ WaitingRuns(p) = {}
  BY <1>1 DEF TypeOK, BlockingRuns, ActiveRuns, ActiveIn, WaitingRuns, RunsOf, activeRunStates
<1>2. ASSUME NEW state \in {"enabled", "disabled"}, SetPipelineState(p, state)
      PROVE  /\ UNCHANGED <<runState, isActive, createdAt, clock, request, promoted>>
             /\ pipelineState[p] # "deleted"
             /\ pipelineState' = [pipelineState EXCEPT ![p] = state]
             /\ ActiveRuns(p) = {} /\ WaitingRuns(p) = {}
  BY <1>1, <1>2 DEF SetPipelineState, txn
<1>3. ASSUME NEW state \in {"draft", "enabled", "disabled"}, NEW g \in Graphs,
             UpdatePipeline(p, state, g)
      PROVE  /\ UNCHANGED <<runState, isActive, createdAt, clock, request, promoted>>
             /\ pipelineState[p] # "deleted"
             /\ pipelineState' = [pipelineState EXCEPT ![p] = state]
             /\ ActiveRuns(p) = {} /\ WaitingRuns(p) = {}
  BY <1>1, <1>3 DEF UpdatePipeline, txn
<1>4. ASSUME DeletePipeline(p)
      PROVE  /\ UNCHANGED <<runState, isActive, createdAt, clock, request, promoted>>
             /\ pipelineState[p] # "deleted"
             /\ pipelineState' = [pipelineState EXCEPT ![p] = "deleted"]
             /\ ActiveRuns(p) = {} /\ WaitingRuns(p) = {}
  <2>1. BlockingRuns(p) = {}
    BY <1>4 DEF DeletePipeline, BlockingRuns, activeRunStates
  <2> QED BY <1>1, <1>4, <2>1 DEF DeletePipeline, txn
<1> QED BY <1>2, <1>3, <1>4 DEF WebStep, TypeOK

\* A request is stamped when it begins, and only then.
LEMMA BeginRows ==
  ASSUME IndInv, NEW t \in Creators, NEW r \in Runs, BeginCreate(t, r)
  PROVE  /\ UNCHANGED <<pipelineState, runState, isActive, promoted>>
         /\ r \notin Stamped
         /\ createdAt'[r] = clock /\ clock' = clock + 1
         /\ \A s \in Runs \ {r} : createdAt'[s] = createdAt[s]
         /\ \A u \in Creators : request'[u] \in {request[u], r}
  BY DEF BeginCreate, Stamped, IndInv, TypeOK, Txns

-----------------------------------------------------------------------------
(* The turns' invariant *)

LEMMA StampsStayDifferent ==
  ASSUME IndInv, StampsDiffer, [Next]_vars
  PROVE  StampsDiffer'
<1> USE ConstantsAssumption
<1>0. createdAt \in [Runs -> Nat] /\ clock \in Nat /\ runState \in [Runs -> RunStates]
  BY DEF IndInv, TypeOK
<1>1. ASSUME UNCHANGED <<createdAt, clock>>, Stamped' \subseteq Stamped PROVE StampsDiffer'
  BY <1>1 DEF StampsDiffer
<1>2. CASE Quiet
  <2>1. Stamped' \subseteq Stamped
    BY <1>2 DEF Quiet, Stamped
  <2> QED BY <1>1, <1>2, <2>1 DEF Quiet
<1>3. ASSUME NEW t \in Creators, NEW r \in Runs, BeginCreate(t, r) PROVE StampsDiffer'
  <2>1. /\ r \notin Stamped /\ createdAt'[r] = clock /\ clock' = clock + 1
        /\ \A s \in Runs \ {r} : createdAt'[s] = createdAt[s]
    BY <1>3, BeginRows
  <2>2. Stamped' \subseteq Stamped \cup {r}
    BY <1>3, BeginRows DEF Stamped
  <2>3. Stamped \subseteq Runs
    BY DEF Stamped
  <2> QED BY <1>0, <2>1, <2>2, <2>3 DEF StampsDiffer
<1>4. ASSUME NEW t \in Creators, NEW next \in SUBSET Runs, Inserts(t, next) PROVE StampsDiffer'
  <2>1. /\ UNCHANGED <<createdAt, clock>> /\ request[t] \in Runs
        /\ \A s \in Runs \ {request[t]} : runState'[s] = runState[s]
    BY <1>0, <1>4, InsertRows
  <2>2. \A u \in Creators : request'[u] \in {request[u], Nobody}
    BY <1>4 DEF Inserts, InsertCommit, EndTxn, IndInv, TypeOK, Txns
  <2>3. Stamped' \subseteq Stamped
    BY <2>1, <2>2 DEF Stamped
  <2> QED BY <1>1, <2>1, <2>3
<1>5. ASSUME NEW t \in Promoters, PromoteOldestQueuedRun(t) /\ ~Rollback(t) PROVE StampsDiffer'
  <2>1. UNCHANGED <<createdAt, clock, runState, request>>
    BY <1>5 DEF PromoteOldestQueuedRun, rows
  <2> QED BY <1>1, <2>1 DEF Stamped
<1>6. ASSUME NEW t \in Promoters, PromoteCommit(t) PROVE StampsDiffer'
  <2>1. UNCHANGED <<createdAt, clock, runState>>
    BY <1>6 DEF PromoteCommit
  <2>2. \A u \in Creators : request'[u] \in {request[u], Nobody}
    BY <1>6 DEF PromoteCommit, EndTxn, IndInv, TypeOK, Txns
  <2>3. Stamped' \subseteq Stamped
    BY <2>1, <2>2 DEF Stamped
  <2> QED BY <1>1, <2>1, <2>3
<1>7. ASSUME NEW p \in Pipelines, WebStep(p) PROVE StampsDiffer'
  BY <1>1, <1>7, WebRows DEF Stamped, IndInv
<1>8. ASSUME NEW r \in Runs, StartRun(r) \/ FinishSuccess(r) \/ FinishFailure(r)
      PROVE  StampsDiffer'
  <2>1. UNCHANGED <<createdAt, clock, request>> /\ \A s \in Runs \ {r} : runState'[s] = runState[s]
    BY <1>8, WorkerRows
  <2>2. runState[r] # "none"
    BY <1>8, WorkerRows DEF ActiveRuns, ActiveIn, activeRunStates
  <2>3. Stamped' \subseteq Stamped
    BY <2>1, <2>2 DEF Stamped
  <2> QED BY <1>1, <2>1, <2>3
<1> QED BY <1>2, <1>3, <1>4, <1>5, <1>6, <1>7, <1>8, StepKinds

\* The oldest waiting run stays the oldest while nobody joins or leaves.
LEMMA StillOldest ==
  ASSUME NEW p \in Pipelines, NEW q \in OldestOf(WaitingRuns(p)),
         WaitingRuns(p)' = WaitingRuns(p),
         \A r \in WaitingRuns(p) : createdAt'[r] = createdAt[r]
  PROVE  q \in OldestOf(WaitingRuns(p))'
  BY DEF OldestOf, Precedes

LEMMA PromotedStayInTurn ==
  ASSUME IndInv, StampsDiffer, PromotedInTurn, [Next]_vars
  PROVE  PromotedInTurn'
<1> USE ConstantsAssumption
<1>0. \A u \in Txns : \A q \in promoted[u] :
        /\ q \in Runs /\ PipelineOf[q] \in Pipelines
        /\ pipelineLock[PipelineOf[q]] = u
        /\ q \in OldestOf(WaitingRuns(PipelineOf[q]))
  BY DEF PromotedInTurn, OldestOf, IndInv, PendingWrites, TypeOK
<1>1. ASSUME NEW u \in Txns, NEW q \in promoted[u],
             WaitingRuns(PipelineOf[q])' = WaitingRuns(PipelineOf[q]),
             \A r \in WaitingRuns(PipelineOf[q]) : createdAt'[r] = createdAt[r]
      PROVE  q \in OldestOf(WaitingRuns(PipelineOf[q]))'
  BY <1>0, <1>1, StillOldest
<1>2. CASE Quiet
  <2>1. \A p \in Pipelines : WaitingRuns(p)' = WaitingRuns(p)
    BY <1>2 DEF Quiet, WaitingRuns
  <2> QED BY <1>0, <1>1, <1>2, <2>1 DEF Quiet, PromotedInTurn, OldestOf
<1>3. ASSUME NEW t \in Creators, NEW r \in Runs, BeginCreate(t, r) PROVE PromotedInTurn'
  <2>1. /\ UNCHANGED <<runState, isActive, promoted>> /\ r \notin Stamped
        /\ \A s \in Runs \ {r} : createdAt'[s] = createdAt[s]
    BY <1>3, BeginRows
  <2>2. \A p \in Pipelines : /\ WaitingRuns(p)' = WaitingRuns(p)
                             /\ \A s \in WaitingRuns(p) : createdAt'[s] = createdAt[s]
    BY <2>1 DEF WaitingRuns, RunsOf, Stamped
  <2> QED BY <1>0, <1>1, <2>1, <2>2 DEF PromotedInTurn, OldestOf
<1>4. ASSUME NEW t \in Creators, NEW next \in SUBSET Runs, Inserts(t, next)
      PROVE  PromotedInTurn'
  <2> SUFFICES ASSUME NEW u \in Txns, NEW q \in promoted'[u]
               PROVE  q \in OldestOf(WaitingRuns(PipelineOf[q]))'
    BY DEF PromotedInTurn, OldestOf
  <2>1. u # t /\ q \in promoted[u]
    BY <1>4 DEF Inserts, InsertCommit, EndTxn, IndInv, TypeOK, Txns
  <2>2. PipelineOf[q] # current[t]
    BY <1>0, <1>4, <2>1, InsertRows
  <2>3. UNCHANGED createdAt /\ WaitingRuns(PipelineOf[q])' = WaitingRuns(PipelineOf[q])
    BY <1>0, <1>4, <2>1, <2>2, InsertRows
  <2> QED BY <1>1, <2>1, <2>3
<1>5. ASSUME NEW t \in Promoters, PromoteOldestQueuedRun(t), ~Rollback(t)
      PROVE  PromotedInTurn'
  <2> DEFINE p == current[t]
  <2> t \in Txns BY DEF Txns
  <2>1. UNCHANGED <<runState, isActive, createdAt>> /\ p \in Pipelines
    BY <1>5 DEF PromoteOldestQueuedRun, rows, IndInv, TxnShape
  <2>2. PICK next : /\ promoted' = [promoted EXCEPT ![t] = @ \cup next]
                    /\ WaitingView(t, p) = {} \/ ActiveIn(ActiveView(t), p) = {}
                    /\ next \in (IF WaitingView(t, p) = {} THEN {{}}
                                 ELSE {{q} : q \in OldestOf(WaitingView(t, p))})
    BY <1>5, Zenon DEF PromoteOldestQueuedRun
  <2>3. \A o \in Pipelines : WaitingRuns(o)' = WaitingRuns(o)
    BY <2>1 DEF WaitingRuns
  <2>4. ASSUME NEW q \in next PROVE PipelineOf[q] = p /\ q \in OldestOf(WaitingRuns(p))
    <3>1. /\ WaitingView(t, p) # {} /\ ActiveIn(ActiveView(t), p) = {}
          /\ q \in OldestOf(WaitingView(t, p))
      BY <2>2, <2>4
    <3>2. /\ \A r \in released[t] : runState[r] \in terminalRunStates
          /\ \A r \in promoted[t] : runState[r] = "queued" /\ PipelineOf[r] # p
      BY <3>1 DEF IndInv, PendingWrites, ActiveIn, ActiveView, activeRunStates
    <3>3. WaitingView(t, p) = WaitingRuns(p)
      BY <3>2 DEF WaitingView, WaitingRuns, ActiveView, RunsOf, terminalRunStates
    <3>4. PipelineOf[q] = p
      BY <3>1 DEF OldestOf, WaitingView, RunsOf
    <3> QED BY <3>1, <3>3, <3>4
  <2> HIDE DEF p
  <2> SUFFICES ASSUME NEW u \in Txns, NEW q \in promoted'[u]
               PROVE  q \in OldestOf(WaitingRuns(PipelineOf[q]))'
    BY DEF PromotedInTurn, OldestOf
  <2>5. CASE q \in promoted[u]
    BY <1>0, <1>1, <2>1, <2>3, <2>5
  <2>6. CASE q \notin promoted[u]
    <3>1. q \in next
      BY <2>2, <2>6 DEF IndInv, TypeOK
    <3>2. PipelineOf[q] = p /\ q \in OldestOf(WaitingRuns(p))
      BY <2>4, <3>1
    <3> QED BY <2>1, <2>3, <3>2, StillOldest
  <2> QED BY <2>5, <2>6
<1>6. ASSUME NEW t \in Promoters, PromoteCommit(t) PROVE PromotedInTurn'
  <2> SUFFICES ASSUME NEW u \in Txns, NEW q \in promoted'[u]
               PROVE  q \in OldestOf(WaitingRuns(PipelineOf[q]))'
    BY DEF PromotedInTurn, OldestOf
  <2>1. u # t /\ q \in promoted[u]
    BY <1>6 DEF PromoteCommit, EndTxn, IndInv, TypeOK, Txns
  <2>2. \A x \in promoted[t] : PipelineOf[x] # PipelineOf[q]
    BY <1>0, <2>1 DEF Txns
  <2>3. UNCHANGED createdAt /\ WaitingRuns(PipelineOf[q])' = WaitingRuns(PipelineOf[q])
    BY <1>0, <1>6, <2>1, <2>2, PromoteRows
  <2> QED BY <1>1, <2>1, <2>3
<1>7. ASSUME NEW p \in Pipelines, WebStep(p) PROVE PromotedInTurn'
  <2>1. UNCHANGED <<runState, isActive, createdAt, promoted>>
    BY <1>7, WebRows DEF IndInv
  <2>2. \A o \in Pipelines : WaitingRuns(o)' = WaitingRuns(o)
    BY <2>1 DEF WaitingRuns
  <2> QED BY <1>0, <1>1, <2>1, <2>2 DEF PromotedInTurn, OldestOf
<1>8. ASSUME NEW r \in Runs, StartRun(r) \/ FinishSuccess(r) \/ FinishFailure(r)
      PROVE  PromotedInTurn'
  <2>1. /\ UNCHANGED <<createdAt, promoted>>
        /\ \A o \in Pipelines : WaitingRuns(o)' = WaitingRuns(o)
    BY <1>8, WorkerRows
  <2> QED BY <1>0, <1>1, <2>1 DEF PromotedInTurn, OldestOf
<1> QED BY <1>2, <1>3, <1>4, <1>5, <1>6, <1>7, <1>8, StepKinds

-----------------------------------------------------------------------------
(* The mapping *)

TurnRecord(r, state) == [id |-> r, state |-> state, cancellationRequested |-> FALSE]

\* What the machine sees of p1: its active run and the line behind it, or the
\* line's head and the rest, or nobody.
MappingShape ==
  /\ Backlog(p1) \in Seq(WaitingRuns(p1))
  /\ \A a \in Runs : ActiveRuns(p1) = {a} =>
       /\ MappedActiveRun(p1) = TurnRecord(a, runState[a])
       /\ MappedBacklog(p1) = Backlog(p1)
  /\ ActiveRuns(p1) = {} /\ Backlog(p1) = <<>> =>
       MappedActiveRun(p1) = Nobody /\ MappedBacklog(p1) = <<>>
  /\ ActiveRuns(p1) = {} /\ Backlog(p1) # <<>> =>
       /\ Head(Backlog(p1)) \in WaitingRuns(p1)
       /\ MappedActiveRun(p1) = TurnRecord(Head(Backlog(p1)), "queued")
       /\ MappedBacklog(p1) = Tail(Backlog(p1))

LEMMA MappingNow == ASSUME BacklogInLine PROVE MappingShape
<1>1. /\ Backlog(p1) \in Seq(WaitingRuns(p1)) /\ Nobody \notin Runs
      /\ \A r \in WaitingRuns(p1) : r \in Runs /\ runState[r] = "queued"
  BY ConstantsAssumption DEF BacklogInLine, InLine, WaitingRuns, RunsOf
<1>2. Backlog(p1) # <<>> => Head(Backlog(p1)) \in WaitingRuns(p1)
  BY <1>1
<1> QED BY <1>1, <1>2 DEF MappingShape, MappedActiveRun, MappedBacklog, RunInTurn, TurnRecord

LEMMA MappingNext == ASSUME BacklogInLine' PROVE MappingShape'
<1>1. /\ Backlog(p1)' \in Seq(WaitingRuns(p1)') /\ Nobody \notin Runs
      /\ \A r \in WaitingRuns(p1)' : r \in Runs /\ runState'[r] = "queued"
  BY ConstantsAssumption DEF BacklogInLine, InLine, WaitingRuns, RunsOf
<1>2. Backlog(p1)' # <<>> => Head(Backlog(p1)') \in WaitingRuns(p1)'
  BY <1>1
<1> QED BY <1>1, <1>2 DEF MappingShape, MappedActiveRun, MappedBacklog, RunInTurn, TurnRecord

\* A run of p1 in turn is not "no run".
LEMMA TurnIsSomebody ==
  ASSUME NEW r \in RunsOf(p1), NEW state \in {"queued", "running"}
  PROVE  TurnRecord(r, state) # Nobody
<1>1. TurnRecord(r, state) \in Machine!ActivePipelineRun
  BY DEF Machine!ActivePipelineRun, TurnRecord
<1> QED BY <1>1, MappingAssumption

\* At most one run of p1 is active.
LEMMA OneInTurn ==
  ASSUME IndInv
  PROVE  ActiveRuns(p1) = {} \/ \E a \in RunsOf(p1) :
           ActiveRuns(p1) = {a} /\ runState[a] \in activeRunStates
  BY DEF IndInv, OneActiveRun, TypeOK, ActiveRuns, ActiveIn, RunsOf

\* Nothing that p1's turn depends on has changed.
LEMMA SameTurn ==
  ASSUME IndInv, TypeOK', StampsDiffer', BacklogInLine,
         WaitingRuns(p1)' = WaitingRuns(p1), ActiveRuns(p1)' = ActiveRuns(p1),
         \A r \in WaitingRuns(p1) : createdAt'[r] = createdAt[r],
         \A r \in ActiveRuns(p1) : runState'[r] = runState[r],
         pipelineState'[p1] = pipelineState[p1]
  PROVE  BacklogInLine' /\ UNCHANGED Machine!vars
<1>1. InLine(Backlog(p1), WaitingRuns(p1)', Ahead')
  <2>1. \A r, x \in WaitingRuns(p1) : r \in Ahead[x] => r \in Ahead'[x]
    BY DEF Ahead, Precedes, WaitingRuns, RunsOf
  <2> QED BY <2>1, SameLine DEF BacklogInLine
<1>2. Backlog(p1)' = Backlog(p1) /\ BacklogInLine'
  BY <1>1, NewBacklog
<1>3. MappingShape /\ MappingShape'
  BY <1>2, MappingNow, MappingNext
<1>4. MappedActiveRun(p1)' = MappedActiveRun(p1) /\ MappedBacklog(p1)' = MappedBacklog(p1)
  <2>1. CASE ActiveRuns(p1) = {}
    BY <1>2, <1>3, <2>1 DEF MappingShape
  <2>2. ASSUME NEW a \in RunsOf(p1), ActiveRuns(p1) = {a}
        PROVE  MappedActiveRun(p1)' = MappedActiveRun(p1) /\ MappedBacklog(p1)' = MappedBacklog(p1)
    BY <1>2, <1>3, <2>2 DEF MappingShape, RunsOf
  <2> QED BY <2>1, <2>2, OneInTurn
<1>5. MappedState(p1)' = MappedState(p1)
  BY DEF MappedState
<1> QED BY <1>2, <1>4, <1>5 DEF Machine!vars

-----------------------------------------------------------------------------
(* The queue implements the domain's state machine *)

\* A step the machine allows for p1, the insertion of an overtaken request, or
\* no step of the machine at all.
Simulated == Machine!Next \/ Overtaken \/ UNCHANGED Machine!vars

\* A request that p1 has no turn for yet becomes its active run.
LEMMA FirstInsert ==
  ASSUME IndInv, IndInv', StampsDiffer', BacklogInLine,
         NEW t \in Creators, Inserts(t, {request[t]}), current[t] = p1,
         ActiveRuns(p1) = {}, WaitingRuns(p1) = {}
  PROVE  BacklogInLine' /\ Simulated
<1> DEFINE r0 == request[t]
<1>1. {request[t]} \in SUBSET Runs
  BY DEF Inserts, IndInv, TxnShape
<1>2. /\ r0 \in RunsOf(p1) /\ r0 \in Runs /\ pipelineState[p1] = "enabled"
      /\ UNCHANGED pipelineState /\ runState'[r0] = "queued"
      /\ ActiveRuns(p1)' = {r0} /\ WaitingRuns(p1)' = {}
  BY <1>1, InsertRows, MappingAssumption DEF RunsOf, IndInv, TypeOK
<1> HIDE DEF r0
<1>3. Backlog(p1) = <<>>
  BY DEF BacklogInLine, InLine
<1>4. Backlog(p1)' = <<>> /\ BacklogInLine'
  BY <1>2, EmptyLine, NewBacklog DEF IndInv
<1>5. MappingShape /\ MappingShape'
  BY <1>4, MappingNow, MappingNext
<1>6. /\ MappedActiveRun(p1) = Nobody /\ MappedBacklog(p1) = <<>>
      /\ MappedActiveRun(p1)' = TurnRecord(r0, "queued") /\ MappedBacklog(p1)' = <<>>
  BY <1>2, <1>3, <1>4, <1>5 DEF MappingShape
<1>7. MappedState(p1) = "enabled" /\ MappedState(p1)' = MappedState(p1)
  BY <1>2 DEF MappedState
<1>8. Machine!enqueuePipelineRun(r0)
  BY <1>6, <1>7 DEF Machine!enqueuePipelineRun, Machine!containsRun, Machine!QueuedIds,
                    Machine!QueuedActive, TurnRecord
<1> QED BY <1>2, <1>4, <1>8 DEF Simulated, Machine!Next

\* A request joins the line behind p1's run in turn: at the end of the machine's
\* backlog, or ahead of a run that it precedes.
LEMMA JoinBacklog ==
  ASSUME IndInv, IndInv', StampsDiffer, StampsDiffer',
         NEW t \in Creators, NEW next \in SUBSET Runs, Inserts(t, next), current[t] = p1,
         NEW a \in RunsOf(p1), NEW state \in {"queued", "running"}, NEW W, NEW z,
         W \subseteq WaitingRuns(p1), InLine(z, W, Ahead),
         MappedActiveRun(p1) = TurnRecord(a, state), MappedBacklog(p1) = z,
         ActiveRuns(p1)' = {a}, runState'[a] = state, a # request[t],
         WaitingRuns(p1)' = W \cup {request[t]}
  PROVE  BacklogInLine' /\ Simulated
<1> DEFINE r0 == request[t]
<1>1. /\ r0 \in RunsOf(p1) /\ r0 \in Runs /\ pipelineState[p1] = "enabled"
      /\ UNCHANGED <<pipelineState, createdAt>> /\ runState[r0] = "none" /\ pc[t] = "insert"
  BY InsertRows DEF Inserts, RunsOf
<1>2. W \cup {r0} \subseteq Stamped /\ r0 \notin W
  BY <1>1 DEF Stamped, WaitingRuns, RunsOf
<1>3. Ahead' = Ahead
  BY <1>1 DEF Ahead, Precedes
<1>4. Ordered(Stamped, Ahead)
  BY OrderNow DEF IndInv
<1>5. MappedState(p1) = "enabled" /\ MappedState(p1)' = MappedState(p1)
  BY <1>1 DEF MappedState
<1>6. TurnRecord(a, state) # Nobody
  BY TurnIsSomebody
<1> HIDE DEF r0
<1>7. ASSUME NEW y, InLine(y, W \cup {r0}, Ahead)
      PROVE  /\ BacklogInLine'
             /\ MappedActiveRun(p1)' = MappedActiveRun(p1) /\ MappedBacklog(p1)' = y
  <2>1. InLine(y, WaitingRuns(p1)', Ahead')
    BY <1>3, <1>7 DEF r0
  <2>2. Backlog(p1)' = y /\ BacklogInLine'
    BY <2>1, NewBacklog DEF IndInv
  <2> QED BY <2>2, MappingNext DEF MappingShape, RunsOf
<1>8. CASE \A r \in W : r \in Ahead[r0]
  <2>1. /\ BacklogInLine'
        /\ MappedActiveRun(p1)' = MappedActiveRun(p1) /\ MappedBacklog(p1)' = Append(z, r0)
    BY <1>7, <1>8, JoinAtEnd
  <2>2. \A i \in DOMAIN z : z[i] # r0
    BY <1>2 DEF InLine
  <2>3. ~Machine!containsRun(r0)
    BY <2>2 DEF Machine!containsRun, Machine!QueuedIds, TurnRecord, r0
  <2>4. Machine!enqueuePipelineRun(r0)
    BY <1>5, <1>6, <2>1, <2>3 DEF Machine!enqueuePipelineRun
  <2> QED BY <1>1, <2>1, <2>4 DEF Simulated, Machine!Next
<1>9. CASE \E r \in W : r \notin Ahead[r0]
  <2>1. \A r \in W : r \in Ahead[r0] \/ r0 \in Ahead[r]
    BY <1>2, <1>4 DEF Ordered
  <2>2. \A r, x \in W : r0 \in Ahead[r] /\ r \in Ahead[x] => r0 \in Ahead[x]
    BY <1>2, <1>4 DEF Ordered
  <2>3. PICK i \in 1..Len(z) :
          r0 \in Ahead[z[i]] /\ InLine(InsertAt(z, i, r0), W \cup {r0}, Ahead)
    BY <1>9, <2>1, <2>2, JoinAhead
  <2>4. /\ BacklogInLine' /\ MappedActiveRun(p1)' = MappedActiveRun(p1)
        /\ MappedBacklog(p1)' = InsertAt(z, i, r0)
    BY <1>7, <2>3
  <2>5. i \in DOMAIN z /\ z[i] \in W
    BY <2>3 DEF InLine
  <2>6. Precedes(r0, z[i])
    BY <2>3, <2>5, <1>2 DEF Ahead, Stamped
  <2>7. Overtaken
    BY <1>1, <1>5, <2>4, <2>5, <2>6 DEF Overtaken, r0
  <2> QED BY <2>4, <2>7 DEF Simulated
<1> QED BY <1>8, <1>9

\* Every insertion.
LEMMA InsertSimulated ==
  ASSUME IndInv, IndInv', StampsDiffer, StampsDiffer', BacklogInLine,
         NEW t \in Creators, NEW next \in SUBSET Runs, Inserts(t, next)
  PROVE  BacklogInLine' /\ Simulated
<1>1. /\ request[t] \in Runs /\ runState[request[t]] = "none"
      /\ UNCHANGED <<pipelineState, createdAt>>
      /\ runState' = [runState EXCEPT ![request[t]] = "queued"]
      /\ p1 = current[t] => /\ ActiveRuns(p1)' = ActiveRuns(p1) \cup next
                            /\ WaitingRuns(p1)' = (WaitingRuns(p1) \cup {request[t]}) \ next
      /\ p1 # current[t] => /\ ActiveRuns(p1)' = ActiveRuns(p1)
                            /\ WaitingRuns(p1)' = WaitingRuns(p1)
  BY InsertRows, MappingAssumption
<1>2. \A r \in Runs \ {request[t]} : runState'[r] = runState[r]
  BY <1>1 DEF IndInv, TypeOK
<1>3. \A r \in ActiveRuns(p1) \cup WaitingRuns(p1) : r \in Runs /\ r # request[t]
  BY <1>1 DEF ActiveRuns, ActiveIn, WaitingRuns, RunsOf, activeRunStates, IndInv, TypeOK
<1>4. CASE p1 # current[t]
  BY <1>1, <1>2, <1>3, <1>4, SameTurn DEF Simulated, IndInv
<1>5. CASE p1 = current[t] /\ ActiveRuns(p1) # {} /\ next = {}
  <2>1. PICK a \in RunsOf(p1) : ActiveRuns(p1) = {a} /\ runState[a] \in activeRunStates
    BY <1>5, OneInTurn
  <2>2. /\ a # request[t] /\ runState'[a] = runState[a] /\ ActiveRuns(p1)' = {a}
        /\ WaitingRuns(p1)' = WaitingRuns(p1) \cup {request[t]}
    BY <1>1, <1>2, <1>3, <1>5, <2>1
  <2>3. MappedActiveRun(p1) = TurnRecord(a, runState[a]) /\ MappedBacklog(p1) = Backlog(p1)
    BY <2>1, MappingNow DEF MappingShape, RunsOf
  <2>4. runState[a] \in {"queued", "running"}
    BY <2>1 DEF activeRunStates
  <2> HIDE DEF Simulated
  <2> QED BY <1>5, <2>1, <2>2, <2>3, <2>4, JoinBacklog DEF BacklogInLine
<1>6. CASE p1 = current[t] /\ ActiveRuns(p1) = {} /\ WaitingRuns(p1) = {} /\ next = {request[t]}
  BY <1>6, FirstInsert
<1>7. ASSUME p1 = current[t], ActiveRuns(p1) = {},
             NEW q \in OldestOf(WaitingRuns(p1)), next = {q}
      PROVE  BacklogInLine' /\ Simulated
  <2> DEFINE s == Backlog(p1)
             W == WaitingRuns(p1) \ {q}
  <2>1. q \in WaitingRuns(p1) /\ q \in RunsOf(p1) /\ q # request[t] /\ runState'[q] = "queued"
    BY <1>2, <1>3, <1>7 DEF OldestOf, WaitingRuns, RunsOf
  <2>2. \A r \in WaitingRuns(p1) \ {q} : q \in Ahead[r]
    BY <1>7 DEF OldestOf, Ahead, WaitingRuns, RunsOf
  <2>3. Asymmetric(WaitingRuns(p1), Ahead)
    BY OrderNow DEF IndInv, Ordered, Asymmetric, Stamped, WaitingRuns, RunsOf
  <2>4. s # <<>> /\ Head(s) = q
    BY <2>1, <2>2, <2>3, HeadOfLine DEF BacklogInLine
  <2>5. InLine(Tail(s), W, Ahead)
    BY <2>3, <2>4, TailOfLine DEF BacklogInLine
  <2>6. MappedActiveRun(p1) = TurnRecord(q, "queued") /\ MappedBacklog(p1) = Tail(s)
    BY <1>7, <2>4, MappingNow DEF MappingShape
  <2>7. ActiveRuns(p1)' = {q} /\ WaitingRuns(p1)' = W \cup {request[t]}
    BY <1>1, <1>7, <2>1
  <2>8. W \subseteq WaitingRuns(p1) /\ "queued" \in {"queued", "running"}
    OBVIOUS
  <2> HIDE DEF s, W, Simulated
  <2> QED BY <1>7, <2>1, <2>5, <2>6, <2>7, <2>8, JoinBacklog
<1> QED BY <1>4, <1>5, <1>6, <1>7 DEF Inserts

\* A promotion makes the run whose turn it was the active one: the machine
\* does not move.
LEMMA PromotionSimulated ==
  ASSUME IndInv, IndInv', StampsDiffer, StampsDiffer', PromotedInTurn, BacklogInLine,
         NEW t \in Promoters, PromoteCommit(t)
  PROVE  BacklogInLine' /\ Simulated
<1>1. UNCHANGED <<pipelineState, runState, createdAt>>
  BY PromoteRows, MappingAssumption
<1>2. CASE ActiveRuns(p1)' = ActiveRuns(p1) /\ WaitingRuns(p1)' = WaitingRuns(p1)
  BY <1>1, <1>2, SameTurn DEF Simulated, IndInv
<1>3. ASSUME NEW q \in promoted[t], PipelineOf[q] = p1, runState[q] = "queued",
             ActiveRuns(p1) = {}, ActiveRuns(p1)' = {q},
             WaitingRuns(p1)' = WaitingRuns(p1) \ {q}
      PROVE  BacklogInLine' /\ Simulated
  <2> DEFINE s == Backlog(p1)
  <2>1. q \in OldestOf(WaitingRuns(p1))
    BY <1>3 DEF PromotedInTurn, OldestOf, Txns
  <2>2. q \in WaitingRuns(p1) /\ q \in Runs /\ \A r \in WaitingRuns(p1) \ {q} : q \in Ahead[r]
    BY <2>1 DEF OldestOf, Ahead, WaitingRuns, RunsOf
  <2>3. Asymmetric(WaitingRuns(p1), Ahead)
    BY OrderNow DEF IndInv, Ordered, Asymmetric, Stamped, WaitingRuns, RunsOf
  <2>4. s # <<>> /\ Head(s) = q
    BY <2>2, <2>3, HeadOfLine DEF BacklogInLine
  <2>5. Ahead' = Ahead
    BY <1>1 DEF Ahead, Precedes
  <2>6. InLine(Tail(s), WaitingRuns(p1)', Ahead')
    BY <1>3, <2>3, <2>4, <2>5, TailOfLine DEF BacklogInLine
  <2>7. Backlog(p1)' = Tail(s) /\ BacklogInLine'
    BY <2>6, NewBacklog DEF IndInv
  <2>8. MappedActiveRun(p1) = TurnRecord(q, "queued") /\ MappedBacklog(p1) = Tail(s)
    BY <1>3, <2>4, MappingNow DEF MappingShape
  <2>9. MappedActiveRun(p1)' = TurnRecord(q, "queued") /\ MappedBacklog(p1)' = Tail(s)
    BY <1>1, <1>3, <2>2, <2>7, MappingNext DEF MappingShape
  <2> QED BY <1>1, <2>7, <2>8, <2>9 DEF Simulated, Machine!vars, MappedState
<1> QED BY <1>2, <1>3, PromoteRows, MappingAssumption

\* Starting changes the state of the run in turn and nothing else.
LEMMA RecordStarts ==
  ASSUME NEW r, NEW x, x = TurnRecord(r, "queued")
  PROVE  [x EXCEPT !.state = "running"] = TurnRecord(r, "running")
<1>1. PICK y : y = [x EXCEPT !.state = "running"]
  OBVIOUS
<1>2. y = TurnRecord(r, "running")
  BY <1>1 DEF TurnRecord
<1> QED BY <1>1, <1>2, Zenon

\* A worker starts the run in turn, or ends it and so hands the turn over.
LEMMA WorkerSimulated ==
  ASSUME IndInv, IndInv', StampsDiffer, StampsDiffer', BacklogInLine, NEW r \in Runs,
         StartRun(r) \/ FinishSuccess(r) \/ FinishFailure(r)
  PROVE  BacklogInLine' /\ Simulated
<1>1. /\ UNCHANGED <<pipelineState, createdAt>>
      /\ WaitingRuns(p1)' = WaitingRuns(p1)
      /\ \A s \in Runs \ {r} : runState'[s] = runState[s]
  BY WorkerRows, MappingAssumption
<1>2. CASE PipelineOf[r] # p1
  <2>1. ActiveRuns(p1)' = ActiveRuns(p1) /\ \A s \in ActiveRuns(p1) : s \in Runs /\ s # r
    BY <1>2, WorkerRows, MappingAssumption DEF ActiveRuns, ActiveIn, IndInv, TypeOK
  <2> QED BY <1>1, <2>1, SameTurn DEF Simulated, IndInv
<1>3. CASE PipelineOf[r] = p1
  <2>1. r \in RunsOf(p1) /\ ActiveRuns(p1) = {r} /\ runState[r] \in {"queued", "running"}
    BY <1>3, WorkerRows DEF RunsOf, ActiveRuns, ActiveIn, activeRunStates
  <2>2. Ahead' = Ahead
    BY <1>1 DEF Ahead, Precedes
  <2>3. Backlog(p1)' = Backlog(p1) /\ BacklogInLine'
    BY <1>1, <2>2, NewBacklog DEF BacklogInLine, IndInv
  <2>4. MappingShape /\ MappingShape'
    BY <2>3, MappingNow, MappingNext
  <2>5. MappedActiveRun(p1) = TurnRecord(r, runState[r]) /\ MappedBacklog(p1) = Backlog(p1)
    BY <2>1, <2>4 DEF MappingShape
  <2>6. MappedState(p1)' = MappedState(p1) /\ MappedActiveRun(p1) # Nobody
    BY <1>1, <2>1, <2>5, TurnIsSomebody DEF MappedState
  <2>7. CASE runState[r] = "queued" /\ runState'[r] = "running" /\ ActiveRuns(p1)' = {r}
    <3>1. MappedActiveRun(p1)' = TurnRecord(r, "running") /\ MappedBacklog(p1)' = Backlog(p1)
      BY <2>3, <2>4, <2>7 DEF MappingShape
    <3>2. /\ TurnRecord(r, "queued").state = "queued"
          /\ ~TurnRecord(r, "queued").cancellationRequested
          /\ [TurnRecord(r, "queued") EXCEPT !.state = "running"] = TurnRecord(r, "running")
      <4>1. TurnRecord(r, "queued").state = "queued"
        BY DEF TurnRecord
      <4>2. TurnRecord(r, "queued").cancellationRequested = FALSE
        BY DEF TurnRecord
      <4> QED BY <4>1, <4>2, RecordStarts
    <3>3. Machine!startActiveRun
      BY <2>5, <2>6, <2>7, <3>1, <3>2 DEF Machine!startActiveRun
    <3> QED BY <2>3, <3>3 DEF Simulated, Machine!Next
  <2>8. CASE ActiveRuns(p1)' = {}
    <3>1. CASE Backlog(p1) = <<>>
      <4>1. MappedActiveRun(p1)' = Nobody /\ MappedBacklog(p1)' = <<>>
        BY <2>3, <2>4, <2>8, <3>1 DEF MappingShape
      <4>2. Machine!completeActiveRun
        BY <2>5, <2>6, <3>1, <4>1 DEF Machine!completeActiveRun
      <4> QED BY <2>3, <4>2 DEF Simulated, Machine!Next
    <3>2. CASE Backlog(p1) # <<>>
      <4>1. /\ MappedActiveRun(p1)' = TurnRecord(Head(Backlog(p1)), "queued")
            /\ MappedBacklog(p1)' = Tail(Backlog(p1))
        BY <2>3, <2>4, <2>8, <3>2 DEF MappingShape
      <4>2. Machine!completeActiveRun
        BY <2>5, <2>6, <3>2, <4>1
           DEF Machine!completeActiveRun, Machine!QueuedActive, TurnRecord
      <4> QED BY <2>3, <4>2 DEF Simulated, Machine!Next
    <3> QED BY <3>1, <3>2
  <2> QED BY <1>3, <2>7, <2>8, WorkerRows
<1> QED BY <1>2, <1>3

\* A web request changes the availability of an idle pipeline.
LEMMA WebSimulated ==
  ASSUME IndInv, IndInv', StampsDiffer, StampsDiffer', BacklogInLine,
         NEW p \in Pipelines, WebStep(p)
  PROVE  BacklogInLine' /\ Simulated
<1>1. /\ UNCHANGED <<runState, isActive, createdAt>>
      /\ p # p1 => pipelineState'[p1] = pipelineState[p1]
      /\ p = p1 => /\ pipelineState'[p1] \in {"draft", "enabled", "disabled", "deleted"}
                   /\ ActiveRuns(p1) = {} /\ WaitingRuns(p1) = {}
  BY WebRows, MappingAssumption DEF IndInv
<1>2. ActiveRuns(p1)' = ActiveRuns(p1) /\ WaitingRuns(p1)' = WaitingRuns(p1) /\ Ahead' = Ahead
  BY <1>1 DEF ActiveRuns, ActiveIn, WaitingRuns, Ahead, Precedes
<1>3. CASE p # p1
  BY <1>1, <1>2, <1>3, SameTurn DEF Simulated, IndInv
<1>4. CASE p = p1
  <2>1. Backlog(p1) = <<>>
    BY <1>1, <1>4 DEF BacklogInLine, InLine
  <2>2. Backlog(p1)' = <<>> /\ BacklogInLine'
    BY <1>2, <2>1, NewBacklog DEF BacklogInLine, IndInv
  <2>3. /\ MappedActiveRun(p1) = Nobody /\ MappedBacklog(p1) = <<>>
        /\ MappedActiveRun(p1)' = Nobody /\ MappedBacklog(p1)' = <<>>
    BY <1>1, <1>2, <1>4, <2>1, <2>2, MappingNow, MappingNext DEF MappingShape
  <2>4. MappedState(p1)' \in Machine!PipelineStates
    BY <1>1, <1>4 DEF MappedState, Machine!PipelineStates
  <2>5. Machine!setPipelineState(MappedState(p1)')
    BY <2>3 DEF Machine!setPipelineState, Machine!isPipelineEditable
  <2>6. \E state \in Machine!PipelineStates : Machine!setPipelineState(state)
    BY <2>4, <2>5
  <2> QED BY <2>2, <2>6 DEF Simulated, Machine!Next
<1> QED BY <1>3, <1>4

\* Every step.
LEMMA StepSimulated ==
  ASSUME IndInv, TurnsInOrder, [Next]_vars
  PROVE  TurnsInOrder' /\ Simulated
<1>1. IndInv' /\ StampsDiffer' /\ PromotedInTurn'
  BY NextInv, StampsStayDifferent, PromotedStayInTurn DEF TurnsInOrder
<1>2. StampsDiffer /\ PromotedInTurn /\ BacklogInLine
  BY DEF TurnsInOrder
<1>3. CASE Quiet \/ \E t \in Promoters : PromoteOldestQueuedRun(t) /\ ~Rollback(t)
  <2>1. UNCHANGED <<pipelineState, runState, isActive, createdAt>>
    BY <1>3 DEF Quiet, PromoteOldestQueuedRun, rows
  <2>2. ActiveRuns(p1)' = ActiveRuns(p1) /\ WaitingRuns(p1)' = WaitingRuns(p1)
    BY <2>1 DEF ActiveRuns, ActiveIn, WaitingRuns
  <2>3. BacklogInLine' /\ UNCHANGED Machine!vars
    BY <1>1, <1>2, <2>1, <2>2, SameTurn DEF IndInv
  <2> QED BY <1>1, <2>3 DEF Simulated, TurnsInOrder
<1>4. ASSUME NEW t \in Creators, NEW r \in Runs, BeginCreate(t, r) PROVE TurnsInOrder' /\ Simulated
  <2>1. /\ UNCHANGED <<pipelineState, runState, isActive>> /\ r \notin Stamped
        /\ \A s \in Runs \ {r} : createdAt'[s] = createdAt[s]
    BY <1>4, BeginRows
  <2>2. ActiveRuns(p1)' = ActiveRuns(p1) /\ WaitingRuns(p1)' = WaitingRuns(p1)
    BY <2>1 DEF ActiveRuns, ActiveIn, WaitingRuns
  <2>3. \A s \in WaitingRuns(p1) : createdAt'[s] = createdAt[s]
    BY <2>1 DEF WaitingRuns, RunsOf, Stamped
  <2>4. BacklogInLine' /\ UNCHANGED Machine!vars
    BY <1>1, <1>2, <2>1, <2>2, <2>3, SameTurn DEF IndInv
  <2> QED BY <1>1, <2>4 DEF Simulated, TurnsInOrder
<1>5. ASSUME NEW t \in Creators, NEW next \in SUBSET Runs, Inserts(t, next)
      PROVE  TurnsInOrder' /\ Simulated
  BY <1>1, <1>2, <1>5, InsertSimulated DEF TurnsInOrder
<1>6. ASSUME NEW t \in Promoters, PromoteCommit(t) PROVE TurnsInOrder' /\ Simulated
  BY <1>1, <1>2, <1>6, PromotionSimulated DEF TurnsInOrder
<1>7. ASSUME NEW p \in Pipelines, WebStep(p) PROVE TurnsInOrder' /\ Simulated
  BY <1>1, <1>2, <1>7, WebSimulated DEF TurnsInOrder
<1>8. ASSUME NEW r \in Runs, StartRun(r) \/ FinishSuccess(r) \/ FinishFailure(r)
      PROVE  TurnsInOrder' /\ Simulated
  BY <1>1, <1>2, <1>8, WorkerSimulated DEF TurnsInOrder
<1> QED BY <1>3, <1>4, <1>5, <1>6, <1>7, <1>8, StepKinds

\* At first nobody waits and the machine is idle.
LEMMA StartsIdle == Init => TurnsInOrder /\ Machine!Init
<1> SUFFICES ASSUME Init PROVE TurnsInOrder /\ Machine!Init
  OBVIOUS
<1> USE ConstantsAssumption, MappingAssumption
<1>1. Stamped = {} /\ WaitingRuns(p1) = {} /\ ActiveRuns(p1) = {}
  <2>1. runState = [r \in Runs |-> "none"] /\ isActive = {} /\ request = [t \in Txns |-> Nobody]
    BY DEF Init
  <2>2. Stamped = {}
    BY <2>1 DEF Stamped, Txns
  <2>3. WaitingRuns(p1) = {} /\ ActiveRuns(p1) = {}
    BY <2>1 DEF WaitingRuns, ActiveRuns, ActiveIn, RunsOf
  <2> QED BY <2>2, <2>3
<1>2. StampsDiffer /\ PromotedInTurn
  BY <1>1 DEF Init, StampsDiffer, PromotedInTurn
<1>3. Backlog(p1) = <<>> /\ BacklogInLine
  <2>1. Asymmetric(WaitingRuns(p1), Ahead) /\ InLine(<<>>, WaitingRuns(p1), Ahead)
    BY <1>1, EmptyLine DEF Asymmetric
  <2> QED BY <2>1, LineOfIs DEF Backlog, BacklogInLine
<1>4. MappedActiveRun(p1) = Nobody /\ MappedBacklog(p1) = <<>>
  BY <1>1, <1>3, MappingNow DEF MappingShape
<1>5. MappedState(p1) = "draft"
  BY DEF Init, MappedState
<1> QED BY <1>2, <1>3, <1>4, <1>5 DEF TurnsInOrder, Machine!Init, Machine!PipelineStates

\* At every moment the waiting runs are one line and a promotion under way has its
\* head.
THEOREM TurnsStayInOrder == Spec => []TurnsInOrder
<1>1. Init => IndInv /\ TurnsInOrder
  BY InitInv, StartsIdle
<1>2. IndInv /\ TurnsInOrder /\ [Next]_vars => IndInv' /\ TurnsInOrder'
  BY NextInv, StepSimulated
<1> QED BY <1>1, <1>2, PTL DEF Spec

\* The invariant the run checks, for any number of pipelines, runs, creators and
\* promoters: one run at a time, the others in one line, and what the
\* transactions rest on (createPipelineRun, promoteOldestQueuedRun).
THEOREM RunQueueSafe == Spec => []RunQueueInvariant
  BY QueueInvariant, PipelineRunsOneAtATime, TurnsStayInOrder, PTL DEF RunQueueInvariant

\* Whatever is scheduled and however creators, promoters, workers and users
\* interleave, the rows of a pipeline go through the steps of the domain's state
\* machine, apart from requests that were overtaken.
THEOREM QueueImplementsStateMachine == Spec => ImplementsStateMachine
<1>1. Init => IndInv /\ TurnsInOrder /\ Machine!Init
  BY InitInv, StartsIdle
<1>2. IndInv /\ TurnsInOrder /\ [Next]_vars =>
        IndInv' /\ TurnsInOrder' /\ [Machine!Next \/ Overtaken]_(Machine!vars)
  BY NextInv, StepSimulated DEF Simulated
<1> QED BY <1>1, <1>2, PTL DEF Spec, ImplementsStateMachine
=============================================================================

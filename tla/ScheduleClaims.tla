--------------------------- MODULE ScheduleClaims ---------------------------
(***************************************************************************)
(* Scheduler instances that claim due cron occurrences                     *)
(* (apps/scheduler/src/schedule-claims.ts) while operators enable and      *)
(* disable pipelines.                                                      *)
(*                                                                         *)
(* One pass is one transaction: it locks the due trigger rows and, because *)
(* FOR UPDATE names no table, the joined pipeline rows too, skipping rows  *)
(* somebody else has locked; then it advances every trigger by one         *)
(* occurrence and creates its run.  Nothing is visible before the commit.  *)
(* Cron occurrences are the naturals 1, 2, ...                             *)
(***************************************************************************)
EXTENDS Naturals, FiniteSets

CONSTANTS
  Schedulers, Nobody,
  Triggers,    \* enabled schedule triggers, as naturals: the row ids
  Pipelines,
  PipelineOf,
  Limit,       \* limit of one pass
  MaxTime,     \* bound: the clock
  MaxToggles,  \* bound: changes of a pipeline's state
  MaxClaimFaults    \* bound: transactions that fail

ASSUME ScheduleAssumption ==
  /\ Nobody \notin Schedulers
  /\ Triggers \subseteq Nat
  /\ PipelineOf \in [Triggers -> Pipelines]
  /\ Limit \in Nat \ {0}
  /\ MaxTime \in Nat /\ MaxToggles \in Nat /\ MaxClaimFaults \in Nat

VARIABLES
  clock,
  enabled,    \* pipelines in state 'enabled'
  nextRunAt,  \* committed pipeline_triggers.next_run_at
  runs,       \* committed number of runs of a trigger's occurrence
  lock,       \* who has locked a pipeline row (its due triggers with it)
  trigLock,   \* who has locked a trigger row
  due,        \* triggers a pass has selected and not yet handled
  claimed,    \* occurrences a pass has advanced past, uncommitted
  toggles, claimFaults

scheduleVars == <<clock, enabled, nextRunAt, runs, lock, trigLock, due, claimed, toggles, claimFaults>>
rowVars == <<enabled, nextRunAt, runs>>
lockVars == <<lock, trigLock>>

Occurrences == 1..MaxTime
Idle(s) == due[s] = {} /\ claimed[s] = {}

ScheduleTypeOK ==
  /\ clock \in 0..MaxTime
  /\ enabled \subseteq Pipelines
  /\ nextRunAt \in [Triggers -> 1..(MaxTime + 1)]
  /\ runs \in [Triggers -> [Occurrences -> Nat]]
  /\ lock \in [Pipelines -> Schedulers \cup {Nobody}]
  /\ trigLock \in [Triggers -> Schedulers \cup {Nobody}]
  /\ due \in [Schedulers -> SUBSET Triggers]
  /\ claimed \in [Schedulers -> SUBSET (Triggers \X Occurrences)]
  /\ toggles \in 0..MaxToggles /\ claimFaults \in 0..MaxClaimFaults

ScheduleInit ==
  /\ clock = 0
  /\ enabled = Pipelines
  /\ nextRunAt = [t \in Triggers |-> 1]
  /\ runs = [t \in Triggers |-> [o \in Occurrences |-> 0]]
  /\ lock = [p \in Pipelines |-> Nobody]
  /\ trigLock = [t \in Triggers |-> Nobody]
  /\ due = [s \in Schedulers |-> {}]
  /\ claimed = [s \in Schedulers |-> {}]
  /\ toggles = 0 /\ claimFaults = 0

Tick ==
  /\ clock < MaxTime
  /\ clock' = clock + 1
  /\ UNCHANGED <<rowVars, lockVars, due, claimed, toggles, claimFaults>>

\* enablePipelineForOwner and disablePipelineForOwner lock the pipeline row.
Toggle(p) ==
  /\ toggles < MaxToggles /\ lock[p] = Nobody
  /\ toggles' = toggles + 1
  /\ enabled' = IF p \in enabled THEN enabled \ {p} ELSE enabled \cup {p}
  /\ UNCHANGED <<clock, nextRunAt, runs, lockVars, due, claimed, claimFaults>>

-----------------------------------------------------------------------------
(* claimDueSchedules *)

\* The rows of a due schedule are not locked by another transaction.
Free(t) == trigLock[t] = Nobody /\ lock[PipelineOf[t]] = Nobody

\* Faulty: an occurrence is due only once its time has passed.
IsDueStrictly(t) == PipelineOf[t] \in enabled /\ nextRunAt[t] < clock /\ Free(t)

IsDue(t) == PipelineOf[t] \in enabled /\ nextRunAt[t] <= clock /\ Free(t)

\* ORDER BY next_run_at, id LIMIT limit.
Before(t, u) == nextRunAt[t] < nextRunAt[u] \/ (nextRunAt[t] = nextRunAt[u] /\ t < u)
Selected == LET d == {t \in Triggers : IsDue(t)}
            IN  {t \in d : Cardinality({u \in d : Before(u, t)}) < Limit}

SelectDue(s) ==
  /\ Idle(s) /\ Selected # {}
  /\ due' = [due EXCEPT ![s] = Selected]
  /\ trigLock' = [t \in Triggers |-> IF t \in Selected THEN s ELSE trigLock[t]]
  /\ lock' = [p \in Pipelines |-> IF \E t \in Selected : PipelineOf[t] = p THEN s ELSE lock[p]]
  /\ UNCHANGED <<clock, rowVars, claimed, toggles, claimFaults>>

\* Advance one trigger and create its run; createPipelineRunInTransaction
\* raises when the pipeline is not enabled.
ClaimOne(s) ==
  \E t \in due[s] :
    /\ \A u \in due[s] : u # t => Before(t, u)
    /\ PipelineOf[t] \in enabled
    /\ due' = [due EXCEPT ![s] = @ \ {t}]
    /\ claimed' = [claimed EXCEPT ![s] = @ \cup {<<t, nextRunAt[t]>>}]
    /\ UNCHANGED <<clock, rowVars, lockVars, toggles, claimFaults>>

Release(s) ==
  /\ lock' = [p \in Pipelines |-> IF lock[p] = s THEN Nobody ELSE lock[p]]
  /\ trigLock' = [t \in Triggers |-> IF trigLock[t] = s THEN Nobody ELSE trigLock[t]]
  /\ claimed' = [claimed EXCEPT ![s] = {}]
  /\ due' = [due EXCEPT ![s] = {}]

\* Faulty: the next occurrence after the clock, as a restarted cron would.
CalculateNextFromClock(o) == clock + 1

\* calculateNextScheduleRun: strictly after the prior scheduled time.
CalculateNextScheduleRun(o) == o + 1

Commit(s) ==
  /\ claimed[s] # {} /\ due[s] = {}
  /\ nextRunAt' = [t \in Triggers |->
                     LET mine == {c \in claimed[s] : c[1] = t}
                     IN  IF mine = {} THEN nextRunAt[t]
                         ELSE CalculateNextScheduleRun((CHOOSE c \in mine : TRUE)[2])]
  /\ runs' = [t \in Triggers |-> [o \in Occurrences |->
                runs[t][o] + IF <<t, o>> \in claimed[s] THEN 1 ELSE 0]]
  /\ Release(s)
  /\ UNCHANGED <<clock, enabled, toggles, claimFaults>>

\* Any statement may fail, and the instance may die: all of it is undone.
Rollback(s) ==
  /\ ~Idle(s) /\ claimFaults < MaxClaimFaults
  /\ claimFaults' = claimFaults + 1
  /\ Release(s)
  /\ UNCHANGED <<clock, rowVars, toggles>>

-----------------------------------------------------------------------------
Pass(s) == SelectDue(s) \/ ClaimOne(s) \/ Commit(s)

ScheduleNext ==
  \/ Tick
  \/ \E p \in Pipelines : Toggle(p)
  \/ \E s \in Schedulers : Pass(s) \/ Rollback(s)

ScheduleSpec == ScheduleInit /\ [][ScheduleNext]_scheduleVars

-----------------------------------------------------------------------------
(* Properties. *)

\* Concurrent schedulers never reserve the same occurrence, and an occurrence
\* is neither lost nor doubled by a failed pass: exactly the occurrences that
\* the trigger has advanced past have a run, one each (claimDueSchedules).
EachOccurrenceOnce ==
  \A t \in Triggers : \A o \in Occurrences : runs[t][o] = IF o < nextRunAt[t] THEN 1 ELSE 0

\* A pass never meets a pipeline that stopped being enabled since it selected
\* the trigger, which would undo the whole batch (the lock covers both rows).
BatchStaysEligible ==
  \A s \in Schedulers : \A t \in due[s] : PipelineOf[t] \in enabled

\* However many schedulers claim: one run for every occurrence passed, and no
\* pass whose batch must fail.
ScheduleInvariant == ScheduleTypeOK /\ EachOccurrenceOnce /\ BatchStaysEligible

\* No run is created before its occurrence is due, none for a pipeline that is
\* disabled when the pass commits.
RunsAreDue ==
  [][\A t \in Triggers : \A o \in Occurrences :
       runs'[t][o] # runs[t][o] => o <= clock /\ PipelineOf[t] \in enabled]_scheduleVars

\* Every due occurrence of an enabled pipeline is claimed, however far the
\* trigger is behind, or the pipeline is disabled first.
DueIsClaimed ==
  \A t \in Triggers : \A o \in Occurrences :
    (nextRunAt[t] <= o /\ o <= clock) ~> (nextRunAt[t] > o \/ PipelineOf[t] \notin enabled)

=============================================================================

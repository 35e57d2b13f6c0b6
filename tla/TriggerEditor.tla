--------------------------- MODULE TriggerEditor ---------------------------
(***************************************************************************)
(* The trigger panel of the pipeline editor: a draft of the pipeline's     *)
(* manual and schedule triggers, and the friendly controls that stand for  *)
(* the cron expressions of a common shape.                                 *)
(*                                                                         *)
(* A cron expression is abstracted to its five fields: a number (with or   *)
(* without leading zeros), a star, or anything else.  Other text that has  *)
(* no five fields has something else in each.  A save deletes the rows and *)
(* inserts new ones: a schedule keeps its number here, but the next        *)
(* occurrence its row had (next_run_at) and the trigger_id of the runs it  *)
(* caused go with the old row.  How saves and refetches of several tabs    *)
(* interleave is modelled in PipelineEditing.                              *)
(***************************************************************************)
EXTENDS Integers

CONSTANTS
  Star, Other,   \* fields that are no number
  Empty,         \* every field of the empty text
  Numbers,       \* numbers typed into a minute or hour control
  RawCrons,      \* expressions typed into the raw control, or stored by others
  Timezones,
  Ids,
  MaxTriggerEdits  \* bound: edits

ASSUME TriggersAssumption ==
  /\ Numbers \subseteq Int /\ {Star, Other, Empty} \cap Int = {}
  /\ Star # Other /\ Empty \notin {Star, Other}
  /\ Ids # {} /\ MaxTriggerEdits \in Nat

VARIABLES
  draft,    \* triggerDraft
  cached,   \* pipeline.triggers of the query cache
  stored,   \* the pipeline's trigger rows
  times,    \* the schedules whose row has a next_run_at, each as it was when the time was computed
  credited, \* the schedules that runs name in trigger_id, each as it was when the run was created
  runs,     \* of the pipeline: "none", "active" (queued or running), "ended" with their steps
  edited,   \* history: the draft was edited since it was seeded
  triggerEdits

runtimeVars == <<times, credited, runs>>
triggerVars == <<draft, cached, stored, runtimeVars, edited, triggerEdits>>

FieldValues == Int \cup {Star, Other, Empty}
Crons == [minute : FieldValues, hour : FieldValues, day : FieldValues, month : FieldValues, weekday : FieldValues]
FieldNames == {"minute", "hour", "day", "month", "weekday"}
Frequencies == {"hourly", "daily", "weekly", "custom"}
EmptyCron == [minute |-> Empty, hour |-> Empty, day |-> Empty, month |-> Empty, weekday |-> Empty]

ASSUME RawCronsAssumption == RawCrons \subseteq Crons

-----------------------------------------------------------------------------
(* Cron expressions and friendly schedules. *)

\* \d{1,2} and \d of the patterns
TwoDigits(f) == f \in 0..99
OneDigit(f) == f \in 0..9

Hourly(c) == TwoDigits(c.minute) /\ c.hour = Star /\ c.day = Star /\ c.month = Star /\ c.weekday = Star
Daily(c) == TwoDigits(c.minute) /\ TwoDigits(c.hour) /\ c.day = Star /\ c.month = Star /\ c.weekday = Star
Weekly(c) == TwoDigits(c.minute) /\ TwoDigits(c.hour) /\ c.day = Star /\ c.month = Star /\ OneDigit(c.weekday)

friendlyScheduleFromCron(c) ==
  CASE Hourly(c) -> [frequency |-> "hourly", minute |-> c.minute]
    [] Weekly(c) -> [frequency |-> "weekly", dayOfWeek |-> c.weekday, hour |-> c.hour, minute |-> c.minute]
    [] Daily(c) -> [frequency |-> "daily", hour |-> c.hour, minute |-> c.minute]
    [] OTHER -> [frequency |-> "custom", cron |-> c]

Cron(minute, hour, weekday) == [minute |-> minute, hour |-> hour, day |-> Star, month |-> Star, weekday |-> weekday]

\* Faulty: hour and minute are swapped where both are rendered.
cronWithHourFirst(s) ==
  CASE s.frequency = "hourly" -> Cron(s.minute, Star, Star)
    [] s.frequency = "daily" -> Cron(s.minute, s.hour, Star)
    [] s.frequency = "weekly" -> Cron(s.hour, s.minute, s.dayOfWeek)
    [] s.frequency = "custom" -> s.cron

cronFromFriendlySchedule(s) ==
  CASE s.frequency = "hourly" -> Cron(s.minute, Star, Star)
    [] s.frequency = "daily" -> Cron(s.minute, s.hour, Star)
    [] s.frequency = "weekly" -> Cron(s.minute, s.hour, s.dayOfWeek)
    [] s.frequency = "custom" -> s.cron

-----------------------------------------------------------------------------
(* The draft. *)

createPipelineTriggerDraft(rows) == [manual |-> rows.manual = "on", schedules |-> rows.schedules]

writablePipelineTriggersFromDraft(d) == [manual |-> IF d.manual THEN "on" ELSE "off", schedules |-> d.schedules]

TriggersInit ==
  /\ stored \in [manual : {"none", "on"},
                 schedules : {<<>>} \cup [{CHOOSE i \in Ids : TRUE} ->
                                [cron : RawCrons \ {EmptyCron}, enabled : BOOLEAN, timezone : Timezones]]]
  /\ cached = stored /\ draft = createPipelineTriggerDraft(stored)
  /\ times \in SUBSET {<<i, stored.schedules[i]>> : i \in DOMAIN stored.schedules}
  /\ credited = {} /\ runs = "none"
  /\ edited = FALSE /\ triggerEdits = 0

Edit(d) ==
  /\ triggerEdits < MaxTriggerEdits
  /\ draft' = d
  /\ edited' = TRUE /\ triggerEdits' = triggerEdits + 1
  /\ UNCHANGED <<cached, stored, runtimeVars>>

SetManual(on) == Edit([draft EXCEPT !.manual = on])

AddSchedule(i, zone) ==
  /\ i \in Ids \ DOMAIN draft.schedules
  /\ Edit([draft EXCEPT !.schedules =
             [j \in DOMAIN draft.schedules \cup {i} |->
                IF j = i THEN [cron |-> Cron(0, 0, Star), enabled |-> TRUE, timezone |-> zone]
                ELSE draft.schedules[j]]])

RemoveSchedule(i) ==
  /\ i \in DOMAIN draft.schedules
  /\ Edit([draft EXCEPT !.schedules = [j \in DOMAIN draft.schedules \ {i} |-> draft.schedules[j]]])

\* updatePipelineScheduleTrigger
Update(i, schedule) == Edit([draft EXCEPT !.schedules[i] = schedule])

ChangeCron(i, cron) == Update(i, [draft.schedules[i] EXCEPT !.cron = cron])
Friendly(i) == friendlyScheduleFromCron(draft.schedules[i].cron)

\* The number controls pass on whatever number is typed.
ChangeMinute(i, n) ==
  /\ i \in DOMAIN draft.schedules /\ Friendly(i).frequency # "custom"
  /\ ChangeCron(i, cronFromFriendlySchedule([Friendly(i) EXCEPT !.minute = n]))

ChangeHour(i, n) ==
  /\ i \in DOMAIN draft.schedules /\ Friendly(i).frequency \in {"daily", "weekly"}
  /\ ChangeCron(i, cronFromFriendlySchedule([Friendly(i) EXCEPT !.hour = n]))

ChangeDayOfWeek(i, n) ==
  /\ i \in DOMAIN draft.schedules /\ Friendly(i).frequency = "weekly"
  /\ ChangeCron(i, cronFromFriendlySchedule([Friendly(i) EXCEPT !.dayOfWeek = n]))

ChangeRaw(i, cron) ==
  /\ i \in DOMAIN draft.schedules /\ Friendly(i).frequency = "custom"
  /\ ChangeCron(i, cron)

\* changeFrequency: "custom" keeps the expression, so that nothing happens.
DefaultSchedule(i, frequency) ==
  CASE frequency = "custom" -> [frequency |-> "custom", cron |-> draft.schedules[i].cron]
    [] frequency = "hourly" -> [frequency |-> "hourly", minute |-> 0]
    [] frequency = "daily" -> [frequency |-> "daily", hour |-> 0, minute |-> 0]
    [] frequency = "weekly" -> [frequency |-> "weekly", dayOfWeek |-> 1, hour |-> 0, minute |-> 0]

ChangeFrequency(i, frequency) ==
  /\ i \in DOMAIN draft.schedules /\ Friendly(i).frequency # frequency
  /\ ChangeCron(i, cronFromFriendlySchedule(DefaultSchedule(i, frequency)))

ChangeSettings(i, enabled, zone) ==
  /\ i \in DOMAIN draft.schedules
  /\ Update(i, [draft.schedules[i] EXCEPT !.enabled = enabled, !.timezone = zone])

-----------------------------------------------------------------------------
(* Saving and loading. *)

\* Faulty: rows are updated in place and keep what the scheduler wrote.
updateTriggers(rows) == stored' = rows /\ UNCHANGED <<times, credited>>

\* Every row is deleted and inserted again without the scheduler's columns;
\* runs.trigger_id is ON DELETE SET NULL.
replaceTriggers(rows) == stored' = rows /\ times' = {} /\ credited' = {}

\* The request schema only refuses an empty expression.  A pipeline with a run
\* under way is locked.  After a run its components cannot be replaced, so that
\* only a save made before the editor had its graph goes through.  The answer
\* goes into the query cache.
Save(withGraph) ==
  /\ \A i \in DOMAIN draft.schedules : draft.schedules[i].cron # EmptyCron
  /\ runs \in (IF withGraph THEN {"none"} ELSE {"none", "ended"})
  /\ replaceTriggers(writablePipelineTriggersFromDraft(draft)) /\ cached' = stored'
  /\ draft' = createPipelineTriggerDraft(cached') /\ edited' = FALSE
  /\ UNCHANGED <<runs, triggerEdits>>

\* Somebody else saves other triggers ...
OtherSave(rows) ==
  /\ triggerEdits < MaxTriggerEdits /\ triggerEdits' = triggerEdits + 1
  /\ runs # "active" /\ replaceTriggers(rows)
  /\ UNCHANGED <<draft, cached, runs, edited>>

\* ... and the next fetch seeds the draft again.
Refetch ==
  /\ cached # stored
  /\ cached' = stored /\ draft' = createPipelineTriggerDraft(stored) /\ edited' = FALSE
  /\ UNCHANGED <<stored, runtimeVars, triggerEdits>>

\* claimDueSchedules computes the row's next time and creates a run of the trigger.
ClaimSchedule(i) ==
  /\ <<i, stored.schedules[i]>> \in times /\ stored.schedules[i].enabled
  /\ credited' = credited \cup {<<i, stored.schedules[i]>>} /\ runs' = "active"
  /\ UNCHANGED <<draft, cached, stored, times, edited, triggerEdits>>

RunsEnd ==
  /\ runs = "active" /\ runs' = "ended"
  /\ UNCHANGED <<draft, cached, stored, times, credited, edited, triggerEdits>>

TriggersNext ==
  \/ \E on \in BOOLEAN : SetManual(on)
  \/ \E i \in Ids, zone \in Timezones : AddSchedule(i, zone)
  \/ \E i \in Ids : RemoveSchedule(i)
  \/ \E i \in Ids, n \in Numbers : ChangeMinute(i, n) \/ ChangeHour(i, n)
  \/ \E i \in Ids, n \in 0..6 : ChangeDayOfWeek(i, n)
  \/ \E i \in Ids, cron \in RawCrons : ChangeRaw(i, cron)
  \/ \E i \in Ids, frequency \in Frequencies : ChangeFrequency(i, frequency)
  \/ \E i \in Ids, enabled \in BOOLEAN, zone \in Timezones : ChangeSettings(i, enabled, zone)
  \/ Refetch \/ RunsEnd
  \/ \E withGraph \in BOOLEAN : Save(withGraph)
  \/ \E i \in DOMAIN stored.schedules : ClaimSchedule(i)
  \/ OtherSave([manual |-> "off", schedules |-> <<>>])

TriggersSpec == TriggersInit /\ [][TriggersNext]_triggerVars

-----------------------------------------------------------------------------
(* Properties *)

TriggersTypeOK ==
  /\ draft.manual \in BOOLEAN /\ DOMAIN draft.schedules \subseteq Ids
  /\ \A i \in DOMAIN draft.schedules :
       /\ \A f \in FieldNames : draft.schedules[i].cron[f] \in FieldValues
       /\ draft.schedules[i].enabled \in BOOLEAN /\ draft.schedules[i].timezone \in Timezones
  /\ runs \in {"none", "active", "ended"}
  /\ edited \in BOOLEAN /\ triggerEdits \in 0..MaxTriggerEdits

\* What the controls show is what will be stored: rendering the friendly reading
\* of a schedule gives back its expression, whatever was typed.
FriendlyDescribesCron ==
  \A i \in DOMAIN draft.schedules : cronFromFriendlySchedule(Friendly(i)) = draft.schedules[i].cron

\* Opening the editor and saving writes back every schedule's expression, zone and
\* switch; a pipeline without a manual trigger gets one that is switched off.  It
\* is not neutral beyond that: the new rows have no time (replaceTriggers).
UneditedSaveKeepsDefinitions ==
  ~edited => LET rows == writablePipelineTriggersFromDraft(draft) IN
             /\ rows.schedules = cached.schedules
             /\ rows.manual = IF cached.manual = "none" THEN "off" ELSE cached.manual

\* A schedule is never fired at a time computed from an expression, zone or switch
\* that has been changed since, and the trigger a run names is still the schedule
\* that caused it, whatever was saved in between (replaceTriggers).
RuntimeFitsDefinition ==
  \A r \in times \cup credited : r[1] \in DOMAIN stored.schedules /\ stored.schedules[r[1]] = r[2]

TriggersInvariant ==
  TriggersTypeOK /\ FriendlyDescribesCron /\ UneditedSaveKeepsDefinitions /\ RuntimeFitsDefinition
=============================================================================

----------------------------- MODULE MCServices -----------------------------
(***************************************************************************)
(* The two services that work through rows on a timer, the garbage         *)
(* collector and the scheduler, on small instances.  They share no state,  *)
(* so which of the two a behaviour is about is fixed in Init, and the      *)
(* other stays where it started.  The collector is looked at twice: with   *)
(* objects of every kind, and with more uploads than one batch takes.      *)
(***************************************************************************)
EXTENDS Retention, ScheduleClaims

VARIABLE subject

\* Every Dataset and artifact belongs to run 1; triggers 1 and 2 to pipeline 1.
RunOne == [o \in RunObjects |-> 1]
TwoAndOne == <<1, 1, 2>>
SecondUpload == 6
Collecting == subject \in {"collector", "batches"}

Init == subject \in {"collector", "batches", "scheduler"} /\ RetentionInit /\ ScheduleInit

Next ==
    \/ subject = "collector" /\ RetentionNext /\ SecondUpload \notin files' /\ UNCHANGED <<subject, scheduleVars>>
    \/ subject = "batches" /\ RetentionNext /\ run' = run /\ UNCHANGED <<subject, scheduleVars>>
    \/ subject = "scheduler" /\ ScheduleNext /\ UNCHANGED <<subject, retentionVars>>

\* The collector's timer keeps starting passes and their promises settle, and
\* the clock reaches every expiry; a scheduler goes on with a pass it has
\* begun, and passes recur.
Fairness ==
    /\ \A p \in Passes : WF_retentionVars(Collecting /\ Collect(p))
    /\ \A o \in Objects : WF_retentionVars(Collecting /\ Expire(o))
    /\ \A r \in Runs : WF_retentionVars(Collecting /\ ExpireRun(r))
    /\ \A s \in Schedulers : WF_scheduleVars(subject = "scheduler" /\ Pass(s))

Spec == Init /\ [][Next]_<<subject, retentionVars, scheduleVars>> /\ Fairness
=============================================================================

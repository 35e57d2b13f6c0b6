--------------------------- MODULE MCRunLifecycle ---------------------------
(***************************************************************************)
(* The life of a run on small instances: the state machine of its pipeline *)
(* as the domain package promises it, and its cancellation by the workers. *)
(* They share no state, so which of the two a behaviour is about is fixed  *)
(* in Init, and the other stays where it started.                          *)
(***************************************************************************)
EXTENDS PipelineStateMachine, CooperativeCancellation

VARIABLE subject

LifecycleInit ==
  /\ subject \in {"machine", "cancellation"} /\ Init /\ CancellationInit
  /\ subject = "machine" => polls = {} /\ at = CHOOSE assignment \in [Workers -> Jobs] : TRUE
  /\ subject = "cancellation" => pipelineState = "enabled"

LifecycleNext ==
  \/ subject = "machine" /\ Next /\ UNCHANGED <<subject, cancellationVars>>
  \/ subject = "cancellation" /\ CancellationNext /\ UNCHANGED <<subject, vars>>

\* Worker threads keep running; nobody has to request, release or fail.
Fairness == \A w \in Workers : WF_cancellationVars(subject = "cancellation" /\ RunOnce(w))

LifecycleSpec == LifecycleInit /\ [][LifecycleNext]_<<subject, vars, cancellationVars>> /\ Fairness
=============================================================================

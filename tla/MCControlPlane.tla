--------------------------- MODULE MCControlPlane ---------------------------
(***************************************************************************)
(* What users do to a stored pipeline through the web application: the     *)
(* buttons that run, enable, disable or copy it, the editor that changes   *)
(* it, and requests that duplicate it meanwhile, on small instances.       *)
(* Which of them a behaviour is about is fixed in Init; the others stay    *)
(* where they started.                                                     *)
(***************************************************************************)
EXTENDS RunRequests, PipelineEditing

VARIABLE subject

Init ==
    /\ subject \in {"buttons", "editor", "copier"} /\ RequestInit /\ EditingInit
    /\ subject = "buttons" => row.sched = "none" /\ row.steps = "a"
    /\ subject # "buttons" => state = "enabled" /\ executable

Quiet(readers) == \A r \in readers : reading'[r] = reading[r]

Next ==
    \/ subject = "buttons" /\ RequestNext /\ UNCHANGED <<subject, editingVars>>
    \/ subject = "editor" /\ EditingNext /\ Quiet(Copiers) /\ UNCHANGED <<subject, requestVars>>
    \/ subject = "copier" /\ EditingNext /\ Quiet(Editors) /\ UNCHANGED <<subject, requestVars>>

\* Servers answer what they have received; nobody has to click or edit.
Fairness == \A n \in Requests : WF_requestVars(subject = "buttons" /\ Serve(n))

Spec == Init /\ [][Next]_<<subject, requestVars, editingVars>> /\ Fairness
=============================================================================

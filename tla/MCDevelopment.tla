--------------------------- MODULE MCDevelopment ---------------------------
(***************************************************************************)
(* The development scripts, the local-stack supervisor and the adoption of *)
(* the migration history, on small instances.  They share no state, so     *)
(* which of the two a behaviour is about is fixed in Init, and the other   *)
(* stays where it started.                                                 *)
(***************************************************************************)
EXTENDS DevelopmentStack, MigrationAdoption

VARIABLE subject

Init ==
    /\ subject \in {"stack", "migration"} /\ StackInit /\ MigrationInit
    /\ subject = "stack" => Recorded = Migrations
    /\ subject = "migration" => resets = {}

Next ==
    \/ subject = "stack" /\ StackNext /\ UNCHANGED <<subject, migrationVars>>
    \/ subject = "migration" /\ MigrationNext /\ UNCHANGED <<subject, stackVars>>

\* A process that can run runs, but nobody has to begin, interrupt, kill or
\* exit; migrations run to their end, and the operator repeats the ones that
\* failed.
Fairness ==
    /\ \A c \in Cmds : WF_stackVars(subject = "stack" /\ Step(c))
    /\ \A g \in Groups : WF_stackVars(subject = "stack" /\ Listen(g))
    /\ \A r \in Runners : /\ WF_migrationVars(subject = "migration" /\ Apply(r))
                          /\ WF_migrationVars(subject = "migration" /\ Repeat(r))

Spec == Init /\ [][Next]_<<subject, stackVars, migrationVars>> /\ Fairness
=============================================================================

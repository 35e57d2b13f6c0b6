-------------------------- MODULE MCPipelineGraphs --------------------------
(***************************************************************************)
(* Graphs and drafts of pipelines over a small catalogue: their shapes,    *)
(* their configuration, requests of callers other than the browser, and    *)
(* the wizard.  Which of them a behaviour is about is fixed in Init, and   *)
(* bounds what is built; the others stay where they started.               *)
(***************************************************************************)
EXTENDS PipelineGraphBuilder, PipelineBuilder

VARIABLE subject

\* Two Sources of different families, a Transform and an Export that take both,
\* and an Export with a required value, an optional one and a required secret.
Component(kind, inputs, outputs, fields) ==
    [kind |-> kind, inputs |-> inputs, outputs |-> outputs, fields |-> fields]
FieldsOf(keys, secret, control) ==
    [k \in keys |-> [required |-> k # "opt", secret |-> k \in secret, control |-> control]]
SmallCatalog ==
    [t \in {"csv", "json", "rename", "file", "postgres"} |->
        CASE t = "csv" -> Component("source", {}, {"tabular"}, FieldsOf({}, {}, "text"))
          [] t = "json" -> Component("source", {}, {"document"}, FieldsOf({}, {}, "text"))
          [] t = "rename" -> Component("transform", {"tabular", "document"}, {"tabular"}, FieldsOf({"opt"}, {}, "select"))
          [] t = "file" -> Component("export", {"tabular", "document"}, {}, FieldsOf({}, {}, "text"))
          [] t = "postgres" -> Component("export", {"tabular"}, {}, FieldsOf({"req", "opt", "url"}, {"url"}, "json"))]

\* The worker has no JSON Source, as create_execution_service leaves it out.
WorkerComponents == {"csv", "rename", "file", "postgres"}

Init ==
    /\ subject \in {"shapes", "configurations", "requests", "wizard"} /\ GraphInit /\ WizardInit
    /\ caller = IF subject = "requests" THEN "api" ELSE "browser"

TypesUsed(g) == {g.steps[i].type : i \in DOMAIN g.steps}
OfThreeSteps(g) ==
    /\ Len(g.steps) <= 3 /\ Len(g.edges) <= 3 /\ StepIds(g) \subseteq 1..3
    /\ \A i \in DOMAIN g.edges : {g.edges[i].from, g.edges[i].to} \subseteq 1..3

\* Identifiers are only names: a shape lists Sources, Transforms, Exports.
KindsInOrder(g) ==
    \A i, j \in DOMAIN g.steps : i < j =>
        <<g.steps[i].kind, g.steps[j].kind>> \notin
            {<<"transform", "source">>, <<"export", "source">>, <<"export", "transform">>}

\* Shapes leave the configuration alone and configurations the longer graphs;
\* other callers use every identifier and kind, and one component.
WithinSubject ==
    \/ subject = "shapes" /\ configured' = 0 /\ KindsInOrder(graph') /\ TypesUsed(graph') \cap {"json", "file"} = {}
    \/ subject = "configurations" /\ "file" \notin TypesUsed(graph') /\ OfThreeSteps(graph') /\ Len(graph'.edges) <= 2
    \/ subject = "requests" /\ configured' = 0 /\ OfThreeSteps(graph') /\ TypesUsed(graph') \subseteq {"rename"}

\* The wizard is offered one Export, which not every chain can feed.
OneExport == \A g \in {Content(draft')} \cup {store'[p] : p \in DOMAIN store'} : "file" \notin TypesUsed(g)

\* The longest drafts are looked at without lost replies and runs.
LongestAlone == edits' = MaxEdits => lostReplies' = 0 /\ ran' = {}

Next ==
    \/ GraphNext /\ WithinSubject /\ UNCHANGED <<subject, wizardVars>>
    \/ subject = "wizard" /\ WizardNext /\ OneExport /\ LongestAlone /\ UNCHANGED <<subject, graphVars>>

Spec == Init /\ [][Next]_<<subject, graphVars, wizardVars>>
=============================================================================

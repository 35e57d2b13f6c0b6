------------------------ MODULE PipelineGraphBuilder ------------------------
(***************************************************************************)
(* Every graph of at most MaxSteps steps and MaxEdges edges, built one row *)
(* at a time, as the steps and edges of a create or update request.  A     *)
(* browser labels a step with its component's own kind, gives it a fresh   *)
(* identifier and writes only the values its controls can produce; another *)
(* caller of the API need do none of that.                                 *)
(***************************************************************************)
EXTENDS PipelineGraphs

CONSTANTS
    MaxSteps,   \* steps of a graph
    MaxEdges,   \* edges of a graph
    MaxConfig   \* values and bindings set in one graph

VARIABLES
    graph,
    configured, \* how many configuration edits the graph has had
    caller      \* who sends it: "browser" or "api"

graphVars == <<graph, configured, caller>>
AnyCaller == caller = "api"

ASSUME GraphAssumption ==
    /\ MaxSteps \in Nat /\ MaxEdges \in Nat /\ MaxConfig \in Nat

Steps == [id : 1..MaxSteps, kind : Kinds, type : DOMAIN Catalog,
          values : [Keys -> ValueClasses], bindings : SUBSET Keys]
Edges == [from : 1..MaxSteps, to : 1..MaxSteps]

GraphTypeOK ==
    /\ DOMAIN graph = {"steps", "edges"}
    /\ Len(graph.steps) <= MaxSteps
    /\ \A i \in DOMAIN graph.steps : graph.steps[i] \in Steps
    /\ Len(graph.edges) <= MaxEdges
    /\ \A i \in DOMAIN graph.edges : graph.edges[i] \in Edges
    /\ configured \in 0..MaxConfig /\ caller \in {"browser", "api"}

GraphInit ==
    /\ graph = [steps |-> <<>>, edges |-> <<>>] /\ configured = 0
    /\ caller \in {"browser", "api"}

AddStep ==
    /\ Len(graph.steps) < MaxSteps
    /\ \E id \in 1..MaxSteps, kind \in Kinds, type \in DOMAIN Catalog :
        /\ AnyCaller \/ (id = Len(graph.steps) + 1 /\ kind = Catalog[type].kind)
        /\ graph' = [graph EXCEPT !.steps =
                        Append(@, [id |-> id, kind |-> kind, type |-> type,
                                   values |-> [k \in Keys |-> "none"], bindings |-> {}])]
    /\ UNCHANGED <<configured, caller>>

\* Edges in one canonical order: no judgement depends on the order of rows.
AddEdge ==
    /\ Len(graph.edges) < MaxEdges
    /\ \E from, to \in 1..MaxSteps :
        /\ LET code(e) == e.from * MaxSteps + e.to
           IN  graph.edges # <<>> => code(Last(graph.edges)) <= from * MaxSteps + to
        /\ graph' = [graph EXCEPT !.edges = Append(@, [from |-> from, to |-> to])]
    /\ UNCHANGED <<configured, caller>>

\* What a control of the configuration form hands on: a cleared text, number
\* or select is no value at all, a checkbox is TRUE or FALSE, and a JSON box
\* passes null and "" on as written and holds back what does not parse.
FormValues(field) ==
    IF field.control = "json" THEN {"none", "null", "empty", "fits"} ELSE {"none", "fits"}
\* Secret and undeclared keys never leave the form.
SanitizedKeys(s) == {k \in DOMAIN Catalog[s.type].fields : ~ Catalog[s.type].fields[k].secret}

SetValue ==
    /\ configured < MaxConfig
    /\ \E i \in DOMAIN graph.steps :
       \E k \in IF AnyCaller THEN Keys ELSE SanitizedKeys(graph.steps[i]) :
       \E v \in IF AnyCaller THEN ValueClasses ELSE FormValues(Catalog[graph.steps[i].type].fields[k]) :
            graph' = [graph EXCEPT !.steps[i].values[k] = v]
    /\ configured' = configured + 1 /\ UNCHANGED caller

BindSecret ==
    /\ configured < MaxConfig
    /\ \E i \in DOMAIN graph.steps, k \in Keys :
        /\ AnyCaller \/ k \in DOMAIN Catalog[graph.steps[i].type].fields \ SanitizedKeys(graph.steps[i])
        /\ graph' = [graph EXCEPT !.steps[i].bindings = @ \cup {k}]
    /\ configured' = configured + 1 /\ UNCHANGED caller

GraphNext == AddStep \/ AddEdge \/ SetValue \/ BindSecret

GraphSpec == GraphInit /\ [][GraphNext]_graphVars

-----------------------------------------------------------------------------
(* Reference definitions: no traversal, only paths. *)

EdgeSet(g) == {<<g.edges[i].from, g.edges[i].to>> : i \in DOMAIN g.edges}
\* <<a, b>> with a path of at least one edge from a to b: Warshall's relation,
\* one intermediate step at a time.
PathRelation(g) ==
    LET closed[n \in 0..MaxSteps] ==
            IF n = 0 THEN EdgeSet(g)
            ELSE closed[n - 1] \cup
                 {<<a, b>> \in (1..MaxSteps) \X (1..MaxSteps) :
                      <<a, n>> \in closed[n - 1] /\ <<n, b>> \in closed[n - 1]}
    IN  closed[MaxSteps]

IdsOfKind(g, kind) == {s.id : s \in Range(StepsOfKind(g, kind))}

\* Distinct steps, distinct edges between them, no path from a step to itself,
\* and every step other than a Source after one and other than an Export
\* before one.
IsSourceToExportGraph(g) ==
    LET paths == PathRelation(g) IN
    /\ \A i, j \in DOMAIN g.steps : g.steps[i].id = g.steps[j].id => i = j
    /\ \A i, j \in DOMAIN g.edges : g.edges[i] = g.edges[j] => i = j
    /\ \A e \in EdgeSet(g) : e[1] \in StepIds(g) /\ e[2] \in StepIds(g)
    /\ g.steps # <<>>
    /\ \A s \in StepIds(g) :
        /\ <<s, s>> \notin paths
        /\ (s \notin IdsOfKind(g, "source")) <=> \E o \in IdsOfKind(g, "source") : <<o, s>> \in paths
        /\ (s \notin IdsOfKind(g, "export")) <=> \E x \in IdsOfKind(g, "export") : <<s, x>> \in paths
        /\ s \in IdsOfKind(g, "source") => ~ \E r \in StepIds(g) : <<r, s>> \in paths
        /\ s \in IdsOfKind(g, "export") => ~ \E r \in StepIds(g) : <<s, r>> \in paths

-----------------------------------------------------------------------------
(* Properties *)

\* validatePipelineGraph accepts exactly the graphs in which every step lies on
\* a path from a Source to an Export and none lies on a cycle: its worklist
\* traversals in both directions and its depth-first cycle walk miss nothing,
\* also with repeated identifiers, repeated edges and edges to unknown steps.
ValidGraphsArePaths == ValidatePipelineGraph(graph) <=> IsSourceToExportGraph(graph)

\* The worker's plan loop has no visited set, so a cycle it can enter would
\* hang the worker: no graph that validation lets into the database has one,
\* from any of its Sources.
PlanAlwaysEnds ==
    ValidatePipelineGraph(graph) =>
        \A id \in IdsOfKind(graph, "source") : ~ PlanNeverEnds(graph, id)

\* An enabled pipeline can be run: for every stored graph that
\* checkPipelineExecutable passes, the worker's _linear_plan orders all of its
\* steps along the edges, from the Source to the Export.
ExecutableGraphsHaveAPlan ==
    (ValidatePipelineGraph(graph) /\ AssertPipelineExecutable(graph)) =>
        LET plan == LinearPlan(graph, StepsOfKind(graph, "source")[1].id) IN
        /\ Range(plan) = StepIds(graph)
        /\ \A i \in 1..(Len(plan) - 1) : <<plan[i], plan[i + 1]>> \in EdgeSet(graph)

\* And a linear Source-to-Export chain is never refused for its shape: what a
\* worker could plan, and whose steps the catalogue offers, is executable
\* unless a component, a value or a pair of families stands in the way.
PlannableGraphsAreExecutable ==
    (ValidatePipelineGraph(graph) /\ \E id \in StepIds(graph) : LinearPlan(graph, id) # <<>>) =>
        \A v \in CheckPipelineExecutable(graph) :
            v.kind \in {"unavailable-component", "missing-config-value",
                        "missing-secret-binding", "incompatible-adjacent-steps"}

\* A pipeline sent by the browser that checkPipelineExecutable passes fails
\* before its first component starts for one reason only, a component the worker
\* does not register: every other step of it is resolved by the registry of its
\* kind and passes the worker's own configuration check.
ExecutableStepsAreAccepted ==
    (caller = "browser" /\ ValidatePipelineGraph(graph) /\ AssertPipelineExecutable(graph)) =>
        \A i \in DOMAIN graph.steps :
            WorkerAccepts(graph.steps[i]) <=> graph.steps[i].type \in Registered

\* Control plane and worker agree on a graph: planning ends, and what the one
\* enables the other can plan and, as far as it registers the components,
\* execute, no less and no more.
ExecutableMeansRunnable ==
    /\ GraphTypeOK /\ PlanAlwaysEnds /\ ExecutableGraphsHaveAPlan
    /\ PlannableGraphsAreExecutable /\ ExecutableStepsAreAccepted

\* What is stored is what is made of paths from a Source to an Export, and what
\* is enabled is what can be planned and, with registered components, executed.
JudgementsAgree == ValidGraphsArePaths /\ ExecutableMeansRunnable
=============================================================================

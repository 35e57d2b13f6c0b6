--------------------------- MODULE PipelineGraphs ---------------------------
(***************************************************************************)
(* The three judgements the program passes on one pipeline graph:          *)
(*   - validatePipelineGraph, before a graph is written                    *)
(*     (packages/database/src/pipelines/create.ts);                        *)
(*   - checkPipelineExecutable, before a pipeline is enabled               *)
(*     (packages/pipeline/src/executable-validation.ts);                   *)
(*   - _linear_plan and the component registries, when a worker runs it    *)
(*     (workers/python/execution.py, registries.py).                       *)
(* They are written twice, in two languages, over the same rows; nothing   *)
(* in the repository compares them.  This module translates each as the    *)
(* traversal the code performs; PipelineGraphBuilder builds every small    *)
(* graph and compares them with one another and with definitions that      *)
(* traverse nothing.                                                       *)
(***************************************************************************)
EXTENDS PipelineTopology

CONSTANT Registered  \* the component types create_execution_service registers

ASSUME RegisteredAssumption == Registered \subseteq DOMAIN Catalog

-----------------------------------------------------------------------------
(* validatePipelineGraph *)

\* The worklist traversal: `pending` is a stack, edges are followed from
\* `from` to `to`.  Reversing a graph's edges traverses towards the Sources.
RECURSIVE VisitGraph(_, _, _)
VisitGraph(g, pending, visited) ==
    IF pending = <<>> THEN visited
    ELSE IF Last(pending) \in visited THEN VisitGraph(g, Front(pending), visited)
    ELSE LET out == Outgoing(g, Last(pending))
         IN  VisitGraph(g,
                        Front(pending) \o [i \in DOMAIN out |-> out[i].to],
                        visited \cup {Last(pending)})

Reversed(g) ==
    [g EXCEPT !.edges = [i \in DOMAIN g.edges |-> [from |-> g.edges[i].to, to |-> g.edges[i].from]]]

Ids(steps) == [i \in DOMAIN steps |-> steps[i].id]

\* The recursive depth-first walk: `visiting` is the current path, `visited`
\* the steps whose successors are all done.
RECURSIVE WalkForCycle(_, _, _, _)
WalkForCycle(g, ids, visiting, found) ==
    IF ids = <<>> \/ found.cycle THEN found
    ELSE LET id == Head(ids)
             out == Outgoing(g, id)
             below == WalkForCycle(g, [i \in DOMAIN out |-> out[i].to], visiting \cup {id}, found)
         IN  CASE id \in visiting -> [found EXCEPT !.cycle = TRUE]
               [] id \notin visiting /\ id \in found.visited -> WalkForCycle(g, Tail(ids), visiting, found)
               [] OTHER -> WalkForCycle(g, Tail(ids), visiting,
                                        [below EXCEPT !.visited = @ \cup {id}])

AssertNoCycle(g) ==
    ~ WalkForCycle(g, Ids(StepsOfKind(g, "source")), {}, [cycle |-> FALSE, visited |-> {}]).cycle

\* Faulty: the cycle walk is left out, because every step was already found on
\* a path from a Source to an Export.
ConnectsWithoutWalk(g) ==
    /\ StepIds(g) \subseteq VisitGraph(g, Ids(StepsOfKind(g, "source")), {})
    /\ StepIds(g) \subseteq VisitGraph(Reversed(g), Ids(StepsOfKind(g, "export")), {})
ConnectsSourcesToExports(g) ==
    /\ StepIds(g) \subseteq VisitGraph(g, Ids(StepsOfKind(g, "source")), {})
    /\ StepIds(g) \subseteq VisitGraph(Reversed(g), Ids(StepsOfKind(g, "export")), {})
    /\ AssertNoCycle(g)

ValidatePipelineGraph(g) == StepsAndEdgesAreValid(g) /\ ConnectsSourcesToExports(g)

-----------------------------------------------------------------------------
(* checkPipelineExecutable *)

RECURSIVE WalkLinearChain(_, _, _)
WalkLinearChain(g, current, chain) ==
    LET out == Outgoing(g, current)
    IN  IF \E i \in DOMAIN chain : chain[i] = current THEN chain
        ELSE IF Len(out) # 1 THEN Append(chain, current)
        ELSE WalkLinearChain(g, out[1].to, Append(chain, current))

HasConfigValue(s, k) == s.values[k] \notin {"none", "null", "empty"}
CheckStepConfiguration(s, metadata) ==
    {[kind |-> "missing-secret-binding", at |-> <<s.id, k>>] :
        k \in {k \in DOMAIN metadata.fields :
                   metadata.fields[k].required /\ metadata.fields[k].secret /\ k \notin s.bindings}}
    \cup
    {[kind |-> "missing-config-value", at |-> <<s.id, k>>] :
        k \in {k \in DOMAIN metadata.fields :
                   metadata.fields[k].required /\ ~ metadata.fields[k].secret /\ ~ HasConfigValue(s, k)}}

Available(g, id) == id \in StepIds(g) /\ StepById(g, id).type \in DOMAIN Catalog
MetadataOf(g, id) == Catalog[StepById(g, id).type]

CheckChainConnectivity(g, sourceId) ==
    LET chain == WalkLinearChain(g, sourceId, <<>>) IN
    {[kind |-> "disconnected-step", at |-> <<id>>] : id \in StepIds(g) \ Range(chain)}
    \cup
    {[kind |-> "incompatible-adjacent-steps", at |-> <<chain[i], chain[i + 1]>>] :
        i \in {i \in 1..(Len(chain) - 1) :
                  /\ Available(g, chain[i]) /\ Available(g, chain[i + 1])
                  /\ ~ CheckComponentCompatibility(MetadataOf(g, chain[i]), MetadataOf(g, chain[i + 1]))}}

BranchingSteps(g) == {id \in StepIds(g) : Len(Outgoing(g, id)) > 1 \/ Len(Incoming(g, id)) > 1}

\* The number of Sources (or Exports) as a violation of its own.
CountViolation(g, kind) ==
    LET n == Len(StepsOfKind(g, kind)) IN
    IF n = 0 THEN {[kind |-> "missing", at |-> <<kind>>]}
    ELSE IF n > 1 THEN {[kind |-> "multiple", at |-> <<kind>>]}
    ELSE {}

CheckPipelineExecutable(g) ==
    LET sources == StepsOfKind(g, "source")
        checkStep(s) ==
            IF s.type \in DOMAIN Catalog
            THEN CheckStepConfiguration(s, Catalog[s.type])
            ELSE {[kind |-> "unavailable-component", at |-> <<s.id>>]}
    IN  CountViolation(g, "source") \cup CountViolation(g, "export")
        \cup {[kind |-> "branching-step", at |-> <<id>>] : id \in BranchingSteps(g)}
        \cup UNION {checkStep(g.steps[i]) : i \in DOMAIN g.steps}
        \cup (IF sources # <<>> /\ Len(StepsOfKind(g, "export")) = 1
              THEN CheckChainConnectivity(g, sources[1].id) ELSE {})

AssertPipelineExecutable(g) == CheckPipelineExecutable(g) = {}

-----------------------------------------------------------------------------
(* The worker: _linear_plan, ComponentRegistry.resolve, validate_configuration *)

EdgesAreLinear(g) ==
    \A i \in DOMAIN g.edges :
        /\ g.edges[i].from \in StepIds(g) /\ g.edges[i].to \in StepIds(g)
        /\ \A j \in 1..(i - 1) : g.edges[j].from # g.edges[i].from /\ g.edges[j].to # g.edges[i].to

\* `while current in by_id` has no visited set.  Every step has one successor
\* here, so a walk longer than the graph is one that never ends.
RECURSIVE FollowPlan(_, _, _)
FollowPlan(g, current, ordered) ==
    IF Len(ordered) > Len(g.steps) THEN ordered
    ELSE LET out == Outgoing(g, current)
         IN  IF out = <<>> THEN Append(ordered, current)
             ELSE FollowPlan(g, out[1].to, Append(ordered, current))

PlanNeverEnds(g, sourceId) ==
    /\ sourceId \in StepIds(g) /\ StepById(g, sourceId).kind = "source"
    /\ EdgesAreLinear(g)
    /\ Len(FollowPlan(g, sourceId, <<>>)) > Len(g.steps)

\* <<>> is PipelineExecutionError.
LinearPlan(g, sourceId) ==
    LET ordered == FollowPlan(g, sourceId, <<>>) IN
    IF /\ sourceId \in StepIds(g) /\ StepById(g, sourceId).kind = "source"
       /\ EdgesAreLinear(g)
       /\ Len(ordered) = Cardinality(StepIds(g))
       /\ StepById(g, Last(ordered)).kind = "export"
       /\ \A i \in 2..(Len(ordered) - 1) : StepById(g, ordered[i]).kind = "transform"
    THEN ordered ELSE <<>>

\* The registry of the step's kind holds only the registered components of that
\* kind; the Catalog lists every one compiled into the release.
Resolve(s) == s.type \in Registered /\ Catalog[s.type].kind = s.kind
ValidateConfiguration(s) ==
    LET fields == Catalog[s.type].fields IN
    \A k \in Keys :
        /\ s.values[k] # "none" => k \in DOMAIN fields
        /\ k \in DOMAIN fields =>
            /\ ~ (fields[k].secret /\ s.values[k] # "none")
            /\ ~ (fields[k].required /\ ~ fields[k].secret /\ s.values[k] = "none")
            /\ s.values[k] # "misfits"
            /\ s.values[k] = "empty" => fields[k].control \in {"text", "json"}
WorkerAccepts(s) == Resolve(s) /\ ValidateConfiguration(s)
=============================================================================

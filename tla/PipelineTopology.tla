-------------------------- MODULE PipelineTopology --------------------------
(***************************************************************************)
(* What every judgement on a pipeline graph is made of: the installed      *)
(* components, the indexes of packages/pipeline/src/topology.ts, the part  *)
(* of validatePipelineGraph that looks at one step or edge at a time       *)
(* (packages/database/src/pipelines/create.ts), and the compatibility of   *)
(* two components (packages/pipeline/src/compatibility.ts).  The           *)
(* traversals are in PipelineGraphs.                                       *)
(*                                                                         *)
(* A graph is [steps, edges]: rows in the order they were read, so an      *)
(* identifier or an edge may repeat.                                       *)
(***************************************************************************)
EXTENDS Naturals, Sequences, FiniteSets, SequencesExt

CONSTANTS
    Keys,       \* configuration keys
    Catalog     \* installed components: type -> [kind, inputs, outputs, fields]

Kinds == {"source", "transform", "export"}
Families == {"tabular", "document", "any"}
Controls == {"text", "number", "boolean", "select", "json"}
Fields == [required : BOOLEAN, secret : BOOLEAN, control : Controls]

\* What a step's configuration holds under a key: nothing, null, an empty
\* string, a value of the field's control, or a value of another type.
ValueClasses == {"none", "null", "empty", "fits", "misfits"}

ASSUME CatalogAssumption ==
    \A t \in DOMAIN Catalog :
        /\ Catalog[t].kind \in Kinds
        /\ Catalog[t].inputs \subseteq Families
        /\ Catalog[t].outputs \subseteq Families
        /\ DOMAIN Catalog[t].fields \subseteq Keys
        /\ \A k \in DOMAIN Catalog[t].fields : Catalog[t].fields[k] \in Fields

-----------------------------------------------------------------------------
(* buildPipelineTopology *)

StepIds(g) == {g.steps[i].id : i \in DOMAIN g.steps}
\* A Map keeps the last step of a repeated identifier.
StepById(g, id) ==
    g.steps[CHOOSE i \in DOMAIN g.steps :
               /\ g.steps[i].id = id
               /\ \A j \in DOMAIN g.steps : j > i => g.steps[j].id # id]
Outgoing(g, id) == SelectSeq(g.edges, LAMBDA e : e.from = id)
Incoming(g, id) == SelectSeq(g.edges, LAMBDA e : e.to = id)
StepsOfKind(g, kind) == SelectSeq(g.steps, LAMBDA s : s.kind = kind)

-----------------------------------------------------------------------------
(* validatePipelineGraph, without assertGraphConnectsSourcesToExports *)

EdgesAreDirected(g) ==
    \A i \in DOMAIN g.edges : LET e == g.edges[i] IN
        /\ e.from \in StepIds(g) /\ e.to \in StepIds(g)
        /\ e.from # e.to
        /\ \A j \in 1..(i - 1) : g.edges[j] # e
        /\ StepById(g, e.from).kind # "export"
        /\ StepById(g, e.to).kind # "source"

StepsAndEdgesAreValid(g) ==
    LET hasIn(s)  == \E i \in DOMAIN g.edges : g.edges[i].to = s.id
        hasOut(s) == \E i \in DOMAIN g.edges : g.edges[i].from = s.id
    IN
    /\ Cardinality(StepIds(g)) = Len(g.steps)
    /\ EdgesAreDirected(g)
    /\ \A kind \in {"source", "export"} : \E i \in DOMAIN g.steps : g.steps[i].kind = kind
    /\ \A i \in DOMAIN g.steps : LET s == g.steps[i] IN
        /\ hasIn(s) <=> s.kind # "source"
        /\ hasOut(s) <=> s.kind # "export"

-----------------------------------------------------------------------------
(* checkComponentCompatibility *)

FamiliesAreCompatible(output, input) == output = "any" \/ input = "any" \/ output = input
SupportedFamilies(outputs, inputs) ==
    {IF p[1] = "any" THEN p[2] ELSE p[1] :
        p \in {q \in outputs \X inputs : FamiliesAreCompatible(q[1], q[2])}}
CheckComponentCompatibility(up, down) ==
    /\ up.kind # "export"
    /\ down.kind # "source"
    /\ SupportedFamilies(up.outputs, down.inputs) # {}
=============================================================================

--------------------------- MODULE PipelineBuilder --------------------------
(***************************************************************************)
(* The pipeline creation wizard and what becomes of its draft:             *)
(*   - the draft and its edits (pipeline-builder-draft.ts), saved from     *)
(*     pipeline-builder-wizard.tsx and resumed by pipeline-builder-page.tsx;*)
(*   - the conversion of a draft to a graph and back                       *)
(*     (pipeline-builder-graph.ts, pipeline-builder-persistence.ts);       *)
(*   - the create and update requests in the database                      *)
(*     (packages/database/src/pipelines/create.ts, update.ts).             *)
(* A reply may be lost, and the request behind it be served much later;    *)
(* rows come back in any order; behind the wizard's back other pages       *)
(* update, delete or run the pipeline and write localStorage.              *)
(*                                                                         *)
(* A slot of the draft (Source, Export) is a sequence of at most one       *)
(* selection; 0 is "no pipeline", and a pipeline bears the number of the   *)
(* save that created it.  One save is waited for at a time.                *)
(***************************************************************************)
EXTENDS PipelineTopology

CONSTANTS
    Values,             \* configurations a component can be given
    DefaultValue,       \* the empty configuration
    MaxEdits,           \* edits of the drafts
    MaxSaves,           \* saves, and so pipelines and requests
    MaxLostReplies,     \* lost replies
    Connects(_)         \* assertGraphConnectsSourcesToExports of PipelineGraphs

VARIABLES
    draft, pipelineId,  \* wizard state
    storage,            \* localStorage: the pipeline this browser last created
    saving,             \* the save the wizard waits for
    late,               \* requests nobody waits for any more, not yet served
    store,              \* pipeline rows with their components and edges
    ran,                \* pipelines with run history
    opened,             \* saves made before the page was opened
    current,            \* rows that are as this page last read or saved them
    overtaken,          \* was the draft edited during a save since it was loaded?
    ids, edits, saves, lostReplies

wizardVars == <<draft, pipelineId, storage, saving, late, store, ran, opened, current, overtaken, ids, edits, saves,
                lostReplies>>
counters == <<ids, edits, saves, lostReplies>>

ASSUME WizardAssumption ==
    /\ DefaultValue \in Values
    /\ {MaxEdits, MaxSaves, MaxLostReplies} \subseteq Nat

Types(kind) == {t \in DOMAIN Catalog : Catalog[t].kind = kind}
Selections == [id : 1..MaxEdits, type : DOMAIN Catalog, values : Values]
Graphs(g) ==
    /\ DOMAIN g = {"named", "steps", "edges"} /\ g.named \in BOOLEAN
    /\ \A i \in DOMAIN g.steps : g.steps[i].id \in 1..MaxEdits /\ g.steps[i].kind \in Kinds
    /\ \A i \in DOMAIN g.edges : {g.edges[i].from, g.edges[i].to} \subseteq 1..MaxEdits
Outcomes == {"sent", "ok", "invalid", "conflict", "missing", "lost"}

WizardTypeOK ==
    /\ draft.dirty \in BOOLEAN /\ draft.named \in BOOLEAN
    /\ \A part \in {draft.source, draft.transforms, draft.export} :
        \A i \in DOMAIN part : part[i] \in Selections
    /\ Len(draft.source) <= 1 /\ Len(draft.export) <= 1
    /\ {pipelineId, storage} \subseteq 0..MaxSaves
    /\ saving = <<>> \/ (Graphs(saving.graph) /\ saving.outcome \in Outcomes)
    /\ \A r \in late : Graphs(r.graph) /\ r.target \in 0..MaxSaves /\ r.number \in 1..MaxSaves
    /\ DOMAIN store \subseteq 1..MaxSaves /\ \A p \in DOMAIN store : Graphs(store[p])
    /\ ran \subseteq DOMAIN store /\ opened \in 0..MaxSaves /\ current \subseteq 1..MaxSaves /\ overtaken \in BOOLEAN
    /\ ids \in 0..MaxEdits /\ edits \in 0..MaxEdits /\ saves \in 0..MaxSaves /\ lostReplies \in 0..MaxLostReplies

-----------------------------------------------------------------------------
(* Draft to graph: pipeline-builder-graph.ts *)

PipelineStepFromSelection(s) ==
    [id |-> s.id, kind |-> Catalog[s.type].kind, type |-> s.type, values |-> s.values]
DerivePipelineBuilderSteps(d) ==
    LET selections == d.source \o d.transforms \o d.export
    IN  [i \in DOMAIN selections |-> PipelineStepFromSelection(selections[i])]
DerivePipelineBuilderEdges(steps) ==
    [i \in 1..(IF steps = <<>> THEN 0 ELSE Len(steps) - 1) |-> [from |-> steps[i].id, to |-> steps[i + 1].id]]
DerivePipelineBuilderGraph(d) ==
    LET steps == DerivePipelineBuilderSteps(d)
    IN  [named |-> d.named, steps |-> steps, edges |-> DerivePipelineBuilderEdges(steps)]

(* Graph to draft: pipeline-builder-persistence.ts.  `rows` are the component rows in any order. *)

\* One round of the loop.  Maps keep the last edge of a step and the last row
\* of an identifier.
FollowEdge(rows, edges, ordered) ==
    LET g == [steps |-> rows, edges |-> edges]
        out == {e \in DOMAIN edges : edges[e].from = Last(ordered).id}
    IN  IF out # {} /\ edges[Max(out)].to \in StepIds(g)
        THEN Append(ordered, StepById(g, edges[Max(out)].to))
        ELSE ordered

\* Faulty: rows are trusted to come back in the order they were written.
RowsAsTheyCome(rows, edges) == rows
\* A stored graph has no cycle: the loop ends within as many rounds as there
\* are rows.
OrderStepsByEdges(rows, edges) ==
    LET heads == {i \in DOMAIN rows : \A e \in DOMAIN edges : edges[e].to # rows[i].id}
        ordered[n \in DOMAIN rows] ==
            IF n = 1 THEN <<rows[Min(heads)]>> ELSE FollowEdge(rows, edges, ordered[n - 1])
    IN  IF heads = {} THEN rows ELSE ordered[Len(rows)]

SelectionFromStep(s) == [id |-> s.id, type |-> s.type, values |-> s.values]
SelectionsOfKind(steps, kind) ==
    LET kept[n \in 0..Len(steps)] ==
            IF n = 0 THEN <<>>
            ELSE IF Catalog[steps[n].type].kind = kind
            THEN Append(kept[n - 1], SelectionFromStep(steps[n]))
            ELSE kept[n - 1]
    IN  kept[Len(steps)]

CreatePipelineBuilderDraftFromPipeline(g, rows) ==
    LET ordered == OrderStepsByEdges(rows, g.edges)
        find(kind) ==
            LET found == SelectionsOfKind(ordered, kind)
            IN  IF found = <<>> THEN <<>> ELSE <<found[1]>>
    IN  [dirty |-> FALSE, named |-> g.named, source |-> find("source"),
         transforms |-> SelectionsOfKind(ordered, "transform"), export |-> find("export")]

\* The orders a query without ORDER BY may return.
Orders(steps) == {[i \in DOMAIN steps |-> steps[f[i]]] : f \in Bijection(DOMAIN steps, DOMAIN steps)}

IsPipelineBuilderDraftPersistable(d) == d.named /\ d.source \o d.transforms \o d.export # <<>>

EmptyDraft == [dirty |-> FALSE, named |-> FALSE, source |-> <<>>, transforms |-> <<>>, export |-> <<>>]

WizardInit ==
    /\ draft = EmptyDraft /\ pipelineId = 0 /\ storage = 0
    /\ saving = <<>> /\ late = {}
    /\ store = [p \in {} |-> EmptyDraft] /\ ran = {} /\ opened = 0 /\ current = {}
    /\ overtaken = FALSE /\ ids = 0 /\ edits = 0 /\ saves = 0 /\ lostReplies = 0

-----------------------------------------------------------------------------
(* Edits *)

NextPipelineBuilderComponentSelection(slot, type, fresh) ==
    IF slot # <<>> /\ slot[1].type = type THEN slot
    ELSE <<[id |-> IF slot = <<>> THEN fresh ELSE slot[1].id, type |-> type, values |-> DefaultValue]>>

\* The picker offers any Source, and after it only what the chain's tail feeds.
PipelineBuilderChainTail(d) ==
    IF d.transforms # <<>> THEN <<Last(d.transforms).type>>
    ELSE IF d.source # <<>> THEN <<d.source[1].type>> ELSE <<>>
PickerOffers(d, type) ==
    LET tail == PipelineBuilderChainTail(d)
    IN  tail # <<>> => CheckComponentCompatibility(Catalog[tail[1]], Catalog[type])

SetName(d, named) == [d EXCEPT !.named = named]
SetSource(d, type) == [d EXCEPT !.source = NextPipelineBuilderComponentSelection(@, type, ids + 1)]
SetExport(d, type) == [d EXCEPT !.export = NextPipelineBuilderComponentSelection(@, type, ids + 1)]
SetSourceValues(d, v) == [d EXCEPT !.source[1].values = v]
SetExportValues(d, v) == [d EXCEPT !.export[1].values = v]
AddTransform(d, type) ==
    [d EXCEPT !.transforms = Append(@, [id |-> ids + 1, type |-> type, values |-> DefaultValue])]
SetTransformValues(d, i, v) == [d EXCEPT !.transforms[i].values = v]
RemoveTransform(d, i) == [d EXCEPT !.transforms = RemoveAt(@, i)]
\* "down" of one Transform is "up" of the next: one swap stands for both.
MoveTransform(d, i) ==
    [d EXCEPT !.transforms[i] = d.transforms[i + 1], !.transforms[i + 1] = d.transforms[i]]

\* The drafts one edit away from d, with and without a fresh identifier.
EditsWithFreshId(d) ==
    {SetSource(d, t) : t \in Types("source")}
    \cup {AddTransform(d, t) : t \in {u \in Types("transform") : PickerOffers(d, u)}}
    \cup {SetExport(d, t) : t \in {u \in Types("export") : PickerOffers(d, u)}}
EditsInPlace(d) ==
    {SetName(d, named) : named \in BOOLEAN \ {d.named}}
    \cup {SetSourceValues(d, v) : v \in {w \in Values : d.source # <<>> /\ w # d.source[1].values}}
    \cup {SetExportValues(d, v) : v \in {w \in Values : d.export # <<>> /\ w # d.export[1].values}}
    \cup {RemoveTransform(d, i) : i \in DOMAIN d.transforms}
    \cup {MoveTransform(d, i) : i \in {j \in DOMAIN d.transforms : j + 1 \in DOMAIN d.transforms}}
    \cup UNION {{SetTransformValues(d, i, v) : v \in Values \ {d.transforms[i].values}} : i \in DOMAIN d.transforms}

\* Every edit marks the draft dirty; beside it, the identifiers then in use.
UpdatePipelineBuilderDraft(d) == [d EXCEPT !.dirty = TRUE]
Edits(d) ==
    {<<UpdatePipelineBuilderDraft(e), ids + 1>> : e \in EditsWithFreshId(d)}
    \cup {<<UpdatePipelineBuilderDraft(e), ids>> : e \in EditsInPlace(d)}
Edited(newIds) == ids' = newIds /\ edits' = edits + 1

Edit ==
    /\ edits < MaxEdits
    /\ \E e \in Edits(draft) : draft' = e[1] /\ Edited(e[2])
    /\ overtaken' = (overtaken \/ saving # <<>>)
    /\ UNCHANGED <<pipelineId, storage, saving, late, store, ran, opened, current, saves, lostReplies>>

-----------------------------------------------------------------------------
(* The server *)

\* validatePipelineGraph
Accepts(g) == StepsAndEdgesAreValid(g) /\ Connects(g)

\* Component identifiers come from the browser and are the primary key of
\* pipeline_components: the ones taken by pipelines other than p.
TakenIds(p) == UNION {StepIds(store[q]) : q \in DOMAIN store \ {p}}

\* createPipeline: one transaction inserts all or nothing.
CreateOutcome(g) ==
    IF ~ Accepts(g) THEN "invalid" ELSE IF StepIds(g) \cap TakenIds(0) # {} THEN "conflict" ELSE "ok"

\* updatePipeline with steps and edges: the old components are deleted first,
\* which the run history of any of them forbids.
UpdateOutcome(p, g) ==
    IF p \notin DOMAIN store THEN "missing" ELSE IF ~ Accepts(g) THEN "invalid"
    ELSE IF p \in ran \/ StepIds(g) \cap TakenIds(p) # {} THEN "conflict" ELSE "ok"

\* A request r is a create (target 0) or an update; the row it writes, and the
\* rows once it was served.
ServerOutcome(r) == IF r.target = 0 THEN CreateOutcome(r.graph) ELSE UpdateOutcome(r.target, r.graph)
RowOf(r) == IF r.target = 0 THEN r.number ELSE r.target
Written(p, g) == [q \in DOMAIN store \cup {p} |-> IF q = p THEN g ELSE store[q]]

-----------------------------------------------------------------------------
(* Saving *)

Save ==
    /\ IsPipelineBuilderDraftPersistable(draft) /\ saving = <<>> /\ saves < MaxSaves
    /\ saving' = [target |-> pipelineId, graph |-> DerivePipelineBuilderGraph(draft),
                  number |-> saves + 1, outcome |-> "sent"]
    /\ saves' = saves + 1
    /\ UNCHANGED <<draft, pipelineId, storage, late, store, ran, opened, current, overtaken, ids, edits, lostReplies>>

ServeSave ==
    /\ saving # <<>> /\ saving.outcome = "sent"
    /\ LET p == RowOf(saving)
           outcome == ServerOutcome(saving) IN
       IF outcome = "ok"
       THEN /\ store' = Written(p, saving.graph) /\ current' = current \cup {p}
            /\ saving' = [saving EXCEPT !.outcome = "ok", !.target = p]
       ELSE /\ saving' = [saving EXCEPT !.outcome = outcome]
            /\ UNCHANGED <<store, current>>
    /\ UNCHANGED <<draft, pipelineId, storage, late, ran, opened, overtaken, counters>>

\* The connection breaks: the wait is over, but a request that was not served
\* still may be.
Unserved == IF saving # <<>> /\ saving.outcome = "sent"
            THEN {[target |-> saving.target, graph |-> saving.graph, number |-> saving.number]} ELSE {}
LoseReply ==
    /\ saving # <<>> /\ saving.outcome # "lost" /\ lostReplies < MaxLostReplies
    /\ late' = late \cup Unserved
    /\ saving' = [saving EXCEPT !.outcome = "lost"]
    /\ lostReplies' = lostReplies + 1
    /\ UNCHANGED <<draft, pipelineId, storage, store, ran, opened, current, overtaken, ids, edits, saves>>

ServeLate(r) ==
    /\ late' = late \ {r}
    /\ IF ServerOutcome(r) = "ok"
       THEN store' = Written(RowOf(r), r.graph) /\ current' = current \ {RowOf(r)}
       ELSE UNCHANGED <<store, current>>
    /\ UNCHANGED <<draft, pipelineId, storage, saving, ran, opened, overtaken, counters>>

\* The draft as it is when the reply arrives is marked saved; a failure leaves
\* the draft as it is.
FinishWizardSave ==
    /\ saving # <<>> /\ saving.outcome # "sent"
    /\ IF saving.outcome = "ok"
       THEN /\ pipelineId' = saving.target
            /\ storage' = IF pipelineId = 0 THEN saving.target ELSE storage
            /\ draft' = [draft EXCEPT !.dirty = FALSE]
       ELSE UNCHANGED <<pipelineId, storage, draft>>
    /\ saving' = <<>>
    /\ UNCHANGED <<late, store, ran, opened, current, overtaken, counters>>

\* Leaving the page, perhaps during a save, and coming back: the wizard resumes
\* the pipeline named by localStorage; when that leads nowhere, or a query it
\* needs fails, it forgets the name and starts empty.
Resume ==
    /\ storage \in DOMAIN store
    /\ \E rows \in Orders(store[storage].steps) :
           draft' = CreatePipelineBuilderDraftFromPipeline(store[storage], rows)
    /\ pipelineId' = storage /\ current' = {storage}
    /\ UNCHANGED storage
StartEmpty == draft' = EmptyDraft /\ pipelineId' = 0 /\ storage' = 0 /\ current' = {}
Reload ==
    /\ Resume \/ StartEmpty
    /\ saving' = <<>> /\ late' = late \cup Unserved
    /\ opened' = saves /\ overtaken' = FALSE
    /\ UNCHANGED <<store, ran, counters>>

(* Other pages and users *)

\* A render after a failed query, of this page or of another tab, forgets the
\* name, even one that a save has stored since.
ForgetStoredId ==
    /\ storage # 0 /\ storage' = 0
    /\ UNCHANGED <<draft, pipelineId, saving, late, store, ran, opened, current, overtaken, counters>>
\* Another wizard or the pipeline editor saves the pipeline with one change.
UpdateByAnother(p) ==
    /\ p \notin ran /\ edits < MaxEdits
    /\ \E e \in Edits(CreatePipelineBuilderDraftFromPipeline(store[p], store[p].steps)) :
        LET g == DerivePipelineBuilderGraph(e[1]) IN
        UpdateOutcome(p, g) = "ok" /\ store' = Written(p, g) /\ Edited(e[2])
    /\ current' = current \ {p}
    /\ UNCHANGED <<draft, pipelineId, storage, saving, late, ran, opened, overtaken, saves, lostReplies>>
RunPipeline(p) ==
    /\ p \notin ran
    /\ ran' = ran \cup {p}
    /\ UNCHANGED <<draft, pipelineId, storage, saving, late, store, opened, current, overtaken, counters>>
DeleteByAnother(p) ==
    /\ p \notin ran
    /\ store' = [q \in DOMAIN store \ {p} |-> store[q]]
    /\ UNCHANGED <<draft, pipelineId, storage, saving, late, ran, opened, current, overtaken, counters>>

WizardNext ==
    \/ Edit \/ Save \/ ServeSave \/ LoseReply \/ FinishWizardSave \/ Reload \/ ForgetStoredId
    \/ \E r \in late : ServeLate(r)
    \/ \E p \in DOMAIN store : UpdateByAnother(p) \/ RunPipeline(p) \/ DeleteByAnother(p)

WizardSpec == WizardInit /\ [][WizardNext]_wizardVars

-----------------------------------------------------------------------------
(* Properties *)

Content(d) == DerivePipelineBuilderGraph(d)

\* Resuming a saved pipeline restores the draft exactly, in whatever order the
\* database returns its component rows: ordering the rows by their edges
\* inverts the derivation of edges from the order of the slots.
ResumeRestoresDraft ==
    \A p \in DOMAIN store : \A rows \in Orders(store[p].steps) :
        Content(CreatePipelineBuilderDraftFromPipeline(store[p], rows)) = store[p]

\* However many replies are lost and saves retried or served late, whatever is
\* reselected in between and whoever else edits the pipeline, one visit to the
\* wizard leaves at most one pipeline: Source and Export keep their slot's
\* identifier, so a second insert of the same draft hits the primary key.
OneVisitOnePipeline == Cardinality({p \in DOMAIN store : p > opened}) <= 1

\* A draft that is not marked dirty and belongs to a stored pipeline is what is
\* stored, with two exceptions: the user went on editing while a save was under
\* way, or the row was written since by another page or by a request of this
\* one that it no longer waited for.
CleanMeansSaved ==
    (~ draft.dirty /\ ~ overtaken /\ pipelineId \in DOMAIN store \cap current /\ saving = <<>>)
    => Content(draft) = store[pipelineId]

\* The draft and what is stored agree wherever the wizard says so, and a visit
\* leaves one pipeline behind.
WizardInvariant == WizardTypeOK /\ ResumeRestoresDraft /\ OneVisitOnePipeline /\ CleanMeansSaved
=============================================================================

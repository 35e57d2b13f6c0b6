--------------------------- MODULE PipelineEditing --------------------------
(***************************************************************************)
(* One stored pipeline and everyone who changes it:                        *)
(*   - browser tabs with pipeline-editor.tsx open, which read the pipeline,*)
(*     keep a graph draft and a trigger draft, and save both;              *)
(*   - callers of PATCH with some of the fields (detail.ts, update.ts);    *)
(*   - duplication, which reads the pipeline and creates a copy            *)
(*     (duplicate.ts, portability.ts), and deletion (delete.ts);           *)
(*   - runs, which lock it while active and leave history behind.          *)
(* An update or a deletion is one transaction under the pipeline's row     *)
(* lock.  A read is not: getPipeline reads the pipeline, its components,   *)
(* its edges and its triggers in four statements of their own.             *)
(*                                                                         *)
(* Steps are abstracted to which step identifiers there are, their shape,  *)
(* and edges to the shape they join into a valid graph: validation accepts *)
(* them together exactly when the two are equal.  The triggers are one     *)
(* schedule, absent, off or on; its rows get new identifiers whenever they *)
(* are replaced, which `gen` numbers.  Deletion cascades to the children.  *)
(***************************************************************************)
EXTENDS Naturals, FiniteSets

CONSTANTS
    Editors,       \* browser tabs with the editor open
    Copiers,    \* duplicate requests
    Shapes,     \* graphs that differ in their steps
    MaxWrites,  \* saves and updates, which also number trigger rows
    MaxRuns,    \* runs of the pipeline
    MaxReads    \* reads by each reader

Readers == Editors \cup Copiers
Schedules == {"none", "off", "on"}
PipelineStates == {"draft", "enabled", "disabled"}
Parts == {"steps", "edges", "triggers"}
Versions == 0..MaxWrites
Unread == "unread"
Gone == "gone"
Stored == Shapes \cup {Gone}
Seen == Stored \cup {Unread}
Drafts == Shapes \cup {Unread}

ASSUME EditingAssumption ==
    /\ IsFiniteSet(Editors) /\ IsFiniteSet(Copiers) /\ Editors \cap Copiers = {}
    /\ Shapes # {} /\ Shapes \cap {"unread", "gone"} = {}
    /\ {MaxWrites, MaxRuns, MaxReads} \subseteq Nat

VARIABLES
    row,        \* [exists, state, steps, edges, sched, gen]
    run,        \* "none", "queued", "running": the active run
    history,    \* shapes of graphs that runs still refer to
    runs,       \* how many runs there were
    reading,    \* reader -> the parts read so far
    tab,        \* tab -> [graph, sched, gen]
    request,    \* tab -> the save in flight
    copies,     \* duplicated graphs
    writes, reads

editingVars == <<row, run, history, runs, reading, tab, request, copies, writes, reads>>

Idle == [phase |-> "idle", steps |-> Unread, edges |-> Unread, sched |-> "unread", gen |-> 0]
NoSave == [phase |-> "none", steps |-> Unread, sched |-> "none", gen |-> 0]

EditingTypeOK ==
    /\ row \in [exists : BOOLEAN, state : PipelineStates, steps : Stored, edges : Stored,
               sched : Schedules, gen : 0..MaxWrites + 1]
    /\ run \in {"none", "queued", "running"} /\ history \subseteq Shapes /\ runs \in 0..MaxRuns
    /\ reading \in [Readers -> [phase : {"idle", "reading"}, steps : Seen, edges : Seen,
                                sched : Schedules \cup {"unread"}, gen : 0..MaxWrites + 1]]
    /\ tab \in [Editors -> [graph : Drafts, sched : Schedules, gen : 0..MaxWrites + 1]]
    /\ request \in [Editors -> [phase : {"none", "sent", "ok", "locked", "invalid", "failed", "missing"},
                             steps : Drafts, sched : Schedules, gen : Versions]]
    /\ copies \subseteq [steps : Stored, edges : Stored, sched : {"none", "off"}]
    /\ writes \in Versions /\ reads \in [Readers -> 0..MaxReads]

\* createPipeline: a draft, with whatever schedule the request has.
EditingInit ==
    /\ \E shape \in Shapes, sched \in Schedules :
        row = [exists |-> TRUE, state |-> "draft", steps |-> shape, edges |-> shape,
               sched |-> sched, gen |-> 0]
    /\ run = "none" /\ history = {} /\ runs = 0
    /\ reading = [r \in Readers |-> Idle]
    /\ tab = [t \in Editors |-> [graph |-> Unread, sched |-> "none", gen |-> 0]]
    /\ request = [t \in Editors |-> NoSave]
    /\ copies = {}
    /\ writes = 0 /\ reads = [r \in Readers |-> 0]

-----------------------------------------------------------------------------
(* Reading: getPipeline *)

BeginRead(r) ==
    /\ reading[r].phase = "idle" /\ row.exists /\ reads[r] < MaxReads
    /\ reading' = [reading EXCEPT ![r] = [Idle EXCEPT !.phase = "reading"]]
    /\ reads' = [reads EXCEPT ![r] = @ + 1]
    /\ UNCHANGED <<row, run, history, runs, tab, request, copies, writes>>

\* The three child queries run concurrently, each with a snapshot of its own.
ReadPart(r, part) ==
    /\ reading[r].phase = "reading"
    /\ \/ /\ part = "steps" /\ reading[r].steps = Unread
          /\ reading' = [reading EXCEPT ![r].steps = row.steps]
       \/ /\ part = "edges" /\ reading[r].edges = Unread
          /\ reading' = [reading EXCEPT ![r].edges = row.edges]
       \/ /\ part = "triggers" /\ reading[r].sched = "unread"
          /\ reading' = [reading EXCEPT ![r].sched = row.sched, ![r].gen = row.gen]
    /\ UNCHANGED <<row, run, history, runs, tab, request, copies, writes, reads>>

\* hydratePipeline accepts any steps and edges, but not a pipeline without steps.
AllRead(r) ==
    /\ reading[r].phase = "reading"
    /\ reading[r].steps # Unread /\ reading[r].edges # Unread /\ reading[r].sched # "unread"
Complete(r) == AllRead(r) /\ reading[r].steps # Gone
FailRead(r) ==
    /\ AllRead(r) /\ ~ Complete(r)
    /\ reading' = [reading EXCEPT ![r] = Idle]
    /\ UNCHANGED <<row, run, history, runs, tab, request, copies, writes, reads>>

\* The effects of new detail data: the trigger draft follows the stored rows
\* whenever they change, the graph draft is seeded once per pipeline.
Seeded(t, steps, sched, gen) ==
    LET old == tab[t] IN
    [graph |-> IF old.graph = Unread THEN steps ELSE old.graph,
     sched |-> IF old.graph = Unread \/ gen # old.gen THEN sched ELSE old.sched,
     gen |-> gen]

ShowDetail(t) ==
    /\ Complete(t)
    /\ tab' = [tab EXCEPT ![t] = Seeded(t, reading[t].steps, reading[t].sched, reading[t].gen)]
    /\ reading' = [reading EXCEPT ![t] = Idle]
    /\ UNCHANGED <<row, run, history, runs, request, copies, writes, reads>>

\* duplicatePipeline: a draft with new identifiers for every step, no secret
\* bindings and every trigger off.  An edge whose step was not read is an error,
\* and createPipeline refuses steps that the edges do not join.
CopyDisabledTrigger(sched) == IF sched = "none" THEN "none" ELSE "off"
Joined(graph) == graph.steps = graph.edges
DuplicatePipeline(c) ==
    LET source == reading[c] IN
    /\ Complete(c)
    /\ copies' = IF Joined(source)
                 THEN copies \cup {[steps |-> source.steps, edges |-> source.edges,
                                    sched |-> CopyDisabledTrigger(source.sched)]}
                 ELSE copies
    /\ reading' = [reading EXCEPT ![c] = Idle]
    /\ UNCHANGED <<row, run, history, runs, tab, request, writes, reads>>

-----------------------------------------------------------------------------
(* The editor *)

EditGraph(t) ==
    /\ tab[t].graph # Unread
    /\ \E shape \in Shapes \ {tab[t].graph} : tab' = [tab EXCEPT ![t].graph = shape]
    /\ UNCHANGED <<row, run, history, runs, reading, request, copies, writes, reads>>

EditTriggers(t) ==
    /\ tab[t].graph # Unread
    /\ \E sched \in Schedules \ {tab[t].sched} :
        tab' = [tab EXCEPT ![t].sched = sched]
    /\ UNCHANGED <<row, run, history, runs, reading, request, copies, writes, reads>>

\* Every save carries the graph and the triggers, changed or not.
SaveDraft(t) ==
    /\ tab[t].graph # Unread /\ request[t].phase = "none" /\ writes < MaxWrites
    /\ request' = [request EXCEPT ![t] = [phase |-> "sent", steps |-> tab[t].graph,
                                               sched |-> tab[t].sched, gen |-> writes + 1]]
    /\ writes' = writes + 1
    /\ UNCHANGED <<row, run, history, runs, reading, tab, copies, reads>>

-----------------------------------------------------------------------------
(* updatePipeline *)

\* Faulty: only a running run locks the pipeline.
RunningRun == run = "running"
FindActiveRun == run \in {"queued", "running"}

\* Replacing the steps deletes every component first, and deleting one that a
\* run step or a job refers to is refused (ON DELETE RESTRICT).
ReplacingIsRestricted == history # {}

\* Only the tables named by the update are replaced, except that replacing the
\* steps rewrites the edges too.  Replaced triggers are new rows.
InsertEdges(old, parts, edges) == [old EXCEPT !.edges = IF {"steps", "edges"} \cap parts # {} THEN edges ELSE @]
ReplaceTriggers(old, parts, sched, gen) ==
    IF "triggers" \in parts THEN [old EXCEPT !.sched = sched, !.gen = gen] ELSE old
ReplaceGraphRecords(parts, steps, edges, sched, gen) ==
    LET replaced == [row EXCEPT !.steps = IF "steps" \in parts THEN steps ELSE @]
    IN  ReplaceTriggers(InsertEdges(replaced, parts, edges), parts, sched, gen)

\* validatePipelineGraph on the merged graph.
\* Faulty: the request is validated, not the graph that results from it.
RequestFits(parts, steps, edges) == {"steps", "edges"} \subseteq parts => steps = edges
MergedFits(parts, steps, edges) ==
    Joined([steps |-> IF "steps" \in parts THEN steps ELSE row.steps,
            edges |-> IF "edges" \in parts THEN edges ELSE row.edges])

\* The early returns and errors of the transaction, in its order.
Outcome(parts, steps, edges) ==
    IF ~ row.exists THEN "missing"
    ELSE IF FindActiveRun THEN "locked"
    ELSE IF ~ MergedFits(parts, steps, edges) THEN "invalid"
    ELSE IF "steps" \in parts /\ ReplacingIsRestricted THEN "failed" ELSE "ok"

UpdateFromTab(t) ==
    LET steps == request[t].steps
        outcome == Outcome(Parts, steps, steps)
    IN
    /\ request[t].phase = "sent"
    /\ request' = [request EXCEPT ![t].phase = outcome]
    /\ IF outcome = "ok"
       THEN row' = ReplaceGraphRecords(Parts, steps, steps, request[t].sched, request[t].gen)
       ELSE UNCHANGED row
    /\ UNCHANGED <<run, history, runs, reading, tab, copies, writes, reads>>

\* A PATCH that names some of the fields, and is not refused.
PatchFields(parts, shape, sched) ==
    /\ writes < MaxWrites /\ Outcome(parts, shape, shape) = "ok"
    /\ row' = ReplaceGraphRecords(parts, shape, IF "edges" \in parts THEN shape ELSE row.edges, sched, writes + 1)
    /\ writes' = writes + 1
    /\ UNCHANGED <<run, history, runs, reading, tab, request, copies, reads>>

\* The reply is written to the detail cache, which drives the same effects as a
\* read; a failure leaves both drafts as they are.
FinishSave(t) ==
    /\ request[t].phase \notin {"none", "sent"}
    /\ tab' = IF request[t].phase = "ok"
              THEN [tab EXCEPT ![t] = Seeded(t, request[t].steps, request[t].sched, request[t].gen)]
              ELSE tab
    /\ request' = [request EXCEPT ![t] = NoSave]
    /\ UNCHANGED <<row, run, history, runs, reading, copies, writes, reads>>

Deletable == ~ FindActiveRun /\ history = {}
DeletePipeline ==
    /\ row.exists /\ Deletable
    /\ row' = [row EXCEPT !.exists = FALSE, !.steps = Gone, !.edges = Gone, !.sched = "none", !.gen = MaxWrites + 1]
    /\ UNCHANGED <<run, history, runs, reading, tab, request, copies, writes, reads>>

-----------------------------------------------------------------------------
(* State changes and runs *)

SetState(state) ==
    /\ row.exists /\ ~ FindActiveRun /\ state # row.state
    /\ row' = [row EXCEPT !.state = state]
    /\ UNCHANGED <<run, history, runs, reading, tab, request, copies, writes, reads>>

QueueRun ==
    /\ row.exists /\ row.state = "enabled" /\ run = "none" /\ runs < MaxRuns
    /\ run' = "queued" /\ runs' = runs + 1
    /\ history' = history \cup {row.steps}
    /\ UNCHANGED <<row, reading, tab, request, copies, writes, reads>>
StartRun ==
    /\ run = "queued" /\ run' = "running"
    /\ UNCHANGED <<row, history, runs, reading, tab, request, copies, writes, reads>>
EndRun ==
    /\ run # "none" /\ run' = "none"
    /\ UNCHANGED <<row, history, runs, reading, tab, request, copies, writes, reads>>
ExpireHistory ==
    /\ run = "none" /\ history # {} /\ history' = {}
    /\ UNCHANGED <<row, run, runs, reading, tab, request, copies, writes, reads>>

EditingNext ==
    \/ \E r \in Readers : BeginRead(r) \/ FailRead(r) \/ \E part \in Parts : ReadPart(r, part)
    \/ \E t \in Editors : ShowDetail(t) \/ EditGraph(t) \/ EditTriggers(t) \/ SaveDraft(t)
                       \/ UpdateFromTab(t) \/ FinishSave(t)
    \/ \E c \in Copiers : DuplicatePipeline(c)
    \/ DeletePipeline
    \/ \E parts \in SUBSET Parts \ {{}}, shape \in Shapes, sched \in Schedules : PatchFields(parts, shape, sched)
    \/ \E state \in PipelineStates : SetState(state)
    \/ QueueRun \/ StartRun \/ EndRun \/ ExpireHistory

EditingSpec == EditingInit /\ [][EditingNext]_editingVars

-----------------------------------------------------------------------------
(* Properties *)

\* Whoever writes which fields in which order, the stored edges join the stored
\* steps: a partial update is validated against the fields it leaves alone.
StoredGraphFits == row.steps = row.edges

\* Whatever updates run between the statements of its read, a copy is a graph
\* that createPipeline accepts: its edges join its steps.
CopiesFit == \A c \in copies : c.steps = c.edges

\* Every graph a retained run refers to is still the stored one: no update or
\* deletion removes a step that has run history, so a run's steps can always
\* be shown.
HistoryKeepsItsGraph == \A shape \in history : row.exists /\ row.steps = shape

\* Stored graphs are whole, those of copies too, and those of run history stay.
EditingInvariant == EditingTypeOK /\ StoredGraphFits /\ CopiesFit /\ HistoryKeepsItsGraph

\* While a run is queued or running, the graph, the triggers and the state of
\* its pipeline stay as they are.
ActiveRunFreezesPipeline == [][run # "none" => row' = row]_editingVars

\* "Atomically updates an idle pipeline graph owned by the authenticated user."
\* (update.ts:45): a valid save of an idle pipeline is not refused.
IdleUpdateSucceeds == \A t \in Editors : request[t].phase # "failed"
=============================================================================
